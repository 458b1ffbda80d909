# Verification of VISION / AASC: TLA+ models, TLC runs and TLAPS proofs

This directory holds the formal models of the platform in `src/`: a set of
Python services (FastAPI, LangGraph, NATS JetStream, Postgres) in which agents
take a software project from requirements to deployment. The models are
translated from the code; every definition that stands for code is listed, with
its lines, under `map` in `PROJECT.json`.

## 1. The system

### Components, their state and their operations

| Component | State | Operations | What makes it correct |
|---|---|---|---|
| **Repository Service** (`services/repository`): managers, GitHub adapter, rows, audit log | the provider's branches, commits, pull requests and releases; rows; the append-only `repository_events`; the events on NATS | create repository; create and delete branch; commit; create, approve and merge a pull request; create and roll back a release | nothing unapproved is merged, nothing twice; rows and log never claim what the provider did not do; no commit is overwritten |
| **W-Repo** (`services/repository/workflows`) | the checkpointed `RepositoryState` | validate, branch, commit, open, approval (interrupt), merge, release, publish, retry, escalate | completion means merged, by the reviewer's decision; a retry does not repeat effects |
| **Manager, W01 lifecycle** (`services/manager`) | the checkpointed `LifecycleState`; requests in flight | start, approve, reject, completion events, pipelines | gates are passed by approvals given at them; revisions are bounded |
| **Manager, W12 delegation**; the graphs of the departments | graph state, per superstep | plan, fan out, review, gate, retry, escalate, dead letter | what completes went through its gates; every loop has a way out |
| **Product** (`services/product`) | rows of its documents, announcements | four writers, a reviewer and a lead in sequence, submission | a package announced for approval is whole |
| **Architecture** (`services/architecture`) | the task's context, rows, traceability gaps | leads and workers, trace, review, submit | a run announces a design it made itself, traced and reviewed as it stands, and leaves it under review |
| **Engineering** (`services/engineering`) | work items, reviews, the integration branch | batches, review, refactor, commit, pull request | the branch holds gated work of one run |
| **QA**, **Security** (`services/qa`, `services/security`) | the results of concurrent workers in one shared context | run, evaluate, announce, ask for a retry | no result is lost; a retry request follows its evidence |
| **DevOps** (`services/devops`) | gate results per project, deployment rows, releases | barrier, plan, approve, deploy, check, release, roll back | released or rolled back; starts spend their passes |
| **Monitoring** (`services/monitoring`) | streaks, alert stamps, open incidents | collect, score, alert, decide incidents | an incident was critical for the configured cycles |
| **Incident Response** (`services/incident_response`) | tasks, incident rows | analyze, recover, communicate, finalize; close | each started run ends with its row; closed stays closed |
| **Agent runtime** (`core/runtime`) | artifacts and their versions, announcements, the review | `run`, `ReviewCycle.run`, `create_artifact` | versions are unique; what is announced was stored |
| **LLM registry, router, budget** (`core/llm`, `context_builder`) | adapters, selections, the token ledger | register, select, attempt, record, snapshot | a model is only downgraded by a spent budget; the ledger never exceeds what was paid |
| **Messaging** (`infrastructure/messaging`) | durable consumers, the process's subscriptions | publish, deliver, handle, ack, nak, reconnect | what is acknowledged was handled; everything is settled |
| **WebSocket manager** (`infrastructure/websocket`) | sockets per project | connect, serve, broadcast, ping, prune | live sockets are reached, the gone are unregistered |
| **Plugin SDK and sandbox** (`integration/plugin_sdk`) | registry, rows, imported code, children | install, toggle, reload, remove, run hooks, validate | code is handed what a valid manifest declared; a load order is sound |
| **Designer canvas** (`integration/workflow_designer`) | layout, history, future, clipboard | edit, delete, cut, paste, undo, redo | no edge drawn between two nodes dangles; undo restores |
| **Production tools** (`integration/production`) | backups, plans, releases, checks, configuration documents | back up, restore, validate, release, layer, export | what is restored was captured; records are told as stored |
| **Dashboard** (`integration/dashboard`) | a cache shared by requests | gather, build, assemble | no card is older than its time to live |
| **Chaos** (`integration/chaos`) | wrappers' counters, suites, past runs | inject, retry, score, compare | a regression is reported |
| **Static analysis, readiness** (`integration/validators`, `diagnostics`, `orchestrator`) | none kept; algorithms over graphs and registries | search, detect cycles, score | verdicts say what the paths say; a full score means no flaw |

### How they interact

The Manager runs W01; its gates are decided over HTTP, and each decision starts
a department's head through the agent factory. The heads run their leads and
workers with `BaseAgent.run`, over one shared context per task. Departments talk over NATS:
Engineering and DevOps ask the Repository Service for commits, pull requests and releases
(`api/events.py`), which records every change in `repository_events` and
publishes it; QA and Security announce verdicts that the DevOps barrier collects;
Monitoring's incidents start Incident Response. Everything is asynchronous Python:
within one process a coroutine runs undisturbed from one `await` to the next, so the
*awaits* are where requests interleave, where an answer can be lost, and where a
restart can cut a method in two. There is no transaction that spans the provider, the
database and NATS; each `async with db_factory()` is one transaction (commit or rollback).

### What is hard

`PROJECT.json` lists the hazards at their lines, each with the properties that
would catch it going wrong. The ones that shape the models:
a status read in one transaction and acted on in a later one; a provider call
that happened although its answer did not arrive; retries that start from the
beginning; graph state that has no reducer (a later node overwrites what an
earlier one queued) or that is never cleared; decisions that arrive twice, late, or
together; concurrent workers that write one context; overlapping runs of one project
that share rows, a branch or a version; acknowledgement before work; caches, streaks
and snapshots that are stale when used; hand-written graph algorithms.

## 2. The modules

| Module | Models | Checked by |
|---|---|---|
| `PullRequestGate` | abstract: open, approve, merge a pull request | implemented by `Repository` |
| `Repository` | the Repository Service | `repo`, `repo_conflicted`; proofs in `Repository_proofs`, `Repository_commit_proofs` |
| `RepositoryGraph` | W-Repo, composed with `Repository` | `graph`, `graph_retry_target`; proofs in `RepositoryGraph_proofs` |
| `Lifecycle` | W01 and the Manager's endpoints | `life`, `life_*`; proofs in `Lifecycle_proofs` |
| `Architecture`, `Engineering`, `QA`, `Security`, `DevOps`, `ProductPipeline` | one department each: its head's run | `departments`; proofs in `Departments_proofs` |
| `AgentRuntime` | `BaseAgent.run`, the review cycle, the artifacts table | `departments`; proofs in `Departments_proofs` |
| `BackupRestore`, `Configuration`, `ProductionRecords` | the production tools | `departments`; proofs in `Tools_proofs`, `Configuration_proofs`, `Operations_proofs`, in this order |
| `Plugins`, `PluginGraph` | plugin registry, dispatch and sandbox; dependency check | `departments`; proofs in `Tools_proofs` |
| `Timeline` | abstract: a line of versions with undo and redo | implemented by `Canvas` |
| `Canvas` | the designer's canvas | `departments`; layouts and refinement proved in `Tools_proofs` |
| `WorkflowAnalysis`, `Readiness` | the searches and verdicts on graphs; the readiness report | `departments`; proofs in `Tools_proofs` |
| `Dashboard` | the dashboard's requests and cache | `departments`; proofs in `Tools_proofs` |
| `Monitoring`, `IncidentResponse` | the loop, and the tasks its incidents start (the second EXTENDS the first) | `operations`, `monitoring_alerts`, `incident_rollback`; proofs in `Operations_proofs` |
| `DepartmentGraphs` | W-Arch, W-Eng, W-QA, W-SEC, W-DEVOPS, W12 and their interpreter | `operations`; proofs in `Operations_proofs` |
| `WebSockets`, `Messaging`, `ModelCalls`, `Chaos` | sockets, a durable consumer, model calls, chaos suites | `operations`; proofs in `Operations_proofs` |
| `MC_Departments`, `MC_Operations` | the TLC instances: one of the parts per behaviour | |

### Repository

*State.* `gh` is the provider, `db` the rows, `recorded` and `sent` count the
rows of the audit log and the messages on NATS per event. A request or delivery
is a caller `c`: `pc[c]` is the await it is at, `arg[c]` what it works on,
`parent[c]` the commit it builds on, `event[c]` what it is about to record,
`outcome[c]` how its last method ended. A commit history is represented by its
length, a merge by the pull request's state.

*Actions.* A `Begin...` action is a method from its entry to its first provider
call or write: reads, checks and early returns. Every further action is one await:
a provider call (`...Provider`, `CommitRef`, `CommitPatch`, ...), a transaction
(`...Row`, `...Mark`), the audit insert and the publish. `Answer(c, l)` is what a
provider call that had its effect leads to: the next step, or, when the answer is
lost, the error the adapter raises. `StepFails` is a call or transaction that
fails before it does anything. `Restart` drops all requests and keeps the
provider and the database. Redelivered NATS messages and clients that retry are
further requests. `assert_not_protected`, `_get_repository_row` and the
idempotency check of `create_repository` are in the `Begin...` actions.

*Simplifications.* One project; one provider repository. The provider's rules
(a second open pull request on a head, a ref moved without force, 405 for a pull
request that is not open) are modelled from the requests the adapter makes and
the answers it handles. `create_branch` asks for the base ref first; since the
base branches are protected and stay, that request can only fail or succeed and is
part of the one step. Reads that are followed by a write in the same transaction
are one step. Read-only endpoints are left out. Branch names collapse to the two
kinds the code treats differently: the CHECK constraint of `branches` knows
feature, fix and hotfix, and refuses `integration`, which the naming policy
(`managers/__init__.py:61`) allows; such a branch is created at the provider and
its row is then refused (`BranchRow`).

### RepositoryGraph

The graph is one caller `W` of `Repository`: `EnterNode` starts the manager
method of the scheduled node, `Repository`'s own actions run it, `FinishNode`
turns its outcome into the node's update and takes the conditional edge.
`merge_node` makes two calls (`MergeAfterApprove`). `next` is the scheduled node,
`channels` the channels of `RepositoryState` the routes read. `Decide` is the
reviewer writing into the interrupted thread, `ApprovalNode` the resume. After a
restart the checkpointed node runs again (`GraphRestart`).

`build_repository_graph` has no caller in the services but the static validator
(`services/integration/lifecycle.py`); the checkpointer is the one a caller would
pass. `route_after_retry` reads `_failed_step`, which `RepositoryState` does not
declare: LangGraph keeps only declared channels, so the default `"validate"` is
what it reads. The dead letter node is left out: nothing routes there, because the only non-retryable error is the protected
branch violation and no name `build_branch_name` builds is protected.

### Lifecycle

The graph runs inside `invoke`, which is synchronous and holds the event loop:
`executing` is the request inside it, and no other endpoint step runs meanwhile
(`Free`); only a restart can cut the run between two checkpoints. `g` is the
thread: its channels, `last` (the node that wrote last) and `next`. `update_state`
writes *as* the last node, so the edge out of that node is taken anew on the new
values (`UpdateState`); `resumed` lets the resumed run execute the gate it was
interrupted before. `approve_artifact` awaits the artifact's row between reading
the thread and deciding, hence two actions; `reject_artifact` has no await there.
`ran`, `granted` and `refused` are history variables: pipelines run, gates at
which an approval was injected, rejections since the last approval.

The branches on `budget_status` and `failed_tasks` are left out because nothing
in the source writes these channels after the start; `budget_exceeded` and the
rework node are therefore unreachable. `Executable` tells two systems apart.
`main.py:81` compiles the graph without a checkpointer and calls `invoke` on
asynchronous nodes: `get_state` and `invoke` raise, and with `Executable = FALSE`
that is what happens (`life_as_wired`). With `Executable = TRUE` the model is the
graph with a checkpointer and the endpoints as they are written, which is what
their docstrings describe and what remains to be right once it runs.

### The departments

Each module follows the head's `execute` from task to announcements; leads and
workers are steps inside. What the language model answers, and whether a call of
model, store or database fails, is a free choice.

- `Architecture`. `archPc` is the head's phase; `archRows` the rows per artifact type,
  each with the run that made it and what its worker could see; `archGate` a run's design
  as it stood when it was last traced and reviewed. Runs of one project overlap at every
  step: nothing orders the calls of the head (`main.py:271-322`). Submission picks one type
  a step, the latest draft whichever run made it, and then commits; `SubmitFails` is the
  exception on the way that the head logs before it announces the design all the same.
- `Engineering`. Per run: `engPc`, `engWork` (where each module is), `engReviewed`;
  shared: the branch, its commits and pull requests. A worker generates when the batches
  before its own are finished (`EngReady`); review, refactoring and re-review are steps of
  one module. A quality gate whose model answer is not a number raises and ends the lead.
  The leads run concurrently. The instance has a frontend worker and two
  integration workers of which one depends on the other; at most one of its two
  overlapping runs calls the frontend.
- `QA`, `Security`. `qaWork`/`secWork` is each worker's result, recorded in the shared
  context in any order; the verdict is what the head reads there afterwards.
- `DevOps`. `dvoPassed` and `dvoStarts` are the barrier; each run of `DvoRuns` plans
  (stage A) or deploys (stage B). The row of a deployment is looked for in one step and
  inserted in the next (`FindRow`, `InsertDeployment`), with other runs in between; checks
  whose answer is malformed raise, and the run ends without a verdict. Runs overlap freely: nothing in the code orders them;
  the instance takes them in one order of starting, as they are interchangeable.
- `ProductPipeline`. An agent's run is one step, after which its draft may be there although
  it failed; the lead selects, submits and announces in three.

### DepartmentGraphs

One interpreter of LangGraph's supersteps runs six graphs, each given by a node and an
edge function. `WriteTwice` is the superstep in which two nodes write one channel without
reducer, which raises (`handle_retry` of the delegation graph has two successors).
Verdicts, dead letters and team results, which the caller injects, are chosen at the start.
The graphs set the rejections at a gate no limit; the instance allows one more than the
rounds of revision (`Decide`), which is enough to spend them.

### AgentRuntime and ModelCalls

`AgentRuntime` interleaves the agents of a batch at each await of `run`: the model call,
the review cycle's critiques and improvements, the store, the two statements that number
and insert a version, and the flush of queued events. A version race ends in the unique
constraint, which fails the loser's run. `ModelCalls` has contexts with a budget snapshot,
calls that select a provider and a tier when they are made, up to three attempts, and a
ledger row written after the answer. One unit of money is the 5 USD below which a budget is
tight; the retry loops of the five adapters are equal, and one stands for them.

### Monitoring and IncidentResponse

A cycle collects scores, decides incidents, emits alerts. Between cycles the loop keeps the
streaks and stamps; a failed cycle keeps the previous state; a restart starts afresh.
No node of a cycle raises, since `BaseAgent.run` (`base_agent.py:81-96`) turns every exception
of an agent into a failed result: the `except` around `ainvoke` (`main.py:66-67`) has no step.
`monSent` holds the incidents sent, with the number of cycles the component really was
critical (a history value). `IncidentResponse` starts a task per delivery, and the row is
written when the run finalizes. `irRecent` is whether a recent deployment exists;
`clean` whether a run saw no failure.

### Messaging and WebSockets

`Messaging` follows one of four durable consumers (`msConsumer`), which differ in whether
the handler awaits its work or starts a task. A message waits, is handled by the one
callback, is acknowledged, refused or copied by a late redelivery; the connection breaks
and comes back, or the process restarts. A started task may fail, which the handler only
logs; the age limits of the streams are not reached. `WebSockets` has sockets that connect,
are greeted, served by a receive loop and go away or send what the loop cannot read
(`ServeFails`), and broadcasts and pings, any number at a time, each of which sends to a
snapshot of its own, one socket per await, and prunes the dead it met.

### The tools

- `BackupRestore`: live data is a version per scope; a plan is validated against a file,
  and applied later from what the file then holds. `apply_restore` takes the backup as an
  argument of its own; its one caller (`production_cli.py:112`) passes the plan's.
- `Configuration`: documents over two sections, two keys and a bare value; profile, layers
  and the lines of an env file, read back. Pure operators, with one action to lay a layer.
- `ProductionRecords`: requests that check, release or back up, with their transaction
  or the in-memory lists; the journal (history) is what was stored in order.
- `Plugins`: the bundle on disk, the registry's manifest, the row, the imported code; a
  hook's dispatch, with a call for each enabled plugin taken in the order of their ids,
  the sandboxed child and its ways to end, one of which is not to be spawned (`SpawnFails`).
- `PluginGraph`, `WorkflowAnalysis`, `Readiness`: algorithms, one loop turn a step, over
  *every* small graph or table; the properties compare with reference definitions.
- `Canvas`: `cvHistory`, the layout and `cvFuture` are the line of `Timeline`.
  A layout's nodes and edges are sets: no property depends on their order. An edge is drawn
  between any two ids, as `canvas_state.py:96-100` does: the designer keeps the end picked
  first while that node may be deleted (`designer.js:169-173`). `cvLoose` (history) holds the
  edges drawn so; `BuildGraph` is what `build_graph` makes of a layout, loose edges dropped.
- `Dashboard`: of a section's value only whether it is None is kept, and when it expires.
- `Chaos`: wrappers nest in the order faults were applied; a rate is a pair of numbers.

*Simplifications common to these modules.* A payload is what the properties tell apart
(who made it, its version, its verdict). Prompts, parsing, wording, durations and telemetry
are left out. A best-effort write that nothing reads is left out. Read-only endpoints are
left out. A transaction is one step; `created_at` order is commit order.

## 3. The runs

| Run | Bounds | Shows |
|---|---|---|
| `repo` | 3 callers, 1 feature and 1 integration branch, 2 pull requests, 1 tag, 4 calls | the safety of `Repository` and `GateSpec` |
| `graph` | W and 1 client, 1 retry, 1 restart or 1 foreign call | `MergedAsDecided`, `CommitLandsOnce`, `ReachesGateOrEnd` |
| `life` | 2 requests in flight, 2 rounds, 2 starts, 5 decisions, 1 crash | `GatesNeedDecisions` and `InvokesEnd` |
| `departments` | below | a property for each of the departments and tools |
| `operations` | below | the safety and the liveness of what runs beside the departments |
| `repo_conflicted`, `graph_retry_target`, `life_feedback`, `life_pipeline`, `life_as_wired`, `incident_rollback`, `monitoring_alerts` | as small as the behaviour allows | disagreements between code and comments, section 5 |

`repo` explores five *clienteles*: the set of endpoints used in a behaviour is
chosen in the initial state (`clients`) and kept. Endpoints that touch disjoint
state are not mixed, which keeps the run small; a behaviour of a clientele is a
behaviour of `Repository`. The pull request clienteles start from a provisioned
repository (`Provisioned`, a state the provisioning clientele reaches) so that
their four calls are spent on pull requests. In the same way `departments` and
`operations` follow one `part` or one `system` per behaviour: the parts share no
variable, so their products would add states and no behaviour. `incidents` starts from
incidents `Monitoring` can have sent.

### What the properties of `departments` say, and their bounds

| Property | Bounds | In words |
|---|---|---|
| `SubmittedWasTracedAndReviewed` | 2 overlapping runs (one at most escalates or closes gaps), 1 rerun for a gap, 2 platform types | an announced design is its run's own, traced and reviewed as it stands; once committed, it or a later version is under review |
| `BranchHoldsOneGatedRun` | 2 overlapping runs, 3 workers, 2 review cycles | the integration branch holds one run's gated modules, all of them when the run completes |
| `RetryFollowsDefectsAndReport` | all orders of all workers | Engineering is asked to retry after defects and a stored report |
| `NoFindingIsLost` | all orders of 5 workers | no blocking finding is overwritten |
| `ReleasedOrRolledBack` | 3 runs, 2 deployment rows, one run at most without a result of its checks | a tag was started, checked, not rolled back; otherwise the rollback was asked for; versions are unique |
| `StartsSpendTheirPasses` | 5 gate messages | a passed gate starts at most one plan |
| `PackageIsWhole` | 2 overlapping pipelines | an announced package has a document of each kind under review |
| `AnnouncedAsNumbered`, `UncritiquedOnlyWhenSpent` | 2 agents, 3 runs, 2 review cycles | versions without gap or duplicate, announced by who wrote them; uncritiqued output only at the end of the cycles |
| `RestoredWasCaptured` | 2 scopes, 1 change, 2 backups, 1 restore | only captured data is written back, but for the named exceptions |
| `PluginsAreContained` | 2 plugins, 3 requests, 1 change on disk | handed events and permissions were validated; the sandbox's verdict is right |
| `LoadOrderIsSound` | 4 plugins, 5 dependencies | topological, complete when all is valid; reported cycles are cycles |
| `OnlyLooseEdgesAreDropped`, `UndoWalksTheLine` | history of 2, 3 edits, edges drawn from the first node | a layout's graph loses no edge that was drawn between two nodes, nor its entry; the refinement of `Timeline` |
| `AnalysisIsExact` | every graph of up to 4 edges over 3 inner nodes | searches and verdicts against paths |
| `ReadinessIsEarned` | 3 agents with the manager, limit of 2 hops, 3 departments | a full score means no flaw and a flaw no full score; findings fall on the agents whose own chain leaves the registry, is cyclic or too long; `has_cycle` is right |
| `CardsAreFresh` | 2 requests, time to 2, lifetimes 1 and 2 | nothing older than its lifetime is shown |
| `ConfigurationIsLayered` | 3 layers, 2 env lines | later layers win, differences are complete, validity carries over |
| `RecordsAreTold` | 2 requests, 3 records | checklist and status tell what was stored last |

### What the properties of `operations` say, and their bounds

| Property | Bounds | In words |
|---|---|---|
| `IncidentsAreSustained` | 2 components, breach of 2, 3 cycles, 1 restart | no incident from a streak that never was |
| `RunsEndForGood` | 2 runs, 1 restart | every started run ends with its row or is lost to a fault; closed stays closed unless delivered twice |
| `CompletedThroughItsGates`, `GraphsComeToRest` | 2 revision rounds, 3 review and retry cycles, 2 task retries (the code's own) | completed means gated; every loop has a way out |
| `RegistryFollowsSockets` | 2 sockets, 2 overlapping broadcasts or pings | live sockets are reached; the gone leave the registry |
| `SettledAsDone` | 2 messages; 1 failure, copy, break | acknowledged means handled; everything is settled in the end |
| `ResilienceIsTold` | 2 scenarios, 2 faults, 2 retries | enough retries outlast a fault; a lost completion is reported |
| `CallsKeepTheirTier` | 2 contexts, 2 runs, 2 calls, limit 2 | no needless downgrade; the ledger is never above what was paid |

*Why these bounds.* In `repo`, four calls by three callers are enough for open, approve and
two racing merges, for a merge whose answer was lost and its retry, for two
provisionings racing with a deletion, and for three commits on one parent. The
second pull request can be opened on the same head once the first is merged or
closed. One retry and one disturbance put W-Repo through every route,
including a retry after the gate. In `life`, two rounds instead of five change only how
often the review loop is taken; five decisions exhaust the rounds at one gate and approve
all three gates with two to spare, one of them stale. In `departments`, the
races are between two actors: two runs that share rows, a branch, a version or a package,
two requests that share a cache; a third DevOps run lets one plan while two
deploy. Four plugins and three inner nodes hold two disjoint cycles, a cycle with a
tail, and a diamond. A limit of two hops and three agents make a chain that ends too long, as
20 hops and 106 agents do in the code. Every action of the modules fires in the runs. In `operations`, three
cycles and a breach of two let a streak start, break, and start again; two messages
let one wait behind another that is refused; two sockets let one join and one leave while
a snapshot is sent, and two senders prune the same socket, or one that the other reaches.

*Mutants.* Each property has a mutant in the module that defines what it changes
(`Mutant:` comments): a plausible slip in the code (a dropped guard, a forced ref update, a
swallowed exception, a missing reset, a swapped order) under which the property fails.

*Fairness.* All of it is weak fairness of the event loop: an await that can end ends, a
scheduled coroutine runs. `GraphFairness` of `RepositoryGraph` and `FairSpec` of
`Lifecycle` let a scheduled node and a started call run: every provider request has a
timeout (30 s). `GraphFairness` of `DepartmentGraphs` lets an invoked graph run until it
ends or is interrupted; `IncidentFairness` lets a started task run; `WsFairness` lets the
handler of each socket run, and a receive from a client that is gone raises;
`MsFairness` lets a consumer deliver, a handler return and nats-py reconnect, which it
retries. Nothing makes reviewers decide, clients call, monitoring cycle, or processes restart.

*Deadlock* is not checked: a service without requests, or with its bounds used
up, stops.

## 4. What is proved

`Repository_proofs`, for every finite number of callers, any sets of branches,
pull requests and tags, and any bound on calls (`RepositoryConstants`):

- `TypeCorrect`: `Spec => []TypeOK`. `TypeOK` is inductive; besides types it says
  that a caller at a branch, pull request or release step holds an argument of
  that kind, without which the later steps would write nonsense.
- `GateInvariant`: `Spec => [](TypeOK /\ GateInv)`. `GateInv` is the strengthening
  that makes the approval gate inductive: a pull request with a row was opened at
  the provider; a row that says approved has its `approved_at`; a merged pull
  request was approved; a caller at any step of a pull request method holds an
  opened one, and a caller about to ask the provider for the merge holds an
  approved one. The check in `BeginMerge` is stale when the provider is called,
  and what saves the gate is that `approved_at` is never cleared: the invariant
  says exactly this.
- `ApprovalIsNeeded`: `Spec => []ApprovalGate`, from `GateInvariant`.
- `ImplementsGate`: `Spec => GateSpec`, the refinement of `PullRequestGate`: each
  step opens, approves or merges one pull request as the gate allows, or stutters.

Its second half, about rows, audit log and events:

- `RepositoriesAreProvisionedOnce`: `Spec => []ProvisionedOnce`. `OnceInv` follows the caller that
  provisions, from the provider's repository to the audit: the provider makes the repository
  once, so there is one such caller at most, and where it stands says what is made. A caller
  that stops half-way leaves a project without a row. No step deletes develop, since the
  adapter refuses a protected name before it asks (`github_provider.py:165-168`).
- `EventsAreBacked`: `Spec => []PublishedEventsRecorded`. `EventInv` counts: per
  event, what was sent plus the callers at the publish is at most what was recorded.
- `MergesAreTrue`: `Spec => []MergeHistoryTrue`. A caller *claims* a pull request
  from the provider's answer that it merged it to the audit row. `MergeInv`: a claim
  is on a merged pull request, its merge is not recorded yet, and nobody else has
  one. The provider merges only what is open, so a new claim meets no other; a
  caller that goes to the conflict branch has none. `RollbackInv` is needed because
  a rollback announces its event a step before the audit.
- `RetiredWereMerged`: `Spec => []RetiredBranchWasMerged`, which is inductive with
  `MergeInv`: who does the housekeeping has a claim, and a merged pull request keeps
  its head (`MergesFinal`).

`Repository_commit_proofs`: `CommitsStay`, `Spec => []AcknowledgedCommitsLand`: if
no client deletes branches, audit rows of commits plus commits that landed and are
not acknowledged yet are at most the commits on the branch, and a caller about to
write `head_sha` writes one of them (`CommitInv`). It rests on the ref being moved
without force. `ClientsKeepCommits` is the same of the runs' clienteles
(`AcknowledgedCommits`): one that deletes no branch only takes steps `CommitsStay` allows.

The proofs have one lemma per group of actions (`...MethodTyped`, `Gate...`,
`Refine...`, `Merge...`, `Commit...`), each from the lemmas on how a method moves
(`Moves`, `MovesTyped`, `StaysTyped`, `DispatchTyped`) and on what a step leaves
alone (`OthersWait`, `BeginQuiet`, `GateKept`, `EventsKept`, `MergeKept`,
`CommitKept`).

`RepositoryGraph_proofs`, with `GraphConstants`: any other callers, branches and bounds on
retries and restarts.

- `GraphInvariant`: the service's invariants hold with W as one more caller (its step
  lemmas are about `CallStep` and `BeginOp`, which W takes too), and `GraphInv` ties the
  node that is scheduled to the await the manager call is at and to the rows.
- `DecisionsHold`: `GraphSpec => []MergedAsDecided`.
- `CommitsOnce`: `GraphSpec => []CommitLandsOnce`, under the hypothesis that the other
  clients do not commit (`"commit_files" \notin Ops`): one that commits to the task's branch
  breaks the statement at once. `LandInv` says why it holds although the failed commit is
  retried: the retry goes back to `validate` and `create_branch`, and the row of the branch,
  which nothing takes back, lets `create_branch` succeed only once.

`Lifecycle_proofs`, with `LifecycleConstants`: `GatesHold`, `Spec => []GatesNeedDecisions`.
`LifeInv` says where a thread can be (`ThreadInv`: the next node is where the last one leads
on the *present* values, which is what `update_state` preserves), which approvals its place
rests on (`GateInv`), what a counted rejection still owes the rounds (`RoundInv`) and what a
request that read the deployment plan knows (`RequestInv`).

`Departments_proofs`, one section per module, for any number of runs, workers and cycles:

- `SubmissionsWereReviewed`: the versions a run made of each design type do not change once its
  system design is through, but by its own redesign, and both checks saw the latest of them
  (`DesignIsOwn`); of the types a submission is through with, it has picked the run's version
  or a later one, unless an overlapping run has such a one under review (`SubmissionCovers`).
- `BranchesAreGated`: `EngInv` follows a module from the queue to the branch. It is pending
  once, then kept once as the gate saw it, and what a run has committed is the beginning
  of what it kept, on a branch it created; the branch's existence keeps other runs off.
- `RetriesAreFounded`, `FindingsAreKept`: what was announced and stored agrees with the
  results recorded by then; in Security every result stays under its worker's name
  (`SecRecorded`).
- `ReleasesAreChecked`, `PassesStartOnce`: where a run is tells what is known of its deployment
  (`RunIsTold`); a pass that is remembered has not been spent (`PassesAreSpent`).
- `PackagesAreWhole`: a counting argument. A lead that selects has written its documents, as
  has every other lead, and submissions took at most one row each: one is left.
- `RowsAreNumbered`, `StoredWasReviewed`: the versions are `1 .. n` (`RtNumbered`), since the
  number read is at most `n` and the unique constraint refuses one that is taken; a
  review is left early only without blocking issues (`RtReviewed`).

`Operations_proofs`:

- `IncidentsAreEarned`: a streak is at most the true number of critical cycles, and one less
  before it is scored (`StreaksAreLived`).
- `ClosedForGood`: the part `ClosedStaysClosed` of `RunsEndForGood`. A row is written by a run
  that is then done, so only another run of the incident can write it again.
- `GraphsAreGated`: for each superstep of each of the six graphs, what its state must hold
  on the way (`LoneTrail`, `TeamTrail`), with nothing told before the end (`DgInv`).
- `SocketsAreReached`, `AcknowledgedWorkIsDone`: the safety halves of
  `RegistryFollowsSockets` and `SettledAsDone`.
- `RetriesAreWorthTheirName`: failed attempts are at most the transient faults used up
  (`AttemptsAreSpent`), a counting argument again.
- `ShortSuitesAreTold`: `ResilienceIsTold` under the hypothesis `ChScenarios <= 9`. It is needed:
  in a suite of ten a lost completion is a tenth, which the threshold lets pass.
- `TiersAreKept`: ledger plus usage still to be recorded is at most what was paid, and a
  context that reads tight was built when it was (`McInv`).
- `RecordsAreKept`: the last check of each environment is the last in the journal, a list
  without a database ends with the last post, and with one the rows have a row of every
  version that was posted, hold its last post, and none was first posted after the version
  of the last row (`PrRows`): this is why a version posted again is not told as the latest.

`Tools_proofs`:

- `RestoresAreFaithful`: a backup's file holds what was live of the scopes it fetched, unless
  it was touched, and so does the file of a plan (`BrInv`).
- `DashboardIsFresh`: the sections of a request come in order and each is sound (`DaInv`).
- `CanvasIsALine`: `CvSpec => UndoWalksTheLine`, the refinement of `Timeline`. Each action is
  one of `Timeline` or a stutter under the mapping of history, layout and future to a line
  and a place on it; `CvInv` bounds history and future together, so that a redo finds room.
- `LayoutsHoldTogether`: in whatever can be shown, every edge but the loose ones has its ends,
  and what was copied has both ends or is left out by the paste (`NdInv`).
  A layout has finitely many nodes, told apart by their ids, so a number that is free for
  the next one exists (`FreshIds`), and two ids that a paste numbers stay two (`FreshDiffer`).
- `VerdictsAreEarned`: a way is what every closed set that holds its start must hold, which
  needs no induction over paths. `WaInv`: the searches hold ways only and, when through,
  are closed; the depth-first search's path leads downwards, and while no cycle was
  reported nothing leads back into what it is done with (`WaPath`, `WaAcyclic`).
- `LoadOrdersAreSafe`: the degrees count what is waited for (`PgPlacing`); when the search ends
  without a cycle, the plugin done last would have had to be placed (`PgAcyclic`).
- `PluginsAreTrusted`: a manifest found valid is behind every entry, pending write and call, and
  the rows differ from it only by what a reload of the command line recorded (`PlInv`).
- `ReadinessIsTold`: a climb is on every chain of its agent that would end, so it ends without a
  finding exactly when the chain does, within the limit of hops, whatever the limit and the
  hierarchy (`RdHierarchy`). A flaw costs its category 0.3 % at least, which the report
  does not round away, and a report without one gets the full score (`RdScored`);
  the degrees count what is not placed yet, and when a part stays unplaced its first
  member in any order would have been free (`RdSorting`).

`Configuration_proofs`, for any number of layers and files of any number of lines:

- `DocumentsAreLaid`: `CfSpec => []ConfigurationIsLayered`. A document that is its first `n`
  layers, with the next one merged into it, is its first `n + 1` (`LayerLaid`); reading a line
  of an env file is merging what the line says, unless it gives the file up. `CfInv`: a
  document is all of its layers, and while a file is read it is those read so far and the
  lines left are the layers left (`CfRead`). Half of `LayerLaid` is that a bare value makes
  what was laid before it not count, and that a table over it starts anew.
- `DiffApplies`: the entries of `diff`, of sections and inside tables, applied to the first
  document give the second: each names a path and what the second has there, and a path
  without an entry is the same in both.

*Assumptions.* Each module states what it asks of its constants (`...Assumption`,
`...Constants`): sets that are finite where they are counted, bounds that are numbers, and
ids that differ from the value that stands for none (`"none" \notin Runs \cup EngWorkers`,
`Nobody \notin Callers`), roles among the four that exist, samples of the readiness report of at most 285
(the code has 14 components and some 60 subjects). TLC evaluates them on every run.
The two hypotheses above are stated in the theorems themselves.

*Arguments.* All invariants are inductive and are proved by cases over the next-state relation,
one lemma per group of actions. Minima and maxima of sets of numbers exist by the well-foundedness
of `<`, counting goes through the library's facts on `Cardinality`.

*Only model-checked.*

- Liveness: `ReachesGateOrEnd`, `InvokesEnd`, `GraphsComeToRest`, and the second halves of
  `SettledAsDone`, `RunsEndForGood` and `RegistryFollowsSockets`.
- That exporting a document and loading the file gives the document back is not claimed: the
  code loses empty tables and nulls (section 5).

## 5. Where the code and its comments disagree

Seven runs each end in a counterexample; `findings` quotes both sides.

- `repo_conflicted`: a merged pull request may be marked `conflicted`, since the
  provider also answers 405 for one that is already merged.
- `graph_retry_target`: a retry never re-enters the failed node.
- `life_feedback`: the rejection's feedback is overwritten in the queue before the
  queue is flushed. The same happens to `manager.project.created`.
- `life_pipeline`: the first approval starts no pipeline and later ones start the
  previous gate's.
- `life_as_wired`: the lifecycle graph cannot run as `main.py` builds it.
- `incident_rollback`: a recommended rollback is never attempted.
- `monitoring_alerts`: after the first alert nothing is alerted again.

Noted while modelling, without a run. The model does in each case what the code does.

*Repository and lifecycle.* An audit row whose publish failed is never published
(`audit_manager.py:61`), while its module comment says the two "can never drift apart".
`delete_branch` records no event. A provisioning that stops after the provider's repository
exists can never be completed. A late `product.requirements.completed` sets the status of a
failed project to `completed`. `handle_retry` of the delegation graph has a fixed and a
conditional successor, so the first retry raises; `.invoke` of asynchronous nodes raises.

*Departments.* Two Architecture implementations register the same agent ids, so which one
runs depends on import order. Its workers' results never enter the next worker's context (an
`ArtifactRef` is not a dict). A submission that fails is logged, and its design announced as
completed with the rows picked so far; overlapping runs may submit each other's drafts,
before these are reviewed. Engineering's code reviewer sees an older copy of a
refactored module, and the last refactoring is committed unreviewed. The product head's
reload of the context does nothing; two overlapping leads may submit the same rows.
QA, Engineering, Security and DevOps pass `runner=None` to their subscriptions, so
their event chain starts nothing as wired. The DevOps barrier forgets its gates before the
runner runs. The incident's evidence, report and recovery rows refer to an incidents row
that is only written at the end, so for a first run they are refused.

*Agent runtime and models.* `create_artifact` always stores the content under version 1.
`ReviewCycle` discards improved content. The audit row of a completed run fails when the run
has artifacts (`a.get`). Failover is described as automatic and happens only at
selection; an available key without its SDK raises although a later provider is
registered. The budget limit is not enforced, and a limit of 0 reads as none. The
Anthropic adapter converts stop reasons with an enumeration that lacks `end_turn`, so a
normally finished answer raises after it was charged, and is asked for up to three times.
OpenRouter's names are not in the price table; critiques, improvements and failed runs never
reach the ledger; `retry_count` is set by no caller.

*Messaging and sockets.* `_ensure_streams` awaits the synchronous `jetstream()`. Several
subjects belong to no stream, and work-queue retention forbids overlapping consumers; the
model gives every durable a stream of its own. A message whose handler always raises is
redelivered at once, without bound. A handler slower than `ack_wait` runs twice. A welcome
that raises leaves the socket registered until a broadcast prunes it.

*Backups and records.* A full backup lists scopes whose fetch failed, and a restore then
writes None over live data; the checksum is verified when planning and not when
applying; the backup route passes no fetchers. Re-posting an old release updates
the JSON column and not `previous_version`. Lists are ordered newest first by the database
and oldest first in memory. A failed persist is answered as success. `app.state.db_ping` is
never set, so connectivity is skipped and the environment still passes. The "exactly one
merge algorithm" has a second copy; `compare` takes a null section for an absent one; an env
export loses empty tables and writes null as `None`; a section that is a bare value escapes
the TLS check.

*Plugins.* Removing and reloading are not persisted and the registry is not seeded from its
rows, although its docstring says durable; the rows of two toggles may land in either
order; a reload enables a disabled plugin and keeps the old manifest; the command line's
reload records an unvalidated one; `_find_cycles` misses cycles through visited nodes.

*Designer, dashboard, chaos, analysis.* Pasting twice gives duplicate edge ids; undo undoes a
zoom although its comment says a user never needs to; deleting a group leaves its members'
`group_id`. Nothing invalidates the dashboard's cache, an invalidation during a build is
undone by it, and an older build may overwrite a newer one; readiness reads `score`, which
the report has not; `overall_ready` is declared a bool and given a float. Chaos counts the first
attempt as a retry, rolls a probability once per call, and takes a rise from zero for no
regression. `healthy` ignores dead ends that the startup gate refuses; `detect_cycles` does not
list all simple cycles. Every agent's chain is said to terminate at the manager
(`orchestrator.py:68-69`), but the search for another root (94-98) stands behind a `break`
that is only reached from an agent with a parent, so no orphan root is ever found; and a
chain of 20 agents is reported as cyclic, whether or not it ends (90-93);
`repository_gaps` is never passed, so persistence always scores 100; workflow versions claim
`persisted: true` in memory only. Of the routers only the main one is mounted: those
of plugins, designer, chaos, production and dashboard are included by no application.

## 6. Plan

The modelling planned is done, and every safety invariant that a passing run checks is
proved, `ResilienceIsTold` under its hypothesis. What is left: more safety halves of liveness
properties, as for `SettledAsDone`: that a graph which is still running has a step of its own
left.

### Not modelled

- Documentation agents, prompt texts, the parsing of model answers: no state of their own.
- Replay, traces and release validation: they read other parts' records and format
  them. Workflow versions: one version per life of a process, so no history.
- Authentication, secrets, telemetry, settings: wrappers of libraries, and configuration.
- Database access: transactions are steps of the services and constraints their guards.
- Demo, examples, scripts, migrations, deployment files, and `docs/AASC_LangGraph_Workflows_v1.py`,
  an early sketch that nothing imports.
- `services/architecture/agents`, the second implementation of Architecture (section 5).
- The designer's exports, the dashboard's card layouts,
  the shape checks of deployment files, durations in chaos results: formatting.
- The probes behind Monitoring's scores, and manual incidents, which have ids of their own and
  take the path of the others.
- Parts of W01 that nothing reaches: the budget and failed-task branches.
