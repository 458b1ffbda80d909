--------------------------- MODULE RepositoryGraph ---------------------------
(***************************************************************************)
(* W-Repo (services/repository/workflows/repository_graph.py): the         *)
(* LangGraph state machine that takes one task from validation through     *)
(* branch, commit, pull request, approval and merge to a release.          *)
(*                                                                         *)
(* Every action node runs methods of the managers, so the graph is one     *)
(* caller, W, of module Repository, beside the service's other callers.    *)
(* The graph is compiled with a checkpointer: after a restart the node     *)
(* that was running runs again.                                            *)
(***************************************************************************)
EXTENDS Repository

CONSTANTS
  W,              \* the caller that executes the graph's nodes
  Branch,         \* the branch name its task id and slug determine
  Tag,            \* the release tag of its request
  CreateRelease,  \* whether the request asks for a release
  NoPullRequest,  \* pull_request_id before open_pr
  MaxRetries,     \* max_retries of the request
  MaxRestarts     \* bound: restarts in a behaviour

ASSUME GraphConstants ==
  /\ W \in Callers
  /\ Branch \in WorkBranches
  /\ CreateRelease => Tag \in Tags
  /\ CreateRelease \in BOOLEAN
  /\ NoPullRequest \notin PullRequests
  /\ MaxRetries \in Nat
  /\ MaxRestarts \in Nat

VARIABLES
  next,             \* the node scheduled next
  stage,            \* "ready", "call" in a node's manager call, "approving" in merge's first
  phase_status,
  retry_count,
  retryable,
  failed_step,      \* the last node to return _failed_step, a key that is not a channel
  approval_status,
  awaiting_approval,
  pull_request_id,
  queue,            \* subject of the event in nats_events_queue: the last writer's
  restarts          \* restarts so far

channels == <<phase_status, retry_count, retryable, failed_step, approval_status,
              awaiting_approval, pull_request_id, queue>>

graphVars == <<next, stage, channels, restarts>>

service == <<gh, db, recorded, sent, pc, arg, parent, event, outcome, calls>>

ActionNodes == {"validate", "create_branch", "commit", "open_pr", "merge", "release"}

Nodes == ActionNodes \union {"approval", "retry", "escalate", "dead_letter",
                             "publish_events", "end"}

\* The types of the variables.
GraphTypeOK ==
  /\ TypeOK
  /\ next \in Nodes
  /\ stage \in {"ready", "call", "approving"}
  /\ phase_status \in {"running", "failed", "completed", "escalated"}
  /\ retry_count \in 0 .. MaxRetries
  /\ retryable \in BOOLEAN
  /\ failed_step \in ActionNodes
  /\ approval_status \in {"none", "approved", "rejected"}
  /\ awaiting_approval \in BOOLEAN
  /\ pull_request_id \in PullRequests \union {NoPullRequest}
  /\ queue \in {"none", "repository.branch.created", "repository.commit.created",
                "repository.pr.created", "repository.pr.merged",
                "repository.release.created", "repository.workflow.completed",
                "repository.pipeline.escalated"}
  /\ restarts \in 0 .. MaxRestarts

GraphInit ==
  /\ Init
  /\ next = "validate"
  /\ stage = "ready"
  /\ phase_status = "running"
  /\ retry_count = 0
  /\ retryable = TRUE
  /\ failed_step = "validate"
  /\ approval_status = "none"
  /\ awaiting_approval = FALSE
  /\ pull_request_id = NoPullRequest
  /\ queue = "none"
  /\ restarts = 0

-----------------------------------------------------------------------------
(***************************************************************************)
(* Routing                                                                 *)
(***************************************************************************)
SuccessTarget(node) ==
  CASE node = "validate" -> "create_branch"
    [] node = "create_branch" -> "commit"
    [] node = "commit" -> "open_pr"
    [] node = "open_pr" -> "approval"
    [] node = "merge" -> IF CreateRelease THEN "release" ELSE "publish_events"
    [] node = "release" -> "publish_events"

\* Mutant: merge and release go on with a plain edge, whatever their status.
RouteIgnoringFailure(status, mayRetry, retries, target) ==
  CASE status # "failed" \/ target \in {"release", "publish_events"} -> target
    [] status = "failed" /\ ~mayRetry -> "dead_letter"
    [] status = "failed" /\ mayRetry /\ retries < MaxRetries -> "retry"
    [] OTHER -> "escalate"

RouteAfterAction(status, mayRetry, retries, target) ==
  CASE status # "failed" -> target
    [] status = "failed" /\ ~mayRetry -> "dead_letter"
    [] status = "failed" /\ mayRetry /\ retries < MaxRetries -> "retry"
    [] OTHER -> "escalate"

RouteApprovalGate(status) ==
  CASE status = "approved" -> "merge"
    [] status = "rejected" -> "publish_events"
    [] OTHER -> "approval"

\* state.get("_failed_step", "validate"): RepositoryState declares no such
\* channel, so LangGraph drops the key and the default is what is read.
RouteAfterRetry == "validate"

-----------------------------------------------------------------------------
(***************************************************************************)
(* Nodes                                                                   *)
(***************************************************************************)
NodeCall ==
  \/ next = "validate" /\ BeginCreateRepository(W)
  \/ next = "create_branch" /\ BeginCreateBranch(W, Branch)
  \/ next = "commit" /\ BeginCommit(W, Branch)
  \/ next = "open_pr" /\ BeginCreatePullRequest(W, Branch)
  \/ next = "merge" /\ BeginApprove(W, pull_request_id)
  \/ next = "release" /\ BeginCreateRelease(W, Tag)

EnterNode ==
  /\ stage = "ready"
  /\ next \in ActionNodes
  /\ NodeCall
  /\ stage' = IF next = "merge" THEN "approving" ELSE "call"
  /\ UNCHANGED <<next, channels, restarts, calls>>

\* merge_node calls approve_pull_request and then merge_pull_request.
MergeAfterApprove ==
  /\ stage = "approving"
  /\ outcome[W] = "ok"
  /\ BeginMerge(W, pull_request_id)
  /\ stage' = "call"
  /\ UNCHANGED <<next, channels, restarts, calls>>

Succeeded(node) ==
  /\ phase_status' = "running"
  /\ retryable' = retryable
  /\ pull_request_id' = IF node = "open_pr" THEN arg[W] ELSE pull_request_id
  /\ awaiting_approval' =
       CASE node = "open_pr" -> TRUE
         [] node = "merge" -> FALSE
         [] OTHER -> awaiting_approval
  /\ queue' =
       CASE node = "validate" -> queue
         [] node = "create_branch" -> "repository.branch.created"
         [] node = "commit" -> "repository.commit.created"
         [] node = "open_pr" -> "repository.pr.created"
         [] node = "merge" -> "repository.pr.merged"
         [] node = "release" -> "repository.release.created"

\* NON_RETRYABLE_EXCEPTIONS is ProtectedBranchViolationError alone.
Failed(o) ==
  /\ phase_status' = "failed"
  /\ retryable' = (o # "protected")
  /\ UNCHANGED <<pull_request_id, awaiting_approval, queue>>

FinishNode ==
  /\ pc[W] = "idle"
  /\ stage = "call" \/ (stage = "approving" /\ outcome[W] # "ok")
  /\ IF outcome[W] = "ok" THEN Succeeded(next) ELSE Failed(outcome[W])
  /\ failed_step' = next
  /\ next' = RouteAfterAction(phase_status', retryable', retry_count, SuccessTarget(next))
  /\ stage' = "ready"
  /\ UNCHANGED <<retry_count, approval_status, restarts, service>>

\* Mutant: what the docstring of route_after_retry promises, the failed node runs again.
RetryResumes ==
  /\ next = "retry"
  /\ retry_count' = retry_count + 1
  /\ phase_status' = "running"
  /\ next' = failed_step
  /\ UNCHANGED <<stage, retryable, failed_step, approval_status, awaiting_approval,
                 pull_request_id, queue, restarts, service>>

\* Mutant: the attempt is not counted.
RetryUncounted ==
  /\ next = "retry"
  /\ phase_status' = "running"
  /\ next' = RouteAfterRetry
  /\ UNCHANGED <<stage, retry_count, retryable, failed_step, approval_status,
                 awaiting_approval, pull_request_id, queue, restarts, service>>

RetryNode ==
  /\ next = "retry"
  /\ retry_count' = retry_count + 1
  /\ phase_status' = "running"
  /\ next' = RouteAfterRetry
  /\ UNCHANGED <<stage, retryable, failed_step, approval_status, awaiting_approval,
                 pull_request_id, queue, restarts, service>>

\* The graph is interrupted before "approval": a reviewer's decision is written
\* into the paused state.
Decide(d) ==
  /\ next = "approval"
  /\ approval_status' = d
  /\ UNCHANGED <<next, stage, phase_status, retry_count, retryable, failed_step,
                 awaiting_approval, pull_request_id, queue, restarts, service>>

\* The graph is resumed, with or without a decision.
ApprovalNode ==
  /\ next = "approval"
  /\ awaiting_approval' = TRUE
  /\ next' = RouteApprovalGate(approval_status)
  /\ UNCHANGED <<stage, phase_status, retry_count, retryable, failed_step,
                 approval_status, pull_request_id, queue, restarts, service>>

PublishEventsNode ==
  /\ next = "publish_events"
  /\ phase_status' = "completed"
  /\ queue' = "repository.workflow.completed"
  /\ next' = "end"
  /\ UNCHANGED <<stage, retry_count, retryable, failed_step, approval_status,
                 awaiting_approval, pull_request_id, restarts, service>>

EscalateNode ==
  /\ next = "escalate"
  /\ phase_status' = "escalated"
  /\ queue' = "repository.pipeline.escalated"
  /\ next' = "end"
  /\ UNCHANGED <<stage, retry_count, retryable, failed_step, approval_status,
                 awaiting_approval, pull_request_id, restarts, service>>

\* The checkpoint is the one before the interrupted node.
GraphRestart ==
  /\ restarts < MaxRestarts
  /\ restarts' = restarts + 1
  /\ Restart
  /\ stage' = "ready"
  /\ UNCHANGED <<next, channels>>

GraphStep ==
  \/ EnterNode \/ MergeAfterApprove \/ FinishNode
  \/ RetryNode \/ PublishEventsNode \/ EscalateNode

GraphNext ==
  \/ GraphStep
  \/ \E d \in {"approved", "rejected"} : Decide(d)
  \/ ApprovalNode
  \/ GraphRestart
  \/ \E c \in Callers : CallStep(c) /\ UNCHANGED graphVars
  \/ \E c \in Callers \ {W} : Request(c, Ops) /\ UNCHANGED graphVars

allVars == <<service, graphVars>>

GraphSpec == GraphInit /\ [][GraphNext]_allVars

\* The event loop runs a scheduled node and a started call; reviewers may take
\* for ever and clients need not come.
GraphFairness ==
  /\ WF_allVars(GraphStep)
  /\ \A c \in Callers : WF_allVars(CallStep(c) /\ UNCHANGED graphVars)

GraphFairSpec == GraphSpec /\ GraphFairness

-----------------------------------------------------------------------------
(***************************************************************************)
(* Properties                                                              *)
(***************************************************************************)

\* An approved workflow that reports completion has merged its pull request,
\* at the provider and in the row.
CompletedMeansMerged ==
  phase_status = "completed" /\ approval_status = "approved" =>
    /\ pull_request_id \in db.mergeSha
    /\ gh.pr[pull_request_id] = "merged"

\* The graph asks for a merge only after a reviewer approved: neither a resume
\* without a decision nor a retry after the gate gets past it.
MergeNeedsDecision ==
  pc[W] \in {"approve.mark", "merge.provider", "merge.mark"} =>
    approval_status = "approved"

\* The merge and the decision agree, before it and after it.
MergedAsDecided == CompletedMeansMerged /\ MergeNeedsDecision

\* The task's commit lands at most once, although the commit node's answer may be
\* lost and the node's failure is retried (no restart: a restarted node runs again).
CommitLandsOnce == restarts = 0 => gh.commits[Branch] <= 1

\* The workflow comes to its gate or to its end, however the provider behaves.
ReachesGateOrEnd == <>(next \in {"approval", "end"})
                      /\ [](next = "merge" => <>(next = "end"))

\* route_after_retry: "Re-enters the node type that just failed".
ReentersFailedStep == [][next = "retry" /\ next' # "retry" => next' = failed_step]_allVars
=============================================================================
