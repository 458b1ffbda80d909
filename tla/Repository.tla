----------------------------- MODULE Repository -----------------------------
(***************************************************************************)
(* The Repository Service (services/repository): the managers that create  *)
(* branches, commits, pull requests and releases, the GitHub adapter they  *)
(* call, the rows they write and the audit events they record and publish. *)
(*                                                                         *)
(* Every HTTP request and every NATS delivery is one caller running one    *)
(* manager method.  The method is cut at its awaits: between two steps of  *)
(* one caller any other caller may run, the provider may answer late or    *)
(* not at all, and the process may be restarted.  One project is modelled. *)
(***************************************************************************)
EXTENDS Naturals, FiniteSets

CONSTANTS
  Callers,              \* concurrent requests the service is executing
  Project,              \* the project the repository belongs to
  Develop,              \* the protected branch "develop"
  FeatureBranches,      \* names build_branch_name gives feature/fix/hotfix branches
  IntegrationBranches,  \* names it gives integration branches
  PullRequests,         \* numbers the provider hands out
  Tags,                 \* release tags
  NoBranch,             \* the head of a pull request not opened yet
  Ops,                  \* the endpoints the clients of a run use
  MaxCalls              \* bound: requests made in a behaviour

WorkBranches == FeatureBranches \union IntegrationBranches
Branches == WorkBranches \union {Develop}
Protected == {Develop}

AllOps == {"create_repository", "create_branch", "delete_branch", "commit_files",
           "create_pull_request", "approve_pull_request", "merge_pull_request",
           "create_release", "rollback_release"}

ASSUME RepositoryConstants ==
  /\ IsFiniteSet(Callers)
  /\ Develop \notin WorkBranches
  /\ FeatureBranches \intersect IntegrationBranches = {}
  /\ NoBranch \notin Branches
  /\ Ops \subseteq AllOps
  /\ MaxCalls \in Nat

Events ==
  ({"repository.created"} \X {Project})
    \union ({"repository.branch.created", "repository.commit.created"} \X Branches)
    \union ({"repository.pr.created", "repository.pr.approved",
             "repository.pr.merged", "pr.merge_conflict"} \X PullRequests)
    \union ({"repository.release.created", "repository.release.rollback"} \X Tags)

VARIABLES
  gh,        \* the provider: repository, branches, the commits made on each branch
             \* (not those a merge brings in), pull requests, releases
  db,        \* the Postgres rows
  recorded,  \* how often each event was appended to repository_events
  sent,      \* how often each event was published on NATS
  pc,        \* the await each caller is at
  arg,       \* the branch, pull request or tag its method works on
  parent,    \* the parent commit a commit was built on
  event,     \* the event its method is about to record
  outcome,   \* what its last method returned or raised
  calls      \* requests made so far

vars == <<gh, db, recorded, sent, pc, arg, parent, event, outcome, calls>>

Outcomes == {"none", "ok", "error", "protected"}

RepositorySteps == {"repo.provider", "repo.develop", "repo.seed", "repo.row"}

BranchSteps == {"branch.provider", "branch.row", "delete.provider", "delete.row",
                "commit.ref", "commit.patch", "commit.row"}

PullRequestSteps == {"pr.row", "approve.mark", "merge.provider", "merge.conflict",
                     "merge.mark", "merge.retire"}

TagSteps == {"release.lookup", "release.post", "rollback.lookup", "rollback.delete"}

Steps == RepositorySteps \union BranchSteps \union PullRequestSteps \union TagSteps
           \union {"pr.provider", "audit", "publish", "idle"}

\* The provider calls and writes whose failure the method raises.
FallibleSteps == Steps \ {"merge.retire", "publish", "idle"}

ProviderTypeOK ==
  gh \in [repo : BOOLEAN,
          branch : [Branches -> BOOLEAN],
          commits : [Branches -> Nat],
          pr : [PullRequests -> {"none", "open", "closed", "merged"}],
          head : [PullRequests -> Branches \union {NoBranch}],
          release : [Tags -> BOOLEAN]]

RowsTypeOK ==
  /\ db \in [repo : BOOLEAN,
             branch : [Branches -> {"none", "active", "merged", "deleted"}],
             head : [Branches -> Nat],
             pr : [PullRequests -> {"none", "open", "approved", "merged", "conflicted"}],
             approvedAt : SUBSET PullRequests,
             mergeSha : SUBSET PullRequests]
  /\ recorded \in [Events -> Nat]
  /\ sent \in [Events -> Nat]

CallersTypeOK ==
  /\ pc \in [Callers -> Steps]
  /\ outcome \in [Callers -> Outcomes]
  /\ parent \in [Callers -> Nat]
  /\ event \in [Callers -> Events]
  /\ calls \in Nat

\* What the method at each step works on.  A pull request may be asked for from
\* any branch.
ArgTypeOK ==
  \A c \in Callers :
    /\ pc[c] = "pr.provider" => arg[c] \in Branches
    /\ pc[c] \in BranchSteps => arg[c] \in WorkBranches
    /\ pc[c] \in PullRequestSteps => arg[c] \in PullRequests
    /\ pc[c] \in TagSteps => arg[c] \in Tags

\* Rows, counters and running methods hold values of their kind: statuses the CHECK
\* constraints allow, and at every await an argument its method can work on.
TypeOK ==
  /\ ProviderTypeOK
  /\ RowsTypeOK
  /\ CallersTypeOK
  /\ arg \in [Callers -> {Project} \union Branches \union PullRequests \union Tags]
  /\ ArgTypeOK

Init ==
  /\ gh = [repo |-> FALSE,
           branch |-> [b \in Branches |-> FALSE],
           commits |-> [b \in Branches |-> 0],
           pr |-> [p \in PullRequests |-> "none"],
           head |-> [p \in PullRequests |-> NoBranch],
           release |-> [t \in Tags |-> FALSE]]
  /\ db = [repo |-> FALSE,
           branch |-> [b \in Branches |-> "none"],
           head |-> [b \in Branches |-> 0],
           pr |-> [p \in PullRequests |-> "none"],
           approvedAt |-> {},
           mergeSha |-> {}]
  /\ recorded = [e \in Events |-> 0]
  /\ sent = [e \in Events |-> 0]
  /\ pc = [c \in Callers |-> "idle"]
  /\ arg = [c \in Callers |-> Project]
  /\ parent = [c \in Callers |-> 0]
  /\ event = [c \in Callers |-> <<"repository.created", Project>>]
  /\ outcome = [c \in Callers |-> "none"]
  /\ calls = 0

-----------------------------------------------------------------------------
(***************************************************************************)
(* How a method moves from await to await.                                 *)
(***************************************************************************)
Goto(c, l) == pc' = [pc EXCEPT ![c] = l] /\ UNCHANGED outcome

Return(c, o) ==
  /\ pc' = [pc EXCEPT ![c] = "idle"]
  /\ outcome' = [outcome EXCEPT ![c] = o]

\* The provider did the work; its answer arrives, or is lost and the adapter
\* raises ProviderUnavailableError.
Answer(c, l) == Goto(c, l) \/ Return(c, "error")

Announce(c, kind, x) == event' = [event EXCEPT ![c] = <<kind, x>>]

\* A method starts with the reads and checks before its first provider call or
\* write: "early" is "none", or what it returns or raises at once.
Dispatch(c, x, early, l) ==
  /\ pc[c] = "idle"
  /\ arg' = [arg EXCEPT ![c] = x]
  /\ pc' = [pc EXCEPT ![c] = IF early = "none" THEN l ELSE "idle"]
  /\ outcome' = [outcome EXCEPT ![c] = early]
  /\ UNCHANGED <<gh, db, recorded, sent, parent, event>>

NeedsRepository == IF db.repo THEN "none" ELSE "error"

-----------------------------------------------------------------------------
(***************************************************************************)
(* RepositoryManager.create_repository                                     *)
(***************************************************************************)
BeginCreateRepository(c) ==
  Dispatch(c, Project, IF db.repo THEN "ok" ELSE "none", "repo.provider")

\* A second POST under the same name is refused with 422.
RepoProvider(c) ==
  /\ pc[c] = "repo.provider"
  /\ \/ /\ ~gh.repo
        /\ gh' = [gh EXCEPT !.repo = TRUE]
        /\ Answer(c, "repo.develop")
     \/ /\ gh.repo
        /\ Return(c, "error")
        /\ UNCHANGED gh
  /\ UNCHANGED <<db, recorded, sent, arg, parent, event, calls>>

\* The provider refuses a second develop with 422 (StepFails).
RepoDevelop(c) ==
  /\ pc[c] = "repo.develop"
  /\ ~gh.branch[Develop]
  /\ gh' = [gh EXCEPT !.branch[Develop] = TRUE]
  /\ Answer(c, "repo.seed")
  /\ UNCHANGED <<db, recorded, sent, arg, parent, event, calls>>

\* Mutant: scaffolding is best effort, its failure is swallowed.
RepoSeedBestEffort(c) ==
  /\ pc[c] = "repo.seed"
  /\ gh' \in {gh, [gh EXCEPT !.commits[Develop] = @ + 1]}
  /\ Goto(c, "repo.row")
  /\ UNCHANGED <<db, recorded, sent, arg, parent, event, calls>>

RepoSeed(c) ==
  /\ pc[c] = "repo.seed"
  /\ gh' = [gh EXCEPT !.commits[Develop] = @ + 1]
  /\ Answer(c, "repo.row")
  /\ UNCHANGED <<db, recorded, sent, arg, parent, event, calls>>

RepoRow(c) ==
  /\ pc[c] = "repo.row"
  /\ db' = [db EXCEPT !.repo = TRUE]
  /\ Announce(c, "repository.created", Project)
  /\ Goto(c, "audit")
  /\ UNCHANGED <<gh, recorded, sent, arg, parent, calls>>

-----------------------------------------------------------------------------
(***************************************************************************)
(* BranchManager.create_branch and BranchManager.delete_branch             *)
(***************************************************************************)
BeginCreateBranch(c, b) == Dispatch(c, b, NeedsRepository, "branch.provider")

BranchProvider(c) ==
  LET b == arg[c] IN
  /\ pc[c] = "branch.provider"
  /\ \/ /\ ~gh.branch[b]
        /\ gh' = [gh EXCEPT !.branch[b] = TRUE]
        /\ Answer(c, "branch.row")
     \/ /\ gh.branch[b]
        /\ Return(c, "error")
        /\ UNCHANGED gh
  /\ UNCHANGED <<db, recorded, sent, arg, parent, event, calls>>

\* The insert violates uq_branches_repository_name when the name was ever used,
\* and ck_branches_type, which does not list "integration", for an integration
\* branch; the provider's branch stays.
BranchRow(c) ==
  LET b == arg[c] IN
  /\ pc[c] = "branch.row"
  /\ \/ /\ db.branch[b] = "none"
        /\ b \notin IntegrationBranches
        /\ db' = [db EXCEPT !.branch[b] = "active"]
        /\ Announce(c, "repository.branch.created", b)
        /\ Goto(c, "audit")
     \/ /\ db.branch[b] # "none" \/ b \in IntegrationBranches
        /\ Return(c, "error")
        /\ UNCHANGED <<db, event>>
  /\ UNCHANGED <<gh, recorded, sent, arg, parent, calls>>

BeginDeleteBranch(c, b) ==
  Dispatch(c, b, IF b \in Protected THEN "protected" ELSE NeedsRepository,
           "delete.provider")

\* The adapter refuses main and develop once more before it calls (StepFails).
\* Deleting the head branch closes the pull requests open on it.  A branch that
\* is already gone (404) counts as deleted.
DeleteProvider(c) ==
  LET b == arg[c] IN
  /\ pc[c] = "delete.provider"
  /\ b \notin Protected
  /\ gh' = [gh EXCEPT
       !.branch[b] = FALSE,
       !.commits[b] = 0,
       !.pr = [p \in PullRequests |->
                 IF gh.head[p] = b /\ @[p] = "open" THEN "closed" ELSE @[p]]]
  /\ Answer(c, "delete.row")
  /\ UNCHANGED <<db, recorded, sent, arg, parent, event, calls>>

DeleteRow(c) ==
  LET b == arg[c] IN
  /\ pc[c] = "delete.row"
  /\ db' = [db EXCEPT !.branch[b] = IF @ = "none" THEN @ ELSE "deleted"]
  /\ Return(c, "ok")
  /\ UNCHANGED <<gh, recorded, sent, arg, parent, event, calls>>

-----------------------------------------------------------------------------
(***************************************************************************)
(* CommitManager.commit_files.  The adapter reads the branch's tip, builds *)
(* the commit on it, and moves the ref without force: the move is refused  *)
(* when the tip is no longer the parent.                                   *)
(***************************************************************************)
BeginCommit(c, b) ==
  Dispatch(c, b,
           CASE b \in Protected -> "protected"
             [] b \notin Protected /\ db.repo /\ db.branch[b] # "none" -> "none"
             [] OTHER -> "error",
           "commit.ref")

CommitRef(c) ==
  LET b == arg[c] IN
  /\ pc[c] = "commit.ref"
  /\ \/ /\ gh.branch[b]
        /\ parent' = [parent EXCEPT ![c] = gh.commits[b]]
        /\ Goto(c, "commit.patch")
     \/ /\ ~gh.branch[b]
        /\ Return(c, "error")
        /\ UNCHANGED parent
  /\ UNCHANGED <<gh, db, recorded, sent, arg, event, calls>>

\* Mutant: the ref is moved with force, whatever its tip is.
CommitPatchForced(c) ==
  LET b == arg[c] IN
  /\ pc[c] = "commit.patch"
  /\ gh' = [gh EXCEPT !.commits[b] = parent[c] + 1]
  /\ Answer(c, "commit.row")
  /\ UNCHANGED <<db, recorded, sent, arg, parent, event, calls>>

CommitPatch(c) ==
  LET b == arg[c]
      fastForward == gh.branch[b] /\ gh.commits[b] = parent[c]
  IN
  /\ pc[c] = "commit.patch"
  /\ \/ /\ fastForward
        /\ gh' = [gh EXCEPT !.commits[b] = @ + 1]
        /\ Answer(c, "commit.row")
     \/ /\ ~fastForward
        /\ Return(c, "error")
        /\ UNCHANGED gh
  /\ UNCHANGED <<db, recorded, sent, arg, parent, event, calls>>

CommitRow(c) ==
  LET b == arg[c] IN
  /\ pc[c] = "commit.row"
  /\ db' = [db EXCEPT !.head[b] = parent[c] + 1]
  /\ Announce(c, "repository.commit.created", b)
  /\ Goto(c, "audit")
  /\ UNCHANGED <<gh, recorded, sent, arg, parent, calls>>

-----------------------------------------------------------------------------
(***************************************************************************)
(* PullRequestManager                                                      *)
(***************************************************************************)
BeginCreatePullRequest(c, b) == Dispatch(c, b, NeedsRepository, "pr.provider")

\* The provider refuses a head without commits and a second open pull request
\* on one head.
Openable(b, p) ==
  /\ gh.branch[b]
  /\ gh.commits[b] > 0
  /\ gh.pr[p] = "none"
  /\ \A q \in PullRequests : gh.head[q] = b => gh.pr[q] # "open"

OpenProvider(c) ==
  LET b == arg[c] IN
  /\ pc[c] = "pr.provider"
  /\ \/ \E p \in PullRequests :
          /\ Openable(b, p)
          /\ gh' = [gh EXCEPT !.pr[p] = "open", !.head[p] = b]
          /\ arg' = [arg EXCEPT ![c] = p]
          /\ Answer(c, "pr.row")
     \/ /\ \A p \in PullRequests : ~Openable(b, p)
        /\ Return(c, "error")
        /\ UNCHANGED <<gh, arg>>
  /\ UNCHANGED <<db, recorded, sent, parent, event, calls>>

PullRequestRow(c) ==
  LET p == arg[c] IN
  /\ pc[c] = "pr.row"
  /\ db' = [db EXCEPT !.pr[p] = "open"]
  /\ Announce(c, "repository.pr.created", p)
  /\ Goto(c, "audit")
  /\ UNCHANGED <<gh, recorded, sent, arg, parent, calls>>

\* The status is read here and written in a later transaction.
BeginApprove(c, p) ==
  Dispatch(c, p, IF db.pr[p] = "open" THEN "none" ELSE "error", "approve.mark")

ApproveMark(c) ==
  LET p == arg[c] IN
  /\ pc[c] = "approve.mark"
  /\ db' = [db EXCEPT !.pr[p] = "approved", !.approvedAt = @ \union {p}]
  /\ Announce(c, "repository.pr.approved", p)
  /\ Goto(c, "audit")
  /\ UNCHANGED <<gh, recorded, sent, arg, parent, calls>>

\* Mutant: any live pull request may be merged.
BeginMergeUnapproved(c, p) ==
  Dispatch(c, p, IF db.pr[p] \in {"open", "approved"} THEN "none" ELSE "error",
           "merge.provider")

BeginMerge(c, p) ==
  Dispatch(c, p, IF db.pr[p] = "approved" THEN "none" ELSE "error", "merge.provider")

\* Mutant: a pull request that is already merged counts as merged by this call.
MergeProviderIdempotent(c) ==
  LET p == arg[c] IN
  /\ pc[c] = "merge.provider"
  /\ gh.pr[p] \in {"open", "merged"}
  /\ gh' = [gh EXCEPT !.pr[p] = "merged"]
  /\ Answer(c, "merge.mark")
  /\ UNCHANGED <<db, recorded, sent, arg, parent, event, calls>>

\* 405 for a pull request that is not open, 405 or 409 for one that conflicts:
\* the adapter raises MergeConflictError for all of them.
MergeProvider(c) ==
  LET p == arg[c] IN
  /\ pc[c] = "merge.provider"
  /\ \/ /\ gh.pr[p] = "open"
        /\ gh' = [gh EXCEPT !.pr[p] = "merged"]
        /\ Answer(c, "merge.mark")
     \/ Goto(c, "merge.conflict") /\ UNCHANGED gh
  /\ UNCHANGED <<db, recorded, sent, arg, parent, event, calls>>

\* Mutant: a status ck_pull_requests_status does not know.
MergeConflictMisnamed(c) ==
  /\ pc[c] = "merge.conflict"
  /\ db' = [db EXCEPT !.pr[arg[c]] = "conflict"]
  /\ Announce(c, "pr.merge_conflict", arg[c])
  /\ Goto(c, "audit")
  /\ UNCHANGED <<gh, recorded, sent, arg, parent, calls>>

\* Mutant: the conflict is not re-raised and the housekeeping runs.
MergeConflictFallsThrough(c) ==
  /\ pc[c] = "merge.conflict"
  /\ db' = [db EXCEPT !.pr[arg[c]] = "conflicted"]
  /\ Goto(c, "merge.retire")
  /\ UNCHANGED <<gh, recorded, sent, arg, parent, event, calls>>

MergeConflict(c) ==
  LET p == arg[c] IN
  /\ pc[c] = "merge.conflict"
  /\ db' = [db EXCEPT !.pr[p] = "conflicted"]
  /\ Announce(c, "pr.merge_conflict", p)
  /\ Goto(c, "audit")
  /\ UNCHANGED <<gh, recorded, sent, arg, parent, calls>>

MergeMark(c) ==
  LET p == arg[c] IN
  /\ pc[c] = "merge.mark"
  /\ db' = [db EXCEPT !.pr[p] = "merged", !.mergeSha = @ \union {p}]
  /\ Goto(c, "merge.retire")
  /\ UNCHANGED <<gh, recorded, sent, arg, parent, event, calls>>

\* Post-merge housekeeping; its exceptions are swallowed.
MergeRetire(c) ==
  LET p == arg[c]
      b == gh.head[p]
  IN
  /\ pc[c] = "merge.retire"
  /\ \/ /\ b \notin Protected
        /\ db.branch[b] # "none"
        /\ db' = [db EXCEPT !.branch[b] = "merged"]
     \/ UNCHANGED db
  /\ Announce(c, "repository.pr.merged", p)
  /\ Goto(c, "audit")
  /\ UNCHANGED <<gh, recorded, sent, arg, parent, calls>>

-----------------------------------------------------------------------------
(***************************************************************************)
(* ReleaseManager: no row of its own, the audit log is its history.        *)
(***************************************************************************)
BeginCreateRelease(c, t) == Dispatch(c, t, NeedsRepository, "release.lookup")

ReleaseLookup(c) ==
  /\ pc[c] = "release.lookup"
  /\ IF gh.release[arg[c]] THEN Return(c, "error") ELSE Goto(c, "release.post")
  /\ UNCHANGED <<gh, db, recorded, sent, arg, parent, event, calls>>

ReleasePost(c) ==
  LET t == arg[c] IN
  /\ pc[c] = "release.post"
  /\ \/ /\ ~gh.release[t]
        /\ gh' = [gh EXCEPT !.release[t] = TRUE]
        /\ Announce(c, "repository.release.created", t)
        /\ Answer(c, "audit")
     \/ /\ gh.release[t]
        /\ Return(c, "error")
        /\ UNCHANGED <<gh, event>>
  /\ UNCHANGED <<db, recorded, sent, arg, parent, calls>>

BeginRollback(c, t) == Dispatch(c, t, NeedsRepository, "rollback.lookup")

\* A release that does not exist is "rolled back" too, and audited as such.
RollbackLookup(c) ==
  LET t == arg[c] IN
  /\ pc[c] = "rollback.lookup"
  /\ Announce(c, "repository.release.rollback", t)
  /\ Goto(c, IF gh.release[t] THEN "rollback.delete" ELSE "audit")
  /\ UNCHANGED <<gh, db, recorded, sent, arg, parent, calls>>

RollbackDelete(c) ==
  /\ pc[c] = "rollback.delete"
  /\ gh' = [gh EXCEPT !.release[arg[c]] = FALSE]
  /\ Answer(c, "audit")
  /\ UNCHANGED <<db, recorded, sent, arg, parent, event, calls>>

-----------------------------------------------------------------------------
(***************************************************************************)
(* AuditManager.record_and_publish: the row is committed, then the event   *)
(* is published; a failed publish is logged and swallowed.                 *)
(***************************************************************************)
\* Mutant: a failed insert of the audit row is swallowed like a failed publish.
RecordEventSwallowed(c) ==
  /\ pc[c] = "audit"
  /\ recorded' \in {recorded, [recorded EXCEPT ![event[c]] = @ + 1]}
  /\ Goto(c, "publish")
  /\ UNCHANGED <<gh, db, sent, arg, parent, event, calls>>

RecordEvent(c) ==
  /\ pc[c] = "audit"
  /\ recorded' = [recorded EXCEPT ![event[c]] = @ + 1]
  /\ Goto(c, "publish")
  /\ UNCHANGED <<gh, db, sent, arg, parent, event, calls>>

PublishEvent(c) ==
  /\ pc[c] = "publish"
  /\ \/ sent' = [sent EXCEPT ![event[c]] = @ + 1]
     \/ UNCHANGED sent
  /\ Return(c, IF event[c][1] = "pr.merge_conflict" THEN "error" ELSE "ok")
  /\ UNCHANGED <<gh, db, recorded, arg, parent, event, calls>>

\* The provider or the database fails before doing anything: the method raises.
StepFails(c) ==
  /\ pc[c] \in FallibleSteps
  /\ Return(c, "error")
  /\ UNCHANGED <<gh, db, recorded, sent, arg, parent, event, calls>>

\* The service process dies and comes back: its requests are gone, what they
\* did at the provider and in the database stays.
Restart ==
  /\ \E c \in Callers : pc[c] # "idle"
  /\ pc' = [c \in Callers |-> "idle"]
  /\ outcome' = [c \in Callers |-> "error"]
  /\ UNCHANGED <<gh, db, recorded, sent, arg, parent, event, calls>>

-----------------------------------------------------------------------------
\* A call of one endpoint or subscription.
BeginOp(c, op) ==
  \/ op = "create_repository" /\ BeginCreateRepository(c)
  \/ op = "create_branch" /\ \E b \in WorkBranches : BeginCreateBranch(c, b)
  \/ op = "delete_branch" /\ \E b \in Branches : BeginDeleteBranch(c, b)
  \/ op = "commit_files" /\ \E b \in Branches : BeginCommit(c, b)
  \/ op = "create_pull_request" /\ \E b \in Branches : BeginCreatePullRequest(c, b)
  \/ op = "approve_pull_request" /\ \E p \in PullRequests : BeginApprove(c, p)
  \/ op = "merge_pull_request" /\ \E p \in PullRequests : BeginMerge(c, p)
  \/ op = "create_release" /\ \E t \in Tags : BeginCreateRelease(c, t)
  \/ op = "rollback_release" /\ \E t \in Tags : BeginRollback(c, t)

\* An HTTP request, or a NATS delivery, possibly a redelivery of an earlier one.
Request(c, ops) ==
  /\ calls < MaxCalls
  /\ calls' = calls + 1
  /\ \E op \in ops : BeginOp(c, op)

CallStep(c) ==
  \/ RepoProvider(c) \/ RepoDevelop(c) \/ RepoSeed(c) \/ RepoRow(c)
  \/ BranchProvider(c) \/ BranchRow(c) \/ DeleteProvider(c) \/ DeleteRow(c)
  \/ CommitRef(c) \/ CommitPatch(c) \/ CommitRow(c)
  \/ OpenProvider(c) \/ PullRequestRow(c) \/ ApproveMark(c)
  \/ MergeProvider(c) \/ MergeConflict(c) \/ MergeMark(c) \/ MergeRetire(c)
  \/ ReleaseLookup(c) \/ ReleasePost(c) \/ RollbackLookup(c) \/ RollbackDelete(c)
  \/ RecordEvent(c) \/ PublishEvent(c) \/ StepFails(c)

Next ==
  \/ \E c \in Callers : Request(c, Ops) \/ CallStep(c)
  \/ Restart

Spec == Init /\ [][Next]_vars

-----------------------------------------------------------------------------
(***************************************************************************)
(* Properties.                                                             *)
(***************************************************************************)

\* The provider never merges a pull request nobody approved, whatever mix of
\* duplicate, retried and concurrent approve and merge calls arrives.
ApprovalGate ==
  \A p \in PullRequests : gh.pr[p] = "merged" => p \in db.approvedAt

\* A row with a merge_sha is a pull request the provider merged, and the merge
\* is in the audit log at most once and only then.
MergeHistoryTrue ==
  \A p \in PullRequests :
    /\ p \in db.mergeSha => gh.pr[p] = "merged"
    /\ recorded[<<"repository.pr.merged", p>>] <= (IF p \in db.mergeSha THEN 1 ELSE 0)

\* Every publish is backed by a repository_events row (api/events.py).
PublishedEventsRecorded == \A e \in Events : sent[e] <= recorded[e]

\* Provisioning is never half done and never done twice: a project with a repository
\* row has the provider's repository, its develop branch and exactly one scaffold
\* commit on it, from the row on and whatever is deleted later; and it is audited as
\* created once at most, only then, however many provisioning requests overlap, lose
\* an answer or die between two of the provider's calls.
ProvisionedOnce ==
  /\ db.repo => gh.repo /\ gh.branch[Develop] /\ gh.commits[Develop] = 1
  /\ recorded[<<"repository.created", Project>>] <= (IF db.repo THEN 1 ELSE 0)

\* A branch row is retired only by a merge of a pull request from that branch.
RetiredBranchWasMerged ==
  \A b \in Branches :
    db.branch[b] = "merged" =>
      \E p \in PullRequests : gh.head[p] = b /\ gh.pr[p] = "merged"

\* While nobody deletes branches, every commit acknowledged in the audit log is
\* in the branch's history and head_sha names a commit of it: concurrent commits
\* to one branch are refused, never overwritten.
CommitsLand ==
  \A b \in Branches :
    /\ recorded[<<"repository.commit.created", b>>] <= gh.commits[b]
    /\ db.head[b] <= gh.commits[b]

AcknowledgedCommitsLand == "delete_branch" \notin Ops => CommitsLand

\* What the service promises about pull requests (module PullRequestGate).
Gate == INSTANCE PullRequestGate WITH
  opened <- {p \in PullRequests : gh.pr[p] # "none"},
  approved <- db.approvedAt,
  merged <- {p \in PullRequests : gh.pr[p] = "merged"}

GateSpec == Gate!Spec

-----------------------------------------------------------------------------
(***************************************************************************)
(* What the source says and the code does not do.                          *)
(***************************************************************************)

\* schemas: MergeConflictError is "raised when a pull request cannot be merged
\* due to a conflict", so a row marked conflicted is not one that was merged.
ConflictedIsUnmerged ==
  \A p \in PullRequests : db.pr[p] = "conflicted" => gh.pr[p] # "merged"
=============================================================================
