------------------------ MODULE RepositoryGraph_proofs ------------------------
(***************************************************************************)
(* The workflow graph W as one more caller of the repository service, for  *)
(* every set of other callers and every bound on retries and restarts:     *)
(*                                                                         *)
(*   GraphInvariant  the service's invariants hold with W in it, and where *)
(*                   W is in the graph and in the service agree            *)
(*   DecisionsHold   what completes with an approval was merged, and       *)
(*                   nothing is merged without one                         *)
(*   CommitsOnce     the task's commit is made once, among callers that    *)
(*                   do not commit themselves                              *)
(***************************************************************************)
EXTENDS RepositoryGraph, Repository_proofs

-----------------------------------------------------------------------------
(***************************************************************************)
(* The inductive invariant                                                 *)
(***************************************************************************)
MergeSteps == {"approve.mark", "merge.provider", "merge.conflict", "merge.mark",
               "merge.retire"}

\* Where the graph is and where its manager call is.
PlaceInv ==
  /\ stage = "ready" => pc[W] = "idle"
  /\ stage # "ready" => next \in ActionNodes
  /\ stage = "approving" => next = "merge"
  /\ pc[W] \in MergeSteps => next = "merge" /\ stage # "ready"
  /\ next = "merge" => approval_status = "approved"
  /\ next \in {"approval", "merge", "release"} => pull_request_id \in PullRequests
  /\ next = "release" => CreateRelease
  /\ phase_status = "completed" => next = "end"
  /\ next = "retry" => retry_count < MaxRetries

\* Until the provider answers, open_pr works on a branch; then on a pull request.
OpenInv ==
  next = "open_pr" /\ stage = "call" =>
    \/ pc[W] = "pr.provider"
    \/ pc[W] = "idle" /\ outcome[W] # "ok"
    \/ arg[W] \in PullRequests

\* The merge call works on the graph's pull request and succeeds once its row is marked.
MergingInv ==
  next = "merge" /\ stage = "call" =>
    /\ pc[W] \in {"merge.provider", "merge.conflict", "merge.mark", "merge.retire",
                  "audit", "publish", "idle"}
    /\ pc[W] \in MergeSteps => arg[W] = pull_request_id
    /\ pc[W] = "merge.retire" => pull_request_id \in db.mergeSha
    /\ pc[W] \in {"audit", "publish"} =>
         pull_request_id \in db.mergeSha \/ event[W][1] = "pr.merge_conflict"
    /\ pc[W] = "idle" /\ outcome[W] = "ok" => pull_request_id \in db.mergeSha

MergedInv ==
  /\ next = "release" => pull_request_id \in db.mergeSha
  /\ (next = "publish_events" \/ phase_status = "completed") /\ approval_status = "approved" =>
       pull_request_id \in db.mergeSha

GraphInv == PlaceInv /\ OpenInv /\ MergingInv /\ MergedInv

ServiceInv == TypeOK /\ MergeInv /\ RollbackInv

-----------------------------------------------------------------------------
(***************************************************************************)
(* What the service's steps do to W and to the merged rows                 *)
(***************************************************************************)
LEMMA OutcomesWait ==
  ASSUME TypeOK, NEW c \in Callers, CallStep(c)
  PROVE  \A d \in Callers \ {c} : outcome'[d] = outcome[d]
<1> USE DEF Answer, Goto, Return, TypeOK, CallersTypeOK
<1>1. CASE RepoProvider(c) \/ RepoDevelop(c) \/ RepoSeed(c) \/ RepoRow(c)
  BY <1>1 DEF RepoProvider, RepoDevelop, RepoSeed, RepoRow
<1>2. CASE BranchProvider(c) \/ BranchRow(c) \/ DeleteProvider(c) \/ DeleteRow(c)
  BY <1>2 DEF BranchProvider, BranchRow, DeleteProvider, DeleteRow
<1>3. CASE CommitRef(c) \/ CommitPatch(c) \/ CommitRow(c)
  BY <1>3 DEF CommitRef, CommitPatch, CommitRow
<1>4. CASE OpenProvider(c) \/ PullRequestRow(c) \/ ApproveMark(c)
  BY <1>4 DEF OpenProvider, PullRequestRow, ApproveMark
<1>5. CASE MergeProvider(c) \/ MergeConflict(c) \/ MergeMark(c) \/ MergeRetire(c)
  BY <1>5 DEF MergeProvider, MergeConflict, MergeMark, MergeRetire
<1>6. CASE ReleaseLookup(c) \/ ReleasePost(c) \/ RollbackLookup(c) \/ RollbackDelete(c)
  BY <1>6 DEF ReleaseLookup, ReleasePost, RollbackLookup, RollbackDelete
<1>7. CASE RecordEvent(c) \/ PublishEvent(c) \/ StepFails(c)
  BY <1>7 DEF RecordEvent, PublishEvent, StepFails
<1> QED BY <1>1, <1>2, <1>3, <1>4, <1>5, <1>6, <1>7 DEF CallStep

\* A merge_sha is never taken back.
LEMMA MarksKept ==
  ASSUME TypeOK, RollbackInv, NEW c \in Callers, CallStep(c)
  PROVE  db.mergeSha \subseteq db'.mergeSha
<1>1. CASE Claimless(c)
  BY <1>1, ClaimlessStep
<1>2. CASE MergeProvider(c) \/ RecordEvent(c)
  BY <1>2 DEF MergeProvider, RecordEvent
<1>3. CASE MergeMark(c)
  BY <1>3 DEF MergeMark, TypeOK, RowsTypeOK
<1>4. CASE MergeRetire(c)
  BY <1>4 DEF MergeRetire, TypeOK, RowsTypeOK
<1> QED BY <1>1, <1>2, <1>3, <1>4 DEF CallStep, Claimless, OtherStep

\* A call that is not about a merge does not come to be.
LEMMA NoMergeStarts ==
  ASSUME TypeOK, NEW c \in Callers, CallStep(c), pc[c] \notin MergeSteps
  PROVE  pc'[c] \notin MergeSteps
<1> USE DEF MergeSteps
<1>1. CASE OtherStep(c)
  BY <1>1, OtherStepCallers DEF PullRequestSteps
<1>2. CASE DeleteProvider(c) \/ OpenProvider(c) \/ PullRequestRow(c)
  BY <1>2 DEF DeleteProvider, OpenProvider, PullRequestRow, Answer, Goto, Return, TypeOK,
              CallersTypeOK
<1>3. CASE \/ ApproveMark(c) \/ MergeProvider(c) \/ MergeConflict(c) \/ MergeMark(c)
           \/ MergeRetire(c)
  BY <1>3 DEF ApproveMark, MergeProvider, MergeConflict, MergeMark, MergeRetire
<1>4. CASE RecordEvent(c) \/ PublishEvent(c) \/ StepFails(c)
  BY <1>4 DEF RecordEvent, PublishEvent, StepFails, Goto, Return, TypeOK, CallersTypeOK
<1> QED BY <1>1, <1>2, <1>3, <1>4 DEF CallStep, OtherStep

\* A caller has a call to go on with, and only open_pr's answer changes what it is on.
LEMMA CallAtWork ==
  ASSUME TypeOK, NEW c \in Callers, CallStep(c)
  PROVE  /\ pc[c] # "idle" /\ calls' = calls
         /\ pc'[c] # "pr.provider"
         /\ pc[c] # "pr.provider" => arg'[c] = arg[c]
         /\ pc[c] = "pr.provider" =>
              \/ pc'[c] = "idle" /\ outcome'[c] = "error"
              \/ arg'[c] \in PullRequests
<1> USE DEF Answer, Goto, Return, TypeOK, CallersTypeOK
<1>1. CASE RepoProvider(c) \/ RepoDevelop(c) \/ RepoSeed(c) \/ RepoRow(c)
  BY <1>1 DEF RepoProvider, RepoDevelop, RepoSeed, RepoRow
<1>2. CASE BranchProvider(c) \/ BranchRow(c) \/ DeleteProvider(c) \/ DeleteRow(c)
  BY <1>2 DEF BranchProvider, BranchRow, DeleteProvider, DeleteRow
<1>3. CASE CommitRef(c) \/ CommitPatch(c) \/ CommitRow(c)
  BY <1>3 DEF CommitRef, CommitPatch, CommitRow
<1>4. CASE OpenProvider(c)
  BY <1>4 DEF OpenProvider
<1>5. CASE PullRequestRow(c) \/ ApproveMark(c)
  BY <1>5 DEF PullRequestRow, ApproveMark
<1>6. CASE MergeProvider(c) \/ MergeConflict(c) \/ MergeMark(c) \/ MergeRetire(c)
  BY <1>6 DEF MergeProvider, MergeConflict, MergeMark, MergeRetire
<1>7. CASE ReleaseLookup(c) \/ ReleasePost(c) \/ RollbackLookup(c) \/ RollbackDelete(c)
  BY <1>7 DEF ReleaseLookup, ReleasePost, RollbackLookup, RollbackDelete
<1>8. CASE RecordEvent(c) \/ PublishEvent(c)
  BY <1>8 DEF RecordEvent, PublishEvent
<1>9. CASE StepFails(c)
  BY <1>9 DEF StepFails, FallibleSteps
<1> QED BY <1>1, <1>2, <1>3, <1>4, <1>5, <1>6, <1>7, <1>8, <1>9 DEF CallStep

\* The call of the merge node, from await to await.
LEMMA MergeAtWork ==
  ASSUME TypeOK, NEW c \in Callers, CallStep(c), NEW p \in PullRequests,
         pc[c] \in {"merge.provider", "merge.conflict", "merge.mark", "merge.retire",
                    "audit", "publish"},
         pc[c] \in MergeSteps => arg[c] = p,
         pc[c] = "merge.retire" => p \in db.mergeSha,
         pc[c] \in {"audit", "publish"} =>
           p \in db.mergeSha \/ event[c][1] = "pr.merge_conflict"
  PROVE  /\ pc'[c] \in {"merge.provider", "merge.conflict", "merge.mark", "merge.retire",
                        "audit", "publish", "idle"}
         /\ pc'[c] \in MergeSteps => arg'[c] = p
         /\ pc'[c] = "merge.retire" => p \in db'.mergeSha
         /\ pc'[c] \in {"audit", "publish"} =>
              p \in db'.mergeSha \/ event'[c][1] = "pr.merge_conflict"
         /\ pc'[c] = "idle" /\ outcome'[c] = "ok" => p \in db'.mergeSha
<1> USE DEF MergeSteps, Goto, Return, Answer, TypeOK, CallersTypeOK
<1>1. CASE MergeProvider(c)
  BY <1>1 DEF MergeProvider
<1>2. CASE MergeConflict(c)
  BY <1>2 DEF MergeConflict, Announce
<1>3. CASE MergeMark(c)
  BY <1>3 DEF MergeMark, RowsTypeOK
<1>4. CASE MergeRetire(c)
  BY <1>4 DEF MergeRetire, RowsTypeOK
<1>5. CASE RecordEvent(c)
  BY <1>5 DEF RecordEvent
<1>6. CASE PublishEvent(c)
  BY <1>6 DEF PublishEvent
<1>7. CASE StepFails(c)
  BY <1>7 DEF StepFails
<1>8. MergeProvider(c) \/ MergeConflict(c) \/ MergeMark(c) \/ MergeRetire(c)
        \/ RecordEvent(c) \/ PublishEvent(c) \/ StepFails(c)
  BY DEF CallStep, RepoProvider, RepoDevelop, RepoSeed, RepoRow, BranchProvider, BranchRow,
         DeleteProvider, DeleteRow, CommitRef, CommitPatch, CommitRow, OpenProvider,
         PullRequestRow, ApproveMark, ReleaseLookup, ReleasePost, RollbackLookup, RollbackDelete
<1> QED BY <1>1, <1>2, <1>3, <1>4, <1>5, <1>6, <1>7, <1>8

-----------------------------------------------------------------------------
(***************************************************************************)
(* Every step of the graph and of the service keeps the invariant          *)
(***************************************************************************)
LEMMA ServiceBegins ==
  ASSUME ServiceInv, NEW c \in Callers, NEW op, BeginOp(c, op), calls' \in Nat
  PROVE  ServiceInv'
BY BeginTyped, MergeBegin DEF ServiceInv

LEMMA ServiceSteps ==
  ASSUME ServiceInv, NEW c \in Callers, CallStep(c) \/ Restart \/ UNCHANGED service
  PROVE  ServiceInv'
<1>1. [Next]_vars
  BY DEF Next, service, vars
<1> QED BY <1>1, NextTyped, MergeStep DEF ServiceInv

\* A node's manager call is one of the service's methods.
LEMMA NodeBegins ==
  ASSUME GraphConstants, GraphTypeOK, PlaceInv, EnterNode \/ MergeAfterApprove
  PROVE  \E op \in AllOps : BeginOp(W, op)
<1>1. CASE EnterNode
  <2>1. next = "merge" => pull_request_id \in PullRequests
    BY DEF PlaceInv
  <2>2. next = "release" => Tag \in Tags
    BY DEF PlaceInv, GraphConstants
  <2> QED BY <1>1, <2>1, <2>2 DEF EnterNode, NodeCall, BeginOp, AllOps, GraphConstants, Branches
<1>2. CASE MergeAfterApprove
  BY <1>2 DEF MergeAfterApprove, PlaceInv, BeginOp, AllOps
<1> QED BY <1>1, <1>2

\* A step that leaves the graph and W's call alone, and takes no merge_sha back.
LEMMA GraphWaits ==
  ASSUME GraphInv, UNCHANGED graphVars,
         pc'[W] = pc[W], arg'[W] = arg[W], event'[W] = event[W], outcome'[W] = outcome[W],
         db.mergeSha \subseteq db'.mergeSha
  PROVE  GraphInv'
<1>1. PlaceInv' /\ OpenInv'
  BY DEF GraphInv, graphVars, channels, PlaceInv, OpenInv
<1>2. MergingInv' /\ MergedInv'
  BY DEF GraphInv, graphVars, channels, MergingInv, MergedInv
<1> QED BY <1>1, <1>2 DEF GraphInv

LEMMA OthersKeep ==
  ASSUME GraphConstants, ServiceInv, GraphInv, NEW c \in Callers \ {W}, UNCHANGED graphVars,
         CallStep(c) \/ Request(c, Ops)
  PROVE  GraphInv'
<1>1. W \in Callers /\ W # c
  BY DEF GraphConstants
<1>2. CASE CallStep(c)
  BY <1>1, <1>2, OthersWait, OutcomesWait, MarksKept, GraphWaits DEF ServiceInv
<1>3. ASSUME NEW op, BeginOp(c, op) PROVE GraphInv'
  <2>1. PICK x, early : \E l \in Entries : Dispatch(c, x, early, l)
    BY <1>3, BeginDispatches
  <2>2. outcome'[W] = outcome[W]
    BY <1>1, <2>1 DEF Dispatch, ServiceInv, TypeOK, CallersTypeOK
  <2> QED BY <1>1, <1>3, <2>2, BeginQuiet, GraphWaits DEF ServiceInv
<1> QED BY <1>2, <1>3 DEF Request

LEMMA OwnCallKeeps ==
  ASSUME GraphConstants, ServiceInv, GraphInv, UNCHANGED graphVars, CallStep(W)
  PROVE  GraphInv'
<1>1. W \in Callers /\ TypeOK /\ RollbackInv
  BY DEF GraphConstants, ServiceInv
<1>2. UNCHANGED <<next, stage, phase_status, approval_status, pull_request_id,
                retry_count>>
  BY DEF graphVars, channels
<1>3. PlaceInv'
  BY <1>1, <1>2, CallAtWork, NoMergeStarts DEF GraphInv, PlaceInv
<1>4. OpenInv'
  BY <1>1, <1>2, CallAtWork DEF GraphInv, OpenInv
<1>5. MergingInv'
  <2> SUFFICES ASSUME next = "merge", stage = "call" PROVE MergingInv'
    BY <1>2 DEF MergingInv
  <2>1. pull_request_id \in PullRequests /\ pc[W] # "idle"
    BY <1>1, CallAtWork DEF GraphInv, PlaceInv
  <2> QED BY <1>1, <1>2, <2>1, MergeAtWork DEF GraphInv, MergingInv
<1>6. MergedInv'
  BY <1>1, <1>2, MarksKept DEF GraphInv, MergedInv
<1> QED BY <1>3, <1>4, <1>5, <1>6 DEF GraphInv

LEMMA NodeEnters ==
  ASSUME GraphConstants, ServiceInv, GraphTypeOK, GraphInv, EnterNode \/ MergeAfterApprove
  PROVE  GraphInv'
<1>1. W \in Callers /\ TypeOK
  BY DEF GraphConstants, ServiceInv
<1>2. UNCHANGED <<next, channels>> /\ next \in ActionNodes /\ db' = db
  BY DEF EnterNode, MergeAfterApprove, NodeCall, GraphInv, PlaceInv, ActionNodes, Dispatch,
         BeginCreateRepository, BeginCreateBranch, BeginCommit, BeginCreatePullRequest,
         BeginApprove, BeginMerge, BeginCreateRelease
<1>3. CASE next \notin {"open_pr", "merge"}
  <2>1. stage' = "call" /\ pc'[W] \notin MergeSteps
    BY <1>1, <1>3 DEF EnterNode, MergeAfterApprove, NodeCall, GraphInv, PlaceInv, ActionNodes,
         BeginCreateRepository, BeginCreateBranch, BeginCommit, BeginCreateRelease, Dispatch,
         MergeSteps, TypeOK, CallersTypeOK
  <2> QED BY <1>2, <1>3, <2>1 DEF GraphInv, PlaceInv, OpenInv, MergingInv, MergedInv, channels
<1>4. CASE next = "open_pr"
  <2>1. BeginCreatePullRequest(W, Branch) /\ stage' = "call"
    BY <1>4 DEF EnterNode, MergeAfterApprove, NodeCall, GraphInv, PlaceInv
  <2>2. pc'[W] = "pr.provider" \/ (pc'[W] = "idle" /\ outcome'[W] = "error")
    <3>1. NeedsRepository \in {"none", "error"}
      BY DEF NeedsRepository
    <3>2. /\ pc' = [pc EXCEPT ![W] = IF NeedsRepository = "none" THEN "pr.provider" ELSE "idle"]
          /\ outcome' = [outcome EXCEPT ![W] = NeedsRepository]
      BY <2>1 DEF BeginCreatePullRequest, Dispatch
    <3> QED BY <1>1, <3>1, <3>2 DEF TypeOK, CallersTypeOK
  <2> QED BY <1>2, <1>4, <2>1, <2>2
          DEF GraphInv, PlaceInv, OpenInv, MergingInv, MergedInv, MergeSteps, channels
<1>5. CASE next = "merge"
  <2>1. \/ stage' = "approving" /\ BeginApprove(W, pull_request_id)
        \/ stage' = "call" /\ BeginMerge(W, pull_request_id)
    BY <1>5 DEF EnterNode, MergeAfterApprove, NodeCall
  <2>2. /\ arg'[W] = pull_request_id
        /\ stage' = "approving" => pc'[W] \in {"approve.mark", "idle"}
        /\ stage' = "call" => \/ pc'[W] = "merge.provider"
                              \/ pc'[W] = "idle" /\ outcome'[W] = "error"
    BY <1>1, <2>1 DEF BeginApprove, BeginMerge, Dispatch, TypeOK, CallersTypeOK
  <2> QED BY <1>2, <1>5, <2>1, <2>2
          DEF GraphInv, PlaceInv, OpenInv, MergingInv, MergedInv, MergeSteps, channels
<1> QED BY <1>3, <1>4, <1>5

LEMMA NodeFinishes ==
  ASSUME GraphConstants, GraphTypeOK, GraphInv, FinishNode
  PROVE  GraphInv'
<1>1. /\ pc[W] = "idle" /\ stage' = "ready" /\ next \in ActionNodes
      /\ UNCHANGED <<approval_status, service>>
      /\ stage = "call" \/ outcome[W] # "ok"
      /\ phase_status' \in {"running", "failed"}
  BY DEF FinishNode, Succeeded, Failed, GraphInv, PlaceInv
<1>2. CASE outcome[W] = "ok"
  <2>1. /\ phase_status' = "running" /\ next' = SuccessTarget(next)
        /\ pull_request_id' = IF next = "open_pr" THEN arg[W] ELSE pull_request_id
    BY <1>2 DEF FinishNode, Succeeded, RouteAfterAction
  <2>2. next = "open_pr" => arg[W] \in PullRequests
    BY <1>1, <1>2 DEF GraphInv, OpenInv
  <2>3. next = "merge" => pull_request_id \in db.mergeSha
    BY <1>1, <1>2 DEF GraphInv, MergingInv
  <2>4. PlaceInv'
    BY <1>1, <2>1, <2>2 DEF GraphInv, PlaceInv, SuccessTarget, ActionNodes, service, MergeSteps
  <2>5. OpenInv' /\ MergingInv'
    BY <1>1 DEF OpenInv, MergingInv
  <2>6. MergedInv'
    BY <1>1, <2>1, <2>3 DEF GraphInv, MergedInv, SuccessTarget, ActionNodes, service
  <2> QED BY <2>4, <2>5, <2>6 DEF GraphInv
<1>3. CASE outcome[W] # "ok"
  <2>1. /\ next' \in {"dead_letter", "retry", "escalate"} /\ phase_status' = "failed"
        /\ next' = "retry" => retry_count' < MaxRetries
    BY <1>3 DEF FinishNode, Failed, RouteAfterAction
  <2> QED BY <1>1, <2>1 DEF GraphInv, PlaceInv, OpenInv, MergingInv, MergedInv, service,
                           MergeSteps
<1> QED BY <1>2, <1>3

\* The nodes without a manager call, and the decision.
LEMMA OtherNodesKeep ==
  ASSUME GraphTypeOK, GraphInv,
         \/ RetryNode \/ PublishEventsNode \/ EscalateNode \/ ApprovalNode
         \/ \E d \in {"approved", "rejected"} : Decide(d)
  PROVE  GraphInv'
<1> USE DEF GraphInv, PlaceInv, OpenInv, MergingInv, MergedInv, service, ActionNodes, MergeSteps
<1>1. CASE RetryNode
  BY <1>1 DEF RetryNode, RouteAfterRetry
<1>2. CASE PublishEventsNode
  BY <1>2 DEF PublishEventsNode
<1>3. CASE EscalateNode
  BY <1>3 DEF EscalateNode
<1>4. CASE ApprovalNode
  BY <1>4 DEF ApprovalNode, RouteApprovalGate
<1>5. CASE \E d \in {"approved", "rejected"} : Decide(d)
  BY <1>5 DEF Decide
<1> QED BY <1>1, <1>2, <1>3, <1>4, <1>5

LEMMA RestartKeeps ==
  ASSUME GraphConstants, GraphInv, GraphRestart PROVE GraphInv'
BY DEF GraphInv, PlaceInv, OpenInv, MergingInv, MergedInv, GraphRestart, Restart, channels,
       GraphConstants, MergeSteps

LEMMA GraphTyped ==
  ASSUME GraphConstants, GraphTypeOK, GraphInv, TypeOK', [GraphNext]_allVars
  PROVE  GraphTypeOK'
<1> USE DEF GraphTypeOK
<1>1. CASE EnterNode \/ MergeAfterApprove
  BY <1>1 DEF EnterNode, MergeAfterApprove, channels
<1>2. CASE FinishNode
  <2>1. next \in ActionNodes /\ (outcome[W] = "ok" => stage = "call" \/ stage = "approving")
    BY <1>2 DEF FinishNode, GraphInv, PlaceInv
  <2>2. /\ phase_status' \in {"running", "failed"} /\ retryable' \in BOOLEAN
        /\ awaiting_approval' \in BOOLEAN
        /\ pull_request_id' \in PullRequests \union {NoPullRequest}
        /\ queue' \in {"none", "repository.branch.created", "repository.commit.created",
                       "repository.pr.created", "repository.pr.merged",
                       "repository.release.created", "repository.workflow.completed",
                       "repository.pipeline.escalated"}
    <3>1. CASE outcome[W] = "ok"
      <4>1. next = "open_pr" => arg[W] \in PullRequests
        BY <1>2, <3>1 DEF FinishNode, GraphInv, PlaceInv, OpenInv
      <4> QED BY <1>2, <2>1, <3>1, <4>1 DEF FinishNode, Succeeded, ActionNodes
    <3>2. CASE outcome[W] # "ok"
      BY <1>2, <3>2 DEF FinishNode, Failed
    <3> QED BY <3>1, <3>2
  <2>3. next' \in Nodes
    BY <1>2, <2>1 DEF FinishNode, RouteAfterAction, SuccessTarget, Nodes, ActionNodes
  <2> QED BY <1>2, <2>1, <2>2, <2>3 DEF FinishNode
<1>3. CASE RetryNode
  <2>1. retry_count + 1 \in 0 .. MaxRetries
    BY <1>3 DEF RetryNode, GraphInv, PlaceInv, GraphConstants
  <2> QED BY <1>3, <2>1 DEF RetryNode, RouteAfterRetry, Nodes, ActionNodes
<1>4. CASE PublishEventsNode \/ EscalateNode
  <2>1. CASE PublishEventsNode
    BY <2>1 DEF PublishEventsNode, Nodes
  <2>2. CASE EscalateNode
    BY <2>2 DEF EscalateNode, Nodes
  <2> QED BY <1>4, <2>1, <2>2
<1>5. CASE ApprovalNode
  BY <1>5 DEF ApprovalNode, RouteApprovalGate, Nodes, ActionNodes
<1>6. ASSUME NEW d \in {"approved", "rejected"}, Decide(d) PROVE GraphTypeOK'
  BY <1>6 DEF Decide
<1>7. CASE GraphRestart
  <2>1. restarts + 1 \in 0 .. MaxRestarts
    BY <1>7 DEF GraphRestart, GraphConstants
  <2> QED BY <1>7, <2>1 DEF GraphRestart, channels
<1>8. CASE UNCHANGED graphVars
  BY <1>8 DEF graphVars, channels
<1> QED BY <1>1, <1>2, <1>3, <1>4, <1>5, <1>6, <1>7, <1>8 DEF GraphNext, GraphStep, allVars

LEMMA GraphKeeps ==
  ASSUME GraphConstants, ServiceInv, GraphTypeOK, GraphInv, [GraphNext]_allVars
  PROVE  (ServiceInv /\ GraphTypeOK /\ GraphInv)'
<1>1. ServiceInv'
  <2>1. CASE EnterNode \/ MergeAfterApprove
    <3>1. calls' \in Nat
      BY <2>1 DEF EnterNode, MergeAfterApprove, ServiceInv, TypeOK, CallersTypeOK
    <3> QED BY <2>1, <3>1, NodeBegins, ServiceBegins DEF GraphInv, GraphConstants
  <2>2. ASSUME NEW c \in Callers \ {W}, Request(c, Ops) PROVE ServiceInv'
    <3>1. calls' \in Nat
      BY <2>2 DEF Request, ServiceInv, TypeOK, CallersTypeOK
    <3> QED BY <2>2, <3>1, ServiceBegins DEF Request
  <2>3. ASSUME NEW c \in Callers, CallStep(c) PROVE ServiceInv'
    BY <2>3, ServiceSteps
  <2>4. CASE GraphRestart \/ UNCHANGED service
    BY <2>4, ServiceSteps DEF GraphRestart, GraphConstants
  <2> QED BY <2>1, <2>2, <2>3, <2>4
          DEF GraphNext, GraphStep, FinishNode, RetryNode, PublishEventsNode, EscalateNode,
              Decide, ApprovalNode, allVars
<1>2. GraphTypeOK'
  BY <1>1, GraphTyped DEF ServiceInv
<1>3. GraphInv'
  <2>1. ASSUME NEW c \in Callers, CallStep(c), UNCHANGED graphVars PROVE GraphInv'
    BY <2>1, OthersKeep, OwnCallKeeps
  <2>2. CASE UNCHANGED allVars
    BY <2>2, GraphWaits DEF allVars, service, GraphInv
  <2> QED BY <2>1, <2>2, OthersKeep, NodeEnters, NodeFinishes, OtherNodesKeep, RestartKeeps
          DEF GraphNext, GraphStep
<1> QED BY <1>1, <1>2, <1>3

LEMMA GraphStarts == ASSUME GraphConstants, GraphInit PROVE ServiceInv /\ GraphTypeOK /\ GraphInv
<1>1. Init /\ W \in Callers
  BY DEF GraphInit, GraphConstants
<1>2. ServiceInv
  BY <1>1, InitTyped, MergeInit DEF ServiceInv
<1>3. GraphTypeOK
  <2>1. 0 \in 0 .. MaxRetries /\ 0 \in 0 .. MaxRestarts
    BY DEF GraphConstants
  <2> QED BY <1>2, <2>1 DEF GraphInit, GraphTypeOK, ServiceInv, Nodes, ActionNodes
<1>4. GraphInv
  BY <1>1 DEF GraphInit, Init, GraphInv, PlaceInv, OpenInv, MergingInv, MergedInv, MergeSteps
<1> QED BY <1>2, <1>3, <1>4

\* Where the graph stands, where its manager call stands and what the rows say agree,
\* whatever the other callers do, and the service keeps its own promises with W in it.
THEOREM GraphInvariant == GraphSpec => [](ServiceInv /\ GraphTypeOK /\ GraphInv)
<1>1. GraphInit => ServiceInv /\ GraphTypeOK /\ GraphInv
  BY GraphConstants, GraphStarts
<1>2. ServiceInv /\ GraphTypeOK /\ GraphInv /\ [GraphNext]_allVars =>
        (ServiceInv /\ GraphTypeOK /\ GraphInv)'
  BY GraphConstants, GraphKeeps
<1> QED BY <1>1, <1>2, PTL DEF GraphSpec

\* A workflow that reports completion after an approval has merged its pull request, in
\* the row and at the provider, and it asks for a merge only after a reviewer approved:
\* no retry, no restart and no other client's call gets past either.
THEOREM DecisionsHold == GraphSpec => []MergedAsDecided
<1>1. ASSUME ServiceInv, GraphTypeOK, GraphInv PROVE MergedAsDecided
  <2>1. \A p \in db.mergeSha : gh.pr[p] = "merged"
    BY <1>1 DEF ServiceInv, MergeInv, TypeOK, RowsTypeOK
  <2>2. CompletedMeansMerged
    BY <1>1, <2>1 DEF CompletedMeansMerged, GraphInv, MergedInv
  <2>3. MergeNeedsDecision
    BY <1>1 DEF MergeNeedsDecision, GraphInv, PlaceInv, MergeSteps
  <2> QED BY <2>2, <2>3 DEF MergedAsDecided
<1> QED BY <1>1, GraphInvariant, PTL

-----------------------------------------------------------------------------
(***************************************************************************)
(* The task's commit                                                       *)
(***************************************************************************)
CommitSteps == {"commit.ref", "commit.patch", "commit.row"}

Landed == gh.commits[Branch]

\* Where create_branch may be while it runs: it comes to an end that is a success only
\* if the branch had no row, and so no commit either.
CreatingInv ==
  next = "create_branch" /\ stage = "call" =>
    \/ pc[W] \in {"branch.provider", "branch.row"} /\ arg[W] = Branch
    \/ pc[W] \in {"audit", "publish"} /\ Landed = 0
    \/ pc[W] = "idle" /\ (outcome[W] = "ok" => Landed = 0)

\* Until the process restarts, W alone commits, once: the commit node is reached only by
\* a success of create_branch, of which the row of the branch allows one.
LandInv ==
  restarts = 0 =>
    /\ Landed <= 1
    /\ \A c \in Callers : pc[c] \in CommitSteps =>
         c = W /\ next = "commit" /\ stage = "call" /\ db.branch[Branch] # "none"
    /\ db.branch[Branch] = "none" => Landed = 0
    /\ CreatingInv
    /\ next = "commit" /\ (stage = "ready" \/ pc[W] \in {"commit.ref", "commit.patch"}) =>
         Landed = 0

\* A row is never taken back, and a work branch gets a commit from a patch alone.
LEMMA BranchesAtWork ==
  ASSUME TypeOK, RepositoryConstants, NEW c \in Callers, CallStep(c), NEW b \in WorkBranches
  PROVE  /\ db.branch[b] # "none" => db'.branch[b] # "none"
         /\ gh'.commits[b] \in {gh.commits[b], 0}
              \/ (pc[c] = "commit.patch" /\ gh'.commits[b] = gh.commits[b] + 1)
         /\ pc'[c] \in CommitSteps => pc[c] \in CommitSteps
         /\ pc'[c] # "commit.ref" /\ (pc'[c] = "commit.patch" => pc[c] = "commit.ref")
<1> USE DEF Answer, Goto, Return, TypeOK, CallersTypeOK, RowsTypeOK, ProviderTypeOK, CommitSteps
<1>1. b \in Branches /\ b # Develop
  BY DEF RepositoryConstants, Branches
<1>2. CASE RepoSeed(c)
  <2>1. gh'.commits = [gh.commits EXCEPT ![Develop] = @ + 1] /\ db' = db
    BY <1>2 DEF RepoSeed
  <2> QED
    BY <1>1, <1>2, <2>1 DEF RepoSeed
<1>3. CASE RepoProvider(c) \/ RepoDevelop(c) \/ RepoRow(c)
  BY <1>1, <1>3 DEF RepoProvider, RepoDevelop, RepoRow
<1>4. CASE BranchProvider(c)
  BY <1>1, <1>4 DEF BranchProvider
<1>5. CASE BranchRow(c)
  BY <1>1, <1>5 DEF BranchRow
<1>6. CASE DeleteProvider(c)
  <2>1. gh'.commits = [gh.commits EXCEPT ![arg[c]] = 0] /\ db' = db
    BY <1>6 DEF DeleteProvider
  <2> QED
    BY <1>1, <1>6, <2>1 DEF DeleteProvider
<1>7. CASE DeleteRow(c)
  BY <1>1, <1>7 DEF DeleteRow
<1>8. CASE CommitRef(c)
  BY <1>1, <1>8 DEF CommitRef
<1>9. CASE CommitPatch(c)
  <2>1. \/ gh' = gh
        \/ gh'.commits = [gh.commits EXCEPT ![arg[c]] = @ + 1]
    BY <1>9 DEF CommitPatch
  <2> QED
    BY <1>1, <1>9, <2>1 DEF CommitPatch
<1>10. CASE CommitRow(c)
  BY <1>1, <1>10 DEF CommitRow
<1>11. CASE OpenProvider(c)
  <2>1. gh'.commits = gh.commits /\ db' = db
    BY <1>11 DEF OpenProvider
  <2>2. pc[c] \notin CommitSteps /\ pc'[c] \notin CommitSteps
    BY <1>11 DEF OpenProvider
  <2> QED
    BY <2>1, <2>2
<1>16. CASE MergeProvider(c)
  <2>1. gh'.commits = gh.commits /\ db' = db
    BY <1>16 DEF MergeProvider
  <2>2. pc[c] \notin CommitSteps /\ pc'[c] \notin CommitSteps
    BY <1>16 DEF MergeProvider
  <2> QED
    BY <2>1, <2>2
<1>12. CASE PullRequestRow(c) \/ ApproveMark(c) \/ MergeConflict(c) \/ MergeMark(c)
  <2>1. gh' = gh /\ db'.branch = db.branch
    BY <1>12 DEF PullRequestRow, ApproveMark, MergeConflict, MergeMark
  <2> QED
    BY <1>1, <1>12, <2>1 DEF PullRequestRow, ApproveMark, MergeConflict, MergeMark
<1>13. CASE MergeRetire(c)
  BY <1>1, <1>13 DEF MergeRetire
<1>14. CASE ReleaseLookup(c) \/ ReleasePost(c) \/ RollbackLookup(c) \/ RollbackDelete(c)
  <2>1. gh'.commits = gh.commits /\ db' = db
    BY <1>14 DEF ReleaseLookup, ReleasePost, RollbackLookup, RollbackDelete
  <2> QED
    BY <1>1, <1>14, <2>1 DEF ReleaseLookup, ReleasePost, RollbackLookup, RollbackDelete
<1>15. CASE RecordEvent(c) \/ PublishEvent(c) \/ StepFails(c)
  BY <1>1, <1>15 DEF RecordEvent, PublishEvent, StepFails
<1> QED
  BY <1>2, <1>3, <1>4, <1>5, <1>6, <1>7, <1>8, <1>9, <1>10, <1>11, <1>12, <1>13, <1>14, <1>15,
     <1>16
     DEF CallStep

\* The call of the create_branch node, from await to await.
LEMMA CreateAtWork ==
  ASSUME TypeOK, NEW c \in Callers, CallStep(c), NEW b,
         \/ pc[c] \in {"branch.provider", "branch.row"} /\ arg[c] = b
         \/ pc[c] \in {"audit", "publish"}
  PROVE  \/ pc'[c] \in {"branch.provider", "branch.row"} /\ arg'[c] = b
         \/ pc[c] = "branch.row" /\ pc'[c] = "audit" /\ db.branch[b] = "none" /\ gh' = gh
         \/ pc[c] \in {"audit", "publish"} /\ pc'[c] \in {"publish", "idle"} /\ gh' = gh
         \/ pc'[c] = "idle" /\ outcome'[c] # "ok"
<1> USE DEF Answer, Goto, Return, TypeOK, CallersTypeOK
<1>1. CASE BranchProvider(c)
  BY <1>1 DEF BranchProvider
<1>2. CASE BranchRow(c)
  BY <1>2 DEF BranchRow
<1>3. CASE RecordEvent(c)
  BY <1>3 DEF RecordEvent
<1>4. CASE PublishEvent(c)
  BY <1>4 DEF PublishEvent
<1>5. CASE StepFails(c)
  BY <1>5 DEF StepFails
<1>6. \/ BranchProvider(c) \/ BranchRow(c) \/ RecordEvent(c) \/ PublishEvent(c) \/ StepFails(c)
  BY DEF CallStep, RepoProvider, RepoDevelop, RepoSeed, RepoRow, DeleteProvider, DeleteRow,
         CommitRef, CommitPatch, CommitRow, OpenProvider, PullRequestRow, ApproveMark,
         MergeProvider, MergeConflict, MergeMark, MergeRetire,
         ReleaseLookup, ReleasePost, RollbackLookup, RollbackDelete
<1> QED BY <1>1, <1>2, <1>3, <1>4, <1>5, <1>6

LEMMA BranchIs ==
  ASSUME GraphConstants, TypeOK
  PROVE  W \in Callers /\ Branch \in WorkBranches /\ Branch \in Branches /\ Landed \in Nat
<1>1. W \in Callers /\ Branch \in WorkBranches /\ Branch \in Branches
  BY DEF GraphConstants, Branches
<1> QED
  BY <1>1 DEF TypeOK, ProviderTypeOK, Landed

LEMMA LandServed ==
  ASSUME GraphConstants, ServiceInv, LandInv, UNCHANGED graphVars, NEW c \in Callers, CallStep(c)
  PROVE  LandInv'
<1> SUFFICES ASSUME restarts = 0 PROVE LandInv'
  BY DEF LandInv, graphVars
<1>1. /\ W \in Callers /\ Branch \in WorkBranches /\ Branch \in Branches /\ Landed \in Nat
      /\ TypeOK
  BY BranchIs DEF ServiceInv
<1>2. UNCHANGED <<next, stage, restarts>>
  BY DEF graphVars
<1>3. /\ Landed <= 1
      /\ \A d \in Callers : pc[d] \in CommitSteps =>
           d = W /\ next = "commit" /\ stage = "call" /\ db.branch[Branch] # "none"
      /\ db.branch[Branch] = "none" => Landed = 0
      /\ CreatingInv
      /\ next = "commit" /\ (stage = "ready" \/ pc[W] \in {"commit.ref", "commit.patch"}) =>
           Landed = 0
  BY DEF LandInv
<1>4. /\ db.branch[Branch] # "none" => db'.branch[Branch] # "none"
      /\ Landed' \in {Landed, 0} \/ (pc[c] = "commit.patch" /\ Landed' = Landed + 1)
      /\ pc'[c] \in CommitSteps => pc[c] \in CommitSteps
      /\ pc'[c] # "commit.ref" /\ (pc'[c] = "commit.patch" => pc[c] = "commit.ref")
  BY <1>1, BranchesAtWork, RepositoryConstants DEF Landed
<1>5. \A d \in Callers \ {c} : pc'[d] = pc[d] /\ arg'[d] = arg[d] /\ outcome'[d] = outcome[d]
  BY <1>1, OthersWait, OutcomesWait
<1>6. pc[c] = "commit.patch" => c = W /\ next = "commit" /\ Landed = 0 /\ db.branch[Branch] # "none"
  BY <1>3 DEF CommitSteps
<1>7. Landed' \in Nat /\ Landed' <= 1
  BY <1>1, <1>3, <1>4, <1>6
<1>8. \A d \in Callers : pc'[d] \in CommitSteps =>
        d = W /\ next' = "commit" /\ stage' = "call" /\ db'.branch[Branch] # "none"
  BY <1>2, <1>3, <1>4, <1>5
<1>9. db'.branch[Branch] = "none" => Landed' = 0
  BY <1>3, <1>4, <1>6
<1>10. next' = "commit" /\ (stage' = "ready" \/ pc'[W] \in {"commit.ref", "commit.patch"}) =>
         Landed' = 0
  <2> SUFFICES ASSUME next = "commit", stage = "ready" \/ pc'[W] \in {"commit.ref", "commit.patch"}
               PROVE  Landed' = 0
    BY <1>2
  <2>1. CASE pc[c] = "commit.patch"
    <3>1. c = W /\ stage = "call"
      BY <1>3, <2>1 DEF CommitSteps
    <3> QED
      BY <1>4, <2>1, <3>1
  <2>2. CASE pc[c] # "commit.patch"
    <3>1. stage = "ready" \/ pc[W] \in {"commit.ref", "commit.patch"}
      BY <1>1, <1>4, <1>5
    <3> QED
      BY <1>3, <1>4, <2>2, <3>1
  <2> QED
    BY <2>1, <2>2
<1>11. CreatingInv'
  <2> SUFFICES ASSUME next = "create_branch", stage = "call" PROVE CreatingInv'
    BY <1>2 DEF CreatingInv
  <2>1. Landed = 0 => Landed' = 0
    BY <1>4, <1>6
  <2>2. \/ pc[W] \in {"branch.provider", "branch.row"} /\ arg[W] = Branch
        \/ pc[W] \in {"audit", "publish"} /\ Landed = 0
        \/ pc[W] = "idle" /\ (outcome[W] = "ok" => Landed = 0)
    BY <1>3 DEF CreatingInv
  <2>3. CASE c # W
    BY <1>1, <1>5, <2>1, <2>2, <2>3 DEF CreatingInv
  <2>4. CASE c = W
    <3>1. pc[W] # "idle"
      BY <1>1, <2>4, CallAtWork
    <3>2. \/ pc'[W] \in {"branch.provider", "branch.row"} /\ arg'[W] = Branch
          \/ pc[W] = "branch.row" /\ pc'[W] = "audit" /\ db.branch[Branch] = "none" /\ gh' = gh
          \/ pc[W] \in {"audit", "publish"} /\ pc'[W] \in {"publish", "idle"} /\ gh' = gh
          \/ pc'[W] = "idle" /\ outcome'[W] # "ok"
      BY <1>1, <2>2, <2>4, <3>1, CreateAtWork
    <3> QED
      BY <1>3, <2>1, <2>2, <3>2 DEF CreatingInv
  <2> QED
    BY <2>3, <2>4
<1> QED
  BY <1>7, <1>8, <1>9, <1>10, <1>11 DEF LandInv

\* Another client's request, which commits nothing.
LEMMA LandRequested ==
  ASSUME GraphConstants, ServiceInv, LandInv, UNCHANGED graphVars, "commit_files" \notin Ops,
         NEW c \in Callers \ {W}, Request(c, Ops)
  PROVE  LandInv'
<1>1. PICK op \in Ops : BeginOp(c, op)
  BY DEF Request
<1>2. TypeOK /\ W \in Callers
  BY DEF ServiceInv, GraphConstants
<1>3. /\ UNCHANGED <<gh, db>> /\ UNCHANGED <<next, stage, restarts>>
      /\ \A d \in Callers \ {c} : pc'[d] = pc[d] /\ arg'[d] = arg[d]
  BY <1>1, <1>2, BeginQuiet DEF graphVars
<1>4. outcome'[W] = outcome[W] /\ pc'[c] \notin CommitSteps
  BY <1>1, <1>2 DEF BeginOp, BeginCreateRepository, BeginCreateBranch, BeginDeleteBranch,
      BeginCreatePullRequest, BeginApprove, BeginMerge, BeginCreateRelease,
      BeginRollback, Dispatch, TypeOK, CallersTypeOK, CommitSteps
<1> QED
  BY <1>2, <1>3, <1>4 DEF LandInv, CreatingInv, Landed

LEMMA LandEnters ==
  ASSUME GraphConstants, ServiceInv, GraphInv, LandInv, EnterNode \/ MergeAfterApprove
  PROVE  LandInv'
<1> SUFFICES ASSUME restarts = 0 PROVE LandInv'
  BY DEF LandInv, EnterNode, MergeAfterApprove
<1>1. /\ W \in Callers /\ TypeOK
  BY BranchIs DEF ServiceInv
<1>2. /\ UNCHANGED <<next, restarts>> /\ next \in ActionNodes
      /\ stage' = IF next = "merge" THEN stage' ELSE "call"
      /\ stage' # "ready" /\ (stage = "ready" \/ next = "merge")
  BY DEF EnterNode, MergeAfterApprove, GraphInv, PlaceInv, ActionNodes
<1>3. \E x, early : \E l \in Entries : Dispatch(W, x, early, l)
  <2>1. \/ BeginCreateRepository(W) \/ BeginCreateBranch(W, Branch) \/ BeginCommit(W, Branch)
        \/ BeginCreatePullRequest(W, Branch) \/ BeginApprove(W, pull_request_id)
        \/ BeginMerge(W, pull_request_id) \/ BeginCreateRelease(W, Tag)
    BY DEF EnterNode, MergeAfterApprove, NodeCall
  <2> QED
    BY <2>1 DEF BeginCreateRepository, BeginCreateBranch, BeginCommit, BeginCreatePullRequest,
                BeginApprove, BeginMerge, BeginCreateRelease, Entries
<1>4. /\ UNCHANGED <<gh, db>> /\ \A d \in Callers \ {W} : pc'[d] = pc[d]
  BY <1>1, <1>3 DEF Dispatch, TypeOK, CallersTypeOK
<1>5. CASE next = "commit"
  <2>1. BeginCommit(W, Branch) /\ stage = "ready" /\ stage' = "call"
    BY <1>2, <1>5 DEF EnterNode, MergeAfterApprove, NodeCall, GraphInv, PlaceInv
  <2>2. \/ pc'[W] = "idle"
        \/ pc'[W] = "commit.ref" /\ db.branch[Branch] # "none"
    BY <1>1, <2>1 DEF BeginCommit, Dispatch, TypeOK, CallersTypeOK
  <2>3. Landed = 0
    BY <1>5, <2>1 DEF LandInv
  <2>4. \A d \in Callers : pc'[d] \in CommitSteps => d = W /\ db.branch[Branch] # "none"
    BY <1>4, <2>2 DEF LandInv, CommitSteps
  <2>5. Landed' = 0 /\ CreatingInv'
    BY <1>2, <1>4, <1>5, <2>3 DEF Landed, CreatingInv
  <2> QED
    BY <1>2, <1>4, <1>5, <2>1, <2>4, <2>5 DEF LandInv
<1>6. CASE next # "commit"
  <2>1. pc'[W] \notin CommitSteps
    <3>1. \/ BeginCreateRepository(W) \/ BeginCreateBranch(W, Branch)
          \/ BeginCreatePullRequest(W, Branch) \/ BeginApprove(W, pull_request_id)
          \/ BeginMerge(W, pull_request_id) \/ BeginCreateRelease(W, Tag)
      BY <1>6 DEF EnterNode, MergeAfterApprove, NodeCall
    <3> QED
      BY <1>1, <3>1 DEF BeginCreateRepository, BeginCreateBranch, BeginCreatePullRequest,
                BeginApprove, BeginMerge, BeginCreateRelease, Dispatch, TypeOK, CallersTypeOK,
                CommitSteps
  <2>2. \A d \in Callers : pc'[d] \notin CommitSteps
    BY <1>4, <1>6, <2>1 DEF LandInv
  <2>3. CreatingInv'
    <3> SUFFICES ASSUME next = "create_branch" PROVE CreatingInv'
      BY <1>2 DEF CreatingInv
    <3>1. BeginCreateBranch(W, Branch)
      BY <1>2 DEF EnterNode, MergeAfterApprove, NodeCall, GraphInv, PlaceInv
    <3>2. NeedsRepository \in {"none", "error"}
      BY DEF NeedsRepository
    <3>3. /\ arg'[W] = Branch
          /\ \/ pc'[W] = "branch.provider"
             \/ pc'[W] = "idle" /\ outcome'[W] = "error"
      BY <1>1, <3>1, <3>2 DEF BeginCreateBranch, Dispatch, TypeOK, CallersTypeOK
    <3> QED
      BY <3>3 DEF CreatingInv
  <2> QED
    BY <1>2, <1>4, <1>6, <2>2, <2>3 DEF LandInv, Landed
<1> QED
  BY <1>5, <1>6

\* The nodes without a call, and the end of a call.
LEMMA LandFinishes ==
  ASSUME GraphConstants, ServiceInv, GraphInv, LandInv,
         \/ FinishNode \/ RetryNode \/ PublishEventsNode \/ EscalateNode \/ ApprovalNode
         \/ \E d \in {"approved", "rejected"} : Decide(d)
  PROVE  LandInv'
<1> SUFFICES ASSUME restarts = 0 PROVE LandInv'
  BY DEF LandInv, FinishNode, RetryNode, PublishEventsNode, EscalateNode, ApprovalNode, Decide
<1>1. UNCHANGED <<gh, db, pc, arg, outcome, restarts>>
  BY DEF FinishNode, RetryNode, PublishEventsNode, EscalateNode, ApprovalNode, Decide, service
<1>2. pc[W] = "idle" /\ stage' = "ready" /\ W \in Callers
  BY DEF FinishNode, RetryNode, PublishEventsNode, EscalateNode, ApprovalNode, Decide,
         GraphInv, PlaceInv, ActionNodes, GraphConstants
<1>3. \A d \in Callers : pc[d] \notin CommitSteps
  BY <1>2 DEF LandInv, CommitSteps
<1>4. next' = "commit" => Landed = 0
  <2>1. CASE FinishNode
    <3>1. next' = "commit" => next = "create_branch" /\ outcome[W] = "ok" /\ stage = "call"
      <4>1. CASE outcome[W] = "ok"
        <5>1. next' = SuccessTarget(next) /\ next \in ActionNodes /\ stage = "call"
          BY <2>1, <4>1 DEF FinishNode, Succeeded, RouteAfterAction, GraphInv, PlaceInv
        <5> QED
          BY <4>1, <5>1 DEF SuccessTarget, ActionNodes
      <4>2. CASE outcome[W] # "ok"
        BY <2>1, <4>2 DEF FinishNode, Failed, RouteAfterAction
      <4> QED
        BY <4>1, <4>2
    <3> QED
      BY <1>2, <3>1 DEF LandInv, CreatingInv
  <2>2. CASE ~FinishNode
    <3>1. next' # "commit"
      BY <2>2 DEF RetryNode, RouteAfterRetry, PublishEventsNode, EscalateNode, ApprovalNode,
                  RouteApprovalGate, Decide
    <3> QED
      BY <3>1
  <2> QED
    BY <2>1, <2>2
<1>5. CreatingInv'
  BY <1>2 DEF CreatingInv
<1> QED
  BY <1>1, <1>3, <1>4, <1>5 DEF LandInv, Landed

\* The task's commit is made once, whatever answers are lost, whatever fails and whatever
\* the other clients do short of committing themselves, until the process restarts
\* (commit_node and the retries of repository_graph.py).
THEOREM CommitsOnce == "commit_files" \notin Ops /\ GraphSpec => []CommitLandsOnce
<1>1. ASSUME GraphInit PROVE LandInv
  <2>1. Init /\ W \in Callers /\ Branch \in Branches
    BY <1>1, GraphConstants DEF GraphInit, Branches
  <2>2. Landed = 0 /\ \A c \in Callers : pc[c] \notin CommitSteps
    BY <2>1 DEF Init, Landed, CommitSteps
  <2> QED
    BY <1>1, <2>2 DEF GraphInit, LandInv, CreatingInv
<1>2. ASSUME "commit_files" \notin Ops, ServiceInv, GraphTypeOK, GraphInv, LandInv,
             [GraphNext]_allVars
      PROVE  LandInv'
  <2>1. ASSUME NEW c \in Callers, CallStep(c), UNCHANGED graphVars PROVE LandInv'
    BY <1>2, <2>1, GraphConstants, LandServed
  <2>2. ASSUME NEW c \in Callers \ {W}, Request(c, Ops), UNCHANGED graphVars PROVE LandInv'
    BY <1>2, <2>2, GraphConstants, LandRequested
  <2>3. CASE GraphRestart
    <3>1. restarts' # 0
      BY <1>2, <2>3 DEF GraphRestart, GraphTypeOK
    <3> QED
      BY <3>1 DEF LandInv
  <2>4. CASE UNCHANGED allVars
    BY <1>2, <2>4 DEF allVars, service, graphVars, LandInv, CreatingInv, Landed
  <2> QED
    BY <1>2, <2>1, <2>2, <2>3, <2>4, GraphConstants, LandEnters, LandFinishes
       DEF GraphNext, GraphStep
<1>3. ASSUME LandInv PROVE CommitLandsOnce
  BY <1>3 DEF LandInv, CommitLandsOnce, Landed
<1>4. CASE "commit_files" \notin Ops
  <2>1. ServiceInv /\ GraphTypeOK /\ GraphInv /\ LandInv /\ [GraphNext]_allVars => LandInv'
    BY <1>2, <1>4
  <2> QED
    BY <1>1, <1>3, <2>1, GraphInvariant, PTL DEF GraphSpec
<1>5. CASE "commit_files" \in Ops
  BY <1>5
<1> QED
  BY <1>4, <1>5
=============================================================================
