----------------------- MODULE Repository_commit_proofs -----------------------
(***************************************************************************)
(* Proof about the commits of module Repository: while nobody deletes      *)
(* branches, every commit the audit log acknowledges is in the history of  *)
(* its branch, for every set of callers and branches.  The last section    *)
(* proves the same of the clienteles the runs choose from.                 *)
(***************************************************************************)
EXTENDS Repository_proofs, MC_Repository

CommitEvent(b) == <<"repository.commit.created", b>>

\* The callers whose commit landed on b and is not in the audit log yet.
Landing(b) ==
  {c \in Callers : \/ pc[c] = "commit.row" /\ arg[c] = b
                   \/ pc[c] = "audit" /\ event[c] = CommitEvent(b)}

\* Each acknowledgement, made or to come, has a commit of its own on the branch;
\* head_sha, written or to be written, names one of its commits.
CommitInv ==
  /\ \A b \in Branches :
       /\ recorded[CommitEvent(b)] + Cardinality(Landing(b)) <= gh.commits[b]
       /\ db.head[b] <= gh.commits[b]
  /\ \A c \in Callers : pc[c] = "commit.row" => parent[c] + 1 <= gh.commits[arg[c]]

\* What waits at a rollback is not a commit, and no deletion runs.
AwaitInv ==
  \A c \in Callers :
    /\ pc[c] = "rollback.delete" => \A b \in Branches : event[c] # CommitEvent(b)
    /\ pc[c] \notin {"delete.provider", "delete.row"}

LEMMA LandingCount ==
  ASSUME NEW b PROVE IsFiniteSet(Landing(b)) /\ Cardinality(Landing(b)) \in Nat
<1>1. IsFiniteSet(Callers) /\ Landing(b) \in SUBSET Callers
  BY RepositoryConstants DEF Landing
<1>2. IsFiniteSet(Landing(b))
  BY <1>1, FS_Subset
<1> QED
  BY <1>2, FS_CardinalityType

LEMMA CommitEvents ==
  /\ \A b \in Branches : CommitEvent(b) \in Events
  /\ \A b, d \in Branches : CommitEvent(b) = CommitEvent(d) => b = d
  BY DEF CommitEvent, Events

\* A step that acknowledges nothing, loses no commit and lands none.
LEMMA CommitKept ==
  ASSUME TypeOK, TypeOK', CommitInv, recorded' = recorded, db'.head = db.head,
         \A b \in Branches : gh.commits[b] <= gh'.commits[b],
         \A b \in Branches : Landing(b)' \subseteq Landing(b),
         \A d \in Callers : pc'[d] = "commit.row" =>
           pc[d] = "commit.row" /\ arg'[d] = arg[d] /\ parent'[d] = parent[d]
  PROVE  CommitInv'
<1>1. ASSUME NEW b \in Branches
      PROVE  /\ recorded'[CommitEvent(b)] + Cardinality(Landing(b)') <= gh'.commits[b]
             /\ db'.head[b] <= gh'.commits[b]
  <2>1. /\ Cardinality(Landing(b)') <= Cardinality(Landing(b))
        /\ Cardinality(Landing(b)') \in Nat
    <3>1. Landing(b)' \in SUBSET Landing(b)
      OBVIOUS
    <3> QED
      BY <3>1, LandingCount, FS_Subset, FS_CardinalityType
  <2>2. /\ recorded[CommitEvent(b)] \in Nat /\ db.head[b] \in Nat
        /\ gh.commits[b] \in Nat /\ gh'.commits[b] \in Nat
    BY CommitEvents DEF TypeOK, RowsTypeOK, ProviderTypeOK
  <2> QED
    BY <2>1, <2>2, LandingCount DEF CommitInv
<1>2. ASSUME NEW d \in Callers, pc'[d] = "commit.row"
      PROVE  parent'[d] + 1 <= gh'.commits[arg'[d]]
  <2>1. arg[d] \in Branches /\ parent[d] \in Nat
    BY <1>2 DEF TypeOK, ArgTypeOK, CallersTypeOK, BranchSteps, Branches
  <2>2. gh.commits[arg[d]] \in Nat /\ gh'.commits[arg[d]] \in Nat
    BY <2>1 DEF TypeOK, ProviderTypeOK
  <2> QED
    BY <1>2, <2>1, <2>2 DEF CommitInv
<1> QED
  BY <1>1, <1>2 DEF CommitInv, CommitEvent

\* All steps but those of a commit that landed, and deletions.
Landless(c) ==
  \/ RepoProvider(c) \/ RepoDevelop(c) \/ RepoSeed(c) \/ RepoRow(c)
  \/ BranchProvider(c) \/ BranchRow(c) \/ CommitRef(c)
  \/ OpenProvider(c) \/ PullRequestRow(c) \/ ApproveMark(c)
  \/ MergeProvider(c) \/ MergeConflict(c) \/ MergeMark(c) \/ MergeRetire(c)
  \/ ReleaseLookup(c) \/ ReleasePost(c) \/ RollbackLookup(c) \/ RollbackDelete(c)
  \/ PublishEvent(c) \/ StepFails(c)

LEMMA LandlessRows ==
  ASSUME TypeOK, NEW c \in Callers, Landless(c)
  PROVE  /\ recorded' = recorded /\ db'.head = db.head
         /\ \A b \in Branches : gh.commits[b] <= gh'.commits[b]
<1> USE DEF TypeOK, RowsTypeOK, ProviderTypeOK
<1>1. CASE RepoSeed(c)
  <2>1. gh'.commits = [gh.commits EXCEPT ![Develop] = @ + 1]
    BY <1>1 DEF RepoSeed
  <2> QED
    BY <1>1, <2>1 DEF RepoSeed
<1>2. CASE RepoProvider(c) \/ RepoDevelop(c) \/ RepoRow(c)
  BY <1>2 DEF RepoProvider, RepoDevelop, RepoRow
<1>3. CASE BranchProvider(c) \/ BranchRow(c) \/ CommitRef(c)
  BY <1>3 DEF BranchProvider, BranchRow, CommitRef
<1>4. CASE PullRequestRow(c) \/ ApproveMark(c) \/ MergeConflict(c) \/ MergeMark(c)
           \/ MergeRetire(c)
  <2>1. recorded' = recorded /\ gh' = gh
    BY <1>4 DEF PullRequestRow, ApproveMark, MergeConflict, MergeMark, MergeRetire
  <2>2. db'.head = db.head
    BY <1>4 DEF PullRequestRow, ApproveMark, MergeConflict, MergeMark, MergeRetire
  <2> QED
    BY <2>1, <2>2
<1>5. CASE OpenProvider(c) \/ MergeProvider(c)
  <2>1. recorded' = recorded /\ db' = db
    BY <1>5 DEF OpenProvider, MergeProvider
  <2>2. gh'.commits = gh.commits
    BY <1>5 DEF OpenProvider, MergeProvider
  <2> QED
    BY <2>1, <2>2
<1>6. CASE ReleaseLookup(c) \/ ReleasePost(c) \/ RollbackLookup(c) \/ RollbackDelete(c)
  BY <1>6 DEF ReleaseLookup, ReleasePost, RollbackLookup, RollbackDelete
<1>7. CASE PublishEvent(c) \/ StepFails(c)
  BY <1>7 DEF PublishEvent, StepFails
<1> QED
  BY <1>1, <1>2, <1>3, <1>4, <1>5, <1>6, <1>7 DEF Landless

\* c waits at none of the awaits CommitInv and AwaitInv speak of.
Elsewhere(c) ==
  /\ pc[c] \notin {"commit.row", "delete.provider", "delete.row"}
  /\ pc[c] \in {"audit", "rollback.delete"} =>
       \A b \in Branches : event[c] # CommitEvent(b)

LEMMA LandlessAwaits ==
  ASSUME TypeOK, AwaitInv, NEW c \in Callers, Landless(c) PROVE Elsewhere(c)'
<1> USE DEF Answer, Goto, Return, Announce, TypeOK, CallersTypeOK, Elsewhere, CommitEvent
<1>1. CASE RepoProvider(c) \/ RepoDevelop(c) \/ RepoSeed(c) \/ RepoRow(c)
  BY <1>1 DEF RepoProvider, RepoDevelop, RepoSeed, RepoRow
<1>2. CASE BranchProvider(c) \/ BranchRow(c) \/ CommitRef(c)
  BY <1>2 DEF BranchProvider, BranchRow, CommitRef
<1>3. CASE OpenProvider(c)
  BY <1>3 DEF OpenProvider
<1>4. CASE PullRequestRow(c)
  BY <1>4 DEF PullRequestRow
<1>5. CASE ApproveMark(c)
  BY <1>5 DEF ApproveMark
<1>6. CASE MergeProvider(c) \/ MergeMark(c)
  BY <1>6 DEF MergeProvider, MergeMark
<1>7. CASE MergeConflict(c) \/ MergeRetire(c)
  BY <1>7 DEF MergeConflict, MergeRetire
<1>8. CASE ReleaseLookup(c) \/ ReleasePost(c) \/ RollbackLookup(c)
  BY <1>8 DEF ReleaseLookup, ReleasePost, RollbackLookup
<1>9. CASE RollbackDelete(c)
  BY <1>9 DEF RollbackDelete, AwaitInv
<1>10. CASE PublishEvent(c) \/ StepFails(c)
  BY <1>10 DEF PublishEvent, StepFails
<1> QED
  BY <1>1, <1>2, <1>3, <1>4, <1>5, <1>6, <1>7, <1>8, <1>9, <1>10 DEF Landless

LEMMA LandlessParents ==
  ASSUME TypeOK, NEW c \in Callers, Landless(c)
  PROVE  \A d \in Callers \ {c} : parent'[d] = parent[d]
<1> USE DEF TypeOK, CallersTypeOK
<1>1. CASE CommitRef(c)
  BY <1>1 DEF CommitRef
<1>2. CASE RepoProvider(c) \/ RepoDevelop(c) \/ RepoSeed(c) \/ RepoRow(c)
  BY <1>2 DEF RepoProvider, RepoDevelop, RepoSeed, RepoRow
<1>3. CASE BranchProvider(c) \/ BranchRow(c) \/ PublishEvent(c) \/ StepFails(c)
  BY <1>3 DEF BranchProvider, BranchRow, PublishEvent, StepFails
<1>4. CASE OpenProvider(c) \/ PullRequestRow(c) \/ ApproveMark(c)
  BY <1>4 DEF OpenProvider, PullRequestRow, ApproveMark
<1>5. CASE MergeProvider(c) \/ MergeConflict(c) \/ MergeMark(c) \/ MergeRetire(c)
  BY <1>5 DEF MergeProvider, MergeConflict, MergeMark, MergeRetire
<1>6. CASE ReleaseLookup(c) \/ ReleasePost(c) \/ RollbackLookup(c) \/ RollbackDelete(c)
  BY <1>6 DEF ReleaseLookup, ReleasePost, RollbackLookup, RollbackDelete
<1> QED
  BY <1>1, <1>2, <1>3, <1>4, <1>5, <1>6 DEF Landless

LEMMA CommitLandless ==
  ASSUME TypeOK, TypeOK', CommitInv, AwaitInv, NEW c \in Callers, Landless(c)
  PROVE  CommitInv' /\ AwaitInv'
<1>1. Elsewhere(c)'
  BY LandlessAwaits
<1>2. \A d \in Callers \ {c} :
        pc'[d] = pc[d] /\ arg'[d] = arg[d] /\ event'[d] = event[d] /\ parent'[d] = parent[d]
  BY OthersWait, LandlessParents DEF CallStep, Landless
<1>3. \A b \in Branches : Landing(b)' \subseteq Landing(b)
  BY <1>1, <1>2 DEF Landing, Elsewhere, CommitEvent
<1>4. AwaitInv'
  BY <1>1, <1>2 DEF AwaitInv, Elsewhere, CommitEvent
<1> QED
  BY <1>1, <1>2, <1>3, <1>4, LandlessRows, CommitKept DEF Elsewhere

-----------------------------------------------------------------------------
(***************************************************************************)
(* The steps of a commit.                                                  *)
(***************************************************************************)

\* The ref is moved by one commit, whose caller then waits to write its row.
LEMMA CommitLands ==
  ASSUME TypeOK, TypeOK', CommitInv, AwaitInv, NEW c \in Callers, CommitPatch(c)
  PROVE  CommitInv' /\ AwaitInv'
<1> DEFINE b == arg[c]
<1>1. /\ recorded' = recorded /\ db' = db /\ arg' = arg /\ event' = event
      /\ parent' = parent /\ pc[c] = "commit.patch" /\ b \in Branches
      /\ \A d \in Callers \ {c} : pc'[d] = pc[d]
      /\ pc'[c] \in {"commit.row", "idle"}
  BY OthersWait DEF CallStep, CommitPatch, Answer, Goto, Return, TypeOK, CallersTypeOK,
                    ArgTypeOK, BranchSteps, Branches
<1>2. AwaitInv'
  BY <1>1 DEF AwaitInv, CommitEvent
<1>3. CASE gh' = gh /\ pc'[c] = "idle"
  <2>1. \A d \in Branches : Landing(d)' \subseteq Landing(d)
    BY <1>1, <1>3 DEF Landing, CommitEvent
  <2>2. \A d \in Branches : gh.commits[d] <= gh'.commits[d]
    BY <1>3 DEF TypeOK, ProviderTypeOK
  <2> QED
    BY <1>1, <1>2, <1>3, <2>1, <2>2, CommitKept
<1>4. CASE gh.commits[b] = parent[c] /\ gh' = [gh EXCEPT !.commits[b] = @ + 1]
  <2>1. /\ gh'.commits = [gh.commits EXCEPT ![b] = @ + 1]
        /\ gh.commits \in [Branches -> Nat]
    BY <1>4 DEF TypeOK, ProviderTypeOK
  <2>2. ASSUME NEW e \in Branches
        PROVE  /\ recorded'[CommitEvent(e)] + Cardinality(Landing(e)') <= gh'.commits[e]
               /\ db'.head[e] <= gh'.commits[e]
    <3>1. /\ recorded[CommitEvent(e)] \in Nat /\ db.head[e] \in Nat /\ gh.commits[e] \in Nat
      BY CommitEvents DEF TypeOK, RowsTypeOK, ProviderTypeOK
    <3>2. CASE e = b
      <4>1. Landing(e)' \in SUBSET (Landing(e) \union {c}) /\ c \notin Landing(e)
        BY <1>1 DEF Landing, CommitEvent
      <4>2. /\ IsFiniteSet(Landing(e) \union {c})
            /\ Cardinality(Landing(e) \union {c}) = Cardinality(Landing(e)) + 1
        BY <4>1, LandingCount, FS_AddElement
      <4>3. /\ Cardinality(Landing(e)') <= Cardinality(Landing(e)) + 1
            /\ Cardinality(Landing(e)') \in Nat
        BY <4>1, <4>2, FS_Subset, FS_CardinalityType
      <4>4. gh'.commits[e] = gh.commits[e] + 1
        BY <2>1, <3>2
      <4> QED
        BY <1>1, <3>1, <4>3, <4>4, LandingCount DEF CommitInv
    <3>3. CASE e # b
      <4>1. Landing(e)' = Landing(e)
        BY <1>1, <3>3 DEF Landing, CommitEvent
      <4>2. gh'.commits[e] = gh.commits[e]
        BY <2>1, <3>3
      <4> QED
        BY <1>1, <4>1, <4>2 DEF CommitInv
    <3> QED
      BY <3>2, <3>3
  <2>3. ASSUME NEW d \in Callers, pc'[d] = "commit.row"
        PROVE  parent'[d] + 1 <= gh'.commits[arg'[d]]
    <3>1. CASE d = c
      BY <1>1, <1>4, <2>1, <3>1
    <3>2. CASE d # c
      <4>1. arg[d] \in Branches /\ parent[d] \in Nat /\ pc[d] = "commit.row"
        BY <1>1, <2>3, <3>2 DEF TypeOK, ArgTypeOK, CallersTypeOK, BranchSteps, Branches
      <4>2. parent[d] + 1 <= gh.commits[arg[d]]
        BY <4>1 DEF CommitInv
      <4> QED
        BY <1>1, <2>1, <4>1, <4>2
    <3> QED
      BY <3>1, <3>2
  <2> QED
    BY <1>2, <2>2, <2>3 DEF CommitInv, CommitEvent
<1> QED
  BY <1>1, <1>3, <1>4 DEF CommitPatch, Return, TypeOK, CallersTypeOK

\* head_sha is written, possibly over a newer one.
LEMMA CommitHeads ==
  ASSUME TypeOK, TypeOK', CommitInv, AwaitInv, NEW c \in Callers, CommitRow(c)
  PROVE  CommitInv' /\ AwaitInv'
<1> DEFINE b == arg[c]
<1>1. /\ recorded' = recorded /\ gh' = gh /\ arg' = arg /\ parent' = parent
      /\ pc[c] = "commit.row" /\ pc'[c] = "audit" /\ event'[c] = CommitEvent(b)
      /\ \A d \in Callers \ {c} : pc'[d] = pc[d] /\ event'[d] = event[d]
      /\ b \in Branches
  BY OthersWait DEF CallStep, CommitRow, Goto, Announce, TypeOK, CallersTypeOK, CommitEvent,
                    ArgTypeOK, BranchSteps, Branches
<1>2. AwaitInv'
  BY <1>1 DEF AwaitInv, CommitEvent
<1>3. db'.head = [db.head EXCEPT ![b] = parent[c] + 1] /\ db.head \in [Branches -> Nat]
  BY DEF CommitRow, TypeOK, RowsTypeOK
<1>4. parent[c] + 1 <= gh.commits[b]
  BY <1>1 DEF CommitInv
<1>5. ASSUME NEW e \in Branches
      PROVE  /\ recorded'[CommitEvent(e)] + Cardinality(Landing(e)') <= gh'.commits[e]
             /\ db'.head[e] <= gh'.commits[e]
  <2>1. Landing(e)' = Landing(e)
    BY <1>1, CommitEvents DEF Landing
  <2> QED
    BY <1>1, <1>3, <1>4, <2>1 DEF CommitInv
<1>6. \A d \in Callers : pc'[d] = "commit.row" => parent'[d] + 1 <= gh'.commits[arg'[d]]
  BY <1>1 DEF CommitInv
<1> QED
  BY <1>2, <1>5, <1>6 DEF CommitInv, CommitEvent

\* The commit is acknowledged in the audit log.
LEMMA CommitAcknowledged ==
  ASSUME TypeOK, TypeOK', CommitInv, AwaitInv, NEW c \in Callers, RecordEvent(c)
  PROVE  CommitInv' /\ AwaitInv'
<1>1. /\ gh' = gh /\ db' = db /\ arg' = arg /\ event' = event /\ parent' = parent
      /\ pc[c] = "audit" /\ pc'[c] = "publish" /\ \A d \in Callers \ {c} : pc'[d] = pc[d]
      /\ recorded' = [recorded EXCEPT ![event[c]] = @ + 1]
  BY DEF RecordEvent, Goto, TypeOK, CallersTypeOK
<1>2. AwaitInv'
  BY <1>1 DEF AwaitInv, CommitEvent
<1>3. ASSUME NEW e \in Branches
      PROVE  recorded'[CommitEvent(e)] + Cardinality(Landing(e)') <= gh'.commits[e]
  <2>1. /\ CommitEvent(e) \in Events /\ recorded \in [Events -> Nat]
        /\ gh.commits[e] \in Nat
    BY CommitEvents DEF TypeOK, RowsTypeOK, ProviderTypeOK
  <2>2. CASE event[c] = CommitEvent(e)
    <3>1. Landing(e)' = Landing(e) \ {c} /\ c \in Landing(e)
      BY <1>1, <2>2 DEF Landing, CommitEvent
    <3>2. Cardinality(Landing(e)') = Cardinality(Landing(e)) - 1
      BY <3>1, LandingCount, FS_RemoveElement
    <3>3. recorded'[CommitEvent(e)] = recorded[CommitEvent(e)] + 1
      BY <1>1, <2>1, <2>2
    <3> QED
      BY <1>1, <2>1, <3>2, <3>3, LandingCount DEF CommitInv
  <2>3. CASE event[c] # CommitEvent(e)
    <3>1. Landing(e)' = Landing(e) /\ recorded'[CommitEvent(e)] = recorded[CommitEvent(e)]
      BY <1>1, <2>1, <2>3 DEF Landing, CommitEvent
    <3> QED
      BY <1>1, <3>1 DEF CommitInv
  <2> QED
    BY <2>2, <2>3
<1> QED
  BY <1>1, <1>2, <1>3 DEF CommitInv, CommitEvent

-----------------------------------------------------------------------------
LEMMA CommitBegin ==
  ASSUME TypeOK, TypeOK', CommitInv, AwaitInv,
         NEW ops \in SUBSET Ops, "delete_branch" \notin ops,
         NEW c \in Callers, Request(c, ops)
  PROVE  CommitInv' /\ AwaitInv'
<1>1. PICK op \in ops : BeginOp(c, op)
  BY DEF Request
<1>2. /\ UNCHANGED <<gh, db, recorded, event>> /\ pc[c] = "idle"
      /\ pc'[c] \in Entries \union {"idle"}
      /\ \A d \in Callers \ {c} : pc'[d] = pc[d] /\ arg'[d] = arg[d]
  BY <1>1, BeginQuiet
<1>3. pc'[c] # "delete.provider" /\ parent' = parent
  BY <1>1 DEF BeginOp, BeginCreateRepository, BeginCreateBranch, BeginCommit,
      BeginCreatePullRequest, BeginApprove, BeginMerge, BeginCreateRelease,
      BeginRollback, Dispatch, TypeOK, CallersTypeOK
<1>4. AwaitInv'
  BY <1>2, <1>3 DEF AwaitInv, CommitEvent, Entries
<1>5. \A b \in Branches : Landing(b)' \subseteq Landing(b)
  BY <1>2 DEF Landing, CommitEvent, Entries
<1>6. \A b \in Branches : gh.commits[b] <= gh'.commits[b]
  BY <1>2 DEF TypeOK, ProviderTypeOK
<1> QED
  BY <1>2, <1>3, <1>4, <1>5, <1>6, CommitKept DEF Entries

LEMMA CommitStop ==
  ASSUME TypeOK, TypeOK', CommitInv, AwaitInv, Restart \/ UNCHANGED vars
  PROVE  CommitInv' /\ AwaitInv'
<1>1. UNCHANGED <<gh, db, recorded, arg, parent, event>>
  BY DEF Restart, vars
<1>2. \A d \in Callers : pc'[d] = pc[d] \/ pc'[d] = "idle"
  BY DEF Restart, vars
<1>3. AwaitInv'
  BY <1>1, <1>2 DEF AwaitInv, CommitEvent
<1>4. \A b \in Branches : Landing(b)' \subseteq Landing(b)
  BY <1>1, <1>2 DEF Landing, CommitEvent
<1>5. \A b \in Branches : gh.commits[b] <= gh'.commits[b]
  BY <1>1 DEF TypeOK, ProviderTypeOK
<1> QED
  BY <1>1, <1>2, <1>3, <1>4, <1>5, CommitKept

LEMMA CommitCall ==
  ASSUME TypeOK, TypeOK', CommitInv, AwaitInv, NEW c \in Callers, CallStep(c)
  PROVE  CommitInv' /\ AwaitInv'
<1>1. ~DeleteProvider(c) /\ ~DeleteRow(c)
  BY DEF AwaitInv, DeleteProvider, DeleteRow
<1> QED
  BY <1>1, CommitLandless, CommitLands, CommitHeads, CommitAcknowledged
     DEF CallStep, Landless

LEMMA CommitStep ==
  ASSUME TypeOK, CommitInv, AwaitInv, "delete_branch" \notin Ops, [Next]_vars
  PROVE  CommitInv' /\ AwaitInv'
<1>1. TypeOK'
  BY NextTyped
<1> QED
  BY <1>1, CommitCall, CommitBegin, CommitStop DEF Next

LEMMA CommitInit == ASSUME Init PROVE CommitInv /\ AwaitInv
<1>1. ASSUME NEW b \in Branches
      PROVE  /\ recorded[CommitEvent(b)] + Cardinality(Landing(b)) <= gh.commits[b]
             /\ db.head[b] <= gh.commits[b]
  <2>1. Landing(b) = {}
    BY DEF Init, Landing
  <2> QED
    BY <2>1, CommitEvents, FS_EmptySet DEF Init
<1> QED
  BY <1>1 DEF Init, CommitInv, AwaitInv

LEMMA CommitsOnBranches == ASSUME TypeOK, CommitInv PROVE CommitsLand
<1>1. ASSUME NEW b \in Branches
      PROVE  recorded[CommitEvent(b)] <= gh.commits[b] /\ db.head[b] <= gh.commits[b]
  BY LandingCount, CommitEvents DEF CommitInv, TypeOK, RowsTypeOK, ProviderTypeOK
<1> QED
  BY <1>1 DEF CommitsLand, CommitEvent

\* While nobody deletes branches, no acknowledged commit is ever lost: concurrent
\* commits to one branch, lost answers and restarts included.
THEOREM CommitsStay == Spec => []AcknowledgedCommitsLand
<1>1. CASE "delete_branch" \in Ops
  <2>1. AcknowledgedCommitsLand
    BY <1>1 DEF AcknowledgedCommitsLand
  <2> QED
    BY <2>1, PTL
<1>2. CASE "delete_branch" \notin Ops
  <2>1. Init => TypeOK /\ CommitInv /\ AwaitInv
    BY InitTyped, CommitInit
  <2>2. TypeOK /\ CommitInv /\ AwaitInv /\ [Next]_vars => (TypeOK /\ CommitInv /\ AwaitInv)'
    BY <1>2, NextTyped, CommitStep
  <2>3. TypeOK /\ CommitInv => AcknowledgedCommitsLand
    BY CommitsOnBranches DEF AcknowledgedCommitsLand
  <2> QED
    BY <2>1, <2>2, <2>3, PTL DEF Spec
<1> QED
  BY <1>1, <1>2

-----------------------------------------------------------------------------
(***************************************************************************)
(* Clienteles: behaviours that use some of the endpoints, from a           *)
(* provisioned repository when they do not provision one.                  *)
(***************************************************************************)
ClientsInv ==
  /\ TypeOK /\ clients \in SUBSET Ops
  /\ "delete_branch" \notin clients => CommitInv /\ AwaitInv

LEMMA ProvisionedTyped == ASSUME Provisioned PROVE TypeOK
<1> USE DEF Provisioned
<1>1. ProviderTypeOK
  BY DEF ProviderTypeOK
<1>2. RowsTypeOK
  BY DEF RowsTypeOK
<1>3. CallersTypeOK
  BY DEF CallersTypeOK, Outcomes, Steps, Events
<1>4. ArgTypeOK /\ arg \in [Callers -> {Project} \union Branches \union PullRequests \union Tags]
  BY DEF ArgTypeOK, BranchSteps, PullRequestSteps, TagSteps
<1> QED
  BY <1>1, <1>2, <1>3, <1>4 DEF TypeOK

\* Every feature branch holds the one commit that was acknowledged on it.
LEMMA ProvisionedCommits == ASSUME Provisioned PROVE CommitInv /\ AwaitInv
<1>1. \A b \in Branches : Landing(b) = {}
  BY DEF Provisioned, Landing
<1>2. ASSUME NEW b \in Branches
      PROVE  recorded[CommitEvent(b)] <= gh.commits[b] /\ db.head[b] <= gh.commits[b]
  <2>1. CommitEvent(b) \in Events
    BY CommitEvents
  <2>2. recorded[CommitEvent(b)] = IF b \in FeatureBranches THEN 1 ELSE 0
    BY <2>1 DEF Provisioned, CommitEvent
  <2>3. /\ gh.commits[b] = IF b \in IntegrationBranches THEN 0 ELSE 1
        /\ db.head[b] = IF b \in FeatureBranches THEN 1 ELSE 0
    BY DEF Provisioned
  <2> QED
    BY <2>2, <2>3, RepositoryConstants
<1>3. \A b \in Branches : recorded[CommitEvent(b)] \in Nat
  BY ProvisionedTyped, CommitEvents DEF TypeOK, RowsTypeOK
<1>4. \A c \in Callers : pc[c] = "idle"
  BY DEF Provisioned
<1>5. \A b \in Branches : Cardinality(Landing(b)) = 0
  BY <1>1, FS_EmptySet
<1> QED
  BY <1>2, <1>3, <1>4, <1>5 DEF CommitInv, AwaitInv

LEMMA ClientsInit == ASSUME MCInit PROVE ClientsInv
<1>1. clients \in SUBSET Ops
  BY ClientelesUseOps DEF MCInit
<1>2. TypeOK /\ CommitInv /\ AwaitInv
  BY InitTyped, CommitInit, ProvisionedTyped, ProvisionedCommits DEF MCInit
<1> QED
  BY <1>1, <1>2 DEF ClientsInv

LEMMA ClientsStep == ASSUME ClientsInv, [MCNext]_<<vars, clients>> PROVE ClientsInv'
<1>1. clients' = clients /\ clients \in SUBSET Ops /\ TypeOK
  BY DEF ClientsInv, MCNext
<1>2. [Next]_vars
  BY <1>1 DEF MCNext, Next, Request
<1>3. TypeOK'
  BY <1>1, <1>2, NextTyped
<1>4. ASSUME "delete_branch" \notin clients PROVE CommitInv' /\ AwaitInv'
  <2>1. CommitInv /\ AwaitInv
    BY <1>4 DEF ClientsInv
  <2> QED
    BY <1>1, <1>3, <1>4, <2>1, CommitBegin, CommitCall, CommitStop DEF MCNext
<1> QED
  BY <1>1, <1>3, <1>4 DEF ClientsInv

\* Whichever of the clienteles uses the service, and however many callers it has: unless it
\* deletes branches, no commit the audit log acknowledges is lost.
THEOREM ClientsKeepCommits == MCSpec => []AcknowledgedCommits
<1>1. MCInit => ClientsInv
  BY ClientsInit
<1>2. ClientsInv /\ [MCNext]_<<vars, clients>> => ClientsInv'
  BY ClientsStep
<1>3. ClientsInv => AcknowledgedCommits
  BY CommitsOnBranches DEF ClientsInv, AcknowledgedCommits
<1> QED
  BY <1>1, <1>2, <1>3, PTL DEF MCSpec
==============================================================================
