-------------------------- MODULE Repository_proofs --------------------------
(***************************************************************************)
(* Proofs about module Repository, for every set of callers, branches,     *)
(* pull requests and tags, every mix of operations and every call bound:   *)
(*                                                                         *)
(*   TypeCorrect         every value has its type, every await its argument*)
(*   ApprovalIsNeeded    no pull request is merged without an approval     *)
(*   ImplementsGate      the service implements PullRequestGate            *)
(*                                                                         *)
(* and that what the service remembers, its rows, its audit log and its    *)
(* events, never says more than what happened:                             *)
(*                                                                         *)
(*   RepositoriesAreProvisionedOnce                                        *)
(*                       a repository is complete when it has a row, and   *)
(*                       made once                                         *)
(*   EventsAreBacked     no event is published that is not in the audit log*)
(*   MergesAreTrue       merge_sha and the audit log name merges that were *)
(*   RetiredWereMerged   a branch row is retired only by a merge           *)
(***************************************************************************)
EXTENDS Repository, FiniteSetTheorems, TLAPS

-----------------------------------------------------------------------------
(***************************************************************************)
(* Type correctness.                                                       *)
(***************************************************************************)

\* A method moves to one of the awaits L, or leaves with an outcome.
Moves(c, L) ==
  \E l \in L, o \in Outcomes :
    /\ pc' = [pc EXCEPT ![c] = l]
    /\ outcome' \in {outcome, [outcome EXCEPT ![c] = o]}

LEMMA GotoMoves ==
  ASSUME NEW c, NEW l, Goto(c, l) PROVE Moves(c, {l, "idle"})
  BY DEF Goto, Moves, Outcomes

LEMMA ReturnMoves ==
  ASSUME NEW c, NEW l, NEW o \in Outcomes, Return(c, o) PROVE Moves(c, {l, "idle"})
  BY DEF Return, Moves

LEMMA AnswerMoves ==
  ASSUME NEW c, NEW l, Answer(c, l) PROVE Moves(c, {l, "idle"})
  BY GotoMoves, ReturnMoves DEF Answer, Outcomes

\* A step that keeps the provider's and the rows' types and moves one caller to
\* an await its argument fits keeps every type.
LEMMA MovesTyped ==
  ASSUME TypeOK, ProviderTypeOK', RowsTypeOK',
         NEW c \in Callers, NEW l \in Steps, Moves(c, {l, "idle"}),
         arg' \in [Callers -> {Project} \union Branches \union PullRequests \union Tags],
         \A d \in Callers \ {c} : arg'[d] = arg[d],
         l \in BranchSteps => arg'[c] \in WorkBranches, l # "pr.provider",
         l \in PullRequestSteps => arg'[c] \in PullRequests,
         l \in TagSteps => arg'[c] \in Tags,
         parent' \in [Callers -> Nat], event' \in [Callers -> Events], calls' = calls
  PROVE  TypeOK'
<1>1. PICK m \in {l, "idle"}, o \in Outcomes :
        /\ pc' = [pc EXCEPT ![c] = m]
        /\ outcome' \in {outcome, [outcome EXCEPT ![c] = o]}
  BY DEF Moves
<1>2. CallersTypeOK'
  BY <1>1 DEF TypeOK, CallersTypeOK, Steps
<1>3. ArgTypeOK'
  BY <1>1 DEF TypeOK, CallersTypeOK, ArgTypeOK, BranchSteps, PullRequestSteps, TagSteps
<1> QED
  BY <1>2, <1>3 DEF TypeOK

\* The common case: the argument, the parent and the event stay, and the await
\* moved to is of the same kind or takes any argument.
LEMMA StaysTyped ==
  ASSUME TypeOK, ProviderTypeOK', RowsTypeOK',
         NEW c \in Callers, NEW l \in Steps, Moves(c, {l, "idle"}),
         UNCHANGED <<arg, parent, event, calls>>, l # "pr.provider",
         l \in BranchSteps => pc[c] \in BranchSteps,
         l \in PullRequestSteps => pc[c] \in PullRequestSteps,
         l \in TagSteps => pc[c] \in TagSteps
  PROVE  TypeOK'
<1>1. /\ l \in BranchSteps => arg[c] \in WorkBranches
      /\ l \in PullRequestSteps => arg[c] \in PullRequests
      /\ l \in TagSteps => arg[c] \in Tags
  BY DEF TypeOK, ArgTypeOK
<1>2. /\ arg \in [Callers -> {Project} \union Branches \union PullRequests \union Tags]
      /\ parent \in [Callers -> Nat]
      /\ event \in [Callers -> Events]
  BY DEF TypeOK, CallersTypeOK
<1> QED
  BY <1>1, <1>2, MovesTyped

LEMMA AnnounceTyped ==
  ASSUME CallersTypeOK, NEW c \in Callers, NEW k, NEW x, <<k, x>> \in Events,
         Announce(c, k, x)
  PROVE  event' \in [Callers -> Events]
  BY DEF Announce, CallersTypeOK

\* A method starts on the argument its endpoint was called with.
LEMMA DispatchTyped ==
  ASSUME TypeOK, NEW c \in Callers, NEW early \in Outcomes, NEW l \in Steps, NEW x,
         x \in {Project} \union Branches \union PullRequests \union Tags,
         early = "none" /\ l \in BranchSteps => x \in WorkBranches,
         l = "pr.provider" => x \in Branches,
         l \in PullRequestSteps => x \in PullRequests,
         l \in TagSteps => x \in Tags,
         Dispatch(c, x, early, l), calls' \in Nat
  PROVE  TypeOK'
<1>1. ProviderTypeOK' /\ RowsTypeOK'
  BY DEF Dispatch, TypeOK, ProviderTypeOK, RowsTypeOK
<1>2. arg' \in [Callers -> {Project} \union Branches \union PullRequests \union Tags]
  BY DEF Dispatch, TypeOK
<1>3. CallersTypeOK'
  BY DEF Dispatch, TypeOK, CallersTypeOK, Steps
<1>4. ArgTypeOK'
  BY DEF Dispatch, TypeOK, CallersTypeOK, ArgTypeOK, BranchSteps, PullRequestSteps, TagSteps
<1> QED
  BY <1>1, <1>2, <1>3, <1>4 DEF TypeOK

LEMMA InitTyped == ASSUME Init PROVE TypeOK
<1>1. ProviderTypeOK
  BY DEF Init, ProviderTypeOK
<1>2. RowsTypeOK
  BY DEF Init, RowsTypeOK
<1>3. CallersTypeOK
  <2>1. <<"repository.created", Project>> \in Events
    BY DEF Events
  <2> QED
    BY <2>1 DEF Init, CallersTypeOK, Steps, Outcomes
<1>4. ArgTypeOK
  BY DEF Init, ArgTypeOK, BranchSteps, PullRequestSteps, TagSteps
<1> QED
  BY <1>1, <1>2, <1>3, <1>4 DEF TypeOK, Init

\* A request, or a node of the graph, starts a method.
LEMMA BeginTyped ==
  ASSUME TypeOK, NEW c \in Callers, NEW op, BeginOp(c, op), calls' \in Nat PROVE TypeOK'
<1> USE DEF NeedsRepository
<1> DEFINE Kinds == {Project} \union Branches \union PullRequests \union Tags
<1>1. CASE BeginCreateRepository(c)
  BY <1>1, DispatchTyped
     DEF BeginCreateRepository, Outcomes, Steps, RepositorySteps, BranchSteps,
         PullRequestSteps, TagSteps
<1>2. ASSUME NEW b \in WorkBranches, BeginCreateBranch(c, b) PROVE TypeOK'
  BY <1>2, DispatchTyped
     DEF BeginCreateBranch, Outcomes, Steps, BranchSteps, PullRequestSteps, TagSteps,
         Branches
<1>3. ASSUME NEW b \in Branches, BeginDeleteBranch(c, b) PROVE TypeOK'
  BY <1>3, DispatchTyped
     DEF BeginDeleteBranch, Outcomes, Steps, BranchSteps, PullRequestSteps, TagSteps,
         Branches, Protected
<1>4. ASSUME NEW b \in Branches, BeginCommit(c, b) PROVE TypeOK'
  BY <1>4, DispatchTyped
     DEF BeginCommit, Outcomes, Steps, BranchSteps, PullRequestSteps, TagSteps,
         Branches, Protected
<1>5. ASSUME NEW b \in Branches, BeginCreatePullRequest(c, b) PROVE TypeOK'
  BY <1>5, DispatchTyped
     DEF BeginCreatePullRequest, Outcomes, Steps, BranchSteps, PullRequestSteps, TagSteps,
         Branches
<1>6. ASSUME NEW p \in PullRequests, BeginApprove(c, p) \/ BeginMerge(c, p) PROVE TypeOK'
  BY <1>6, DispatchTyped
     DEF BeginApprove, BeginMerge, Outcomes, Steps, BranchSteps, PullRequestSteps, TagSteps
<1>7. ASSUME NEW t \in Tags, BeginCreateRelease(c, t) \/ BeginRollback(c, t) PROVE TypeOK'
  BY <1>7, DispatchTyped
     DEF BeginCreateRelease, BeginRollback, Outcomes, Steps, BranchSteps,
         PullRequestSteps, TagSteps
<1> QED
  BY <1>1, <1>2, <1>3, <1>4, <1>5, <1>6, <1>7 DEF BeginOp

\* create_repository.
LEMMA RepositoryMethodTyped ==
  ASSUME TypeOK, NEW c \in Callers,
         RepoProvider(c) \/ RepoDevelop(c) \/ RepoSeed(c) \/ RepoRow(c)
  PROVE  TypeOK'
<1>1. CASE RepoProvider(c)
  <2>1. ProviderTypeOK'
    BY <1>1 DEF RepoProvider, TypeOK, ProviderTypeOK
  <2>2. RowsTypeOK'
    BY <1>1 DEF RepoProvider, TypeOK, RowsTypeOK
  <2>3. Moves(c, {"repo.develop", "idle"}) /\ UNCHANGED <<arg, parent, event, calls>>
    BY <1>1, AnswerMoves, GotoMoves, ReturnMoves DEF RepoProvider, Outcomes
  <2> QED
    BY <1>1, <2>1, <2>2, <2>3, StaysTyped
       DEF RepoProvider, Steps, RepositorySteps, BranchSteps, PullRequestSteps, TagSteps
<1>2. CASE RepoDevelop(c)
  <2>1. ProviderTypeOK'
    BY <1>2 DEF RepoDevelop, TypeOK, ProviderTypeOK
  <2>2. RowsTypeOK'
    BY <1>2 DEF RepoDevelop, TypeOK, RowsTypeOK
  <2>3. Moves(c, {"repo.seed", "idle"}) /\ UNCHANGED <<arg, parent, event, calls>>
    BY <1>2, AnswerMoves, GotoMoves, ReturnMoves DEF RepoDevelop, Outcomes
  <2> QED
    BY <1>2, <2>1, <2>2, <2>3, StaysTyped
       DEF RepoDevelop, Steps, RepositorySteps, BranchSteps, PullRequestSteps, TagSteps
<1>3. CASE RepoSeed(c)
  <2>1. ProviderTypeOK'
    BY <1>3 DEF RepoSeed, TypeOK, ProviderTypeOK
  <2>2. RowsTypeOK'
    BY <1>3 DEF RepoSeed, TypeOK, RowsTypeOK
  <2>3. Moves(c, {"repo.row", "idle"}) /\ UNCHANGED <<arg, parent, event, calls>>
    BY <1>3, AnswerMoves, GotoMoves, ReturnMoves DEF RepoSeed, Outcomes
  <2> QED
    BY <1>3, <2>1, <2>2, <2>3, StaysTyped
       DEF RepoSeed, Steps, RepositorySteps, BranchSteps, PullRequestSteps, TagSteps
<1>4. CASE RepoRow(c)
  <2>1. ProviderTypeOK'
    BY <1>4 DEF RepoRow, TypeOK, ProviderTypeOK
  <2>2. RowsTypeOK'
    BY <1>4 DEF RepoRow, TypeOK, RowsTypeOK
  <2>3. Moves(c, {"audit", "idle"}) /\ UNCHANGED <<arg, parent, calls>>
    BY <1>4, AnswerMoves, GotoMoves, ReturnMoves DEF RepoRow, Outcomes
  <2>4. <<"repository.created", Project>> \in Events
    BY <1>4 DEF RepoRow, TypeOK, ArgTypeOK, BranchSteps, PullRequestSteps, TagSteps, Events, Branches
  <2>5. event' \in [Callers -> Events]
    BY <1>4, <2>4, AnnounceTyped DEF RepoRow, TypeOK, CallersTypeOK
  <2> QED
    BY <1>4, <2>1, <2>2, <2>3, <2>5, MovesTyped
       DEF RepoRow, TypeOK, CallersTypeOK, Steps, BranchSteps, PullRequestSteps, TagSteps
<1> QED
  BY <1>1, <1>2, <1>3, <1>4

\* create_branch and delete_branch.
LEMMA BranchMethodTyped ==
  ASSUME TypeOK, NEW c \in Callers,
         BranchProvider(c) \/ BranchRow(c) \/ DeleteProvider(c) \/ DeleteRow(c)
  PROVE  TypeOK'
<1>1. CASE BranchProvider(c)
  <2>1. ProviderTypeOK'
    <3>1. gh' \in {gh, [gh EXCEPT !.branch[arg[c]] = TRUE]}
      BY <1>1 DEF BranchProvider
    <3>2. CASE gh' = gh
      BY <3>2 DEF TypeOK, ProviderTypeOK
    <3>3. CASE gh' = [gh EXCEPT !.branch[arg[c]] = TRUE]
      BY <3>3 DEF TypeOK, ProviderTypeOK
    <3> QED
      BY <3>1, <3>2, <3>3
  <2>2. RowsTypeOK'
    BY <1>1 DEF BranchProvider, TypeOK, RowsTypeOK
  <2>3. Moves(c, {"branch.row", "idle"}) /\ UNCHANGED <<arg, parent, event, calls>>
    BY <1>1, AnswerMoves, GotoMoves, ReturnMoves DEF BranchProvider, Outcomes
  <2> QED
    BY <1>1, <2>1, <2>2, <2>3, StaysTyped
       DEF BranchProvider, Steps, RepositorySteps, BranchSteps, PullRequestSteps, TagSteps
<1>2. CASE BranchRow(c)
  <2>1. ProviderTypeOK'
    BY <1>2 DEF BranchRow, TypeOK, ProviderTypeOK
  <2>2. RowsTypeOK'
    BY <1>2 DEF BranchRow, TypeOK, RowsTypeOK
  <2>3. Moves(c, {"audit", "idle"}) /\ UNCHANGED <<arg, parent, calls>>
    BY <1>2, AnswerMoves, GotoMoves, ReturnMoves DEF BranchRow, Outcomes
  <2>4. <<"repository.branch.created", arg[c]>> \in Events
    BY <1>2 DEF BranchRow, TypeOK, ArgTypeOK, BranchSteps, PullRequestSteps, TagSteps, Events, Branches
  <2>5. event' \in [Callers -> Events]
    BY <1>2, <2>4, AnnounceTyped DEF BranchRow, TypeOK, CallersTypeOK
  <2> QED
    BY <1>2, <2>1, <2>2, <2>3, <2>5, MovesTyped
       DEF BranchRow, TypeOK, CallersTypeOK, Steps, BranchSteps, PullRequestSteps, TagSteps
<1>3. CASE DeleteProvider(c)
  <2>1. ProviderTypeOK'
    BY <1>3 DEF DeleteProvider, TypeOK, ProviderTypeOK
  <2>2. RowsTypeOK'
    BY <1>3 DEF DeleteProvider, TypeOK, RowsTypeOK
  <2>3. Moves(c, {"delete.row", "idle"}) /\ UNCHANGED <<arg, parent, event, calls>>
    BY <1>3, AnswerMoves, GotoMoves, ReturnMoves DEF DeleteProvider, Outcomes
  <2> QED
    BY <1>3, <2>1, <2>2, <2>3, StaysTyped
       DEF DeleteProvider, Steps, RepositorySteps, BranchSteps, PullRequestSteps, TagSteps
<1>4. CASE DeleteRow(c)
  <2>1. ProviderTypeOK'
    BY <1>4 DEF DeleteRow, TypeOK, ProviderTypeOK
  <2>2. RowsTypeOK'
    BY <1>4 DEF DeleteRow, TypeOK, RowsTypeOK
  <2>3. Moves(c, {"idle", "idle"}) /\ UNCHANGED <<arg, parent, event, calls>>
    BY <1>4, AnswerMoves, GotoMoves, ReturnMoves DEF DeleteRow, Outcomes
  <2> QED
    BY <1>4, <2>1, <2>2, <2>3, StaysTyped
       DEF DeleteRow, Steps, RepositorySteps, BranchSteps, PullRequestSteps, TagSteps
<1> QED
  BY <1>1, <1>2, <1>3, <1>4

\* commit_files.
LEMMA CommitMethodTyped ==
  ASSUME TypeOK, NEW c \in Callers,
         CommitRef(c) \/ CommitPatch(c) \/ CommitRow(c)
  PROVE  TypeOK'
<1>1. CASE CommitRef(c)
  <2>1. ProviderTypeOK' /\ RowsTypeOK'
    BY <1>1 DEF CommitRef, TypeOK, ProviderTypeOK, RowsTypeOK
  <2>2. Moves(c, {"commit.patch", "idle"}) /\ UNCHANGED <<arg, event, calls>>
    BY <1>1, GotoMoves, ReturnMoves DEF CommitRef, Outcomes
  <2>3. parent' \in [Callers -> Nat]
    <3>1. gh.commits[arg[c]] \in Nat
      BY <1>1 DEF CommitRef, TypeOK, ProviderTypeOK, ArgTypeOK, BranchSteps, Branches
    <3> QED
      BY <1>1, <3>1 DEF CommitRef, TypeOK, CallersTypeOK
  <2>4. arg[c] \in WorkBranches
    BY <1>1 DEF CommitRef, TypeOK, ArgTypeOK, BranchSteps
  <2> QED
    BY <1>1, <2>1, <2>2, <2>3, <2>4, MovesTyped
       DEF CommitRef, TypeOK, CallersTypeOK, Steps, BranchSteps, PullRequestSteps, TagSteps
<1>2. CASE CommitPatch(c)
  <2>1. ProviderTypeOK'
    BY <1>2 DEF CommitPatch, TypeOK, ProviderTypeOK
  <2>2. RowsTypeOK'
    BY <1>2 DEF CommitPatch, TypeOK, RowsTypeOK
  <2>3. Moves(c, {"commit.row", "idle"}) /\ UNCHANGED <<arg, parent, event, calls>>
    BY <1>2, AnswerMoves, GotoMoves, ReturnMoves DEF CommitPatch, Outcomes
  <2> QED
    BY <1>2, <2>1, <2>2, <2>3, StaysTyped
       DEF CommitPatch, Steps, RepositorySteps, BranchSteps, PullRequestSteps, TagSteps
<1>3. CASE CommitRow(c)
  <2>1. ProviderTypeOK'
    BY <1>3 DEF CommitRow, TypeOK, ProviderTypeOK
  <2>2. RowsTypeOK'
    BY <1>3 DEF CommitRow, TypeOK, RowsTypeOK, CallersTypeOK
  <2>3. Moves(c, {"audit", "idle"}) /\ UNCHANGED <<arg, parent, calls>>
    BY <1>3, AnswerMoves, GotoMoves, ReturnMoves DEF CommitRow, Outcomes
  <2>4. <<"repository.commit.created", arg[c]>> \in Events
    BY <1>3 DEF CommitRow, TypeOK, ArgTypeOK, BranchSteps, PullRequestSteps, TagSteps, Events, Branches
  <2>5. event' \in [Callers -> Events]
    BY <1>3, <2>4, AnnounceTyped DEF CommitRow, TypeOK, CallersTypeOK
  <2> QED
    BY <1>3, <2>1, <2>2, <2>3, <2>5, MovesTyped
       DEF CommitRow, TypeOK, CallersTypeOK, Steps, BranchSteps, PullRequestSteps, TagSteps
<1> QED
  BY <1>1, <1>2, <1>3

\* create_pull_request and approve_pull_request.
LEMMA PullRequestMethodTyped ==
  ASSUME TypeOK, NEW c \in Callers,
         OpenProvider(c) \/ PullRequestRow(c) \/ ApproveMark(c)
  PROVE  TypeOK'
<1>1. CASE OpenProvider(c)
  <2>1. RowsTypeOK'
    BY <1>1 DEF OpenProvider, TypeOK, RowsTypeOK
  <2>2. arg[c] \in Branches
    BY <1>1 DEF OpenProvider, TypeOK, ArgTypeOK, BranchSteps, Branches
  <2>3. ASSUME NEW p \in PullRequests,
               gh' = [gh EXCEPT !.pr[p] = "open", !.head[p] = arg[c]],
               arg' = [arg EXCEPT ![c] = p], Answer(c, "pr.row"),
               UNCHANGED <<parent, event, calls>>
        PROVE  TypeOK'
    <3>1. ProviderTypeOK'
      BY <2>2, <2>3 DEF TypeOK, ProviderTypeOK
    <3>2. arg' \in [Callers -> {Project} \union Branches \union PullRequests \union Tags]
      BY <2>3 DEF TypeOK
    <3>3. arg'[c] = p /\ \A d \in Callers \ {c} : arg'[d] = arg[d]
      BY <2>3 DEF TypeOK
    <3> QED
      BY <2>1, <2>3, <3>1, <3>2, <3>3, AnswerMoves, MovesTyped
         DEF TypeOK, CallersTypeOK, Steps, BranchSteps, PullRequestSteps, TagSteps
  <2>4. CASE UNCHANGED <<gh, arg>> /\ Return(c, "error")
    <3>1. ProviderTypeOK'
      BY <2>4 DEF TypeOK, ProviderTypeOK
    <3>2. Moves(c, {"idle", "idle"})
      BY <2>4, ReturnMoves DEF Outcomes
    <3> QED
      BY <1>1, <2>1, <2>4, <3>1, <3>2, StaysTyped
         DEF OpenProvider, Steps, BranchSteps, PullRequestSteps, TagSteps
  <2> QED
    BY <1>1, <2>3, <2>4 DEF OpenProvider
<1>2. CASE PullRequestRow(c)
  <2>1. ProviderTypeOK'
    BY <1>2 DEF PullRequestRow, TypeOK, ProviderTypeOK
  <2>2. RowsTypeOK'
    BY <1>2 DEF PullRequestRow, TypeOK, RowsTypeOK
  <2>3. Moves(c, {"audit", "idle"}) /\ UNCHANGED <<arg, parent, calls>>
    BY <1>2, AnswerMoves, GotoMoves, ReturnMoves DEF PullRequestRow, Outcomes
  <2>4. <<"repository.pr.created", arg[c]>> \in Events
    BY <1>2 DEF PullRequestRow, TypeOK, ArgTypeOK, BranchSteps, PullRequestSteps, TagSteps, Events, Branches
  <2>5. event' \in [Callers -> Events]
    BY <1>2, <2>4, AnnounceTyped DEF PullRequestRow, TypeOK, CallersTypeOK
  <2> QED
    BY <1>2, <2>1, <2>2, <2>3, <2>5, MovesTyped
       DEF PullRequestRow, TypeOK, CallersTypeOK, Steps, BranchSteps, PullRequestSteps, TagSteps
<1>3. CASE ApproveMark(c)
  <2>1. ProviderTypeOK'
    BY <1>3 DEF ApproveMark, TypeOK, ProviderTypeOK
  <2>2. RowsTypeOK'
    BY <1>3 DEF ApproveMark, TypeOK, RowsTypeOK, ArgTypeOK, PullRequestSteps
  <2>3. Moves(c, {"audit", "idle"}) /\ UNCHANGED <<arg, parent, calls>>
    BY <1>3, AnswerMoves, GotoMoves, ReturnMoves DEF ApproveMark, Outcomes
  <2>4. <<"repository.pr.approved", arg[c]>> \in Events
    BY <1>3 DEF ApproveMark, TypeOK, ArgTypeOK, BranchSteps, PullRequestSteps, TagSteps, Events, Branches
  <2>5. event' \in [Callers -> Events]
    BY <1>3, <2>4, AnnounceTyped DEF ApproveMark, TypeOK, CallersTypeOK
  <2> QED
    BY <1>3, <2>1, <2>2, <2>3, <2>5, MovesTyped
       DEF ApproveMark, TypeOK, CallersTypeOK, Steps, BranchSteps, PullRequestSteps, TagSteps
<1> QED
  BY <1>1, <1>2, <1>3

\* merge_pull_request.
LEMMA MergeMethodTyped ==
  ASSUME TypeOK, NEW c \in Callers,
         MergeProvider(c) \/ MergeConflict(c) \/ MergeMark(c) \/ MergeRetire(c)
  PROVE  TypeOK'
<1>1. CASE MergeProvider(c)
  <2>1. ProviderTypeOK' /\ RowsTypeOK'
    BY <1>1 DEF MergeProvider, TypeOK, ProviderTypeOK, RowsTypeOK
  <2>2. UNCHANGED <<arg, parent, event, calls>> /\ pc[c] \in PullRequestSteps
    BY <1>1 DEF MergeProvider, PullRequestSteps
  <2>3. Moves(c, {"merge.mark", "idle"}) \/ Moves(c, {"merge.conflict", "idle"})
    BY <1>1, AnswerMoves, GotoMoves DEF MergeProvider
  <2> QED
    BY <2>1, <2>2, <2>3, StaysTyped DEF Steps, BranchSteps, PullRequestSteps, TagSteps
<1>2. CASE MergeConflict(c)
  <2>1. ProviderTypeOK'
    BY <1>2 DEF MergeConflict, TypeOK, ProviderTypeOK
  <2>2. RowsTypeOK'
    BY <1>2 DEF MergeConflict, TypeOK, RowsTypeOK
  <2>3. Moves(c, {"audit", "idle"}) /\ UNCHANGED <<arg, parent, calls>>
    BY <1>2, AnswerMoves, GotoMoves, ReturnMoves DEF MergeConflict, Outcomes
  <2>4. <<"pr.merge_conflict", arg[c]>> \in Events
    BY <1>2 DEF MergeConflict, TypeOK, ArgTypeOK, BranchSteps, PullRequestSteps, TagSteps, Events, Branches
  <2>5. event' \in [Callers -> Events]
    BY <1>2, <2>4, AnnounceTyped DEF MergeConflict, TypeOK, CallersTypeOK
  <2> QED
    BY <1>2, <2>1, <2>2, <2>3, <2>5, MovesTyped
       DEF MergeConflict, TypeOK, CallersTypeOK, Steps, BranchSteps, PullRequestSteps, TagSteps
<1>3. CASE MergeMark(c)
  <2>1. ProviderTypeOK'
    BY <1>3 DEF MergeMark, TypeOK, ProviderTypeOK
  <2>2. RowsTypeOK'
    BY <1>3 DEF MergeMark, TypeOK, RowsTypeOK, ArgTypeOK, PullRequestSteps
  <2>3. Moves(c, {"merge.retire", "idle"}) /\ UNCHANGED <<arg, parent, event, calls>>
    BY <1>3, AnswerMoves, GotoMoves, ReturnMoves DEF MergeMark, Outcomes
  <2> QED
    BY <1>3, <2>1, <2>2, <2>3, StaysTyped
       DEF MergeMark, Steps, RepositorySteps, BranchSteps, PullRequestSteps, TagSteps
<1>4. CASE MergeRetire(c)
  <2>1. ProviderTypeOK'
    BY <1>4 DEF MergeRetire, TypeOK, ProviderTypeOK
  <2>2. RowsTypeOK'
    BY <1>4 DEF MergeRetire, TypeOK, RowsTypeOK
  <2>3. Moves(c, {"audit", "idle"}) /\ UNCHANGED <<arg, parent, calls>>
    BY <1>4, AnswerMoves, GotoMoves, ReturnMoves DEF MergeRetire, Outcomes
  <2>4. <<"repository.pr.merged", arg[c]>> \in Events
    BY <1>4 DEF MergeRetire, TypeOK, ArgTypeOK, BranchSteps, PullRequestSteps, TagSteps, Events, Branches
  <2>5. event' \in [Callers -> Events]
    BY <1>4, <2>4, AnnounceTyped DEF MergeRetire, TypeOK, CallersTypeOK
  <2> QED
    BY <1>4, <2>1, <2>2, <2>3, <2>5, MovesTyped
       DEF MergeRetire, TypeOK, CallersTypeOK, Steps, BranchSteps, PullRequestSteps, TagSteps
<1> QED
  BY <1>1, <1>2, <1>3, <1>4

\* create_release and rollback_release.
LEMMA ReleaseMethodTyped ==
  ASSUME TypeOK, NEW c \in Callers,
         ReleaseLookup(c) \/ ReleasePost(c) \/ RollbackLookup(c) \/ RollbackDelete(c)
  PROVE  TypeOK'
<1>1. CASE ReleaseLookup(c)
  <2>1. ProviderTypeOK'
    BY <1>1 DEF ReleaseLookup, TypeOK, ProviderTypeOK
  <2>2. RowsTypeOK'
    BY <1>1 DEF ReleaseLookup, TypeOK, RowsTypeOK
  <2>3. Moves(c, {"release.post", "idle"}) /\ UNCHANGED <<arg, parent, event, calls>>
    BY <1>1, AnswerMoves, GotoMoves, ReturnMoves DEF ReleaseLookup, Outcomes
  <2> QED
    BY <1>1, <2>1, <2>2, <2>3, StaysTyped
       DEF ReleaseLookup, Steps, RepositorySteps, BranchSteps, PullRequestSteps, TagSteps
<1>2. CASE ReleasePost(c)
  <2>1. ProviderTypeOK'
    <3>1. gh' \in {gh, [gh EXCEPT !.release[arg[c]] = TRUE]}
      BY <1>2 DEF ReleasePost
    <3>2. CASE gh' = gh
      BY <3>2 DEF TypeOK, ProviderTypeOK
    <3>3. CASE gh' = [gh EXCEPT !.release[arg[c]] = TRUE]
      BY <3>3 DEF TypeOK, ProviderTypeOK
    <3> QED
      BY <3>1, <3>2, <3>3
  <2>2. RowsTypeOK'
    BY <1>2 DEF ReleasePost, TypeOK, RowsTypeOK
  <2>3. Moves(c, {"audit", "idle"}) /\ UNCHANGED <<arg, parent, calls>>
    BY <1>2, AnswerMoves, GotoMoves, ReturnMoves DEF ReleasePost, Outcomes
  <2>4. <<"repository.release.created", arg[c]>> \in Events
    BY <1>2 DEF ReleasePost, TypeOK, ArgTypeOK, BranchSteps, PullRequestSteps, TagSteps, Events, Branches
  <2>5. event' \in [Callers -> Events]
    BY <1>2, <2>4, AnnounceTyped DEF ReleasePost, TypeOK, CallersTypeOK
  <2> QED
    BY <1>2, <2>1, <2>2, <2>3, <2>5, MovesTyped
       DEF ReleasePost, TypeOK, CallersTypeOK, Steps, BranchSteps, PullRequestSteps, TagSteps
<1>3. CASE RollbackLookup(c)
  <2>1. ProviderTypeOK' /\ RowsTypeOK'
    BY <1>3 DEF RollbackLookup, TypeOK, ProviderTypeOK, RowsTypeOK
  <2>2. <<"repository.release.rollback", arg[c]>> \in Events /\ arg[c] \in Tags
    BY <1>3 DEF RollbackLookup, TypeOK, ArgTypeOK, TagSteps, Events
  <2>3. event' \in [Callers -> Events]
    BY <1>3, <2>2, AnnounceTyped DEF RollbackLookup, TypeOK, CallersTypeOK
  <2>4. Moves(c, {"rollback.delete", "idle"}) \/ Moves(c, {"audit", "idle"})
    BY <1>3, GotoMoves DEF RollbackLookup
  <2> QED
    BY <1>3, <2>1, <2>2, <2>3, <2>4, MovesTyped
       DEF RollbackLookup, TypeOK, CallersTypeOK, Steps, BranchSteps, PullRequestSteps, TagSteps
<1>4. CASE RollbackDelete(c)
  <2>1. ProviderTypeOK'
    BY <1>4 DEF RollbackDelete, TypeOK, ProviderTypeOK
  <2>2. RowsTypeOK'
    BY <1>4 DEF RollbackDelete, TypeOK, RowsTypeOK
  <2>3. Moves(c, {"audit", "idle"}) /\ UNCHANGED <<arg, parent, event, calls>>
    BY <1>4, AnswerMoves, GotoMoves, ReturnMoves DEF RollbackDelete, Outcomes
  <2> QED
    BY <1>4, <2>1, <2>2, <2>3, StaysTyped
       DEF RollbackDelete, Steps, RepositorySteps, BranchSteps, PullRequestSteps, TagSteps
<1> QED
  BY <1>1, <1>2, <1>3, <1>4

\* record_and_publish, and a step that fails.
LEMMA AuditMethodTyped ==
  ASSUME TypeOK, NEW c \in Callers,
         RecordEvent(c) \/ PublishEvent(c) \/ StepFails(c)
  PROVE  TypeOK'
<1>1. CASE RecordEvent(c)
  <2>1. ProviderTypeOK'
    BY <1>1 DEF RecordEvent, TypeOK, ProviderTypeOK
  <2>2. RowsTypeOK'
    BY <1>1 DEF RecordEvent, TypeOK, RowsTypeOK, CallersTypeOK
  <2>3. Moves(c, {"publish", "idle"}) /\ UNCHANGED <<arg, parent, event, calls>>
    BY <1>1, AnswerMoves, GotoMoves, ReturnMoves DEF RecordEvent, Outcomes
  <2> QED
    BY <1>1, <2>1, <2>2, <2>3, StaysTyped
       DEF RecordEvent, Steps, RepositorySteps, BranchSteps, PullRequestSteps, TagSteps
<1>2. CASE PublishEvent(c)
  <2>1. ProviderTypeOK'
    BY <1>2 DEF PublishEvent, TypeOK, ProviderTypeOK
  <2>2. RowsTypeOK'
    BY <1>2 DEF PublishEvent, TypeOK, RowsTypeOK, CallersTypeOK
  <2>3. Moves(c, {"idle", "idle"}) /\ UNCHANGED <<arg, parent, event, calls>>
    BY <1>2, AnswerMoves, GotoMoves, ReturnMoves DEF PublishEvent, Outcomes
  <2> QED
    BY <1>2, <2>1, <2>2, <2>3, StaysTyped
       DEF PublishEvent, Steps, RepositorySteps, BranchSteps, PullRequestSteps, TagSteps
<1>3. CASE StepFails(c)
  <2>1. ProviderTypeOK'
    BY <1>3 DEF StepFails, TypeOK, ProviderTypeOK
  <2>2. RowsTypeOK'
    BY <1>3 DEF StepFails, TypeOK, RowsTypeOK
  <2>3. Moves(c, {"idle", "idle"}) /\ UNCHANGED <<arg, parent, event, calls>>
    BY <1>3, AnswerMoves, GotoMoves, ReturnMoves DEF StepFails, Outcomes
  <2> QED
    BY <1>3, <2>1, <2>2, <2>3, StaysTyped
       DEF StepFails, Steps, RepositorySteps, BranchSteps, PullRequestSteps, TagSteps
<1> QED
  BY <1>1, <1>2, <1>3

LEMMA RestartTyped == ASSUME TypeOK, Restart PROVE TypeOK'
<1>1. ProviderTypeOK' /\ RowsTypeOK'
  BY DEF Restart, TypeOK, ProviderTypeOK, RowsTypeOK
<1>2. CallersTypeOK' /\ ArgTypeOK'
  BY DEF Restart, TypeOK, CallersTypeOK, ArgTypeOK, Steps, Outcomes, BranchSteps,
         PullRequestSteps, TagSteps
<1> QED
  BY <1>1, <1>2 DEF Restart, TypeOK

LEMMA NextTyped == ASSUME TypeOK, [Next]_vars PROVE TypeOK'
<1>1. ASSUME NEW c \in Callers, Request(c, Ops) PROVE TypeOK'
  <2>1. calls' \in Nat
    BY <1>1 DEF Request, TypeOK, CallersTypeOK
  <2> QED
    BY <1>1, <2>1, BeginTyped DEF Request
<1>2. ASSUME NEW c \in Callers, CallStep(c) PROVE TypeOK'
  BY <1>2, RepositoryMethodTyped, BranchMethodTyped, CommitMethodTyped,
     PullRequestMethodTyped, MergeMethodTyped, ReleaseMethodTyped, AuditMethodTyped
     DEF CallStep
<1>3. CASE UNCHANGED vars
  BY <1>3 DEF vars, TypeOK, ProviderTypeOK, RowsTypeOK, CallersTypeOK, ArgTypeOK
<1> QED
  BY <1>1, <1>2, <1>3, RestartTyped DEF Next

\* Every value keeps its type and every await gets an argument its method can work
\* on, in every behaviour of the service.
THEOREM TypeCorrect == Spec => []TypeOK
<1>1. Init => TypeOK
  BY InitTyped
<1>2. TypeOK /\ [Next]_vars => TypeOK'
  BY NextTyped
<1> QED
  BY <1>1, <1>2, PTL DEF Spec

-----------------------------------------------------------------------------
(***************************************************************************)
(* The approval gate.                                                      *)
(***************************************************************************)

\* What holds at every await: a row stands for a pull request the provider
\* opened, and who is about to merge was approved before.
GateInv ==
  /\ \A p \in PullRequests :
       /\ db.pr[p] # "none" => gh.pr[p] # "none"
       /\ db.pr[p] = "approved" => p \in db.approvedAt
       /\ gh.pr[p] = "merged" => p \in db.approvedAt
  /\ \A c \in Callers :
       /\ pc[c] \in PullRequestSteps => gh.pr[arg[c]] # "none"
       /\ pc[c] = "merge.provider" => arg[c] \in db.approvedAt

\* Steps of the methods that are not about pull requests.
OtherStep(c) ==
  \/ RepoProvider(c) \/ RepoDevelop(c) \/ RepoSeed(c) \/ RepoRow(c)
  \/ BranchProvider(c) \/ BranchRow(c) \/ DeleteRow(c)
  \/ CommitRef(c) \/ CommitPatch(c) \/ CommitRow(c)
  \/ ReleaseLookup(c) \/ ReleasePost(c) \/ RollbackLookup(c) \/ RollbackDelete(c)

\* They leave the pull requests alone, at the provider and in the rows, and lead
\* to no await of the methods that are.
LEMMA OtherStepPullRequests ==
  ASSUME TypeOK, NEW c \in Callers, OtherStep(c)
  PROVE  /\ gh'.pr = gh.pr /\ gh'.head = gh.head
         /\ db'.pr = db.pr /\ db'.approvedAt = db.approvedAt /\ db'.mergeSha = db.mergeSha
<1>1. CASE RepoProvider(c)
  BY <1>1 DEF RepoProvider, TypeOK, ProviderTypeOK, RowsTypeOK
<1>2. CASE RepoDevelop(c)
  BY <1>2 DEF RepoDevelop, TypeOK, ProviderTypeOK, RowsTypeOK
<1>3. CASE RepoSeed(c)
  BY <1>3 DEF RepoSeed, TypeOK, ProviderTypeOK, RowsTypeOK
<1>4. CASE RepoRow(c)
  BY <1>4 DEF RepoRow, TypeOK, ProviderTypeOK, RowsTypeOK
<1>5. CASE BranchProvider(c)
  BY <1>5 DEF BranchProvider, TypeOK, ProviderTypeOK, RowsTypeOK
<1>6. CASE BranchRow(c)
  BY <1>6 DEF BranchRow, TypeOK, ProviderTypeOK, RowsTypeOK
<1>7. CASE DeleteRow(c)
  BY <1>7 DEF DeleteRow, TypeOK, ProviderTypeOK, RowsTypeOK
<1>8. CASE CommitRef(c)
  BY <1>8 DEF CommitRef, TypeOK, ProviderTypeOK, RowsTypeOK
<1>9. CASE CommitPatch(c)
  BY <1>9 DEF CommitPatch, TypeOK, ProviderTypeOK, RowsTypeOK
<1>10. CASE CommitRow(c)
  BY <1>10 DEF CommitRow, TypeOK, ProviderTypeOK, RowsTypeOK
<1>11. CASE ReleaseLookup(c)
  BY <1>11 DEF ReleaseLookup, TypeOK, ProviderTypeOK, RowsTypeOK
<1>12. CASE ReleasePost(c)
  BY <1>12 DEF ReleasePost, TypeOK, ProviderTypeOK, RowsTypeOK
<1>13. CASE RollbackLookup(c)
  BY <1>13 DEF RollbackLookup, TypeOK, ProviderTypeOK, RowsTypeOK
<1>14. CASE RollbackDelete(c)
  BY <1>14 DEF RollbackDelete, TypeOK, ProviderTypeOK, RowsTypeOK
<1> QED
  BY <1>1, <1>2, <1>3, <1>4, <1>5, <1>6, <1>7, <1>8, <1>9, <1>10, <1>11, <1>12, <1>13, <1>14 DEF OtherStep

LEMMA OtherStepCallers ==
  ASSUME TypeOK, NEW c \in Callers, OtherStep(c)
  PROVE  /\ \A d \in Callers \ {c} : pc'[d] = pc[d] /\ arg'[d] = arg[d]
         /\ pc'[c] \notin PullRequestSteps
<1>1. CASE RepoProvider(c)
  BY <1>1 DEF RepoProvider, Answer, Goto, Return, TypeOK, CallersTypeOK, PullRequestSteps
<1>2. CASE RepoDevelop(c)
  BY <1>2 DEF RepoDevelop, Answer, Goto, Return, TypeOK, CallersTypeOK, PullRequestSteps
<1>3. CASE RepoSeed(c)
  BY <1>3 DEF RepoSeed, Answer, Goto, Return, TypeOK, CallersTypeOK, PullRequestSteps
<1>4. CASE RepoRow(c)
  BY <1>4 DEF RepoRow, Answer, Goto, Return, TypeOK, CallersTypeOK, PullRequestSteps
<1>5. CASE BranchProvider(c)
  BY <1>5 DEF BranchProvider, Answer, Goto, Return, TypeOK, CallersTypeOK, PullRequestSteps
<1>6. CASE BranchRow(c)
  BY <1>6 DEF BranchRow, Answer, Goto, Return, TypeOK, CallersTypeOK, PullRequestSteps
<1>7. CASE DeleteRow(c)
  BY <1>7 DEF DeleteRow, Answer, Goto, Return, TypeOK, CallersTypeOK, PullRequestSteps
<1>8. CASE CommitRef(c)
  BY <1>8 DEF CommitRef, Answer, Goto, Return, TypeOK, CallersTypeOK, PullRequestSteps
<1>9. CASE CommitPatch(c)
  BY <1>9 DEF CommitPatch, Answer, Goto, Return, TypeOK, CallersTypeOK, PullRequestSteps
<1>10. CASE CommitRow(c)
  BY <1>10 DEF CommitRow, Answer, Goto, Return, TypeOK, CallersTypeOK, PullRequestSteps
<1>11. CASE ReleaseLookup(c)
  BY <1>11 DEF ReleaseLookup, Answer, Goto, Return, TypeOK, CallersTypeOK, PullRequestSteps
<1>12. CASE ReleasePost(c)
  BY <1>12 DEF ReleasePost, Answer, Goto, Return, TypeOK, CallersTypeOK, PullRequestSteps
<1>13. CASE RollbackLookup(c)
  BY <1>13 DEF RollbackLookup, Answer, Goto, Return, TypeOK, CallersTypeOK, PullRequestSteps
<1>14. CASE RollbackDelete(c)
  BY <1>14 DEF RollbackDelete, Answer, Goto, Return, TypeOK, CallersTypeOK, PullRequestSteps
<1> QED
  BY <1>1, <1>2, <1>3, <1>4, <1>5, <1>6, <1>7, <1>8, <1>9, <1>10, <1>11, <1>12, <1>13, <1>14 DEF OtherStep

\* A step that leaves the pull requests alone and takes no caller to an await of
\* their methods keeps the invariant.
LEMMA GateKept ==
  ASSUME GateInv, gh'.pr = gh.pr, db'.pr = db.pr, db'.approvedAt = db.approvedAt,
         \A c \in Callers : \/ pc'[c] = pc[c] /\ arg'[c] = arg[c]
                            \/ pc'[c] \notin PullRequestSteps
  PROVE  GateInv'
<1>1. ASSUME NEW c \in Callers
      PROVE  /\ pc'[c] \in PullRequestSteps => gh'.pr[arg'[c]] # "none"
             /\ pc'[c] = "merge.provider" => arg'[c] \in db'.approvedAt
  BY DEF GateInv, PullRequestSteps
<1> QED
  BY <1>1 DEF GateInv

LEMMA GateInit == ASSUME Init PROVE GateInv
  BY DEF Init, GateInv, PullRequestSteps

LEMMA GateBegin ==
  ASSUME TypeOK, GateInv, NEW c \in Callers, NEW op, BeginOp(c, op) PROVE GateInv'
<1>1. ASSUME NEW p \in PullRequests, BeginApprove(c, p) \/ BeginMerge(c, p) PROVE GateInv'
  <2>1. gh' = gh /\ db' = db
    BY <1>1 DEF BeginApprove, BeginMerge, Dispatch
  <2>2. \A d \in Callers \ {c} : pc'[d] = pc[d] /\ arg'[d] = arg[d]
    BY <1>1 DEF BeginApprove, BeginMerge, Dispatch, TypeOK, CallersTypeOK
  <2>3. arg'[c] = p /\ pc'[c] \in {"idle", "approve.mark", "merge.provider"}
    BY <1>1 DEF BeginApprove, BeginMerge, Dispatch, TypeOK, CallersTypeOK
  <2>4. /\ pc'[c] = "approve.mark" => db.pr[p] = "open"
        /\ pc'[c] = "merge.provider" => db.pr[p] = "approved"
    BY <1>1 DEF BeginApprove, BeginMerge, Dispatch, TypeOK, CallersTypeOK
  <2>5. /\ pc'[c] \in PullRequestSteps => gh.pr[p] # "none"
        /\ pc'[c] = "merge.provider" => p \in db.approvedAt
    BY <2>3, <2>4 DEF GateInv, PullRequestSteps
  <2> QED
    BY <2>1, <2>2, <2>3, <2>5 DEF GateInv
<1>2. ASSUME NEW x, NEW early, NEW l, l \notin PullRequestSteps, early # "none" \/ TRUE,
             Dispatch(c, x, early, l)
      PROVE  GateInv'
  <2>1. gh' = gh /\ db' = db
    BY <1>2 DEF Dispatch
  <2>2. \A d \in Callers : \/ pc'[d] = pc[d] /\ arg'[d] = arg[d]
                           \/ pc'[d] \notin PullRequestSteps
    BY <1>2 DEF Dispatch, TypeOK, CallersTypeOK, PullRequestSteps
  <2> QED
    BY <2>1, <2>2, GateKept
<1>3. CASE \/ BeginCreateRepository(c)
           \/ \E b \in Branches : \/ BeginCreateBranch(c, b) \/ BeginDeleteBranch(c, b)
                                  \/ BeginCommit(c, b) \/ BeginCreatePullRequest(c, b)
           \/ \E t \in Tags : BeginCreateRelease(c, t) \/ BeginRollback(c, t)
  BY <1>2, <1>3
     DEF BeginCreateRepository, BeginCreateBranch, BeginDeleteBranch, BeginCommit,
         BeginCreatePullRequest, BeginCreateRelease, BeginRollback, PullRequestSteps
<1> QED
  BY <1>1, <1>3 DEF BeginOp, Branches

LEMMA GateOther ==
  ASSUME TypeOK, GateInv, NEW c \in Callers, OtherStep(c) PROVE GateInv'
  BY OtherStepPullRequests, OtherStepCallers, GateKept

\* Deleting a branch closes pull requests: none is merged by it, none vanishes.
LEMMA GateDelete ==
  ASSUME TypeOK, GateInv, NEW c \in Callers, DeleteProvider(c) PROVE GateInv'
<1>1. db' = db /\ arg' = arg
  BY DEF DeleteProvider
<1>2. \A p \in PullRequests : /\ gh'.pr[p] = "merged" => gh.pr[p] = "merged"
                              /\ gh.pr[p] # "none" => gh'.pr[p] # "none"
  BY DEF DeleteProvider, TypeOK, ProviderTypeOK
<1>3. \A d \in Callers : pc'[d] = pc[d] \/ pc'[d] \notin PullRequestSteps
  BY DEF DeleteProvider, Answer, Goto, Return, TypeOK, CallersTypeOK, PullRequestSteps
<1>4. \A d \in Callers : pc[d] \in PullRequestSteps => arg[d] \in PullRequests
  BY DEF TypeOK, ArgTypeOK
<1> QED
  BY <1>1, <1>2, <1>3, <1>4 DEF GateInv, PullRequestSteps

LEMMA GatePullRequest ==
  ASSUME TypeOK, GateInv, NEW c \in Callers,
         OpenProvider(c) \/ PullRequestRow(c) \/ ApproveMark(c)
  PROVE  GateInv'
<1>1. CASE OpenProvider(c)
  <2>1. db' = db
    BY <1>1 DEF OpenProvider
  <2>2. \A d \in Callers \ {c} : pc'[d] = pc[d] /\ arg'[d] = arg[d]
    BY <1>1 DEF OpenProvider, Answer, Goto, Return, TypeOK, CallersTypeOK
  <2>3. CASE UNCHANGED <<gh, arg>> /\ Return(c, "error")
    <3>1. pc'[c] = "idle"
      BY <2>3 DEF Return, TypeOK, CallersTypeOK
    <3> QED
      BY <2>1, <2>2, <2>3, <3>1, GateKept DEF PullRequestSteps
  <2>4. ASSUME NEW q \in PullRequests, gh' = [gh EXCEPT !.pr[q] = "open", !.head[q] = arg[c]],
               arg' = [arg EXCEPT ![c] = q], Answer(c, "pr.row")
        PROVE  GateInv'
    <3>1. gh'.pr = [gh.pr EXCEPT ![q] = "open"]
      BY <2>4 DEF TypeOK, ProviderTypeOK
    <3>2. gh.pr \in [PullRequests -> {"none", "open", "closed", "merged"}]
      BY DEF TypeOK, ProviderTypeOK
    <3>3. arg'[c] = q /\ pc'[c] \in {"pr.row", "idle"}
      BY <2>4 DEF Answer, Goto, Return, TypeOK, CallersTypeOK
    <3>4. \A d \in Callers : pc[d] \in PullRequestSteps => arg[d] \in PullRequests
      BY DEF TypeOK, ArgTypeOK
    <3> QED
      BY <2>1, <2>2, <3>1, <3>2, <3>3, <3>4 DEF GateInv, PullRequestSteps
  <2> QED
    BY <1>1, <2>3, <2>4 DEF OpenProvider
<1>2. CASE PullRequestRow(c) \/ ApproveMark(c)
  <2>1. gh' = gh /\ arg' = arg
    BY <1>2 DEF PullRequestRow, ApproveMark
  <2>2. arg[c] \in PullRequests /\ gh.pr[arg[c]] # "none"
    BY <1>2 DEF PullRequestRow, ApproveMark, TypeOK, ArgTypeOK, GateInv, PullRequestSteps
  <2>3. /\ db.approvedAt \subseteq db'.approvedAt
        /\ \A p \in PullRequests : \/ db'.pr[p] = db.pr[p]
                                   \/ p = arg[c] /\ db'.pr[p] = "open"
                                   \/ p = arg[c] /\ p \in db'.approvedAt
    <3>1. CASE PullRequestRow(c)
      <4>1. db'.pr = [db.pr EXCEPT ![arg[c]] = "open"] /\ db'.approvedAt = db.approvedAt
        BY <3>1 DEF PullRequestRow, TypeOK, RowsTypeOK
      <4> QED
        BY <4>1 DEF TypeOK, RowsTypeOK
    <3>2. CASE ApproveMark(c)
      <4>1. /\ db'.pr = [db.pr EXCEPT ![arg[c]] = "approved"]
            /\ db'.approvedAt = db.approvedAt \union {arg[c]}
        BY <3>2 DEF ApproveMark, TypeOK, RowsTypeOK
      <4> QED
        BY <4>1 DEF TypeOK, RowsTypeOK
    <3> QED
      BY <1>2, <3>1, <3>2
  <2>4. /\ \A d \in Callers \ {c} : pc'[d] = pc[d]
        /\ pc'[c] = "audit"
    BY <1>2 DEF PullRequestRow, ApproveMark, Goto, TypeOK, CallersTypeOK
  <2> QED
    BY <2>1, <2>2, <2>3, <2>4 DEF GateInv, PullRequestSteps
<1> QED
  BY <1>1, <1>2

LEMMA GateMerge ==
  ASSUME TypeOK, GateInv, NEW c \in Callers,
         MergeProvider(c) \/ MergeConflict(c) \/ MergeMark(c) \/ MergeRetire(c)
  PROVE  GateInv'
<1>1. CASE MergeProvider(c)
  <2>1. db' = db /\ arg' = arg
    BY <1>1 DEF MergeProvider
  <2>2. \A p \in PullRequests : gh'.pr[p] = gh.pr[p] \/ (p = arg[c] /\ gh'.pr[p] = "merged")
    BY <1>1 DEF MergeProvider, TypeOK, ProviderTypeOK
  <2>3. arg[c] \in PullRequests /\ gh.pr[arg[c]] # "none" /\ arg[c] \in db.approvedAt
    BY <1>1 DEF MergeProvider, TypeOK, ArgTypeOK, GateInv, PullRequestSteps
  <2>4. /\ \A d \in Callers \ {c} : pc'[d] = pc[d]
        /\ pc'[c] \in {"merge.mark", "merge.conflict", "idle"}
    BY <1>1 DEF MergeProvider, Answer, Goto, Return, TypeOK, CallersTypeOK
  <2>5. \A d \in Callers : pc[d] \in PullRequestSteps => arg[d] \in PullRequests
    BY DEF TypeOK, ArgTypeOK
  <2> QED
    BY <2>1, <2>2, <2>3, <2>4, <2>5 DEF GateInv, PullRequestSteps
<1>2. CASE MergeConflict(c) \/ MergeMark(c) \/ MergeRetire(c)
  <2>1. gh' = gh /\ arg' = arg /\ db'.approvedAt = db.approvedAt
    BY <1>2 DEF MergeConflict, MergeMark, MergeRetire, TypeOK, RowsTypeOK
  <2>2. arg[c] \in PullRequests /\ gh.pr[arg[c]] # "none"
    BY <1>2 DEF MergeConflict, MergeMark, MergeRetire, TypeOK, ArgTypeOK, GateInv,
                PullRequestSteps
  <2>3. \A p \in PullRequests : \/ db'.pr[p] = db.pr[p]
                                \/ p = arg[c] /\ db'.pr[p] \in {"conflicted", "merged"}
    <3>1. \/ db'.pr = [db.pr EXCEPT ![arg[c]] = "conflicted"]
          \/ db'.pr = [db.pr EXCEPT ![arg[c]] = "merged"]
          \/ db'.pr = db.pr
      BY <1>2 DEF MergeConflict, MergeMark, MergeRetire, TypeOK, RowsTypeOK
    <3> QED
      BY <3>1 DEF TypeOK, RowsTypeOK
  <2>4. /\ \A d \in Callers \ {c} : pc'[d] = pc[d]
        /\ pc'[c] \in {"merge.retire", "audit"}
    BY <1>2 DEF MergeConflict, MergeMark, MergeRetire, Goto, TypeOK, CallersTypeOK
  <2> QED
    BY <2>1, <2>2, <2>3, <2>4 DEF GateInv, PullRequestSteps
<1> QED
  BY <1>1, <1>2

LEMMA GateAudit ==
  ASSUME TypeOK, GateInv, NEW c \in Callers,
         RecordEvent(c) \/ PublishEvent(c) \/ StepFails(c)
  PROVE  GateInv'
<1>1. gh' = gh /\ db' = db /\ arg' = arg
  BY DEF RecordEvent, PublishEvent, StepFails
<1>2. \A d \in Callers : pc'[d] = pc[d] \/ pc'[d] \notin PullRequestSteps
  BY DEF RecordEvent, PublishEvent, StepFails, Goto, Return, TypeOK, CallersTypeOK,
         PullRequestSteps
<1> QED
  BY <1>1, <1>2, GateKept

LEMMA GateStep == ASSUME TypeOK, GateInv, [Next]_vars PROVE GateInv'
<1>1. ASSUME NEW c \in Callers, CallStep(c) PROVE GateInv'
  BY <1>1, GateOther, GateDelete, GatePullRequest, GateMerge, GateAudit
     DEF CallStep, OtherStep
<1>2. CASE Restart
  BY <1>2, GateKept DEF Restart, PullRequestSteps
<1>3. CASE UNCHANGED vars
  BY <1>3, GateKept DEF vars
<1> QED
  BY <1>1, <1>2, <1>3, GateBegin DEF Next, Request

\* The invariant behind the merge gate: a row that says approved was approved,
\* what the provider merged was approved before, and a merge call that has passed
\* the guard is about an approved request (pull_request_manager.py, merge).
THEOREM GateInvariant == Spec => [](TypeOK /\ GateInv)
<1>1. Init => TypeOK /\ GateInv
  BY InitTyped, GateInit
<1>2. TypeOK /\ GateInv /\ [Next]_vars => (TypeOK /\ GateInv)'
  BY NextTyped, GateStep
<1> QED
  BY <1>1, <1>2, PTL DEF Spec

\* The approval gate: whatever duplicate, retried and concurrent calls arrive, no
\* pull request is merged at the provider that nobody approved.
THEOREM ApprovalIsNeeded == Spec => []ApprovalGate
<1>1. GateInv => ApprovalGate
  BY DEF GateInv, ApprovalGate
<1> QED
  BY <1>1, GateInvariant, PTL

-----------------------------------------------------------------------------
(***************************************************************************)
(* The service implements PullRequestGate.                                 *)
(***************************************************************************)
Opened == {p \in PullRequests : gh.pr[p] # "none"}
Merged == {p \in PullRequests : gh.pr[p] = "merged"}

LEMMA GateStutter ==
  ASSUME Opened' = Opened, db'.approvedAt = db.approvedAt, Merged' = Merged
  PROVE  [Gate!Next]_(Gate!vars)
  BY DEF Gate!vars, Opened, Merged

LEMMA RefineOpen ==
  ASSUME TypeOK, NEW c \in Callers, OpenProvider(c)
  PROVE  [Gate!Next]_(Gate!vars)
<1>1. CASE UNCHANGED gh
  BY <1>1, GateStutter DEF OpenProvider, Opened, Merged
<1>2. ASSUME NEW q \in PullRequests, gh.pr[q] = "none",
             gh' = [gh EXCEPT !.pr[q] = "open", !.head[q] = arg[c]], db' = db
      PROVE  Gate!Open(q)
  <2>1. gh'.pr = [gh.pr EXCEPT ![q] = "open"]
    BY <1>2 DEF TypeOK, ProviderTypeOK
  <2>2. gh.pr \in [PullRequests -> {"none", "open", "closed", "merged"}]
    BY DEF TypeOK, ProviderTypeOK
  <2>3. q \notin Opened /\ Opened' = Opened \union {q} /\ Merged' = Merged
    BY <1>2, <2>1, <2>2 DEF Opened, Merged
  <2> QED
    BY <1>2, <2>3 DEF Gate!Open, Opened, Merged
<1> QED
  BY <1>1, <1>2 DEF OpenProvider, Openable, Gate!Next

LEMMA RefineApprove ==
  ASSUME TypeOK, GateInv, NEW c \in Callers, ApproveMark(c)
  PROVE  [Gate!Next]_(Gate!vars)
<1>1. gh' = gh
  BY DEF ApproveMark
<1>2. arg[c] \in Opened /\ arg[c] \in PullRequests
  BY DEF ApproveMark, TypeOK, ArgTypeOK, GateInv, PullRequestSteps, Opened
<1>3. db'.approvedAt = db.approvedAt \union {arg[c]}
  BY DEF ApproveMark, TypeOK, RowsTypeOK
<1>4. CASE arg[c] \in db.approvedAt
  BY <1>1, <1>3, <1>4, GateStutter DEF Opened, Merged
<1>5. CASE arg[c] \notin db.approvedAt
  <2>1. Gate!Approve(arg[c])
    BY <1>1, <1>2, <1>3, <1>5 DEF Gate!Approve, Opened, Merged
  <2> QED
    BY <1>2, <2>1 DEF Gate!Next
<1> QED
  BY <1>4, <1>5

LEMMA RefineMerge ==
  ASSUME TypeOK, GateInv, NEW c \in Callers, MergeProvider(c)
  PROVE  [Gate!Next]_(Gate!vars)
<1>1. db' = db /\ arg[c] \in PullRequests /\ arg[c] \in db.approvedAt
  BY DEF MergeProvider, TypeOK, ArgTypeOK, GateInv, PullRequestSteps
<1>2. CASE gh' = gh
  BY <1>1, <1>2, GateStutter DEF Opened, Merged
<1>3. ASSUME NEW p \in PullRequests, p \in db.approvedAt, gh.pr[p] = "open",
             gh' = [gh EXCEPT !.pr[p] = "merged"]
      PROVE  Gate!Merge(p)
  <2>1. gh'.pr = [gh.pr EXCEPT ![p] = "merged"]
    BY <1>3 DEF TypeOK, ProviderTypeOK
  <2>2. gh.pr \in [PullRequests -> {"none", "open", "closed", "merged"}]
    BY DEF TypeOK, ProviderTypeOK
  <2>3. p \notin Merged /\ Opened' = Opened /\ Merged' = Merged \union {p}
    BY <1>3, <2>1, <2>2 DEF Opened, Merged
  <2> QED
    BY <1>1, <1>3, <2>3 DEF Gate!Merge, Opened, Merged
<1>4. CASE gh.pr[arg[c]] = "open" /\ gh' = [gh EXCEPT !.pr[arg[c]] = "merged"]
  BY <1>1, <1>3, <1>4 DEF Gate!Next
<1> QED
  BY <1>2, <1>4 DEF MergeProvider

LEMMA RefineQuiet ==
  ASSUME TypeOK, NEW c \in Callers,
         \/ OtherStep(c) \/ DeleteProvider(c) \/ PullRequestRow(c) \/ MergeConflict(c)
         \/ MergeMark(c) \/ MergeRetire(c) \/ RecordEvent(c) \/ PublishEvent(c)
         \/ StepFails(c)
  PROVE  [Gate!Next]_(Gate!vars)
<1>1. CASE OtherStep(c)
  BY <1>1, OtherStepPullRequests, GateStutter DEF Opened, Merged
<1>2. CASE DeleteProvider(c)
  <2>1. /\ db' = db
        /\ \A p \in PullRequests : /\ gh'.pr[p] = "merged" <=> gh.pr[p] = "merged"
                                   /\ gh'.pr[p] = "none" <=> gh.pr[p] = "none"
    BY <1>2 DEF DeleteProvider, TypeOK, ProviderTypeOK
  <2> QED
    BY <2>1, GateStutter DEF Opened, Merged
<1>3. CASE RecordEvent(c) \/ PublishEvent(c) \/ StepFails(c)
  BY <1>3, GateStutter DEF RecordEvent, PublishEvent, StepFails, Opened, Merged
<1>4. CASE PullRequestRow(c) \/ MergeConflict(c) \/ MergeMark(c) \/ MergeRetire(c)
  <2>1. gh' = gh /\ db'.approvedAt = db.approvedAt
    BY <1>4 DEF PullRequestRow, MergeConflict, MergeMark, MergeRetire, TypeOK, RowsTypeOK
  <2> QED
    BY <2>1, GateStutter DEF Opened, Merged
<1> QED
  BY <1>1, <1>2, <1>3, <1>4

LEMMA RefineBegin ==
  ASSUME NEW c \in Callers, NEW op, BeginOp(c, op) PROVE [Gate!Next]_(Gate!vars)
<1>1. gh' = gh /\ db' = db
  BY DEF BeginOp, BeginCreateRepository, BeginCreateBranch, BeginDeleteBranch, BeginCommit,
         BeginCreatePullRequest, BeginApprove, BeginMerge, BeginCreateRelease,
         BeginRollback, Dispatch
<1> QED
  BY <1>1, GateStutter DEF Opened, Merged

LEMMA RefineStep ==
  ASSUME TypeOK, GateInv, [Next]_vars PROVE [Gate!Next]_(Gate!vars)
<1>1. ASSUME NEW c \in Callers, CallStep(c) PROVE [Gate!Next]_(Gate!vars)
  BY <1>1, RefineOpen, RefineApprove, RefineMerge, RefineQuiet DEF CallStep, OtherStep
<1>2. CASE Restart \/ UNCHANGED vars
  BY <1>2, GateStutter DEF Restart, vars, Opened, Merged
<1> QED
  BY <1>1, <1>2, RefineBegin DEF Next, Request

\* Every behaviour of the service is one of PullRequestGate: pull requests are opened,
\* then approved, then merged once, whatever its methods do in between.
THEOREM ImplementsGate == Spec => GateSpec
<1>1. Init => Gate!Init
  BY DEF Init, Gate!Init
<1>2. TypeOK /\ GateInv /\ [Next]_vars => [Gate!Next]_(Gate!vars)
  BY RefineStep
<1> QED
  BY <1>1, <1>2, GateInvariant, PTL DEF Spec, GateSpec, Gate!Spec

-----------------------------------------------------------------------------
(***************************************************************************)
(* What one step of a caller leaves alone.                                 *)
(***************************************************************************)

\* The awaits at which a method can start.
Entries == {"repo.provider", "branch.provider", "delete.provider", "commit.ref",
            "pr.provider", "approve.mark", "merge.provider", "release.lookup",
            "rollback.lookup"}

LEMMA BeginDispatches ==
  ASSUME NEW c, NEW op, BeginOp(c, op)
  PROVE  \E x, early : \E l \in Entries : Dispatch(c, x, early, l)
  BY DEF BeginOp, BeginCreateRepository, BeginCreateBranch, BeginDeleteBranch, BeginCommit,
         BeginCreatePullRequest, BeginApprove, BeginMerge, BeginCreateRelease,
         BeginRollback, Entries

\* Starting a method changes nothing but the caller's own await and argument.
LEMMA BeginQuiet ==
  ASSUME TypeOK, NEW c \in Callers, NEW op, BeginOp(c, op)
  PROVE  /\ UNCHANGED <<gh, db, recorded, sent, event>>
         /\ pc[c] = "idle" /\ pc'[c] \in Entries \union {"idle"}
         /\ \A d \in Callers \ {c} : pc'[d] = pc[d] /\ arg'[d] = arg[d]
<1>1. PICK x, early : \E l \in Entries : Dispatch(c, x, early, l)
  BY BeginDispatches
<1> QED
  BY <1>1 DEF Dispatch, TypeOK, CallersTypeOK

LEMMA OthersWait ==
  ASSUME TypeOK, NEW c \in Callers, CallStep(c)
  PROVE  \A d \in Callers \ {c} : pc'[d] = pc[d] /\ arg'[d] = arg[d] /\ event'[d] = event[d]
<1> USE DEF Answer, Goto, Return, Announce, TypeOK, CallersTypeOK
<1>1. CASE RepoProvider(c) \/ RepoDevelop(c) \/ RepoSeed(c) \/ RepoRow(c)
  BY <1>1 DEF RepoProvider, RepoDevelop, RepoSeed, RepoRow
<1>2. CASE BranchProvider(c) \/ BranchRow(c) \/ DeleteProvider(c) \/ DeleteRow(c)
  BY <1>2 DEF BranchProvider, BranchRow, DeleteProvider, DeleteRow
<1>3. CASE CommitRef(c) \/ CommitPatch(c) \/ CommitRow(c)
  BY <1>3 DEF CommitRef, CommitPatch, CommitRow
<1>4. CASE OpenProvider(c) \/ PullRequestRow(c) \/ ApproveMark(c)
  BY <1>4 DEF OpenProvider, PullRequestRow, ApproveMark
<1>5. CASE MergeProvider(c) \/ MergeConflict(c) \/ MergeMark(c) \/ MergeRetire(c)
  BY <1>5 DEF MergeProvider, MergeConflict, MergeMark, MergeRetire
<1>6. CASE ReleaseLookup(c) \/ ReleasePost(c) \/ RollbackLookup(c) \/ RollbackDelete(c)
  BY <1>6 DEF ReleaseLookup, ReleasePost, RollbackLookup, RollbackDelete
<1>7. CASE RecordEvent(c) \/ PublishEvent(c) \/ StepFails(c)
  BY <1>7 DEF RecordEvent, PublishEvent, StepFails
<1> QED
  BY <1>1, <1>2, <1>3, <1>4, <1>5, <1>6, <1>7 DEF CallStep

-----------------------------------------------------------------------------
(***************************************************************************)
(* Provisioning.                                                           *)
(***************************************************************************)
Created == <<"repository.created", Project>>

\* The awaits between the provider's repository and its row.
Halfway == {"repo.develop", "repo.seed", "repo.row"}

\* c made the provider's repository and has yet to write, or to audit, its row.
Provisions(c) == pc[c] \in Halfway \/ (pc[c] = "audit" /\ event[c] = Created)

\* The provider makes the repository once, so one caller at most provisions it: the
\* branch and the scaffold are made in order before the row, and the row before the
\* audit.
OnceInv ==
  /\ \A c, d \in Callers : Provisions(c) /\ Provisions(d) => c = d
  /\ ~gh.repo => /\ ~db.repo /\ gh.commits[Develop] = 0
                 /\ \A c \in Callers : ~Provisions(c)
  /\ recorded[Created] \in {0, 1}
  /\ recorded[Created] = 1 => db.repo
  /\ db.repo => gh.branch[Develop] /\ gh.commits[Develop] = 1
  /\ \A c \in Callers :
       /\ pc[c] \in {"repo.develop", "repo.seed"} => gh.commits[Develop] = 0
       /\ pc[c] \in {"repo.seed", "repo.row"} => gh.branch[Develop]
       /\ pc[c] = "repo.row" => gh.commits[Develop] = 1
       /\ pc[c] \in Halfway => ~db.repo
       /\ Provisions(c) => recorded[Created] = 0
       /\ pc[c] = "audit" /\ event[c] = Created => db.repo
       /\ pc[c] = "rollback.delete" => event[c] # Created

\* No step deletes develop: the adapter refuses a protected name.
LEMMA DevelopNotDeleted ==
  ASSUME TypeOK, NEW c \in Callers, CallStep(c), gh.branch[Develop]
  PROVE  gh'.branch[Develop]
<1> USE DEF TypeOK, ProviderTypeOK
<1>1. CASE DeleteProvider(c)
  <2>1. arg[c] # Develop
    BY <1>1, RepositoryConstants DEF DeleteProvider, ArgTypeOK, BranchSteps
  <2>2. gh'.branch = [gh.branch EXCEPT ![arg[c]] = FALSE]
    BY <1>1 DEF DeleteProvider
  <2> QED
    BY <2>1, <2>2 DEF Branches
<1>2. CASE RepoProvider(c) \/ RepoDevelop(c) \/ RepoSeed(c) \/ RepoRow(c)
  BY <1>2 DEF RepoProvider, RepoDevelop, RepoSeed, RepoRow, Branches
<1>3. CASE BranchProvider(c)
  <2>1. gh'.branch \in {gh.branch, [gh.branch EXCEPT ![arg[c]] = TRUE]}
    BY <1>3 DEF BranchProvider
  <2> QED
    BY <2>1 DEF Branches
<1>4. CASE \/ BranchRow(c) \/ DeleteRow(c) \/ CommitRef(c) \/ CommitRow(c)
           \/ PullRequestRow(c) \/ ApproveMark(c) \/ MergeConflict(c) \/ MergeMark(c)
           \/ MergeRetire(c) \/ ReleaseLookup(c) \/ RollbackLookup(c) \/ RecordEvent(c)
           \/ PublishEvent(c) \/ StepFails(c)
  BY <1>4
     DEF BranchRow, DeleteRow, CommitRef, CommitRow, PullRequestRow, ApproveMark,
         MergeConflict, MergeMark, MergeRetire, ReleaseLookup, RollbackLookup,
         RecordEvent, PublishEvent, StepFails
<1>5. CASE CommitPatch(c) \/ OpenProvider(c) \/ MergeProvider(c) \/ ReleasePost(c)
           \/ RollbackDelete(c)
  BY <1>5 DEF CommitPatch, OpenProvider, MergeProvider, ReleasePost, RollbackDelete
<1> QED
  BY <1>1, <1>2, <1>3, <1>4, <1>5 DEF CallStep

\* The calls that are not create_repository's put no commit on develop, write no
\* repository row, and announce something else.
LEMMA ScaffoldKept ==
  ASSUME TypeOK, NEW c \in Callers, CallStep(c),
         ~(RepoProvider(c) \/ RepoDevelop(c) \/ RepoSeed(c) \/ RepoRow(c))
  PROVE  gh'.repo = gh.repo /\ gh'.commits[Develop] = gh.commits[Develop]
<1> USE DEF TypeOK, ProviderTypeOK
<1>1. CASE DeleteProvider(c)
  BY <1>1, RepositoryConstants DEF DeleteProvider, ArgTypeOK, BranchSteps, Branches
<1>2. CASE CommitPatch(c)
  <2>1. arg[c] # Develop
    BY <1>2, RepositoryConstants DEF CommitPatch, ArgTypeOK, BranchSteps
  <2>2. gh' \in {gh, [gh EXCEPT !.commits[arg[c]] = @ + 1]}
    BY <1>2 DEF CommitPatch
  <2> QED
    BY <2>1, <2>2 DEF Branches
<1>3. CASE BranchProvider(c)
  <2>1. gh' \in {gh, [gh EXCEPT !.branch[arg[c]] = TRUE]}
    BY <1>3 DEF BranchProvider
  <2> QED
    BY <2>1
<1>4. CASE \/ BranchRow(c) \/ DeleteRow(c) \/ CommitRef(c) \/ CommitRow(c)
           \/ PullRequestRow(c) \/ ApproveMark(c) \/ MergeConflict(c) \/ MergeMark(c)
           \/ MergeRetire(c) \/ ReleaseLookup(c) \/ RollbackLookup(c) \/ RecordEvent(c)
           \/ PublishEvent(c) \/ StepFails(c)
  BY <1>4
     DEF BranchRow, DeleteRow, CommitRef, CommitRow, PullRequestRow, ApproveMark,
         MergeConflict, MergeMark, MergeRetire, ReleaseLookup, RollbackLookup,
         RecordEvent, PublishEvent, StepFails
<1>5. CASE OpenProvider(c) \/ MergeProvider(c) \/ ReleasePost(c) \/ RollbackDelete(c)
  BY <1>5 DEF OpenProvider, MergeProvider, ReleasePost, RollbackDelete
<1> QED
  BY <1>1, <1>2, <1>3, <1>4, <1>5 DEF CallStep

LEMMA OtherNews ==
  ASSUME CallersTypeOK, NEW c \in Callers, NEW k, NEW x, Announce(c, k, x),
         k # "repository.created"
  PROVE  event'[c] # Created
  BY DEF Announce, CallersTypeOK, Created

LEMMA OnlyCreateProvisions ==
  ASSUME TypeOK, NEW c \in Callers, CallStep(c),
         ~(RepoProvider(c) \/ RepoDevelop(c) \/ RepoSeed(c) \/ RepoRow(c)),
         pc[c] = "rollback.delete" => event[c] # Created
  PROVE  /\ db'.repo = db.repo /\ ~Provisions(c)'
         /\ pc'[c] = "rollback.delete" => event'[c] # Created
<1> USE DEF Answer, Goto, Return, Announce, TypeOK, RowsTypeOK, CallersTypeOK, Provisions,
            Halfway, Created
<1>1. CASE BranchProvider(c) \/ BranchRow(c) \/ DeleteProvider(c) \/ DeleteRow(c)
  <2>1. CASE BranchProvider(c)
    BY <1>1, <2>1 DEF BranchProvider
  <2>2. CASE BranchRow(c)
    <3>1. db'.repo = db.repo
      BY <2>2 DEF BranchRow
    <3>2. pc'[c] = "idle" \/ (pc'[c] = "audit" /\ event'[c] = <<"repository.branch.created", arg[c]>>)
      BY <2>2 DEF BranchRow
    <3> QED
      BY <3>1, <3>2
  <2>3. CASE DeleteProvider(c)
    BY <2>3 DEF DeleteProvider
  <2>4. CASE DeleteRow(c)
    BY <2>4 DEF DeleteRow
  <2> QED
    BY <1>1, <2>1, <2>2, <2>3, <2>4
<1>2. CASE CommitRef(c) \/ CommitPatch(c) \/ CommitRow(c)
  <2>1. CASE CommitRef(c)
    BY <2>1 DEF CommitRef
  <2>2. CASE CommitPatch(c)
    BY <2>2 DEF CommitPatch
  <2>3. CASE CommitRow(c)
    <3>1. db'.repo = db.repo
      BY <2>3 DEF CommitRow
    <3>2. pc'[c] = "audit" /\ event'[c] = <<"repository.commit.created", arg[c]>>
      BY <2>3 DEF CommitRow
    <3> QED
      BY <3>1, <3>2
  <2> QED
    BY <1>2, <2>1, <2>2, <2>3
<1>3. CASE OpenProvider(c) \/ PullRequestRow(c) \/ ApproveMark(c)
  <2>1. CASE OpenProvider(c)
    BY <2>1 DEF OpenProvider
  <2>2. CASE PullRequestRow(c) \/ ApproveMark(c)
    <3>1. db'.repo = db.repo /\ pc'[c] = "audit"
      BY <2>2 DEF PullRequestRow, ApproveMark
    <3>2. event'[c] # Created
      BY <2>2, OtherNews DEF PullRequestRow, ApproveMark
    <3> QED
      BY <3>1, <3>2
  <2> QED
    BY <1>3, <2>1, <2>2
<1>4. CASE MergeProvider(c) \/ MergeConflict(c) \/ MergeMark(c) \/ MergeRetire(c)
  <2>1. CASE MergeProvider(c) \/ MergeMark(c)
    BY <2>1 DEF MergeProvider, MergeMark
  <2>2. CASE MergeConflict(c) \/ MergeRetire(c)
    <3>1. db'.repo = db.repo /\ pc'[c] = "audit"
      BY <2>2 DEF MergeConflict, MergeRetire
    <3>2. event'[c] # Created
      BY <2>2, OtherNews DEF MergeConflict, MergeRetire
    <3> QED
      BY <3>1, <3>2
  <2> QED
    BY <1>4, <2>1, <2>2
<1>5. CASE ReleaseLookup(c) \/ ReleasePost(c)
  BY <1>5 DEF ReleaseLookup, ReleasePost
<1>6. CASE RollbackLookup(c)
  BY <1>6 DEF RollbackLookup
<1>7. CASE RollbackDelete(c)
  BY <1>7 DEF RollbackDelete
<1>8. CASE RecordEvent(c) \/ PublishEvent(c) \/ StepFails(c)
  BY <1>8 DEF RecordEvent, PublishEvent, StepFails
<1> QED
  BY <1>1, <1>2, <1>3, <1>4, <1>5, <1>6, <1>7, <1>8 DEF CallStep

LEMMA AuditRecords ==
  ASSUME TypeOK, NEW c \in Callers, CallStep(c), ~RecordEvent(c) PROVE recorded' = recorded
  BY DEF CallStep, RepoProvider, RepoDevelop, RepoSeed, RepoRow, BranchProvider, BranchRow,
         DeleteProvider, DeleteRow, CommitRef, CommitPatch, CommitRow, OpenProvider,
         PullRequestRow, ApproveMark, MergeProvider, MergeConflict, MergeMark, MergeRetire,
         ReleaseLookup, ReleasePost, RollbackLookup, RollbackDelete, PublishEvent, StepFails

\* A caller of create_repository takes its next step: the other callers provision
\* nothing, so what it changes is its own.
LEMMA OnceCreates ==
  ASSUME TypeOK, OnceInv, NEW c \in Callers,
         RepoProvider(c) \/ RepoDevelop(c) \/ RepoSeed(c) \/ RepoRow(c)
  PROVE  OnceInv'
<1>1. \A d \in Callers \ {c} : pc'[d] = pc[d] /\ event'[d] = event[d]
  BY OthersWait DEF CallStep
<1>2. \A d \in Callers \ {c} : Provisions(d)' = Provisions(d)
  BY <1>1 DEF Provisions
<1>3. recorded' = recorded
  BY DEF RepoProvider, RepoDevelop, RepoSeed, RepoRow
<1> USE DEF Answer, Goto, Return, Announce, TypeOK, ProviderTypeOK, RowsTypeOK, CallersTypeOK,
            Halfway
<1>4. CASE RepoProvider(c)
  <2>1. CASE gh.repo
    <3>1. gh' = gh /\ db' = db /\ pc'[c] = "idle"
      BY <1>4, <2>1 DEF RepoProvider
    <3> QED
      BY <1>1, <1>2, <1>3, <3>1 DEF OnceInv, Provisions
  <2>2. CASE ~gh.repo
    <3>1. /\ gh' = [gh EXCEPT !.repo = TRUE] /\ db' = db /\ pc'[c] \in {"repo.develop", "idle"}
      BY <1>4, <2>2 DEF RepoProvider
    <3>2. /\ ~db.repo /\ gh.commits[Develop] = 0 /\ recorded[Created] = 0
          /\ \A d \in Callers : ~Provisions(d)
      BY <2>2 DEF OnceInv
    <3> QED
      BY <1>1, <1>2, <1>3, <3>1, <3>2 DEF OnceInv, Provisions
  <2> QED
    BY <2>1, <2>2
<1>5. CASE RepoDevelop(c)
  <2>1. /\ pc[c] = "repo.develop" /\ db' = db
        /\ gh' = [gh EXCEPT !.branch[Develop] = TRUE] /\ pc'[c] \in {"repo.seed", "idle"}
    BY <1>5 DEF RepoDevelop
  <2>2. gh'.repo = gh.repo /\ gh'.commits = gh.commits /\ gh'.branch[Develop]
    BY <2>1 DEF Branches
  <2> QED
    BY <1>1, <1>2, <1>3, <2>1, <2>2 DEF OnceInv, Provisions
<1>6. CASE RepoSeed(c)
  <2>1. /\ pc[c] = "repo.seed" /\ db' = db
        /\ gh' = [gh EXCEPT !.commits[Develop] = @ + 1] /\ pc'[c] \in {"repo.row", "idle"}
    BY <1>6 DEF RepoSeed
  <2>2. /\ gh'.repo = gh.repo /\ gh'.branch = gh.branch
        /\ gh'.commits[Develop] = gh.commits[Develop] + 1
    BY <2>1 DEF Branches
  <2>3. Provisions(c) /\ gh.repo /\ ~db.repo /\ gh.commits[Develop] = 0
    BY <2>1 DEF OnceInv, Provisions
  <2>4. \A d \in Callers \ {c} : ~Provisions(d)'
    BY <1>2, <2>3 DEF OnceInv
  <2> QED
    BY <1>1, <1>2, <1>3, <2>1, <2>2, <2>3, <2>4 DEF OnceInv, Provisions
<1>7. CASE RepoRow(c)
  <2>1. /\ pc[c] = "repo.row" /\ gh' = gh /\ db' = [db EXCEPT !.repo = TRUE]
        /\ pc'[c] = "audit" /\ event'[c] = Created
    BY <1>7 DEF RepoRow, Created
  <2>2. Provisions(c) /\ gh.repo /\ gh.branch[Develop] /\ gh.commits[Develop] = 1
    BY <2>1 DEF OnceInv, Provisions
  <2>3. \A d \in Callers \ {c} : ~Provisions(d)'
    BY <1>2, <2>2 DEF OnceInv
  <2>4. db'.repo
    BY <2>1
  <2> QED
    BY <1>1, <1>2, <1>3, <2>1, <2>2, <2>3, <2>4 DEF OnceInv, Provisions
<1> QED
  BY <1>4, <1>5, <1>6, <1>7

\* Any other step but an audit, with nothing provisioned by it, keeps the invariant.
LEMMA OnceQuiet ==
  ASSUME OnceInv, NEW c \in Callers,
         \A d \in Callers \ {c} : pc'[d] = pc[d] /\ event'[d] = event[d],
         gh'.repo = gh.repo, gh'.commits[Develop] = gh.commits[Develop],
         gh.branch[Develop] => gh'.branch[Develop],
         db'.repo = db.repo, recorded'[Created] = recorded[Created],
         ~Provisions(c)', pc'[c] = "rollback.delete" => event'[c] # Created
  PROVE  OnceInv'
<1>1. \A d \in Callers \ {c} : Provisions(d)' = Provisions(d)
  BY DEF Provisions
<1> QED
  BY <1>1 DEF OnceInv, Provisions, Halfway

\* The audit: of the repository by the caller that provisioned it, or of something else.
LEMMA OnceRecords ==
  ASSUME TypeOK, OnceInv, NEW c \in Callers, RecordEvent(c) PROVE OnceInv'
<1>1. /\ gh' = gh /\ db' = db /\ event' = event /\ pc[c] = "audit" /\ pc'[c] = "publish"
      /\ \A d \in Callers \ {c} : pc'[d] = pc[d] /\ event'[d] = event[d]
  BY DEF RecordEvent, Goto, TypeOK, CallersTypeOK
<1>2. recorded' = [recorded EXCEPT ![event[c]] = @ + 1]
  BY DEF RecordEvent
<1>3. Created \in Events
  BY DEF Events, Created
<1>4. ~Provisions(c)'
  BY <1>1 DEF Provisions, Halfway
<1>5. CASE event[c] # Created
  <2>1. recorded'[Created] = recorded[Created]
    BY <1>2, <1>3, <1>5 DEF TypeOK, RowsTypeOK
  <2> QED
    BY <1>1, <1>4, <2>1, OnceQuiet
<1>6. CASE event[c] = Created
  <2>1. Provisions(c) /\ db.repo /\ recorded[Created] = 0
    BY <1>1, <1>6 DEF OnceInv, Provisions
  <2>2. recorded'[Created] = 1
    BY <1>2, <1>3, <1>6, <2>1 DEF TypeOK, RowsTypeOK
  <2>3. \A d \in Callers : ~Provisions(d)'
    BY <1>1, <1>4, <2>1 DEF OnceInv, Provisions
  <2> QED
    BY <1>1, <2>1, <2>2, <2>3 DEF OnceInv, Provisions, Halfway
<1> QED
  BY <1>5, <1>6

LEMMA OnceStep == ASSUME TypeOK, OnceInv, [Next]_vars PROVE OnceInv'
<1>1. ASSUME NEW c \in Callers, Request(c, Ops) PROVE OnceInv'
  <2>1. /\ UNCHANGED <<gh, db, recorded, event>>
        /\ \A d \in Callers \ {c} : pc'[d] = pc[d]
        /\ pc'[c] \in Entries \union {"idle"}
    BY <1>1, BeginQuiet DEF Request
  <2>2. ~Provisions(c)' /\ pc'[c] # "rollback.delete"
    BY <2>1 DEF Entries, Provisions, Halfway
  <2> QED
    BY <2>1, <2>2, OnceQuiet
<1>2. ASSUME NEW c \in Callers, CallStep(c),
             ~(RepoProvider(c) \/ RepoDevelop(c) \/ RepoSeed(c) \/ RepoRow(c)), ~RecordEvent(c)
      PROVE  OnceInv'
  <2>1. pc[c] = "rollback.delete" => event[c] # Created
    BY DEF OnceInv
  <2>2. /\ gh'.repo = gh.repo /\ gh'.commits[Develop] = gh.commits[Develop]
        /\ gh.branch[Develop] => gh'.branch[Develop]
    BY <1>2, ScaffoldKept, DevelopNotDeleted
  <2>3. /\ db'.repo = db.repo /\ ~Provisions(c)'
        /\ pc'[c] = "rollback.delete" => event'[c] # Created
    BY <1>2, <2>1, OnlyCreateProvisions
  <2>4. recorded' = recorded
    BY <1>2, AuditRecords
  <2> QED
    BY <1>2, <2>2, <2>3, <2>4, OthersWait, OnceQuiet
<1>3. CASE Restart
  BY <1>3 DEF Restart, OnceInv, Provisions, Halfway
<1>4. CASE UNCHANGED vars
  BY <1>4 DEF vars, OnceInv, Provisions, Halfway
<1> QED
  BY <1>1, <1>2, <1>3, <1>4, OnceCreates, OnceRecords DEF Next

\* A project's repository is complete when it has a row, was scaffolded once and is
\* audited once at most: whatever overlaps, loses an answer or dies on the way.
THEOREM RepositoriesAreProvisionedOnce == Spec => []ProvisionedOnce
<1>1. ASSUME Init PROVE TypeOK /\ OnceInv
  <2>1. Created \in Events
    BY DEF Events, Created
  <2> QED
    BY <1>1, <2>1, InitTyped DEF Init, OnceInv, Provisions, Halfway, Branches
<1>2. TypeOK /\ OnceInv /\ [Next]_vars => (TypeOK /\ OnceInv)'
  BY NextTyped, OnceStep
<1>3. OnceInv => ProvisionedOnce
  BY DEF OnceInv, ProvisionedOnce, Created
<1> QED
  BY <1>1, <1>2, <1>3, PTL DEF Spec

-----------------------------------------------------------------------------
(***************************************************************************)
(* Events and the audit log.                                               *)
(***************************************************************************)

\* The callers that recorded e and have not yet tried to publish it.
Publishing(e) == {c \in Callers : pc[c] = "publish" /\ event[c] = e}

\* Each publication, made or about to be made, has an audit row of its own.
EventInv == \A e \in Events : sent[e] + Cardinality(Publishing(e)) <= recorded[e]

LEMMA PublishingCount ==
  ASSUME NEW e PROVE IsFiniteSet(Publishing(e)) /\ Cardinality(Publishing(e)) \in Nat
<1>1. IsFiniteSet(Callers) /\ Publishing(e) \in SUBSET Callers
  BY RepositoryConstants DEF Publishing
<1>2. IsFiniteSet(Publishing(e))
  BY <1>1, FS_Subset
<1> QED
  BY <1>2, FS_CardinalityType

\* A step that records and publishes nothing and takes no caller to "publish".
LEMMA EventsKept ==
  ASSUME TypeOK, EventInv, recorded' = recorded, sent' = sent,
         \A d \in Callers : \/ pc'[d] = pc[d] /\ event'[d] = event[d]
                            \/ pc'[d] # "publish"
  PROVE  EventInv'
<1> SUFFICES ASSUME NEW e \in Events
             PROVE  sent'[e] + Cardinality(Publishing(e)') <= recorded'[e]
  BY DEF EventInv
<1>1. Publishing(e)' \in SUBSET Publishing(e)
  BY DEF Publishing
<1>2. /\ Cardinality(Publishing(e)') <= Cardinality(Publishing(e))
      /\ Cardinality(Publishing(e)') \in Nat
  BY <1>1, PublishingCount, FS_Subset, FS_CardinalityType
<1>3. sent[e] \in Nat /\ recorded[e] \in Nat
  BY DEF TypeOK, RowsTypeOK
<1> QED
  BY <1>2, <1>3, PublishingCount DEF EventInv

LEMMA OnlyAuditPublishes ==
  ASSUME TypeOK, NEW c \in Callers, CallStep(c), ~RecordEvent(c), ~PublishEvent(c)
  PROVE  recorded' = recorded /\ sent' = sent /\ pc'[c] # "publish"
<1> USE DEF Answer, Goto, Return, TypeOK, CallersTypeOK
<1>1. CASE RepoProvider(c) \/ RepoDevelop(c) \/ RepoSeed(c) \/ RepoRow(c)
  BY <1>1 DEF RepoProvider, RepoDevelop, RepoSeed, RepoRow
<1>2. CASE BranchProvider(c) \/ BranchRow(c) \/ DeleteProvider(c) \/ DeleteRow(c)
  BY <1>2 DEF BranchProvider, BranchRow, DeleteProvider, DeleteRow
<1>3. CASE CommitRef(c) \/ CommitPatch(c) \/ CommitRow(c)
  BY <1>3 DEF CommitRef, CommitPatch, CommitRow
<1>4. CASE OpenProvider(c) \/ PullRequestRow(c) \/ ApproveMark(c)
  BY <1>4 DEF OpenProvider, PullRequestRow, ApproveMark
<1>5. CASE MergeProvider(c) \/ MergeConflict(c) \/ MergeMark(c) \/ MergeRetire(c)
  BY <1>5 DEF MergeProvider, MergeConflict, MergeMark, MergeRetire
<1>6. CASE ReleaseLookup(c) \/ ReleasePost(c) \/ RollbackLookup(c) \/ RollbackDelete(c)
  BY <1>6 DEF ReleaseLookup, ReleasePost, RollbackLookup, RollbackDelete
<1>7. CASE StepFails(c)
  BY <1>7 DEF StepFails
<1> QED
  BY <1>1, <1>2, <1>3, <1>4, <1>5, <1>6, <1>7 DEF CallStep

\* The row is written: its event gains one row and one caller that may publish it.
LEMMA EventsRecord ==
  ASSUME TypeOK, EventInv, NEW c \in Callers, RecordEvent(c) PROVE EventInv'
<1> SUFFICES ASSUME NEW e \in Events
             PROVE  sent'[e] + Cardinality(Publishing(e)') <= recorded'[e]
  BY DEF EventInv
<1> USE DEF TypeOK, RowsTypeOK, CallersTypeOK
<1>1. /\ sent' = sent /\ event' = event
      /\ pc' = [pc EXCEPT ![c] = "publish"] /\ pc[c] = "audit"
      /\ recorded' = [recorded EXCEPT ![event[c]] = @ + 1]
  BY DEF RecordEvent, Goto
<1>2. sent[e] \in Nat /\ recorded[e] \in Nat
  OBVIOUS
<1>3. CASE e = event[c]
  <2>1. Publishing(e)' = Publishing(e) \union {c} /\ c \notin Publishing(e)
    BY <1>1, <1>3 DEF Publishing
  <2>2. Cardinality(Publishing(e)') = Cardinality(Publishing(e)) + 1
    BY <2>1, PublishingCount, FS_AddElement
  <2>3. recorded'[e] = recorded[e] + 1
    BY <1>1, <1>3
  <2> QED
    BY <1>1, <1>2, <2>2, <2>3, PublishingCount DEF EventInv
<1>4. CASE e # event[c]
  <2>1. Publishing(e)' = Publishing(e) /\ recorded'[e] = recorded[e]
    BY <1>1, <1>4 DEF Publishing
  <2> QED
    BY <1>1, <2>1 DEF EventInv
<1> QED
  BY <1>3, <1>4

\* The event is published, or its publication fails: either way the caller is done.
LEMMA EventsPublish ==
  ASSUME TypeOK, EventInv, NEW c \in Callers, PublishEvent(c) PROVE EventInv'
<1> SUFFICES ASSUME NEW e \in Events
             PROVE  sent'[e] + Cardinality(Publishing(e)') <= recorded'[e]
  BY DEF EventInv
<1> USE DEF TypeOK, RowsTypeOK, CallersTypeOK
<1>1. /\ recorded' = recorded /\ event' = event
      /\ pc' = [pc EXCEPT ![c] = "idle"] /\ pc[c] = "publish"
      /\ sent' \in {sent, [sent EXCEPT ![event[c]] = @ + 1]}
  BY DEF PublishEvent, Return
<1>2. sent[e] \in Nat /\ recorded[e] \in Nat
  OBVIOUS
<1>3. CASE e = event[c]
  <2>1. Publishing(e)' = Publishing(e) \ {c} /\ c \in Publishing(e)
    BY <1>1, <1>3 DEF Publishing
  <2>2. Cardinality(Publishing(e)') = Cardinality(Publishing(e)) - 1
    BY <2>1, PublishingCount, FS_RemoveElement
  <2>3. sent'[e] \in {sent[e], sent[e] + 1}
    BY <1>1, <1>3
  <2> QED
    BY <1>1, <1>2, <2>2, <2>3, PublishingCount DEF EventInv
<1>4. CASE e # event[c]
  <2>1. Publishing(e)' = Publishing(e) /\ sent'[e] = sent[e]
    BY <1>1, <1>4 DEF Publishing
  <2> QED
    BY <1>1, <2>1 DEF EventInv
<1> QED
  BY <1>3, <1>4

LEMMA EventsStep == ASSUME TypeOK, EventInv, [Next]_vars PROVE EventInv'
<1>1. ASSUME NEW c \in Callers, Request(c, Ops) PROVE EventInv'
  BY <1>1, BeginQuiet, EventsKept DEF Request, Entries
<1>2. ASSUME NEW c \in Callers, CallStep(c) PROVE EventInv'
  BY <1>2, OthersWait, OnlyAuditPublishes, EventsRecord, EventsPublish, EventsKept
<1>3. CASE Restart \/ UNCHANGED vars
  BY <1>3, EventsKept DEF Restart, vars
<1> QED
  BY <1>1, <1>2, <1>3 DEF Next

LEMMA EventsInit == ASSUME Init PROVE EventInv
<1> SUFFICES ASSUME NEW e \in Events
             PROVE  sent[e] + Cardinality(Publishing(e)) <= recorded[e]
  BY DEF EventInv
<1>1. Publishing(e) = {}
  BY DEF Init, Publishing
<1> QED
  BY <1>1, FS_EmptySet DEF Init

\* No consumer hears of anything the audit log does not hold, however many callers
\* record and publish the same event and wherever the service is restarted.
THEOREM EventsAreBacked == Spec => []PublishedEventsRecorded
<1>1. Init => TypeOK /\ EventInv
  BY InitTyped, EventsInit
<1>2. TypeOK /\ EventInv /\ [Next]_vars => (TypeOK /\ EventInv)'
  BY NextTyped, EventsStep
<1>3. ASSUME TypeOK, EventInv PROVE PublishedEventsRecorded
  <2>1. ASSUME NEW e \in Events PROVE sent[e] <= recorded[e]
    BY <1>3, PublishingCount DEF EventInv, TypeOK, RowsTypeOK
  <2> QED
    BY <2>1 DEF PublishedEventsRecorded
<1> QED
  BY <1>1, <1>2, <1>3, PTL DEF Spec

-----------------------------------------------------------------------------
(***************************************************************************)
(* Merges.                                                                 *)
(***************************************************************************)
MergedEvent(p) == <<"repository.pr.merged", p>>

\* c got the provider's answer that it merged p, and has yet to record the merge.
Claims(c, p) ==
  \/ pc[c] \in {"merge.mark", "merge.retire"} /\ arg[c] = p
  \/ pc[c] = "audit" /\ event[c] = MergedEvent(p)

\* The provider merges a pull request once, so one caller at most claims it; the
\* claim is on a merged pull request, marked before the housekeeping, and is given
\* up when it is recorded.
MergeInv ==
  \A p \in PullRequests :
    /\ p \in db.mergeSha => gh.pr[p] = "merged"
    /\ recorded[MergedEvent(p)] \in {0, 1}
    /\ recorded[MergedEvent(p)] = 1 => p \in db.mergeSha
    /\ \A c \in Callers : Claims(c, p) =>
         /\ gh.pr[p] = "merged"
         /\ recorded[MergedEvent(p)] = 0
         /\ pc[c] # "merge.mark" => p \in db.mergeSha
         /\ \A d \in Callers : Claims(d, p) => d = c

\* A merge is never undone, and a pull request keeps its head branch.
MergesKept ==
  \A p \in PullRequests : gh.pr[p] = "merged" => gh'.pr[p] = "merged" /\ gh'.head[p] = gh.head[p]

LEMMA MergesFinal == ASSUME TypeOK, NEW c \in Callers, CallStep(c) PROVE MergesKept
<1> USE DEF MergesKept
<1>1. CASE OtherStep(c)
  BY <1>1, OtherStepPullRequests
<1>2. CASE DeleteProvider(c)
  BY <1>2 DEF DeleteProvider, TypeOK, ProviderTypeOK
<1>3. CASE OpenProvider(c)
  <2>1. ASSUME NEW q \in PullRequests, gh.pr[q] = "none",
               gh' = [gh EXCEPT !.pr[q] = "open", !.head[q] = arg[c]]
        PROVE  MergesKept
    <3>1. gh'.pr = [gh.pr EXCEPT ![q] = "open"] /\ gh'.head = [gh.head EXCEPT ![q] = arg[c]]
      BY <2>1 DEF TypeOK, ProviderTypeOK
    <3> QED
      BY <2>1, <3>1 DEF TypeOK, ProviderTypeOK
  <2> QED
    BY <1>3, <2>1 DEF OpenProvider, Openable
<1>4. CASE MergeProvider(c)
  <2>1. gh'.pr \in {gh.pr, [gh.pr EXCEPT ![arg[c]] = "merged"]} /\ gh'.head = gh.head
    BY <1>4 DEF MergeProvider, TypeOK, ProviderTypeOK
  <2> QED
    BY <2>1 DEF TypeOK, ProviderTypeOK
<1>5. CASE \/ PullRequestRow(c) \/ ApproveMark(c) \/ MergeConflict(c) \/ MergeMark(c)
           \/ MergeRetire(c) \/ RecordEvent(c) \/ PublishEvent(c) \/ StepFails(c)
  BY <1>5 DEF PullRequestRow, ApproveMark, MergeConflict, MergeMark, MergeRetire,
              RecordEvent, PublishEvent, StepFails
<1> QED
  BY <1>1, <1>2, <1>3, <1>4, <1>5 DEF CallStep, OtherStep

\* A step that records nothing, marks nothing and makes no claim.
LEMMA MergeKept ==
  ASSUME MergeInv, MergesKept, recorded' = recorded, db'.mergeSha = db.mergeSha,
         \A d \in Callers : \A p \in PullRequests :
           Claims(d, p)' => Claims(d, p) /\ pc'[d] = pc[d]
  PROVE  MergeInv'
  BY DEF MergeInv, MergesKept

\* A rollback announces its event before its last provider call: the event waiting
\* there is not a merge.
Rolling(c) ==
  pc[c] = "rollback.delete" => \A p \in PullRequests : event[c] # MergedEvent(p)

RollbackInv == \A c \in Callers : Rolling(c)

\* Only the steps of a merge make, move or give up a claim.
Claimless(c) ==
  \/ OtherStep(c) \/ DeleteProvider(c) \/ OpenProvider(c) \/ PullRequestRow(c)
  \/ ApproveMark(c) \/ MergeConflict(c) \/ PublishEvent(c) \/ StepFails(c)

LEMMA ClaimlessStep ==
  ASSUME TypeOK, RollbackInv, NEW c \in Callers, Claimless(c)
  PROVE  /\ recorded' = recorded /\ db'.mergeSha = db.mergeSha
         /\ \A p \in PullRequests : ~Claims(c, p)'
         /\ Rolling(c)'
<1> USE DEF Answer, Goto, Return, Announce, TypeOK, RowsTypeOK, CallersTypeOK, Claims,
            MergedEvent, Rolling
<1>1. CASE RepoProvider(c) \/ RepoDevelop(c) \/ RepoSeed(c) \/ RepoRow(c)
  BY <1>1 DEF RepoProvider, RepoDevelop, RepoSeed, RepoRow
<1>2. CASE BranchProvider(c) \/ BranchRow(c) \/ DeleteProvider(c) \/ DeleteRow(c)
  BY <1>2 DEF BranchProvider, BranchRow, DeleteProvider, DeleteRow
<1>3. CASE CommitRef(c) \/ CommitPatch(c) \/ CommitRow(c)
  BY <1>3 DEF CommitRef, CommitPatch, CommitRow
<1>4. CASE OpenProvider(c)
  BY <1>4 DEF OpenProvider
<1>5. CASE PullRequestRow(c)
  BY <1>5 DEF PullRequestRow
<1>6. CASE ApproveMark(c)
  BY <1>6 DEF ApproveMark
<1>7. CASE MergeConflict(c)
  BY <1>7 DEF MergeConflict
<1>8. CASE ReleaseLookup(c) \/ ReleasePost(c) \/ RollbackLookup(c)
  BY <1>8 DEF ReleaseLookup, ReleasePost, RollbackLookup
<1>9. CASE RollbackDelete(c)
  BY <1>9 DEF RollbackDelete, RollbackInv
<1>10. CASE PublishEvent(c) \/ StepFails(c)
  BY <1>10 DEF PublishEvent, StepFails
<1> QED
  BY <1>1, <1>2, <1>3, <1>4, <1>5, <1>6, <1>7, <1>8, <1>9, <1>10 DEF Claimless, OtherStep

LEMMA MergedEvents ==
  /\ \A p \in PullRequests : MergedEvent(p) \in Events
  /\ \A p, q \in PullRequests : MergedEvent(p) = MergedEvent(q) => p = q
  BY DEF MergedEvent, Events

\* The provider merges p: nobody claimed p before, and only this caller does now.
LEMMA MergeClaims ==
  ASSUME TypeOK, MergeInv, NEW c \in Callers, MergeProvider(c) PROVE MergeInv'
<1> DEFINE q == arg[c]
<1>1. /\ recorded' = recorded /\ db' = db /\ arg' = arg /\ event' = event
      /\ q \in PullRequests
  BY DEF MergeProvider, TypeOK, ArgTypeOK, PullRequestSteps
<1>2. \A d \in Callers \ {c} : pc'[d] = pc[d]
  BY OthersWait DEF CallStep
<1>3. CASE gh' = gh /\ pc'[c] = "merge.conflict"
  <2>1. \A d \in Callers : \A p \in PullRequests :
          Claims(d, p)' => Claims(d, p) /\ pc'[d] = pc[d]
    BY <1>1, <1>2, <1>3 DEF Claims
  <2> QED
    BY <1>1, <1>3, <2>1, MergeKept DEF MergesKept
<1>4. CASE /\ gh.pr[q] = "open" /\ gh' = [gh EXCEPT !.pr[q] = "merged"]
           /\ pc'[c] \in {"merge.mark", "idle"}
  <2>1. gh'.pr = [gh.pr EXCEPT ![q] = "merged"] /\ gh.pr \in [PullRequests -> {"none", "open", "closed", "merged"}]
    BY <1>4 DEF TypeOK, ProviderTypeOK
  <2>2. /\ q \notin db.mergeSha /\ recorded[MergedEvent(q)] = 0
        /\ \A d \in Callers : ~Claims(d, q)
    BY <1>1, <1>4 DEF MergeInv
  <2>3. /\ \A d \in Callers \ {c} : \A p \in PullRequests : Claims(d, p)' <=> Claims(d, p)
        /\ \A p \in PullRequests : Claims(c, p)' => p = q /\ pc'[c] = "merge.mark"
    BY <1>1, <1>2, <1>4 DEF Claims
  <2> SUFFICES ASSUME NEW p \in PullRequests
               PROVE  /\ p \in db'.mergeSha => gh'.pr[p] = "merged"
                      /\ recorded'[MergedEvent(p)] \in {0, 1}
                      /\ recorded'[MergedEvent(p)] = 1 => p \in db'.mergeSha
                      /\ \A d \in Callers : Claims(d, p)' =>
                           /\ gh'.pr[p] = "merged"
                           /\ recorded'[MergedEvent(p)] = 0
                           /\ pc'[d] # "merge.mark" => p \in db'.mergeSha
                           /\ \A e \in Callers : Claims(e, p)' => e = d
    BY DEF MergeInv, MergedEvent
  <2>4. CASE p = q
    BY <1>1, <2>1, <2>2, <2>3, <2>4
  <2>5. CASE p # q
    BY <1>1, <1>2, <2>1, <2>3, <2>5 DEF MergeInv
  <2> QED
    BY <2>4, <2>5
<1> QED
  BY <1>3, <1>4 DEF MergeProvider, Answer, Goto, Return, TypeOK, CallersTypeOK

\* The row is marked, the housekeeping is done: the claim moves on with its caller.
LEMMA MergeMarks ==
  ASSUME TypeOK, MergeInv, NEW c \in Callers, MergeMark(c) \/ MergeRetire(c)
  PROVE  MergeInv'
<1> DEFINE q == arg[c]
<1>1. /\ recorded' = recorded /\ gh' = gh /\ arg' = arg /\ q \in PullRequests
      /\ pc[c] \in {"merge.mark", "merge.retire"}
  BY DEF MergeMark, MergeRetire, TypeOK, ArgTypeOK, PullRequestSteps
<1>2. \A d \in Callers \ {c} : pc'[d] = pc[d] /\ event'[d] = event[d]
  BY OthersWait DEF CallStep
<1>3. /\ db.mergeSha \subseteq db'.mergeSha /\ db'.mergeSha \subseteq db.mergeSha \union {q}
      /\ pc'[c] # "merge.mark" /\ q \in db'.mergeSha
      /\ \A p \in PullRequests : Claims(c, p)' => p = q
  <2>1. Claims(c, q)
    BY <1>1 DEF Claims
  <2>2. CASE MergeMark(c)
    <3>1. db'.mergeSha = db.mergeSha \union {q} /\ pc'[c] = "merge.retire"
      BY <2>2 DEF MergeMark, Goto, TypeOK, RowsTypeOK, CallersTypeOK
    <3> QED
      BY <1>1, <3>1 DEF Claims
  <2>3. CASE MergeRetire(c)
    <3>1. db'.mergeSha = db.mergeSha /\ pc'[c] = "audit" /\ event'[c] = MergedEvent(q)
      BY <2>3 DEF MergeRetire, Goto, Announce, MergedEvent, TypeOK, RowsTypeOK, CallersTypeOK
    <3>2. q \in db.mergeSha
      BY <1>1, <2>1, <2>3 DEF MergeInv, MergeRetire
    <3> QED
      BY <1>1, <3>1, <3>2, MergedEvents DEF Claims
  <2> QED
    BY <2>2, <2>3
<1>4. /\ \A d \in Callers : Claims(d, q) => d = c
      /\ gh.pr[q] = "merged" /\ recorded[MergedEvent(q)] = 0
  BY <1>1 DEF MergeInv, Claims
<1>5. \A d \in Callers \ {c} : \A p \in PullRequests : Claims(d, p)' <=> Claims(d, p)
  BY <1>1, <1>2 DEF Claims
<1> SUFFICES ASSUME NEW p \in PullRequests
             PROVE  /\ p \in db'.mergeSha => gh'.pr[p] = "merged"
                    /\ recorded'[MergedEvent(p)] \in {0, 1}
                    /\ recorded'[MergedEvent(p)] = 1 => p \in db'.mergeSha
                    /\ \A d \in Callers : Claims(d, p)' =>
                         /\ gh'.pr[p] = "merged"
                         /\ recorded'[MergedEvent(p)] = 0
                         /\ pc'[d] # "merge.mark" => p \in db'.mergeSha
                         /\ \A e \in Callers : Claims(e, p)' => e = d
  BY DEF MergeInv, MergedEvent
<1>6. CASE p = q
  BY <1>1, <1>3, <1>4, <1>5, <1>6
<1>7. CASE p # q
  BY <1>1, <1>2, <1>3, <1>5, <1>7 DEF MergeInv
<1> QED
  BY <1>6, <1>7

\* The audit row is written: a claim, if it was one, is given up.
LEMMA MergeRecorded ==
  ASSUME TypeOK, MergeInv, NEW c \in Callers, RecordEvent(c) PROVE MergeInv'
<1>1. /\ gh' = gh /\ db' = db /\ arg' = arg /\ event' = event
      /\ pc[c] = "audit" /\ pc'[c] = "publish" /\ \A d \in Callers \ {c} : pc'[d] = pc[d]
      /\ recorded' = [recorded EXCEPT ![event[c]] = @ + 1]
  BY DEF RecordEvent, Goto, TypeOK, CallersTypeOK
<1>2. /\ \A d \in Callers \ {c} : \A p \in PullRequests : Claims(d, p)' <=> Claims(d, p)
      /\ \A p \in PullRequests : ~Claims(c, p)'
  BY <1>1 DEF Claims
<1> SUFFICES ASSUME NEW p \in PullRequests
             PROVE  /\ p \in db'.mergeSha => gh'.pr[p] = "merged"
                    /\ recorded'[MergedEvent(p)] \in {0, 1}
                    /\ recorded'[MergedEvent(p)] = 1 => p \in db'.mergeSha
                    /\ \A d \in Callers : Claims(d, p)' =>
                         /\ gh'.pr[p] = "merged"
                         /\ recorded'[MergedEvent(p)] = 0
                         /\ pc'[d] # "merge.mark" => p \in db'.mergeSha
                         /\ \A e \in Callers : Claims(e, p)' => e = d
  BY DEF MergeInv, MergedEvent
<1>3. MergedEvent(p) \in Events /\ recorded \in [Events -> Nat]
  BY MergedEvents DEF TypeOK, RowsTypeOK
<1>4. CASE event[c] = MergedEvent(p)
  <2>1. Claims(c, p)
    BY <1>1, <1>4 DEF Claims
  <2>2. /\ recorded[MergedEvent(p)] = 0 /\ p \in db.mergeSha /\ gh.pr[p] = "merged"
        /\ \A d \in Callers : Claims(d, p) => d = c
    BY <1>1, <2>1 DEF MergeInv
  <2>3. recorded'[MergedEvent(p)] = 1
    BY <1>1, <1>3, <1>4, <2>2
  <2> QED
    BY <1>1, <1>2, <2>2, <2>3
<1>5. CASE event[c] # MergedEvent(p)
  <2>1. recorded'[MergedEvent(p)] = recorded[MergedEvent(p)]
    BY <1>1, <1>3, <1>5
  <2> QED
    BY <1>1, <1>2, <2>1 DEF MergeInv
<1> QED
  BY <1>4, <1>5

LEMMA MergeCall ==
  ASSUME TypeOK, MergeInv, RollbackInv, NEW c \in Callers, CallStep(c)
  PROVE  MergeInv' /\ RollbackInv'
<1>1. RollbackInv'
  <2>1. Rolling(c)'
    <3>1. CASE Claimless(c)
      BY <3>1, ClaimlessStep
    <3>2. CASE MergeProvider(c) \/ MergeMark(c) \/ MergeRetire(c) \/ RecordEvent(c)
      BY <3>2 DEF MergeProvider, MergeMark, MergeRetire, RecordEvent, Answer, Goto, Return,
                  Rolling, TypeOK, CallersTypeOK
    <3> QED
      BY <3>1, <3>2 DEF CallStep, Claimless, OtherStep
  <2> QED
    BY <2>1, OthersWait DEF RollbackInv, Rolling, MergedEvent
<1>2. CASE Claimless(c)
  <2>1. \A d \in Callers : \A p \in PullRequests :
          Claims(d, p)' => Claims(d, p) /\ pc'[d] = pc[d]
    BY <1>2, ClaimlessStep, OthersWait DEF Claims, MergedEvent
  <2> QED
    BY <1>1, <1>2, <2>1, ClaimlessStep, MergesFinal, MergeKept
<1>3. CASE MergeProvider(c) \/ MergeMark(c) \/ MergeRetire(c) \/ RecordEvent(c)
  BY <1>1, <1>3, MergeClaims, MergeMarks, MergeRecorded
<1> QED
  BY <1>2, <1>3 DEF CallStep, Claimless, OtherStep

\* A method that starts makes no claim.
LEMMA MergeBegin ==
  ASSUME TypeOK, MergeInv, RollbackInv, NEW c \in Callers, NEW op, BeginOp(c, op)
  PROVE  MergeInv' /\ RollbackInv'
<1>1. /\ UNCHANGED <<gh, db, recorded, event>>
      /\ pc'[c] \in Entries \union {"idle"}
      /\ \A d \in Callers \ {c} : pc'[d] = pc[d] /\ arg'[d] = arg[d]
  BY BeginQuiet
<1>2. \A d \in Callers : \A p \in PullRequests :
        Claims(d, p)' => Claims(d, p) /\ pc'[d] = pc[d]
  BY <1>1 DEF Claims, MergedEvent, Entries
<1>3. RollbackInv'
  BY <1>1 DEF RollbackInv, Rolling, MergedEvent, Entries
<1> QED
  BY <1>1, <1>2, <1>3, MergeKept DEF MergesKept

LEMMA MergeStep ==
  ASSUME TypeOK, MergeInv, RollbackInv, [Next]_vars PROVE MergeInv' /\ RollbackInv'
<1>1. ASSUME NEW c \in Callers, Request(c, Ops) PROVE MergeInv' /\ RollbackInv'
  BY <1>1, MergeBegin DEF Request
<1>2. CASE Restart
  <2>1. \A d \in Callers : \A p \in PullRequests : ~Claims(d, p)'
    BY <1>2 DEF Restart, Claims
  <2> QED
    BY <1>2, <2>1, MergeKept DEF Restart, MergesKept, RollbackInv, Rolling
<1>3. CASE UNCHANGED vars
  BY <1>3 DEF vars, MergeInv, Claims, MergedEvent, RollbackInv, Rolling
<1> QED
  BY <1>1, <1>2, <1>3, MergeCall DEF Next

LEMMA MergeInit == ASSUME Init PROVE MergeInv /\ RollbackInv
<1>1. \A p \in PullRequests : recorded[MergedEvent(p)] = 0
  BY MergedEvents DEF Init
<1> QED
  BY <1>1 DEF Init, MergeInv, Claims, RollbackInv, Rolling

\* The invariant behind the history of merges: a merge is recorded at most once,
\* and a call that still has to record one is alone with it and about a request
\* the provider did merge (pull_request_manager.py, audit_manager.py).
THEOREM MergeInvariant == Spec => [](TypeOK /\ MergeInv /\ RollbackInv)
<1>1. Init => TypeOK /\ MergeInv /\ RollbackInv
  BY InitTyped, MergeInit
<1>2. TypeOK /\ MergeInv /\ RollbackInv /\ [Next]_vars => (TypeOK /\ MergeInv /\ RollbackInv)'
  BY NextTyped, MergeStep
<1> QED
  BY <1>1, <1>2, PTL DEF Spec

\* merge_sha names merges the provider made, and the audit log holds each of them at
\* most once and none that was not made, whatever concurrent and repeated merges do.
THEOREM MergesAreTrue == Spec => []MergeHistoryTrue
<1>1. ASSUME MergeInv PROVE MergeHistoryTrue
  <2>1. ASSUME NEW p \in PullRequests
        PROVE  /\ p \in db.mergeSha => gh.pr[p] = "merged"
               /\ recorded[MergedEvent(p)] <= (IF p \in db.mergeSha THEN 1 ELSE 0)
    BY <1>1 DEF MergeInv
  <2> QED
    BY <2>1 DEF MergeHistoryTrue, MergedEvent
<1> QED
  BY <1>1, MergeInvariant, PTL

-----------------------------------------------------------------------------
(***************************************************************************)
(* Branch rows.                                                            *)
(***************************************************************************)

\* Only the housekeeping after a merge retires a branch row.
LEMMA OnlyMergeRetires ==
  ASSUME TypeOK, NEW c \in Callers, CallStep(c), ~MergeRetire(c),
         NEW b \in Branches, db'.branch[b] = "merged"
  PROVE  db.branch[b] = "merged"
<1> USE DEF TypeOK, RowsTypeOK
<1>1. CASE BranchRow(c) \/ DeleteRow(c)
  <2>1. PICK s \in {"active", "none", "deleted"} :
          db'.branch \in {db.branch, [db.branch EXCEPT ![arg[c]] = s]}
    BY <1>1 DEF BranchRow, DeleteRow
  <2> QED
    BY <2>1
<1>2. CASE RepoProvider(c) \/ RepoDevelop(c) \/ RepoSeed(c) \/ RepoRow(c)
  BY <1>2 DEF RepoProvider, RepoDevelop, RepoSeed, RepoRow
<1>3. CASE BranchProvider(c) \/ DeleteProvider(c)
  BY <1>3 DEF BranchProvider, DeleteProvider
<1>4. CASE CommitRef(c) \/ CommitPatch(c) \/ CommitRow(c)
  BY <1>4 DEF CommitRef, CommitPatch, CommitRow
<1>5. CASE OpenProvider(c) \/ PullRequestRow(c) \/ ApproveMark(c)
  BY <1>5 DEF OpenProvider, PullRequestRow, ApproveMark
<1>6. CASE MergeProvider(c) \/ MergeConflict(c) \/ MergeMark(c)
  BY <1>6 DEF MergeProvider, MergeConflict, MergeMark
<1>7. CASE ReleaseLookup(c) \/ ReleasePost(c) \/ RollbackLookup(c) \/ RollbackDelete(c)
  BY <1>7 DEF ReleaseLookup, ReleasePost, RollbackLookup, RollbackDelete
<1>8. CASE RecordEvent(c) \/ PublishEvent(c) \/ StepFails(c)
  BY <1>8 DEF RecordEvent, PublishEvent, StepFails
<1> QED
  BY <1>1, <1>2, <1>3, <1>4, <1>5, <1>6, <1>7, <1>8 DEF CallStep

LEMMA RetireCall ==
  ASSUME TypeOK, MergeInv, RetiredBranchWasMerged, NEW c \in Callers, CallStep(c)
  PROVE  RetiredBranchWasMerged'
<1> SUFFICES ASSUME NEW b \in Branches, db'.branch[b] = "merged"
             PROVE  \E p \in PullRequests : gh'.head[p] = b /\ gh'.pr[p] = "merged"
  BY DEF RetiredBranchWasMerged
<1>1. CASE db.branch[b] = "merged"
  BY <1>1, MergesFinal DEF RetiredBranchWasMerged, MergesKept
<1>2. CASE db.branch[b] # "merged" /\ MergeRetire(c)
  <2>1. arg[c] \in PullRequests /\ Claims(c, arg[c]) /\ gh' = gh
    BY <1>2 DEF MergeRetire, Claims, TypeOK, ArgTypeOK, PullRequestSteps
  <2>2. gh.pr[arg[c]] = "merged"
    BY <2>1 DEF MergeInv
  <2>3. b = gh.head[arg[c]]
    <3>1. db'.branch \in {db.branch, [db.branch EXCEPT ![gh.head[arg[c]]] = "merged"]}
      BY <1>2 DEF MergeRetire, TypeOK, RowsTypeOK
    <3> QED
      BY <1>2, <3>1 DEF TypeOK, RowsTypeOK
  <2> QED
    BY <2>1, <2>2, <2>3
<1> QED
  BY <1>1, <1>2, OnlyMergeRetires

LEMMA RetireStep ==
  ASSUME TypeOK, MergeInv, RetiredBranchWasMerged, [Next]_vars
  PROVE  RetiredBranchWasMerged'
<1>1. ASSUME NEW c \in Callers, Request(c, Ops) PROVE RetiredBranchWasMerged'
  BY <1>1, BeginQuiet DEF Request, RetiredBranchWasMerged
<1>2. CASE Restart \/ UNCHANGED vars
  BY <1>2 DEF Restart, vars, RetiredBranchWasMerged
<1> QED
  BY <1>1, <1>2, RetireCall DEF Next

\* A branch row says merged only when the provider merged a pull request from that
\* branch, even while branches are deleted and other pull requests conflict.
THEOREM RetiredWereMerged == Spec => []RetiredBranchWasMerged
<1>1. Init => RetiredBranchWasMerged
  BY DEF Init, RetiredBranchWasMerged
<1>2. TypeOK /\ MergeInv /\ RetiredBranchWasMerged /\ [Next]_vars => RetiredBranchWasMerged'
  BY RetireStep
<1> QED
  BY <1>1, <1>2, MergeInvariant, PTL DEF Spec
=============================================================================
