---------------------------- MODULE Engineering ----------------------------
(***************************************************************************)
(* The Engineering Service: EngineeringHead fans out to three leads, whose *)
(* workers generate modules in dependency-ordered batches, then has every  *)
(* module reviewed and commits the ones that pass to an integration branch *)
(* of the Repository Service.                                              *)
(*                                                                         *)
(* A run is one call of EngineeringHead.execute.  Runs of one project may  *)
(* overlap: they share the artifacts table and the integration branch,     *)
(* whose name depends on the feature alone.  A module is named by the      *)
(* worker that generates it; its content is abstracted to the number of    *)
(* refactorings applied to it.                                             *)
(***************************************************************************)
EXTENDS Naturals, Sequences, FiniteSets, FiniteSetsExt

CONSTANTS Runs,               \* runs of the head for one project and feature
          EngWorkers,         \* the workers of the three teams, or a part of them
                              \* closed under Dependencies
          EngMaxReviewCycles  \* routing.MAX_REVIEW_CYCLES

BackendWorkers  == EngWorkers \cap {"database", "authentication", "business_logic", "api"}
FrontendWorkers == EngWorkers \cap {"state", "component", "routing", "page"}
IntegrationWorkers == EngWorkers \cap {"internal", "third_party", "messaging"}

Dependencies(w) ==
    CASE w \in {"authentication", "business_logic"} -> {"database"}
      [] w = "api"                      -> {"authentication", "business_logic"}
      [] w \in {"component", "routing"} -> {"state"}
      [] w = "page"                     -> {"component", "routing"}
      [] w = "messaging"                -> {"internal"}
      [] OTHER                          -> {}

ASSUME EngineeringAssumption ==
    /\ EngMaxReviewCycles \in Nat \ {0}
    /\ "none" \notin Runs \cup EngWorkers
    /\ EngWorkers = BackendWorkers \cup FrontendWorkers \cup IntegrationWorkers
    /\ \A w \in EngWorkers : Dependencies(w) \subseteq EngWorkers

Team(w) == IF w \in BackendWorkers THEN BackendWorkers
           ELSE IF w \in FrontendWorkers THEN FrontendWorkers ELSE IntegrationWorkers

VARIABLES engPc,        \* where each run is
          engUi,        \* the context holds a ui_blueprint
          engWork,      \* what each worker of a run is doing
          engVersions,  \* versions of "source_code" rows in the artifacts table
          engPending,   \* the modules of a run, in the order they were recorded
          engCurrent,   \* the module under review in a run
          engReviewed,  \* the modules of a run that passed both gates, as changed
          engBranch,    \* the integration branch: "none" or the run that created it
          engCommits,   \* commits on the branch
          engPulls      \* pull requests opened for the branch

engVars == <<engPc, engUi, engWork, engVersions, engPending, engCurrent,
             engReviewed, engBranch, engCommits, engPulls>>

\* A module under review: the review cycles, the refactorings applied to it, and how
\* many of them the quality gate saw that it passed.
NoModule == [name |-> "none", cycles |-> 0, changes |-> 0, gated |-> 0]
Fresh(w) == [NoModule EXCEPT !.name = w]

\* The workers a run calls: the Frontend Lead skips itself without a ui_blueprint.
Called(r) == EngWorkers \ (IF engUi[r] THEN {} ELSE FrontendWorkers)

\* _run_batches: position of a worker's batch.  A worker that failed counts as
\* done, so the workers that depend on it still run.
Batch[w \in EngWorkers] ==
    IF Dependencies(w) = {} THEN 0 ELSE 1 + Max({Batch[d] : d \in Dependencies(w)})

\* A worker holds a version only between the read and the insert.
Settled(at) == [at |-> at, version |-> 0]
Finished(r, w) == engWork[r][w].at \in {"completed", "failed"}
EngReady(r, w) == \A u \in Team(w) : Batch[u] < Batch[w] => Finished(r, u)

-----------------------------------------------------------------------------
EngInit ==
    /\ engPc = [r \in Runs |-> "idle"]
    /\ engUi = [r \in Runs |-> FALSE]
    /\ engWork = [r \in Runs |-> [w \in EngWorkers |-> Settled("waiting")]]
    /\ engVersions = {}
    /\ engPending = [r \in Runs |-> <<>>]
    /\ engCurrent = [r \in Runs |-> NoModule]
    /\ engReviewed = [r \in Runs |-> <<>>]
    /\ engBranch = "none" /\ engCommits = {} /\ engPulls = {}

EngStart(r) ==
    /\ engPc[r] = "idle"
    /\ engPc' = [engPc EXCEPT ![r] = "fan_out"]
    /\ \E ui \in BOOLEAN : engUi' = [engUi EXCEPT ![r] = ui]
    /\ UNCHANGED <<engWork, engVersions, engPending, engCurrent, engReviewed,
                   engBranch, engCommits, engPulls>>

\* What a worker comes to.  A model that does not answer, an answer with an unreadable
\* file and (for authentication) a review that fails end it; any other answer, an
\* unreadable one included, is a module to store.
BackendWork == {"failed", "inserting"}
IntegrationWork == {"failed", "inserting"}

\* The workers of the Frontend escalate without a ui_blueprint.
FrontendWork(r) == IF engUi[r] THEN {"failed", "inserting"} ELSE {"failed"}

WorkResults(r, w) ==
    CASE w \in BackendWorkers     -> BackendWork
      [] w \in FrontendWorkers    -> FrontendWork(r)
      [] w \in IntegrationWorkers -> IntegrationWork

\* A worker's generation ends: it fails or escalates, or goes on to store the
\* module, which first reads the highest version of its artifact type.
Generate(r, w) ==
    /\ engPc[r] = "fan_out" /\ w \in Called(r)
    /\ engWork[r][w].at = "waiting" /\ EngReady(r, w)
    /\ \E result \in WorkResults(r, w) :
         engWork' = [engWork EXCEPT ![r][w] =
             IF result = "failed" THEN Settled(result)
             ELSE [at |-> result, version |-> 1 + Max({0} \cup engVersions)]]
    /\ UNCHANGED <<engPc, engUi, engVersions, engPending, engCurrent, engReviewed,
                   engBranch, engCommits, engPulls>>

\* The insert of the row: the table refuses a version that exists by now, which
\* fails the worker; otherwise the module is recorded as pending.
Store(r, w) ==
    /\ engPc[r] = "fan_out" /\ engWork[r][w].at = "inserting"
    /\ LET v == engWork[r][w].version IN
       IF v \in engVersions
       THEN /\ engWork' = [engWork EXCEPT ![r][w] = Settled("failed")]
            /\ UNCHANGED <<engVersions, engPending>>
       ELSE /\ engWork' = [engWork EXCEPT ![r][w] = Settled("completed")]
            /\ engVersions' = engVersions \cup {v}
            /\ engPending' = [engPending EXCEPT ![r] = Append(@, w)]
    /\ UNCHANGED <<engPc, engUi, engCurrent, engReviewed, engBranch, engCommits, engPulls>>

\* The head waits for the three leads.  A failed worker fails the Backend and the
\* Frontend Lead; the Integration Lead completes whatever its workers return.
EngAggregate(r) ==
    /\ engPc[r] = "fan_out" /\ \A w \in Called(r) : Finished(r, w)
    /\ engPc' = [engPc EXCEPT ![r] =
          IF \E w \in Called(r) \ IntegrationWorkers : engWork[r][w].at = "failed"
          THEN "escalated" ELSE "review"]
    /\ engCurrent' = [engCurrent EXCEPT ![r] =
          IF engPending[r] = <<>> THEN NoModule ELSE Fresh(Head(engPending[r]))]
    /\ UNCHANGED <<engUi, engWork, engVersions, engPending, engReviewed,
                   engBranch, engCommits, engPulls>>

\* The Review Lead leaves the current module, kept or not, and takes the next one;
\* after the last one it has the kept ones committed, or escalates without any.
LeaveModule(r, kept) ==
    LET reviewed == engReviewed[r] \o kept
        rest     == Tail(engPending[r])
    IN /\ engReviewed' = [engReviewed EXCEPT ![r] = reviewed]
       /\ engPending' = [engPending EXCEPT ![r] = rest]
       /\ engCurrent' = [engCurrent EXCEPT ![r] =
             IF rest = <<>> THEN NoModule ELSE Fresh(Head(rest))]
       /\ engPc' = [engPc EXCEPT ![r] = IF rest # <<>> THEN "review"
                                        ELSE IF reviewed = <<>> THEN "escalated"
                                        ELSE "branch"]

\* One code review, of the module as the context shows it, which may be an older one:
\* it passes on to the quality gate, goes to refactoring, or the reviewer fails without
\* an answer, which the lead does not survive.
CodeReview(r) ==
    /\ engPc[r] = "review" /\ engCurrent[r] # NoModule
    /\ \E verdict \in {"quality", "refactor", "escalated"} :
         /\ engPc' = [engPc EXCEPT ![r] = verdict]
         /\ engCurrent' = [engCurrent EXCEPT ![r].cycles = @ + 1]
    /\ UNCHANGED <<engUi, engWork, engVersions, engPending, engReviewed,
                   engBranch, engCommits, engPulls>>

\* Nothing was generated: the lead completes and there is nothing to commit.
NothingToReview(r) ==
    /\ engPc[r] = "review" /\ engCurrent[r] = NoModule
    /\ engPc' = [engPc EXCEPT ![r] = "completed"]
    /\ UNCHANGED <<engUi, engWork, engVersions, engPending, engCurrent, engReviewed,
                   engBranch, engCommits, engPulls>>

\* The quality gate is shown the module as it stands; a violation asks for refactoring,
\* and a module it cannot read (a score that is no number) ends the lead like a reviewer
\* that fails.
Quality(r) ==
    /\ engPc[r] = "quality"
    /\ \/ LeaveModule(r, <<[engCurrent[r] EXCEPT !.gated = engCurrent[r].changes]>>)
       \/ /\ \E pc \in {"refactor", "escalated"} : engPc' = [engPc EXCEPT ![r] = pc]
          /\ UNCHANGED <<engReviewed, engPending, engCurrent>>
    /\ UNCHANGED <<engUi, engWork, engVersions, engBranch, engCommits, engPulls>>

\* Refactoring changes the lead's copy of the module, not the one in the context;
\* then the next cycle, or after the last one the module is blocked.
Refactor(r) ==
    /\ engPc[r] = "refactor"
    /\ IF engCurrent[r].cycles < EngMaxReviewCycles
       THEN /\ engPc' = [engPc EXCEPT ![r] = "review"]
            /\ engCurrent' = [engCurrent EXCEPT ![r].changes = @ + 1]
            /\ UNCHANGED <<engReviewed, engPending>>
       ELSE LeaveModule(r, <<>>)
    /\ UNCHANGED <<engUi, engWork, engVersions, engBranch, engCommits, engPulls>>

\* Mutant: a branch that exists is taken as created.
CreateBranchIdempotent(r) ==
    /\ engPc[r] = "branch"
    /\ engBranch' = IF engBranch = "none" THEN r ELSE engBranch
    /\ \E pc \in {"commit", "escalated"} : engPc' = [engPc EXCEPT ![r] = pc]
    /\ UNCHANGED <<engUi, engWork, engVersions, engPending, engCurrent, engReviewed,
                   engCommits, engPulls>>

\* A call of the Repository Service is refused, answered, or done and its answer
\* lost; without an answer of success the commit worker escalates, and so do the
\* lead and the head.  A branch that exists is refused.
CreateBranch(r) ==
    /\ engPc[r] = "branch"
    /\ \/ /\ engBranch = "none" /\ engBranch' = r
          /\ \E pc \in {"commit", "escalated"} : engPc' = [engPc EXCEPT ![r] = pc]
       \/ engPc' = [engPc EXCEPT ![r] = "escalated"] /\ UNCHANGED engBranch
    /\ UNCHANGED <<engUi, engWork, engVersions, engPending, engCurrent, engReviewed,
                   engCommits, engPulls>>

CommittedBy(r) == {c \in engCommits : c.run = r}

\* The reviewed modules are committed one after the other.
CommitFiles(r) ==
    /\ engPc[r] = "commit"
    /\ LET i == Cardinality(CommittedBy(r)) + 1
           more == IF i = Len(engReviewed[r]) THEN "pull" ELSE "commit"
       IN \/ /\ engCommits' = engCommits \cup {[run |-> r, module |-> engReviewed[r][i]]}
             /\ \E pc \in {more, "escalated"} : engPc' = [engPc EXCEPT ![r] = pc]
          \/ engPc' = [engPc EXCEPT ![r] = "escalated"] /\ UNCHANGED engCommits
    /\ UNCHANGED <<engUi, engWork, engVersions, engPending, engCurrent, engReviewed,
                   engBranch, engPulls>>

\* The pull request, then the artifact that refers to it; both must succeed for
\* the department to complete.
OpenPullRequest(r) ==
    /\ engPc[r] = "pull"
    /\ \/ /\ engPulls' = engPulls \cup {r}
          /\ \E pc \in {"completed", "escalated"} : engPc' = [engPc EXCEPT ![r] = pc]
       \/ engPc' = [engPc EXCEPT ![r] = "escalated"] /\ UNCHANGED engPulls
    /\ UNCHANGED <<engUi, engWork, engVersions, engPending, engCurrent, engReviewed,
                   engBranch, engCommits>>

EngRunStep(r) ==
    \/ EngAggregate(r) \/ CodeReview(r) \/ NothingToReview(r) \/ Quality(r)
    \/ Refactor(r) \/ CreateBranch(r) \/ CommitFiles(r) \/ OpenPullRequest(r)
    \/ \E w \in EngWorkers : Generate(r, w) \/ Store(r, w)

EngNext == \E r \in Runs : EngStart(r) \/ EngRunStep(r)

EngSpec == EngInit /\ [][EngNext]_engVars

-----------------------------------------------------------------------------
\* Whatever fails half-way and whichever runs overlap, the integration branch
\* holds the work of one run, every module on it has its row and passed the quality gate
\* as it was committed, and a run that completes after generating something has all the
\* modules that passed on the branch and a pull request for them.
BranchHoldsOneGatedRun ==
    /\ \A c \in engCommits : /\ c.run = engBranch /\ c.module.gated = c.module.changes
                            /\ engWork[c.run][c.module.name].at = "completed"
    /\ engPulls \subseteq {engBranch}
    /\ \A r \in Runs : engPc[r] = "completed" /\ engReviewed[r] # <<>> =>
         r \in engPulls /\ {c.module : c \in CommittedBy(r)}
                              = {engReviewed[r][i] : i \in DOMAIN engReviewed[r]}
=============================================================================
