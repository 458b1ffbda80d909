---------------------------- MODULE AgentRuntime ----------------------------
(***************************************************************************)
(* The agent runtime (core/runtime): BaseAgent.run around the execute of   *)
(* the agents of one batch, which write artifacts of one type for one      *)
(* project; the ReviewCycle each passes its output through; and the        *)
(* artifacts table they all insert into.                                   *)
(*                                                                         *)
(* The agents of a batch run concurrently and are interleaved at each      *)
(* await: the calls of the model, the storage, the two statements of       *)
(* ArtifactRepository.create and the flush of what was queued.             *)
(***************************************************************************)
EXTENDS Naturals, FiniteSets, FiniteSetsExt

CONSTANTS
  RtAgents,           \* the agents of a batch
  RtEscalating,       \* those that escalate when their review does not pass
  RtMaxReviewCycles,  \* ReviewCycle.max_cycles
  RtMaxRuns           \* bound: runs of agents in a behaviour

ASSUME AgentRuntimeAssumption ==
  /\ RtEscalating \subseteq RtAgents
  /\ RtMaxReviewCycles \in Nat \ {0} /\ RtMaxRuns \in Nat

VARIABLES
  rtPc,      \* where each agent's run is
  rtReview,  \* its review: cycles run and the last critique
  rtRead,    \* the highest version it read
  rtResult,  \* the status of its result
  rtRows,    \* the rows of the type: version, writer and the review it was stored with
  rtBlob,    \* who wrote the stored file last; every row refers to the same one
  rtSent,    \* the versions announced, with their writers
  rtRuns

rtVars == <<rtPc, rtReview, rtRead, rtResult, rtRows, rtBlob, rtSent, rtRuns>>

Unreviewed == [cycles |-> 0, blocking |-> FALSE, good |-> TRUE]

RtInit ==
  /\ rtPc = [a \in RtAgents |-> "idle"] /\ rtReview = [a \in RtAgents |-> Unreviewed]
  /\ rtRead = [a \in RtAgents |-> 0] /\ rtResult = [a \in RtAgents |-> "none"]
  /\ rtRows = {} /\ rtBlob = "none" /\ rtSent = {} /\ rtRuns = 0

Go(a, node)       == rtPc' = [rtPc EXCEPT ![a] = node]
Ends(a, status)   == Go(a, "flush") /\ rtResult' = [rtResult EXCEPT ![a] = status]
Versions          == {row.version : row \in rtRows}

\* run: the start is audited best effort.  A head may run the same worker again.
PreExecute(a) ==
  /\ rtPc[a] = "idle" /\ rtRuns < RtMaxRuns /\ rtRuns' = rtRuns + 1
  /\ Go(a, "generate")
  /\ UNCHANGED <<rtReview, rtRead, rtResult, rtRows, rtBlob, rtSent>>

\* A provider that is not registered or that raises fails the run.
CallLlm(a) ==
  /\ rtPc[a] = "generate"
  /\ \/ Go(a, "critique") /\ UNCHANGED rtResult
     \/ Ends(a, "failed")
  /\ UNCHANGED <<rtReview, rtRead, rtRows, rtBlob, rtSent, rtRuns>>

\* A critique that cannot be had or parsed counts as good, without blocking issues.
Critique(a) ==
  /\ rtPc[a] = "critique"
  /\ \E blocking, good \in BOOLEAN :
       /\ rtReview' = [rtReview EXCEPT ![a] = [cycles |-> @.cycles + 1,
                                               blocking |-> blocking, good |-> good]]
       /\ Go(a, IF blocking THEN "improve" ELSE "judge")
  /\ UNCHANGED <<rtRead, rtResult, rtRows, rtBlob, rtSent, rtRuns>>

\* Mutant: the loop is left after the first improvement.
ImproveOnce(a) ==
  /\ rtPc[a] = "improve"
  /\ Go(a, "judge")
  /\ UNCHANGED <<rtReview, rtRead, rtResult, rtRows, rtBlob, rtSent, rtRuns>>

\* Blocking issues are improved, after the last critique too; a failing call keeps
\* the output.
Improve(a) ==
  /\ rtPc[a] = "improve"
  /\ Go(a, IF rtReview[a].cycles < RtMaxReviewCycles THEN "critique" ELSE "judge")
  /\ UNCHANGED <<rtReview, rtRead, rtResult, rtRows, rtBlob, rtSent, rtRuns>>

\* The review passes when the output has its fields and the last score is good; most
\* workers store what they wrote whatever it says.
Judge(a) ==
  /\ rtPc[a] = "judge"
  /\ \E structured \in BOOLEAN :
       IF a \in RtEscalating /\ ~(structured /\ rtReview[a].good)
       THEN Ends(a, "escalated")
       ELSE Go(a, "store") /\ UNCHANGED rtResult
  /\ UNCHANGED <<rtReview, rtRead, rtRows, rtBlob, rtSent, rtRuns>>

\* create_artifact stores every draft as version 1 of its type.
StoreContent(a) ==
  /\ rtPc[a] = "store"
  /\ \/ Go(a, "select") /\ rtBlob' = a /\ UNCHANGED rtResult
     \/ Ends(a, "failed") /\ UNCHANGED rtBlob
  /\ UNCHANGED <<rtReview, rtRead, rtRows, rtSent, rtRuns>>

SelectVersion(a) ==
  /\ rtPc[a] = "select"
  /\ rtRead' = [rtRead EXCEPT ![a] = Max(Versions \cup {0})]
  /\ Go(a, "insert")
  /\ UNCHANGED <<rtReview, rtResult, rtRows, rtBlob, rtSent, rtRuns>>

RowBy(a) == [version |-> rtRead[a] + 1, by |-> a, review |-> rtReview[a]]

\* Mutant: the table does not constrain the version of a type.
InsertUnconstrained(a) ==
  /\ rtPc[a] = "insert"
  /\ Ends(a, "completed") /\ rtRows' = rtRows \cup {RowBy(a)}
  /\ UNCHANGED <<rtReview, rtRead, rtBlob, rtSent, rtRuns>>

\* A version that another agent inserted meanwhile violates the unique constraint, as a
\* database that is gone fails the transaction: the run fails.
InsertRow(a) ==
  /\ rtPc[a] = "insert"
  /\ \/ /\ rtRead[a] + 1 \notin Versions
        /\ Ends(a, "completed") /\ rtRows' = rtRows \cup {RowBy(a)}
     \/ Ends(a, "failed") /\ UNCHANGED rtRows
  /\ UNCHANGED <<rtReview, rtRead, rtBlob, rtSent, rtRuns>>

\* Always runs.  Only a result that execute returned has events queued; each is
\* published best effort.  What the run knew goes with it.
PostExecute(a) ==
  /\ rtPc[a] = "flush" /\ Go(a, "idle")
  /\ \/ /\ rtResult[a] = "completed"
        /\ rtSent' = rtSent \cup {[version |-> rtRead[a] + 1, by |-> a]}
     \/ UNCHANGED rtSent
  /\ rtReview' = [rtReview EXCEPT ![a] = Unreviewed]
  /\ rtRead' = [rtRead EXCEPT ![a] = 0] /\ rtResult' = [rtResult EXCEPT ![a] = "none"]
  /\ UNCHANGED <<rtRows, rtBlob, rtRuns>>

AgentStep(a) ==
  \/ PreExecute(a) \/ CallLlm(a) \/ Critique(a) \/ Improve(a) \/ Judge(a)
  \/ StoreContent(a) \/ SelectVersion(a) \/ InsertRow(a) \/ PostExecute(a)

RtNext == \E a \in RtAgents : AgentStep(a)

RtSpec == RtInit /\ [][RtNext]_rtVars

-----------------------------------------------------------------------------
\* However the agents of a batch interleave between reading the highest version and
\* inserting the next, the rows of a type are numbered without gap or duplicate; and what
\* an agent announces is a row that it wrote itself, whatever failed on the way.
AnnouncedAsNumbered ==
  /\ Versions = 1 .. Cardinality(rtRows)
  /\ \A e \in rtSent : \E row \in rtRows : row.version = e.version /\ row.by = e.by

\* An output whose last improvement no critique has seen is only stored when the review
\* has used all its cycles, each of them with blocking issues.
UncritiquedOnlyWhenSpent ==
  \A row \in rtRows : row.review.blocking => row.review.cycles = RtMaxReviewCycles
=============================================================================
