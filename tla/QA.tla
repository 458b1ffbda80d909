--------------------------------- MODULE QA ---------------------------------
(***************************************************************************)
(* The QA Service: QAHead runs four test leads in two stages, gathers what *)
(* their workers left in the task's context and turns it into a verdict,   *)
(* defects and a retry request for Engineering.                            *)
(*                                                                         *)
(* The content of a report is abstracted to whether it meets its gate.  No *)
(* code sets the overrides of thresholds and regressions, so the suite     *)
(* never finds a regression and the estimated latency is always in bounds. *)
(***************************************************************************)
EXTENDS Naturals, Sequences, FiniteSets

VARIABLES qaPc,    \* where the head is
          qaSpec,  \* the context holds an API specification with endpoints
          qaWork,  \* worker -> "waiting", or what it returned
          qaCtx,   \* artifact type -> the content the context holds under it
          qaSent,  \* what was announced, in order
          qaRows   \* artifact types with a row

qaVars == <<qaPc, qaSpec, qaWork, qaCtx, qaSent, qaRows>>

\* The artifact type each worker produces, and the stage its lead runs in.
QAProduces == [unit_test_writer |-> "unit_test_suite", coverage_analyzer |-> "coverage_report",
             integration_test_writer |-> "integration_test_suite",
             regression_suite |-> "regression_report", performance_test |-> "performance_report"]
QAWorkers == DOMAIN QAProduces
Reports == {QAProduces[w] : w \in QAWorkers}
StageOf(w) == IF w \in {"regression_suite", "performance_test"} THEN "execute" ELSE "generate"

\* _run_batches: the coverage analyzer waits for the unit test writer.
QAReady(w) == w = "coverage_analyzer" => qaWork["unit_test_writer"] # "waiting"

\* A worker returns a result that meets its gate or does not, or returns nothing:
\* it raised, or it escalated.  A suite meets its gate with enough tests.
TestWriter  == {"met", "unmet", "nothing"}
Coverage    == {IF qaCtx["unit_test_suite"] = "met" THEN "met" ELSE "unmet", "nothing"}
Contract    == {IF qaSpec THEN "met" ELSE "unmet", "nothing"}
Regression  == {"met", "nothing"}
Performance == {"met", "nothing"}

QAOutcomes(w) ==
    CASE w = "unit_test_writer"        -> TestWriter
      [] w = "coverage_analyzer"       -> Coverage
      [] w = "integration_test_writer" -> Contract
      [] w = "regression_suite"        -> Regression
      [] w = "performance_test"        -> Performance

-----------------------------------------------------------------------------
QAInit ==
    /\ qaPc = "idle" /\ qaSpec = FALSE /\ qaSent = <<>> /\ qaRows = {}
    /\ qaWork = [w \in QAWorkers |-> "waiting"] /\ qaCtx = [t \in Reports |-> "absent"]

\* Without source code in the context the head announces a failure and escalates.
QAStart ==
    /\ qaPc = "idle"
    /\ \E source, spec \in BOOLEAN :
         /\ qaPc' = IF source THEN "generate" ELSE "escalated"
         /\ qaSent' = IF source THEN qaSent ELSE <<"failed">>
         /\ qaSpec' = spec
    /\ UNCHANGED <<qaWork, qaCtx, qaRows>>

\* _ctx_record_suite: a worker's result is recorded under its artifact type.
QARecord(w, o) == qaCtx' = IF o = "nothing" THEN qaCtx ELSE [qaCtx EXCEPT ![QAProduces[w]] = o]

QARunWorker(w) ==
    /\ qaPc = StageOf(w) /\ qaWork[w] = "waiting" /\ QAReady(w)
    /\ \E o \in QAOutcomes(w) :
         /\ qaWork' = [qaWork EXCEPT ![w] = o]
         /\ QARecord(w, o)
         /\ qaRows' = IF o = "nothing" THEN qaRows ELSE qaRows \cup {QAProduces[w]}
    /\ UNCHANGED <<qaPc, qaSpec, qaSent>>

\* The head's _ctx_update: the result of a lead carries the artifacts of all its
\* workers, and its own content replaces theirs under each of these types.
LeadUpdate(stage) ==
    [t \in Reports |-> IF \E w \in QAWorkers : StageOf(w) = stage /\ QAProduces[w] = t /\ qaWork[w] # "nothing"
                       THEN "lead" ELSE qaCtx[t]]

\* The leads of a stage complete whatever their workers return.
LeadsReturn ==
    /\ qaPc \in {"generate", "execute"}
    /\ \A w \in QAWorkers : StageOf(w) = qaPc => qaWork[w] # "waiting"
    /\ qaCtx' = LeadUpdate(qaPc)
    /\ qaPc' = IF qaPc = "generate" THEN "execute" ELSE "aggregate"
    /\ UNCHANGED <<qaSpec, qaWork, qaSent, qaRows>>

\* The content of a report is read into its model, which a lead's content does not fit.
Unreadable == \E t \in {"coverage_report", "regression_report", "performance_report"} : qaCtx[t] = "lead"

\* classify_defects: an absent coverage report counts as no coverage, an absent
\* regression or performance report as met; the contract is read from the record
\* of its worker, and counts as met without one.
QABlocking ==
    {t \in {"coverage_report"} : qaCtx[t] # "met"} \cup
    {t \in {"regression_report"} : qaCtx[t] = "unmet"} \cup
    {t \in {"integration_test_suite"} : qaWork["integration_test_writer"] = "unmet"}
Defects == QABlocking \cup {t \in {"performance_report"} : qaCtx[t] = "unmet"}

\* The verdict: a warning passes.  The outcome goes out twice, published by the head
\* and flushed from its result.
QAAnnounce ==
    IF QABlocking # {} THEN <<"retry", "failed", "failed">> ELSE <<"completed", "completed">>

\* Mutant: the outcome is announced before the report is stored.
QAAggregateEarly ==
    /\ qaPc = "aggregate" /\ ~Unreadable
    /\ qaSent' = (IF Defects = {} THEN qaSent ELSE Append(qaSent, "defects")) \o QAAnnounce
    /\ \/ qaPc' = "unstored" /\ UNCHANGED qaRows
       \/ qaPc' = IF QABlocking = {} THEN "completed" ELSE "failed"
          /\ qaRows' = qaRows \cup {"qa_report"}
    /\ UNCHANGED <<qaSpec, qaWork, qaCtx>>

\* Aggregation raises on an unreadable report and announces nothing.  Otherwise the
\* defects are announced, the report is stored, or raises, then the rest goes out.
QAAggregate ==
    /\ qaPc = "aggregate"
    /\ IF Unreadable
       THEN qaPc' = "failed" /\ UNCHANGED <<qaSent, qaRows>>
       ELSE LET announced == IF Defects = {} THEN qaSent ELSE Append(qaSent, "defects") IN
            \/ qaPc' = "unstored" /\ qaSent' = announced /\ UNCHANGED qaRows
            \/ /\ qaPc' = IF QABlocking = {} THEN "completed" ELSE "failed"
               /\ qaSent' = announced \o QAAnnounce
               /\ qaRows' = qaRows \cup {"qa_report"}
    /\ UNCHANGED <<qaSpec, qaWork, qaCtx>>

QANext == QAStart \/ LeadsReturn \/ QAAggregate \/ \E w \in QAWorkers : QARunWorker(w)

QASpec == QAInit /\ [][QANext]_qaVars

-----------------------------------------------------------------------------
Announced(s) == \E i \in DOMAIN qaSent : qaSent[i] = s

\* Engineering is asked to retry only after the defects were announced and the
\* report that lists them was stored, and then QA is announced as failed; a run
\* that broke down before its report asks for nothing.
RetryFollowsDefectsAndReport ==
    /\ Announced("retry") =>
         /\ Head(qaSent) = "defects" /\ "qa_report" \in qaRows /\ qaPc = "failed"
         /\ Announced("failed")
    /\ "qa_report" \notin qaRows /\ qaPc # "escalated" => ~Announced("failed") /\ ~Announced("retry")
=============================================================================
