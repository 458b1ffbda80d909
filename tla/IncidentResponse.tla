-------------------------- MODULE IncidentResponse --------------------------
(***************************************************************************)
(* The Incident Response Service (services/incident_response): each        *)
(* message on monitoring.incident starts one run of W-INCIDENT-RESPONSE as *)
(* a task and is acknowledged at once.  A run analyzes, recovers,          *)
(* communicates and finalizes; only the last writes the incident's row.    *)
(*                                                                         *)
(* The module extends Monitoring, whose incidents are its messages.  The   *)
(* broker delivers a message again while it is not acknowledged; a restart *)
(* of the service loses the tasks that run.                                *)
(***************************************************************************)
EXTENDS Monitoring

CONSTANTS
  IrEligible,     \* ROLLBACK_ELIGIBLE_COMPONENTS
  IrMaxRuns,      \* bound: runs in a behaviour
  IrMaxRestarts   \* bound: restarts of the service

ASSUME IncidentResponseAssumption ==
  IrEligible \subseteq MonComponents /\ IrMaxRuns \in Nat /\ IrMaxRestarts \in Nat

VARIABLES
  irRuns,       \* the runs started: incident, node and the state the nodes share
  irAcked,      \* the messages acknowledged
  irRow,        \* status of the row in incidents, by incident; "none" when there is none
  irReported,   \* the incidents with a row in incident_reports
  irRecent,     \* a deployment completed within the correlation window
  irRestarts

irVars == <<irRuns, irAcked, irRow, irReported, irRecent, irRestarts>>

RunIds == DOMAIN irRuns
RowOf(i) == IF i \in DOMAIN irRow THEN irRow[i] ELSE "none"
SetRowTo(i, status) == [j \in DOMAIN irRow \cup {i} |-> IF j = i THEN status ELSE irRow[j]]
Step(r, state) == irRuns' = [irRuns EXCEPT ![r] = state]
Live(r) == irRuns[r].pc \notin {"done", "lost"}

IrInit ==
  /\ irRuns = <<>> /\ irAcked = {} /\ irRow = <<>> /\ irReported = {}
  /\ irRecent \in BOOLEAN /\ irRestarts = 0

\* incident_handler creates the task and returns; the acknowledgement may be lost.
IncidentHandler(i) ==
  /\ i \in monSent \ irAcked /\ Cardinality(RunIds) < IrMaxRuns
  /\ irRuns' = [r \in RunIds \cup {Cardinality(RunIds) + 1} |->
                  IF r \in RunIds THEN irRuns[r]
                  ELSE [incident |-> i, pc |-> "analyze", action |-> "none",
                        recovery |-> "skipped", final |-> "monitoring", clean |-> TRUE]]
  /\ irAcked' \in {irAcked, irAcked \cup {i}}
  /\ UNCHANGED <<irRow, irReported, irRecent, irRestarts>>

\* classify_incident, of the CRITICAL severity that Monitoring sends.
Classify(i) ==
  IF i.component \in IrEligible /\ i.cycles >= MonBreachCycles /\ irRecent
  THEN "rollback" ELSE "restart"

\* A classifier that fails leaves no recommendation, which routes past recovery.
Analyze(r) ==
  /\ irRuns[r].pc = "analyze"
  /\ \/ Step(r, [irRuns[r] EXCEPT !.action = Classify(irRuns[r].incident), !.pc = "recover"])
     \/ Step(r, [irRuns[r] EXCEPT !.action = "None", !.pc = "communicate", !.clean = FALSE])
  /\ UNCHANGED <<irAcked, irRow, irReported, irRecent, irRestarts>>

\* What the context built for the next lead holds of the classification: nothing.
SeenByRecovery(action) == "none"

\* The workers of the recovery lead: a rollback that DevOps answers is completed, and
\* the rest is left to an operator.
RecoveryOutcomes(action) == IF action = "rollback" THEN {"completed", "failed"} ELSE {"skipped"}

Recover(r) ==
  /\ irRuns[r].pc = "recover"
  /\ \/ \E outcome \in RecoveryOutcomes(SeenByRecovery(irRuns[r].action)) :
          Step(r, [irRuns[r] EXCEPT !.recovery = outcome, !.pc = "communicate"])
     \/ Step(r, [irRuns[r] EXCEPT !.pc = "communicate", !.clean = FALSE])
  /\ UNCHANGED <<irAcked, irRow, irReported, irRecent, irRestarts>>

FinalStatus(recovery, action) ==
  IF action = "none" \/ recovery = "completed" THEN "resolved" ELSE "monitoring"

\* Without a recommendation the reporting worker raises and the default stays.  The
\* report's row refers to the incident's, which another run must have written.
Communicate(r) ==
  /\ irRuns[r].pc = "communicate"
  /\ Step(r, [irRuns[r] EXCEPT !.pc = "finalize",
                !.final = IF irRuns[r].action = "None" THEN "monitoring"
                          ELSE FinalStatus(irRuns[r].recovery, irRuns[r].action)])
  /\ \/ /\ irRuns[r].action # "None" /\ RowOf(irRuns[r].incident) # "none"
        /\ irReported' = irReported \cup {irRuns[r].incident}
     \/ UNCHANGED irReported
  /\ UNCHANGED <<irAcked, irRow, irRecent, irRestarts>>

\* Mutant: the status of the row is only written once the timeline is stored.
FinalizeNever(r) ==
  /\ irRuns[r].pc = "finalize"
  /\ Step(r, [irRuns[r] EXCEPT !.pc = "done"])
  /\ UNCHANGED <<irAcked, irRow, irReported, irRecent, irRestarts>>

\* One best-effort transaction creates the row and sets its status, whatever it was.
Finalize(r) ==
  /\ irRuns[r].pc = "finalize"
  /\ \/ /\ irRow' = SetRowTo(irRuns[r].incident, irRuns[r].final)
        /\ Step(r, [irRuns[r] EXCEPT !.pc = "done"])
     \/ /\ Step(r, [irRuns[r] EXCEPT !.pc = "lost"])
        /\ UNCHANGED irRow
  /\ UNCHANGED <<irAcked, irReported, irRecent, irRestarts>>

\* Operators close an incident that has a row; one without is not found.
CloseIncident(i) ==
  /\ RowOf(i) # "none"
  /\ irRow' = SetRowTo(i, "closed")
  /\ UNCHANGED <<irRuns, irAcked, irReported, irRecent, irRestarts>>

\* A deployment completes, or the last one leaves the window.
Deployments ==
  /\ irRecent' = ~irRecent
  /\ UNCHANGED <<irRuns, irAcked, irRow, irReported, irRestarts>>

IrRestart ==
  /\ irRestarts < IrMaxRestarts /\ irRestarts' = irRestarts + 1
  /\ irRuns' = [r \in RunIds |-> IF Live(r) THEN [irRuns[r] EXCEPT !.pc = "lost"] ELSE irRuns[r]]
  /\ UNCHANGED <<irAcked, irRow, irReported, irRecent>>

RunStep(r) == Analyze(r) \/ Recover(r) \/ Communicate(r) \/ Finalize(r)

IrNext ==
  \/ \E i \in monSent : IncidentHandler(i) \/ CloseIncident(i)
  \/ \E r \in RunIds : RunStep(r)
  \/ Deployments
  \/ IrRestart

IncidentInit == MonInit /\ IrInit
IncidentNext == (MonNext /\ UNCHANGED irVars) \/ (IrNext /\ UNCHANGED monVars)

\* A task that was started is scheduled until it ends.
IncidentFairness == \A r \in 1 .. IrMaxRuns : WF_<<monVars, irVars>>(r \in RunIds /\ RunStep(r) /\ UNCHANGED monVars)

IncidentSpec == IncidentInit /\ [][IncidentNext]_<<monVars, irVars>> /\ IncidentFairness

-----------------------------------------------------------------------------
\* What an operator closed stays closed, unless the message was delivered twice: no
\* run of an incident is left to write its row once there is one to close.
ClosedStaysClosed ==
  \A i \in DOMAIN irRow : irRow[i] = "closed" /\ irRow'[i] # "closed" =>
    \E r, s \in RunIds : r # s /\ irRuns[r].incident = i /\ irRuns[s].incident = i

\* So it stays; and the message is acknowledged before its run does anything, so that the
\* run is all that is left of it: it ends with the incident's row written, unless a restart
\* or a failed transaction loses it.
RunsEndForGood ==
  /\ [][ClosedStaysClosed]_irVars
  /\ \A r \in 1 .. IrMaxRuns :
       r \in RunIds ~> r \in RunIds /\ (irRuns[r].pc = "lost" \/ RowOf(irRuns[r].incident) # "none")

\* A rollback the classifier recommends is attempted: no human approval is required.
RecommendedRollbackIsTried ==
  \A r \in RunIds :
    irRuns[r].clean /\ irRuns[r].action = "rollback"
                    /\ irRuns[r].pc \in {"communicate", "finalize", "done"}
      => irRuns[r].recovery # "skipped"
=============================================================================
