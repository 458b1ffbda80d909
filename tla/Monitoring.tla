----------------------------- MODULE Monitoring -----------------------------
(***************************************************************************)
(* The Monitoring Service (services/monitoring): a loop that invokes the   *)
(* graph W-MONITORING once per cycle and feeds its final state back.  A    *)
(* cycle collects a score per component, scores the platform and decides   *)
(* incidents, raises alerts, and ends.                                     *)
(*                                                                         *)
(* An agent's run returns what its work raises as a failed result, so no   *)
(* node raises and the loop's own except clause has nothing to catch.      *)
(* The loop passes no checkpointer, so the streaks and the alert stamps    *)
(* live in the loop's state and a restart starts them afresh.              *)
(***************************************************************************)
EXTENDS Naturals, FiniteSets

CONSTANTS
  MonComponents,     \* MonitoredComponent
  MonBreachCycles,   \* incident_breach_cycles
  MonDedupCycles,    \* alert_dedup_seconds, in cycles
  MonMaxCycles,      \* bound: cycles in a behaviour
  MonMaxRestarts     \* bound: restarts of the service

ASSUME MonitoringAssumption ==
  /\ MonBreachCycles \in Nat \ {0} /\ MonDedupCycles \in Nat
  /\ MonMaxCycles \in Nat /\ MonMaxRestarts \in Nat

VARIABLES
  monPc,        \* the node of the graph that runs next
  monCycles,    \* cycles begun
  monScore,     \* component_scores, as classified
  monStreak,    \* consecutive_critical_count
  monCritical,  \* what it should count: the component's unbroken critical cycles
  monStamped,   \* the keys of last_alert_at
  monOpen,      \* the keys with an open row in alerts
  monSilent,    \* cycles a key has been degraded since its last alert
  monSent,      \* the incidents published on monitoring.incident
  monRestarts

monVars == <<monPc, monCycles, monScore, monStreak, monCritical, monStamped, monOpen,
             monSilent, monSent, monRestarts>>

\* An alert is identified by its component and the status of its score.
Keys == MonComponents \X {"warning", "critical"}
Degraded(scores) == {k \in Keys : scores[k[1]] = k[2]}

MonInit ==
  /\ monPc = "collect" /\ monCycles = 0 /\ monRestarts = 0
  /\ monScore = [c \in MonComponents |-> "healthy"]
  /\ monStreak = [c \in MonComponents |-> 0]
  /\ monCritical = [c \in MonComponents |-> 0]
  /\ monStamped = {} /\ monOpen = {} /\ monSent = {}
  /\ monSilent = [k \in Keys |-> 0]

\* A provider that fails scores its components 0, so every component has a score.
Collect ==
  /\ monPc = "collect" /\ monCycles < MonMaxCycles
  /\ monPc' = "score" /\ monCycles' = monCycles + 1
  /\ monScore' \in [MonComponents -> {"healthy", "warning", "critical"}]
  /\ monCritical' = [c \in MonComponents |->
                       IF monScore'[c] = "critical" THEN monCritical[c] + 1 ELSE 0]
  /\ UNCHANGED <<monStreak, monStamped, monOpen, monSilent, monSent, monRestarts>>

\* Mutant: a component that recovers keeps its streak.
StreaksKept == [c \in MonComponents |->
                  IF monScore[c] = "critical" THEN monStreak[c] + 1 ELSE monStreak[c]]

Streaks == [c \in MonComponents |-> IF monScore[c] = "critical" THEN monStreak[c] + 1 ELSE 0]

\* Every component at or past the breach is an incident, with a new id each cycle.
Incidents(streaks) ==
  {[component |-> c, cycle |-> monCycles, cycles |-> streaks[c], critical |-> monCritical[c]] :
     c \in {d \in MonComponents : streaks[d] >= MonBreachCycles}}

\* The head publishes after it stored its artifacts.  When one cannot be stored the
\* node finds no content: the streaks are gone and nothing is published.
ScoreAndPublish ==
  /\ monPc = "score" /\ monPc' = "alert"
  /\ \/ /\ monStreak' = Streaks
        /\ \E published \in SUBSET Incidents(Streaks) : monSent' = monSent \cup published
     \/ /\ monStreak' = [c \in MonComponents |-> 0]
        /\ UNCHANGED monSent
  /\ UNCHANGED <<monCycles, monScore, monCritical, monStamped, monOpen, monSilent, monRestarts>>

\* The stamps come back as text.  Comparing one with the time raises before anything
\* is raised; when none is compared, writing them back as text again raises after the
\* new alerts' rows are opened and before their events are returned.
AlertsRaised == IF monStamped = {} THEN Degraded(monScore) ELSE {}

RowsOpened ==
  IF Degraded(monScore) \cap monStamped = {} THEN Degraded(monScore) ELSE {}

\* A row is opened unless one is open, each in a best-effort transaction.
DashboardAndAlert ==
  /\ monPc = "alert" /\ monPc' = "publish"
  /\ \E opened \in SUBSET RowsOpened : monOpen' = monOpen \cup opened
  /\ monStamped' = monStamped \cup AlertsRaised
  /\ monSilent' = [k \in Keys |-> IF k \notin Degraded(monScore) \ AlertsRaised THEN 0
                                  ELSE IF monSilent[k] > MonDedupCycles THEN monSilent[k]
                                  ELSE monSilent[k] + 1]
  /\ UNCHANGED <<monCycles, monScore, monStreak, monCritical, monSent, monRestarts>>

\* The hand-off to incidents is a log line: the cycle ends either way.
Publish ==
  /\ monPc = "publish" /\ monPc' = "collect"
  /\ UNCHANGED <<monCycles, monScore, monStreak, monCritical, monStamped, monOpen, monSilent,
                 monSent, monRestarts>>

Acknowledge(k) ==
  /\ k \in monOpen /\ monOpen' = monOpen \ {k}
  /\ UNCHANGED <<monPc, monCycles, monScore, monStreak, monCritical, monStamped, monSilent,
                 monSent, monRestarts>>

\* The loop starts with initial_state.  The components go on as they were.
MonRestart ==
  /\ monRestarts < MonMaxRestarts /\ monRestarts' = monRestarts + 1
  /\ monPc' = "collect"
  /\ monStreak' = [c \in MonComponents |-> 0] /\ monStamped' = {}
  /\ monSilent' = [k \in Keys |-> 0]
  /\ UNCHANGED <<monCycles, monScore, monCritical, monOpen, monSent>>

MonCycle == Collect \/ ScoreAndPublish \/ DashboardAndAlert \/ Publish

MonNext == MonCycle \/ (\E k \in Keys : Acknowledge(k)) \/ MonRestart

MonSpec == MonInit /\ [][MonNext]_monVars

-----------------------------------------------------------------------------
\* Nothing is handed to Incident Response as an incident unless its component was
\* critical in that many consecutive cycles, the configured number at least, whatever
\* failed cycles and restarts lie in between: the streak never counts too much.
IncidentsAreSustained ==
  \A i \in monSent : MonBreachCycles <= i.cycles /\ i.cycles <= i.critical

\* A component that stays degraded is alerted again when the dedup window is over.
AlertsOutlastTheWindow == \A k \in Keys : monSilent[k] <= MonDedupCycles
=============================================================================
