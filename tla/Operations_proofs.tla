-------------------------- MODULE Operations_proofs --------------------------
(***************************************************************************)
(* What runs beside the departments, proved for any number of components,  *)
(* incidents, sockets, messages, scenarios and calls.  A section per       *)
(* component: its inductive invariant as a conjunction of named parts, a   *)
(* lemma per group of actions, and the theorems.                           *)
(*                                                                         *)
(*   Monitoring         IncidentsAreEarned                                 *)
(*   Incident response  ClosedForGood                                      *)
(*   State machines     GraphsAreGated                                     *)
(*   WebSockets         SocketsAreReached                                  *)
(*   Messaging          AcknowledgedWorkIsDone                             *)
(*   Chaos testing      RetriesAreWorthTheirName, ShortSuitesAreTold       *)
(*   Model calls        TiersAreKept                                       *)
(*   Production records RecordsAreKept                                     *)
(***************************************************************************)
EXTENDS IncidentResponse, DepartmentGraphs, WebSockets, Messaging, Chaos, ModelCalls,
        ProductionRecords, FiniteSetTheorems, SequenceTheorems, WellFoundedInduction, TLAPS

-----------------------------------------------------------------------------
(***************************************************************************)
(* Monitoring                                                              *)
(***************************************************************************)
\* The types of the loop's state.
MonTypeOK ==
  /\ monPc \in {"collect", "score", "alert", "publish"}
  /\ monCycles \in Nat
  /\ monScore \in [MonComponents -> {"healthy", "warning", "critical"}]
  /\ monStreak \in [MonComponents -> Nat]
  /\ monCritical \in [MonComponents -> Nat]

\* A streak never counts too much, and before it is scored this cycle is not in it yet.
StreaksAreLived ==
  \A c \in MonComponents :
    IF monPc = "score" THEN monScore[c] = "critical" => monStreak[c] < monCritical[c]
    ELSE monStreak[c] <= monCritical[c]

MonInv == MonTypeOK /\ StreaksAreLived /\ IncidentsAreSustained

\* Nothing was scored or sent when the loop starts.
LEMMA MonInitInv == MonInit => MonInv
BY DEF MonInit, MonInv, MonTypeOK, StreaksAreLived, IncidentsAreSustained

\* Scoring counts this cycle, and publishes only what it counted.
LEMMA ScoreInv ==
  ASSUME MonInv, ScoreAndPublish
  PROVE  MonInv'
<1>1. MonTypeOK /\ StreaksAreLived /\ monPc = "score" /\ monPc' = "alert"
      /\ UNCHANGED <<monCycles, monScore, monCritical>>
  BY DEF MonInv, ScoreAndPublish
<1>2. Streaks \in [MonComponents -> Nat]
      /\ \A c \in MonComponents : Streaks[c] <= monCritical[c]
  BY <1>1 DEF Streaks, MonTypeOK, StreaksAreLived
<1>3. /\ monStreak' \in [MonComponents -> Nat]
      /\ \A c \in MonComponents : monStreak'[c] <= monCritical[c]
  <2>1. CASE monStreak' = Streaks
    BY <1>2, <2>1
  <2>2. CASE monStreak' = [c \in MonComponents |-> 0]
    BY <1>1, <2>2 DEF MonTypeOK
  <2> QED BY <2>1, <2>2 DEF ScoreAndPublish
<1>4. \A i \in Incidents(Streaks) : MonBreachCycles <= i.cycles /\ i.cycles <= i.critical
  BY <1>2 DEF Incidents
<1>5. IncidentsAreSustained'
  <2>1. monSent' \subseteq monSent \cup Incidents(Streaks)
    BY DEF ScoreAndPublish
  <2> QED BY <1>4, <2>1 DEF MonInv, IncidentsAreSustained
<1>6. MonTypeOK' /\ StreaksAreLived'
  BY <1>1, <1>3 DEF MonTypeOK, StreaksAreLived
<1> QED BY <1>5, <1>6 DEF MonInv

\* The steps but the scoring leave the streaks as they are, or forget them (MonRestart).
LEMMA MonStepInv == MonInv /\ [MonNext]_monVars => MonInv'
<1> SUFFICES ASSUME MonInv, [MonNext]_monVars PROVE MonInv' OBVIOUS
<1> USE DEF MonInv
<1>1. CASE UNCHANGED monVars
  BY <1>1 DEF monVars, MonTypeOK, StreaksAreLived, IncidentsAreSustained
<1>2. CASE Collect
  <2>1. MonTypeOK'
    BY <1>2 DEF Collect, MonTypeOK
  <2>2. StreaksAreLived'
    BY <1>2 DEF Collect, MonTypeOK, StreaksAreLived
  <2> QED BY <1>2, <2>1, <2>2 DEF Collect, IncidentsAreSustained
<1>3. CASE DashboardAndAlert \/ Publish \/ \E k \in Keys : Acknowledge(k)
  <2>1. /\ UNCHANGED <<monCycles, monScore, monStreak, monCritical, monSent>>
        /\ monPc' = monPc \/ (monPc \in {"alert", "publish"} /\ monPc' \in {"publish", "collect"})
    BY <1>3 DEF DashboardAndAlert, Publish, Acknowledge
  <2> QED BY <2>1 DEF MonTypeOK, StreaksAreLived, IncidentsAreSustained
<1>4. CASE MonRestart
  BY <1>4 DEF MonRestart, MonTypeOK, StreaksAreLived, IncidentsAreSustained
<1> QED BY <1>1, <1>2, <1>3, <1>4, ScoreInv DEF MonNext, MonCycle

\* Nothing is handed over as an incident unless its component was critical in as many
\* cycles on end as it says, and in as many as the breach asks for.
THEOREM IncidentsAreEarned == MonSpec => []IncidentsAreSustained
<1>1. MonInv => IncidentsAreSustained
  BY DEF MonInv
<1> QED BY <1>1, MonInitInv, MonStepInv, PTL DEF MonSpec

-----------------------------------------------------------------------------
(***************************************************************************)
(* Incident response                                                       *)
(***************************************************************************)
\* The runs are numbered, and an incident has its row from a run of it that is done.
IrInv ==
  /\ \E n \in Nat : RunIds = 1 .. n
  /\ \A r \in RunIds : DOMAIN irRuns[r] = {"incident", "pc", "action", "recovery", "final", "clean"}
  /\ \A i \in DOMAIN irRow :
       \E r \in RunIds : irRuns[r].incident = i /\ irRuns[r].pc = "done"

\* No incident was handled yet.
LEMMA IrInitInv == IrInit => IrInv
<1> SUFFICES ASSUME IrInit PROVE IrInv OBVIOUS
<1>1. RunIds = 1 .. 0 /\ DOMAIN irRow = {}
  BY DEF IrInit, RunIds
<1> QED BY <1>1 DEF IrInv

\* A step of a run that is not done leaves the other runs, and the rows but its own, alone.
LEMMA IrRunInv ==
  ASSUME IrInv, NEW r \in RunIds, irRuns[r].pc # "done",
         NEW state, DOMAIN state = DOMAIN irRuns[r], state.incident = irRuns[r].incident,
         Step(r, state),
         \/ UNCHANGED irRow
         \/ state.pc = "done" /\ DOMAIN irRow' = DOMAIN irRow \cup {state.incident}
  PROVE  IrInv'
<1>1. /\ RunIds' = RunIds
      /\ irRuns'[r] = state /\ \A q \in RunIds \ {r} : irRuns'[q] = irRuns[q]
  BY DEF Step, RunIds
<1>2. \E n \in Nat : RunIds' = 1 .. n
  BY <1>1 DEF IrInv
<1>3. \A q \in RunIds' : DOMAIN irRuns'[q] = {"incident", "pc", "action", "recovery", "final", "clean"}
  BY <1>1 DEF IrInv
<1>4. ASSUME NEW i \in DOMAIN irRow
      PROVE  \E q \in RunIds' : irRuns'[q].incident = i /\ irRuns'[q].pc = "done"
  BY <1>1 DEF IrInv
<1>5. \A i \in DOMAIN irRow' :
        \E q \in RunIds' : irRuns'[q].incident = i /\ irRuns'[q].pc = "done"
  BY <1>1, <1>4
<1> QED BY <1>2, <1>3, <1>5 DEF IrInv

\* An incident that arrives is numbered next; the steps of a run are those of IrRunInv.
LEMMA IrStepInv ==
  ASSUME IrInv, [IrNext]_irVars
  PROVE  IrInv'
<1>1. ASSUME NEW i \in monSent, IncidentHandler(i) PROVE IrInv'
  <2> DEFINE started == [incident |-> i, pc |-> "analyze", action |-> "none",
                         recovery |-> "skipped", final |-> "monitoring", clean |-> TRUE]
  <2>1. PICK n \in Nat : RunIds = 1 .. n
    BY DEF IrInv
  <2>2. Cardinality(RunIds) = n
    BY <2>1, FS_Interval
  <2>3. /\ RunIds' = RunIds \cup {n + 1}
        /\ \A r \in RunIds : irRuns'[r] = irRuns[r]
        /\ irRuns'[n + 1] = started
    BY <1>1, <2>1, <2>2 DEF IncidentHandler, RunIds
  <2>4. irRow' = irRow
    BY <1>1 DEF IncidentHandler
  <2>5. RunIds' = 1 .. n + 1 /\ n + 1 \in Nat
    BY <2>1, <2>3
  <2>6. DOMAIN started = {"incident", "pc", "action", "recovery", "final", "clean"}
    OBVIOUS
  <2> HIDE DEF started
  <2>7. \A r \in RunIds' :
          DOMAIN irRuns'[r] = {"incident", "pc", "action", "recovery", "final", "clean"}
    BY <2>3, <2>6 DEF IrInv
  <2>8. \A k \in DOMAIN irRow' :
          \E r \in RunIds' : irRuns'[r].incident = k /\ irRuns'[r].pc = "done"
    BY <2>3, <2>4 DEF IrInv
  <2> QED BY <2>5, <2>7, <2>8 DEF IrInv
<1>2. ASSUME NEW i \in monSent, CloseIncident(i) PROVE IrInv'
  <2>1. irRuns' = irRuns /\ i \in DOMAIN irRow
    BY <1>2 DEF CloseIncident, RowOf
  <2>2. DOMAIN irRow' = DOMAIN irRow
    BY <1>2, <2>1 DEF CloseIncident, SetRowTo
  <2> QED BY <2>1, <2>2 DEF IrInv, RunIds
<1>3. ASSUME NEW r \in RunIds, RunStep(r) PROVE IrInv'
  <2> DEFINE old == irRuns[r]
             Kept(state) == DOMAIN state = DOMAIN old /\ state.incident = old.incident
  <2>1. DOMAIN old = {"incident", "pc", "action", "recovery", "final", "clean"}
    BY DEF IrInv
  <2> HIDE DEF old
  <2>2. CASE Analyze(r)
    <3>1. \A v, w, x : Kept([old EXCEPT !.action = v, !.pc = w])
                       /\ Kept([old EXCEPT !.action = v, !.pc = w, !.clean = x])
      BY <2>1
    <3>2. irRuns[r].pc # "done" /\ UNCHANGED irRow
          /\ \E v, w, x : \/ Step(r, [old EXCEPT !.action = v, !.pc = w])
                        \/ Step(r, [old EXCEPT !.action = v, !.pc = w, !.clean = x])
      BY <2>2 DEF Analyze, old
    <3>3. \E state : Step(r, state) /\ Kept(state)
      <4> HIDE DEF Kept
      <4> QED BY <3>1, <3>2
    <3> QED BY <3>2, <3>3, IrRunInv DEF old
  <2>3. CASE Recover(r)
    <3>1. \A v, w, x : Kept([old EXCEPT !.recovery = v, !.pc = w])
                       /\ Kept([old EXCEPT !.pc = w, !.clean = x])
      BY <2>1
    <3>2. irRuns[r].pc # "done" /\ UNCHANGED irRow
          /\ \E v, w, x : \/ Step(r, [old EXCEPT !.recovery = v, !.pc = w])
                        \/ Step(r, [old EXCEPT !.pc = w, !.clean = x])
      BY <2>3 DEF Recover, old
    <3>3. \E state : Step(r, state) /\ Kept(state)
      <4> HIDE DEF Kept
      <4> QED BY <3>1, <3>2
    <3> QED BY <3>2, <3>3, IrRunInv DEF old
  <2>4. CASE Communicate(r)
    <3>1. \A v, w : Kept([old EXCEPT !.pc = v, !.final = w])
      BY <2>1
    <3>2. irRuns[r].pc # "done" /\ UNCHANGED irRow
          /\ \E v, w : Step(r, [old EXCEPT !.pc = v, !.final = w])
      BY <2>4 DEF Communicate, old
    <3>3. \E state : Step(r, state) /\ Kept(state)
      <4> HIDE DEF Kept
      <4> QED BY <3>1, <3>2
    <3> QED BY <3>2, <3>3, IrRunInv DEF old
  <2>5. CASE Finalize(r)
    <3>1. \A v : Kept([old EXCEPT !.pc = v]) /\ [old EXCEPT !.pc = v].pc = v
      BY <2>1
    <3>2. irRuns[r].pc # "done"
      BY <2>5 DEF Finalize
    <3>3. \E state : /\ Step(r, state) /\ Kept(state)
                     /\ \/ UNCHANGED irRow
                        \/ state.pc = "done" /\ DOMAIN irRow' = DOMAIN irRow \cup {state.incident}
      BY <2>5, <3>1 DEF Finalize, SetRowTo, old
    <3> QED BY <3>2, <3>3, IrRunInv DEF old
  <2> QED BY <1>3, <2>2, <2>3, <2>4, <2>5 DEF RunStep
<1>4. CASE Deployments
  BY <1>4 DEF Deployments, IrInv, RunIds
<1>5. CASE IrRestart
  BY <1>5 DEF IrRestart, Live, IrInv, RunIds
<1>6. CASE UNCHANGED irVars
  BY <1>6 DEF irVars, IrInv, RunIds
<1> QED BY <1>1, <1>2, <1>3, <1>4, <1>5, <1>6 DEF IrNext

\* What an operator closed stays closed: the run that wrote the row is done, so that only
\* another run of the same incident can write it again.
THEOREM ClosedForGood == IncidentSpec => [][ClosedStaysClosed]_irVars
<1>1. IncidentInit => IrInv
  BY IrInitInv DEF IncidentInit
<1>2. IrInv /\ [IncidentNext]_<<monVars, irVars>> => IrInv'
  BY IrStepInv DEF IncidentNext, IrInv, RunIds, irVars
<1>3. IrInv /\ [IncidentNext]_<<monVars, irVars>> => [ClosedStaysClosed]_irVars
  <2> SUFFICES ASSUME IrInv, IrNext, NEW i \in DOMAIN irRow, irRow[i] = "closed",
                      irRow'[i] # "closed"
               PROVE  \E r, s \in RunIds :
                        r # s /\ irRuns[r].incident = i /\ irRuns[s].incident = i
    BY DEF IncidentNext, ClosedStaysClosed
  <2>1. irRow' # irRow
    OBVIOUS
  <2>2. ASSUME NEW j \in monSent, CloseIncident(j) PROVE FALSE
    BY <2>2 DEF CloseIncident, SetRowTo
  <2>3. PICK r \in RunIds : Finalize(r)
    BY <2>1, <2>2 DEF IrNext, IncidentHandler, RunStep, Analyze, Recover, Communicate,
                      Deployments, IrRestart
  <2>4. irRuns[r].pc = "finalize" /\ irRuns[r].incident = i
    BY <2>1, <2>3 DEF Finalize, SetRowTo
  <2>5. PICK s \in RunIds : irRuns[s].incident = i /\ irRuns[s].pc = "done"
    BY DEF IrInv
  <2> QED BY <2>4, <2>5
<1> QED BY <1>1, <1>2, <1>3, PTL DEF IncidentSpec

-----------------------------------------------------------------------------
(***************************************************************************)
(* The state machines of the departments                                   *)
(***************************************************************************)
DgFields == {"status", "ready", "verdict", "cycles", "rounds", "dead", "valid", "decision"}

\* The channels that the gates read are the same.
Alike(next, st) ==
  /\ next.ready = st.ready /\ next.verdict = st.verdict /\ next.dead = st.dead
  /\ next.valid = st.valid /\ next.decision = st.decision

\* The edits of the nodes.
LEMMA NodeEdits ==
  ASSUME NEW st, DOMAIN st = DgFields
  PROVE  /\ \A s : Status(st, s).status = s /\ Alike(Status(st, s), st)
         /\ Counted(st).status = st.status /\ Alike(Counted(st), st)
         /\ \A n : LET next == TeamReady(st, n)
                   IN  /\ next.ready = st.ready \cup {n} /\ next.status = st.status
                       /\ next.verdict = st.verdict /\ next.dead = st.dead
                       /\ next.valid = st.valid /\ next.decision = st.decision
<1>1. \A s : Status(st, s).status = s /\ Alike(Status(st, s), st)
  BY DEF DgFields, Status, Alike
<1>2. Counted(st).status = st.status /\ Alike(Counted(st), st)
  BY DEF DgFields, Counted, Alike
<1>3. \A n : LET next == TeamReady(st, n)
             IN  /\ next.ready = st.ready \cup {n} /\ next.status = st.status
                 /\ next.verdict = st.verdict /\ next.dead = st.dead
                 /\ next.valid = st.valid /\ next.decision = st.decision
  BY DEF DgFields, TeamReady
<1> QED BY <1>1, <1>2, <1>3

\* No node adds or drops a channel.
LEMMA NodesKeepFields ==
  ASSUME NEW st, DOMAIN st = DgFields, NEW n
  PROVE  /\ DOMAIN ArchitectureNode(n, st) = DgFields /\ DOMAIN EngineeringNode(n, st) = DgFields
         /\ DOMAIN QANode(n, st) = DgFields /\ DOMAIN SecurityNode(n, st) = DgFields
         /\ DOMAIN DevOpsNode(n, st) = DgFields /\ DOMAIN DelegationNode(n, st) = DgFields
<1>1. DOMAIN ArchitectureNode(n, st) = DgFields
  BY DEF ArchitectureNode, TeamReady, Status, Running
<1>2. DOMAIN EngineeringNode(n, st) = DgFields
  BY DEF EngineeringNode, TeamReady, Status, Running, Counted
<1>3. DOMAIN QANode(n, st) = DgFields
  BY DEF QANode, TeamReady, Status, Running, Counted
<1>4. DOMAIN SecurityNode(n, st) = DgFields
  BY DEF SecurityNode, TeamReady, Status, Running, Counted
<1>5. DOMAIN DevOpsNode(n, st) = DgFields
  BY DEF DevOpsNode, TeamReady, Status, Running, Counted
<1>6. DOMAIN DelegationNode(n, st) = DgFields
  BY DEF DelegationNode, TeamReady, Status, Running, Counted
<1> QED BY <1>1, <1>2, <1>3, <1>4, <1>5, <1>6

\* The merged writes of a node that runs alone are its own.
LEMMA LoneStep ==
  ASSUME Superstep, NEW n, dgActive = {n}, DOMAIN NodeOf(n, dgState) = DgFields
  PROVE  /\ DOMAIN dgState' = DgFields /\ Alike(dgState', NodeOf(n, dgState))
         /\ dgState'.status = NodeOf(n, dgState).status
         /\ dgActive' = EdgesOf(n, dgState')
         /\ dgSent' = dgSent \o OutcomeOf(n) /\ dgGraph' = dgGraph
<1> DEFINE left == [m \in dgActive |-> NodeOf(m, dgState)]
           st   == [left[CHOOSE m \in dgActive : TRUE] EXCEPT
                       !.ready = UNION {left[m].ready : m \in dgActive}]
<1>1. (CHOOSE m \in dgActive : TRUE) = n
  OBVIOUS
<1>2. left[n] = NodeOf(n, dgState)
  OBVIOUS
<1>3. UNION {left[m].ready : m \in dgActive} = NodeOf(n, dgState).ready
  BY <1>2
<1>4. st = [NodeOf(n, dgState) EXCEPT !.ready = NodeOf(n, dgState).ready]
  BY <1>1, <1>2, <1>3
<1>5. DOMAIN st = DgFields /\ Alike(st, NodeOf(n, dgState))
      /\ st.status = NodeOf(n, dgState).status
  BY <1>4 DEF DgFields, Alike
<1>6. dgState' = st /\ dgActive' = UNION {EdgesOf(m, st) : m \in dgActive}
  BY DEF Superstep
<1>7. dgActive' = EdgesOf(n, dgState')
  BY <1>6
<1>8. Cardinality(dgActive) = 1
  BY FS_Singleton
<1> QED BY <1>1, <1>5, <1>6, <1>7, <1>8 DEF Superstep

\* Teams that run together write their own flags.
LEMMA TeamStep ==
  ASSUME Superstep, DOMAIN dgState = DgFields, dgActive # {},
         \A n \in dgActive : NodeOf(n, dgState) = TeamReady(dgState, n) /\ OutcomeOf(n) = <<>>,
         dgSent = <<>>
  PROVE  /\ DOMAIN dgState' = DgFields /\ dgState'.ready = dgState.ready \cup dgActive
         /\ dgState'.status = dgState.status
         /\ dgState'.verdict = dgState.verdict /\ dgState'.dead = dgState.dead
         /\ dgState'.valid = dgState.valid /\ dgState'.decision = dgState.decision
         /\ dgActive' = UNION {EdgesOf(n, dgState') : n \in dgActive}
         /\ dgSent' = <<>> /\ dgGraph' = dgGraph
<1> DEFINE left == [m \in dgActive |-> NodeOf(m, dgState)]
           first == CHOOSE m \in dgActive : TRUE
           st   == [left[first] EXCEPT !.ready = UNION {left[m].ready : m \in dgActive}]
<1>1. first \in dgActive
  OBVIOUS
<1>2. \A m \in dgActive : left[m] = TeamReady(dgState, m) /\ left[m].ready = dgState.ready \cup {m}
  BY NodeEdits
<1>3. UNION {left[m].ready : m \in dgActive} = dgState.ready \cup dgActive
  <2> HIDE DEF left
  <2>1. \A x : x \in UNION {left[m].ready : m \in dgActive} <=> x \in dgState.ready \cup dgActive
    BY <1>1, <1>2
  <2> QED BY <2>1
<1>4. DOMAIN left[first] = DgFields
  BY <1>1, <1>2 DEF TeamReady
<1>5. /\ left[first].status = dgState.status
      /\ left[first].verdict = dgState.verdict /\ left[first].dead = dgState.dead
      /\ left[first].valid = dgState.valid /\ left[first].decision = dgState.decision
  BY <1>1, <1>2, NodeEdits
<1>6. dgState' = st /\ dgActive' = UNION {EdgesOf(m, st) : m \in dgActive} /\ dgGraph' = dgGraph
      /\ dgSent' \in {dgSent \o OutcomeOf(first), dgSent}
  BY DEF Superstep
<1>7. OutcomeOf(first) = <<>>
  BY <1>1
<1> HIDE DEF left, first
<1>8. dgSent' = <<>>
  BY <1>6, <1>7
<1>9. dgActive' = UNION {EdgesOf(m, dgState') : m \in dgActive}
  BY <1>6
<1> QED BY <1>3, <1>4, <1>5, <1>6, <1>8, <1>9 DEF DgFields
\* What a rejected design keeps.
LEMMA RevisionEdit ==
  ASSUME NEW st, DOMAIN st = DgFields
  PROVE  LET new == [st EXCEPT !.rounds = st.rounds + 1, !.decision = "none", !.status = "running"]
         IN  new.status = "running" /\ new.ready = st.ready
BY DEF DgFields

\* What a retried task keeps.
LEMMA RetryEdit ==
  ASSUME NEW st, DOMAIN st = DgFields
  PROVE  LET new == [Counted(st) EXCEPT !.valid = FALSE]
         IN  new.status = st.status /\ new.ready = st.ready
BY DEF DgFields, Counted

\* Teams are ready of this graph, or injected with the platform designs, all or none.
Whole(own, st) ==
  /\ st.ready \subseteq own \cup ArchitectureTeams
  /\ st.ready \cap ArchitectureTeams = {} \/ ArchitectureTeams \subseteq st.ready

OnItsWay(own, st) == st.status # "completed" /\ Whole(own, st)

\* The nodes that queue an outcome.
Telling == {"publish_artifacts", "release", "notify_manager_failed", "handle_failure", "dlq"}

\* The teams of a graph are not those of another.
LEMMA TeamsApart ==
  /\ EngineeringTeams \cap ArchitectureTeams = {} /\ QATeams \cap ArchitectureTeams = {}
  /\ SecurityTeams \cap ArchitectureTeams = {} /\ EngineeringTeams \cap QATeams = {}
  /\ EngineeringTeams \cap SecurityTeams = {} /\ QATeams \cap SecurityTeams = {}
BY DEF ArchitectureTeams, EngineeringTeams, QATeams, SecurityTeams

\* What the teams of a graph add.
LEMMA WholeGrows ==
  ASSUME NEW own, own \cap ArchitectureTeams = {}, NEW more, more \subseteq own,
         NEW st, Whole(own, st), NEW next, next.ready = st.ready \cup more
  PROVE  Whole(own, next)
<1>1. next.ready \subseteq own \cup ArchitectureTeams
  BY DEF Whole
<1>2. next.ready \cap ArchitectureTeams = st.ready \cap ArchitectureTeams
  OBVIOUS
<1> QED BY <1>1, <1>2 DEF Whole
ArchitectureNodes == {"load_requirements", "system_design", "parallel_infra",
  "collect_parallel", "traceability", "architecture_review", "artifact_packaging",
  "approval_gate", "publish_artifacts", "revision", "max_revisions", "handle_failure"}

\* Past the fan-in all four platform designs are there, and what is published is approved.
ArchitectureTrail(n, st) ==
  /\ st.status # "completed" /\ st.ready \subseteq ArchitectureTeams
  /\ n \in {"traceability", "architecture_review", "artifact_packaging", "approval_gate",
            "publish_artifacts"} => ArchitectureTeams \subseteq st.ready
  /\ n = "publish_artifacts" => st.decision = "approved"

\* From each node the graph moves to one whose trail it has, or ends.
LEMMA ArchitectureMoves ==
  ASSUME NEW st, DOMAIN st = DgFields, NEW n \in ArchitectureNodes, ArchitectureTrail(n, st),
         NEW next, Alike(next, ArchitectureNode(n, st)),
         next.status = ArchitectureNode(n, st).status
  PROVE  \/ \E m \in ArchitectureNodes :
              ArchitectureEdges(n, next) = {m} /\ ArchitectureTrail(m, next)
              /\ (m = "handle_failure" \/ n \notin Telling)
         \/ /\ ArchitectureEdges(n, next) = {}
            /\ next.status = "completed" => 
                 /\ n = "publish_artifacts" /\ next.decision = "approved"
                 /\ next.ready \subseteq ArchitectureTeams /\ ArchitectureTeams \subseteq next.ready
<1>1. CASE n = "load_requirements"
  <2>1. ArchitectureNode(n, st) = Status(st, "running")
    BY <1>1 DEF ArchitectureNode, ArchitectureTeams
  <2>2. ArchitectureEdges(n, next) = {"system_design"}
    BY <1>1 DEF ArchitectureEdges, ArchitectureTeams
  <2>3. next.status = "running" /\ Alike(next, st)
    BY <2>1, NodeEdits DEF Alike
  <2> QED BY <1>1, <2>2, <2>3
             DEF Alike, ArchitectureTrail, ArchitectureNodes, Telling, OnItsWay, Whole
<1>2. CASE n = "system_design"
  <2>1. ArchitectureNode(n, st) = st
    BY <1>2 DEF ArchitectureNode, ArchitectureTeams
  <2>2. ArchitectureEdges(n, next) = Or(next.status = "failed", "parallel_infra")
    BY <1>2 DEF ArchitectureEdges, ArchitectureTeams
  <2>3. next.status = st.status /\ Alike(next, st)
    BY <2>1 DEF Alike
  <2> QED BY <1>2, <2>2, <2>3
             DEF Alike, ArchitectureTrail, ArchitectureNodes, Telling, OnItsWay, Whole, Or
<1>3. CASE n = "parallel_infra"
  <2>1. ArchitectureNode(n, st) = TeamReady(st, n)
    BY <1>3 DEF ArchitectureNode, ArchitectureTeams
  <2>2. ArchitectureEdges(n, next) = {"collect_parallel"}
    BY <1>3 DEF ArchitectureEdges, ArchitectureTeams
  <2>3. /\ next.ready = st.ready \cup {n} /\ next.status = st.status
        /\ next.verdict = st.verdict /\ next.dead = st.dead
        /\ next.valid = st.valid /\ next.decision = st.decision
    BY <2>1, NodeEdits DEF Alike
  <2> QED BY <1>3, <2>2, <2>3
             DEF Alike, ArchitectureTrail, ArchitectureNodes, Telling, OnItsWay, Whole,
                 ArchitectureTeams
<1>4. CASE n = "collect_parallel"
  <2>1. ArchitectureNode(n, st)
         = Status(st, IF ArchitectureTeams \subseteq st.ready THEN "running" ELSE "failed")
    BY <1>4 DEF ArchitectureNode, ArchitectureTeams, Running, Status
  <2>2. ArchitectureEdges(n, next) = Or(next.status = "failed", "traceability")
    BY <1>4 DEF ArchitectureEdges, ArchitectureTeams
  <2>3. /\ next.status \in {"running", "failed"} /\ Alike(next, st)
        /\ next.status # "failed" => ArchitectureTeams \subseteq st.ready
    BY <2>1, NodeEdits DEF Alike
  <2> QED BY <1>4, <2>2, <2>3
             DEF Alike, ArchitectureTrail, ArchitectureNodes, Telling, OnItsWay, Whole, Or
<1>5. CASE n = "traceability"
  <2>1. ArchitectureNode(n, st) = st
    BY <1>5 DEF ArchitectureNode, ArchitectureTeams
  <2>2. ArchitectureEdges(n, next) = {"architecture_review"}
    BY <1>5 DEF ArchitectureEdges, ArchitectureTeams
  <2>3. next.status = st.status /\ Alike(next, st)
    BY <2>1 DEF Alike
  <2> QED BY <1>5, <2>2, <2>3
             DEF Alike, ArchitectureTrail, ArchitectureNodes, Telling, OnItsWay, Whole
<1>6. CASE n = "architecture_review"
  <2>1. ArchitectureNode(n, st) = st
    BY <1>6 DEF ArchitectureNode, ArchitectureTeams
  <2>2. ArchitectureEdges(n, next) = {"artifact_packaging"}
    BY <1>6 DEF ArchitectureEdges, ArchitectureTeams
  <2>3. next.status = st.status /\ Alike(next, st)
    BY <2>1 DEF Alike
  <2> QED BY <1>6, <2>2, <2>3
             DEF Alike, ArchitectureTrail, ArchitectureNodes, Telling, OnItsWay, Whole
<1>7. CASE n = "artifact_packaging"
  <2>1. ArchitectureNode(n, st) = Status(st, "awaiting_approval")
    BY <1>7 DEF ArchitectureNode, ArchitectureTeams
  <2>2. ArchitectureEdges(n, next) = {"approval_gate"}
    BY <1>7 DEF ArchitectureEdges, ArchitectureTeams
  <2>3. next.status = "awaiting_approval" /\ Alike(next, st)
    BY <2>1, NodeEdits DEF Alike
  <2> QED BY <1>7, <2>2, <2>3
             DEF Alike, ArchitectureTrail, ArchitectureNodes, Telling, OnItsWay, Whole
<1>8. CASE n = "approval_gate"
  <2>1. ArchitectureNode(n, st) = st
    BY <1>8 DEF ArchitectureNode, ArchitectureTeams
  <2>2. ArchitectureEdges(n, next) = {CASE next.decision = "approved" -> "publish_artifacts"
               [] next.decision = "rejected" -> "revision"
               [] next.decision = "none" /\ next.rounds >= MaxRevisionRounds -> "max_revisions"
               [] OTHER -> "approval_gate"}
    BY <1>8 DEF ArchitectureEdges, ArchitectureTeams
  <2>3. next.status = st.status /\ Alike(next, st)
    BY <2>1 DEF Alike
  <2> QED BY <1>8, <2>2, <2>3
             DEF Alike, ArchitectureTrail, ArchitectureNodes, Telling, OnItsWay, Whole
<1>9. CASE n = "publish_artifacts"
  <2>1. ArchitectureNode(n, st) = Status(st, "completed")
    BY <1>9 DEF ArchitectureNode, ArchitectureTeams
  <2>2. ArchitectureEdges(n, next) = {}
    BY <1>9 DEF ArchitectureEdges, ArchitectureTeams
  <2>3. next.status = "completed" /\ Alike(next, st)
    BY <2>1, NodeEdits DEF Alike
  <2> QED BY <1>9, <2>2, <2>3
             DEF Alike, ArchitectureTrail, ArchitectureNodes, Telling, OnItsWay, Whole
<1>10. CASE n = "revision"
  <2>1. ArchitectureNode(n, st) = [st EXCEPT !.rounds = st.rounds + 1, !.decision = "none", !.status = "running"]
    BY <1>10 DEF ArchitectureNode, ArchitectureTeams
  <2>2. ArchitectureEdges(n, next) = {"system_design"}
    BY <1>10 DEF ArchitectureEdges, ArchitectureTeams
  <2>3. next.status = "running" /\ next.ready = st.ready
    BY <2>1, RevisionEdit DEF Alike
  <2> QED BY <1>10, <2>2, <2>3
             DEF Alike, ArchitectureTrail, ArchitectureNodes, Telling, OnItsWay, Whole
<1>11. CASE n = "max_revisions"
  <2>1. ArchitectureNode(n, st) = Status(st, "failed")
    BY <1>11 DEF ArchitectureNode, ArchitectureTeams
  <2>2. ArchitectureEdges(n, next) = {"handle_failure"}
    BY <1>11 DEF ArchitectureEdges, ArchitectureTeams
  <2>3. next.status = "failed" /\ Alike(next, st)
    BY <2>1, NodeEdits DEF Alike
  <2> QED BY <1>11, <2>2, <2>3
             DEF Alike, ArchitectureTrail, ArchitectureNodes, Telling, OnItsWay, Whole
<1>12. CASE n = "handle_failure"
  <2>1. ArchitectureNode(n, st) = Status(st, "failed")
    BY <1>12 DEF ArchitectureNode, ArchitectureTeams
  <2>2. ArchitectureEdges(n, next) = {}
    BY <1>12 DEF ArchitectureEdges, ArchitectureTeams
  <2>3. next.status = "failed" /\ Alike(next, st)
    BY <2>1, NodeEdits DEF Alike
  <2> QED BY <1>12, <2>2, <2>3
             DEF Alike, ArchitectureTrail, ArchitectureNodes, Telling, OnItsWay, Whole
<1> QED BY <1>1, <1>2, <1>3, <1>4, <1>5, <1>6, <1>7, <1>8, <1>9, <1>10, <1>11, <1>12
           DEF ArchitectureNodes
EngineeringNodes == {"implementation_plan", "task_breakdown", "aggregate_results",
  "review_cycle", "repository", "publish_artifacts", "dlq", "handle_failure"}

\* Past its fan-in all teams delivered; what is published was reviewed without a dead letter.
EngineeringTrail(n, st) ==
  /\ OnItsWay(EngineeringTeams, st)
  /\ n \in {"aggregate_results", "review_cycle", "repository", "publish_artifacts"} =>
       EngineeringTeams \subseteq st.ready
  /\ n \in {"review_cycle", "repository", "publish_artifacts"} => ~st.dead
  /\ n \in {"repository", "publish_artifacts"} => st.verdict # "fail"

\* From each node the graph moves to one whose trail it has, or ends.
LEMMA EngineeringMoves ==
  ASSUME NEW st, DOMAIN st = DgFields, NEW n \in EngineeringNodes, EngineeringTrail(n, st),
         NEW next, Alike(next, EngineeringNode(n, st)),
         next.status = EngineeringNode(n, st).status
  PROVE  \/ \E m \in EngineeringNodes :
              EngineeringEdges(n, next) = {m} /\ EngineeringTrail(m, next)
              /\ (m = "handle_failure" \/ n \notin Telling)
         \/ EngineeringEdges(n, next) = EngineeringTeams /\ OnItsWay(EngineeringTeams, next)
            /\ n \notin Telling
         \/ /\ EngineeringEdges(n, next) = {}
            /\ next.status = "completed" => 
                 /\ n = "publish_artifacts" /\ Whole(EngineeringTeams, next) /\ EngineeringTeams \subseteq next.ready
                 /\ ~next.dead /\ next.verdict # "fail"
<1>1. CASE n = "implementation_plan"
  <2>1. EngineeringNode(n, st) = Status(st, "running")
    BY <1>1 DEF EngineeringNode, EngineeringTeams
  <2>2. EngineeringEdges(n, next) = Or(next.status = "failed", "task_breakdown")
    BY <1>1 DEF EngineeringEdges, EngineeringTeams
  <2>3. next.status = "running" /\ Alike(next, st)
    BY <2>1, NodeEdits DEF Alike
  <2> QED BY <1>1, <2>2, <2>3
             DEF Alike, EngineeringTrail, EngineeringNodes, Telling, OnItsWay, Whole, Or
<1>2. CASE n = "task_breakdown"
  <2>1. EngineeringNode(n, st) = st
    BY <1>2 DEF EngineeringNode, EngineeringTeams
  <2>2. EngineeringEdges(n, next) = EngineeringTeams
    BY <1>2 DEF EngineeringEdges, EngineeringTeams
  <2>3. next.status = st.status /\ Alike(next, st)
    BY <2>1 DEF Alike
  <2> QED BY <1>2, <2>2, <2>3
             DEF Alike, EngineeringTrail, EngineeringNodes, Telling, OnItsWay, Whole
<1>3. CASE n = "aggregate_results"
  <2>1. EngineeringNode(n, st)
         = Status(st, IF EngineeringTeams \subseteq st.ready THEN "running" ELSE "failed")
    BY <1>3 DEF EngineeringNode, EngineeringTeams, Running, Status
  <2>2. EngineeringEdges(n, next) = Or(next.status = "failed", IF next.dead THEN "dlq" ELSE "review_cycle")
    BY <1>3 DEF EngineeringEdges, EngineeringTeams
  <2>3. /\ next.status \in {"running", "failed"} /\ Alike(next, st)
        /\ next.status # "failed" => EngineeringTeams \subseteq st.ready
    BY <2>1, NodeEdits DEF Alike
  <2> QED BY <1>3, <2>2, <2>3
             DEF Alike, EngineeringTrail, EngineeringNodes, Telling, OnItsWay, Whole, Or
<1>4. CASE n = "review_cycle"
  <2>1. EngineeringNode(n, st) = Counted(st)
    BY <1>4 DEF EngineeringNode, EngineeringTeams
  <2>2. EngineeringEdges(n, next) = {CASE next.verdict = "pass" -> "repository"
               [] next.verdict = "warn" /\ next.cycles < MaxReviewCycles -> "review_cycle"
               [] OTHER -> "handle_failure"}
    BY <1>4 DEF EngineeringEdges, EngineeringTeams
  <2>3. next.status = st.status /\ Alike(next, st)
    BY <2>1, NodeEdits DEF Alike
  <2> QED BY <1>4, <2>2, <2>3
             DEF Alike, EngineeringTrail, EngineeringNodes, Telling, OnItsWay, Whole
<1>5. CASE n = "repository"
  <2>1. EngineeringNode(n, st) = st
    BY <1>5 DEF EngineeringNode, EngineeringTeams
  <2>2. EngineeringEdges(n, next) = Or(next.status = "failed", "publish_artifacts")
    BY <1>5 DEF EngineeringEdges, EngineeringTeams
  <2>3. next.status = st.status /\ Alike(next, st)
    BY <2>1 DEF Alike
  <2> QED BY <1>5, <2>2, <2>3
             DEF Alike, EngineeringTrail, EngineeringNodes, Telling, OnItsWay, Whole, Or
<1>6. CASE n = "publish_artifacts"
  <2>1. EngineeringNode(n, st) = Status(st, "completed")
    BY <1>6 DEF EngineeringNode, EngineeringTeams
  <2>2. EngineeringEdges(n, next) = {}
    BY <1>6 DEF EngineeringEdges, EngineeringTeams
  <2>3. next.status = "completed" /\ Alike(next, st)
    BY <2>1, NodeEdits DEF Alike
  <2> QED BY <1>6, <2>2, <2>3
             DEF Alike, EngineeringTrail, EngineeringNodes, Telling, OnItsWay, Whole
<1>7. CASE n = "dlq"
  <2>1. EngineeringNode(n, st) = Status(st, "failed")
    BY <1>7 DEF EngineeringNode, EngineeringTeams
  <2>2. EngineeringEdges(n, next) = {"handle_failure"}
    BY <1>7 DEF EngineeringEdges, EngineeringTeams
  <2>3. next.status = "failed" /\ Alike(next, st)
    BY <2>1, NodeEdits DEF Alike
  <2> QED BY <1>7, <2>2, <2>3
             DEF Alike, EngineeringTrail, EngineeringNodes, Telling, OnItsWay, Whole
<1>8. CASE n = "handle_failure"
  <2>1. EngineeringNode(n, st) = Status(st, "failed")
    BY <1>8 DEF EngineeringNode, EngineeringTeams
  <2>2. EngineeringEdges(n, next) = {}
    BY <1>8 DEF EngineeringEdges, EngineeringTeams
  <2>3. next.status = "failed" /\ Alike(next, st)
    BY <2>1, NodeEdits DEF Alike
  <2> QED BY <1>8, <2>2, <2>3
             DEF Alike, EngineeringTrail, EngineeringNodes, Telling, OnItsWay, Whole
<1> QED BY <1>1, <1>2, <1>3, <1>4, <1>5, <1>6, <1>7, <1>8 DEF EngineeringNodes
QANodes == {"receive_artifacts", "validate_inputs", "fan_out_generate", "generate_complete",
  "fan_out_execute", "coverage_analysis", "aggregate_results", "publish_artifacts", "dlq",
  "handle_failure"}

\* Each fan-in has what its teams write, from inputs that are valid and, once tests run,
\* without a dead letter; what is published did not fail.
QATrail(n, st) ==
  /\ OnItsWay(QATeams, st)
  /\ n \in {"fan_out_generate", "generate_complete", "fan_out_execute", "coverage_analysis",
            "aggregate_results", "publish_artifacts"} => st.valid
  /\ n \in {"generate_complete", "fan_out_execute", "coverage_analysis", "aggregate_results",
            "publish_artifacts"} => {"generate_unit", "generate_integration"} \subseteq st.ready
  /\ n \in {"fan_out_execute", "coverage_analysis", "aggregate_results", "publish_artifacts"} =>
       ~st.dead
  /\ n \in {"coverage_analysis", "aggregate_results", "publish_artifacts"} =>
       QATeams \subseteq st.ready
  /\ n = "publish_artifacts" => st.verdict # "fail"

\* From each node the graph moves to one whose trail it has, or ends.
LEMMA QAMoves ==
  ASSUME NEW st, DOMAIN st = DgFields, NEW n \in QANodes, QATrail(n, st),
         NEW next, Alike(next, QANode(n, st)),
         next.status = QANode(n, st).status
  PROVE  \/ \E m \in QANodes :
              QAEdges(n, next) = {m} /\ QATrail(m, next)
              /\ (m = "handle_failure" \/ n \notin Telling)
         \/ QAEdges(n, next) = {"generate_unit", "generate_integration"}
            /\ OnItsWay(QATeams, next) /\ next.valid /\ n \notin Telling
         \/ QAEdges(n, next) = {"execute_regression", "execute_performance"}
            /\ OnItsWay(QATeams, next) /\ next.valid /\ ~next.dead /\ n \notin Telling
            /\ {"generate_unit", "generate_integration"} \subseteq next.ready
         \/ QAEdges(n, next) = {"raised"}
         \/ /\ QAEdges(n, next) = {}
            /\ next.status = "completed" => 
                 /\ n = "publish_artifacts" /\ Whole(QATeams, next) /\ QATeams \subseteq next.ready
                 /\ next.valid /\ ~next.dead /\ next.verdict # "fail"
<1>1. CASE n = "receive_artifacts"
  <2>1. QANode(n, st) = Status(st, "running")
    BY <1>1 DEF QANode, QATeams
  <2>2. QAEdges(n, next) = {"validate_inputs"}
    BY <1>1 DEF QAEdges, QATeams
  <2>3. next.status = "running" /\ Alike(next, st)
    BY <2>1, NodeEdits DEF Alike
  <2> QED BY <1>1, <2>2, <2>3 DEF Alike, QATrail, QANodes, Telling, OnItsWay, Whole
<1>2. CASE n = "validate_inputs"
  <2>1. QANode(n, st)
         = Status(st, IF st.valid THEN "running" ELSE "failed")
    BY <1>2 DEF QANode, QATeams, Running, Status
  <2>2. QAEdges(n, next) = Or(next.status = "failed", "fan_out_generate")
    BY <1>2 DEF QAEdges, QATeams
  <2>3. /\ next.status \in {"running", "failed"} /\ Alike(next, st)
        /\ next.status # "failed" => st.valid
    BY <2>1, NodeEdits DEF Alike
  <2> QED BY <1>2, <2>2, <2>3 DEF Alike, QATrail, QANodes, Telling, OnItsWay, Whole, Or
<1>3. CASE n = "fan_out_generate"
  <2>1. QANode(n, st) = st
    BY <1>3 DEF QANode, QATeams
  <2>2. QAEdges(n, next) = {"generate_unit", "generate_integration"}
    BY <1>3 DEF QAEdges, QATeams
  <2>3. next.status = st.status /\ Alike(next, st)
    BY <2>1 DEF Alike
  <2> QED BY <1>3, <2>2, <2>3 DEF Alike, QATrail, QANodes, Telling, OnItsWay, Whole
<1>4. CASE n = "generate_complete"
  <2>1. QANode(n, st) = st
    BY <1>4 DEF QANode, QATeams
  <2>2. QAEdges(n, next) = Or(next.status = "failed", IF next.dead THEN "dlq" ELSE "fan_out_execute")
    BY <1>4 DEF QAEdges, QATeams
  <2>3. next.status = st.status /\ Alike(next, st)
    BY <2>1 DEF Alike
  <2> QED BY <1>4, <2>2, <2>3 DEF Alike, QATrail, QANodes, Telling, OnItsWay, Whole, Or
<1>5. CASE n = "fan_out_execute"
  <2>1. QANode(n, st) = st
    BY <1>5 DEF QANode, QATeams
  <2>2. QAEdges(n, next) = {"execute_regression", "execute_performance"}
    BY <1>5 DEF QAEdges, QATeams
  <2>3. next.status = st.status /\ Alike(next, st)
    BY <2>1 DEF Alike
  <2> QED BY <1>5, <2>2, <2>3 DEF Alike, QATrail, QANodes, Telling, OnItsWay, Whole
<1>6. CASE n = "coverage_analysis"
  <2>1. QANode(n, st) = st
    BY <1>6 DEF QANode, QATeams
  <2>2. QAEdges(n, next) = {"aggregate_results"}
    BY <1>6 DEF QAEdges, QATeams
  <2>3. next.status = st.status /\ Alike(next, st)
    BY <2>1 DEF Alike
  <2> QED BY <1>6, <2>2, <2>3 DEF Alike, QATrail, QANodes, Telling, OnItsWay, Whole
<1>7. CASE n = "aggregate_results"
  <2>1. QANode(n, st)
         = Status(st, IF QATeams \subseteq st.ready THEN "running" ELSE "failed")
    BY <1>7 DEF QANode, QATeams, Running, Status
  <2>2. QAEdges(n, next) = IF next.verdict = "fail" THEN {"raised"} ELSE {"publish_artifacts"}
    BY <1>7 DEF QAEdges, QATeams, QALabels, Labelled
  <2>3. /\ next.status \in {"running", "failed"} /\ Alike(next, st)
        /\ next.status # "failed" => QATeams \subseteq st.ready
    BY <2>1, NodeEdits DEF Alike
  <2> QED BY <1>7, <2>2, <2>3 DEF Alike, QATrail, QANodes, Telling, OnItsWay, Whole
<1>8. CASE n = "publish_artifacts"
  <2>1. QANode(n, st) = Status(st, "completed")
    BY <1>8 DEF QANode, QATeams
  <2>2. QAEdges(n, next) = {}
    BY <1>8 DEF QAEdges, QATeams
  <2>3. next.status = "completed" /\ Alike(next, st)
    BY <2>1, NodeEdits DEF Alike
  <2> QED BY <1>8, <2>2, <2>3 DEF Alike, QATrail, QANodes, Telling, OnItsWay, Whole
<1>9. CASE n = "dlq"
  <2>1. QANode(n, st) = Status(st, "failed")
    BY <1>9 DEF QANode, QATeams
  <2>2. QAEdges(n, next) = {"handle_failure"}
    BY <1>9 DEF QAEdges, QATeams
  <2>3. next.status = "failed" /\ Alike(next, st)
    BY <2>1, NodeEdits DEF Alike
  <2> QED BY <1>9, <2>2, <2>3 DEF Alike, QATrail, QANodes, Telling, OnItsWay, Whole
<1>10. CASE n = "handle_failure"
  <2>1. QANode(n, st) = Status(st, "failed")
    BY <1>10 DEF QANode, QATeams
  <2>2. QAEdges(n, next) = {}
    BY <1>10 DEF QAEdges, QATeams
  <2>3. next.status = "failed" /\ Alike(next, st)
    BY <2>1, NodeEdits DEF Alike
  <2> QED BY <1>10, <2>2, <2>3 DEF Alike, QATrail, QANodes, Telling, OnItsWay, Whole
<1> QED BY <1>1, <1>2, <1>3, <1>4, <1>5, <1>6, <1>7, <1>8, <1>9, <1>10 DEF QANodes
SecurityNodes == {"receive_engineering", "validate_inputs", "static_analysis", "fan_out",
  "risk_classification", "aggregate_results", "security_findings", "return_to_engineering",
  "publish_artifacts", "dlq", "handle_failure"}

\* The inputs are valid before the first scan and nothing is dead-lettered after it; all
\* four scans are there once the risk is classified, and what is published did not fail.
SecurityTrail(n, st) ==
  /\ OnItsWay(SecurityTeams, st)
  /\ n \in {"static_analysis", "fan_out", "risk_classification", "aggregate_results",
            "publish_artifacts"} => st.valid
  /\ n \in {"fan_out", "risk_classification", "aggregate_results", "publish_artifacts"} =>
       ~st.dead /\ "static_analysis" \in st.ready
  /\ n \in {"risk_classification", "aggregate_results", "publish_artifacts"} =>
       SecurityTeams \subseteq st.ready
  /\ n = "publish_artifacts" => st.verdict # "fail"

\* From each node the graph moves to one whose trail it has, or ends.
LEMMA SecurityMoves ==
  ASSUME NEW st, DOMAIN st = DgFields, NEW n \in SecurityNodes, SecurityTrail(n, st),
         NEW next, Alike(next, SecurityNode(n, st)),
         next.status = SecurityNode(n, st).status
  PROVE  \/ \E m \in SecurityNodes :
              SecurityEdges(n, next) = {m} /\ SecurityTrail(m, next)
              /\ (m = "handle_failure" \/ n \notin Telling)
         \/ SecurityEdges(n, next) = SecurityTeams \ {"static_analysis"}
            /\ OnItsWay(SecurityTeams, next) /\ next.valid /\ ~next.dead
            /\ "static_analysis" \in next.ready /\ n \notin Telling
         \/ /\ SecurityEdges(n, next) = {}
            /\ next.status = "completed" => 
                 /\ n = "publish_artifacts" /\ Whole(SecurityTeams, next) /\ SecurityTeams \subseteq next.ready
                 /\ next.valid /\ ~next.dead /\ next.verdict # "fail"
<1>1. CASE n = "receive_engineering"
  <2>1. SecurityNode(n, st) = Status(st, "running")
    BY <1>1 DEF SecurityNode, SecurityTeams
  <2>2. SecurityEdges(n, next) = {"validate_inputs"}
    BY <1>1 DEF SecurityEdges, SecurityTeams
  <2>3. next.status = "running" /\ Alike(next, st)
    BY <2>1, NodeEdits DEF Alike
  <2> QED BY <1>1, <2>2, <2>3 DEF Alike, SecurityTrail, SecurityNodes, Telling, OnItsWay, Whole
<1>2. CASE n = "validate_inputs"
  <2>1. SecurityNode(n, st)
         = Status(st, IF st.valid THEN "running" ELSE "failed")
    BY <1>2 DEF SecurityNode, SecurityTeams, Running, Status
  <2>2. SecurityEdges(n, next) = Or(next.status = "failed", "static_analysis")
    BY <1>2 DEF SecurityEdges, SecurityTeams
  <2>3. /\ next.status \in {"running", "failed"} /\ Alike(next, st)
        /\ next.status # "failed" => st.valid
    BY <2>1, NodeEdits DEF Alike
  <2> QED BY <1>2, <2>2, <2>3
             DEF Alike, SecurityTrail, SecurityNodes, Telling, OnItsWay, Whole, Or
<1>3. CASE n = "static_analysis"
  <2>1. SecurityNode(n, st) = TeamReady(st, n)
    BY <1>3 DEF SecurityNode, SecurityTeams
  <2>2. SecurityEdges(n, next) = Or(next.status = "failed", IF next.dead THEN "dlq" ELSE "fan_out")
    BY <1>3 DEF SecurityEdges, SecurityTeams
  <2>3. /\ next.ready = st.ready \cup {n} /\ next.status = st.status
        /\ next.verdict = st.verdict /\ next.dead = st.dead
        /\ next.valid = st.valid /\ next.decision = st.decision
    BY <2>1, NodeEdits DEF Alike
  <2>4. Whole(SecurityTeams, next)
    BY <1>3, <2>3, WholeGrows, TeamsApart DEF SecurityTrail, OnItsWay, SecurityTeams
  <2> QED BY <1>3, <2>2, <2>3, <2>4
             DEF Alike, SecurityTrail, SecurityNodes, Telling, OnItsWay, Whole, Or,
                 SecurityTeams
<1>4. CASE n = "fan_out"
  <2>1. SecurityNode(n, st) = st
    BY <1>4 DEF SecurityNode, SecurityTeams
  <2>2. SecurityEdges(n, next) = SecurityTeams \ {"static_analysis"}
    BY <1>4 DEF SecurityEdges, SecurityTeams
  <2>3. next.status = st.status /\ Alike(next, st)
    BY <2>1 DEF Alike
  <2> QED BY <1>4, <2>2, <2>3 DEF Alike, SecurityTrail, SecurityNodes, Telling, OnItsWay, Whole
<1>5. CASE n = "risk_classification"
  <2>1. SecurityNode(n, st) = st
    BY <1>5 DEF SecurityNode, SecurityTeams
  <2>2. SecurityEdges(n, next) = {"aggregate_results"}
    BY <1>5 DEF SecurityEdges, SecurityTeams
  <2>3. next.status = st.status /\ Alike(next, st)
    BY <2>1 DEF Alike
  <2> QED BY <1>5, <2>2, <2>3 DEF Alike, SecurityTrail, SecurityNodes, Telling, OnItsWay, Whole
<1>6. CASE n = "aggregate_results"
  <2>1. SecurityNode(n, st)
         = Status(st, IF SecurityTeams \subseteq st.ready THEN "running" ELSE "failed")
    BY <1>6 DEF SecurityNode, SecurityTeams, Running, Status
  <2>2. SecurityEdges(n, next) = {IF next.verdict = "fail" THEN "security_findings" ELSE "publish_artifacts"}
    BY <1>6 DEF SecurityEdges, SecurityTeams
  <2>3. /\ next.status \in {"running", "failed"} /\ Alike(next, st)
        /\ next.status # "failed" => SecurityTeams \subseteq st.ready
    BY <2>1, NodeEdits DEF Alike
  <2> QED BY <1>6, <2>2, <2>3 DEF Alike, SecurityTrail, SecurityNodes, Telling, OnItsWay, Whole
<1>7. CASE n = "security_findings"
  <2>1. SecurityNode(n, st) = Counted(st)
    BY <1>7 DEF SecurityNode, SecurityTeams
  <2>2. SecurityEdges(n, next) = Or(next.cycles >= MaxRetryCycles, "return_to_engineering")
    BY <1>7 DEF SecurityEdges, SecurityTeams
  <2>3. next.status = st.status /\ Alike(next, st)
    BY <2>1, NodeEdits DEF Alike
  <2> QED BY <1>7, <2>2, <2>3
             DEF Alike, SecurityTrail, SecurityNodes, Telling, OnItsWay, Whole, Or
<1>8. CASE n = "return_to_engineering"
  <2>1. SecurityNode(n, st) = Status(st, "failed")
    BY <1>8 DEF SecurityNode, SecurityTeams
  <2>2. SecurityEdges(n, next) = {"handle_failure"}
    BY <1>8 DEF SecurityEdges, SecurityTeams
  <2>3. next.status = "failed" /\ Alike(next, st)
    BY <2>1, NodeEdits DEF Alike
  <2> QED BY <1>8, <2>2, <2>3 DEF Alike, SecurityTrail, SecurityNodes, Telling, OnItsWay, Whole
<1>9. CASE n = "publish_artifacts"
  <2>1. SecurityNode(n, st) = Status(st, "completed")
    BY <1>9 DEF SecurityNode, SecurityTeams
  <2>2. SecurityEdges(n, next) = {}
    BY <1>9 DEF SecurityEdges, SecurityTeams
  <2>3. next.status = "completed" /\ Alike(next, st)
    BY <2>1, NodeEdits DEF Alike
  <2> QED BY <1>9, <2>2, <2>3 DEF Alike, SecurityTrail, SecurityNodes, Telling, OnItsWay, Whole
<1>10. CASE n = "dlq"
  <2>1. SecurityNode(n, st) = Status(st, "failed")
    BY <1>10 DEF SecurityNode, SecurityTeams
  <2>2. SecurityEdges(n, next) = {"handle_failure"}
    BY <1>10 DEF SecurityEdges, SecurityTeams
  <2>3. next.status = "failed" /\ Alike(next, st)
    BY <2>1, NodeEdits DEF Alike
  <2> QED BY <1>10, <2>2, <2>3 DEF Alike, SecurityTrail, SecurityNodes, Telling, OnItsWay, Whole
<1>11. CASE n = "handle_failure"
  <2>1. SecurityNode(n, st) = Status(st, "failed")
    BY <1>11 DEF SecurityNode, SecurityTeams
  <2>2. SecurityEdges(n, next) = {}
    BY <1>11 DEF SecurityEdges, SecurityTeams
  <2>3. next.status = "failed" /\ Alike(next, st)
    BY <2>1, NodeEdits DEF Alike
  <2> QED BY <1>11, <2>2, <2>3 DEF Alike, SecurityTrail, SecurityNodes, Telling, OnItsWay, Whole
<1> QED BY <1>1, <1>2, <1>3, <1>4, <1>5, <1>6, <1>7, <1>8, <1>9, <1>10, <1>11 DEF SecurityNodes
DevOpsNodes == {"receive_manager_approval", "validate_qa_security",
  "generate_infrastructure", "generate_cicd", "approval_gate", "deploy", "health_check",
  "release", "rollback", "notify_manager_failed", "dlq", "handle_failure"}

\* Both gates passed before anything is generated, without a dead letter after that; what is
\* deployed was approved, and what is released is healthy.
DevOpsTrail(n, st) ==
  /\ OnItsWay({}, st)
  /\ n \in {"generate_infrastructure", "generate_cicd", "approval_gate", "deploy",
            "health_check", "release"} => st.valid
  /\ n \in {"generate_cicd", "approval_gate", "deploy", "health_check", "release"} => ~st.dead
  /\ n \in {"deploy", "health_check", "release"} => st.decision = "approved"
  /\ n = "release" => st.verdict # "fail"

\* From each node the graph moves to one whose trail it has, or ends.
LEMMA DevOpsMoves ==
  ASSUME NEW st, DOMAIN st = DgFields, NEW n \in DevOpsNodes, DevOpsTrail(n, st),
         NEW next, Alike(next, DevOpsNode(n, st)),
         next.status = DevOpsNode(n, st).status
  PROVE  \/ \E m \in DevOpsNodes :
              DevOpsEdges(n, next) = {m} /\ DevOpsTrail(m, next)
              /\ (m = "handle_failure" \/ n \notin Telling)
         \/ /\ DevOpsEdges(n, next) = {}
            /\ next.status = "completed" => 
                 /\ n = "release" /\ Whole({}, next) /\ next.valid /\ ~next.dead
                 /\ next.decision = "approved" /\ next.verdict # "fail"
<1>1. CASE n = "receive_manager_approval"
  <2>1. DevOpsNode(n, st) = Status(st, "running")
    BY <1>1 DEF DevOpsNode, OnItsWay
  <2>2. DevOpsEdges(n, next) = {"validate_qa_security"}
    BY <1>1 DEF DevOpsEdges, OnItsWay
  <2>3. next.status = "running" /\ Alike(next, st)
    BY <2>1, NodeEdits DEF Alike
  <2> QED BY <1>1, <2>2, <2>3 DEF Alike, DevOpsTrail, DevOpsNodes, Telling, OnItsWay, Whole
<1>2. CASE n = "validate_qa_security"
  <2>1. DevOpsNode(n, st)
         = Status(st, IF st.valid THEN "running" ELSE "failed")
    BY <1>2 DEF DevOpsNode, OnItsWay, Running, Status
  <2>2. DevOpsEdges(n, next) = Or(next.status = "failed", "generate_infrastructure")
    BY <1>2 DEF DevOpsEdges, OnItsWay
  <2>3. /\ next.status \in {"running", "failed"} /\ Alike(next, st)
        /\ next.status # "failed" => st.valid
    BY <2>1, NodeEdits DEF Alike
  <2> QED BY <1>2, <2>2, <2>3 DEF Alike, DevOpsTrail, DevOpsNodes, Telling, OnItsWay, Whole, Or
<1>3. CASE n = "generate_infrastructure"
  <2>1. DevOpsNode(n, st) = st
    BY <1>3 DEF DevOpsNode, OnItsWay
  <2>2. DevOpsEdges(n, next) = Or(next.status = "failed", IF next.dead THEN "dlq" ELSE "generate_cicd")
    BY <1>3 DEF DevOpsEdges, OnItsWay
  <2>3. next.status = st.status /\ Alike(next, st)
    BY <2>1 DEF Alike
  <2> QED BY <1>3, <2>2, <2>3 DEF Alike, DevOpsTrail, DevOpsNodes, Telling, OnItsWay, Whole, Or
<1>4. CASE n = "generate_cicd"
  <2>1. DevOpsNode(n, st) = st
    BY <1>4 DEF DevOpsNode, OnItsWay
  <2>2. DevOpsEdges(n, next) = Or(next.status = "failed", "approval_gate")
    BY <1>4 DEF DevOpsEdges, OnItsWay
  <2>3. next.status = st.status /\ Alike(next, st)
    BY <2>1 DEF Alike
  <2> QED BY <1>4, <2>2, <2>3 DEF Alike, DevOpsTrail, DevOpsNodes, Telling, OnItsWay, Whole, Or
<1>5. CASE n = "approval_gate"
  <2>1. DevOpsNode(n, st) = Status(st, "awaiting_approval")
    BY <1>5 DEF DevOpsNode, OnItsWay
  <2>2. DevOpsEdges(n, next) = {CASE next.decision = "approved" -> "deploy"
               [] next.decision = "rejected" -> "handle_failure"
               [] OTHER -> "approval_gate"}
    BY <1>5 DEF DevOpsEdges, OnItsWay
  <2>3. next.status = "awaiting_approval" /\ Alike(next, st)
    BY <2>1, NodeEdits DEF Alike
  <2> QED BY <1>5, <2>2, <2>3 DEF Alike, DevOpsTrail, DevOpsNodes, Telling, OnItsWay, Whole
<1>6. CASE n = "deploy"
  <2>1. DevOpsNode(n, st) = st
    BY <1>6 DEF DevOpsNode, OnItsWay
  <2>2. DevOpsEdges(n, next) = Or(next.status = "failed", "health_check")
    BY <1>6 DEF DevOpsEdges, OnItsWay
  <2>3. next.status = st.status /\ Alike(next, st)
    BY <2>1 DEF Alike
  <2> QED BY <1>6, <2>2, <2>3 DEF Alike, DevOpsTrail, DevOpsNodes, Telling, OnItsWay, Whole, Or
<1>7. CASE n = "health_check"
  <2>1. DevOpsNode(n, st) = st
    BY <1>7 DEF DevOpsNode, OnItsWay
  <2>2. DevOpsEdges(n, next) = {IF next.verdict = "pass" THEN "release" ELSE "rollback"}
    BY <1>7 DEF DevOpsEdges, OnItsWay
  <2>3. next.status = st.status /\ Alike(next, st)
    BY <2>1 DEF Alike
  <2> QED BY <1>7, <2>2, <2>3 DEF Alike, DevOpsTrail, DevOpsNodes, Telling, OnItsWay, Whole
<1>8. CASE n = "release"
  <2>1. DevOpsNode(n, st) = Status(st, "completed")
    BY <1>8 DEF DevOpsNode, OnItsWay
  <2>2. DevOpsEdges(n, next) = {}
    BY <1>8 DEF DevOpsEdges, OnItsWay
  <2>3. next.status = "completed" /\ Alike(next, st)
    BY <2>1, NodeEdits DEF Alike
  <2> QED BY <1>8, <2>2, <2>3 DEF Alike, DevOpsTrail, DevOpsNodes, Telling, OnItsWay, Whole
<1>9. CASE n = "rollback"
  <2>1. DevOpsNode(n, st) = Counted(st)
    BY <1>9 DEF DevOpsNode, OnItsWay
  <2>2. DevOpsEdges(n, next) = Or(next.cycles >= MaxRetryCycles, "notify_manager_failed")
    BY <1>9 DEF DevOpsEdges, OnItsWay
  <2>3. next.status = st.status /\ Alike(next, st)
    BY <2>1, NodeEdits DEF Alike
  <2> QED BY <1>9, <2>2, <2>3 DEF Alike, DevOpsTrail, DevOpsNodes, Telling, OnItsWay, Whole, Or
<1>10. CASE n = "notify_manager_failed"
  <2>1. DevOpsNode(n, st) = Status(st, "failed")
    BY <1>10 DEF DevOpsNode, OnItsWay
  <2>2. DevOpsEdges(n, next) = {"handle_failure"}
    BY <1>10 DEF DevOpsEdges, OnItsWay
  <2>3. next.status = "failed" /\ Alike(next, st)
    BY <2>1, NodeEdits DEF Alike
  <2> QED BY <1>10, <2>2, <2>3 DEF Alike, DevOpsTrail, DevOpsNodes, Telling, OnItsWay, Whole
<1>11. CASE n = "dlq"
  <2>1. DevOpsNode(n, st) = Status(st, "failed")
    BY <1>11 DEF DevOpsNode, OnItsWay
  <2>2. DevOpsEdges(n, next) = {"handle_failure"}
    BY <1>11 DEF DevOpsEdges, OnItsWay
  <2>3. next.status = "failed" /\ Alike(next, st)
    BY <2>1, NodeEdits DEF Alike
  <2> QED BY <1>11, <2>2, <2>3 DEF Alike, DevOpsTrail, DevOpsNodes, Telling, OnItsWay, Whole
<1>12. CASE n = "handle_failure"
  <2>1. DevOpsNode(n, st) = Status(st, "failed")
    BY <1>12 DEF DevOpsNode, OnItsWay
  <2>2. DevOpsEdges(n, next) = {}
    BY <1>12 DEF DevOpsEdges, OnItsWay
  <2>3. next.status = "failed" /\ Alike(next, st)
    BY <2>1, NodeEdits DEF Alike
  <2> QED BY <1>12, <2>2, <2>3 DEF Alike, DevOpsTrail, DevOpsNodes, Telling, OnItsWay, Whole
<1> QED BY <1>1, <1>2, <1>3, <1>4, <1>5, <1>6, <1>7, <1>8, <1>9, <1>10, <1>11, <1>12
           DEF DevOpsNodes
DelegationNodes == {"select_department", "select_agent", "select_model", "assign_task",
  "monitor_progress", "collect_results", "validate_completion", "handle_retry",
  "dead_letter", "task_complete"}

\* A task is complete only if its output was found valid.
DelegationTrail(n, st) ==
  /\ OnItsWay({}, st)
  /\ n = "task_complete" => st.valid

\* From each node the graph moves to one whose trail it has, or ends.
LEMMA DelegationMoves ==
  ASSUME NEW st, DOMAIN st = DgFields, NEW n \in DelegationNodes, DelegationTrail(n, st),
         NEW next, Alike(next, DelegationNode(n, st)),
         next.status = DelegationNode(n, st).status
  PROVE  \/ \E m \in DelegationNodes :
              DelegationEdges(n, next) = {m} /\ DelegationTrail(m, next)
              /\ (m = "handle_failure" \/ n \notin Telling)
         \/ DelegationEdges(n, next) = {"select_agent", "escalate_task"}
         \/ /\ DelegationEdges(n, next) = {}
            /\ next.status = "completed" => 
                 n = "task_complete" /\ Whole({}, next) /\ next.valid
<1>1. CASE n = "select_department"
  <2>1. DelegationNode(n, st)
         = Status(st, IF ~st.dead THEN "running" ELSE "failed")
    BY <1>1 DEF DelegationNode, OnItsWay, Running, Status
  <2>2. DelegationEdges(n, next) = {"select_agent"}
    BY <1>1 DEF DelegationEdges, OnItsWay
  <2>3. /\ next.status \in {"running", "failed"} /\ Alike(next, st)
        /\ next.status # "failed" => ~st.dead
    BY <2>1, NodeEdits DEF Alike
  <2> QED BY <1>1, <2>2, <2>3
             DEF Alike, DelegationTrail, DelegationNodes, Telling, OnItsWay, Whole
<1>2. CASE n = "select_agent"
  <2>1. DelegationNode(n, st) = st
    BY <1>2 DEF DelegationNode, OnItsWay
  <2>2. DelegationEdges(n, next) = {"select_model"}
    BY <1>2 DEF DelegationEdges, OnItsWay
  <2>3. next.status = st.status /\ Alike(next, st)
    BY <2>1 DEF Alike
  <2> QED BY <1>2, <2>2, <2>3
             DEF Alike, DelegationTrail, DelegationNodes, Telling, OnItsWay, Whole
<1>3. CASE n = "select_model"
  <2>1. DelegationNode(n, st) = st
    BY <1>3 DEF DelegationNode, OnItsWay
  <2>2. DelegationEdges(n, next) = {"assign_task"}
    BY <1>3 DEF DelegationEdges, OnItsWay
  <2>3. next.status = st.status /\ Alike(next, st)
    BY <2>1 DEF Alike
  <2> QED BY <1>3, <2>2, <2>3
             DEF Alike, DelegationTrail, DelegationNodes, Telling, OnItsWay, Whole
<1>4. CASE n = "assign_task"
  <2>1. DelegationNode(n, st) = Status(st, "running")
    BY <1>4 DEF DelegationNode, OnItsWay
  <2>2. DelegationEdges(n, next) = {"monitor_progress"}
    BY <1>4 DEF DelegationEdges, OnItsWay
  <2>3. next.status = "running" /\ Alike(next, st)
    BY <2>1, NodeEdits DEF Alike
  <2> QED BY <1>4, <2>2, <2>3
             DEF Alike, DelegationTrail, DelegationNodes, Telling, OnItsWay, Whole
<1>5. CASE n = "monitor_progress"
  <2>1. DelegationNode(n, st) = st
    BY <1>5 DEF DelegationNode, OnItsWay
  <2>2. DelegationEdges(n, next) = {"collect_results"}
    BY <1>5 DEF DelegationEdges, OnItsWay
  <2>3. next.status = st.status /\ Alike(next, st)
    BY <2>1 DEF Alike
  <2> QED BY <1>5, <2>2, <2>3
             DEF Alike, DelegationTrail, DelegationNodes, Telling, OnItsWay, Whole
<1>6. CASE n = "collect_results"
  <2>1. DelegationNode(n, st) = st
    BY <1>6 DEF DelegationNode, OnItsWay
  <2>2. DelegationEdges(n, next) = {"validate_completion"}
    BY <1>6 DEF DelegationEdges, OnItsWay
  <2>3. next.status = st.status /\ Alike(next, st)
    BY <2>1 DEF Alike
  <2> QED BY <1>6, <2>2, <2>3
             DEF Alike, DelegationTrail, DelegationNodes, Telling, OnItsWay, Whole
<1>7. CASE n = "validate_completion"
  <2>1. DelegationNode(n, st) = st
    BY <1>7 DEF DelegationNode, OnItsWay
  <2>2. DelegationEdges(n, next) = {CASE next.valid -> "task_complete"
               [] ~next.valid /\ next.cycles >= next.rounds -> "dead_letter"
               [] OTHER -> "handle_retry"}
    BY <1>7 DEF DelegationEdges, OnItsWay
  <2>3. next.status = st.status /\ Alike(next, st)
    BY <2>1 DEF Alike
  <2> QED BY <1>7, <2>2, <2>3
             DEF Alike, DelegationTrail, DelegationNodes, Telling, OnItsWay, Whole
<1>8. CASE n = "handle_retry"
  <2>1. DelegationNode(n, st) = [Counted(st) EXCEPT !.valid = FALSE]
    BY <1>8 DEF DelegationNode, OnItsWay
  <2>2. DelegationEdges(n, next) = {"select_agent", "escalate_task"}
    BY <1>8 DEF DelegationEdges, OnItsWay
  <2>3. next.status = st.status /\ next.ready = st.ready
    BY <2>1, RetryEdit DEF Alike
  <2> QED BY <1>8, <2>2, <2>3
             DEF Alike, DelegationTrail, DelegationNodes, Telling, OnItsWay, Whole
<1>9. CASE n = "dead_letter"
  <2>1. DelegationNode(n, st) = Status(st, "failed")
    BY <1>9 DEF DelegationNode, OnItsWay
  <2>2. DelegationEdges(n, next) = {}
    BY <1>9 DEF DelegationEdges, OnItsWay
  <2>3. next.status = "failed" /\ Alike(next, st)
    BY <2>1, NodeEdits DEF Alike
  <2> QED BY <1>9, <2>2, <2>3
             DEF Alike, DelegationTrail, DelegationNodes, Telling, OnItsWay, Whole
<1>10. CASE n = "task_complete"
  <2>1. DelegationNode(n, st) = Status(st, "completed")
    BY <1>10 DEF DelegationNode, OnItsWay
  <2>2. DelegationEdges(n, next) = {}
    BY <1>10 DEF DelegationEdges, OnItsWay
  <2>3. next.status = "completed" /\ Alike(next, st)
    BY <2>1, NodeEdits DEF Alike
  <2> QED BY <1>10, <2>2, <2>3
             DEF Alike, DelegationTrail, DelegationNodes, Telling, OnItsWay, Whole
<1> QED BY <1>1, <1>2, <1>3, <1>4, <1>5, <1>6, <1>7, <1>8, <1>9, <1>10 DEF DelegationNodes
\* What a graph that ended as completed went through.
DgDone ==
  dgState.status = "completed" =>
    /\ dgGraph # "delegation" => dgSent = <<"completed">>
    /\ dgGraph \in {"architecture", "devops"} => dgState.decision = "approved"
    /\ dgGraph \notin {"architecture", "delegation"} => ~dgState.dead /\ dgState.verdict # "fail"
    /\ dgGraph \in {"qa", "security", "devops", "delegation"} => dgState.valid
    /\ \A teams \in {ArchitectureTeams, EngineeringTeams, QATeams, SecurityTeams} :
         dgState.ready \cap teams = {} \/ teams \subseteq dgState.ready

\* The trail of a node that runs alone, by graph.
LoneTrail(n) ==
  \/ dgGraph = "architecture" /\ n \in ArchitectureNodes /\ ArchitectureTrail(n, dgState)
  \/ dgGraph = "engineering" /\ n \in EngineeringNodes /\ EngineeringTrail(n, dgState)
  \/ dgGraph = "qa" /\ n \in QANodes /\ QATrail(n, dgState)
  \/ dgGraph = "security" /\ n \in SecurityNodes /\ SecurityTrail(n, dgState)
  \/ dgGraph = "devops" /\ n \in DevOpsNodes /\ DevOpsTrail(n, dgState)
  \/ dgGraph = "delegation" /\ n \in DelegationNodes /\ DelegationTrail(n, dgState)

\* And of teams that run together.
TeamTrail ==
  \/ /\ dgGraph = "engineering" /\ dgActive = EngineeringTeams
     /\ OnItsWay(EngineeringTeams, dgState)
  \/ /\ dgGraph = "qa" /\ dgActive = {"generate_unit", "generate_integration"}
     /\ OnItsWay(QATeams, dgState) /\ dgState.valid
  \/ /\ dgGraph = "qa" /\ dgActive = {"execute_regression", "execute_performance"}
     /\ OnItsWay(QATeams, dgState) /\ dgState.valid /\ ~dgState.dead
     /\ {"generate_unit", "generate_integration"} \subseteq dgState.ready
  \/ /\ dgGraph = "security" /\ dgActive = SecurityTeams \ {"static_analysis"}
     /\ OnItsWay(SecurityTeams, dgState) /\ dgState.valid /\ ~dgState.dead
     /\ "static_analysis" \in dgState.ready

\* Each superstep starts on the trail of its nodes, and nothing is told before the end but
\* on the way to handle_failure.
DgInv ==
  /\ DOMAIN dgState = DgFields
  /\ \/ /\ dgGraph = "none" /\ dgActive = {} /\ dgSent = <<>>
        /\ dgState.status = "running" /\ dgState.ready = {}
     \/ \E n : dgActive = {n} /\ LoneTrail(n) /\ (n # "handle_failure" => dgSent = <<>>)
     \/ TeamTrail /\ dgSent = <<>>
     \/ dgGraph # "none" /\ dgActive \in {{"raised"}, {"select_agent", "escalate_task"}}
     \/ dgGraph # "none" /\ dgActive = {} /\ DgDone

\* The node that ends a graph as completed tells it, and the others nothing but failures.
LEMMA OutcomesTold ==
  /\ \A n : n \notin Telling => OutcomeOf(n) = <<>>
  /\ OutcomeOf("publish_artifacts") = <<"completed">> /\ OutcomeOf("release") = <<"completed">>
BY DEF OutcomeOf, Telling

\* All or none of each team's flags, once all of a graph's own are there.
LEMMA WholeTeams ==
  ASSUME NEW own \in {{}, EngineeringTeams, QATeams, SecurityTeams}, NEW st, Whole(own, st),
         own \subseteq st.ready
  PROVE  \A teams \in {ArchitectureTeams, EngineeringTeams, QATeams, SecurityTeams} :
           st.ready \cap teams = {} \/ teams \subseteq st.ready
<1>1. st.ready \cap ArchitectureTeams = {} \/ ArchitectureTeams \subseteq st.ready
  BY DEF Whole
<1>2. ASSUME NEW teams \in {EngineeringTeams, QATeams, SecurityTeams}, teams # own
      PROVE  st.ready \cap teams = {}
  BY <1>2, TeamsApart DEF Whole
<1> QED BY <1>1, <1>2

\* A node that runs alone leads to one on its trail, to its teams, or to an end.
LEMMA LoneInv ==
  ASSUME DOMAIN dgState = DgFields, NEW n, dgActive = {n}, LoneTrail(n),
         n # "handle_failure" => dgSent = <<>>, Superstep
  PROVE  DgInv'
<1>1. DOMAIN NodeOf(n, dgState) = DgFields
  BY NodesKeepFields DEF NodeOf, LoneTrail
<1>2. /\ DOMAIN dgState' = DgFields /\ Alike(dgState', NodeOf(n, dgState))
      /\ dgState'.status = NodeOf(n, dgState).status
      /\ dgActive' = EdgesOf(n, dgState')
      /\ dgSent' = dgSent \o OutcomeOf(n) /\ dgGraph' = dgGraph
  BY <1>1, LoneStep
<1>3. /\ n \notin Telling => dgSent' = <<>>
      /\ n \in {"publish_artifacts", "release"} => dgSent' = <<"completed">>
  <2>1. n # "handle_failure" => dgSent' = <<>> \o OutcomeOf(n)
    BY <1>2
  <2>2. n \notin Telling => n # "handle_failure" /\ OutcomeOf(n) = <<>>
    BY OutcomesTold DEF Telling
  <2>3. <<>> \o <<>> = <<>> /\ <<>> \o <<"completed">> = <<"completed">>
    OBVIOUS
  <2>4. n \in {"publish_artifacts", "release"} =>
          n # "handle_failure" /\ OutcomeOf(n) = <<"completed">>
    BY OutcomesTold
  <2> QED BY <2>1, <2>2, <2>3, <2>4
<1>4. CASE dgGraph = "architecture"
  <2>1. NodeOf(n, dgState) = ArchitectureNode(n, dgState)
        /\ EdgesOf(n, dgState') = ArchitectureEdges(n, dgState')
    BY <1>4 DEF NodeOf, EdgesOf
  <2>2. n \in ArchitectureNodes /\ ArchitectureTrail(n, dgState)
    BY <1>4 DEF LoneTrail
  <2>3. CASE \E m \in ArchitectureNodes :
               /\ ArchitectureEdges(n, dgState') = {m} /\ ArchitectureTrail(m, dgState')
               /\ m = "handle_failure" \/ n \notin Telling
    BY <1>2, <1>3, <1>4, <2>1, <2>3 DEF DgInv, LoneTrail
  <2>4. CASE /\ ArchitectureEdges(n, dgState') = {}
             /\ dgState'.status = "completed" =>
                  /\ n = "publish_artifacts" /\ dgState'.decision = "approved"
                  /\ dgState'.ready \subseteq ArchitectureTeams
                  /\ ArchitectureTeams \subseteq dgState'.ready
    <3>1. dgState'.status = "completed" =>
            \A teams \in {ArchitectureTeams, EngineeringTeams, QATeams, SecurityTeams} :
              dgState'.ready \cap teams = {} \/ teams \subseteq dgState'.ready
      BY <2>4, TeamsApart
    <3>2. DgDone'
      BY <1>2, <1>3, <1>4, <2>4, <3>1 DEF DgDone
    <3> QED BY <1>2, <1>4, <2>1, <2>4, <3>2 DEF DgInv
  <2> QED BY <1>2, <2>1, <2>2, <2>3, <2>4, ArchitectureMoves
<1>5. CASE dgGraph = "engineering"
  <2>1. NodeOf(n, dgState) = EngineeringNode(n, dgState)
        /\ EdgesOf(n, dgState') = EngineeringEdges(n, dgState')
    BY <1>5 DEF NodeOf, EdgesOf
  <2>2. n \in EngineeringNodes /\ EngineeringTrail(n, dgState)
    BY <1>5 DEF LoneTrail
  <2>3. CASE \E m \in EngineeringNodes :
               /\ EngineeringEdges(n, dgState') = {m} /\ EngineeringTrail(m, dgState')
               /\ m = "handle_failure" \/ n \notin Telling
    BY <1>2, <1>3, <1>5, <2>1, <2>3 DEF DgInv, LoneTrail
  <2>4. CASE /\ EngineeringEdges(n, dgState') = EngineeringTeams /\ OnItsWay(EngineeringTeams, dgState')
             /\ n \notin Telling
    BY <1>2, <1>3, <1>5, <2>1, <2>4 DEF DgInv, TeamTrail
  <2>5. CASE /\ EngineeringEdges(n, dgState') = {}
             /\ dgState'.status = "completed" =>
                  /\ n = "publish_artifacts" /\ Whole(EngineeringTeams, dgState') /\ EngineeringTeams \subseteq dgState'.ready
                  /\ ~dgState'.dead /\ dgState'.verdict # "fail"
    <3>1. dgState'.status = "completed" =>
            \A teams \in {ArchitectureTeams, EngineeringTeams, QATeams, SecurityTeams} :
              dgState'.ready \cap teams = {} \/ teams \subseteq dgState'.ready
      BY <2>5, WholeTeams
    <3>2. DgDone'
      BY <1>2, <1>3, <1>5, <2>5, <3>1 DEF DgDone
    <3> QED BY <1>2, <1>5, <2>1, <2>5, <3>2 DEF DgInv
  <2> QED BY <2>1, <2>2, <2>3, <2>4, <2>5, <1>2, EngineeringMoves
<1>6. CASE dgGraph = "qa"
  <2>1. NodeOf(n, dgState) = QANode(n, dgState)
        /\ EdgesOf(n, dgState') = QAEdges(n, dgState')
    BY <1>6 DEF NodeOf, EdgesOf
  <2>2. n \in QANodes /\ QATrail(n, dgState)
    BY <1>6 DEF LoneTrail
  <2>3. CASE \E m \in QANodes :
               /\ QAEdges(n, dgState') = {m} /\ QATrail(m, dgState')
               /\ m = "handle_failure" \/ n \notin Telling
    BY <1>2, <1>3, <1>6, <2>1, <2>3 DEF DgInv, LoneTrail
  <2>4. CASE /\ QAEdges(n, dgState') = {"generate_unit", "generate_integration"}
             /\ OnItsWay(QATeams, dgState') /\ dgState'.valid /\ n \notin Telling
    BY <1>2, <1>3, <1>6, <2>1, <2>4 DEF DgInv, TeamTrail
  <2>5. CASE /\ QAEdges(n, dgState') = {"execute_regression", "execute_performance"}
             /\ OnItsWay(QATeams, dgState') /\ dgState'.valid /\ ~dgState'.dead /\ n \notin Telling
             /\ {"generate_unit", "generate_integration"} \subseteq dgState'.ready
    BY <1>2, <1>3, <1>6, <2>1, <2>5 DEF DgInv, TeamTrail
  <2>6. CASE QAEdges(n, dgState') = {"raised"}
    BY <1>2, <1>3, <1>6, <2>1, <2>6 DEF DgInv
  <2>7. CASE /\ QAEdges(n, dgState') = {}
             /\ dgState'.status = "completed" =>
                  /\ n = "publish_artifacts" /\ Whole(QATeams, dgState') /\ QATeams \subseteq dgState'.ready
                  /\ dgState'.valid /\ ~dgState'.dead /\ dgState'.verdict # "fail"
    <3>1. dgState'.status = "completed" =>
            \A teams \in {ArchitectureTeams, EngineeringTeams, QATeams, SecurityTeams} :
              dgState'.ready \cap teams = {} \/ teams \subseteq dgState'.ready
      BY <2>7, WholeTeams
    <3>2. DgDone'
      BY <1>2, <1>3, <1>6, <2>7, <3>1 DEF DgDone
    <3> QED BY <1>2, <1>6, <2>1, <2>7, <3>2 DEF DgInv
  <2> QED BY <2>1, <2>2, <2>3, <2>4, <2>5, <2>6, <2>7, <1>2, QAMoves
<1>7. CASE dgGraph = "security"
  <2>1. NodeOf(n, dgState) = SecurityNode(n, dgState)
        /\ EdgesOf(n, dgState') = SecurityEdges(n, dgState')
    BY <1>7 DEF NodeOf, EdgesOf
  <2>2. n \in SecurityNodes /\ SecurityTrail(n, dgState)
    BY <1>7 DEF LoneTrail
  <2>3. CASE \E m \in SecurityNodes :
               /\ SecurityEdges(n, dgState') = {m} /\ SecurityTrail(m, dgState')
               /\ m = "handle_failure" \/ n \notin Telling
    BY <1>2, <1>3, <1>7, <2>1, <2>3 DEF DgInv, LoneTrail
  <2>4. CASE /\ SecurityEdges(n, dgState') = SecurityTeams \ {"static_analysis"}
             /\ OnItsWay(SecurityTeams, dgState') /\ dgState'.valid /\ ~dgState'.dead
             /\ "static_analysis" \in dgState'.ready /\ n \notin Telling
    BY <1>2, <1>3, <1>7, <2>1, <2>4 DEF DgInv, TeamTrail
  <2>5. CASE /\ SecurityEdges(n, dgState') = {}
             /\ dgState'.status = "completed" =>
                  /\ n = "publish_artifacts" /\ Whole(SecurityTeams, dgState') /\ SecurityTeams \subseteq dgState'.ready
                  /\ dgState'.valid /\ ~dgState'.dead /\ dgState'.verdict # "fail"
    <3>1. dgState'.status = "completed" =>
            \A teams \in {ArchitectureTeams, EngineeringTeams, QATeams, SecurityTeams} :
              dgState'.ready \cap teams = {} \/ teams \subseteq dgState'.ready
      BY <2>5, WholeTeams
    <3>2. DgDone'
      BY <1>2, <1>3, <1>7, <2>5, <3>1 DEF DgDone
    <3> QED BY <1>2, <1>7, <2>1, <2>5, <3>2 DEF DgInv
  <2> QED BY <2>1, <2>2, <2>3, <2>4, <2>5, <1>2, SecurityMoves
<1>8. CASE dgGraph = "devops"
  <2>1. NodeOf(n, dgState) = DevOpsNode(n, dgState)
        /\ EdgesOf(n, dgState') = DevOpsEdges(n, dgState')
    BY <1>8 DEF NodeOf, EdgesOf
  <2>2. n \in DevOpsNodes /\ DevOpsTrail(n, dgState)
    BY <1>8 DEF LoneTrail
  <2>3. CASE \E m \in DevOpsNodes :
               /\ DevOpsEdges(n, dgState') = {m} /\ DevOpsTrail(m, dgState')
               /\ m = "handle_failure" \/ n \notin Telling
    BY <1>2, <1>3, <1>8, <2>1, <2>3 DEF DgInv, LoneTrail
  <2>4. CASE /\ DevOpsEdges(n, dgState') = {}
             /\ dgState'.status = "completed" =>
                  /\ n = "release" /\ Whole({}, dgState') /\ dgState'.valid /\ ~dgState'.dead
                  /\ dgState'.decision = "approved" /\ dgState'.verdict # "fail"
    <3>1. dgState'.status = "completed" =>
            \A teams \in {ArchitectureTeams, EngineeringTeams, QATeams, SecurityTeams} :
              dgState'.ready \cap teams = {} \/ teams \subseteq dgState'.ready
      BY <2>4, WholeTeams
    <3>2. DgDone'
      BY <1>2, <1>3, <1>8, <2>4, <3>1 DEF DgDone
    <3> QED BY <1>2, <1>8, <2>1, <2>4, <3>2 DEF DgInv
  <2> QED BY <2>1, <2>2, <2>3, <2>4, <1>2, DevOpsMoves
<1>9. CASE dgGraph = "delegation"
  <2>1. NodeOf(n, dgState) = DelegationNode(n, dgState)
        /\ EdgesOf(n, dgState') = DelegationEdges(n, dgState')
    BY <1>9 DEF NodeOf, EdgesOf
  <2>2. n \in DelegationNodes /\ DelegationTrail(n, dgState)
    BY <1>9 DEF LoneTrail
  <2>3. CASE \E m \in DelegationNodes :
               /\ DelegationEdges(n, dgState') = {m} /\ DelegationTrail(m, dgState')
               /\ m = "handle_failure" \/ n \notin Telling
    BY <1>2, <1>3, <1>9, <2>1, <2>3 DEF DgInv, LoneTrail
  <2>4. CASE DelegationEdges(n, dgState') = {"select_agent", "escalate_task"}
    BY <1>2, <1>3, <1>9, <2>1, <2>4 DEF DgInv
  <2>5. CASE /\ DelegationEdges(n, dgState') = {}
             /\ dgState'.status = "completed" =>
                  n = "task_complete" /\ Whole({}, dgState') /\ dgState'.valid
    <3>1. dgState'.status = "completed" =>
            \A teams \in {ArchitectureTeams, EngineeringTeams, QATeams, SecurityTeams} :
              dgState'.ready \cap teams = {} \/ teams \subseteq dgState'.ready
      BY <2>5, WholeTeams
    <3>2. DgDone'
      BY <1>2, <1>3, <1>9, <2>5, <3>1 DEF DgDone
    <3> QED BY <1>2, <1>9, <2>1, <2>5, <3>2 DEF DgInv
  <2> QED BY <2>1, <2>2, <2>3, <2>4, <2>5, <1>2, DelegationMoves
<1> QED BY <1>4, <1>5, <1>6, <1>7, <1>8, <1>9 DEF LoneTrail

\* Teams that ran together meet at the node that awaits them.
LEMMA TeamInv ==
  ASSUME DOMAIN dgState = DgFields, TeamTrail, dgSent = <<>>, Superstep
  PROVE  DgInv'
<1>1. CASE dgGraph = "engineering"
  <2>1. dgActive = EngineeringTeams /\ OnItsWay(EngineeringTeams, dgState)
    BY <1>1 DEF TeamTrail
  <2>2. dgActive # {} /\ \A n \in dgActive :
          /\ NodeOf(n, dgState) = TeamReady(dgState, n) /\ OutcomeOf(n) = <<>>
          /\ EdgesOf(n, dgState') = {"aggregate_results"}
    BY <1>1, <2>1
       DEF NodeOf, EngineeringNode, EngineeringEdges, EdgesOf, OutcomeOf, EngineeringTeams
  <2>3. /\ DOMAIN dgState' = DgFields /\ dgState'.ready = dgState.ready \cup dgActive
        /\ dgState'.status = dgState.status
        /\ dgActive' = UNION {EdgesOf(n, dgState') : n \in dgActive}
        /\ dgSent' = <<>> /\ dgGraph' = dgGraph
    BY <2>2, TeamStep
  <2>4. dgActive' = {"aggregate_results"}
    BY <2>2, <2>3
  <2>5. OnItsWay(EngineeringTeams, dgState')
    BY <2>1, <2>3, TeamsApart, WholeGrows DEF OnItsWay
  <2>6. "aggregate_results" \in EngineeringNodes /\ EngineeringTrail("aggregate_results", dgState')
    BY <2>1, <2>3, <2>5 DEF EngineeringNodes, EngineeringTrail
  <2> QED BY <1>1, <2>3, <2>4, <2>6 DEF DgInv, LoneTrail
<1>2. CASE dgActive = {"generate_unit", "generate_integration"}
  <2>1. dgGraph = "qa" /\ OnItsWay(QATeams, dgState) /\ dgState.valid
    BY <1>2 DEF TeamTrail, EngineeringTeams, SecurityTeams
  <2>2. dgActive # {} /\ dgActive \subseteq QATeams /\ \A n \in dgActive :
          /\ NodeOf(n, dgState) = TeamReady(dgState, n) /\ OutcomeOf(n) = <<>>
          /\ EdgesOf(n, dgState') = {"generate_complete"}
    BY <1>2, <2>1 DEF NodeOf, QANode, QAEdges, EdgesOf, OutcomeOf, QATeams
  <2>3. /\ DOMAIN dgState' = DgFields /\ dgState'.ready = dgState.ready \cup dgActive
        /\ dgState'.status = dgState.status /\ dgState'.valid = dgState.valid
        /\ dgActive' = UNION {EdgesOf(n, dgState') : n \in dgActive}
        /\ dgSent' = <<>> /\ dgGraph' = dgGraph
    BY <2>2, TeamStep
  <2>4. dgActive' = {"generate_complete"}
    BY <2>2, <2>3
  <2>5. OnItsWay(QATeams, dgState')
    BY <2>1, <2>2, <2>3, TeamsApart, WholeGrows DEF OnItsWay
  <2>6. "generate_complete" \in QANodes /\ QATrail("generate_complete", dgState')
    BY <1>2, <2>1, <2>3, <2>5 DEF QANodes, QATrail
  <2> QED BY <2>1, <2>3, <2>4, <2>6 DEF DgInv, LoneTrail
<1>3. CASE dgActive = {"execute_regression", "execute_performance"}
  <2>1. /\ dgGraph = "qa" /\ OnItsWay(QATeams, dgState) /\ dgState.valid /\ ~dgState.dead
        /\ {"generate_unit", "generate_integration"} \subseteq dgState.ready
    BY <1>3 DEF TeamTrail, EngineeringTeams, SecurityTeams
  <2>2. dgActive # {} /\ dgActive \subseteq QATeams /\ \A n \in dgActive :
          /\ NodeOf(n, dgState) = TeamReady(dgState, n) /\ OutcomeOf(n) = <<>>
          /\ EdgesOf(n, dgState') = {"coverage_analysis"}
    BY <1>3, <2>1 DEF NodeOf, QANode, QAEdges, EdgesOf, OutcomeOf, QATeams
  <2>3. /\ DOMAIN dgState' = DgFields /\ dgState'.ready = dgState.ready \cup dgActive
        /\ dgState'.status = dgState.status /\ dgState'.valid = dgState.valid
        /\ dgState'.dead = dgState.dead
        /\ dgActive' = UNION {EdgesOf(n, dgState') : n \in dgActive}
        /\ dgSent' = <<>> /\ dgGraph' = dgGraph
    BY <2>2, TeamStep
  <2>4. dgActive' = {"coverage_analysis"}
    BY <2>2, <2>3
  <2>5. OnItsWay(QATeams, dgState')
    BY <2>1, <2>2, <2>3, TeamsApart, WholeGrows DEF OnItsWay
  <2>6. QATeams \subseteq dgState'.ready
    BY <1>3, <2>1, <2>3 DEF QATeams
  <2>7. "coverage_analysis" \in QANodes /\ QATrail("coverage_analysis", dgState')
    BY <2>1, <2>3, <2>5, <2>6 DEF QANodes, QATrail, QATeams
  <2> QED BY <2>1, <2>3, <2>4, <2>7 DEF DgInv, LoneTrail
<1>4. CASE dgGraph = "security"
  <2>1. /\ dgActive = SecurityTeams \ {"static_analysis"}
        /\ OnItsWay(SecurityTeams, dgState) /\ dgState.valid /\ ~dgState.dead
        /\ "static_analysis" \in dgState.ready
    BY <1>4 DEF TeamTrail
  <2>2. dgActive # {} /\ dgActive \subseteq SecurityTeams /\ \A n \in dgActive :
          /\ NodeOf(n, dgState) = TeamReady(dgState, n) /\ OutcomeOf(n) = <<>>
          /\ EdgesOf(n, dgState') = {"risk_classification"}
    <3>1. dgActive # {} /\ dgActive \subseteq SecurityTeams
      BY <2>1 DEF SecurityTeams
    <3>2. ASSUME NEW n \in dgActive
          PROVE  NodeOf(n, dgState) = TeamReady(dgState, n) /\ OutcomeOf(n) = <<>>
      BY <1>4, <2>1 DEF NodeOf, SecurityNode, OutcomeOf, SecurityTeams
    <3>3. ASSUME NEW n \in dgActive
          PROVE  EdgesOf(n, dgState') = {"risk_classification"}
      <4>1. EdgesOf(n, dgState') = SecurityEdges(n, dgState')
        <5>1. dgGraph' = "security"
          BY <1>4 DEF Superstep
        <5> QED BY <1>4, <5>1 DEF EdgesOf
      <4>2. n \in {"secret_scan", "dependency_scan", "compliance_scan"}
        BY <2>1 DEF SecurityTeams
      <4> QED BY <4>1, <4>2 DEF SecurityEdges, SecurityTeams
    <3> QED BY <3>1, <3>2, <3>3
  <2>3. /\ DOMAIN dgState' = DgFields /\ dgState'.ready = dgState.ready \cup dgActive
        /\ dgState'.status = dgState.status /\ dgState'.valid = dgState.valid
        /\ dgState'.dead = dgState.dead
        /\ dgActive' = UNION {EdgesOf(n, dgState') : n \in dgActive}
        /\ dgSent' = <<>> /\ dgGraph' = dgGraph
    BY <2>2, TeamStep
  <2>4. dgActive' = {"risk_classification"}
    BY <2>2, <2>3
  <2>5. OnItsWay(SecurityTeams, dgState') /\ SecurityTeams \subseteq dgState'.ready
    BY <2>1, <2>2, <2>3, TeamsApart, WholeGrows DEF OnItsWay
  <2>6. "risk_classification" \in SecurityNodes /\ SecurityTrail("risk_classification", dgState')
    BY <2>1, <2>3, <2>5 DEF SecurityNodes, SecurityTrail
  <2> QED BY <1>4, <2>3, <2>4, <2>6 DEF DgInv, LoneTrail
<1> QED BY <1>1, <1>2, <1>3, <1>4 DEF TeamTrail
\* Invoked with whatever its caller injects, a graph starts on the trail of its entry.
LEMMA InvokeInv ==
  ASSUME DgInv, Invoke
  PROVE  DgInv'
<1>1. /\ dgGraph = "none" /\ DOMAIN dgState = DgFields /\ dgSent = <<>>
      /\ dgState.status = "running"
  BY DEF Invoke, DgInv, LoneTrail, TeamTrail
<1>2. PICK g \in Graphs : dgGraph' = g /\ dgActive' = {Entry[g]}
  BY DEF Invoke
<1>3. /\ DOMAIN dgState' = DgFields /\ dgState'.status = "running" /\ dgSent' = <<>>
      /\ dgState'.ready \in {ArchitectureTeams, {}}
  BY <1>1 DEF Invoke, DgFields
<1>4. /\ \A own : OnItsWay(own, dgState')
      /\ dgState'.status # "completed" /\ dgState'.ready \subseteq ArchitectureTeams
  BY <1>3 DEF OnItsWay, Whole
<1>5. LoneTrail(Entry[g])'
  <2>1. CASE g = "architecture"
    BY <1>2, <1>4, <2>1 DEF LoneTrail, Entry, ArchitectureNodes, ArchitectureTrail
  <2>2. CASE g = "engineering"
    BY <1>2, <1>4, <2>2 DEF LoneTrail, Entry, EngineeringNodes, EngineeringTrail
  <2>3. CASE g = "qa"
    BY <1>2, <1>4, <2>3 DEF LoneTrail, Entry, QANodes, QATrail
  <2>4. CASE g = "security"
    BY <1>2, <1>4, <2>4 DEF LoneTrail, Entry, SecurityNodes, SecurityTrail
  <2>5. CASE g = "devops"
    BY <1>2, <1>4, <2>5 DEF LoneTrail, Entry, DevOpsNodes, DevOpsTrail
  <2>6. CASE g = "delegation"
    BY <1>2, <1>4, <2>6 DEF LoneTrail, Entry, DelegationNodes, DelegationTrail
  <2> QED BY <2>1, <2>2, <2>3, <2>4, <2>5, <2>6 DEF Graphs
<1> QED BY <1>2, <1>3, <1>5 DEF DgInv

\* A decision is read only by the gate it is injected at.
LEMMA DecideInv ==
  ASSUME DgInv, Decide
  PROVE  DgInv'
<1>1. "approval_gate" \in dgActive /\ UNCHANGED <<dgGraph, dgActive, dgSent>>
  BY DEF Decide
<1>2. dgActive = {"approval_gate"} /\ LoneTrail("approval_gate") /\ dgSent = <<>>
  BY <1>1 DEF DgInv, TeamTrail, EngineeringTeams, SecurityTeams
<1>3. /\ DOMAIN dgState' = DgFields /\ dgState'.status = dgState.status
      /\ dgState'.ready = dgState.ready /\ dgState'.valid = dgState.valid
      /\ dgState'.dead = dgState.dead
  BY DEF Decide, DgInv, DgFields
<1>4. LoneTrail("approval_gate")'
  <2>1. dgGraph \in {"architecture", "devops"}
    BY <1>2 DEF LoneTrail, EngineeringNodes, QANodes, SecurityNodes, DelegationNodes
  <2>2. CASE dgGraph = "architecture"
    BY <1>1, <1>2, <1>3, <2>2 DEF LoneTrail, ArchitectureTrail
  <2>3. CASE dgGraph = "devops"
    BY <1>1, <1>2, <1>3, <2>3 DEF LoneTrail, DevOpsTrail, OnItsWay, Whole
  <2> QED BY <2>1, <2>2, <2>3
<1> QED BY <1>1, <1>2, <1>3, <1>4 DEF DgInv

\* One superstep, invocation or decision preserves the invariant.
LEMMA DgStepInv ==
  ASSUME DgInv, [GraphNext]_dgVars
  PROVE  DgInv'
<1>1. CASE Superstep
  <2>1. dgActive \notin {{}, {"raised"}, {"select_agent", "escalate_task"}}
    BY <1>1 DEF Superstep, Clash
  <2>2. DOMAIN dgState = DgFields
    BY DEF DgInv
  <2>3. CASE \E n : dgActive = {n} /\ LoneTrail(n) /\ (n # "handle_failure" => dgSent = <<>>)
    BY <1>1, <2>2, <2>3, LoneInv
  <2>4. CASE TeamTrail /\ dgSent = <<>>
    BY <1>1, <2>2, <2>4, TeamInv
  <2> QED BY <2>1, <2>3, <2>4 DEF DgInv
<1>2. CASE WriteTwice
  <2>1. dgGraph # "none"
    BY <1>2 DEF WriteTwice, Clash, DgInv, LoneTrail, TeamTrail
  <2> QED BY <1>2, <2>1 DEF WriteTwice, DgInv
<1>3. CASE UNCHANGED dgVars
  BY <1>3 DEF dgVars, DgInv, LoneTrail, TeamTrail, DgDone
<1> QED BY <1>1, <1>2, <1>3, InvokeInv, DecideInv DEF GraphNext

\* A state machine that ends as completed went through its gates, whatever its caller
\* injects and however often it revises, reviews and retries.
THEOREM GraphsAreGated == GraphSpec => []CompletedThroughItsGates
<1>1. GraphInit => DgInv
  BY DEF GraphInit, DgInv, DgFields
<1>2. DgInv /\ [GraphNext]_dgVars => DgInv'
  BY DgStepInv
<1>3. DgInv => CompletedThroughItsGates
  <2> SUFFICES ASSUME DgInv, GraphEnded, dgState.status = "completed"
               PROVE  CompletedThroughItsGates
    BY DEF CompletedThroughItsGates
  <2>1. DgDone
    BY DEF DgInv, GraphEnded, TeamTrail, EngineeringTeams, SecurityTeams
  <2>2. <<"completed">> # <<>> /\ Head(<<"completed">>) = "completed"
    OBVIOUS
  <2> QED BY <2>1, <2>2 DEF DgDone, CompletedThroughItsGates
<1> QED BY <1>1, <1>2, <1>3, PTL DEF GraphSpec

-----------------------------------------------------------------------------
(***************************************************************************)
(* WebSockets                                                              *)
(***************************************************************************)
\* A socket that was welcomed and whose client is there is registered, only those that are
\* gone are found dead, and whoever was served when a broadcast began is sent to, gone or
\* still to come.
WsInv ==
  /\ \A s \in WsSockets : wsPc[s] \in {"welcome", "serving"} /\ s \notin wsGone => s \in wsRegistered
  /\ wsPc \in [WsSockets -> {"new", "welcome", "serving", "raised", "closed"}]
  /\ DOMAIN wsToSend = WsSenders /\ DOMAIN wsDead = WsSenders
  /\ DOMAIN wsReached = WsSenders /\ DOMAIN wsAudience = WsSenders
  /\ \A b \in WsSenders :
       wsDead[b] \subseteq wsGone /\ wsAudience[b] \subseteq wsReached[b] \cup wsToSend[b] \cup wsGone

\* One step of a socket's handler, a client or a broadcast preserves the invariant.
LEMMA WsStepInv ==
  ASSUME WsInv, [WsNext]_wsVars
  PROVE  WsInv'
<1>1. ASSUME NEW s \in WsSockets, Connect(s) PROVE WsInv'
  BY <1>1 DEF Connect, wsSendVars, WsInv
<1>2. ASSUME NEW s \in WsSockets, Welcome(s) PROVE WsInv'
  BY <1>2 DEF Welcome, wsSendVars, WsInv
<1>3. ASSUME NEW s \in WsSockets, ServeEnds(s) PROVE WsInv'
  BY <1>3 DEF ServeEnds, Disconnect, Without, wsSendVars, WsInv
<1>4. ASSUME NEW s \in WsSockets, ServeFails(s) \/ ClientGoes(s) PROVE WsInv'
  BY <1>4 DEF ServeFails, Disconnect, Without, ClientGoes, wsSendVars, WsInv
<1>5. ASSUME NEW b \in WsSenders, NEW kind \in {"broadcast", "ping"}, Begin(b, kind) PROVE WsInv'
  BY <1>5 DEF Begin, Served, WsInv
<1>6. ASSUME NEW b \in WsSenders, SendNext(b) PROVE WsInv'
  BY <1>6 DEF SendNext, Send, WsInv
<1>7. ASSUME NEW b \in WsSenders, Prune(b) PROVE WsInv'
  BY <1>7 DEF Prune, WsInv
<1>8. ASSUME NEW b \in WsSenders, PingNext(b) PROVE WsInv'
  BY <1>8 DEF PingNext, Send, Disconnect, Without, WsInv
<1>9. CASE UNCHANGED wsVars
  BY <1>9 DEF wsVars, WsInv
<1> QED BY <1>1, <1>2, <1>3, <1>4, <1>5, <1>6, <1>7, <1>8, <1>9 DEF WsNext, SocketStep

\* However connections come and go between a broadcast's snapshot and its pruning, and however
\* broadcasts overlap, a client that is served and still there is registered, and one that was
\* served when a broadcast began has been sent it, or has gone.
THEOREM SocketsAreReached == WsSpec => []LiveSocketsAreReached
<1>1. WsInit => WsInv
  BY DEF WsInit, WsInv
<1>2. WsInv /\ [WsNext]_wsVars => WsInv'
  BY WsStepInv
<1>3. WsInv => LiveSocketsAreReached
  BY DEF WsInv, LiveSocketsAreReached, Served
<1> QED BY <1>1, <1>2, <1>3, PTL DEF WsSpec

-----------------------------------------------------------------------------
(***************************************************************************)
(* Messaging                                                               *)
(***************************************************************************)
\* The budget of what goes wrong is what its reader sees of it, and the property itself.
MsInv ==
  /\ msBudget \in [failures : Nat, copies : Nat, losses : Nat, restarts : Nat]
  /\ AckedWasDone

\* A delivery, a handler, a task, a loss or a restart preserves the invariant.
LEMMA MsStepInv ==
  ASSUME MsInv, [MsNext]_msVars
  PROVE  MsInv'
<1>1. /\ msBudget \in [failures : Nat, copies : Nat, losses : Nat, restarts : Nat]
      /\ \A m \in msAcked :
           \/ m \in msDone \cup msFailed
           \/ msConsumer \in Spawns /\ (m \in msTasks \/ msBudget.restarts > 0)
  BY DEF MsInv, AckedWasDone
<1>2. ASSUME NEW m \in MsMessages, MsPublish(m) PROVE MsInv'
  BY <1>1, <1>2 DEF MsPublish, msWork, MsInv, AckedWasDone
<1>3. CASE Deliver
  BY <1>1, <1>3 DEF Deliver, DeliverTo, msWork, MsInv, AckedWasDone
<1>4. CASE DeliverAgain
  BY <1>1, <1>4 DEF DeliverAgain, DeliverTo, Spend, msWork, MsInv, AckedWasDone
<1>5. CASE Handle
  BY <1>1, <1>5 DEF Handle, MsInv, AckedWasDone
<1>6. CASE MsReturns
  BY <1>1, <1>6 DEF MsReturns, Settle, Idle, MsInv, AckedWasDone
<1>7. CASE MsFails
  BY <1>1, <1>7 DEF MsFails, Settle, Idle, Spend, Spawns, Logs, Raises, MsInv, AckedWasDone
<1>8. CASE TaskEnds
  BY <1>1, <1>8 DEF TaskEnds, Spend, MsInv, AckedWasDone
<1>9. CASE Loses
  BY <1>1, <1>9 DEF Loses, Spend, msWork, MsInv, AckedWasDone
<1>10. CASE Reconnects
  BY <1>1, <1>10 DEF Reconnects, msWork, MsInv, AckedWasDone
<1>11. CASE MsRestart
  BY <1>1, <1>11 DEF MsRestart, Spend, Idle, MsInv, AckedWasDone
<1>12. CASE UNCHANGED msVars
  BY <1>1, <1>12 DEF msVars, MsInv, AckedWasDone
<1> QED BY <1>2, <1>3, <1>4, <1>5, <1>6, <1>7, <1>8, <1>9, <1>10, <1>11, <1>12 DEF MsNext

\* Whatever is refused, redelivered, cut off or restarted: what need not be delivered again
\* was worked on, and only an error that a handler logs, or a restart in the midst of a task
\* nobody waits for, loses the work of a message.
THEOREM AcknowledgedWorkIsDone == MsSpec => []AckedWasDone
<1>1. MsInit => MsInv
  BY DEF MsInit, MsInv, AckedWasDone
<1>2. MsInv /\ [MsNext]_msVars => MsInv'
  BY MsStepInv
<1>3. MsInv => AckedWasDone
  BY DEF MsInv
<1> QED BY <1>1, <1>2, <1>3, PTL DEF MsSpec

-----------------------------------------------------------------------------
(***************************************************************************)
(* Chaos testing                                                           *)
(***************************************************************************)
\* A bounded set of numbers has a greatest one.
LEMMA LatestExists ==
  ASSUME NEW n \in Nat, NEW S, S \subseteq 1 .. n, S # {}
  PROVE  \E m \in S : \A k \in S : k <= m
<1> DEFINE T == {n - k : k \in S}
           R == OpToRel(<, Nat)
<1>1. T \subseteq Nat
  <2>1. \A k \in S : n - k \in Nat
    OBVIOUS
  <2> QED BY <2>1
<1>2. T # {}
  <2>1. PICK k \in S : TRUE
    OBVIOUS
  <2>2. n - k \in T
    BY <2>1
  <2> QED BY <2>2
<1>3. IsWellFoundedOn(R, Nat)
  BY NatLessThanWellFounded
<1>4. \A x, y \in Nat : y < x => <<y, x>> \in R
  BY DEF OpToRel
<1>5. PICK x \in T : \A y \in T : ~ (<<y, x>> \in R)
  <2> HIDE DEF T, R
  <2> QED BY <1>1, <1>2, <1>3, WFMin
<1>6. \A y \in T : ~(y < x)
  <2> HIDE DEF T, R
  <2> QED BY <1>1, <1>4, <1>5
<1>7. PICK m \in S : x = n - m
  BY <1>5
<1>8. ASSUME NEW k \in S
      PROVE  k <= m
  <2>1. ~(n - k < n - m)
    BY <1>6, <1>7
  <2> QED BY <2>1
<1> QED BY <1>8

\* The faults of a scenario, with the calls that reached them.
FaultKinds == {"unavailable", "timeout", "disconnect", "rate limit", "latency", "random", "partial"}
ChFaultStates == [kind : FaultKinds, triggered : BOOLEAN, calls : Nat]

ChTypeOK ==
  /\ chRetries \in Nat \cup {None}
  /\ \E n \in Nat : chFaults \in [1 .. n -> ChFaultStates]
  /\ chAttempts \in Seq(BOOLEAN)
  /\ chBroken \in BOOLEAN

\* The transient faults that failed their one call.
UsedUp == {i \in DOMAIN chFaults : Transient(chFaults[i]) /\ chFaults[i].calls > 0}
Curable == ~chBroken /\ \A i \in DOMAIN chFaults :
             ~Permanent(chFaults[i]) /\ chFaults[i].kind # "random"

\* An attempt is the last one if it succeeds; it succeeds past no permanent fault; and
\* where only transient faults can fail one, each that failed used one up.
AttemptsAreSpent ==
  chRetries # None =>
    /\ Len(chAttempts) <= chRetries + 1
    /\ Succeeded => \A i \in DOMAIN chFaults : ~Permanent(chFaults[i])
    /\ \A i \in DOMAIN chFaults : chFaults[i].kind = "partial" => chFaults[i].triggered
    /\ Curable /\ ~Succeeded => Len(chAttempts) <= Cardinality(UsedUp)

ChScenarioInv == ChTypeOK /\ AttemptsAreSpent

\* What an attempt makes of the faults and of the attempts before it.
AttemptOf(fails, broken) ==
  /\ \A i \in DOMAIN chFaults : fails[i] \in MayFail(chFaults[i])
  /\ chFaults' \in [DOMAIN chFaults -> ChFaultStates]
  /\ \A i \in DOMAIN chFaults :
       /\ chFaults'[i].kind = chFaults[i].kind
       /\ chFaults'[i].triggered = chFaults[i].triggered
       /\ chFaults[i].calls \in Nat
       /\ chFaults'[i].calls \in {chFaults[i].calls, chFaults[i].calls + 1}
       /\ (\A j \in DOMAIN chFaults : fails[j] => j <= i)
            => chFaults'[i].calls = chFaults[i].calls + 1
  /\ \E success \in BOOLEAN :
       /\ chAttempts' = Append(chAttempts, success)
       /\ success <=> ~broken /\ \A i \in DOMAIN chFaults : ~fails[i]
  /\ chBroken' = (chBroken \/ broken)

LEMMA ChAttemptShape ==
  ASSUME ChScenarioInv, Attempt
  PROVE  \E fails \in [DOMAIN chFaults -> BOOLEAN], broken \in BOOLEAN : AttemptOf(fails, broken)
<1>1. PICK fails \in [DOMAIN chFaults -> BOOLEAN], broken \in BOOLEAN :
        LET failing == {i \in DOMAIN chFaults : fails[i]}
            reached == {i \in DOMAIN chFaults : \A j \in failing : j <= i}
        IN /\ \A i \in DOMAIN chFaults : fails[i] \in MayFail(chFaults[i])
           /\ broken => failing = {}
           /\ chFaults' = [i \in DOMAIN chFaults |->
                             IF i \in reached THEN [chFaults[i] EXCEPT !.calls = @ + 1]
                             ELSE chFaults[i]]
           /\ chAttempts' = Append(chAttempts, failing = {} /\ ~broken)
           /\ chBroken' = (chBroken \/ broken)
  BY DEF Attempt
<1> DEFINE failing == {i \in DOMAIN chFaults : fails[i]}
           reached == {i \in DOMAIN chFaults : \A j \in failing : j <= i}
           success == failing = {} /\ ~broken
<1>2. \A i \in DOMAIN chFaults : chFaults[i] \in ChFaultStates
  BY DEF ChScenarioInv, ChTypeOK
<1>3. ASSUME NEW i \in DOMAIN chFaults
      PROVE  /\ chFaults'[i] \in ChFaultStates
             /\ chFaults'[i].kind = chFaults[i].kind
             /\ chFaults'[i].triggered = chFaults[i].triggered
             /\ chFaults[i].calls \in Nat
             /\ chFaults'[i].calls =
                  IF i \in reached THEN chFaults[i].calls + 1 ELSE chFaults[i].calls
  <2>1. chFaults'[i] = IF i \in reached THEN [chFaults[i] EXCEPT !.calls = @ + 1] ELSE chFaults[i]
    BY <1>1
  <2> HIDE DEF reached
  <2> DEFINE old == chFaults[i]
             up == [old EXCEPT !.calls = @ + 1]
  <2>2. old \in ChFaultStates
    BY <1>2
  <2>3. up \in ChFaultStates /\ up.kind = old.kind /\ up.triggered = old.triggered
        /\ up.calls = old.calls + 1 /\ old.calls \in Nat
    <3> HIDE DEF old
    <3> QED BY <2>2 DEF ChFaultStates
  <2> QED BY <2>1, <2>2, <2>3
<1>4. chFaults' \in [DOMAIN chFaults -> ChFaultStates]
  BY <1>1, <1>3
<1>5. /\ chAttempts' = Append(chAttempts, success) /\ success \in BOOLEAN
      /\ success <=> ~broken /\ \A i \in DOMAIN chFaults : ~fails[i]
  BY <1>1
<1>6. \A i \in DOMAIN chFaults : (\A j \in DOMAIN chFaults : fails[j] => j <= i) => i \in reached
  OBVIOUS
<1>7. /\ \A i \in DOMAIN chFaults : fails[i] \in MayFail(chFaults[i])
      /\ chBroken' = (chBroken \/ broken)
  BY <1>1
<1> HIDE DEF reached, success, failing
<1>8. ASSUME NEW i \in DOMAIN chFaults
      PROVE  /\ chFaults'[i].kind = chFaults[i].kind
             /\ chFaults'[i].triggered = chFaults[i].triggered
             /\ chFaults[i].calls \in Nat
             /\ chFaults'[i].calls \in {chFaults[i].calls, chFaults[i].calls + 1}
             /\ (\A j \in DOMAIN chFaults : fails[j] => j <= i)
                  => chFaults'[i].calls = chFaults[i].calls + 1
  BY <1>3, <1>6
<1>9. AttemptOf(fails, broken)
  BY <1>4, <1>5, <1>7, <1>8 DEF AttemptOf
<1> QED BY <1>9

LEMMA ChStartInv ==
  ASSUME ChScenarioInv, StartScenario
  PROVE  ChScenarioInv'
<1>1. PICK n \in 0 .. ChMaxFaults : chFaults' \in [1 .. n -> FaultSpecs]
  BY DEF StartScenario
<1>2. \A f \in FaultSpecs : f \in ChFaultStates /\ (f.kind = "partial" => f.triggered)
  <2>1. ASSUME NEW kinds \in SUBSET FaultKinds, NEW triggered \in SUBSET BOOLEAN,
               NEW f \in Faults(kinds, triggered)
        PROVE  f \in ChFaultStates /\ f.kind \in kinds /\ f.triggered \in triggered
    BY <2>1 DEF Faults, ChFaultStates
  <2> DEFINE rolled == {"unavailable", "timeout", "disconnect", "rate limit", "latency"}
             certain == {"random", "partial"}
  <2>2. /\ rolled \in SUBSET FaultKinds /\ certain \in SUBSET FaultKinds
        /\ BOOLEAN \in SUBSET BOOLEAN /\ {TRUE} \in SUBSET BOOLEAN
        /\ "partial" \notin rolled
    BY DEF FaultKinds
  <2>3. FaultSpecs = Faults(rolled, BOOLEAN) \cup Faults(certain, {TRUE})
    BY DEF FaultSpecs
  <2> HIDE DEF rolled, certain
  <2>4. \A f \in Faults(rolled, BOOLEAN) : f \in ChFaultStates /\ f.kind \in rolled
    BY <2>1, <2>2
  <2>5. \A f \in Faults(certain, {TRUE}) : f \in ChFaultStates /\ f.triggered
    BY <2>1, <2>2
  <2> QED BY <2>2, <2>3, <2>4, <2>5
<1>3. chFaults' \in [1 .. n -> ChFaultStates]
      /\ \A i \in DOMAIN chFaults' : chFaults'[i].kind = "partial" => chFaults'[i].triggered
  BY <1>1, <1>2
<1>4. chRetries' \in Nat /\ n \in Nat /\ chAttempts' = <<>> /\ chBroken' = FALSE
  BY ChaosAssumption DEF StartScenario
<1>5. ChTypeOK'
  <2>1. \E k \in Nat : chFaults' \in [1 .. k -> ChFaultStates]
    BY <1>3, <1>4
  <2>2. chAttempts' \in Seq(BOOLEAN)
    BY <1>4
  <2> QED BY <1>4, <2>1, <2>2 DEF ChTypeOK
<1>6. ~Succeeded' /\ Len(chAttempts') = 0
  BY <1>4 DEF Succeeded
<1>7. IsFiniteSet(UsedUp')
  <2>1. DOMAIN chFaults' = 1 .. n
    BY <1>3
  <2>2. UsedUp' \subseteq 1 .. n
    BY <2>1 DEF UsedUp
  <2>3. IsFiniteSet(1 .. n)
    BY <1>4, FS_Interval
  <2> QED BY <2>2, <2>3, FS_Subset
<1>8. Cardinality(UsedUp') \in Nat
  BY <1>7, FS_CardinalityType
<1>9. Len(chAttempts') <= chRetries' + 1 /\ Len(chAttempts') <= Cardinality(UsedUp')
  <2>1. \A k \in Nat : 0 <= k + 1 /\ 0 <= k
    OBVIOUS
  <2>2. chRetries' \in Nat /\ Len(chAttempts') = 0
    BY <1>4, <1>6
  <2> HIDE DEF UsedUp
  <2> QED BY <1>8, <2>1, <2>2
<1> QED BY <1>3, <1>5, <1>6, <1>9 DEF ChScenarioInv, AttemptsAreSpent


\* The outermost fault that fails an attempt at a curable workflow fails its only time.
LEMMA ChAttemptInv ==
  ASSUME ChScenarioInv, Attempt
  PROVE  ChScenarioInv'
<1>1. PICK fails \in [DOMAIN chFaults -> BOOLEAN], broken \in BOOLEAN : AttemptOf(fails, broken)
  BY ChAttemptShape
<1> DEFINE failing == {i \in DOMAIN chFaults : fails[i]}
<1>2. PICK n \in Nat : chFaults \in [1 .. n -> ChFaultStates]
  BY DEF ChScenarioInv, ChTypeOK
<1>3. DOMAIN chFaults = 1 .. n /\ DOMAIN chFaults' = 1 .. n
      /\ chFaults' \in [1 .. n -> ChFaultStates]
  BY <1>1, <1>2 DEF AttemptOf
<1>4. /\ chRetries # None /\ chRetries' = chRetries /\ ~Succeeded
      /\ ~(Len(chAttempts) > chRetries)
      /\ chRetries \in Nat /\ chAttempts \in Seq(BOOLEAN) /\ chBroken \in BOOLEAN
  BY DEF Attempt, Spent, ChScenarioInv, ChTypeOK, None
<1>5. /\ chAttempts' \in Seq(BOOLEAN) /\ Len(chAttempts') = Len(chAttempts) + 1
      /\ Len(chAttempts) \in Nat
      /\ Succeeded' <=> failing = {} /\ ~broken
  <2>1. PICK success \in BOOLEAN :
          /\ chAttempts' = Append(chAttempts, success)
          /\ success <=> ~broken /\ \A i \in DOMAIN chFaults : ~fails[i]
    BY <1>1 DEF AttemptOf
  <2>2. /\ chAttempts' \in Seq(BOOLEAN) /\ Len(chAttempts') = Len(chAttempts) + 1
        /\ Len(chAttempts) \in Nat
        /\ chAttempts' # <<>> /\ chAttempts'[Len(chAttempts')] = success
    BY <1>4, <2>1
  <2>3. Succeeded' <=> success
    BY <2>2 DEF Succeeded
  <2> QED BY <2>1, <2>2, <2>3
<1>6. \A i \in 1 .. n : /\ Permanent(chFaults'[i]) <=> Permanent(chFaults[i])
                        /\ Transient(chFaults'[i]) <=> Transient(chFaults[i])
                        /\ chFaults'[i].kind = chFaults[i].kind
                        /\ chFaults'[i].triggered = chFaults[i].triggered
  BY <1>1, <1>3 DEF AttemptOf, Permanent, Transient
<1>7. \A i \in 1 .. n : Permanent(chFaults[i]) => fails[i]
  BY <1>1, <1>3 DEF AttemptOf, Permanent, MayFail
<1>8. Succeeded' => \A i \in 1 .. n : ~Permanent(chFaults'[i])
  BY <1>3, <1>5, <1>6, <1>7
<1>9. ChTypeOK'
  BY <1>1, <1>3, <1>4, <1>5 DEF ChTypeOK, AttemptOf
<1>10. \A i \in 1 .. n : chFaults'[i].kind = "partial" => chFaults'[i].triggered
  BY <1>3, <1>4, <1>6 DEF ChScenarioInv, AttemptsAreSpent
<1>11. ASSUME Curable', ~Succeeded'
       PROVE  Len(chAttempts') <= Cardinality(UsedUp')
  <2>1. Curable /\ ~broken
    <3>1. ~chBroken' /\ chBroken' = (chBroken \/ broken)
      BY <1>1, <1>11 DEF Curable, AttemptOf
    <3>2. \A i \in 1 .. n : ~Permanent(chFaults'[i]) /\ chFaults'[i].kind # "random"
      BY <1>3, <1>11 DEF Curable
    <3> QED BY <1>3, <1>6, <3>1, <3>2 DEF Curable
  <2>2. failing \subseteq 1 .. n /\ failing # {}
    BY <1>3, <1>5, <1>11, <2>1
  <2>3. PICK m \in failing : \A k \in failing : k <= m
    <3> HIDE DEF failing
    <3> QED BY <1>2, <2>2, LatestExists
  <2>4. m \in 1 .. n /\ fails[m] /\ \A j \in 1 .. n : fails[j] => j <= m
    BY <1>3, <2>3
  <2>5. Transient(chFaults[m]) /\ chFaults[m].calls = 0
    <3>1. fails[m] \in MayFail(chFaults[m]) /\ chFaults[m] \in ChFaultStates
      BY <1>1, <1>2, <1>3, <2>4 DEF AttemptOf
    <3>2. ~Permanent(chFaults[m]) /\ chFaults[m].kind # "random"
      BY <1>3, <2>1, <2>4 DEF Curable
    <3>3. chFaults[m].kind = "partial" => chFaults[m].triggered
      BY <1>3, <1>4, <2>4 DEF ChScenarioInv, AttemptsAreSpent
    <3> QED BY <2>4, <3>1, <3>2, <3>3
               DEF MayFail, Permanent, Transient, ChFaultStates, FaultKinds
  <2>6. m \notin UsedUp
    BY <2>5 DEF UsedUp
  <2>7. UsedUp \cup {m} \subseteq UsedUp'
    <3>1. chFaults'[m].calls = chFaults[m].calls + 1
      BY <1>1, <1>3, <2>4 DEF AttemptOf
    <3>2. chFaults'[m].calls = 1 /\ Transient(chFaults'[m])
      BY <1>6, <2>4, <2>5, <3>1
    <3>3. \A i \in UsedUp : i \in UsedUp'
      <4>1. \A i \in 1 .. n : /\ chFaults[i].calls \in Nat
                              /\ chFaults'[i].calls \in {chFaults[i].calls, chFaults[i].calls + 1}
        BY <1>1, <1>3 DEF AttemptOf
      <4>2. \A i \in 1 .. n : chFaults[i].calls > 0 => chFaults'[i].calls > 0
        BY <4>1
      <4> QED BY <1>3, <1>6, <4>2 DEF UsedUp
    <3>4. m \in UsedUp'
      BY <1>3, <2>4, <3>2 DEF UsedUp
    <3> QED BY <3>3, <3>4
  <2>8. UsedUp' \subseteq 1 .. n /\ UsedUp \subseteq 1 .. n /\ IsFiniteSet(1 .. n)
    BY <1>2, <1>3, FS_Interval DEF UsedUp
  <2>9. IsFiniteSet(UsedUp) /\ IsFiniteSet(UsedUp')
    BY <2>8, FS_Subset
  <2>10. Cardinality(UsedUp \cup {m}) = Cardinality(UsedUp) + 1
    BY <2>6, <2>9, FS_AddElement
  <2>11. Cardinality(UsedUp \cup {m}) <= Cardinality(UsedUp')
    BY <2>7, <2>9, FS_Subset
  <2>12. Cardinality(UsedUp) \in Nat /\ Cardinality(UsedUp') \in Nat
    BY <2>9, FS_CardinalityType
  <2>13. Len(chAttempts) <= Cardinality(UsedUp)
    BY <1>4, <2>1 DEF ChScenarioInv, AttemptsAreSpent
  <2> QED BY <1>5, <2>10, <2>11, <2>12, <2>13
<1> QED BY <1>3, <1>4, <1>5, <1>8, <1>9, <1>10, <1>11 DEF ChScenarioInv, AttemptsAreSpent

LEMMA ChEndInv ==
  ASSUME ChScenarioInv, EndScenario
  PROVE  ChScenarioInv'
<1>1. chRetries' = None /\ chFaults' = <<>> /\ chAttempts' = <<>> /\ chBroken' = FALSE
  BY DEF EndScenario
<1>2. \E n \in Nat : chFaults' \in [1 .. n -> ChFaultStates]
  <2>1. chFaults' \in [1 .. 0 -> ChFaultStates]
    BY <1>1
  <2> QED BY <2>1
<1>3. chAttempts' \in Seq(BOOLEAN)
  BY <1>1
<1> QED BY <1>1, <1>2, <1>3 DEF ChScenarioInv, ChTypeOK, AttemptsAreSpent

\* The scenarios' steps together.
LEMMA ChScenarioStep ==
  ASSUME ChScenarioInv, [ChNext]_chVars
  PROVE  ChScenarioInv'
<1>1. CASE UNCHANGED chVars
  BY <1>1 DEF chVars, ChScenarioInv, ChTypeOK, AttemptsAreSpent, Curable, UsedUp, Succeeded
<1> QED BY <1>1, ChStartInv, ChAttemptInv, ChEndInv DEF ChNext

\* No scenario has begun.
LEMMA ChScenarioStart == ChInit => ChScenarioInv
<1> SUFFICES ASSUME ChInit PROVE ChScenarioInv OBVIOUS
<1>1. \E n \in Nat : chFaults \in [1 .. n -> ChFaultStates]
  <2>1. chFaults \in [1 .. 0 -> ChFaultStates]
    BY DEF ChInit
  <2> QED BY <2>1
<1>2. chAttempts \in Seq(BOOLEAN)
  BY DEF ChInit
<1> QED BY <1>1, <1>2 DEF ChInit, ChScenarioInv, ChTypeOK, AttemptsAreSpent

\* A transient fault that used up its call is one of the transient ones, so that retries
\* for each of them are one attempt too many for their failures.
LEMMA RetriesAreEnough == ChScenarioInv => RetriesSuffice
<1> SUFFICES ASSUME ChScenarioInv, chRetries # None, Succeeded \/ Spent
             PROVE  LET faults == {chFaults[i] : i \in DOMAIN chFaults}
                    IN /\ ~Succeeded => Len(chAttempts) = chRetries + 1
                       /\ Succeeded => \A f \in faults : ~Permanent(f)
                       /\ /\ ~chBroken /\ \A f \in faults : ~Permanent(f) /\ f.kind # "random"
                          /\ chRetries >= Cardinality({i \in DOMAIN chFaults : Transient(chFaults[i])})
                          => Succeeded
  BY DEF RetriesSuffice
<1> DEFINE transients == {i \in DOMAIN chFaults : Transient(chFaults[i])}
<1>1. chRetries \in Nat /\ Len(chAttempts) \in Nat /\ Len(chAttempts) <= chRetries + 1
  BY DEF ChScenarioInv, ChTypeOK, AttemptsAreSpent
<1>2. ~Succeeded => Len(chAttempts) = chRetries + 1
  BY <1>1 DEF Spent
<1>3. Succeeded => \A i \in DOMAIN chFaults : ~Permanent(chFaults[i])
  BY DEF ChScenarioInv, AttemptsAreSpent
<1>4. ASSUME Curable, ~Succeeded
      PROVE  ~(chRetries >= Cardinality(transients))
  <2>1. Len(chAttempts) <= Cardinality(UsedUp)
    BY <1>4 DEF ChScenarioInv, AttemptsAreSpent
  <2>2. PICK n \in Nat : chFaults \in [1 .. n -> ChFaultStates]
    BY DEF ChScenarioInv, ChTypeOK
  <2>3. transients \subseteq 1 .. n /\ UsedUp \subseteq transients /\ IsFiniteSet(1 .. n)
    BY <2>2, FS_Interval DEF UsedUp
  <2>4. IsFiniteSet(transients)
    BY <2>3, FS_Subset
  <2>5. IsFiniteSet(UsedUp) /\ Cardinality(UsedUp) <= Cardinality(transients)
    BY <2>3, <2>4, FS_Subset
  <2>6. Cardinality(UsedUp) \in Nat /\ Cardinality(transients) \in Nat
    BY <2>4, <2>5, FS_CardinalityType
  <2> HIDE DEF transients
  <2> QED BY <1>1, <1>2, <1>4, <2>1, <2>5, <2>6
<1> QED BY <1>2, <1>3, <1>4 DEF Curable

\* The results of a suite, of which there are no more than it has scenarios.
ChResultStates ==
  [success : BOOLEAN, recovered : BOOLEAN, completed : {"unchecked", "yes", "no"}]

ChResultsInv ==
  /\ chResults \in Seq(ChResultStates)
  /\ Len(chResults) <= ChScenarios
  /\ chRetries # None => Len(chResults) < ChScenarios
  /\ \A i \in DOMAIN chResults : chResults[i].recovered = chResults[i].success

LEMMA ChResultsStep ==
  ASSUME ChResultsInv, [ChNext]_chVars
  PROVE  ChResultsInv'
<1>1. CASE StartScenario
  BY <1>1 DEF StartScenario, ChResultsInv
<1>2. CASE Attempt
  BY <1>2 DEF Attempt, ChResultsInv
<1>3. CASE EndScenario
  <2>1. PICK completed \in {"unchecked", "yes", "no"} :
          chResults' = Append(chResults, [success |-> Succeeded, recovered |-> Succeeded,
                                          completed |-> completed])
    BY <1>3 DEF EndScenario
  <2> DEFINE result == [success |-> Succeeded, recovered |-> Succeeded, completed |-> completed]
  <2>2. result \in ChResultStates /\ result.recovered = result.success
    <3>1. Succeeded \in BOOLEAN
      BY DEF Succeeded
    <3> QED BY <3>1 DEF ChResultStates
  <2>3. chResults' = Append(chResults, result)
    BY <2>1
  <2> HIDE DEF result
  <2>4. /\ chResults \in Seq(ChResultStates) /\ Len(chResults) < ChScenarios
        /\ \A i \in DOMAIN chResults : chResults[i].recovered = chResults[i].success
    BY <1>3 DEF ChResultsInv, EndScenario
  <2>5. chResults' \in Seq(ChResultStates) /\ Len(chResults') = Len(chResults) + 1
    BY <2>2, <2>3, <2>4
  <2>6. ASSUME NEW i \in DOMAIN chResults'
        PROVE  chResults'[i] = IF i = Len(chResults) + 1 THEN result ELSE chResults[i]
    BY <2>2, <2>3, <2>4
  <2>7. \A i \in DOMAIN chResults' : i = Len(chResults) + 1 \/ i \in DOMAIN chResults
    BY <2>4, <2>5
  <2>8. \A i \in DOMAIN chResults' : chResults'[i].recovered = chResults'[i].success
    BY <2>2, <2>4, <2>6, <2>7
  <2>9. Len(chResults') <= ChScenarios /\ chRetries' = None
    BY <1>3, <2>4, <2>5, ChaosAssumption DEF EndScenario
  <2> QED BY <2>5, <2>8, <2>9 DEF ChResultsInv
<1>4. CASE UNCHANGED chVars
  BY <1>4 DEF chVars, ChResultsInv
<1> QED BY <1>1, <1>2, <1>3, <1>4 DEF ChNext

LEMMA RateIsCounted ==
  ASSUME NEW part, NEW whole, part \subseteq whole, IsFiniteSet(whole)
  PROVE  /\ Rate(part, whole)[1] \in Nat /\ Rate(part, whole)[2] \in Nat \ {0}
         /\ whole = {} => Rate(part, whole)[1] = 0
         /\ whole # {} => Rate(part, whole) = <<Cardinality(part), Cardinality(whole)>>
         /\ Cardinality(part) \in Nat /\ Cardinality(whole) \in Nat
         /\ Cardinality(part) <= Cardinality(whole)
<1>1. IsFiniteSet(part) /\ Cardinality(part) <= Cardinality(whole)
  BY FS_Subset
<1>2. Cardinality(part) \in Nat /\ Cardinality(whole) \in Nat
  BY <1>1, FS_CardinalityType
<1>3. whole # {} => Cardinality(whole) # 0
  BY FS_EmptySet
<1> QED BY <1>1, <1>2, <1>3 DEF Rate

\* The metrics of a suite of n scenarios.
MetricsOf(m, n) ==
  /\ DOMAIN m = {"success", "failure", "recovery", "completion"}
  /\ \A x \in DOMAIN m : m[x][1] \in Nat /\ m[x][2] \in Nat \ {0}
  /\ n = 0 => m["success"][1] = 0
  /\ n # 0 => \E s \in 0 .. n :
       m["success"] = <<s, n>> /\ m["recovery"] = <<s, n>> /\ m["failure"] = <<n - s, n>>

LEMMA MetricsAreCounted ==
  ASSUME NEW n \in Nat, NEW results, DOMAIN results = 1 .. n,
         \A i \in 1 .. n : results[i].recovered = results[i].success
  PROVE  MetricsOf(Metrics(results), n)
<1> DEFINE all       == DOMAIN results
           succeeded == {i \in all : results[i].success}
           recovered == {i \in all : results[i].recovered}
           checked   == {i \in all : results[i].completed # "unchecked"}
           yes       == {i \in checked : results[i].completed = "yes"}
           m         == [success    |-> Rate(succeeded, all),
                         failure    |-> Rate(all \ succeeded, all),
                         recovery   |-> Rate(recovered, all),
                         completion |-> Rate(yes, checked)]
<1>1. Metrics(results) = m
  BY DEF Metrics
<1>2. IsFiniteSet(all) /\ Cardinality(all) = n
  <2>1. /\ IsFiniteSet(1 .. n)
        /\ Cardinality(1 .. n) = IF 1 > n THEN 0 ELSE n - 1 + 1
    BY FS_Interval
  <2>2. all = 1 .. n
    OBVIOUS
  <2> HIDE DEF all
  <2> QED
    BY <2>1, <2>2
<1>3. /\ succeeded \subseteq all /\ checked \subseteq all /\ yes \subseteq checked
      /\ all \ succeeded \subseteq all /\ recovered = succeeded
      /\ (n = 0 <=> all = {})
  OBVIOUS
<1> HIDE DEF all, succeeded, recovered, checked, yes
<1>4. IsFiniteSet(checked) /\ IsFiniteSet(succeeded)
  BY <1>2, <1>3, FS_Subset
<1>5. Cardinality(all \ succeeded) = n - Cardinality(succeeded)
  <2>1. Cardinality(all \ succeeded) = Cardinality(all) - Cardinality(all \cap succeeded)
    BY <1>2, FS_Difference
  <2>2. all \cap succeeded = succeeded
    BY <1>3
  <2> QED BY <1>2, <2>1, <2>2
<1> DEFINE OfRate(part, whole) ==
             /\ Rate(part, whole)[1] \in Nat /\ Rate(part, whole)[2] \in Nat \ {0}
             /\ whole = {} => Rate(part, whole)[1] = 0
             /\ whole # {} => Rate(part, whole) = <<Cardinality(part), Cardinality(whole)>>
             /\ Cardinality(part) \in Nat /\ Cardinality(part) <= Cardinality(whole)
<1>6. \A part, whole : part \subseteq whole /\ IsFiniteSet(whole) => OfRate(part, whole)
  BY RateIsCounted
<1>7. /\ OfRate(succeeded, all) /\ OfRate(all \ succeeded, all) /\ OfRate(recovered, all)
      /\ OfRate(yes, checked)
  <2> HIDE DEF OfRate
  <2> QED BY <1>2, <1>3, <1>4, <1>6
<1>8. /\ DOMAIN m = {"success", "failure", "recovery", "completion"}
      /\ m["success"] = Rate(succeeded, all) /\ m["failure"] = Rate(all \ succeeded, all)
      /\ m["recovery"] = Rate(recovered, all) /\ m["completion"] = Rate(yes, checked)
  OBVIOUS
<1> HIDE DEF m
<1>9. \A x \in DOMAIN m : m[x][1] \in Nat /\ m[x][2] \in Nat \ {0}
  BY <1>7, <1>8
<1>10. n = 0 => m["success"][1] = 0
  BY <1>3, <1>7, <1>8
<1>11. n # 0 => LET s == Cardinality(succeeded)
               IN  s \in 0 .. n /\ m["success"] = <<s, n>> /\ m["recovery"] = <<s, n>>
                   /\ m["failure"] = <<n - s, n>>
  BY <1>2, <1>3, <1>5, <1>7, <1>8
<1>12. MetricsOf(m, n)
  BY <1>8, <1>9, <1>10, <1>11 DEF MetricsOf
<1> QED BY <1>1, <1>12

\* A difference of two rates, one way and the other.
LEMMA GainsOppose ==
  ASSUME NEW n, NEW now, NEW before, MetricsOf(now, n), MetricsOf(before, n),
         NEW x \in DOMAIN now
  PROVE  /\ Gain(now, before, x) \in Int /\ Gain(before, now, x) = -Gain(now, before, x)
         /\ Scale(now, before, x) \in Nat /\ Scale(before, now, x) \in Nat
<1>1. now[x][1] \in Nat /\ now[x][2] \in Nat /\ before[x][1] \in Nat /\ before[x][2] \in Nat
  BY DEF MetricsOf
<1>2. \A a, b, c, d \in Nat :
        LET change == a * d - c * b
            back   == c * b - a * d
        IN change \in Int /\ back = -change /\ -back = change /\ c * b \in Nat /\ a * d \in Nat
  OBVIOUS
<1>3. ASSUME NEW a \in Nat, NEW b \in Nat, NEW c \in Nat, NEW d \in Nat,
             a = now[x][1], b = now[x][2], c = before[x][1], d = before[x][2]
      PROVE  /\ Gain(now, before, x) \in Int /\ Gain(before, now, x) = -Gain(now, before, x)
             /\ Scale(now, before, x) \in Nat /\ Scale(before, now, x) \in Nat
  <2>1. Gain(now, before, x) = IF x \in HigherIsBetter THEN a * d - c * b ELSE -(a * d - c * b)
    BY <1>3 DEF Gain
  <2>2. Gain(before, now, x) = IF x \in HigherIsBetter THEN c * b - a * d ELSE -(c * b - a * d)
    BY <1>3 DEF Gain
  <2>3. Scale(now, before, x) = c * b /\ Scale(before, now, x) = a * d
    BY <1>3 DEF Scale
  <2> QED BY <1>2, <2>1, <2>2, <2>3
<1> QED BY <1>1, <1>3

\* In a suite of less than ten, one success less is more than a tenth of them.
LEMMA OneLessIsTold ==
  ASSUME NEW n \in 0 .. 9, NEW now, NEW before, MetricsOf(now, n), MetricsOf(before, n),
         now["success"][1] < before["success"][1]
  PROVE  /\ {"success", "recovery"} \subseteq Regressed(now, before)
         /\ "failure" \notin Improved(now, before)
<1>1. n # 0
  <2>1. now["success"][1] \in Nat
    BY DEF MetricsOf
  <2>2. n = 0 => before["success"][1] = 0
    BY DEF MetricsOf
  <2> QED BY <2>1, <2>2
<1>2. PICK s \in 0 .. n : now["success"] = <<s, n>> /\ now["recovery"] = <<s, n>>
                          /\ now["failure"] = <<n - s, n>>
  BY <1>1 DEF MetricsOf
<1>3. PICK b \in 0 .. n : before["success"] = <<b, n>> /\ before["recovery"] = <<b, n>>
                          /\ before["failure"] = <<n - b, n>>
  BY <1>1 DEF MetricsOf
<1>4. s < b
  BY <1>2, <1>3
<1>5. /\ DOMAIN now = {"success", "failure", "recovery", "completion"}
      /\ "success" \in HigherIsBetter /\ "recovery" \in HigherIsBetter
      /\ "failure" \notin HigherIsBetter
  BY DEF MetricsOf, HigherIsBetter
<1>6. ASSUME NEW x \in {"success", "recovery"}
      PROVE  x \in Regressed(now, before)
  <2>1. now[x] = <<s, n>> /\ before[x] = <<b, n>> /\ x \in DOMAIN now /\ x \in HigherIsBetter
    BY <1>2, <1>3, <1>5
  <2>2. Gain(now, before, x) = s * n - b * n /\ Scale(now, before, x) = b * n
    BY <2>1 DEF Gain, Scale
  <2>3. -10 * (s * n - b * n) > b * n
    <3>1. n \in {1, 2, 3, 4, 5, 6, 7, 8, 9}
      BY <1>1
    <3>2. s \in Nat /\ b \in Nat /\ s + 1 <= b /\ b <= n
      BY <1>4
    <3> QED BY <3>1, <3>2
  <2>4. before[x][1] # 0
    BY <1>4, <2>1
  <2> QED BY <2>1, <2>2, <2>3, <2>4 DEF Regressed, Compared
<1>7. "failure" \notin Improved(now, before)
  <2>1. Gain(now, before, "failure") = -((n - s) * n - (n - b) * n)
    BY <1>2, <1>3, <1>5 DEF Gain
  <2>2. ~(-((n - s) * n - (n - b) * n) > 0)
    <3>1. n \in {1, 2, 3, 4, 5, 6, 7, 8, 9}
      BY <1>1
    <3>2. s \in Nat /\ b \in Nat /\ s + 1 <= b /\ b <= n
      BY <1>4
    <3> QED BY <3>1, <3>2
  <2> QED BY <2>1, <2>2 DEF Improved
<1> QED BY <1>6, <1>7

LEMMA ComparisonsAgree ==
  ASSUME NEW n, NEW now, NEW before, MetricsOf(now, n), MetricsOf(before, n)
  PROVE  /\ Regressed(now, before) \cap Improved(now, before) = {}
         /\ Regressed(now, before) \cap Regressed(before, now) = {}
<1>1. DOMAIN now = DOMAIN before
  BY DEF MetricsOf
<1>2. ASSUME NEW x \in DOMAIN now,
             -10 * Gain(now, before, x) > Scale(now, before, x)
      PROVE  ~(Gain(now, before, x) > 0)
             /\ ~(-10 * Gain(before, now, x) > Scale(before, now, x))
  <2>1. ASSUME NEW g \in Int, NEW up \in Nat, NEW down \in Nat, -10 * g > up
        PROVE  ~(g > 0) /\ ~(-10 * (-g) > down)
    BY <2>1
  <2> QED BY <1>2, <2>1, GainsOppose
<1> QED BY <1>1, <1>2 DEF Regressed, Improved, Compared

LEMMA SuitesAreCompared ==
  ASSUME ChScenarios <= 9, ChResultsInv
  PROVE  DegradationIsReported
<1> SUFFICES ASSUME Len(chResults) = ChScenarios, NEW before \in Before
             PROVE  LET now == Metrics(chResults)
                    IN /\ now.success[1] < before.success[1] =>
                            /\ {"success", "recovery"} \subseteq Regressed(now, before)
                            /\ "failure" \notin Improved(now, before)
                       /\ Regressed(now, before) \cap Improved(now, before) = {}
                       /\ Regressed(now, before) \cap Regressed(before, now) = {}
  BY DEF DegradationIsReported
<1> DEFINE n == ChScenarios
<1>1. n \in 0 .. 9 /\ n \in Nat
  BY ChaosAssumption
<1>2. DOMAIN chResults = 1 .. n
  BY DEF ChResultsInv
<1>3. MetricsOf(Metrics(chResults), n)
  BY <1>1, <1>2, MetricsAreCounted DEF ChResultsInv
<1>4. PICK o \in [DOMAIN chResults -> Outcomes] :
        before = Metrics([i \in DOMAIN chResults |->
                            [success |-> o[i].success, recovered |-> o[i].success,
                             completed |-> o[i].completed]])
  BY DEF Before
<1> DEFINE other == [i \in DOMAIN chResults |->
                       [success |-> o[i].success, recovered |-> o[i].success,
                        completed |-> o[i].completed]]
<1>5. DOMAIN other = 1 .. n /\ \A i \in 1 .. n : other[i].recovered = other[i].success
  BY <1>2
<1>6. before = Metrics(other)
  BY <1>4
<1> HIDE DEF n, other
<1>7. MetricsOf(before, n)
  BY <1>1, <1>5, <1>6, MetricsAreCounted
<1> DEFINE now == Metrics(chResults)
<1>8. now.success = now["success"] /\ before.success = before["success"]
  OBVIOUS
<1> HIDE DEF now
<1>9. MetricsOf(now, n)
  BY <1>3 DEF now
<1>10. now["success"][1] < before["success"][1] =>
         /\ {"success", "recovery"} \subseteq Regressed(now, before)
         /\ "failure" \notin Improved(now, before)
  BY <1>1, <1>7, <1>9, OneLessIsTold
<1>11. /\ Regressed(now, before) \cap Improved(now, before) = {}
       /\ Regressed(now, before) \cap Regressed(before, now) = {}
  BY <1>7, <1>9, ComparisonsAgree
<1> QED BY <1>8, <1>10, <1>11 DEF now

\* However faults are stacked, a scenario that ends gave up only after its retries, passed
\* no fault that fails every call, and succeeded if it has a retry for each fault that
\* fails one.
THEOREM RetriesAreWorthTheirName == ChSpec => []RetriesSuffice
<1>1. ChInit => ChScenarioInv
  BY ChScenarioStart
<1>2. ChScenarioInv /\ [ChNext]_chVars => ChScenarioInv'
  BY ChScenarioStep
<1>3. ChScenarioInv => RetriesSuffice
  BY RetriesAreEnough
<1> QED BY <1>1, <1>2, <1>3, PTL DEF ChSpec

\* And what a suite of less than ten scenarios lost since an earlier run of it is reported
\* as worse; in one of ten or more a loss may be a tenth, which the threshold lets pass.
THEOREM ShortSuitesAreTold ==
  ASSUME ChScenarios <= 9
  PROVE  ChSpec => []ResilienceIsTold
<1>1. ChInit => ChScenarioInv /\ ChResultsInv
  <2>1. ChInit => ChResultsInv
    BY ChaosAssumption DEF ChInit, ChResultsInv
  <2> QED BY <2>1, ChScenarioStart
<1>2. ChScenarioInv /\ ChResultsInv /\ [ChNext]_chVars => (ChScenarioInv /\ ChResultsInv)'
  BY ChScenarioStep, ChResultsStep
<1>3. ChScenarioInv /\ ChResultsInv => ResilienceIsTold
  BY RetriesAreEnough, SuitesAreCompared DEF ResilienceIsTold
<1> QED BY <1>1, <1>2, <1>3, PTL DEF ChSpec

-----------------------------------------------------------------------------
(***************************************************************************)
(* Model calls                                                             *)
(***************************************************************************)
McRunStates ==
  [pc : {"calls"}, context : McContexts, role : McRoles, task : McTasks, calls : Nat,
   usage : {0, 1}]

McAnyState == [pc : {"idle", "done"}] \cup McRunStates

McTypeOK ==
  /\ mcKeys \subseteq McKeyed
  /\ mcProject \in Projects
  /\ mcContext \in [McContexts -> {"none", "tight", "roomy"}]
  /\ mcRun \in [McRuns -> McAnyState]
  /\ mcLedger \in Nat /\ mcPaid \in Nat

\* The runs whose usage is still to be recorded.
Unrecorded == {a \in McRuns : mcRun[a].pc = "calls" /\ mcRun[a].usage = 1}

\* What is recorded and what is to be recorded has been paid.
UsageIsPaid == IsFiniteSet(Unrecorded) /\ mcLedger + Cardinality(Unrecorded) <= mcPaid

\* A context that calls its budget tight was built when it was, and a run has its context.
TightIsSpent ==
  /\ \A c \in McContexts :
       mcContext[c] = "tight" => mcProject.limit # 0 /\ mcProject.limit - mcPaid < 1
  /\ \A a \in McRuns : mcRun[a].pc = "calls" /\ mcRun[a].usage = 1 => mcRun[a].calls > 0

\* What the property says of a served call.
KeepsTier(call) ==
  /\ mcProject.provider \in Available => call.provider = mcProject.provider
  /\ call.tier < call.base => mcProject.limit # 0 /\ mcProject.limit - mcPaid < 1

McInv == McTypeOK /\ UsageIsPaid /\ TightIsSpent /\ CallsKeepTheirTier

LEMMA TierBounds ==
  ASSUME NEW role \in McRoles, NEW task \in McTasks
  PROVE  /\ BaseTier(role, task) \in 0 .. 3
         /\ \A tight \in BOOLEAN : Tier(role, task, 0, tight) < BaseTier(role, task) => tight
<1>1. \A x \in DOMAIN TaskTierOverrides : TaskTierOverrides[x] \in 0 .. 3
  BY DEF TaskTierOverrides, Premium, Economy
<1>2. RoleToTier[role] \in 0 .. 3
  BY ModelCallsAssumption DEF RoleToTier
<1>3. BaseTier(role, task) \in 0 .. 3
  BY <1>1, <1>2 DEF BaseTier
<1> QED BY <1>3 DEF Tier, Premium

\* The project's own provider heads its chain, so it serves when it has a key.
LEMMA OwnProviderFirst ==
  ASSUME NEW avail, NEW preferred \in DOMAIN FailoverChains \cup {"mistral"}, preferred \in avail
  PROVE  SelectProvider(preferred, avail) = preferred
<1> DEFINE chain == IF preferred \in DOMAIN FailoverChains
                    THEN FailoverChains[preferred] ELSE <<preferred>>
           keyed == {i \in DOMAIN chain : chain[i] \in avail}
<1>1. 1 \in DOMAIN chain /\ DOMAIN chain \subseteq Nat \ {0} /\ chain[1] = preferred
  <2>1. DOMAIN FailoverChains = {"anthropic", "openai", "gemini", "ollama", "openrouter"}
    BY DEF FailoverChains
  <2>2. \A p \in DOMAIN FailoverChains :
          /\ DOMAIN FailoverChains[p] = 1 .. 4
          /\ FailoverChains[p][1] = p
    BY DEF FailoverChains
  <2>3. CASE preferred \in DOMAIN FailoverChains
    BY <2>2, <2>3
  <2>4. CASE preferred \notin DOMAIN FailoverChains
    BY <2>4
  <2> QED BY <2>3, <2>4
<1>2. 1 \in keyed /\ \A i \in keyed : i \in Nat /\ 1 <= i
  <2> HIDE DEF chain
  <2> QED BY <1>1
<1>3. Min(keyed) = 1
  <2> HIDE DEF keyed
  <2> QED BY <1>2 DEF Min
<1> QED BY <1>1, <1>2, <1>3 DEF SelectProvider
\* What a change of one run does to what is to be recorded.
LEMMA UnrecordedAfter ==
  ASSUME McTypeOK, IsFiniteSet(Unrecorded), NEW a \in McRuns,
         NEW run \in McAnyState,
         mcRun' = [mcRun EXCEPT ![a] = run]
  PROVE  /\ mcRun' \in [McRuns -> McAnyState]
         /\ IsFiniteSet(Unrecorded') /\ IsFiniteSet(Unrecorded)
         /\ Cardinality(Unrecorded) \in Nat /\ Cardinality(Unrecorded') \in Nat
         /\ Cardinality(Unrecorded') <= Cardinality(Unrecorded) + 1
         /\ ~(run.pc = "calls" /\ run.usage = 1) =>
              Cardinality(Unrecorded') <= Cardinality(Unrecorded)
         /\ a \in Unrecorded /\ ~(run.pc = "calls" /\ run.usage = 1) =>
              Cardinality(Unrecorded') = Cardinality(Unrecorded) - 1
         /\ a \in Unrecorded => Cardinality(Unrecorded') <= Cardinality(Unrecorded)
<1>1. mcRun' \in [McRuns -> McAnyState]
  BY DEF McTypeOK
<1>2. mcRun'[a] = run /\ \A b \in McRuns \ {a} : mcRun'[b] = mcRun[b]
  BY DEF McTypeOK
<1>3. CASE run.pc = "calls" /\ run.usage = 1
  <2>1. Unrecorded' = Unrecorded \cup {a}
    BY <1>2, <1>3 DEF Unrecorded
  <2>2. a \in Unrecorded => Unrecorded' = Unrecorded
    BY <2>1
  <2>3. a \notin Unrecorded => Cardinality(Unrecorded') = Cardinality(Unrecorded) + 1
    BY <2>1, FS_AddElement
  <2>4. IsFiniteSet(Unrecorded')
    BY <2>1, FS_AddElement
  <2> QED BY <1>1, <1>3, <2>2, <2>3, <2>4, FS_CardinalityType
<1>4. CASE ~(run.pc = "calls" /\ run.usage = 1)
  <2>1. Unrecorded' = Unrecorded \ {a}
    BY <1>2, <1>4 DEF Unrecorded
  <2>2. IsFiniteSet(Unrecorded')
        /\ Cardinality(Unrecorded') = IF a \in Unrecorded THEN Cardinality(Unrecorded) - 1
                                      ELSE Cardinality(Unrecorded)
    BY <2>1, FS_RemoveElement
  <2> QED BY <1>1, <1>4, <2>2, FS_CardinalityType
<1> QED BY <1>3, <1>4

\* No call was made and nothing paid.
LEMMA McInitInv == McInit => McInv
<1> SUFFICES ASSUME McInit PROVE McInv OBVIOUS
<1>1. McTypeOK
  BY ModelCallsAssumption DEF McInit, McTypeOK, McAnyState
<1>2. Unrecorded = {}
  BY DEF McInit, Unrecorded
<1>3. UsageIsPaid
  BY <1>2, FS_EmptySet DEF McInit, UsageIsPaid
<1>4. TightIsSpent
  BY DEF McInit, TightIsSpent
<1> QED BY <1>1, <1>3, <1>4 DEF McInit, McInv, CallsKeepTheirTier

\* Money that is spent stays spent: what was true of the budget stays true.
LEMMA McStepOf ==
  ASSUME McInv, McTypeOK', mcProject' = mcProject, mcKeys' = mcKeys, mcContext' = mcContext,
         \A call \in mcServed' : call \in mcServed \/ KeepsTier(call),
         mcPaid <= mcPaid',
         UsageIsPaid', mcLedger' <= mcPaid',
         NEW a \in McRuns, NEW run, mcRun' = [mcRun EXCEPT ![a] = run],
         run.pc = "calls" /\ run.usage = 1 => run.calls > 0
  PROVE  McInv'
<1>1. mcPaid \in Nat /\ mcPaid' \in Nat /\ mcProject.limit \in Nat
  BY ModelCallsAssumption DEF McInv, McTypeOK, Projects
<1>2. mcProject.limit - mcPaid < 1 => mcProject.limit - mcPaid' < 1
  BY <1>1
<1>3. mcRun'[a] = run /\ \A b \in McRuns \ {a} : mcRun'[b] = mcRun[b]
  BY DEF McInv, McTypeOK
<1>4. TightIsSpent'
  BY <1>2, <1>3 DEF McInv, TightIsSpent
<1>5. \A call \in mcServed' : KeepsTier(call)
  BY DEF McInv, CallsKeepTheirTier, KeepsTier
<1>6. CallsKeepTheirTier'
  BY <1>2, <1>5 DEF CallsKeepTheirTier, KeepsTier, Available
<1> QED BY <1>4, <1>6 DEF McInv

\* The same for a step that asks no adapter for anything.
LEMMA McQuietStepOf ==
  ASSUME McInv, McTypeOK', mcProject' = mcProject, mcKeys' = mcKeys, mcContext' = mcContext,
         mcServed' = mcServed, mcPaid <= mcPaid',
         UsageIsPaid', mcLedger' <= mcPaid',
         NEW a \in McRuns, NEW run, mcRun' = [mcRun EXCEPT ![a] = run],
         run.pc = "calls" /\ run.usage = 1 => run.calls > 0
  PROVE  McInv'
<1>1. \A call \in mcServed' : call \in mcServed \/ KeepsTier(call)
  OBVIOUS
<1> QED BY <1>1, McStepOf

LEMMA McContextInv ==
  ASSUME McInv, NEW c \in McContexts, BuildContext(c)
  PROVE  McInv'
<1>1. mcLedger \in Nat /\ mcPaid \in Nat /\ mcProject.limit \in Nat /\ mcLedger <= mcPaid
  BY ModelCallsAssumption DEF McInv, McTypeOK, Projects, CallsKeepTheirTier
<1>2. BudgetTight => mcProject.limit # 0 /\ mcProject.limit - mcPaid < 1
  BY <1>1 DEF BudgetTight
<1>3. UNCHANGED <<mcKeys, mcAdapters, mcProject, mcRun, mcLedger, mcPaid, mcServed>>
  BY DEF BuildContext, mcConfig
<1>4. McTypeOK'
  BY <1>3 DEF BuildContext, McInv, McTypeOK
<1>5. UsageIsPaid' /\ CallsKeepTheirTier'
  BY <1>3 DEF McInv, UsageIsPaid, Unrecorded, CallsKeepTheirTier, Available
<1>6. TightIsSpent'
  BY <1>2, <1>3 DEF BuildContext, McInv, McTypeOK, TightIsSpent
<1> QED BY <1>4, <1>5, <1>6 DEF McInv

LEMMA McStartInv ==
  ASSUME McInv, NEW a \in McRuns, StartAgent(a)
  PROVE  McInv'
<1>1. UNCHANGED <<mcKeys, mcAdapters, mcProject, mcContext, mcLedger, mcPaid, mcServed>>
      /\ mcRun[a].pc = "idle"
  BY DEF StartAgent, mcConfig
<1>2. PICK c \in McContexts, role \in McRoles, task \in McTasks :
        mcRun' = [mcRun EXCEPT ![a] = [pc |-> "calls", context |-> c, role |-> role,
                                       task |-> task, calls |-> 0, usage |-> 0]]
  BY DEF StartAgent
<1> DEFINE run == [pc |-> "calls", context |-> c, role |-> role, task |-> task,
                   calls |-> 0, usage |-> 0]
<1>3. run \in McAnyState /\ run.usage # 1
  BY DEF McRunStates, McAnyState
<1>4. mcRun' = [mcRun EXCEPT ![a] = run]
  BY <1>2
<1> HIDE DEF run
<1>5. /\ mcRun' \in [McRuns -> McAnyState]
      /\ IsFiniteSet(Unrecorded') /\ Cardinality(Unrecorded) \in Nat
      /\ Cardinality(Unrecorded') \in Nat
      /\ Cardinality(Unrecorded') <= Cardinality(Unrecorded)
  <2>1. McTypeOK /\ IsFiniteSet(Unrecorded)
    BY DEF McInv, UsageIsPaid
  <2> QED BY <1>3, <1>4, <2>1, UnrecordedAfter
<1>6. McTypeOK'
  BY <1>1, <1>5 DEF McInv, McTypeOK
<1>7. mcLedger \in Nat /\ mcPaid \in Nat /\ mcLedger + Cardinality(Unrecorded) <= mcPaid
  BY DEF McInv, McTypeOK, UsageIsPaid
<1>8. UsageIsPaid' /\ mcPaid <= mcPaid' /\ mcLedger' <= mcPaid'
  <2>1. mcLedger' = mcLedger /\ mcPaid' = mcPaid
    BY <1>1
  <2>2. mcLedger + Cardinality(Unrecorded') <= mcPaid /\ mcLedger <= mcPaid
    BY <1>5, <1>7
  <2>3. mcLedger' + Cardinality(Unrecorded') <= mcPaid' /\ IsFiniteSet(Unrecorded')
    BY <1>5, <2>1, <2>2
  <2> QED BY <1>7, <2>1, <2>2, <2>3 DEF UsageIsPaid
<1> QED BY <1>1, <1>3, <1>4, <1>6, <1>8, McQuietStepOf

LEMMA McRecordInv ==
  ASSUME McInv, NEW a \in McRuns, PostExecute(a)
  PROVE  McInv'
<1> DEFINE run == [pc |-> "done"]
<1>1. /\ UNCHANGED <<mcKeys, mcAdapters, mcProject, mcContext, mcPaid, mcServed>>
      /\ mcRun[a].pc = "calls" /\ mcRun' = [mcRun EXCEPT ![a] = run]
      /\ mcLedger' = mcLedger \/ mcLedger' = mcLedger + mcRun[a].usage
  BY DEF PostExecute, Fails, mcConfig
<1>2. mcRun[a].usage \in {0, 1} /\ (a \in Unrecorded <=> mcRun[a].usage = 1)
  BY <1>1 DEF McInv, McTypeOK, McRunStates, McAnyState, Unrecorded
<1>3. run \in McAnyState /\ run.pc # "calls"
  BY DEF McAnyState
<1> HIDE DEF run
<1>4. /\ mcRun' \in [McRuns -> McAnyState]
      /\ IsFiniteSet(Unrecorded') /\ Cardinality(Unrecorded) \in Nat
      /\ Cardinality(Unrecorded') \in Nat
      /\ Cardinality(Unrecorded') <= Cardinality(Unrecorded)
      /\ a \in Unrecorded => Cardinality(Unrecorded') = Cardinality(Unrecorded) - 1
  <2>1. McTypeOK /\ IsFiniteSet(Unrecorded)
    BY DEF McInv, UsageIsPaid
  <2> QED BY <1>1, <1>3, <2>1, UnrecordedAfter
<1>5. mcLedger \in Nat /\ mcPaid \in Nat /\ mcLedger + Cardinality(Unrecorded) <= mcPaid
  BY DEF McInv, McTypeOK, UsageIsPaid
<1>6. mcLedger' \in Nat /\ mcLedger' + Cardinality(Unrecorded') <= mcPaid /\ mcLedger' <= mcPaid
  BY <1>1, <1>2, <1>4, <1>5
<1>7. McTypeOK'
  BY <1>1, <1>4, <1>6 DEF McInv, McTypeOK
<1>8. UsageIsPaid' /\ mcPaid <= mcPaid'
  BY <1>1, <1>4, <1>5, <1>6 DEF UsageIsPaid
<1> QED BY <1>1, <1>3, <1>6, <1>7, <1>8, McQuietStepOf

\* A call that is answered, or is not: with what was paid for it by then.
LEMMA McAnswerInv ==
  ASSUME McInv, NEW a \in McRuns, NEW provider, mcRun[a].pc = "calls",
         NEW paid \in Nat, mcPaid' = mcPaid + paid,
         \/ Unanswered(a)
         \/ Answered(a, provider) /\ CostUsd(provider) <= paid,
         \A call \in mcServed' : call \in mcServed \/ KeepsTier(call),
         UNCHANGED <<mcKeys, mcAdapters, mcProject, mcContext, mcLedger>>
  PROVE  McInv'
<1> DEFINE old == mcRun[a]
<1>1. old \in McRunStates
  BY DEF McInv, McTypeOK, McRunStates, McAnyState
<1>2. /\ old.calls \in Nat /\ old.usage \in {0, 1}
      /\ old.usage = 1 => old.calls > 0
      /\ a \in Unrecorded <=> old.usage = 1
  BY <1>1 DEF McInv, TightIsSpent, McRunStates, Unrecorded
<1>3. CostUsd(provider) \in {0, 1}
  BY DEF CostUsd
<1>4. PICK run \in McAnyState :
        /\ mcRun' = [mcRun EXCEPT ![a] = run]
        /\ run.pc = "calls" /\ run.usage = 1 => run.calls > 0
        /\ run.pc = "calls" /\ run.usage = 1 => old.usage = 1 \/ paid >= 1
  <2>1. CASE Unanswered(a) /\ old.calls = 0
    <3>1. [pc |-> "done"] \in McAnyState
      BY DEF McAnyState
    <3>2. mcRun' = [mcRun EXCEPT ![a] = [pc |-> "done"]]
      BY <2>1 DEF Unanswered, Fails
    <3> QED BY <3>1, <3>2
  <2>2. CASE Unanswered(a) /\ old.calls # 0
    <3> DEFINE run == [old EXCEPT !.calls = @ + 1]
    <3>1. run \in McRunStates /\ run.usage = old.usage /\ run.calls > 0
      BY <1>1, <1>2 DEF McRunStates
    <3>2. mcRun' = [mcRun EXCEPT ![a] = run]
      BY <2>2 DEF Unanswered
    <3> HIDE DEF run
    <3>3. run \in McAnyState
      BY <3>1 DEF McAnyState
    <3> QED BY <3>1, <3>2, <3>3
  <2>3. CASE Answered(a, provider) /\ CostUsd(provider) <= paid
    <3> DEFINE usage == IF old.calls = 0 THEN CostUsd(provider) ELSE old.usage
               run == [old EXCEPT !.calls = @ + 1, !.usage = usage]
    <3>1. usage \in {0, 1} /\ (usage = 1 => old.usage = 1 \/ paid >= 1)
      BY <1>2, <1>3, <2>3
    <3> HIDE DEF usage
    <3>2. run \in McRunStates /\ run.usage = usage /\ run.calls > 0
      <4>1. ASSUME NEW x \in McRunStates, NEW u \in {0, 1},
                   NEW next, next = [x EXCEPT !.calls = @ + 1, !.usage = u]
            PROVE  next \in McRunStates /\ next.usage = u /\ next.calls > 0
        <5>1. x.calls \in Nat
          BY DEF McRunStates
        <5>2. next = [pc |-> x.pc, context |-> x.context, role |-> x.role, task |-> x.task,
                      calls |-> x.calls + 1, usage |-> u]
          BY <4>1 DEF McRunStates
        <5> QED BY <5>1, <5>2 DEF McRunStates
      <4> HIDE DEF old
      <4> QED BY <1>1, <3>1, <4>1
    <3>3. mcRun' = [mcRun EXCEPT ![a] = run]
      BY <2>3 DEF Answered, usage
    <3> HIDE DEF run
    <3>4. run \in McAnyState
      BY <3>2 DEF McAnyState
    <3> QED BY <3>1, <3>2, <3>3, <3>4
  <2> QED BY <2>1, <2>2, <2>3
<1>5. /\ mcRun' \in [McRuns -> McAnyState]
      /\ IsFiniteSet(Unrecorded') /\ Cardinality(Unrecorded) \in Nat
      /\ Cardinality(Unrecorded') \in Nat
      /\ Cardinality(Unrecorded') <= Cardinality(Unrecorded) + paid
  <2>1. /\ mcRun' \in [McRuns -> McAnyState]
        /\ IsFiniteSet(Unrecorded') /\ IsFiniteSet(Unrecorded)
        /\ Cardinality(Unrecorded) \in Nat /\ Cardinality(Unrecorded') \in Nat
        /\ Cardinality(Unrecorded') <= Cardinality(Unrecorded) + 1
        /\ ~(run.pc = "calls" /\ run.usage = 1) =>
             Cardinality(Unrecorded') <= Cardinality(Unrecorded)
        /\ a \in Unrecorded => Cardinality(Unrecorded') <= Cardinality(Unrecorded)
    BY <1>4, UnrecordedAfter DEF McInv, UsageIsPaid
  <2> QED BY <1>2, <1>4, <2>1
<1>6. mcLedger \in Nat /\ mcPaid \in Nat /\ mcLedger + Cardinality(Unrecorded) <= mcPaid
  BY DEF McInv, McTypeOK, UsageIsPaid
<1>7. mcPaid' \in Nat /\ mcPaid <= mcPaid' /\ mcLedger' <= mcPaid'
      /\ mcLedger' + Cardinality(Unrecorded') <= mcPaid'
  BY <1>5, <1>6
<1>8. McTypeOK'
  BY <1>5, <1>7 DEF McInv, McTypeOK
<1>9. UsageIsPaid'
  BY <1>5, <1>7 DEF UsageIsPaid
<1> QED BY <1>4, <1>7, <1>8, <1>9, McStepOf
\* A served call is the project's own provider's if it has a key, and of the tier that was
\* asked for unless the context was built with a tight budget.
LEMMA McServedInv ==
  ASSUME McInv, NEW a \in McRuns, mcRun[a].pc = "calls",
         NEW call, call = [provider |-> SelectProvider(mcProject.provider, Available),
                           base |-> BaseTier(mcRun[a].role, mcRun[a].task),
                           tier |-> Tier(mcRun[a].role, mcRun[a].task, 0,
                                         mcContext[mcRun[a].context] = "tight")]
  PROVE  KeepsTier(call)
<1>1. mcProject.provider \in DOMAIN FailoverChains \cup {"mistral"}
  BY DEF McInv, McTypeOK, Projects
<1>2. mcProject.provider \in Available => call.provider = mcProject.provider
  BY <1>1, OwnProviderFirst
<1>3. mcRun[a].context \in McContexts /\ mcRun[a].role \in McRoles /\ mcRun[a].task \in McTasks
  BY DEF McInv, McTypeOK, McRunStates, McAnyState
<1>4. call.tier < call.base => mcContext[mcRun[a].context] = "tight"
  <2> DEFINE tight == mcContext[mcRun[a].context] = "tight"
  <2>1. tight \in BOOLEAN
    OBVIOUS
  <2>2. call.tier = Tier(mcRun[a].role, mcRun[a].task, 0, tight)
        /\ call.base = BaseTier(mcRun[a].role, mcRun[a].task)
    OBVIOUS
  <2> HIDE DEF tight
  <2>3. call.tier < call.base => tight
    BY <1>3, <2>1, <2>2, TierBounds
  <2> QED BY <2>3 DEF tight
<1> QED BY <1>2, <1>3, <1>4 DEF McInv, TightIsSpent, KeepsTier

LEMMA McCallInv ==
  ASSUME McInv, NEW a \in McRuns, CallLlm(a)
  PROVE  McInv'
<1> DEFINE provider == SelectProvider(mcProject.provider, Available)
           call == [provider |-> provider, base |-> BaseTier(mcRun[a].role, mcRun[a].task),
                    tier |-> Tier(mcRun[a].role, mcRun[a].task, 0,
                                  mcContext[mcRun[a].context] = "tight")]
<1>1. UNCHANGED <<mcKeys, mcAdapters, mcProject, mcContext, mcLedger>> /\ mcRun[a].pc = "calls"
  BY DEF CallLlm, mcConfig
<1>2. mcPaid \in Nat
  BY DEF McInv, McTypeOK
<1>3. CASE Unanswered(a) /\ UNCHANGED <<mcPaid, mcServed>>
  <2>1. mcPaid' = mcPaid + 0 /\ 0 \in Nat
        /\ \A one \in mcServed' : one \in mcServed \/ KeepsTier(one)
    BY <1>2, <1>3
  <2> QED BY <1>1, <1>3, <2>1, McAnswerInv
<1>4. CASE Complete(a, provider)
  <2>1. mcServed' = mcServed \cup {call}
    BY <1>4 DEF Complete
  <2>2. PICK charged \in 0 .. 3 :
          /\ mcPaid' = mcPaid + charged * Price(provider)
          /\ (charged > 0 /\ Answered(a, provider)) \/ Unanswered(a)
    BY <1>4 DEF Complete
  <2>3. KeepsTier(call)
    BY <1>1, McServedInv
  <2> HIDE DEF provider, call
  <2>4. PICK paid \in Nat : /\ mcPaid' = mcPaid + paid
                            /\ charged > 0 => CostUsd(provider) <= paid
    <3>1. Price(provider) \in {0, 1} /\ CostUsd(provider) \in {0, 1}
          /\ CostUsd(provider) <= Price(provider)
      BY DEF Price, CostUsd
    <3>2. charged * Price(provider) \in Nat
          /\ (charged > 0 => CostUsd(provider) <= charged * Price(provider))
      BY <3>1
    <3> QED BY <2>2, <3>2
  <2>5. \/ Unanswered(a)
        \/ Answered(a, provider) /\ CostUsd(provider) <= paid
    BY <2>2, <2>4
  <2>6. \A one \in mcServed' : one \in mcServed \/ KeepsTier(one)
    BY <2>1, <2>3
  <2> QED BY <1>1, <2>4, <2>5, <2>6, McAnswerInv
<1> QED BY <1>3, <1>4 DEF CallLlm

\* A context, a start, a call or a record of usage preserves the invariant.
LEMMA McStepInv ==
  ASSUME McInv, [McNext]_mcVars
  PROVE  McInv'
<1>1. ASSUME NEW c \in McContexts, BuildContext(c) PROVE McInv'
  BY <1>1, McContextInv
<1>2. ASSUME NEW a \in McRuns, StartAgent(a) PROVE McInv'
  BY <1>2, McStartInv
<1>3. ASSUME NEW a \in McRuns, CallLlm(a) PROVE McInv'
  BY <1>3, McCallInv
<1>4. ASSUME NEW a \in McRuns, PostExecute(a) PROVE McInv'
  BY <1>4, McRecordInv
<1>5. CASE UNCHANGED mcVars
  BY <1>5 DEF mcVars, McInv, McTypeOK, UsageIsPaid, Unrecorded, TightIsSpent,
              CallsKeepTheirTier, Available
<1> QED BY <1>1, <1>2, <1>3, <1>4, <1>5 DEF McNext

\* However contexts, calls and the ledger's writes interleave and fail: the project's own
\* provider serves its calls when it has a key, no call is given a lesser model than its
\* task asks for before all but the tight rest of the budget is spent, and the ledger never
\* holds more than was paid.
THEOREM TiersAreKept == McSpec => []CallsKeepTheirTier
<1>1. McInit => McInv
  BY McInitInv
<1>2. McInv /\ [McNext]_mcVars => McInv'
  BY McStepInv
<1>3. McInv => CallsKeepTheirTier
  BY DEF McInv
<1> QED BY <1>1, <1>2, <1>3, PTL DEF McSpec

-----------------------------------------------------------------------------
(***************************************************************************)
(* The records of the production tools.                                    *)
(***************************************************************************)
CheckRecords ==
  {[is |-> "check", environment |-> env, report |-> report] :
     env \in PrEnvironments, report \in RunChecks}
ReleaseRecords ==
  {Release(version, previous) :
     version \in ReleaseVersions, previous \in ReleaseVersions \cup {NoVersion}}
PrRecords == CheckRecords \cup ReleaseRecords \cup {[is |-> "backup"]}

CheckedAt(env) == {i \in DOMAIN prChecks : prChecks[i].environment = env}
Latest(S, i) == i \in S /\ \A j \in S : j <= i
First(S, i) == i \in S /\ \A j \in S : i <= j

PrTypes ==
  /\ prJournal \in Seq(PrRecords) /\ prChecks \in Seq(CheckRecords)
  /\ prReleases \in Seq(ReleaseRecords) /\ prBackups \in Nat
  /\ DOMAIN prPending = PrRequests
  /\ \A q \in PrRequests : prPending[q] \in PrRecords \cup {Nothing}

\* The last check of an environment, and whether there is a backup.
PrCounts ==
  /\ \A env \in PrEnvironments :
       /\ CheckedAt(env) = {} <=> ChecksOf(env) = {}
       /\ \A i, j : Latest(CheckedAt(env), i) /\ Latest(ChecksOf(env), j) =>
            prChecks[i] = prJournal[j]
  /\ prBackups > 0 <=> JournalOf("backup") # {}

\* The list of the process ends with the last post.
PrList ==
  ~prDb =>
    /\ Len(prReleases) = 0 <=> JournalOf("release") = {}
    /\ \A j : Latest(JournalOf("release"), j) => prReleases[Len(prReleases)] = prJournal[j]

\* The rows have a row of every version that was posted, with its last post, and none was
\* first posted after the version of the last row.
PrRows ==
  prDb =>
    /\ \A k \in 1 .. Len(prReleases) :
         LET version == prReleases[k].version
             newest == prReleases[Len(prReleases)].version
         IN /\ PostsOf(version) # {}
            /\ \A j : Latest(PostsOf(version), j) => prReleases[k] = prJournal[j]
            /\ \A i, j : First(PostsOf(version), i) /\ First(PostsOf(newest), j) => i <= j
    /\ \A j \in JournalOf("release") :
         \E k \in 1 .. Len(prReleases) : prReleases[k].version = prJournal[j].version

PrInv == PrTypes /\ PrCounts /\ PrList /\ PrRows

-----------------------------------------------------------------------------
LEMMA RecordsAre ==
  /\ \A r \in PrRecords : r # Nothing
  /\ \A r \in PrRecords : r.is = "check" => r \in CheckRecords
  /\ \A r \in PrRecords : r.is = "release" => r \in ReleaseRecords
  /\ \A r \in CheckRecords : r # Nothing /\ r.environment \in PrEnvironments
                               /\ r.report \in RunChecks
  /\ \A r \in ReleaseRecords : r # Nothing /\ r.is = "release"
<1>1. \A r \in CheckRecords : r.is = "check" /\ r.environment \in PrEnvironments
                                /\ r.report \in RunChecks
  BY DEF CheckRecords
<1>2. \A r \in ReleaseRecords : r.is = "release"
  BY DEF ReleaseRecords, Release
<1>3. \A r \in PrRecords : r \in CheckRecords \/ r \in ReleaseRecords \/ r.is = "backup"
  BY DEF PrRecords
<1>4. Nothing.is = "nothing"
  BY DEF Nothing
<1> QED
  BY <1>1, <1>2, <1>3, <1>4

\* The places in a journal have a first and a last.
LEMMA EndsExist ==
  ASSUME NEW n \in Nat, NEW S \in SUBSET (1 .. n), S # {}
  PROVE  /\ \E i \in S : Latest(S, i)
         /\ \E i \in S : First(S, i)
<1> DEFINE back == {n + 1 - i : i \in S}
<1>1. back \subseteq 1 .. n /\ back # {}
  <2>1. \A i \in 1 .. n : n + 1 - i \in 1 .. n
    OBVIOUS
  <2> QED
    BY <2>1
<1>2. PICK m \in back : \A k \in back : k <= m
  <2> HIDE DEF back
  <2> QED
    BY <1>1, LatestExists
<1>3. PICK i \in S : m = n + 1 - i
  BY <1>2
<1>4. ASSUME NEW j \in S PROVE i <= j
  <2>1. n + 1 - j <= n + 1 - i
    BY <1>2, <1>3
  <2> QED
    BY <2>1
<1>5. \E k \in S : \A j \in S : j <= k
  BY LatestExists
<1> QED
  BY <1>4, <1>5 DEF Latest, First

\* Where a record that is stored is found.
LEMMA JournalGrows ==
  ASSUME PrTypes, NEW r \in PrRecords, prJournal' = Append(prJournal, r),
         NEW n \in Nat, n = Len(prJournal)
  PROVE  /\ DOMAIN prJournal = 1 .. n /\ prJournal' \in Seq(PrRecords)
         /\ \A i \in 1 .. n : prJournal'[i] = prJournal[i]
         /\ prJournal'[n + 1] = r
         /\ \A kind : JournalOf(kind)' = JournalOf(kind) \cup (IF r.is = kind THEN {n + 1} ELSE {})
         /\ \A env : ChecksOf(env)' = ChecksOf(env)
              \cup (IF r.is = "check" /\ r.environment = env THEN {n + 1} ELSE {})
         /\ \A v : PostsOf(v)' = PostsOf(v)
              \cup (IF r.is = "release" /\ r.version = v THEN {n + 1} ELSE {})
<1>1. DOMAIN prJournal = 1 .. n
  BY LenProperties DEF PrTypes
<1>2. /\ prJournal' \in Seq(PrRecords) /\ Len(prJournal') = n + 1
      /\ \A i \in 1 .. n : prJournal'[i] = prJournal[i]
      /\ prJournal'[n + 1] = r
  BY AppendProperties DEF PrTypes
<1>3. DOMAIN prJournal' = 1 .. n + 1
  BY <1>2, LenProperties
<1>4. 1 .. n + 1 = (1 .. n) \cup {n + 1} /\ n + 1 \notin 1 .. n
  OBVIOUS
<1>5. \A kind : JournalOf(kind)' = JournalOf(kind) \cup (IF r.is = kind THEN {n + 1} ELSE {})
  BY <1>1, <1>2, <1>3, <1>4 DEF JournalOf
<1>6. \A kind : JournalOf(kind) \subseteq 1 .. n
  BY <1>1 DEF JournalOf
<1>7. \A env : ChecksOf(env)' = ChecksOf(env)
        \cup (IF r.is = "check" /\ r.environment = env THEN {n + 1} ELSE {})
  BY <1>2, <1>5, <1>6 DEF ChecksOf
<1>8. \A v : PostsOf(v)' = PostsOf(v)
        \cup (IF r.is = "release" /\ r.version = v THEN {n + 1} ELSE {})
  BY <1>2, <1>5, <1>6 DEF PostsOf
<1> QED
  BY <1>1, <1>2, <1>5, <1>7, <1>8

LEMMA PlacesAre ==
  ASSUME PrTypes
  PROVE  /\ Len(prJournal) \in Nat /\ DOMAIN prJournal = 1 .. Len(prJournal)
         /\ \A kind : JournalOf(kind) \subseteq 1 .. Len(prJournal)
         /\ \A env : ChecksOf(env) \subseteq 1 .. Len(prJournal)
         /\ \A v : PostsOf(v) \subseteq 1 .. Len(prJournal)
         /\ Len(prChecks) \in Nat /\ DOMAIN prChecks = 1 .. Len(prChecks)
         /\ \A env : CheckedAt(env) \subseteq 1 .. Len(prChecks)
         /\ Len(prReleases) \in Nat /\ DOMAIN prReleases = 1 .. Len(prReleases)
<1>1. Len(prJournal) \in Nat /\ DOMAIN prJournal = 1 .. Len(prJournal)
  BY LenProperties DEF PrTypes
<1>2. Len(prChecks) \in Nat /\ DOMAIN prChecks = 1 .. Len(prChecks)
  BY LenProperties DEF PrTypes
<1>3. Len(prReleases) \in Nat /\ DOMAIN prReleases = 1 .. Len(prReleases)
  BY LenProperties DEF PrTypes
<1> QED
  BY <1>1, <1>2, <1>3 DEF JournalOf, ChecksOf, PostsOf, CheckedAt

\* A place after all others is the latest.
LEMMA LatestGrows ==
  ASSUME NEW n \in Nat, NEW S \in SUBSET (1 .. n)
  PROVE  /\ \A i : Latest(S \cup {n + 1}, i) => i = n + 1
         /\ S # {} => \A i : First(S \cup {n + 1}, i) => First(S, i)
         /\ S = {} => \A i : First(S \cup {n + 1}, i) => i = n + 1
<1>1. ASSUME NEW i, Latest(S \cup {n + 1}, i) PROVE i = n + 1
  <2>1. i \in S \cup {n + 1} /\ n + 1 <= i
    BY <1>1 DEF Latest
  <2> QED
    BY <2>1
<1>2. ASSUME S # {}, NEW i, First(S \cup {n + 1}, i) PROVE First(S, i)
  <2>1. i \in S \cup {n + 1} /\ \A j \in S : i <= j
    BY <1>2 DEF First
  <2>2. PICK k \in S : TRUE
    BY <1>2
  <2>3. i <= k /\ k \in 1 .. n
    BY <2>1, <2>2
  <2>4. i # n + 1
    BY <2>3
  <2> QED
    BY <2>1, <2>4 DEF First
<1> QED
  BY <1>1, <1>2 DEF First

-----------------------------------------------------------------------------
LEMMA StoredTypes ==
  ASSUME PrTypes, NEW r \in PrRecords, Stored(r)
  PROVE  /\ prJournal' \in Seq(PrRecords) /\ prChecks' \in Seq(CheckRecords)
         /\ prReleases' \in Seq(ReleaseRecords) /\ prBackups' \in Nat
<1>1. prJournal' \in Seq(PrRecords)
  <2>1. prJournal' = Append(prJournal, r)
    BY DEF Stored
  <2> QED
    BY <2>1, AppendProperties DEF PrTypes
<1>2. prChecks' \in Seq(CheckRecords)
  <2>1. prChecks' = IF r.is = "check" THEN Append(prChecks, r) ELSE prChecks
    BY DEF Stored
  <2>2. CASE r.is = "check"
    <3>1. r \in CheckRecords
      BY <2>2, RecordsAre
    <3> QED
      BY <2>1, <2>2, <3>1, AppendProperties DEF PrTypes
  <2> QED
    BY <2>1, <2>2 DEF PrTypes
<1>3. prReleases' \in Seq(ReleaseRecords)
  <2>1. CASE r.is # "release"
    BY <2>1 DEF Stored, PrTypes
  <2>2. ASSUME r.is = "release" PROVE Append(prReleases, r) \in Seq(ReleaseRecords)
    <3>1. r \in ReleaseRecords
      BY <2>2, RecordsAre
    <3> QED
      BY <3>1, AppendProperties DEF PrTypes
  <2>3. ASSUME r.is = "release" PROVE Saved(prReleases, r) \in Seq(ReleaseRecords)
    <3> DEFINE new == [i \in DOMAIN prReleases |-> IF prReleases[i].version = r.version THEN r
                                                   ELSE prReleases[i]]
    <3>1. r \in ReleaseRecords
      BY <2>3, RecordsAre
    <3>2. PICK L \in Nat : L = Len(prReleases) /\ DOMAIN prReleases = 1 .. L
      BY PlacesAre
    <3>3. \A i \in 1 .. L : prReleases[i] \in ReleaseRecords
      BY <3>2, ElementOfSeq DEF PrTypes
    <3>4. new \in [1 .. L -> ReleaseRecords]
      BY <3>1, <3>2, <3>3
    <3> HIDE DEF new
    <3>5. new \in Seq(ReleaseRecords)
      BY <3>4, SeqDef
    <3> QED
      BY <2>2, <2>3, <3>5 DEF Saved, new
  <2>4. prReleases' = IF r.is # "release" THEN prReleases
                      ELSE IF prDb THEN Saved(prReleases, r) ELSE Append(prReleases, r)
    BY DEF Stored
  <2> QED
    BY <2>1, <2>2, <2>3, <2>4
<1>4. prBackups' \in Nat
  BY DEF Stored, PrTypes
<1> QED
  BY <1>1, <1>2, <1>3, <1>4

LEMMA CountsStored ==
  ASSUME PrTypes, PrCounts, NEW r \in PrRecords, Stored(r)
  PROVE  PrCounts'
<1>1. PICK n \in Nat : n = Len(prJournal)
  BY PlacesAre
<1>2. PICK c \in Nat : c = Len(prChecks)
  BY PlacesAre
<1>3. /\ prJournal' = Append(prJournal, r)
      /\ prChecks' = IF r.is = "check" THEN Append(prChecks, r) ELSE prChecks
      /\ prBackups' = IF r.is = "backup" THEN prBackups + 1 ELSE prBackups
  BY DEF Stored
<1>4. /\ \A i \in 1 .. n : prJournal'[i] = prJournal[i]
      /\ prJournal'[n + 1] = r
      /\ \A kind : JournalOf(kind)' = JournalOf(kind) \cup (IF r.is = kind THEN {n + 1} ELSE {})
      /\ \A env : ChecksOf(env)' = ChecksOf(env)
           \cup (IF r.is = "check" /\ r.environment = env THEN {n + 1} ELSE {})
  BY <1>1, <1>3, JournalGrows
<1>5. prBackups' > 0 <=> JournalOf("backup")' # {}
  <2>1. prBackups \in Nat /\ (prBackups > 0 <=> JournalOf("backup") # {})
    BY DEF PrCounts, PrTypes
  <2>2. JournalOf("backup")' = JournalOf("backup") \cup (IF r.is = "backup" THEN {n + 1} ELSE {})
    BY <1>4
  <2>3. CASE r.is = "backup"
    <3>1. prBackups' > 0
      BY <1>3, <2>1, <2>3
    <3>2. n + 1 \in JournalOf("backup")'
      BY <2>2, <2>3
    <3> QED
      BY <3>1, <3>2
  <2>4. CASE r.is # "backup"
    BY <1>3, <2>1, <2>2, <2>4
  <2> QED
    BY <2>3, <2>4
<1>6. ASSUME NEW env \in PrEnvironments, ~(r.is = "check" /\ r.environment = env)
      PROVE  /\ CheckedAt(env)' = CheckedAt(env) /\ ChecksOf(env)' = ChecksOf(env)
             /\ \A i \in CheckedAt(env) : prChecks'[i] = prChecks[i]
  <2>1. ChecksOf(env)' = ChecksOf(env)
    BY <1>4, <1>6
  <2>2. CASE r.is # "check"
    BY <1>3, <2>1, <2>2 DEF CheckedAt
  <2>3. CASE r.is = "check"
    <3>1. /\ \A i \in 1 .. c : prChecks'[i] = prChecks[i]
          /\ prChecks'[c + 1] = r /\ Len(prChecks') = c + 1
          /\ prChecks' \in Seq(CheckRecords)
      BY <1>2, <1>3, <2>3, RecordsAre, AppendProperties DEF PrTypes
    <3>2. DOMAIN prChecks' = 1 .. c + 1 /\ DOMAIN prChecks = 1 .. c
      BY <1>2, <3>1, PlacesAre, LenProperties
    <3>3. 1 .. c + 1 = (1 .. c) \cup {c + 1}
      OBVIOUS
    <3>4. r.environment # env
      BY <1>6, <2>3
    <3> QED
      BY <2>1, <3>1, <3>2, <3>3, <3>4 DEF CheckedAt
  <2> QED
    BY <2>2, <2>3
<1>7. ASSUME NEW env \in PrEnvironments, r.is = "check" /\ r.environment = env
      PROVE  /\ CheckedAt(env)' = CheckedAt(env) \cup {c + 1}
             /\ ChecksOf(env)' = ChecksOf(env) \cup {n + 1}
             /\ prChecks'[c + 1] = r
  <2>1. /\ \A i \in 1 .. c : prChecks'[i] = prChecks[i]
        /\ prChecks'[c + 1] = r /\ Len(prChecks') = c + 1
        /\ prChecks' \in Seq(CheckRecords)
    BY <1>2, <1>3, <1>7, RecordsAre, AppendProperties DEF PrTypes
  <2>2. DOMAIN prChecks' = 1 .. c + 1 /\ DOMAIN prChecks = 1 .. c
    BY <1>2, <2>1, PlacesAre, LenProperties
  <2>3. 1 .. c + 1 = (1 .. c) \cup {c + 1}
    OBVIOUS
  <2> QED
    BY <1>4, <1>7, <2>1, <2>2, <2>3 DEF CheckedAt
<1>8. ASSUME NEW env \in PrEnvironments
      PROVE  /\ CheckedAt(env)' = {} <=> ChecksOf(env)' = {}
             /\ \A i, j : Latest(CheckedAt(env)', i) /\ Latest(ChecksOf(env)', j) =>
                  prChecks'[i] = prJournal'[j]
  <2>1. CheckedAt(env) \in SUBSET (1 .. c) /\ ChecksOf(env) \in SUBSET (1 .. n)
    BY <1>1, <1>2, PlacesAre
  <2>2. CASE ~(r.is = "check" /\ r.environment = env)
    <3>1. CheckedAt(env)' = {} <=> ChecksOf(env)' = {}
      BY <1>6, <2>2 DEF PrCounts
    <3>2. ASSUME NEW i, NEW j, Latest(CheckedAt(env), i), Latest(ChecksOf(env), j)
          PROVE  prChecks'[i] = prJournal'[j]
      <4>1. prChecks[i] = prJournal[j]
        BY <3>2 DEF PrCounts
      <4>2. i \in CheckedAt(env) /\ j \in 1 .. n
        BY <2>1, <3>2 DEF Latest
      <4> QED
        BY <1>4, <1>6, <2>2, <4>1, <4>2
    <3> QED
      BY <1>6, <2>2, <3>1, <3>2
  <2>3. CASE r.is = "check" /\ r.environment = env
    <3>1. ASSUME NEW i, NEW j, Latest(CheckedAt(env) \cup {c + 1}, i),
                 Latest(ChecksOf(env) \cup {n + 1}, j)
          PROVE  i = c + 1 /\ j = n + 1
      BY <2>1, <3>1, LatestGrows
    <3> QED
      BY <1>4, <1>7, <2>3, <3>1
  <2> QED
    BY <2>2, <2>3
<1> QED
  BY <1>5, <1>8 DEF PrCounts, Latest

LEMMA ListStored ==
  ASSUME PrTypes, PrList, ~prDb, prDb' = prDb, NEW r \in PrRecords, Stored(r)
  PROVE  PrList'
<1>1. PICK n \in Nat : n = Len(prJournal)
  BY PlacesAre
<1>2. PICK L \in Nat : L = Len(prReleases)
  BY PlacesAre
<1>3. /\ prJournal' = Append(prJournal, r)
      /\ prReleases' = IF r.is # "release" THEN prReleases ELSE Append(prReleases, r)
  BY DEF Stored
<1>4. /\ \A i \in 1 .. n : prJournal'[i] = prJournal[i]
      /\ prJournal'[n + 1] = r
      /\ \A kind : JournalOf(kind)' = JournalOf(kind) \cup (IF r.is = kind THEN {n + 1} ELSE {})
  BY <1>1, <1>3, JournalGrows
<1>5. JournalOf("release") \in SUBSET (1 .. n)
  BY <1>1, PlacesAre
<1>6. CASE r.is # "release"
  <2>1. prReleases' = prReleases /\ JournalOf("release")' = JournalOf("release")
    BY <1>3, <1>4, <1>6
  <2>2. \A j : Latest(JournalOf("release"), j) => prJournal'[j] = prJournal[j]
    BY <1>4, <1>5 DEF Latest
  <2> QED
    BY <2>1, <2>2 DEF PrList, Latest
<1>7. CASE r.is = "release"
  <2>1. Len(prReleases') = L + 1 /\ prReleases'[L + 1] = r
    BY <1>2, <1>3, <1>7, RecordsAre, AppendProperties DEF PrTypes
  <2>2. JournalOf("release")' = JournalOf("release") \cup {n + 1}
    BY <1>4, <1>7
  <2>3. \A j : Latest(JournalOf("release")', j) => j = n + 1
    BY <1>5, <2>2, LatestGrows
  <2>4. L + 1 # 0
    OBVIOUS
  <2> QED
    BY <1>4, <2>1, <2>2, <2>3, <2>4 DEF PrList, Latest
<1> QED
  BY <1>6, <1>7

LEMMA RowsStored ==
  ASSUME PrTypes, PrRows, prDb, prDb' = prDb, NEW r \in PrRecords, Stored(r)
  PROVE  PrRows'
<1>1. PICK n \in Nat : n = Len(prJournal)
  BY PlacesAre
<1>2. PICK L \in Nat : L = Len(prReleases)
  BY PlacesAre
<1>3. /\ prJournal' = Append(prJournal, r)
      /\ prReleases' = IF r.is # "release" THEN prReleases ELSE Saved(prReleases, r)
  BY DEF Stored
<1>4. /\ \A i \in 1 .. n : prJournal'[i] = prJournal[i]
      /\ prJournal'[n + 1] = r
      /\ \A kind : JournalOf(kind)' = JournalOf(kind) \cup (IF r.is = kind THEN {n + 1} ELSE {})
      /\ \A v : PostsOf(v)' = PostsOf(v)
           \cup (IF r.is = "release" /\ r.version = v THEN {n + 1} ELSE {})
  BY <1>1, <1>3, JournalGrows
<1>5. /\ JournalOf("release") \in SUBSET (1 .. n)
      /\ \A v : PostsOf(v) \in SUBSET (1 .. n)
  BY <1>1, PlacesAre
<1> DEFINE newest == prReleases[L].version
           Vers(k) == prReleases[k].version
<1>6. /\ \A k \in 1 .. L : PostsOf(Vers(k)) # {}
      /\ \A k \in 1 .. L : \A j : Latest(PostsOf(Vers(k)), j) => prReleases[k] = prJournal[j]
      /\ \A k \in 1 .. L : \A i, j :
           First(PostsOf(Vers(k)), i) /\ First(PostsOf(newest), j) => i <= j
      /\ \A j \in JournalOf("release") : \E k \in 1 .. L : Vers(k) = prJournal[j].version
  BY <1>2 DEF PrRows
<1>7. CASE r.is # "release"
  <2>1. /\ prReleases' = prReleases /\ JournalOf("release")' = JournalOf("release")
        /\ \A v : PostsOf(v)' = PostsOf(v)
    BY <1>3, <1>4, <1>7
  <2>2. \A v, j : Latest(PostsOf(v), j) => prJournal'[j] = prJournal[j]
    BY <1>4, <1>5 DEF Latest
  <2>3. \A j \in JournalOf("release") : prJournal'[j] = prJournal[j]
    BY <1>4, <1>5
  <2> QED
    BY <2>1, <2>2, <2>3 DEF PrRows, Latest, First
<1>8. CASE r.is = "release" /\ \E k \in 1 .. L : Vers(k) = r.version
  <2>1. DOMAIN prReleases = 1 .. L
    BY <1>2, PlacesAre
  <2>2. prReleases' = [i \in 1 .. L |-> IF Vers(i) = r.version THEN r ELSE prReleases[i]]
    BY <1>3, <1>8, <2>1 DEF Saved
  <2>3. Len(prReleases') = L
    <3>1. prReleases' \in Seq(ReleaseRecords) /\ DOMAIN prReleases' = 1 .. L
      BY <2>2, StoredTypes
    <3> QED
      BY <3>1, LenProperties
  <2>4. \A k \in 1 .. L : prReleases'[k].version = Vers(k)
    BY <2>2
  <2>5. ASSUME NEW k \in 1 .. L
        PROVE  /\ PostsOf(Vers(k))' # {}
               /\ \A j : Latest(PostsOf(Vers(k))', j) => prReleases'[k] = prJournal'[j]
               /\ \A i : First(PostsOf(Vers(k))', i) => First(PostsOf(Vers(k)), i)
    <3>1. CASE Vers(k) = r.version
      <4>1. PostsOf(Vers(k))' = PostsOf(Vers(k)) \cup {n + 1}
        BY <1>4, <1>8, <2>4, <3>1
      <4> QED
        BY <1>4, <1>5, <1>6, <2>2, <3>1, <4>1, LatestGrows
    <3>2. CASE Vers(k) # r.version
      <4>1. PostsOf(Vers(k))' = PostsOf(Vers(k))
        BY <1>4, <2>4, <3>2
      <4>2. \A j : Latest(PostsOf(Vers(k)), j) => prJournal'[j] = prJournal[j]
        BY <1>4, <1>5 DEF Latest
      <4> QED
        BY <1>6, <2>2, <3>2, <4>1, <4>2
    <3> QED
      BY <3>1, <3>2
  <2>6. ASSUME NEW k \in 1 .. L, NEW i, NEW j, First(PostsOf(Vers(k))', i), First(PostsOf(newest)', j)
        PROVE  i <= j
    <3>1. L \in 1 .. L
      OBVIOUS
    <3>2. First(PostsOf(Vers(k)), i) /\ First(PostsOf(newest), j)
      BY <2>5, <2>6, <3>1
    <3> QED
      BY <1>6, <3>2
  <2>7. ASSUME NEW j \in JournalOf("release")'
        PROVE  \E k \in 1 .. L : Vers(k) = prJournal'[j].version
    BY <1>4, <1>5, <1>6, <1>8
  <2> QED
    BY <2>3, <2>4, <2>5, <2>6, <2>7 DEF PrRows, Latest, First
<1>9. CASE r.is = "release" /\ ~\E k \in 1 .. L : Vers(k) = r.version
  <2>1. prReleases' = Append(prReleases, r)
    <3>1. DOMAIN prReleases = 1 .. L
      BY <1>2, PlacesAre
    <3> QED
      BY <1>3, <1>9, <3>1 DEF Saved
  <2>2. /\ Len(prReleases') = L + 1 /\ prReleases'[L + 1] = r
        /\ \A k \in 1 .. L : prReleases'[k] = prReleases[k]
    BY <1>2, <1>9, <2>1, RecordsAre, AppendProperties DEF PrTypes
  <2>3. PostsOf(r.version) = {} /\ PostsOf(r.version)' = {n + 1}
    <3>1. PostsOf(r.version) = {}
      BY <1>6, <1>9 DEF PostsOf
    <3>2. PostsOf(r.version)' = PostsOf(r.version) \cup {n + 1}
      BY <1>4, <1>9
    <3> QED
      BY <3>1, <3>2
  <2>4. ASSUME NEW k \in 1 .. L
        PROVE  /\ PostsOf(Vers(k))' = PostsOf(Vers(k)) /\ PostsOf(Vers(k))' # {}
               /\ \A j : Latest(PostsOf(Vers(k))', j) => prReleases'[k] = prJournal'[j]
               /\ \A i : First(PostsOf(Vers(k))', i) => i <= n + 1
               /\ prReleases'[k].version = Vers(k)
    <3>1. PostsOf(Vers(k))' = PostsOf(Vers(k))
      BY <1>4, <1>9, <2>2
    <3>2. \A j : Latest(PostsOf(Vers(k)), j) => prJournal'[j] = prJournal[j]
      BY <1>4, <1>5 DEF Latest
    <3>3. \A i : First(PostsOf(Vers(k)), i) => i <= n + 1
      BY <1>5 DEF First
    <3> QED
      BY <1>6, <2>2, <3>1, <3>2, <3>3
  <2>5. /\ \A j : Latest({n + 1}, j) => j = n + 1
        /\ \A j : First({n + 1}, j) => j = n + 1
    BY DEF Latest, First
  <2>6. 1 .. L + 1 = (1 .. L) \cup {L + 1} /\ L + 1 \in 1 .. L + 1
    OBVIOUS
  <2>7. ASSUME NEW k \in 1 .. L + 1
        PROVE  /\ PostsOf(Vers(k))' # {}
               /\ \A j : Latest(PostsOf(Vers(k))', j) => prReleases'[k] = prJournal'[j]
               /\ \A i, j : First(PostsOf(Vers(k))', i) /\ First(PostsOf(Vers(L + 1))', j) => i <= j
    <3>0. PostsOf(Vers(L + 1))' = {n + 1}
      <4>1. Vers(L + 1)' = r.version
        BY <2>2
      <4> QED
        BY <2>3, <4>1
    <3>1. CASE k \in 1 .. L
      BY <2>4, <2>5, <3>0, <3>1
    <3>2. CASE k = L + 1
      <4>1. PostsOf(Vers(k))' = {n + 1}
        BY <3>0, <3>2
      <4>2. prReleases'[k] = prJournal'[n + 1]
        BY <1>4, <2>2, <3>2
      <4> QED
        BY <2>5, <3>0, <4>1, <4>2
    <3> QED
      BY <2>6, <3>1, <3>2
  <2>8. ASSUME NEW j \in JournalOf("release")'
        PROVE  \E k \in 1 .. L + 1 : prReleases'[k].version = prJournal'[j].version
    <3>1. CASE j = n + 1
      BY <1>4, <2>2, <2>6, <3>1
    <3>2. CASE j \in JournalOf("release")
      <4>1. PICK k \in 1 .. L : Vers(k) = prJournal[j].version
        BY <1>6, <3>2
      <4> QED
        BY <1>4, <1>5, <2>4, <2>6, <3>2, <4>1
    <3> QED
      BY <1>4, <1>9, <3>1, <3>2
  <2> QED
    BY <2>2, <2>7, <2>8 DEF PrRows, Latest, First
<1> QED
  BY <1>7, <1>8, <1>9

-----------------------------------------------------------------------------
\* What a plan holds.
LEMMA PlansAre ==
  ASSUME NEW r \in ReleaseRecords
  PROVE  /\ "review_breaking_changes" \in ToSet(r.upgrade)
              <=> r.previous # NoVersion /\ r.previous[1] < r.version[1]
         /\ "redeploy_previous_artifacts" \in ToSet(r.rollback) <=> r.previous # NoVersion
<1>1. PICK version \in ReleaseVersions, previous \in ReleaseVersions \cup {NoVersion} :
        r = Release(version, previous)
  BY DEF ReleaseRecords
<1>2. /\ r.version = version /\ r.previous = previous
      /\ r.upgrade = Upgrade(previous, version) /\ r.rollback = Rollback(previous)
  BY <1>1 DEF Release
<1>3. version[1] \in {1, 2}
  BY DEF ReleaseVersions
<1>4. previous # NoVersion => previous[1] \in {1, 2}
  BY DEF ReleaseVersions
<1>5. "review_breaking_changes" \in ToSet(Upgrade(previous, version)) <=> IsBreaking(previous, version)
  <2> DEFINE rest == <<"backup", "run_migrations", "validate_environment",
                       "validate_deployment_assets", "smoke_test">>
           words == {"review_breaking_changes"} \cup {rest[i] : i \in 1 .. 5}
  <2>1. rest \in Seq(words) /\ Len(rest) = 5
    <3>1. rest \in [1 .. 5 -> words]
      <4>1. \A i \in 1 .. 5 : rest[i] \in words
        OBVIOUS
      <4>2. DOMAIN rest = 1 .. 5 /\ rest = [i \in 1 .. 5 |-> rest[i]]
        OBVIOUS
      <4> HIDE DEF rest, words
      <4> QED
        BY <4>1, <4>2
    <3> HIDE DEF rest, words
    <3>2. rest \in Seq(words)
      BY <3>1, SeqDef
    <3>3. DOMAIN rest = 1 .. 5
      BY <3>1
    <3> QED
      BY <3>2, <3>3, LenProperties
  <2>2. \A i \in 1 .. 5 : rest[i] # "review_breaking_changes"
    OBVIOUS
  <2> DEFINE review == <<"review_breaking_changes">>
  <2>3. review \in Seq(words) /\ Len(review) = 1 /\ review[1] = "review_breaking_changes"
    <3>1. review \in [1 .. 1 -> words] /\ review[1] = "review_breaking_changes"
      <4>1. \A i \in 1 .. 1 : review[i] \in words
        OBVIOUS
      <4>2. DOMAIN review = 1 .. 1 /\ review = [i \in 1 .. 1 |-> review[i]]
        OBVIOUS
      <4>3. review[1] = "review_breaking_changes"
        OBVIOUS
      <4> HIDE DEF review, words
      <4> QED
        BY <4>1, <4>2, <4>3
    <3> HIDE DEF review, words
    <3>2. review \in Seq(words)
      BY <3>1, SeqDef
    <3>3. DOMAIN review = 1 .. 1
      BY <3>1
    <3> QED
      BY <3>1, <3>2, <3>3, LenProperties
  <2>4. <<>> \in Seq(words) /\ Len(<<>>) = 0
    OBVIOUS
  <2>5. Upgrade(previous, version) = (IF IsBreaking(previous, version) THEN review ELSE <<>>) \o rest
    BY DEF Upgrade
  <2> HIDE DEF rest, review, words
  <2>6. CASE IsBreaking(previous, version)
    <3>0. /\ review \o rest \in Seq(words) /\ Len(review \o rest) = Len(review) + Len(rest)
          /\ \A i \in 1 .. Len(review) + Len(rest) :
               (review \o rest)[i] = IF i <= Len(review) THEN review[i] ELSE rest[i - Len(review)]
      BY <2>1, <2>3, ConcatProperties
    <3>1. review \o rest \in Seq(words) /\ Len(review \o rest) = 6
          /\ (review \o rest)[1] = "review_breaking_changes"
      <4>1. Len(review) + Len(rest) = 6 /\ 1 \in 1 .. 6 /\ 1 <= Len(review)
        BY <2>1, <2>3
      <4> QED
        BY <2>3, <3>0, <4>1
    <3>2. 1 \in DOMAIN (review \o rest)
      BY <3>1, LenProperties
    <3> QED
      BY <2>5, <2>6, <3>1, <3>2 DEF ToSet
  <2>7. CASE ~IsBreaking(previous, version)
    <3>1. <<>> \o rest \in Seq(words) /\ Len(<<>> \o rest) = 5
          /\ \A i \in 1 .. 5 : (<<>> \o rest)[i] = rest[i]
      BY <2>1, <2>4, ConcatProperties
    <3>2. DOMAIN (<<>> \o rest) = 1 .. 5
      BY <3>1, LenProperties
    <3> QED
      BY <2>2, <2>5, <2>7, <3>1, <3>2 DEF ToSet
  <2> QED
    BY <2>6, <2>7
<1>6. "redeploy_previous_artifacts" \in ToSet(Rollback(previous)) <=> previous # NoVersion
  <2>1. CASE previous = NoVersion
    BY <2>1 DEF Rollback, ToSet
  <2>2. CASE previous # NoVersion
    <3> DEFINE plan == <<"stop_traffic", "restore_backup", "downgrade_migrations",
                         "redeploy_previous_artifacts", "verify_health">>
    <3>1. 4 \in DOMAIN plan /\ plan[4] = "redeploy_previous_artifacts"
      OBVIOUS
    <3>2. Rollback(previous) = plan
      BY <2>2 DEF Rollback
    <3> HIDE DEF plan
    <3> QED
      BY <2>2, <3>1, <3>2 DEF ToSet
  <2> QED
    BY <2>1, <2>2
<1> QED
  BY <1>2, <1>3, <1>4, <1>5, <1>6 DEF IsBreaking

LEMMA ReportsAre ==
  ASSUME NEW report \in RunChecks
  PROVE  Ready(report) <=> report \cap {"fail", "warn"} = {}
<1>1. report # {} /\ report \cap {"fail", "warn"} = {} => Overall(report) \in {"pass", "skipped"}
  BY DEF Overall
<1>2. report \cap {"fail", "warn"} # {} => Overall(report) \in {"fail", "warn"}
  BY DEF Overall
<1>3. report # {}
  BY DEF RunChecks
<1> QED
  BY <1>1, <1>2, <1>3 DEF Ready

LEMMA PrTold ==
  ASSUME PrInv
  PROVE  RecordsAreTold
<1> USE DEF PrInv
<1>1. ASSUME NEW env \in PrEnvironments
      PROVE  EnvironmentReady(env) <=>
               \E i \in ChecksOf(env) : /\ \A j \in ChecksOf(env) : j <= i
                                        /\ prJournal[i].report \cap {"fail", "warn"} = {}
  <2>1. CASE CheckedAt(env) = {}
    <3>1. ChecksOf(env) = {}
      BY <2>1 DEF PrCounts
    <3> QED
      BY <2>1, <3>1 DEF EnvironmentReady, LatestCheck, CheckedAt
  <2>2. CASE CheckedAt(env) # {}
    <3>1. PICK i \in CheckedAt(env) :
            LatestCheck(env) = prChecks[i] /\ \A j \in CheckedAt(env) : j <= i
      <4>1. \E i \in CheckedAt(env) : \A j \in CheckedAt(env) : j <= i
        BY <2>2, PlacesAre, EndsExist DEF Latest
      <4> QED
        BY <2>2, <4>1 DEF LatestCheck, CheckedAt
    <3>2. \A j : Latest(ChecksOf(env), j) => prChecks[i] = prJournal[j]
      BY <3>1 DEF PrCounts, Latest
    <3>3. PICK m \in ChecksOf(env) : Latest(ChecksOf(env), m)
      <4>1. ChecksOf(env) # {}
        BY <2>2 DEF PrCounts
      <4> QED
        BY <4>1, PlacesAre, EndsExist
    <3>4. prChecks[i] \in CheckRecords
      BY <3>1, PlacesAre, ElementOfSeq DEF PrTypes
    <3>5. prChecks[i] # Nothing /\ prChecks[i].report \in RunChecks
      BY <3>4, RecordsAre
    <3>6. EnvironmentReady(env) <=> prChecks[i].report \cap {"fail", "warn"} = {}
      BY <3>1, <3>5, ReportsAre DEF EnvironmentReady
    <3> QED
      BY <3>2, <3>3, <3>6 DEF Latest
  <2> QED
    BY <2>1, <2>2
<1>2. RecentBackup <=> JournalOf("backup") # {}
  BY DEF PrCounts, RecentBackup
<1>3. PICK n \in Nat : n = Len(prJournal) /\ DOMAIN prJournal = 1 .. n
        /\ JournalOf("release") \in SUBSET (1 .. n)
        /\ \A v : PostsOf(v) \in SUBSET (1 .. n)
  BY PlacesAre
<1>4. PICK L \in Nat : L = Len(prReleases) /\ DOMAIN prReleases = 1 .. L
  BY PlacesAre
<1>5. \A k \in 1 .. L : prReleases[k] \in ReleaseRecords
  BY <1>4, ElementOfSeq DEF PrTypes
<1>6. L = 0 <=> JournalOf("release") = {}
  <2>1. CASE ~prDb
    BY <1>4, <2>1 DEF PrList
  <2>2. CASE prDb
    <3>1. CASE L = 0
      BY <1>4, <2>2, <3>1 DEF PrRows
    <3>2. CASE L # 0
      <4>1. L \in 1 .. L
        BY <3>2
      <4>2. PostsOf(prReleases[L].version) # {}
        BY <1>4, <2>2, <4>1 DEF PrRows
      <4> QED
        BY <3>2, <4>2 DEF PostsOf
    <3> QED
      BY <3>1, <3>2
  <2> QED
    BY <2>1, <2>2
<1>7. L = 0 => LatestRelease = Nothing
  BY <1>4, EmptySeq DEF LatestRelease, PrTypes
<1>8. L # 0 => /\ L \in 1 .. L /\ LatestRelease = prReleases[L]
               /\ prReleases[L] \in ReleaseRecords /\ LatestRelease # Nothing
  <2>1. ASSUME L # 0 PROVE L \in 1 .. L /\ prReleases # <<>>
    BY <1>4, <2>1
  <2>2. ASSUME L # 0 PROVE LatestRelease = prReleases[L]
    BY <1>4, <2>1, <2>2 DEF LatestRelease, Last
  <2> QED
    BY <1>5, <2>1, <2>2, RecordsAre
<1>9. ASSUME JournalOf("release") # {}
      PROVE  \E i \in PostsOf(LatestRelease.version) :
               /\ \A j \in PostsOf(LatestRelease.version) : j <= i
               /\ LatestRelease = prJournal[i]
               /\ IF prDb
                  THEN \E k \in PostsOf(LatestRelease.version) :
                         IsNew(k) /\ \A j \in JournalOf("release") : j > k => ~IsNew(j)
                  ELSE \A j \in JournalOf("release") : j <= i
  <2> DEFINE v == LatestRelease.version
  <2>1. L \in 1 .. L /\ LatestRelease = prReleases[L]
    BY <1>6, <1>8, <1>9
  <2>2. CASE ~prDb
    <3>1. PICK j \in JournalOf("release") : Latest(JournalOf("release"), j)
      BY <1>3, <1>9, EndsExist
    <3>2. LatestRelease = prJournal[j]
      BY <1>4, <2>1, <2>2, <3>1 DEF PrList
    <3>3. j \in PostsOf(v)
      BY <3>1, <3>2 DEF PostsOf
    <3>4. PostsOf(v) \subseteq JournalOf("release")
      BY DEF PostsOf
    <3> QED
      BY <2>2, <3>1, <3>2, <3>3, <3>4 DEF Latest
  <2>3. CASE prDb
    <3>1. PostsOf(v) # {}
      BY <1>4, <2>1, <2>3 DEF PrRows
    <3>2. PICK i \in PostsOf(v) : Latest(PostsOf(v), i)
      BY <1>3, <3>1, EndsExist
    <3>3. LatestRelease = prJournal[i]
      BY <1>4, <2>1, <2>3, <3>2 DEF PrRows
    <3>4. PICK k \in PostsOf(v) : First(PostsOf(v), k)
      BY <1>3, <3>1, EndsExist
    <3>5. IsNew(k)
      <4>1. prJournal[k].version = v
        BY <3>4 DEF PostsOf
      <4> QED
        BY <3>4, <4>1 DEF IsNew, First
    <3>6. ASSUME NEW j \in JournalOf("release"), j > k, IsNew(j) PROVE FALSE
      <4>1. PICK m \in 1 .. L : prReleases[m].version = prJournal[j].version
        BY <1>4, <2>3 DEF PrRows
      <4>2. First(PostsOf(prReleases[m].version), j)
        BY <3>6, <4>1 DEF First, PostsOf, IsNew
      <4>3. j <= k
        BY <1>4, <2>1, <2>3, <3>4, <4>2 DEF PrRows
      <4> QED
        BY <1>3, <3>4, <3>6, <4>3
    <3> QED
      BY <2>3, <3>2, <3>3, <3>4, <3>5, <3>6 DEF Latest
  <2> QED
    BY <2>2, <2>3
<1>10. ASSUME NEW i \in DOMAIN prReleases
       PROVE  /\ "review_breaking_changes" \in ToSet(prReleases[i].upgrade)
                   <=> prReleases[i].previous # NoVersion
                         /\ prReleases[i].previous[1] < prReleases[i].version[1]
              /\ "redeploy_previous_artifacts" \in ToSet(prReleases[i].rollback)
                   <=> prReleases[i].previous # NoVersion
  BY <1>4, <1>5, PlansAre
<1> QED
  BY <1>1, <1>2, <1>6, <1>7, <1>8, <1>9, <1>10 DEF RecordsAreTold

-----------------------------------------------------------------------------
PrEmpty ==
  /\ prJournal = <<>> /\ prChecks = <<>> /\ prReleases = <<>> /\ prBackups = 0
  /\ DOMAIN prPending = PrRequests /\ \A q \in PrRequests : prPending[q] = Nothing

LEMMA EmptyRecords ==
  ASSUME PrEmpty
  PROVE  PrInv
<1>1. PrTypes
  BY EmptySeq DEF PrEmpty, PrTypes
<1>2. /\ \A kind : JournalOf(kind) = {} /\ \A env : ChecksOf(env) = {}
      /\ \A env : CheckedAt(env) = {}
  BY DEF PrEmpty, JournalOf, ChecksOf, CheckedAt
<1>3. PrCounts
  BY <1>2 DEF PrEmpty, PrCounts, Latest
<1>4. Len(prReleases) = 0
  BY DEF PrEmpty
<1>5. PrList
  BY <1>2, <1>4 DEF PrList, Latest
<1>6. PrRows
  BY <1>2, <1>4 DEF PrRows
<1> QED
  BY <1>1, <1>3, <1>5, <1>6 DEF PrInv

PendingTypes ==
  DOMAIN prPending = PrRequests /\ \A q \in PrRequests : prPending[q] \in PrRecords \cup {Nothing}

\* Nothing is stored.
LEMMA SameRecords ==
  ASSUME PrInv, UNCHANGED <<prDb, prChecks, prReleases, prBackups, prJournal>>, PendingTypes'
  PROVE  PrInv'
<1>1. PrTypes'
  BY DEF PrInv, PrTypes, PendingTypes
<1>2. /\ \A kind : JournalOf(kind)' = JournalOf(kind) /\ \A env : ChecksOf(env)' = ChecksOf(env)
      /\ \A env : CheckedAt(env)' = CheckedAt(env) /\ \A v : PostsOf(v)' = PostsOf(v)
  BY DEF JournalOf, ChecksOf, CheckedAt, PostsOf
<1>3. PrCounts'
  BY <1>2 DEF PrInv, PrCounts, Latest
<1>4. PrList'
  BY <1>2 DEF PrInv, PrList, Latest
<1>5. PrRows'
  BY <1>2 DEF PrInv, PrRows, Latest, First
<1> QED
  BY <1>1, <1>3, <1>4, <1>5 DEF PrInv

LEMMA RecordStored ==
  ASSUME PrInv, NEW r \in PrRecords, Stored(r), prDb' = prDb, PendingTypes'
  PROVE  PrInv'
<1>1. PrTypes'
  BY StoredTypes DEF PrInv, PrTypes, PendingTypes
<1>2. PrCounts'
  BY CountsStored DEF PrInv
<1>3. PrList'
  <2>1. CASE prDb
    BY <2>1 DEF PrList
  <2>2. CASE ~prDb
    BY <2>2, ListStored DEF PrInv
  <2> QED
    BY <2>1, <2>2
<1>4. PrRows'
  <2>1. CASE prDb
    BY <2>1, RowsStored DEF PrInv
  <2>2. CASE ~prDb
    BY <2>2 DEF PrRows
  <2> QED
    BY <2>1, <2>2
<1> QED
  BY <1>1, <1>2, <1>3, <1>4 DEF PrInv

LEMMA RecordMade ==
  ASSUME PrInv, NEW q \in PrRequests, NEW r \in PrRecords, Make(q, r)
  PROVE  PrInv'
<1>1. PendingTypes
  BY DEF PrInv, PrTypes, PendingTypes
<1>2. CASE prDb
  <2>1. prPending' = [prPending EXCEPT ![q] = r]
    BY <1>2 DEF Make
  <2>2. PendingTypes'
    BY <1>1, <2>1 DEF PendingTypes
  <2>3. UNCHANGED <<prDb, prChecks, prReleases, prBackups, prJournal>>
    BY <1>2 DEF Make
  <2> QED
    BY <2>2, <2>3, SameRecords
<1>3. CASE ~prDb
  <2>1. Stored(r) /\ prPending' = prPending /\ prDb' = prDb
    BY <1>3 DEF Make
  <2>2. PendingTypes'
    BY <1>1, <2>1 DEF PendingTypes
  <2> QED
    BY <2>1, <2>2, RecordStored
<1> QED
  BY <1>2, <1>3

LEMMA PrKeeps ==
  ASSUME PrInv, [PrNext]_prVars
  PROVE  PrInv'
<1>1. PendingTypes
  BY DEF PrInv, PrTypes, PendingTypes
<1>2. ASSUME NEW q \in PrRequests, GetEnvironment(q) PROVE PrInv'
  <2>1. PICK env \in PrEnvironments, report \in RunChecks :
          Make(q, [is |-> "check", environment |-> env, report |-> report])
    BY <1>2 DEF GetEnvironment
  <2>2. [is |-> "check", environment |-> env, report |-> report] \in PrRecords
    BY DEF PrRecords, CheckRecords
  <2> QED
    BY <2>1, <2>2, RecordMade
<1>3. ASSUME NEW q \in PrRequests, PostRelease(q) PROVE PrInv'
  <2>1. PICK version \in ReleaseVersions, previous \in ReleaseVersions \cup {NoVersion} :
          Make(q, Release(version, previous))
    BY <1>3 DEF PostRelease
  <2>2. Release(version, previous) \in PrRecords
    BY DEF PrRecords, ReleaseRecords
  <2> QED
    BY <2>1, <2>2, RecordMade
<1>4. ASSUME NEW q \in PrRequests, PostBackup(q) PROVE PrInv'
  <2>1. [is |-> "backup"] \in PrRecords
    BY DEF PrRecords
  <2> QED
    BY <1>4, <2>1, RecordMade DEF PostBackup
<1>5. ASSUME NEW q \in PrRequests, Save(q) PROVE PrInv'
  <2>1. prPending[q] \in PrRecords
    BY <1>1, <1>5 DEF Save, PendingTypes
  <2>2. /\ Stored(prPending[q]) /\ prDb' = prDb
        /\ prPending' = [prPending EXCEPT ![q] = Nothing]
    BY <1>5 DEF Save
  <2>3. PendingTypes'
    BY <1>1, <2>2 DEF PendingTypes
  <2> QED
    BY <2>1, <2>2, <2>3, RecordStored
<1>6. ASSUME NEW q \in PrRequests, SaveFails(q) PROVE PrInv'
  <2>1. /\ UNCHANGED <<prDb, prChecks, prReleases, prBackups, prJournal>>
        /\ prPending' = [prPending EXCEPT ![q] = Nothing]
    BY <1>6 DEF SaveFails
  <2>2. PendingTypes'
    BY <1>1, <2>1 DEF PendingTypes
  <2> QED
    BY <2>1, <2>2, SameRecords
<1>7. CASE PrRestart
  <2>1. /\ prPending' = [q \in PrRequests |-> Nothing]
        /\ DOMAIN prPending' = PrRequests /\ \A q \in PrRequests : prPending'[q] = Nothing
    BY <1>7 DEF PrRestart
  <2>2. CASE prDb
    <3>1. PendingTypes'
      BY <2>1 DEF PendingTypes
    <3>2. UNCHANGED <<prDb, prChecks, prReleases, prBackups, prJournal>>
      BY <1>7, <2>2 DEF PrRestart
    <3> QED
      BY <3>1, <3>2, SameRecords
  <2>3. CASE ~prDb
    <3>1. PrEmpty'
      BY <1>7, <2>1, <2>3 DEF PrRestart, PrEmpty
    <3> QED
      BY <3>1, EmptyRecords, PTL
  <2> QED
    BY <2>2, <2>3
<1>8. CASE UNCHANGED prVars
  <2>1. PendingTypes' /\ UNCHANGED <<prDb, prChecks, prReleases, prBackups, prJournal>>
    BY <1>1, <1>8 DEF prVars, PendingTypes
  <2> QED
    BY <2>1, SameRecords
<1> QED
  BY <1>2, <1>3, <1>4, <1>5, <1>6, <1>7, <1>8 DEF PrNext

\* What is told is what was stored: the checklist and the status agree with everything the
\* stores were given, however requests overlap, saves fail and the process restarts
\* (production_repository.py, the routes of production.py and release_manager.py).
THEOREM RecordsAreKept == PrSpec => []RecordsAreTold
<1>1. PrInit => PrInv
  <2>1. PrInit => PrEmpty
    BY DEF PrInit, PrEmpty
  <2> QED
    BY <2>1, EmptyRecords
<1>2. PrInv /\ [PrNext]_prVars => PrInv'
  BY PrKeeps
<1>3. PrInv => RecordsAreTold
  BY PrTold
<1> QED
  BY <1>1, <1>2, <1>3, PTL DEF PrSpec
=============================================================================
