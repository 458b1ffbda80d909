---------------------------- MODULE MC_Operations ----------------------------
(***************************************************************************)
(* TLC instance of what runs beside the departments: the monitoring loop   *)
(* and the incident tasks it starts, the state machines that the           *)
(* departments and the manager compile, the sockets of a project, a        *)
(* durable consumer of the message streams, a suite of chaos scenarios,    *)
(* and the model calls of a project.                                       *)
(*                                                                         *)
(* These share no state, monitoring and incidents excepted.  A behaviour   *)
(* follows one of them, chosen at its start, while the others stay at      *)
(* their initial states; "incidents" starts from incidents that were sent. *)
(***************************************************************************)
EXTENDS IncidentResponse, DepartmentGraphs, WebSockets, Messaging, Chaos, ModelCalls

VARIABLE system  \* what this behaviour follows

serviceVars == <<monVars, irVars, dgVars, wsVars>>

\* An incident of component c in cycle n, after n critical cycles.
Incident(c, n) == [component |-> c, cycle |-> n, cycles |-> n, critical |-> n]

\* One incident, or a component that stays critical after its first.
IncidentsSent ==
    {{Incident("deployments", 2)}, {Incident("nats", 2)},
     {Incident("deployments", 2), Incident("deployments", 3)}}

MonitoringStopped ==
    /\ monPc = "collect" /\ monCycles = MonMaxCycles /\ monRestarts = MonMaxRestarts
    /\ monScore = [c \in MonComponents |-> "healthy"]
    /\ monStreak = [c \in MonComponents |-> 0] /\ monCritical = monStreak
    /\ monStamped = {} /\ monOpen = {} /\ monSilent = [k \in Keys |-> 0]

MCInit ==
    /\ system \in {"monitoring", "incidents", "graphs", "sockets", "messages", "chaos", "calls"}
    /\ IF system = "incidents" THEN MonitoringStopped /\ monSent \in IncidentsSent ELSE MonInit
    /\ IrInit /\ (system # "incidents" => irRecent = FALSE)
    /\ GraphInit /\ WsInit /\ ChInit
    /\ McInit /\ (system # "calls" => mcKeys = {} /\ mcProject = [provider |-> "ollama", limit |-> 0])
    /\ MsInit /\ (system # "messages" => msConsumer = "manager")

ServiceNext ==
    \/ system = "monitoring" /\ MonNext /\ UNCHANGED <<irVars, dgVars, wsVars>>
    \/ system = "incidents" /\ IrNext /\ UNCHANGED <<monVars, dgVars, wsVars>>
    \/ system = "graphs" /\ GraphNext /\ UNCHANGED <<monVars, irVars, wsVars>>
    \/ system = "sockets" /\ WsNext /\ UNCHANGED <<monVars, irVars, dgVars>>

MCNext ==
    /\ UNCHANGED system
    /\ \/ ServiceNext /\ UNCHANGED <<msVars, chVars, mcVars>>
       \/ system = "messages" /\ MsNext /\ UNCHANGED <<serviceVars, chVars, mcVars>>
       \/ system = "chaos" /\ ChNext /\ UNCHANGED <<serviceVars, msVars, mcVars>>
       \/ system = "calls" /\ McNext /\ UNCHANGED <<serviceVars, msVars, chVars>>

MCFairness == IncidentFairness /\ GraphFairness /\ WsFairness /\ MsFairness

MCSpec == MCInit /\ [][MCNext]_<<system, serviceVars, msVars, chVars, mcVars>> /\ MCFairness
=============================================================================
