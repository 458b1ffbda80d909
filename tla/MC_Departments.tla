--------------------------- MODULE MC_Departments ---------------------------
(***************************************************************************)
(* TLC instance of the department services, of the runtime their agents    *)
(* run in, and of the tools around them that keep state of their own: the  *)
(* backups, the plugins and the canvas of the workflow designer.           *)
(*                                                                         *)
(* The departments share no state but the artifacts table, of which each   *)
(* writes types of its own, and nothing in the services starts one from    *)
(* another's completion.  A behaviour therefore follows one part, chosen   *)
(* at its start, while the others stay at their initial states; the        *)
(* barrier of gate results that starts DevOps counts as one of its own.    *)
(***************************************************************************)
EXTENDS Architecture, Engineering, QA, Security, DevOps, ProductPipeline, AgentRuntime,
        BackupRestore, Plugins, PluginGraph, Canvas, WorkflowAnalysis, Readiness,
        Dashboard, Configuration, ProductionRecords

VARIABLE part  \* what this behaviour follows

\* The runs of DevOps are interchangeable: they are taken in one order of starting.
DvoOrder == SetToSeq(DvoRuns)
DvoInOrder ==
    \A i, j \in DOMAIN DvoOrder : i < j /\ dvoRun[DvoOrder[i]].pc = "idle"
                                => dvoRun[DvoOrder[j]].pc = "idle"

\* Two rows are enough for two runs to insert, or for one to insert beside a plan's; and one
\* of the overlapping runs at most does not learn the result of its checks.
DvoBounded ==
    /\ Len(dvoRows) <= 2
    /\ Cardinality({r \in DvoRuns : dvoRun[r].checks \in {"unknown", "malformed"}}) <= 1

\* Of two overlapping runs of Architecture one at most escalates or closes gaps, the other's
\* platform workers fail and its own write; they see nothing of each other and end in one
\* order.
ArchPlainRun == CHOOSE r \in ArchRuns : TRUE
ArchBounded ==
    /\ archAttempt'[ArchPlainRun] = 0 /\ archPc'[ArchPlainRun] # "escalated"
    /\ \A r \in ArchRuns : archWork'[r] \in {{}, PlatformTypes, {"ui_blueprint"}}
    /\ \A r \in ArchRuns : Cardinality(archWork'[r]) < Cardinality(archWork[r]) =>
                            (archRows' = archRows <=> r = ArchPlainRun)

\* Of two overlapping runs of Engineering at most one calls the frontend.
EngPlainRun == CHOOSE r \in Runs : TRUE

\* On the canvas an edge is drawn from the first node, which may be gone by then.
CvBounded == \A e \in cvLayout.edges : e.id = <<"f">> => e.source = <<"a">>

departmentVars == <<archVars, engVars, qaVars, secVars, dvoVars, ppVars>>
infoVars == <<daVars, cfVars, prVars>>
toolVars == <<brVars, plVars, pgVars, cvVars, waVars, rdVars, infoVars>>
restVars == <<rtVars, toolVars>>

MCInit ==
    /\ part \in {"architecture", "engineering", "qa", "security", "devops", "gates", "product",
                 "runtime", "backups", "plugins", "dependencies", "canvas", "analysis",
                 "readiness", "dashboard", "configuration", "records"}
    /\ ArchInit /\ EngInit /\ QAInit /\ SecInit /\ DvoInit /\ PpInit /\ RtInit
    /\ BrInit /\ PlInit /\ CvInit
    /\ \/ part = "dependencies"
       \/ part # "dependencies" /\ pgEdges = {}
    /\ \/ part = "analysis"
       \/ part # "analysis" /\ waEnd = TRUE /\ waEdges = {<<Start, End>>}
    /\ \/ part = "readiness"
       \/ part # "readiness" /\ rdPc = "health" /\ rdNeeds = {}
    /\ \/ part = "dashboard"
       \/ part # "dashboard" /\ daDb = TRUE
    /\ \/ part = "configuration"
       \/ part # "configuration" /\ cfEnv = "production"
    /\ \/ part = "records"
       \/ part # "records" /\ prDb = TRUE
    /\ PgInit /\ WaInit /\ RdInit /\ DaInit /\ CfInit /\ PrInit

DepartmentNext ==
    \/ part = "architecture" /\ ArchNext /\ ArchBounded
       /\ UNCHANGED <<engVars, qaVars, secVars, dvoVars, ppVars>>
    \/ part = "engineering" /\ EngNext /\ ~engUi'[EngPlainRun]
       /\ UNCHANGED <<archVars, qaVars, secVars, dvoVars, ppVars>>
    \/ part = "qa" /\ QANext /\ UNCHANGED <<archVars, engVars, secVars, dvoVars, ppVars>>
    \/ part = "security" /\ SecNext /\ UNCHANGED <<archVars, engVars, qaVars, dvoVars, ppVars>>
    \/ part = "devops" /\ (\E r \in DvoRuns : DvoRunStep(r)) /\ DvoInOrder' /\ DvoBounded'
       /\ UNCHANGED <<archVars, engVars, qaVars, secVars, ppVars>>
    \/ part = "gates" /\ DvoGateStep /\ UNCHANGED <<archVars, engVars, qaVars, secVars, ppVars>>
    \/ part = "product" /\ PpNext /\ UNCHANGED <<archVars, engVars, qaVars, secVars, dvoVars>>

ToolsNext ==
    \/ part = "backups" /\ BrNext /\ UNCHANGED <<plVars, pgVars, cvVars, waVars, rdVars, infoVars>>
    \/ part = "plugins" /\ PlNext /\ UNCHANGED <<brVars, pgVars, cvVars, waVars, rdVars, infoVars>>
    \/ part = "dependencies" /\ PgNext /\ UNCHANGED <<brVars, plVars, cvVars, waVars, rdVars, infoVars>>
    \/ part = "canvas" /\ CvNext /\ CvBounded'
       /\ UNCHANGED <<brVars, plVars, pgVars, waVars, rdVars, infoVars>>
    \/ part = "analysis" /\ WaNext /\ UNCHANGED <<brVars, plVars, pgVars, cvVars, rdVars, infoVars>>
    \/ part = "readiness" /\ RdNext /\ UNCHANGED <<brVars, plVars, pgVars, cvVars, waVars, infoVars>>

InfoNext ==
    \/ part = "dashboard" /\ DaNext /\ UNCHANGED <<cfVars, prVars>>
    \/ part = "configuration" /\ CfNext /\ UNCHANGED <<daVars, prVars>>
    \/ part = "records" /\ PrNext /\ UNCHANGED <<daVars, cfVars>>

MCNext ==
    /\ UNCHANGED part
    /\ \/ DepartmentNext /\ UNCHANGED restVars
       \/ part = "runtime" /\ RtNext /\ UNCHANGED <<departmentVars, toolVars>>
       \/ ToolsNext /\ UNCHANGED <<departmentVars, rtVars>>
       \/ InfoNext /\ UNCHANGED <<departmentVars, rtVars, brVars, plVars, pgVars, cvVars,
                                  waVars, rdVars>>

MCSpec == MCInit /\ [][MCNext]_<<departmentVars, restVars, part>>
=============================================================================
