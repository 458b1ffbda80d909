-------------------------- MODULE DepartmentGraphs --------------------------
(***************************************************************************)
(* The state machines of five departments (W-Arch, W-Eng, W-QA, W-SEC and  *)
(* W-DEVOPS) and of the manager's delegation (W12), run by one interpreter *)
(* of LangGraph's supersteps: every active node runs on the same state,    *)
(* their writes are merged, and the successors of all of them are active   *)
(* next.                                                                   *)
(*                                                                         *)
(* For each graph, <Dept>Node(n, st) is the state as node n leaves it and  *)
(* <Dept>Edges(n, st) the set of its successors, empty for END.  What the  *)
(* caller injects (verdicts, dead letters, the results of teams) is chosen *)
(* when a graph starts; the approval is injected at the interrupt.         *)
(***************************************************************************)
EXTENDS Naturals, Sequences, FiniteSets

CONSTANTS MaxRevisionRounds,  \* W-Arch: rejections after which a gate without decision gives up
          MaxReviewCycles,    \* W-Eng: routing.MAX_REVIEW_CYCLES
          MaxRetryCycles,     \* W-QA, W-SEC, W-DEVOPS: routing.MAX_RETRY_CYCLES
          MaxTaskRetries      \* W12: largest max_retries of a request

ASSUME DepartmentGraphsAssumption ==
    MaxRevisionRounds \in Nat /\ MaxReviewCycles \in Nat /\ MaxRetryCycles \in Nat
    /\ MaxTaskRetries \in Nat

VARIABLES dgGraph,   \* the graph that runs, or "none"
          dgActive,  \* the nodes that run in the next superstep
          dgState,   \* the channels of its state that routing reads
          dgSent     \* the outcomes it queued for publication, in order

dgVars == <<dgGraph, dgActive, dgState, dgSent>>

Graphs == {"architecture", "engineering", "qa", "security", "devops", "delegation"}
ArchitectureTeams == {"parallel_infra", "parallel_security", "parallel_scaling", "parallel_integration"}
EngineeringTeams  == {"fan_out_backend", "fan_out_frontend", "fan_out_integration"}
QATeams           == {"generate_unit", "generate_integration", "execute_regression", "execute_performance"}
SecurityTeams     == {"static_analysis", "secret_scan", "dependency_scan", "compliance_scan"}

\* Mutant: a failed phase goes on.
OrGoOn(bad, node) == {node}

\* Mutant: a cycle that is not counted.
Uncounted(st) == st

Counted(st)      == [st EXCEPT !.cycles = @ + 1]

Or(bad, node)    == IF bad THEN {"handle_failure"} ELSE {node}

TeamReady(st, n)     == [st EXCEPT !.ready = @ \cup {n}]
Running(st, ok)  == [st EXCEPT !.status = IF ok THEN "running" ELSE "failed"]
Status(st, s)    == [st EXCEPT !.status = s]

-----------------------------------------------------------------------------
ArchitectureNode(n, st) ==
    CASE n \in ArchitectureTeams    -> TeamReady(st, n)
      [] n = "load_requirements"    -> Status(st, "running")
      [] n = "collect_parallel"     -> Running(st, ArchitectureTeams \subseteq st.ready)
      [] n = "artifact_packaging"   -> Status(st, "awaiting_approval")
      [] n = "publish_artifacts"    -> Status(st, "completed")
      [] n = "revision"             -> [st EXCEPT !.rounds = @ + 1, !.decision = "none", !.status = "running"]
      [] n \in {"max_revisions", "handle_failure"} -> Status(st, "failed")
      [] OTHER                      -> st

\* The fan-out edge leads to one of the four platform nodes.  Traceability always
\* writes a coverage above the threshold, and the review always passes.
ArchitectureEdges(n, st) ==
    CASE n = "load_requirements"    -> {"system_design"}
      [] n = "system_design"        -> Or(st.status = "failed", "parallel_infra")
      [] n \in ArchitectureTeams    -> {"collect_parallel"}
      [] n = "collect_parallel"     -> Or(st.status = "failed", "traceability")
      [] n = "traceability"         -> {"architecture_review"}
      [] n = "architecture_review"  -> {"artifact_packaging"}
      [] n = "artifact_packaging"   -> {"approval_gate"}
      [] n = "approval_gate"        ->
            {CASE st.decision = "approved"          -> "publish_artifacts"
               [] st.decision = "rejected"          -> "revision"
               [] st.decision = "none" /\ st.rounds >= MaxRevisionRounds -> "max_revisions"
               [] OTHER                             -> "approval_gate"}
      [] n = "revision"             -> {"system_design"}
      [] n = "max_revisions"        -> {"handle_failure"}
      [] OTHER                      -> {}

EngineeringNode(n, st) ==
    CASE n \in EngineeringTeams     -> TeamReady(st, n)
      [] n = "implementation_plan"  -> Status(st, "running")
      [] n = "aggregate_results"    -> Running(st, EngineeringTeams \subseteq st.ready)
      [] n = "review_cycle"         -> Counted(st)
      [] n = "publish_artifacts"    -> Status(st, "completed")
      [] n \in {"dlq", "handle_failure"} -> Status(st, "failed")
      [] OTHER                      -> st

EngineeringEdges(n, st) ==
    CASE n = "implementation_plan"  -> Or(st.status = "failed", "task_breakdown")
      [] n = "task_breakdown"       -> EngineeringTeams
      [] n \in EngineeringTeams     -> {"aggregate_results"}
      [] n = "aggregate_results"    -> Or(st.status = "failed", IF st.dead THEN "dlq" ELSE "review_cycle")
      [] n = "review_cycle"         ->
            {CASE st.verdict = "pass"                                    -> "repository"
               [] st.verdict = "warn" /\ st.cycles < MaxReviewCycles     -> "review_cycle"
               [] OTHER                                                  -> "handle_failure"}
      [] n = "repository"           -> Or(st.status = "failed", "publish_artifacts")
      [] n = "dlq"                  -> {"handle_failure"}
      [] OTHER                      -> {}

QANode(n, st) ==
    CASE n \in QATeams              -> TeamReady(st, n)
      [] n = "receive_artifacts"    -> Status(st, "running")
      [] n = "validate_inputs"      -> Running(st, st.valid)
      [] n = "aggregate_results"    -> Running(st, QATeams \subseteq st.ready)
      [] n = "defect_report"        -> Counted(st)
      [] n = "publish_artifacts"    -> Status(st, "completed")
      [] n \in {"return_to_engineering", "dlq", "handle_failure"} -> Status(st, "failed")
      [] OTHER                      -> st

\* The labels the edges after aggregate_results are given, and the one the routing
\* returns for a failing verdict: a label without an edge raises.
QALabels == [publish |-> "publish_artifacts", fail |-> "defect_report"]
Labelled(label) == IF label \in DOMAIN QALabels THEN {QALabels[label]} ELSE {"raised"}

QAEdges(n, st) ==
    CASE n = "receive_artifacts"    -> {"validate_inputs"}
      [] n = "validate_inputs"      -> Or(st.status = "failed", "fan_out_generate")
      [] n = "fan_out_generate"     -> {"generate_unit", "generate_integration"}
      [] n \in {"generate_unit", "generate_integration"} -> {"generate_complete"}
      [] n = "generate_complete"    -> Or(st.status = "failed", IF st.dead THEN "dlq" ELSE "fan_out_execute")
      [] n = "fan_out_execute"      -> {"execute_regression", "execute_performance"}
      [] n \in {"execute_regression", "execute_performance"} -> {"coverage_analysis"}
      [] n = "coverage_analysis"    -> {"aggregate_results"}
      [] n = "aggregate_results"    -> Labelled(IF st.verdict = "fail" THEN "defect_report" ELSE "publish")
      [] n = "defect_report"        -> Or(st.cycles >= MaxRetryCycles, "return_to_engineering")
      [] n \in {"dlq", "return_to_engineering"} -> {"handle_failure"}
      [] OTHER                      -> {}

SecurityNode(n, st) ==
    CASE n \in SecurityTeams        -> TeamReady(st, n)
      [] n = "receive_engineering"  -> Status(st, "running")
      [] n = "validate_inputs"      -> Running(st, st.valid)
      [] n = "aggregate_results"    -> Running(st, SecurityTeams \subseteq st.ready)
      [] n = "security_findings"    -> Counted(st)
      [] n = "publish_artifacts"    -> Status(st, "completed")
      [] n \in {"return_to_engineering", "dlq", "handle_failure"} -> Status(st, "failed")
      [] OTHER                      -> st

SecurityEdges(n, st) ==
    CASE n = "receive_engineering"  -> {"validate_inputs"}
      [] n = "validate_inputs"      -> Or(st.status = "failed", "static_analysis")
      [] n = "static_analysis"      -> Or(st.status = "failed", IF st.dead THEN "dlq" ELSE "fan_out")
      [] n = "fan_out"              -> SecurityTeams \ {"static_analysis"}
      [] n \in SecurityTeams \ {"static_analysis"} -> {"risk_classification"}
      [] n = "risk_classification"  -> {"aggregate_results"}
      [] n = "aggregate_results"    -> {IF st.verdict = "fail" THEN "security_findings" ELSE "publish_artifacts"}
      [] n = "security_findings"    -> Or(st.cycles >= MaxRetryCycles, "return_to_engineering")
      [] n \in {"dlq", "return_to_engineering"} -> {"handle_failure"}
      [] OTHER                      -> {}

DevOpsNode(n, st) ==
    CASE n = "receive_manager_approval" -> Status(st, "running")
      [] n = "validate_qa_security" -> Running(st, st.valid)
      [] n = "approval_gate"        -> Status(st, "awaiting_approval")
      [] n = "release"              -> Status(st, "completed")
      [] n = "rollback"             -> Counted(st)
      [] n \in {"notify_manager_failed", "dlq", "handle_failure"} -> Status(st, "failed")
      [] OTHER                      -> st

DevOpsEdges(n, st) ==
    CASE n = "receive_manager_approval" -> {"validate_qa_security"}
      [] n = "validate_qa_security" -> Or(st.status = "failed", "generate_infrastructure")
      [] n = "generate_infrastructure" -> Or(st.status = "failed", IF st.dead THEN "dlq" ELSE "generate_cicd")
      [] n = "generate_cicd"        -> Or(st.status = "failed", "approval_gate")
      [] n = "approval_gate"        ->
            {CASE st.decision = "approved" -> "deploy"
               [] st.decision = "rejected" -> "handle_failure"
               [] OTHER                    -> "approval_gate"}
      [] n = "deploy"               -> Or(st.status = "failed", "health_check")
      [] n = "health_check"         -> {IF st.verdict = "pass" THEN "release" ELSE "rollback"}
      [] n = "rollback"             -> Or(st.cycles >= MaxRetryCycles, "notify_manager_failed")
      [] n \in {"dlq", "notify_manager_failed"} -> {"handle_failure"}
      [] OTHER                      -> {}

\* Nothing in the graph produces the task's output: it is validated as it was invoked
\* with, and a retry clears it.
DelegationNode(n, st) ==
    CASE n = "select_department"    -> Running(st, ~st.dead)
      [] n = "assign_task"          -> Status(st, "running")
      [] n = "handle_retry"         -> [Counted(st) EXCEPT !.valid = FALSE]
      [] n = "dead_letter"          -> Status(st, "failed")
      [] n = "task_complete"        -> Status(st, "completed")
      [] OTHER                      -> st

\* handle_retry has a fixed edge beside the conditional one.  Its escalation level is
\* below the last at the first retry, and no second one is reached.
DelegationEdges(n, st) ==
    CASE n = "select_department"    -> {"select_agent"}
      [] n = "select_agent"         -> {"select_model"}
      [] n = "select_model"         -> {"assign_task"}
      [] n = "assign_task"          -> {"monitor_progress"}
      [] n = "monitor_progress"     -> {"collect_results"}
      [] n = "collect_results"      -> {"validate_completion"}
      [] n = "validate_completion"  ->
            {CASE st.valid                  -> "task_complete"
               [] ~st.valid /\ st.cycles >= st.rounds -> "dead_letter"
               [] OTHER                     -> "handle_retry"}
      [] n = "handle_retry"         -> {"select_agent", "escalate_task"}
      [] n = "escalate_task"        -> {"select_agent"}
      [] OTHER                      -> {}

-----------------------------------------------------------------------------
NodeOf(n, st) ==
    CASE dgGraph = "architecture" -> ArchitectureNode(n, st)
      [] dgGraph = "engineering"  -> EngineeringNode(n, st)
      [] dgGraph = "qa"           -> QANode(n, st)
      [] dgGraph = "security"     -> SecurityNode(n, st)
      [] dgGraph = "devops"       -> DevOpsNode(n, st)
      [] dgGraph = "delegation"   -> DelegationNode(n, st)

EdgesOf(n, st) ==
    CASE dgGraph = "architecture" -> ArchitectureEdges(n, st)
      [] dgGraph = "engineering"  -> EngineeringEdges(n, st)
      [] dgGraph = "qa"           -> QAEdges(n, st)
      [] dgGraph = "security"     -> SecurityEdges(n, st)
      [] dgGraph = "devops"       -> DevOpsEdges(n, st)
      [] dgGraph = "delegation"   -> DelegationEdges(n, st)

\* The outcome a node queues for publication.
OutcomeOf(n) ==
    CASE n \in {"publish_artifacts", "release"} -> <<"completed">>
      [] n = "notify_manager_failed"            -> <<"completed">>
      [] n = "handle_failure"                   -> <<"failed">>
      [] n = "dlq" /\ dgGraph # "engineering"   -> <<"failed">>
      [] OTHER                                  -> <<>>

GraphInit ==
    /\ dgGraph = "none" /\ dgActive = {} /\ dgSent = <<>>
    /\ dgState = [status |-> "running", ready |-> {}, verdict |-> "fail", cycles |-> 0,
                  rounds |-> 0, dead |-> FALSE, valid |-> TRUE, decision |-> "none"]

Entry == [architecture |-> "load_requirements", engineering |-> "implementation_plan",
          qa |-> "receive_artifacts", security |-> "receive_engineering",
          devops |-> "receive_manager_approval", delegation |-> "select_department"]

\* A graph is invoked with what its caller injects: a verdict (of the review, the
\* gates or the health check), dead letters, valid inputs, results of the teams; W12
\* with a task type that has a department or not, an output and a limit on retries.
Invoke ==
    /\ dgGraph = "none"
    /\ \E g \in Graphs, verdict \in {"pass", "warn", "fail"}, dead, valid, injected \in BOOLEAN,
         limit \in 0 .. MaxTaskRetries :
         /\ g # "delegation" => limit = 0
         /\ dgGraph' = g /\ dgActive' = {Entry[g]}
         /\ dgState' = [dgState EXCEPT !.verdict = verdict, !.dead = dead, !.valid = valid,
                           !.rounds = limit,
                           !.ready = IF injected THEN ArchitectureTeams ELSE {}]
    /\ UNCHANGED dgSent

\* The decision is injected while the graph is interrupted before its gate.  The code sets
\* rejections no limit: one past the rounds a gate without decision allows is the bound.
Decide ==
    /\ "approval_gate" \in dgActive /\ dgState.decision = "none"
    /\ \E d \in {"approved", "rejected"} :
         /\ d = "rejected" => dgState.rounds <= MaxRevisionRounds
         /\ dgState' = [dgState EXCEPT !.decision = d]
    /\ UNCHANGED <<dgGraph, dgActive, dgSent>>

\* The two successors of handle_retry both write the selected agent, a channel that
\* takes one value per step.
Clash == {"select_agent", "escalate_task"} \subseteq dgActive

WriteTwice ==
    /\ Clash
    /\ dgActive' = {"raised"}
    /\ UNCHANGED <<dgGraph, dgState, dgSent>>

\* One superstep.  Teams that run together write nothing but their own flags.
Superstep ==
    /\ dgActive \notin {{}, {"raised"}} /\ ~Clash
    /\ LET left == [n \in dgActive |-> NodeOf(n, dgState)]
           st   == [left[CHOOSE n \in dgActive : TRUE] EXCEPT
                       !.ready = UNION {left[n].ready : n \in dgActive}]
       IN /\ dgState' = st
          /\ dgActive' = UNION {EdgesOf(n, st) : n \in dgActive}
    /\ dgSent' = IF Cardinality(dgActive) = 1
                 THEN dgSent \o OutcomeOf(CHOOSE n \in dgActive : TRUE) ELSE dgSent
    /\ UNCHANGED dgGraph

GraphNext == Invoke \/ Decide \/ Superstep \/ WriteTwice

\* An invoked graph runs until it ends or is interrupted; nothing makes anyone decide.
GraphFairness == WF_dgVars(Superstep \/ WriteTwice)

GraphSpec == GraphInit /\ [][GraphNext]_dgVars /\ GraphFairness

-----------------------------------------------------------------------------
GraphEnded == dgGraph # "none" /\ dgActive = {}

\* A graph that ends as completed went through its gates: its teams all delivered,
\* nothing was dead-lettered, its inputs were valid and its verdict is not a
\* failing one, and what needs a decision was approved after its last revision.
CompletedThroughItsGates ==
    GraphEnded /\ dgState.status = "completed" =>
        /\ dgGraph # "delegation" => dgSent # <<>> /\ Head(dgSent) = "completed"
        /\ dgGraph \in {"architecture", "devops"} => dgState.decision = "approved"
        /\ dgGraph \notin {"architecture", "delegation"} => ~dgState.dead /\ dgState.verdict # "fail"
        /\ dgGraph \in {"qa", "security", "devops", "delegation"} => dgState.valid
        /\ \A teams \in {ArchitectureTeams, EngineeringTeams, QATeams, SecurityTeams} :
             dgState.ready \cap teams = {} \/ teams \subseteq dgState.ready

\* Every graph that is invoked ends, raises, or waits at its gate for a decision: the
\* review cycles, the retries and the revisions are loops with a way out.
GraphsComeToRest ==
    dgGraph # "none" ~> dgActive \in {{}, {"raised"}, {"approval_gate"}}
=============================================================================
