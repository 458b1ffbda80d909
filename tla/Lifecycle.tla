------------------------------ MODULE Lifecycle ------------------------------
(***************************************************************************)
(* W01, the project lifecycle (services/manager): the LangGraph state      *)
(* machine of graphs/lifecycle.py and the endpoints of main.py that start  *)
(* it, inject approval decisions and resume it.  One project is modelled.  *)
(*                                                                         *)
(* The graph runs inside one call of invoke, which blocks the event loop:  *)
(* between its first node and its pause nothing else runs.  The endpoints' *)
(* other awaits interleave.  Nothing in the source writes budget_status or *)
(* failed_tasks after the start, so the branches that read them are not    *)
(* taken and their nodes are left out.                                     *)
(***************************************************************************)
EXTENDS Naturals, FiniteSets

CONSTANTS
  Callers,      \* concurrent requests of the manager service
  Nobody,       \* no request is inside invoke
  Executable,   \* FALSE: as main.py compiles and calls the graph, without a
                \* checkpointer and with invoke on async nodes, its calls raise
  MaxRounds,    \* rejected revisions a gate allows (5 in the code)
  MaxStarts,    \* bound: POST /projects/start requests
  MaxDecisions, \* bound: approve and reject requests
  MaxCrashes    \* bound: restarts of the service

ASSUME LifecycleConstants ==
  /\ Nobody \notin Callers
  /\ Executable \in BOOLEAN
  /\ {MaxRounds, MaxStarts, MaxDecisions, MaxCrashes} \subseteq Nat

RequirementsGate == "requirements_approval_gate"
ArchitectureGate == "architecture_approval_gate"
DeploymentGate == "deployment_approval_gate"

Gates == {RequirementsGate, ArchitectureGate, DeploymentGate}

\* interrupt_before of the compiled graph.
\* Mutant: the deployment gate is forgotten.
InterruptTwo == {RequirementsGate, ArchitectureGate}

InterruptBefore == Gates

Nodes == Gates \union
  {"project_intake", "requirements_phase", "requirements_revision", "architecture_phase",
   "architecture_revision", "project_structure", "implementation_phase",
   "validation_phase", "deployment_phase", "execute_deployment", "monitoring_phase",
   "project_complete", "max_revisions", "handle_failure"}

ArtifactTypes == {"none", "requirements", "architecture", "deployment_plan"}

Subjects == {"none", "manager.project.created", "manager.task.assigned",
             "manager.approval.rejected", "manager.project.failed",
             "manager.project.completed"}

VARIABLES
  g,          \* the project's thread: its channels, last node and next one
  executing,  \* the request inside invoke
  resumed,    \* invoke has not yet run the gate it resumes at
  req,        \* each request: its next await, its endpoint, the artifact type it
              \* read, where the graph was when it decided, the queue invoke returned
  ran,        \* department pipelines run since the project was started
  granted,    \* gates an approval was injected at since the project was started
  refused,    \* rejections since the last approval or start
  starts, decisions, crashes  \* what the bounds count

history == <<ran, granted, refused>>
counts == <<starts, decisions, crashes>>

vars == <<g, executing, resumed, req, history, counts>>

NoThread == [next |-> "none", last |-> "none", phase |-> 0, status |-> "none",
             type |-> "none", approval |-> "none", awaiting |-> FALSE, round |-> 0,
             nats |-> "none"]

NoRequest == [pc |-> "idle", kind |-> "none", read |-> "none", paused |-> "none",
              queue |-> "none"]

Threads == [next : Nodes \union {"none", "end"},
            last : Nodes \union {"none"},
            phase : 0 .. 10,
            status : {"none", "pending", "running", "awaiting_approval", "completed",
                      "failed"},
            type : ArtifactTypes,
            approval : {"none", "pending", "approved", "rejected"},
            awaiting : BOOLEAN,
            round : 0 .. MaxRounds,
            nats : Subjects]

Requests == [pc : {"idle", "decide", "invoke", "flush", "audit", "pipeline"},
             kind : {"none", "start", "approve", "reject"},
             read : ArtifactTypes,
             paused : Nodes \union {"none", "end"},
             queue : Subjects]

\* Statuses, artifact types and rounds are those the endpoints' clients know, and a
\* request is inside invoke exactly while the graph runs.
TypeOK ==
  /\ g \in Threads
  /\ executing \in Callers \union {Nobody}
  /\ resumed \in BOOLEAN
  /\ req \in [Callers -> Requests]
  /\ \A c \in Callers : req[c].pc = "invoke" <=> executing = c
  /\ ran \subseteq {"product", "architecture", "engineering", "deployment"}
  /\ granted \subseteq Gates
  /\ {refused, starts, decisions, crashes} \subseteq Nat

Init ==
  /\ g = NoThread
  /\ executing = Nobody
  /\ resumed = FALSE
  /\ req = [c \in Callers |-> NoRequest]
  /\ ran = {}
  /\ granted = {}
  /\ refused = 0
  /\ starts = 0 /\ decisions = 0 /\ crashes = 0

-----------------------------------------------------------------------------
(***************************************************************************)
(* Nodes and routing.  nats_events_queue has no reducer: a node that       *)
(* writes it replaces what an earlier node of the same run queued.         *)
(***************************************************************************)
Phase(s, n, status) == [s EXCEPT !.phase = n, !.status = status]

Queue(s, subject) == [s EXCEPT !.nats = subject]

Gate(s, type) ==
  [s EXCEPT !.status = "awaiting_approval", !.awaiting = TRUE, !.type = type]

Revision(s) ==
  [s EXCEPT !.round = @ + 1, !.approval = "none", !.awaiting = FALSE,
            !.status = "running", !.nats = "manager.approval.rejected"]

Run(n, s) ==
  CASE n = "project_intake" ->
         [Queue(Phase(s, 1, "completed"), "manager.project.created")
            EXCEPT !.round = 0, !.awaiting = FALSE]
    [] n = "requirements_phase" -> Queue(Phase(s, 2, "running"), "manager.task.assigned")
    [] n = RequirementsGate -> Gate(s, "requirements")
    [] n \in {"requirements_revision", "architecture_revision"} -> Revision(s)
    [] n = "architecture_phase" -> Queue(Phase(s, 3, "running"), "manager.task.assigned")
    [] n = ArchitectureGate -> Gate(s, "architecture")
    [] n = "project_structure" -> Phase(s, 4, "completed")
    [] n = "implementation_phase" -> Queue(Phase(s, 5, "running"), "manager.task.assigned")
    [] n = "validation_phase" -> Phase(s, 6, "running")
    [] n = "deployment_phase" -> Queue(Phase(s, 8, "running"), "manager.task.assigned")
    [] n = DeploymentGate -> Gate(s, "deployment_plan")
    [] n = "execute_deployment" -> Phase(s, 8, "running")
    [] n = "monitoring_phase" -> Phase(s, 9, "running")
    [] n = "project_complete" ->
         Queue(Phase(s, 10, "completed"), "manager.project.completed")
    [] n = "max_revisions" -> Phase(s, s.phase, "failed")
    [] n = "handle_failure" -> Queue(Phase(s, s.phase, "failed"), "manager.project.failed")

\* route_requirements_approval and route_architecture_approval.
RouteReview(s, approved, rejected, self) ==
  CASE s.round >= MaxRounds -> "max_revisions"
    [] s.round < MaxRounds /\ s.approval = "approved" -> approved
    [] s.round < MaxRounds /\ s.approval = "rejected" -> rejected
    [] OTHER -> self

RouteDeployment(s) ==
  CASE s.approval = "approved" -> "execute_deployment"
    [] s.approval = "rejected" -> "deployment_phase"
    [] OTHER -> DeploymentGate

Route(n, s) ==
  CASE n = "project_intake" -> "requirements_phase"
    [] n = "requirements_phase" -> RequirementsGate
    [] n = RequirementsGate ->
         RouteReview(s, "architecture_phase", "requirements_revision", RequirementsGate)
    [] n = "requirements_revision" -> "requirements_phase"
    [] n = "architecture_phase" -> ArchitectureGate
    [] n = ArchitectureGate ->
         RouteReview(s, "project_structure", "architecture_revision", ArchitectureGate)
    [] n = "architecture_revision" -> "architecture_phase"
    [] n = "project_structure" -> "implementation_phase"
    [] n = "implementation_phase" -> "validation_phase"
    [] n = "validation_phase" -> "deployment_phase"
    [] n = "deployment_phase" -> DeploymentGate
    [] n = DeploymentGate -> RouteDeployment(s)
    [] n = "execute_deployment" -> "monitoring_phase"
    [] n = "monitoring_phase" -> "project_complete"
    [] n = "max_revisions" -> "handle_failure"
    [] n \in {"project_complete", "handle_failure"} -> "end"

\* One node of the running graph.
NodeStep ==
  LET s == Run(g.next, g) IN
  /\ executing # Nobody
  /\ g.next \in Nodes
  /\ resumed \/ g.next \notin InterruptBefore
  /\ g' = [s EXCEPT !.next = Route(g.next, s), !.last = g.next]
  /\ resumed' = FALSE
  /\ UNCHANGED <<executing, req, history, counts>>

\* invoke returns at the end, or before a gate it did not just resume.
InvokeReturns ==
  /\ executing # Nobody
  /\ g.next = "end" \/ (g.next \in InterruptBefore /\ ~resumed)
  /\ req' = [req EXCEPT ![executing].pc = "flush", ![executing].queue = g.nats]
  /\ executing' = Nobody
  /\ resumed' = FALSE
  /\ UNCHANGED <<g, history, counts>>

\* update_state writes as the thread's last node did: where that node leads is
\* decided anew on the new values.
UpdateState(s) == IF s.last = "none" THEN s ELSE [s EXCEPT !.next = Route(s.last, s)]

-----------------------------------------------------------------------------
(***************************************************************************)
(* Endpoints                                                               *)
(***************************************************************************)
Free == executing = Nobody

At(c, l) == Free /\ req[c].pc = l

Ends(c) == req' = [req EXCEPT ![c] = NoRequest]

Enters(c, r) ==
  /\ req' = [req EXCEPT ![c] = [r EXCEPT !.pc = "invoke"]]
  /\ executing' = c

\* POST /projects/start: an existing thread of the same project starts over.
StartProject(c) ==
  /\ At(c, "idle")
  /\ starts < MaxStarts
  /\ starts' = starts + 1
  /\ IF Executable
     THEN /\ g' = [NoThread EXCEPT !.next = "project_intake", !.status = "pending"]
          /\ Enters(c, [NoRequest EXCEPT !.kind = "start"])
          /\ ran' = {} /\ granted' = {} /\ refused' = 0
     ELSE UNCHANGED <<g, req, executing, history>>
  /\ UNCHANGED <<resumed, decisions, crashes>>

\* A decision is asked for: the state is read, 404 without a thread.
Asked(c) ==
  /\ At(c, "idle")
  /\ g # NoThread
  /\ decisions < MaxDecisions
  /\ decisions' = decisions + 1
  /\ UNCHANGED <<starts, crashes>>

\* update_state and invoke(None), with nothing between them: there is no check that
\* the graph is paused, nor at which gate.
Resume(c, r, update) ==
  /\ g' = UpdateState(update)
  /\ Enters(c, [r EXCEPT !.paused = g.next])
  /\ resumed' = TRUE
  /\ UNCHANGED ran

\* POST /projects/{id}/approve awaits the artifact's row between reading the state
\* and deciding.
ApproveArtifact(c) ==
  /\ Asked(c)
  /\ req' = [req EXCEPT ![c] =
               [NoRequest EXCEPT !.pc = "decide", !.kind = "approve", !.read = g.type]]
  /\ UNCHANGED <<g, executing, resumed, history>>

\* The row's lookup or update fails: 500.
ApproveFails(c) ==
  /\ At(c, "decide")
  /\ Ends(c)
  /\ UNCHANGED <<g, executing, resumed, history, counts>>

InjectApproval(c) ==
  /\ At(c, "decide")
  /\ Resume(c, req[c], [g EXCEPT !.approval = "approved", !.awaiting = FALSE, !.round = 0])
  /\ granted' = granted \union ({g.next, g.last} \intersect Gates)
  /\ refused' = 0
  /\ UNCHANGED counts

\* Mutant: the rejection resumes the graph without being written into the thread.
RejectArtifactLost(c) ==
  /\ Asked(c)
  /\ Resume(c, [NoRequest EXCEPT !.kind = "reject", !.read = g.type], g)
  /\ UNCHANGED <<granted, refused>>

\* POST /projects/{id}/reject reads, decides and resumes without an await.
RejectArtifact(c) ==
  /\ Asked(c)
  /\ Resume(c, [NoRequest EXCEPT !.kind = "reject", !.read = g.type],
            [g EXCEPT !.approval = "rejected", !.awaiting = FALSE])
  /\ refused' = refused + (IF g.next \in {RequirementsGate, ArchitectureGate} THEN 1 ELSE 0)
  /\ UNCHANGED granted

\* _flush_events: the queue invoke returned is published, a failure is swallowed.
FlushEvents(c) ==
  /\ At(c, "flush")
  /\ req' = [req EXCEPT ![c].pc = IF req[c].kind = "start" THEN "pipeline" ELSE "audit"]
  /\ UNCHANGED <<g, executing, resumed, history, counts>>

\* The audit row is written, or the request fails; only an approval that read a type
\* has a pipeline to run.
RecordAudit(c) ==
  /\ At(c, "audit")
  /\ \/ /\ req[c].kind = "approve"
        /\ req[c].read # "none"
        /\ req' = [req EXCEPT ![c].pc = "pipeline"]
     \/ Ends(c)
  /\ UNCHANGED <<g, executing, resumed, history, counts>>

Pipeline(r) ==
  CASE r.kind = "start" -> "product"
    [] r.kind # "start" /\ r.read = "requirements" -> "architecture"
    [] r.kind # "start" /\ r.read = "architecture" -> "engineering"
    [] OTHER -> "deployment"

\* _run_department_pipeline: its exceptions are caught.
RunPipeline(c) ==
  /\ At(c, "pipeline")
  /\ ran' = ran \union {Pipeline(req[c])}
  /\ Ends(c)
  /\ UNCHANGED <<g, executing, resumed, granted, refused, counts>>

\* product.requirements.completed arrives, at any time and as often as it likes.
OnRequirementsCompleted ==
  /\ Free
  /\ g # NoThread
  /\ g' = UpdateState([g EXCEPT !.status = "completed", !.approval = "pending"])
  /\ UNCHANGED <<executing, resumed, req, history, counts>>

\* The service restarts between two checkpoints of the thread: requests are gone.  A
\* run that was cut goes on from its next node with the next decision.
Crash ==
  /\ crashes < MaxCrashes
  /\ crashes' = crashes + 1
  /\ req' = [c \in Callers |-> NoRequest]
  /\ executing' = Nobody
  /\ resumed' = FALSE
  /\ UNCHANGED <<g, history, starts, decisions>>

CallStep(c) ==
  \/ InjectApproval(c) \/ ApproveFails(c) \/ FlushEvents(c) \/ RecordAudit(c) \/ RunPipeline(c)

Next ==
  \/ NodeStep \/ InvokeReturns
  \/ \E c \in Callers :
       \/ StartProject(c)
       \/ ApproveArtifact(c) \/ RejectArtifact(c)
       \/ CallStep(c)
  \/ OnRequirementsCompleted
  \/ Crash

Spec == Init /\ [][Next]_vars

\* A started request keeps running; nobody has to decide anything.
FairSpec ==
  /\ Spec
  /\ WF_vars(NodeStep) /\ WF_vars(InvokeReturns)
  /\ \A c \in Callers : WF_vars(CallStep(c))

-----------------------------------------------------------------------------
(***************************************************************************)
(* Properties                                                              *)
(***************************************************************************)

\* The project is past a gate only after an approval was injected while the graph
\* was at that gate.  The approval is never cleared from the thread, so this
\* rests on every pause and on every resume writing its own decision.
PhasesNeedApproval ==
  /\ g.phase >= 3 => RequirementsGate \in granted
  /\ g.phase >= 4 => ArchitectureGate \in granted
  /\ g.last \in {"execute_deployment", "monitoring_phase", "project_complete"} =>
       DeploymentGate \in granted

\* A review that keeps being rejected ends the project: no more than MaxRounds
\* revisions between two approvals.
RevisionsAreBounded ==
  refused > MaxRounds /\ executing = Nobody /\ crashes = 0 => g.next = "end"

\* A project that was started once runs its deployment only after its deployment
\* gate was approved, whatever the approval requests in flight had read.
DeploymentNeedsApproval ==
  starts <= 1 => ("deployment" \in ran => DeploymentGate \in granted)

\* What the gates promise, together: nothing gets past one without its approval, in the
\* graph or in a pipeline that a request starts, and nobody can be asked for ever.
GatesNeedDecisions == PhasesNeedApproval /\ RevisionsAreBounded /\ DeploymentNeedsApproval

\* A request that entered the graph comes out of it: every cycle of the graph has a
\* gate, and the graph pauses at all of them.
InvokesEnd == executing # Nobody ~> executing = Nobody

-----------------------------------------------------------------------------
(***************************************************************************)
(* What the source says and the code does not do.                          *)
(***************************************************************************)

\* requirements_revision_node "routes rejection feedback back to product-service":
\* a rejection of the requirements that started a revision flushes it.
FeedbackIsForwarded ==
  \A c \in Callers :
    /\ req[c].pc = "flush"
    /\ req[c].kind = "reject"
    /\ req[c].paused = RequirementsGate
    /\ g.status = "running"
    => req[c].queue = "manager.approval.rejected"

\* approve_artifact: "If it's requirements approval, kick off architecture pipeline".
PipelineFollowsGate ==
  \A c \in Callers :
    req[c].pc = "audit" /\ req[c].kind = "approve" /\ req[c].paused = RequirementsGate =>
      req[c].read = "requirements"

\* start_project: "The graph runs until it hits the requirements approval gate".
StartReachesGate == starts > 0 ~> (g.next = RequirementsGate)
=============================================================================
