--------------------------- MODULE Lifecycle_proofs ---------------------------
(***************************************************************************)
(* What the gates of W01 promise, proved for any number of requests,       *)
(* revisions, starts and restarts: theorem GatesHold.                      *)
(*                                                                         *)
(* The inductive invariant LifeInv says where a thread can be (ThreadInv), *)
(* which approvals its place rests on (GateInv), what the pending          *)
(* rejection still owes the round counter (RoundInv), and what a request   *)
(* that read the deployment plan knows (RequestInv).                       *)
(***************************************************************************)
EXTENDS Lifecycle, TLAPS

-----------------------------------------------------------------------------
(***************************************************************************)
(* The inductive invariant                                                 *)
(***************************************************************************)
Reviews == {RequirementsGate, ArchitectureGate}
Ending == {"max_revisions", "handle_failure"}

\* The phases a thread can be in once the node n ran last.
PhasesAfter(n) ==
  CASE n = "none" -> {0}
    [] n = "project_intake" -> {1}
    [] n \in {"requirements_phase", RequirementsGate, "requirements_revision"} -> {2}
    [] n \in {"architecture_phase", ArchitectureGate, "architecture_revision"} -> {3}
    [] n = "project_structure" -> {4}
    [] n = "implementation_phase" -> {5}
    [] n = "validation_phase" -> {6}
    [] n \in {"deployment_phase", DeploymentGate, "execute_deployment"} -> {8}
    [] n = "monitoring_phase" -> {9}
    [] n = "project_complete" -> {10}
    [] OTHER -> {2, 3}

\* The next node is where the last one leads on the values the thread has now.
ThreadInv ==
  /\ g.last = "none" => g.next \in {"none", "project_intake"} /\ g.type = "none"
  /\ g.last # "none" => g.next = Route(g.last, g)
  /\ g.phase \in PhasesAfter(g.last)
  /\ g.next = "none" => g = NoThread
  /\ executing = Nobody => ~resumed

\* An approval the thread carries was injected at the gate that reads it.
GateInv ==
  /\ g.last \in Gates /\ g.approval = "approved" => g.last \in granted
  /\ resumed /\ g.next \in Gates /\ g.approval = "approved" => g.next \in granted
  /\ PhasesNeedApproval

\* A rejection that has been counted and has not become a revision.
Owed ==
  \/ resumed /\ g.next \in Reviews /\ g.approval = "rejected"
  \/ g.next \in {"requirements_revision", "architecture_revision"}

RoundInv ==
  crashes = 0 =>
    /\ executing = Nobody => g.next \in Gates \union {"none", "end"}
    /\ g.next = "project_intake" => refused = 0
    /\ \/ refused <= g.round
       \/ Owed /\ refused <= g.round + 1
       \/ g.next \in Ending \union {"end"}

Deploying == {DeploymentGate, "deployment_phase", "execute_deployment", "monitoring_phase",
              "project_complete"}

\* What a request that read the deployment plan rests on, in a project that was
\* started once.
RequestInv ==
  /\ starts = 0 => g = NoThread
  /\ g = NoThread => ran = {} /\ \A c \in Callers : req[c] = NoRequest
  /\ g.type = "deployment_plan" => g.last \in Deploying
  /\ \A c \in Callers :
       /\ req[c].pc = "decide" => req[c].kind = "approve"
       /\ req[c].pc = "pipeline" /\ req[c].kind # "start" =>
            req[c].kind = "approve" /\ req[c].read # "none"
       /\ starts <= 1 /\ req[c].read = "deployment_plan" => g.type = "deployment_plan"
       /\ starts <= 1 /\ req[c].read = "deployment_plan" /\ req[c].kind = "approve"
            /\ req[c].pc # "decide" => DeploymentGate \in granted
  /\ DeploymentNeedsApproval

LifeInv == TypeOK /\ ThreadInv /\ GateInv /\ RoundInv /\ RequestInv

-----------------------------------------------------------------------------
(***************************************************************************)
(* The graph's routes, read backwards                                      *)
(***************************************************************************)
USE DEF RequirementsGate, ArchitectureGate, DeploymentGate

LEMMA NodesNamed == "none" \notin Nodes /\ "end" \notin Nodes
BY DEF Nodes, Gates

\* Every node leads to a node or to the end.
LEMMA RouteTyped ==
  ASSUME NEW n \in Nodes, NEW s \in Threads
  PROVE  Route(n, s) \in Nodes \union {"end"}
BY DEF Route, RouteReview, RouteDeployment, Nodes, Gates

\* Which nodes lead to a node, and on which values of the thread.
LEMMA Arrivals ==
  ASSUME NEW n \in Nodes, NEW s \in Threads
  PROVE  /\ Route(n, s) # "project_intake"
         /\ Route(n, s) = "requirements_phase" =>
              n \in {"project_intake", "requirements_revision"}
         /\ Route(n, s) \in {"requirements_revision", "architecture_revision"} =>
              n \in Reviews /\ s.round < MaxRounds /\ s.approval = "rejected"
         /\ Route(n, s) = "architecture_phase" =>
              \/ n = RequirementsGate /\ s.approval = "approved"
              \/ n = "architecture_revision"
         /\ Route(n, s) = "project_structure" =>
              n = ArchitectureGate /\ s.approval = "approved"
         /\ Route(n, s) = "execute_deployment" =>
              n = DeploymentGate /\ s.approval = "approved"
BY DEF Route, RouteReview, RouteDeployment, Nodes, Gates, Reviews

\* A route on a thread is one on its approval and its round.
LEMMA RouteReads ==
  ASSUME NEW n \in Nodes, NEW s \in Threads, NEW t \in Threads,
         s.round = t.round, s.approval = t.approval
  PROVE  Route(n, s) = Route(n, t)
BY DEF Route, RouteReview, RouteDeployment

\* Only a gate asks for a decision, and it stays where it is only without one.
LEMMA RouteWaits ==
  ASSUME LifecycleConstants, NEW n \in Nodes, NEW s \in Threads, NEW t \in Threads
  PROVE  /\ n \notin Gates => Route(n, s) = Route(n, t)
         /\ n \in Gates /\ s.approval \in {"approved", "rejected"} => Route(n, s) \notin Gates
         /\ n \in Gates /\ s.approval = "pending" => Route(n, s) \in {n, "max_revisions"}
         /\ n \in Gates /\ Route(n, s) \in Gates => Route(n, s) = n
         /\ n \in Gates => Route(n, s) \notin {"end", "project_intake"}
         /\ n \in Reviews /\ Route(n, s) = n => s.round < MaxRounds
         /\ n \in Reviews /\ s.approval = "rejected" =>
              Route(n, s) \in {"max_revisions", "requirements_revision",
                               "architecture_revision"}
         /\ n = DeploymentGate /\ s.approval = "pending" => Route(n, s) = n
         /\ n \in Reviews /\ s.approval = "pending" /\ s.round < MaxRounds => Route(n, s) = n
<1>0. /\ s.round >= MaxRounds \/ s.round < MaxRounds
      /\ ~(s.round >= MaxRounds /\ s.round < MaxRounds)
  BY DEF Threads, LifecycleConstants
<1>1. CASE n \notin Gates
  BY <1>1 DEF Route, Nodes, Gates, Reviews
<1>2. CASE n \in Reviews
  BY <1>0, <1>2 DEF Route, RouteReview, Gates, Reviews
<1>3. CASE n = DeploymentGate
  BY <1>3 DEF Route, RouteDeployment, Gates, Reviews
<1> QED BY <1>1, <1>2, <1>3 DEF Gates, Reviews

\* What a node does to the thread: it is one field after another, each of its type.
LEMMA PhaseTyped ==
  ASSUME NEW s \in Threads, NEW p \in 0 .. 10,
         NEW u \in {"running", "completed", "failed"}
  PROVE  /\ Phase(s, p, u) \in Threads
         /\ \A m \in Subjects : Queue(Phase(s, p, u), m) \in Threads
BY DEF Phase, Queue, Threads

LEMMA RunTyped ==
  ASSUME LifecycleConstants, NEW n \in Nodes, NEW s \in Threads,
         n \in {"requirements_revision", "architecture_revision"} => s.round < MaxRounds
  PROVE  Run(n, s) \in Threads
<1>0. MaxRounds \in Nat
  BY DEF LifecycleConstants
<1>1. CASE n = "project_intake"
  <2>1. Queue(Phase(s, 1, "completed"), "manager.project.created") \in Threads
    BY PhaseTyped DEF Subjects
  <2>2. \A t \in Threads : [t EXCEPT !.round = 0, !.awaiting = FALSE] \in Threads
    <3>1. 0 \in 0 .. MaxRounds
      BY <1>0
    <3> QED BY <3>1 DEF Threads
  <2> QED BY <1>1, <2>1, <2>2 DEF Run
<1>2. CASE n \in Gates
  BY <1>2 DEF Run, Gates, Gate, Threads, ArtifactTypes
<1>3. CASE n \in {"requirements_revision", "architecture_revision"}
  <2>1. s.round + 1 \in 0 .. MaxRounds
    BY <1>0, <1>3 DEF Threads
  <2>2. Run(n, s) = Revision(s)
    BY <1>3 DEF Run
  <2> QED BY <2>1, <2>2 DEF Revision, Threads, Subjects
<1>4. CASE n \in {"max_revisions", "handle_failure"}
  <2>1. s.phase \in 0 .. 10
    BY DEF Threads
  <2> QED BY <1>4, <2>1, PhaseTyped DEF Run, Subjects
<1>5. CASE n \in Nodes \ ({"project_intake", "requirements_revision", "architecture_revision",
                          "max_revisions", "handle_failure"} \union Gates)
  BY <1>5, PhaseTyped DEF Run, Nodes, Gates, Subjects
<1> QED BY <1>1, <1>2, <1>3, <1>4, <1>5 DEF Gates

\* One node, as the invariant sees it.
LEMMA RunMoves ==
  ASSUME NEW n \in Nodes, NEW s \in Threads
  PROVE  /\ Run(n, s).approval =
              IF n \in {"requirements_revision", "architecture_revision"}
              THEN "none" ELSE s.approval
         /\ Run(n, s).round =
              CASE n = "project_intake" -> 0
                [] n \in {"requirements_revision", "architecture_revision"} -> s.round + 1
                [] OTHER -> s.round
         /\ Run(n, s).type =
              CASE n = RequirementsGate -> "requirements"
                [] n = ArchitectureGate -> "architecture"
                [] n = DeploymentGate -> "deployment_plan"
                [] OTHER -> s.type
<1>1. CASE n \in Gates
  <2>1. \E t \in ArtifactTypes :
          /\ Run(n, s) = Gate(s, t)
          /\ t = CASE n = RequirementsGate -> "requirements"
                   [] n = ArchitectureGate -> "architecture"
                   [] OTHER -> "deployment_plan"
    BY <1>1 DEF Run, Gates, ArtifactTypes
  <2> QED BY <1>1, <2>1 DEF Gates, Gate, Threads
<1>2. CASE n \in {"requirements_revision", "architecture_revision"}
  <2>1. Run(n, s) = Revision(s)
    BY <1>2 DEF Run
  <2> QED BY <1>2, <2>1 DEF Revision, Threads
<1>3. CASE n \in Nodes \ ({"requirements_revision", "architecture_revision"} \union Gates)
  BY <1>3 DEF Run, Phase, Queue, Threads, Nodes, Gates
<1> QED BY <1>1, <1>2, <1>3

LEMMA RunPhase ==
  ASSUME NEW n \in Nodes, NEW s \in Threads, NEW l \in Nodes \union {"none"},
         s.phase \in PhasesAfter(l),
         l = "none" => n = "project_intake",
         l # "none" => n = Route(l, s)
  PROVE  Run(n, s).phase \in PhasesAfter(n)
<1>1. CASE n = RequirementsGate
  <2>1. l \in {"requirements_phase", RequirementsGate}
    BY <1>1 DEF Route, RouteReview, RouteDeployment, Nodes, Gates
  <2> QED BY <1>1, <2>1 DEF Run, Gate, PhasesAfter, Threads
<1>2. CASE n = ArchitectureGate
  <2>1. l \in {"architecture_phase", ArchitectureGate}
    BY <1>2 DEF Route, RouteReview, RouteDeployment, Nodes, Gates
  <2> QED BY <1>2, <2>1 DEF Run, Gate, PhasesAfter, Threads
<1>3. CASE n = DeploymentGate
  <2>1. l \in {"deployment_phase", DeploymentGate}
    BY <1>3 DEF Route, RouteReview, RouteDeployment, Nodes, Gates
  <2> QED BY <1>3, <2>1 DEF Run, Gate, PhasesAfter, Threads
<1>4. CASE n = "requirements_revision"
  <2>1. l = RequirementsGate
    BY <1>4 DEF Route, RouteReview, RouteDeployment, Nodes, Gates
  <2> QED BY <1>4, <2>1 DEF Run, Revision, PhasesAfter, Threads
<1>5. CASE n = "architecture_revision"
  <2>1. l = ArchitectureGate
    BY <1>5 DEF Route, RouteReview, RouteDeployment, Nodes, Gates
  <2> QED BY <1>5, <2>1 DEF Run, Revision, PhasesAfter, Threads
<1>6. CASE n \in Ending
  <2>1. l \in Reviews \union {"max_revisions"}
    BY <1>6 DEF Route, RouteReview, RouteDeployment, Nodes, Gates, Ending, Reviews
  <2> QED BY <1>6, <2>1 DEF Run, Phase, Queue, PhasesAfter, Threads, Ending, Reviews
<1>7. CASE n \in Nodes \ (Gates \union Ending
                          \union {"requirements_revision", "architecture_revision"})
  BY <1>7 DEF Run, Phase, Queue, PhasesAfter, Threads, Nodes, Gates, Ending
<1> QED BY <1>1, <1>2, <1>3, <1>4, <1>5, <1>6, <1>7 DEF Gates

\* The phase passes 3 and 4 at two nodes only.
LEMMA RunPasses ==
  ASSUME NEW n \in Nodes, NEW s \in Threads, NEW l \in Nodes \union {"none"},
         s.phase \in PhasesAfter(l),
         l = "none" => n = "project_intake",
         l # "none" => n = Route(l, s)
  PROVE  /\ Run(n, s).phase >= 3 => s.phase >= 3 \/ n = "architecture_phase"
         /\ Run(n, s).phase >= 4 => s.phase >= 4 \/ n = "project_structure"
<1>0. s.phase \in 0 .. 10
  BY DEF Threads
<1>1. CASE n \in Gates
  BY <1>0, <1>1 DEF Run, Gates, Gate, Threads
<1>2. CASE n \in {"requirements_revision", "architecture_revision"}
  BY <1>0, <1>2 DEF Run, Revision, Threads
<1>3. CASE n \in Ending
  BY <1>0, <1>3 DEF Run, Phase, Queue, Threads, Ending
<1>4. CASE n \in {"project_intake", "requirements_phase", "architecture_phase"}
  BY <1>0, <1>4 DEF Run, Phase, Queue, Threads
<1>5. CASE n \in {"implementation_phase", "validation_phase", "deployment_phase",
                 "execute_deployment", "monitoring_phase", "project_complete"}
  <2>1. l \in {"project_structure", "implementation_phase", "validation_phase",
              DeploymentGate, "execute_deployment", "monitoring_phase"}
    BY <1>5 DEF Route, RouteReview, RouteDeployment, Nodes, Gates
  <2>2. s.phase >= 4
    BY <2>1 DEF PhasesAfter
  <2> QED BY <1>0, <2>2
<1>6. CASE n = "project_structure"
  <2>1. l = ArchitectureGate
    BY <1>6 DEF Route, RouteReview, RouteDeployment, Nodes, Gates
  <2>2. s.phase = 3
    BY <2>1 DEF PhasesAfter
  <2> QED BY <1>6, <2>2
<1> QED BY <1>1, <1>2, <1>3, <1>4, <1>5, <1>6 DEF Gates, Nodes, Ending

\* A step of the graph: the node ran, and the thread stands where it leads.
LEMMA NodeMoves ==
  ASSUME LifecycleConstants, TypeOK, ThreadInv, NodeStep
  PROVE  /\ g.next \in Nodes
         /\ g.last = "none" => g.next = "project_intake"
         /\ g.last # "none" => g.last \in Nodes /\ g.next = Route(g.last, g)
         /\ g' \in Threads
         /\ g'.last = g.next
         /\ g'.next = Route(g.next, g')
         /\ g'.approval = Run(g.next, g).approval
         /\ g'.round = Run(g.next, g).round
         /\ g'.type = Run(g.next, g).type
         /\ g'.phase = Run(g.next, g).phase
<1> DEFINE s == Run(g.next, g)
<1>1. g \in Threads /\ g.next \in Nodes
  BY DEF TypeOK, NodeStep
<1>2. /\ g.last = "none" => g.next = "project_intake"
      /\ g.last # "none" => g.last \in Nodes /\ g.next = Route(g.last, g)
  BY <1>1 DEF ThreadInv, Nodes, Gates, Threads
<1>3. g.next \in {"requirements_revision", "architecture_revision"} => g.round < MaxRounds
  BY <1>1, <1>2, Arrivals
<1>4. s \in Threads
  BY <1>1, <1>3, RunTyped
<1>5. Route(g.next, s) \in Nodes \union {"end"}
  BY <1>1, <1>4, RouteTyped
<1>6. g' = [s EXCEPT !.next = Route(g.next, s), !.last = g.next]
  BY DEF NodeStep
<1>7. /\ g' \in Threads
      /\ g'.last = g.next /\ g'.next = Route(g.next, s)
      /\ g'.approval = s.approval /\ g'.round = s.round
      /\ g'.type = s.type /\ g'.phase = s.phase
  <2> HIDE DEF s
  <2> QED BY <1>1, <1>4, <1>5, <1>6 DEF Threads
<1>8. Route(g.next, s) = Route(g.next, g')
  <2> HIDE DEF s
  <2> QED BY <1>1, <1>4, <1>7, RouteReads
<1> QED BY <1>1, <1>2, <1>7, <1>8

-----------------------------------------------------------------------------
(***************************************************************************)
(* Every action keeps the invariant                                        *)
(***************************************************************************)
LEMMA NodeKeeps ==
  ASSUME LifecycleConstants, LifeInv, NodeStep
  PROVE  LifeInv'
<1> USE DEF LifeInv
<1>1. TypeOK'
  BY NodeMoves DEF TypeOK, NodeStep, history, counts
<1>2. ThreadInv'
  <2>1. g'.phase \in PhasesAfter(g'.last)
    BY NodeMoves, RunPhase DEF TypeOK, ThreadInv, Threads
  <2>2. g'.next # "none" /\ g'.last # "none"
    BY NodeMoves, RouteTyped DEF Nodes, Gates
  <2> QED BY <2>1, <2>2, NodeMoves DEF ThreadInv, NodeStep
<1>3. GateInv'
  <2>0. granted' = granted /\ ~resumed'
    BY DEF NodeStep, history
  <2>1. g'.last \in Gates /\ g'.approval = "approved" => g'.last \in granted
    BY NodeMoves, RunMoves DEF GateInv, NodeStep, Gates, InterruptBefore, TypeOK
  <2>2. PhasesNeedApproval'
    <3>1. g.next = "architecture_phase" => RequirementsGate \in granted
      BY NodeMoves, Arrivals DEF GateInv, Gates, PhasesNeedApproval, ThreadInv, TypeOK,
                                 PhasesAfter
    <3>2. g.next = "project_structure" => ArchitectureGate \in granted
      BY NodeMoves, Arrivals DEF GateInv, Gates, TypeOK
    <3>3. g.next = "execute_deployment" => DeploymentGate \in granted
      BY NodeMoves, Arrivals DEF GateInv, Gates, TypeOK
    <3>4. /\ g'.phase >= 3 => g.phase >= 3 \/ g.next = "architecture_phase"
          /\ g'.phase >= 4 => g.phase >= 4 \/ g.next = "project_structure"
      BY NodeMoves, RunPasses DEF TypeOK, ThreadInv
    <3>5. g'.last \in {"execute_deployment", "monitoring_phase", "project_complete"} =>
            DeploymentGate \in granted
      <4>1. g.next \in {"monitoring_phase", "project_complete"} =>
              g.last \in {"execute_deployment", "monitoring_phase"}
        BY NodeMoves DEF Route, RouteReview, RouteDeployment, Nodes, Gates
      <4>2. g.last \in {"execute_deployment", "monitoring_phase"} => DeploymentGate \in granted
        BY DEF GateInv, PhasesNeedApproval
      <4>3. g'.last = g.next
        BY NodeMoves
      <4> QED BY <3>3, <4>1, <4>2, <4>3
    <3>6. /\ g.phase >= 3 => RequirementsGate \in granted
          /\ g.phase >= 4 => ArchitectureGate \in granted
      BY DEF GateInv, PhasesNeedApproval
    <3>7. /\ g'.phase >= 3 => RequirementsGate \in granted'
          /\ g'.phase >= 4 => ArchitectureGate \in granted'
      BY <2>0, <3>1, <3>2, <3>4, <3>6
    <3>8. g'.last \in {"execute_deployment", "monitoring_phase", "project_complete"} =>
            DeploymentGate \in granted'
      BY <2>0, <3>5
    <3> QED BY <3>7, <3>8 DEF PhasesNeedApproval
  <2> QED BY <2>0, <2>1, <2>2 DEF GateInv
<1>4. RoundInv'
  <2> SUFFICES ASSUME crashes = 0 PROVE RoundInv'
    BY DEF RoundInv, NodeStep, counts
  <2>1. /\ executing' # Nobody /\ refused' = refused /\ crashes' = crashes
        /\ ~resumed' /\ (g.next \in Gates => resumed)
        /\ refused \in Nat /\ g.round \in 0 .. MaxRounds /\ MaxRounds \in Nat
    BY DEF NodeStep, history, counts, InterruptBefore, TypeOK, Threads, LifecycleConstants
  <2>2. g'.next # "project_intake"
    BY NodeMoves, Arrivals
  <2>3. CASE g.next = "project_intake"
    BY <2>1, <2>2, <2>3, NodeMoves, RunMoves DEF RoundInv, TypeOK
  <2>4. CASE g.next \in Reviews
    <3>1. /\ g'.round = g.round /\ g'.approval = g.approval
      BY <2>4, NodeMoves, RunMoves DEF TypeOK, Reviews
    <3>2. g.approval = "rejected" =>
            g'.next \in {"max_revisions", "requirements_revision", "architecture_revision"}
      BY <2>1, <2>4, <3>1, NodeMoves DEF Route, RouteReview, Reviews
    <3> QED BY <2>1, <2>2, <2>4, <3>1, <3>2
            DEF RoundInv, Owed, Reviews, Ending
  <2>5. CASE g.next \in {"requirements_revision", "architecture_revision"}
    <3>1. g'.round = g.round + 1
      BY <2>5, NodeMoves, RunMoves DEF TypeOK
    <3> QED BY <2>1, <2>2, <2>5, <3>1 DEF RoundInv, Owed, Reviews, Ending
  <2>6. CASE g.next \in Ending
    <3>1. g'.next \in Ending \union {"end"}
      BY <2>6, NodeMoves DEF Route, Ending
    <3> QED BY <2>1, <2>2, <3>1 DEF RoundInv, Ending
  <2>7. CASE g.next \notin Reviews \union Ending \union
               {"project_intake", "requirements_revision", "architecture_revision"}
    <3>1. g'.round = g.round
      BY <2>7, NodeMoves, RunMoves DEF TypeOK
    <3> QED BY <2>1, <2>2, <2>7, <3>1, NodeMoves DEF RoundInv, Owed, Ending, Nodes, Gates
  <2> QED BY <2>3, <2>4, <2>5, <2>6, <2>7
<1>5. RequestInv'
  <2>1. UNCHANGED <<req, starts, ran, granted>>
    BY DEF NodeStep, history, counts
  <2>2. g # NoThread /\ g' # NoThread /\ starts # 0
    BY NodeMoves, NodesNamed DEF RequestInv, NoThread
  <2>3. g.type = "deployment_plan" =>
          g'.type = "deployment_plan" /\ g.next \in Deploying
    <3>1. g.last \in Deploying => g.next \in Deploying \union {"end"}
      BY NodeMoves DEF Route, RouteDeployment, Deploying
    <3>2. g.type = "deployment_plan" => g.next \in Deploying
      BY <3>1, NodeMoves DEF RequestInv, Nodes, Gates
    <3>3. g.next \in Deploying /\ g.type = "deployment_plan" => g'.type = "deployment_plan"
      BY NodeMoves, RunMoves DEF Deploying, TypeOK
    <3> QED BY <3>2, <3>3
  <2>4. g'.type = "deployment_plan" => g'.last \in Deploying
    BY <2>3, NodeMoves, RunMoves DEF Deploying, TypeOK
  <2> QED BY <2>1, <2>2, <2>3, <2>4 DEF RequestInv, DeploymentNeedsApproval
<1> QED BY <1>1, <1>2, <1>3, <1>4, <1>5

\* An invocation ends where the graph pauses or stops.
LEMMA ReturnKeeps ==
  ASSUME LifecycleConstants, LifeInv, InvokeReturns
  PROVE  LifeInv'
<1> USE DEF LifeInv
<1>1. executing \in Callers /\ req[executing] \in Requests /\ g.nats \in Subjects
  BY DEF InvokeReturns, TypeOK, Threads
<1>2. /\ req' \in [Callers -> Requests]
      /\ req'[executing].pc = "flush"
      /\ req'[executing].kind = req[executing].kind
      /\ req'[executing].read = req[executing].read
      /\ \A c \in Callers \ {executing} : req'[c] = req[c]
  BY <1>1 DEF InvokeReturns, TypeOK, Requests
<1>3. UNCHANGED <<g, history, counts>> /\ executing' = Nobody /\ resumed' = FALSE
  BY DEF InvokeReturns
<1>4. TypeOK'
  <2>1. \A c \in Callers : req'[c].pc = "invoke" <=> executing' = c
    BY <1>1, <1>2, <1>3 DEF TypeOK, LifecycleConstants
  <2> QED BY <1>2, <1>3, <2>1 DEF TypeOK, history, counts
<1>5. ThreadInv' /\ GateInv'
  BY <1>3 DEF ThreadInv, GateInv, PhasesNeedApproval, history
<1>6. RoundInv'
  BY <1>3 DEF RoundInv, Owed, InvokeReturns, InterruptBefore, history, counts, Gates, Reviews
<1>7. RequestInv'
  <2>1. req[executing].pc = "invoke"
    BY <1>1 DEF TypeOK
  <2>2. req[executing] # NoRequest
    BY <2>1 DEF NoRequest
  <2>3. starts # 0 /\ g # NoThread
    BY <1>1, <2>2 DEF RequestInv
  <2> QED BY <1>1, <1>2, <1>3, <2>1, <2>3
          DEF RequestInv, DeploymentNeedsApproval, history, counts
<1> QED BY <1>4, <1>5, <1>6, <1>7

\* A project that starts, over or for the first time.
LEMMA StartKeeps ==
  ASSUME LifecycleConstants, LifeInv, NEW c \in Callers, StartProject(c)
  PROVE  LifeInv'
<1> USE DEF LifeInv
<1>1. CASE ~Executable
  BY <1>1 DEF StartProject, TypeOK, ThreadInv, GateInv, PhasesNeedApproval, RoundInv, Owed,
         RequestInv, DeploymentNeedsApproval, history
<1>2. CASE Executable
  <2> DEFINE t == [NoThread EXCEPT !.next = "project_intake", !.status = "pending"]
             r == [[NoRequest EXCEPT !.kind = "start"] EXCEPT !.pc = "invoke"]
  <2>1. /\ g' = t /\ req' = [req EXCEPT ![c] = r] /\ executing' = c /\ executing = Nobody
        /\ ran' = {} /\ granted' = {} /\ refused' = 0 /\ starts' = starts + 1
        /\ UNCHANGED <<resumed, decisions, crashes>> /\ req[c].pc = "idle"
    BY <1>2 DEF StartProject, Enters, At, Free
  <2>2. /\ t \in Threads /\ t.next = "project_intake" /\ t.last = "none" /\ t.type = "none"
        /\ t.phase = 0 /\ t.approval = "none" /\ t.round = 0
    <3>1. 0 \in 0 .. MaxRounds
      BY DEF LifecycleConstants
    <3>2. NoThread \in Threads /\ NoThread.last = "none" /\ NoThread.type = "none"
          /\ NoThread.phase = 0 /\ NoThread.approval = "none" /\ NoThread.round = 0
      BY <3>1 DEF NoThread, Threads, ArtifactTypes, Subjects
    <3> QED BY <3>2 DEF Threads, Nodes
  <2>3. r \in Requests /\ r.pc = "invoke" /\ r.kind = "start" /\ r.read = "none"
    BY DEF NoRequest, Requests, ArtifactTypes, Subjects
  <2> HIDE DEF t, r
  <2>4. /\ req' \in [Callers -> Requests] /\ req'[c] = r
        /\ \A d \in Callers \ {c} : req'[d] = req[d] /\ req[d].pc # "invoke"
    BY <2>1, <2>3 DEF TypeOK, LifecycleConstants
  <2>5. starts \in Nat /\ starts' \in Nat
    BY <2>1 DEF TypeOK
  <2>6. TypeOK'
    <3>1. \A d \in Callers : req'[d].pc = "invoke" <=> executing' = d
      BY <2>1, <2>3, <2>4
    <3> QED BY <2>1, <2>2, <2>4, <2>5, <3>1 DEF TypeOK
  <2>7. ThreadInv' /\ GateInv' /\ RoundInv'
    BY <2>1, <2>2 DEF ThreadInv, GateInv, PhasesNeedApproval, RoundInv, PhasesAfter, Gates
  <2>8. RequestInv'
    <3>1. starts' <= 1 => starts = 0
      BY <2>1, <2>5
    <3>2. starts = 0 => \A d \in Callers : req[d] = NoRequest /\ req[d].read = "none"
                                           /\ req[d].pc = "idle"
      BY DEF RequestInv, NoRequest
    <3>3. g' # NoThread
      BY <2>1, <2>2 DEF NoThread
    <3> QED BY <2>1, <2>2, <2>3, <2>4, <2>5, <3>1, <3>2, <3>3
            DEF RequestInv, DeploymentNeedsApproval
  <2> QED BY <2>6, <2>7, <2>8
<1> QED BY <1>1, <1>2 DEF StartProject, LifecycleConstants

\* A decision writes the thread and routes it again from its last node.
LEMMA UpdateMoves ==
  ASSUME TypeOK, ThreadInv, g # NoThread, NEW s \in Threads,
         s.last = g.last, s.next = g.next
  PROVE  /\ UpdateState(s) \in Threads
         /\ g.last # "none" => g.last \in Nodes /\ UpdateState(s).next = Route(g.last, s)
         /\ g.last = "none" => UpdateState(s).next = g.next
         /\ UpdateState(s).last = g.last
         /\ UpdateState(s).approval = s.approval
         /\ UpdateState(s).round = s.round
         /\ UpdateState(s).type = s.type
         /\ UpdateState(s).phase = s.phase
         /\ UpdateState(s).next # "none"
<1>1. g \in Threads /\ s \in Threads
  BY DEF TypeOK
<1>2. g.last # "none" => g.last \in Nodes /\ Route(g.last, s) \in Nodes \union {"end"}
  BY <1>1, RouteTyped DEF Threads
<1>3. g.last = "none" => UpdateState(s) = s /\ g.next # "none"
  BY DEF UpdateState, ThreadInv
<1>4. g.last # "none" => UpdateState(s) = [s EXCEPT !.next = Route(g.last, s)]
  BY DEF UpdateState
<1> QED BY <1>1, <1>2, <1>3, <1>4 DEF Threads, Nodes, Gates

\* A thread that a decision can find is in one of the graph's nodes, or at its end.
LEMMA Decidable ==
  ASSUME LifeInv, g # NoThread
  PROVE  g.next \in Nodes \union {"end"} /\ starts # 0
BY DEF LifeInv, TypeOK, ThreadInv, RequestInv, Threads

\* A request that enters the graph alone is inside it.
LEMMA EntersTyped ==
  ASSUME TypeOK, LifecycleConstants, Free, NEW c \in Callers, NEW r \in Requests, Enters(c, r)
  PROVE  /\ req' \in [Callers -> Requests]
         /\ executing' \in Callers \union {Nobody}
         /\ \A d \in Callers : req'[d].pc = "invoke" <=> executing' = d
         /\ \A d \in Callers \ {c} : req'[d] = req[d]
         /\ req'[c] = [r EXCEPT !.pc = "invoke"]
<1>1. [r EXCEPT !.pc = "invoke"] \in Requests /\ [r EXCEPT !.pc = "invoke"].pc = "invoke"
  BY DEF Requests
<1>2. \A d \in Callers : req[d].pc # "invoke"
  BY DEF TypeOK, Free, LifecycleConstants
<1> QED BY <1>1, <1>2 DEF TypeOK, Enters

LEMMA InjectKeeps ==
  ASSUME LifecycleConstants, LifeInv, NEW c \in Callers, InjectApproval(c)
  PROVE  LifeInv'
<1> USE DEF LifeInv
<1> DEFINE s == [g EXCEPT !.approval = "approved", !.awaiting = FALSE, !.round = 0]
           r == [req[c] EXCEPT !.paused = g.next]
<1>1. /\ Free /\ req[c].pc = "decide" /\ g' = UpdateState(s) /\ Enters(c, r)
      /\ resumed' = TRUE /\ ran' = ran /\ refused' = 0
      /\ granted' = granted \union ({g.next, g.last} \intersect Gates) /\ UNCHANGED counts
  BY DEF InjectApproval, At, Resume
<1>2. g \in Threads /\ s \in Threads /\ s.last = g.last /\ s.next = g.next
      /\ s.approval = "approved" /\ s.round = 0 /\ s.type = g.type /\ s.phase = g.phase
  <2>1. 0 \in 0 .. MaxRounds
    BY DEF LifecycleConstants
  <2> QED BY <2>1 DEF TypeOK, Threads
<1>3. r \in Requests /\ r.kind = "approve" /\ r.read = req[c].read
  <2>1. req[c] \in Requests /\ req[c].kind = "approve"
    BY <1>1 DEF TypeOK, RequestInv
  <2> QED BY <2>1, <1>2 DEF Requests, Threads
<1>4. g # NoThread
  BY <1>1 DEF RequestInv, NoRequest
<1> HIDE DEF s, r
<1>5. TypeOK'
  <2>1. g' \in Threads
    BY <1>1, <1>2, <1>4, UpdateMoves
  <2>2. granted' \subseteq Gates
    BY <1>1 DEF TypeOK
  <2>3. /\ req' \in [Callers -> Requests]
        /\ executing' \in Callers \union {Nobody}
        /\ \A d \in Callers : req'[d].pc = "invoke" <=> executing' = d
    BY <1>1, <1>3, EntersTyped
  <2> QED BY <1>1, <2>1, <2>2, <2>3 DEF TypeOK, counts
<1>6. ThreadInv'
  BY <1>1, <1>2, <1>4, <1>5, UpdateMoves, RouteReads, EntersTyped
     DEF ThreadInv, TypeOK, Enters, LifecycleConstants
<1>7. GateInv'
  <2>1. g'.next \in Gates => g'.next = g.next
    BY <1>1, <1>2, <1>4, UpdateMoves, RouteWaits DEF ThreadInv
  <2>2. PhasesNeedApproval'
    BY <1>1, <1>2, <1>4, UpdateMoves DEF GateInv, PhasesNeedApproval
  <2> QED BY <1>1, <1>2, <1>4, <2>1, <2>2, UpdateMoves DEF GateInv
<1>8. RoundInv'
  BY <1>1, <1>2, <1>4, UpdateMoves DEF RoundInv, LifecycleConstants, Enters, Threads
<1>9. RequestInv'
  <2>1. g.type = "deployment_plan" => DeploymentGate \in granted'
    BY <1>1 DEF RequestInv, Deploying, ThreadInv, Route, Gates, GateInv, PhasesNeedApproval
  <2>2. req'[c] = [r EXCEPT !.pc = "invoke"] /\ \A d \in Callers \ {c} : req'[d] = req[d]
    BY <1>1, <1>3, EntersTyped
  <2>3. g' # NoThread /\ starts' # 0 /\ g'.type = g.type /\ g'.last = g.last
    BY <1>1, <1>2, <1>4, UpdateMoves DEF RequestInv, NoThread, counts
  <2>4. req'[c].pc = "invoke" /\ req'[c].kind = "approve" /\ req'[c].read = req[c].read
    BY <1>3, <2>2 DEF Requests
  <2>5. granted \subseteq granted' /\ ran' = ran /\ starts' = starts
    BY <1>1 DEF counts
  <2>6. starts <= 1 /\ req[c].read = "deployment_plan" => DeploymentGate \in granted'
    BY <2>1 DEF RequestInv
  <2>7. DeploymentNeedsApproval'
    BY <2>5 DEF RequestInv, DeploymentNeedsApproval
  <2>8. \A d \in Callers :
          /\ req'[d].pc = "decide" => req'[d].kind = "approve"
          /\ req'[d].pc = "pipeline" /\ req'[d].kind # "start" =>
               req'[d].kind = "approve" /\ req'[d].read # "none"
          /\ starts <= 1 /\ req'[d].read = "deployment_plan" => g.type = "deployment_plan"
          /\ starts <= 1 /\ req'[d].read = "deployment_plan" /\ req'[d].kind = "approve"
               /\ req'[d].pc # "decide" => DeploymentGate \in granted'
    <3> TAKE d \in Callers
    <3>1. CASE d = c
      BY <2>4, <2>6, <3>1 DEF RequestInv
    <3>2. CASE d # c
      BY <2>2, <2>5, <3>2 DEF RequestInv
    <3> QED BY <3>1, <3>2
  <2> QED BY <2>3, <2>5, <2>7, <2>8 DEF RequestInv
<1> QED BY <1>5, <1>6, <1>7, <1>8, <1>9

LEMMA RejectKeeps ==
  ASSUME LifecycleConstants, LifeInv, NEW c \in Callers, RejectArtifact(c)
  PROVE  LifeInv'
<1> USE DEF LifeInv
<1> DEFINE s == [g EXCEPT !.approval = "rejected", !.awaiting = FALSE]
           r == [[NoRequest EXCEPT !.kind = "reject", !.read = g.type] EXCEPT !.paused = g.next]
<1>1. /\ Free /\ req[c].pc = "idle" /\ g # NoThread
      /\ g' = UpdateState(s) /\ Enters(c, r)
      /\ resumed' = TRUE /\ UNCHANGED <<ran, granted, starts, crashes>>
      /\ decisions' = decisions + 1
      /\ refused' = refused + (IF g.next \in Reviews THEN 1 ELSE 0)
  BY DEF RejectArtifact, Asked, At, Resume, Reviews
<1>2. /\ g \in Threads /\ s \in Threads /\ s.last = g.last /\ s.next = g.next
      /\ s.approval = "rejected" /\ s.round = g.round /\ s.type = g.type /\ s.phase = g.phase
  BY DEF TypeOK, Threads
<1>3. r \in Requests /\ r.kind = "reject" /\ r.read = g.type
  BY <1>2 DEF NoRequest, Requests, Threads, ArtifactTypes, Subjects
<1> HIDE DEF s, r
<1>4. TypeOK'
  <2>1. g' \in Threads
    BY <1>1, <1>2, UpdateMoves
  <2>2. /\ req' \in [Callers -> Requests]
        /\ executing' \in Callers \union {Nobody}
        /\ \A d \in Callers : req'[d].pc = "invoke" <=> executing' = d
    BY <1>1, <1>3, EntersTyped
  <2>3. {refused', starts', decisions', crashes'} \subseteq Nat
    BY <1>1 DEF TypeOK
  <2> QED BY <1>1, <2>1, <2>2, <2>3 DEF TypeOK
<1>5. ThreadInv'
  BY <1>1, <1>2, <1>4, UpdateMoves, RouteReads, EntersTyped
     DEF ThreadInv, TypeOK, Enters, LifecycleConstants
<1>6. GateInv'
  BY <1>1, <1>2, UpdateMoves DEF GateInv, PhasesNeedApproval
<1>7. RoundInv'
  <2> SUFFICES ASSUME crashes = 0 PROVE RoundInv'
    BY <1>1 DEF RoundInv
  <2>1. executing' # Nobody
    BY <1>1 DEF Enters, LifecycleConstants
  <2>2. g.next \in Gates \union {"end"} /\ ~resumed
    BY <1>1 DEF RoundInv, Free, ThreadInv
  <2>3. g.last \in Nodes /\ g.next = Route(g.last, g) /\ g'.next = Route(g.last, s)
    BY <1>1, <1>2, <2>2, UpdateMoves DEF ThreadInv, Gates
  <2>4. g'.next # "project_intake"
    BY <1>2, <2>3, Arrivals
  <2>5. g.next = "end" => g'.next = "end"
    BY <1>2, <2>3, RouteWaits
  <2>6. g.next # "end" => refused <= g.round
    BY <2>2 DEF RoundInv, Owed, Reviews, Ending, Gates
  <2>7. g.next \in Reviews =>
          \/ g'.next = g.next
          \/ g'.next \in {"max_revisions", "requirements_revision", "architecture_revision"}
    BY <1>2, <2>3, RouteWaits DEF Reviews, Gates
  <2>8. g'.round = g.round /\ g'.approval = "rejected"
    BY <1>1, <1>2, UpdateMoves
  <2>9. refused \in Nat /\ g.round \in Nat
    BY <1>2 DEF TypeOK, Threads
  <2>10. CASE g.next \in Reviews
    BY <1>1, <2>1, <2>4, <2>6, <2>7, <2>8, <2>9, <2>10 DEF RoundInv, Owed, Reviews, Ending
  <2>11. CASE g.next \notin Reviews
    BY <1>1, <2>1, <2>4, <2>5, <2>6, <2>8, <2>9, <2>11 DEF RoundInv
  <2> QED BY <2>10, <2>11
<1>8. RequestInv'
  <2>1. g' # NoThread /\ starts' # 0 /\ g'.type = g.type /\ g'.last = g.last
    <3>1. g'.next # "none" /\ g'.type = g.type /\ g'.last = g.last
      BY <1>1, <1>2, UpdateMoves
    <3>2. starts # 0
      BY <1>1 DEF RequestInv
    <3> QED BY <1>1, <3>1, <3>2 DEF NoThread
  <2>2. req'[c].pc = "invoke" /\ req'[c].kind = "reject" /\ req'[c].read = g.type
    <3>1. req'[c] = [r EXCEPT !.pc = "invoke"]
      BY <1>1, <1>3, EntersTyped
    <3> QED BY <1>3, <3>1 DEF Requests
  <2>3. \A d \in Callers \ {c} : req'[d] = req[d]
    BY <1>1, <1>3, EntersTyped
  <2>4. \A d \in Callers :
          /\ req'[d].pc = "decide" => req'[d].kind = "approve"
          /\ req'[d].pc = "pipeline" /\ req'[d].kind # "start" =>
               req'[d].kind = "approve" /\ req'[d].read # "none"
          /\ starts <= 1 /\ req'[d].read = "deployment_plan" => g.type = "deployment_plan"
          /\ starts <= 1 /\ req'[d].read = "deployment_plan" /\ req'[d].kind = "approve"
               /\ req'[d].pc # "decide" => DeploymentGate \in granted
    BY <2>2, <2>3 DEF RequestInv
  <2> QED BY <1>1, <2>1, <2>4 DEF RequestInv, DeploymentNeedsApproval
<1> QED BY <1>4, <1>5, <1>6, <1>7, <1>8

\* The artifact's message routes the waiting thread again, and leaves it where it is.
LEMMA MessageKeeps ==
  ASSUME LifecycleConstants, LifeInv, OnRequirementsCompleted
  PROVE  LifeInv'
<1> USE DEF LifeInv
<1> DEFINE s == [g EXCEPT !.status = "completed", !.approval = "pending"]
<1>1. /\ executing = Nobody /\ g # NoThread /\ g' = UpdateState(s)
      /\ UNCHANGED <<executing, resumed, req, history, counts>>
  BY DEF OnRequirementsCompleted, Free
<1>2. /\ g \in Threads /\ s \in Threads /\ s.last = g.last /\ s.next = g.next
      /\ s.approval = "pending" /\ s.round = g.round /\ s.type = g.type /\ s.phase = g.phase
  BY DEF TypeOK, Threads
<1> HIDE DEF s
<1>3. g' \in Threads /\ g'.approval = "pending" /\ g'.round = g.round /\ g'.type = g.type
      /\ g'.phase = g.phase /\ g'.last = g.last /\ g'.next # "none"
      /\ (g.last # "none" => g.last \in Nodes /\ g'.next = Route(g.last, s))
      /\ (g.last = "none" => g'.next = g.next)
  BY <1>1, <1>2, UpdateMoves
<1>4. TypeOK'
  BY <1>1, <1>3 DEF TypeOK, history, counts
<1>5. ThreadInv'
  BY <1>1, <1>2, <1>3, RouteReads DEF ThreadInv
<1>6. GateInv'
  BY <1>1, <1>3 DEF GateInv, PhasesNeedApproval, history
<1>7. RoundInv'
  <2> SUFFICES ASSUME crashes = 0 PROVE RoundInv'
    BY <1>1 DEF RoundInv, counts
  <2>1. g.next \in Gates \union {"end"} /\ ~resumed
    BY <1>1 DEF RoundInv, ThreadInv
  <2>2. g.last \in Nodes /\ g.next = Route(g.last, g) /\ g'.next = Route(g.last, s)
    BY <1>3, <2>1 DEF ThreadInv, Gates
  <2>3. g'.next = g.next
    BY <1>2, <2>1, <2>2, RouteWaits DEF Gates, Reviews
  <2> QED BY <1>1, <1>3, <2>1, <2>3 DEF RoundInv, Owed, history, counts, Gates, Reviews, Ending
<1>8. RequestInv'
  BY <1>1, <1>3 DEF RequestInv, DeploymentNeedsApproval, history, counts, NoThread
<1> QED BY <1>4, <1>5, <1>6, <1>7, <1>8

\* A step of one request that leaves the graph, and what it rests on, alone.
LEMMA RequestKeeps ==
  ASSUME LifecycleConstants, LifeInv, NEW c \in Callers, NEW r \in Requests, Free,
         req' = [req EXCEPT ![c] = r], g # NoThread, r.pc # "invoke",
         UNCHANGED <<g, executing, resumed, granted, refused, starts, crashes>>,
         decisions' \in Nat,
         ran' \subseteq {"product", "architecture", "engineering", "deployment"},
         DeploymentNeedsApproval',
         r.pc = "decide" => r.kind = "approve",
         r.pc = "pipeline" /\ r.kind # "start" => r.kind = "approve" /\ r.read # "none",
         starts <= 1 /\ r.read = "deployment_plan" => g.type = "deployment_plan",
         starts <= 1 /\ r.read = "deployment_plan" /\ r.kind = "approve" /\ r.pc # "decide" =>
           DeploymentGate \in granted
  PROVE  LifeInv'
<1> USE DEF LifeInv
<1>1. /\ req' \in [Callers -> Requests] /\ req'[c] = r
      /\ \A d \in Callers \ {c} : req'[d] = req[d]
      /\ \A d \in Callers : req[d].pc # "invoke"
  BY DEF TypeOK, Free, LifecycleConstants
<1>2. TypeOK'
  BY <1>1 DEF TypeOK, Free, LifecycleConstants
<1>3. ThreadInv' /\ GateInv' /\ RoundInv'
  BY DEF ThreadInv, GateInv, PhasesNeedApproval, RoundInv, Owed
<1>4. RequestInv'
  BY <1>1 DEF RequestInv
<1> QED BY <1>2, <1>3, <1>4

LEMMA CallKeeps ==
  ASSUME LifecycleConstants, LifeInv, NEW c \in Callers,
         \/ ApproveArtifact(c) \/ ApproveFails(c) \/ FlushEvents(c) \/ RecordAudit(c)
         \/ RunPipeline(c)
  PROVE  LifeInv'
<1> USE DEF LifeInv
<1>0. /\ req[c] \in Requests /\ g \in Threads /\ decisions \in Nat
      /\ ran \subseteq {"product", "architecture", "engineering", "deployment"}
      /\ DeploymentNeedsApproval
      /\ NoRequest \in Requests /\ NoRequest.pc = "idle" /\ NoRequest.read = "none"
  BY DEF TypeOK, RequestInv, NoRequest, Requests, ArtifactTypes, Subjects
<1>1. CASE ApproveArtifact(c)
  <2> DEFINE r == [NoRequest EXCEPT !.pc = "decide", !.kind = "approve", !.read = g.type]
  <2>1. r \in Requests /\ r.pc = "decide" /\ r.kind = "approve" /\ r.read = g.type
    BY <1>0 DEF Requests, Threads
  <2>2. /\ Free /\ g # NoThread /\ req' = [req EXCEPT ![c] = r] /\ decisions' \in Nat
        /\ UNCHANGED <<g, executing, resumed, ran, granted, refused, starts, crashes>>
    BY <1>0, <1>1 DEF ApproveArtifact, Asked, At, history
  <2> HIDE DEF r
  <2> QED BY <1>0, <2>1, <2>2, RequestKeeps DEF DeploymentNeedsApproval
<1>2. CASE ApproveFails(c)
  <2>1. /\ Free /\ req[c].pc = "decide" /\ req' = [req EXCEPT ![c] = NoRequest]
        /\ UNCHANGED <<g, executing, resumed, ran, granted, refused, starts, decisions, crashes>>
    BY <1>2 DEF ApproveFails, At, Ends, history, counts
  <2>2. g # NoThread
    BY <1>0, <2>1 DEF RequestInv
  <2> QED BY <1>0, <2>1, <2>2, RequestKeeps DEF DeploymentNeedsApproval
<1>3. CASE FlushEvents(c)
  <2> DEFINE r == [req[c] EXCEPT !.pc = IF req[c].kind = "start" THEN "pipeline" ELSE "audit"]
  <2>1. /\ Free /\ req[c].pc = "flush" /\ req' = [req EXCEPT ![c] = r]
        /\ UNCHANGED <<g, executing, resumed, ran, granted, refused, starts, decisions, crashes>>
    BY <1>3 DEF FlushEvents, At, history, counts
  <2>2. /\ r \in Requests /\ r.pc \in {"pipeline", "audit"}
        /\ (r.pc = "pipeline" => req[c].kind = "start")
        /\ r.kind = req[c].kind /\ r.read = req[c].read
    BY <1>0 DEF Requests
  <2>3. g # NoThread
    BY <1>0, <2>1 DEF RequestInv
  <2> HIDE DEF r
  <2> QED BY <1>0, <2>1, <2>2, <2>3, RequestKeeps DEF DeploymentNeedsApproval, RequestInv
<1>4. CASE RecordAudit(c)
  <2>1. /\ Free /\ req[c].pc = "audit"
        /\ UNCHANGED <<g, executing, resumed, ran, granted, refused, starts, decisions, crashes>>
    BY <1>4 DEF RecordAudit, At, history, counts
  <2>2. g # NoThread
    BY <1>0, <2>1 DEF RequestInv
  <2>3. CASE Ends(c)
    BY <1>0, <2>1, <2>2, <2>3, RequestKeeps DEF DeploymentNeedsApproval, Ends
  <2>4. CASE /\ req[c].kind = "approve" /\ req[c].read # "none"
             /\ req' = [req EXCEPT ![c].pc = "pipeline"]
    <3> DEFINE r == [req[c] EXCEPT !.pc = "pipeline"]
    <3>1. req' = [req EXCEPT ![c] = r]
      BY <2>4
    <3>2. r \in Requests /\ r.pc = "pipeline" /\ r.kind = "approve" /\ r.read = req[c].read
      BY <1>0, <2>4 DEF Requests
    <3> HIDE DEF r
    <3> QED BY <1>0, <2>1, <2>2, <2>4, <3>1, <3>2, RequestKeeps
            DEF DeploymentNeedsApproval, RequestInv
  <2> QED BY <1>4, <2>3, <2>4 DEF RecordAudit
<1>5. CASE RunPipeline(c)
  <2>1. /\ Free /\ req[c].pc = "pipeline" /\ req' = [req EXCEPT ![c] = NoRequest]
        /\ ran' = ran \union {Pipeline(req[c])}
        /\ UNCHANGED <<g, executing, resumed, granted, refused, starts, decisions, crashes>>
    BY <1>5 DEF RunPipeline, At, Ends, counts
  <2>2. g # NoThread
    BY <1>0, <2>1 DEF RequestInv
  <2>3. /\ Pipeline(req[c]) \in {"product", "architecture", "engineering", "deployment"}
        /\ Pipeline(req[c]) = "deployment" /\ starts <= 1 => DeploymentGate \in granted
    BY <1>0, <2>1 DEF Pipeline, RequestInv, Requests, ArtifactTypes
  <2>4. DeploymentNeedsApproval'
    BY <1>0, <2>1, <2>3 DEF DeploymentNeedsApproval
  <2>5. ran' \subseteq {"product", "architecture", "engineering", "deployment"}
    BY <1>0, <2>1, <2>3
  <2> QED BY <1>0, <2>1, <2>2, <2>4, <2>5, RequestKeeps
<1> QED BY <1>1, <1>2, <1>3, <1>4, <1>5

LEMMA CrashKeeps ==
  ASSUME LifecycleConstants, LifeInv, Crash
  PROVE  LifeInv'
<1> USE DEF LifeInv
<1>1. /\ req' = [c \in Callers |-> NoRequest] /\ executing' = Nobody /\ resumed' = FALSE
      /\ UNCHANGED <<g, ran, granted, refused, starts, decisions>>
      /\ crashes' \in Nat /\ crashes' # 0
  BY DEF Crash, TypeOK, history
<1>2. NoRequest \in Requests /\ NoRequest.pc = "idle" /\ NoRequest.read = "none"
  BY DEF NoRequest, Requests, ArtifactTypes, Subjects
<1>3. TypeOK'
  BY <1>1, <1>2 DEF TypeOK, LifecycleConstants
<1>4. ThreadInv' /\ GateInv' /\ RoundInv'
  BY <1>1 DEF ThreadInv, GateInv, PhasesNeedApproval, RoundInv
<1>5. RequestInv'
  BY <1>1, <1>2 DEF RequestInv, DeploymentNeedsApproval
<1> QED BY <1>3, <1>4, <1>5

-----------------------------------------------------------------------------
(***************************************************************************)
(* The theorem                                                             *)
(***************************************************************************)
LEMMA LifeInit == ASSUME LifecycleConstants, Init PROVE LifeInv
<1>1. NoRequest \in Requests /\ NoRequest.pc = "idle" /\ NoRequest.read = "none"
  BY DEF NoRequest, Requests, ArtifactTypes, Subjects
<1>2. /\ NoThread \in Threads /\ NoThread.last = "none" /\ NoThread.next = "none"
      /\ NoThread.type = "none" /\ NoThread.phase = 0 /\ NoThread.approval = "none"
      /\ NoThread.round = 0
  <2>1. 0 \in 0 .. MaxRounds
    BY DEF LifecycleConstants
  <2> QED BY <2>1 DEF NoThread, Threads, ArtifactTypes, Subjects
<1>3. TypeOK
  <2>1. /\ req \in [Callers -> Requests]
        /\ \A c \in Callers : req[c].pc = "invoke" <=> executing = c
    BY <1>1 DEF Init, LifecycleConstants
  <2>2. {refused, starts, decisions, crashes} \subseteq Nat
    BY DEF Init
  <2> QED BY <1>2, <2>1, <2>2 DEF Init, TypeOK
<1>4. ThreadInv /\ GateInv /\ RoundInv /\ RequestInv
  BY <1>1, <1>2 DEF Init, ThreadInv, GateInv, PhasesNeedApproval, RoundInv, RequestInv,
                    DeploymentNeedsApproval, PhasesAfter, Gates
<1> QED BY <1>3, <1>4 DEF LifeInv

LEMMA LifeStep == ASSUME LifecycleConstants, LifeInv, [Next]_vars PROVE LifeInv'
<1>1. CASE NodeStep
  BY <1>1, NodeKeeps
<1>2. CASE InvokeReturns
  BY <1>2, ReturnKeeps
<1>3. ASSUME NEW c \in Callers, StartProject(c) PROVE LifeInv'
  BY <1>3, StartKeeps
<1>4. ASSUME NEW c \in Callers, RejectArtifact(c) PROVE LifeInv'
  BY <1>4, RejectKeeps
<1>5. ASSUME NEW c \in Callers, ApproveArtifact(c) \/ CallStep(c) PROVE LifeInv'
  BY <1>5, InjectKeeps, CallKeeps DEF CallStep
<1>6. CASE OnRequirementsCompleted
  BY <1>6, MessageKeeps
<1>7. CASE Crash
  BY <1>7, CrashKeeps
<1>8. CASE UNCHANGED vars
  BY <1>8 DEF vars, history, counts, LifeInv, TypeOK, ThreadInv, GateInv, PhasesNeedApproval,
              RoundInv, Owed, RequestInv, DeploymentNeedsApproval
<1> QED BY <1>1, <1>2, <1>3, <1>4, <1>5, <1>6, <1>7, <1>8 DEF Next

\* The thread, its approvals, its rounds and the requests agree in every state.
THEOREM LifeInvariant == Spec => []LifeInv
<1>1. Init => LifeInv
  BY LifecycleConstants, LifeInit
<1>2. LifeInv /\ [Next]_vars => LifeInv'
  BY LifecycleConstants, LifeStep
<1> QED BY <1>1, <1>2, PTL DEF Spec

\* Rounds run out: what RoundInv says where the graph waits.
LEMMA RoundsRunOut == ASSUME LifecycleConstants, LifeInv PROVE RevisionsAreBounded
<1>1. /\ MaxRounds \in Nat /\ refused \in Nat /\ g.round \in 0 .. MaxRounds
      /\ (executing = Nobody => ~resumed)
  BY DEF LifecycleConstants, LifeInv, TypeOK, Threads, ThreadInv
<1> QED BY <1>1 DEF LifeInv, RoundInv, Owed, RevisionsAreBounded, Gates, Ending

\* Whatever the order of starts, decisions, messages and restarts: a project is past a
\* gate, or a pipeline deploys it, only after that gate was approved, and reviews that
\* are rejected more often than the code allows have ended the project.
THEOREM GatesHold == Spec => []GatesNeedDecisions
<1>1. LifeInv => GatesNeedDecisions
  BY LifecycleConstants, RoundsRunOut DEF LifeInv, GatesNeedDecisions, GateInv, RequestInv
<1> QED BY <1>1, LifeInvariant, PTL
=============================================================================
