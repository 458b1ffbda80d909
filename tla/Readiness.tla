------------------------------ MODULE Readiness ------------------------------
(***************************************************************************)
(* The readiness report of the platform (integration/orchestrator.py with  *)
(* health_validator.py, event_router.py, dependency_graph.py): the health  *)
(* of the components, the hierarchy of the registered agents, the event    *)
(* manifest and the verdicts on the workflows, each scored in tenths of a  *)
(* percent and weighed; and the check of the departments' dependencies     *)
(* that its endpoint answers.  One step is one check, and in the two       *)
(* algorithms one turn of a loop.                                          *)
(*                                                                         *)
(* The components, the agents, the subjects, the graphs and the table of   *)
(* departments are any.  Every caller leaves repository_gaps out and       *)
(* documentation_score at 90.                                              *)
(***************************************************************************)
EXTENDS Integers, FiniteSetsExt, SequencesExt

CONSTANTS
  RdAgents,       \* agents other than manager_agent
  RdMaxHops,      \* hops after which a chain counts as cyclic; 20 in the code
  RdComponents,   \* COMPONENTS, of which the code has 14
  RdSubjects,     \* the keys of EVENT_MANIFEST, some 60
  RdGraphs,       \* the workflows that are validated
  RdDepartments   \* the keys of DEPARTMENT_DEPENDENCIES

\* In a sample of 286 one flaw costs its category 0.3 % and the report, after rounding,
\* nothing.
ASSUME ReadinessAssumption ==
  /\ IsFiniteSet(RdAgents) /\ IsFiniteSet(RdDepartments)
  /\ RdMaxHops \in Nat
  /\ {"none", "unknown"} \cap RdAgents = {}
  /\ {"monitoring", "incident_response"} \subseteq RdComponents
  /\ \A sample \in {RdComponents, RdSubjects, RdGraphs} :
       IsFiniteSet(sample) /\ Cardinality(sample) \in 1 .. 285

Root == "manager_agent"
Agents == RdAgents \cup {Root}
NoParent == "none"
Unknown == "unknown"    \* an id that nothing is registered under

VARIABLES
  rdPc,        \* "health", "registry", "events", "workflows", "score", "report"; "sort", "sorted"
  rdParent,    \* parent_agent_id of every agent
  rdLeft,      \* agents whose chain is not climbed yet
  rdAt,        \* <<the agent the climb started at, current>>, or <<>>
  rdHops,      \* depth
  rdFindings,  \* <<agent, kind>>
  rdScores,    \* the category scores so far
  rdNeeds,     \* DEPARTMENT_DEPENDENCIES: <<department, dependency>>
  rdDegree,    \* indegree_copy
  rdOrder,     \* the departments has_cycle visited
  rdFlaws      \* history: what was wrong with what was looked at
rdVars == <<rdPc, rdParent, rdLeft, rdAt, rdHops, rdFindings, rdScores, rdNeeds, rdDegree, rdOrder,
            rdFlaws>>
climb == <<rdParent, rdLeft, rdAt, rdHops, rdFindings>>
sorting == <<rdNeeds, rdDegree, rdOrder>>

Parents == [Agents -> Agents \cup {NoParent, Unknown}]

RdInit ==
  /\ rdParent = [a \in Agents |-> NoParent] /\ rdLeft = {} /\ rdAt = <<>> /\ rdHops = 0
  /\ rdFindings = {} /\ rdFlaws = {} /\ rdScores = [c \in {"persistence"} |-> 1000] /\ rdOrder = <<>>
  /\ \/ rdPc = "health" /\ rdNeeds = {}
     \/ rdPc = "sort" /\ rdNeeds \in SUBSET (RdDepartments \X (RdDepartments \cup {Unknown}))
  /\ rdDegree = [d \in RdDepartments |-> Cardinality({n \in rdNeeds : n[1] = d})]

Rounded(part, whole) == (2 * 1000 * part + whole) \div (2 * whole)
Score(c, s) == [x \in DOMAIN rdScores \cup {c} |-> IF x = c THEN s ELSE rdScores[x]]
NoteIf(flaw, wrong) == rdFlaws' = rdFlaws \cup (IF wrong THEN {flaw} ELSE {})

-----------------------------------------------------------------------------
(***************************************************************************)
(* generate_health_report.  A check that raises is a failed component.     *)
(***************************************************************************)
OfHealth(status) ==
  LET healthy == {c \in RdComponents : status[c] = "healthy"} IN
    [c \in {"infrastructure", "monitoring", "recovery", "persistence"} |->
       CASE c = "infrastructure" -> Rounded(Cardinality(healthy), Cardinality(RdComponents))
         [] c = "monitoring"     -> IF "monitoring" \in healthy THEN 1000 ELSE 500
         [] c = "recovery"       -> IF "incident_response" \in healthy THEN 1000 ELSE 500
         [] c = "persistence"    -> rdScores[c]]

CheckHealth ==
  /\ rdPc = "health"
  /\ \E status \in [RdComponents -> {"healthy", "degraded", "failed"}] :
       /\ rdScores' = OfHealth(status)
       /\ NoteIf("component", \E c \in RdComponents : status[c] # "healthy")
  /\ rdPc' = "registry"
  /\ rdParent' \in Parents /\ rdLeft' = Agents
  /\ UNCHANGED <<rdAt, rdHops, rdFindings, sorting>>

-----------------------------------------------------------------------------
(***************************************************************************)
(* validate_agent_registry.  The search for an orphan root comes after the *)
(* break only, when the last agent of the chain has a parent.              *)
(***************************************************************************)
CheckRoot ==
  /\ rdPc = "registry" /\ rdAt = <<>> /\ Root \in rdLeft
  /\ rdLeft' = rdLeft \ {Root}
  /\ rdFindings' = rdFindings \cup
       (IF rdParent[Root] # NoParent THEN {<<Root, "root_has_parent">>} ELSE {})
  /\ UNCHANGED <<rdPc, rdParent, rdAt, rdHops, rdScores, sorting, rdFlaws>>

StartClimb ==
  /\ rdPc = "registry" /\ rdAt = <<>> /\ rdLeft \ {Root} # {}
  /\ LET a == CHOOSE a \in rdLeft \ {Root} : TRUE IN
       rdLeft' = rdLeft \ {a} /\ rdAt' = <<a, a>>
  /\ rdHops' = 0
  /\ UNCHANGED <<rdPc, rdParent, rdFindings, rdScores, sorting, rdFlaws>>

OrphanRoot(a) == a # Root /\ rdParent[a] = NoParent

Climb ==
  /\ rdPc = "registry" /\ rdAt # <<>>
  /\ rdParent[rdAt[2]] # NoParent /\ rdHops < RdMaxHops
  /\ IF rdParent[rdAt[2]] = Unknown
     THEN /\ rdFindings' = rdFindings \cup {<<rdAt[1], "broken_parent_chain">>} \cup
               (IF OrphanRoot(rdAt[2]) THEN {<<rdAt[1], "orphan_root">>} ELSE {})
          /\ rdAt' = <<>> /\ UNCHANGED rdHops
     ELSE /\ rdAt' = <<rdAt[1], rdParent[rdAt[2]]>>
          /\ rdHops' = rdHops + 1 /\ UNCHANGED rdFindings
  /\ UNCHANGED <<rdPc, rdParent, rdLeft, rdScores, sorting, rdFlaws>>

\* Mutant: a chain is cyclic when it comes back to the agent it started at.
CyclicIfBackAtStart == rdAt[2] = rdAt[1] /\ rdHops > 0

Cyclic == rdHops >= RdMaxHops

EndClimb ==
  /\ rdPc = "registry" /\ rdAt # <<>>
  /\ rdParent[rdAt[2]] = NoParent \/ rdHops >= RdMaxHops
  /\ rdFindings' = rdFindings \cup (IF Cyclic THEN {<<rdAt[1], "cyclic_parent_chain">>} ELSE {})
  /\ rdAt' = <<>>
  /\ UNCHANGED <<rdPc, rdParent, rdLeft, rdHops, rdScores, sorting, rdFlaws>>

\* The chain of parents that starts at a ends, at whatever agent, in less than RdMaxHops
\* hops.
ChainEnds(a) ==
  \E n \in 0 .. RdMaxHops - 1 : \E chain \in [0 .. n -> Agents] :
    /\ chain[0] = a /\ rdParent[chain[n]] = NoParent
    /\ \A i \in 1 .. n : chain[i] = rdParent[chain[i - 1]]

EveryChainEnds ==
  rdParent[Root] = NoParent /\ \A a \in Agents \ {Root} : ChainEnds(a)

\* The number, the names and the departments of the agents add findings of their own.
ScoreRegistry ==
  /\ rdPc = "registry" /\ rdAt = <<>> /\ rdLeft = {}
  /\ \E others \in 0 .. 1 :
       LET found == Cardinality(rdFindings) + others IN
         /\ rdScores' = Score("registry", IF 100 * found > 1000 THEN 0 ELSE 1000 - 100 * found)
         /\ rdFlaws' = rdFlaws \cup (IF EveryChainEnds THEN {} ELSE {"chains"})
                               \cup (IF others = 0 THEN {} ELSE {"registry"})
  /\ rdPc' = "events"
  /\ rdParent' = [a \in Agents |-> NoParent] /\ rdFindings' = {} /\ rdHops' = 0
  /\ UNCHANGED <<rdLeft, rdAt, sorting>>

-----------------------------------------------------------------------------
(***************************************************************************)
(* generate_event_report and compute_readiness.                            *)
(***************************************************************************)
Entries == [published : BOOLEAN, consumers : SUBSET {"service", "monitoring (wildcard)"},
            wildcard : BOOLEAN]
Orphan(e) == e.published /\ e.consumers = {} /\ ~e.wildcard
DeadSubscription(e) == e.consumers # {} /\ ~e.published

\* No name is in _LIKELY_INTENTIONAL_ROUTE_NAMES: there are no missing routes.
CheckEvents ==
  /\ rdPc = "events"
  /\ \E entry \in [RdSubjects -> Entries] :
       LET problems == {s \in RdSubjects : Orphan(entry[s]) \/ DeadSubscription(entry[s])}
           total    == Cardinality(RdSubjects)
       IN /\ rdScores' = Score("messaging", Rounded(total - Cardinality(problems), total))
          /\ NoteIf("subject", \E s \in RdSubjects :
                      /\ entry[s].published # (entry[s].consumers # {})
                      /\ ~(entry[s].published /\ entry[s].wildcard))
  /\ rdPc' = "workflows"
  /\ UNCHANGED <<climb, sorting>>

CheckWorkflows ==
  /\ rdPc = "workflows"
  /\ \E passing \in SUBSET RdGraphs :
       /\ rdScores' = Score("workflows", Rounded(Cardinality(passing), Cardinality(RdGraphs)))
       /\ NoteIf("graph", passing # RdGraphs)
  /\ rdPc' = "score"
  /\ UNCHANGED <<climb, sorting>>

Weight == [infrastructure |-> 15, registry |-> 15, messaging |-> 15, workflows |-> 15,
           persistence |-> 10, monitoring |-> 10, recovery |-> 10, documentation |-> 10]

Weighed(scores) ==
  LET part(c) == scores[c] * Weight[c] IN
    part("infrastructure") + part("registry") + part("messaging") + part("workflows")
      + part("persistence") + part("monitoring") + part("recovery") + part("documentation")

ComputeReadiness ==
  /\ rdPc = "score"
  /\ LET scores == Score("documentation", 900)
     IN rdScores' = [x \in DOMAIN scores \cup {"overall"} |->
                       IF x = "overall" THEN (Weighed(scores) + 50) \div 100 ELSE scores[x]]
  /\ rdPc' = "report"
  /\ UNCHANGED <<climb, sorting, rdFlaws>>

-----------------------------------------------------------------------------
(***************************************************************************)
(* dependency_graph.has_cycle, by Kahn's algorithm.                        *)
(***************************************************************************)
Missing(d, completed) == {n[2] : n \in {x \in rdNeeds : x[1] = d}} \ completed
ReadyNow == {d \in RdDepartments : rdDegree[d] = 0} \ ToSet(rdOrder)

VisitDepartment ==
  /\ rdPc = "sort"
  /\ \E d \in ReadyNow :
       /\ rdOrder' = Append(rdOrder, d)
       /\ rdDegree' = [x \in RdDepartments |->
                         IF <<x, d>> \in rdNeeds THEN rdDegree[x] - 1 ELSE rdDegree[x]]
  /\ UNCHANGED <<rdPc, climb, rdScores, rdNeeds, rdFlaws>>

EndSort ==
  /\ rdPc = "sort" /\ ReadyNow = {}
  /\ rdPc' = "sorted"
  /\ UNCHANGED <<climb, rdScores, sorting, rdFlaws>>

HasCycle == Len(rdOrder) # Cardinality(RdDepartments)

RdNext ==
  \/ CheckHealth \/ CheckRoot \/ StartClimb \/ Climb \/ EndClimb \/ ScoreRegistry
  \/ CheckEvents \/ CheckWorkflows \/ ComputeReadiness
  \/ VisitDepartment \/ EndSort

RdSpec == RdInit /\ [][RdNext]_rdVars

-----------------------------------------------------------------------------
\* When every agent is looked at, those with a finding are the manager if it has a parent
\* and the agents whose own chain leaves the registry, never ends or is RdMaxHops long: no
\* agent is blamed for another's chain.  Where a chain ends is not looked at: whatever the
\* hierarchy, no orphan_root is ever reported.
ChainsAreChecked ==
  rdPc = "registry" /\ rdAt = <<>> /\ rdLeft = {} =>
    /\ \A a \in Agents : (\E f \in rdFindings : f[1] = a) <=>
         IF a = Root THEN rdParent[a] # NoParent ELSE ~ChainEnds(a)
    /\ \A a \in Agents : <<a, "orphan_root">> \notin rdFindings

\* The report's overall score is at its height exactly when nothing it looked at was wrong:
\* no flaw is rounded away or left out of the sum.  And has_cycle answers no exactly when
\* the departments can be ordered, in an order in which validate_dependency finds none missing.
ReadinessIsEarned ==
  /\ rdPc = "report" => (rdScores["overall"] = 990 <=> rdFlaws = {})
  /\ ChainsAreChecked
  /\ rdPc = "sorted" =>
       /\ \A i \in DOMAIN rdOrder : Missing(rdOrder[i], ToSet(SubSeq(rdOrder, 1, i - 1))) = {}
       /\ HasCycle <=> \E stuck \in (SUBSET RdDepartments) \ {{}} :
            \A d \in stuck : Missing(d, RdDepartments \ stuck) # {}
=============================================================================
