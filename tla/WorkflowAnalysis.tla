--------------------------- MODULE WorkflowAnalysis ---------------------------
(***************************************************************************)
(* The static analysis of a compiled workflow graph (integration/          *)
(* lifecycle.py, diagnostics/graph_metrics.py, validators/                 *)
(* workflow_validator.py, diagnostics/graph_linter.py): two breadth-first  *)
(* searches, a depth-first search for cycles, and the three verdicts drawn *)
(* from them: the gate's `passed`, the report's `healthy`, the linter's    *)
(* errors.  One step is one turn of a loop.                                *)
(*                                                                         *)
(* A graph is one that LangGraph compiles: something follows __start__,    *)
(* nothing precedes it, nothing follows __end__.  What the source text of  *)
(* the graph's module names next to Send( is any set of its nodes; the     *)
(* rules that read names and routing functions from that text are left     *)
(* out, and so is the depth of the graph.                                  *)
(***************************************************************************)
EXTENDS Naturals, Sequences, SequencesExt, FiniteSetsExt

CONSTANTS
  WaInner,    \* number of nodes between __start__ and __end__
  WaMaxEdges  \* bound: edges of the graph

ASSUME WorkflowAnalysisAssumption == {WaInner, WaMaxEdges} \subseteq Nat

VARIABLES
  waEdges,      \* <<source, target>>
  waEnd,        \* END in nodes
  waPc,         \* "forward", "backward", "cycles", "reported"
  waQueue,      \* the queue of the breadth-first search under way
  waReached,    \* reach_from_start
  waCoreached,  \* can_reach_end
  waStack,      \* the path of dfs: its nodes, each with the successors left; they are gray
  waVisited,    \* the nodes that are not white
  waCycles,     \* the node sets of the cycles found
  waSends       \* the nodes that _is_likely_send_target accepts
waVars == <<waEdges, waEnd, waPc, waQueue, waReached, waCoreached, waStack, waVisited, waCycles,
            waSends>>

Start == 0
Inner == 1 .. WaInner
End == WaInner + 1
Nodes == {Start} \cup Inner \cup (IF waEnd THEN {End} ELSE {})

Successors(n) == {m \in Nodes : <<n, m>> \in waEdges}
Predecessors(n) == {m \in Nodes : <<m, n>> \in waEdges}

Compilable ==
  {edges \in UNION {kSubset(k, ({Start} \cup Inner) \X (Inner \cup {End})) : k \in 1 .. WaMaxEdges} :
     \E e \in edges : e[1] = Start}

WaInit ==
  /\ waEdges \in Compilable
  /\ waEnd \in BOOLEAN /\ (~waEnd => \A e \in waEdges : e[2] # End)
  /\ waPc = "forward" /\ waQueue = {Start} /\ waReached = {Start}
  /\ waCoreached = {} /\ waStack = <<>> /\ waVisited = {} /\ waCycles = {} /\ waSends = {}

-----------------------------------------------------------------------------
(***************************************************************************)
(* _bfs, from __start__ along the edges and from __end__ against them.     *)
(***************************************************************************)
Forward ==
  /\ waPc = "forward" /\ waQueue # {}
  /\ LET n == Min(waQueue) IN
       /\ waReached' = waReached \cup Successors(n)
       /\ waQueue' = (waQueue \ {n}) \cup (Successors(n) \ waReached)
  /\ UNCHANGED <<waEdges, waEnd, waPc, waCoreached, waStack, waVisited, waCycles, waSends>>

TurnBack ==
  /\ waPc = "forward" /\ waQueue = {}
  /\ waPc' = "backward"
  /\ waCoreached' = Nodes \cap {End} /\ waQueue' = waCoreached'
  /\ UNCHANGED <<waEdges, waEnd, waReached, waStack, waVisited, waCycles, waSends>>

Backward ==
  /\ waPc = "backward" /\ waQueue # {}
  /\ LET n == Min(waQueue) IN
       /\ waCoreached' = waCoreached \cup Predecessors(n)
       /\ waQueue' = (waQueue \ {n}) \cup (Predecessors(n) \ waCoreached)
  /\ UNCHANGED <<waEdges, waEnd, waPc, waReached, waStack, waVisited, waCycles, waSends>>

SeekCycles ==
  /\ waPc = "backward" /\ waQueue = {}
  /\ waPc' = "cycles"
  /\ UNCHANGED <<waEdges, waEnd, waQueue, waReached, waCoreached, waStack, waVisited, waCycles,
                 waSends>>

-----------------------------------------------------------------------------
(***************************************************************************)
(* detect_cycles.  A successor on the path, which is gray, closes a cycle; *)
(* a white one is searched; a black one is left alone.                     *)
(***************************************************************************)
Gray == {waStack[i].node : i \in DOMAIN waStack}
WayBackTo(n) == {waStack[i].node : i \in {j \in DOMAIN waStack : \E k \in 1 .. j : waStack[k].node = n}}
Taken(n) == [waStack EXCEPT ![Len(waStack)].left = @ \ {n}]

\* Mutant: the colors are two, and every node seen before closes a cycle.
ClosesIfSeen(n) == n \in waVisited

Closes(n) == n \in Gray

Enter(path, n) ==
  /\ waStack' = Append(path, [node |-> n, left |-> Successors(n)])
  /\ waVisited' = waVisited \cup {n}

StartDfs ==
  /\ waPc = "cycles" /\ waStack = <<>> /\ Nodes \ waVisited # {}
  /\ Enter(<<>>, Min(Nodes \ waVisited))
  /\ UNCHANGED <<waEdges, waEnd, waPc, waQueue, waReached, waCoreached, waCycles, waSends>>

\* The order of the edges is not known: any successor is the next.
FollowEdge ==
  /\ waPc = "cycles" /\ waStack # <<>>
  /\ \E n \in Last(waStack).left :
       \/ /\ Closes(n)
          /\ waCycles' = waCycles \cup {WayBackTo(n)}
          /\ waStack' = Taken(n) /\ UNCHANGED waVisited
       \/ /\ ~Closes(n) /\ n \in waVisited
          /\ waStack' = Taken(n) /\ UNCHANGED <<waVisited, waCycles>>
       \/ ~Closes(n) /\ n \notin waVisited /\ Enter(Taken(n), n) /\ UNCHANGED waCycles
  /\ UNCHANGED <<waEdges, waEnd, waPc, waQueue, waReached, waCoreached, waSends>>

Blacken ==
  /\ waPc = "cycles" /\ waStack # <<>> /\ Last(waStack).left = {}
  /\ waStack' = Front(waStack)
  /\ UNCHANGED <<waEdges, waEnd, waPc, waQueue, waReached, waCoreached, waVisited, waCycles, waSends>>

-----------------------------------------------------------------------------
(***************************************************************************)
(* The verdicts.                                                           *)
(***************************************************************************)
Unreachable == Nodes \ waReached
DeadEnds == (Nodes \ {End}) \ waCoreached
Isolated == {n \in Inner : Successors(n) \cup Predecessors(n) = {}}

\* The source is read only for the nodes that need an excuse.
Report ==
  /\ waPc = "cycles" /\ waStack = <<>> /\ Nodes \subseteq waVisited
  /\ waPc' = "reported"
  /\ waSends' \in SUBSET (Inner \cap (Unreachable \cup DeadEnds \cup Isolated))
  /\ UNCHANGED <<waEdges, waEnd, waQueue, waReached, waCoreached, waStack, waVisited, waCycles>>

\* GraphAnalysis.passed.
Passed ==
  /\ Unreachable \cup DeadEnds \subseteq waSends
  /\ waEnd /\ End \in waReached

\* WorkflowReport.healthy: of the dead ends it only has the number, as a warning.
Dynamic == waSends \cap (Unreachable \cup Isolated)
Stranded == Unreachable \ Dynamic
NoRoute == {n \in Nodes \ {End} : Successors(n) = {}}
DeadEndCount == IF Cardinality(NoRoute) > Cardinality(Dynamic)
                THEN Cardinality(NoRoute) - Cardinality(Dynamic) ELSE 0
Errors == {e \in {"no entry", "no end"} : IF e = "no entry" THEN Successors(Start) = {} ELSE ~waEnd}
Healthy == Errors = {} /\ Stranded = {} /\ End \in waReached

\* The findings of lint_workflow, by rule.
LintErrors ==
  {rule \in {"E002", "E003", "E004", "E005"} :
     CASE rule = "E002" -> "no entry" \in Errors
       [] rule = "E003" -> ~waEnd
       [] rule = "E004" -> waEnd /\ End \notin waReached
       [] rule = "E005" -> Stranded # {}}
LintWarnings == {rule \in {"W001", "W002"} :
                   IF rule = "W001" THEN Isolated \ Dynamic # {} ELSE DeadEndCount > 0}

WaNext == Forward \/ TurnBack \/ Backward \/ SeekCycles \/ StartDfs \/ FollowEdge \/ Blacken \/ Report

WaSpec == WaInit /\ [][WaNext]_waVars

-----------------------------------------------------------------------------
\* There is a way from a to b when no set of nodes keeps a and is left by no edge without b.
Way(a, b) == \A kept \in SUBSET Nodes :
               a \in kept /\ (\A e \in waEdges : e[1] \in kept => e[2] \in kept) => b \in kept

\* What the searches say of the graph is what its paths say, whatever the order of the
\* edges: the nodes on a way, and whether anything comes back to itself; a reported cycle
\* is one; and the verdicts agree: a graph the startup gate passes has a way through every
\* node that is not dispatched at run time, is healthy, and has no lint error.
AnalysisIsExact ==
  waPc = "reported" =>
    /\ waReached = {n \in Nodes : Way(Start, n)}
    /\ waCoreached = {n \in Nodes : waEnd /\ Way(n, End)}
    /\ waCycles = {} <=> \A e \in waEdges : ~Way(e[2], e[1])
    /\ \A c \in waCycles : \A n, m \in c : Way(n, m)
    /\ Passed <=> \A n \in Nodes \ waSends : waEnd /\ Way(Start, n) /\ Way(n, End)
    /\ Passed => Healthy /\ (LintWarnings = {} \/ waSends # {})
    /\ Healthy <=> LintErrors = {}
=============================================================================
