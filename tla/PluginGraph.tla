---------------------------- MODULE PluginGraph ----------------------------
(***************************************************************************)
(* The dependency check of the plugin validator (plugin_validator.py): a   *)
(* load order by Kahn's algorithm, and a depth-first search for cycles     *)
(* among the plugins it could not place.  One step is one turn of a loop.  *)
(*                                                                         *)
(* Plugins are numbered in the order of their ids, in which both loops go. *)
(***************************************************************************)
EXTENDS Naturals, Sequences, SequencesExt, FiniteSetsExt

CONSTANTS
  PgPlugins,         \* number of manifests validated together
  PgMaxDependencies  \* bound: dependencies among them

ASSUME PluginGraphAssumption == {PgPlugins, PgMaxDependencies} \subseteq Nat

VARIABLES
  pgEdges,      \* <<d, m>>: m depends on d, which is among the manifests; one that is not
                \* is reported by itself
  pgDegree,     \* remaining_in_degree
  pgOrder,      \* order
  pgStack,      \* the path of the search: its nodes, each with the neighbors left
  pgVisited,
  pgCycles      \* the node sets of the cycles found
pgVars == <<pgEdges, pgDegree, pgOrder, pgStack, pgVisited, pgCycles>>

Manifests == 1 .. PgPlugins
Dependents(n) == {m \in Manifests : <<n, m>> \in pgEdges}

PgInit ==
  /\ pgEdges \in UNION {kSubset(k, Manifests \X Manifests) : k \in 0 .. PgMaxDependencies}
  /\ pgDegree = [m \in Manifests |-> Cardinality({d \in Manifests : <<d, m>> \in pgEdges})]
  /\ pgOrder = <<>> /\ pgStack = <<>> /\ pgVisited = {} /\ pgCycles = {}

\* The queue: every plugin whose dependencies are placed, the first id first.
Queue == {m \in Manifests : pgDegree[m] = 0} \ ToSet(pgOrder)

\* Mutant: the degree of a dependent is taken as the whole of what it waits for.
PlaceEagerly ==
  /\ Queue # {}
  /\ pgOrder' = Append(pgOrder, Min(Queue))
  /\ pgDegree' = [m \in Manifests |-> IF m \in Dependents(Min(Queue)) THEN 0 ELSE pgDegree[m]]
  /\ UNCHANGED <<pgEdges, pgStack, pgVisited, pgCycles>>

Place ==
  /\ Queue # {}
  /\ pgOrder' = Append(pgOrder, Min(Queue))
  /\ pgDegree' = [m \in Manifests |-> IF m \in Dependents(Min(Queue)) THEN pgDegree[m] - 1
                                      ELSE pgDegree[m]]
  /\ UNCHANGED <<pgEdges, pgStack, pgVisited, pgCycles>>

Unresolved == Manifests \ ToSet(pgOrder)
Placed == Queue = {}

\* dfs(n): neighbors outside the unresolved set are not followed.
Visit(path, n) ==
  /\ pgStack' = Append(path, [node |-> n, left |-> Dependents(n) \cap Unresolved])
  /\ pgVisited' = pgVisited \cup {n}

StartSearch ==
  /\ Placed /\ pgStack = <<>> /\ Unresolved \ pgVisited # {}
  /\ Visit(<<>>, Min(Unresolved \ pgVisited))
  /\ UNCHANGED <<pgEdges, pgDegree, pgOrder, pgCycles>>

Path == [i \in DOMAIN pgStack |-> pgStack[i].node]
CycleTo(n) == {Path[i] : i \in {j \in DOMAIN Path : \E k \in 1 .. j : Path[k] = n}}
Left(rest) == SubSeq(pgStack, 1, Len(pgStack) - 1) \o
                <<[pgStack[Len(pgStack)] EXCEPT !.left = rest]>>

\* A neighbor on the path closes a cycle, one visited before is left alone.
Follow ==
  /\ Placed /\ pgStack # <<>> /\ Last(pgStack).left # {}
  /\ LET n    == Min(Last(pgStack).left)
         rest == Last(pgStack).left \ {n}
     IN \/ /\ n \in ToSet(Path)
           /\ pgCycles' = pgCycles \cup {CycleTo(n)}
           /\ pgStack' = Left(rest) /\ UNCHANGED pgVisited
        \/ /\ n \in pgVisited \ ToSet(Path)
           /\ pgStack' = Left(rest) /\ UNCHANGED <<pgVisited, pgCycles>>
        \/ n \notin pgVisited /\ Visit(Left(rest), n) /\ UNCHANGED pgCycles
  /\ UNCHANGED <<pgEdges, pgDegree, pgOrder>>

Return ==
  /\ Placed /\ pgStack # <<>> /\ Last(pgStack).left = {}
  /\ pgStack' = SubSeq(pgStack, 1, Len(pgStack) - 1)
  /\ UNCHANGED <<pgEdges, pgDegree, pgOrder, pgVisited, pgCycles>>

PgNext == Place \/ StartSearch \/ Follow \/ Return

PgSpec == PgInit /\ [][PgNext]_pgVars

\* validate_all: a plugin in a reported cycle is not valid.
Validated == Placed /\ pgStack = <<>> /\ Unresolved \subseteq pgVisited
Valid(m) == \A c \in pgCycles : m \notin c

-----------------------------------------------------------------------------
\* When every plugin is valid they can all be loaded, each after what it depends on, and
\* no plugin of a reported cycle could be loaded before another of that cycle.
LoadOrderIsSound ==
  Validated =>
    /\ \A e \in pgEdges : e[2] \in ToSet(pgOrder) =>
         \E i, j \in DOMAIN pgOrder : i < j /\ pgOrder[i] = e[1] /\ pgOrder[j] = e[2]
    /\ (\A m \in Manifests : Valid(m)) => Unresolved = {}
    /\ \A c \in pgCycles : \A m \in c : \E d \in c : <<d, m>> \in pgEdges
=============================================================================
