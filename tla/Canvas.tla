------------------------------- MODULE Canvas -------------------------------
(***************************************************************************)
(* The canvas of the workflow designer (canvas_state.py): edits, undo and  *)
(* redo by whole copies of the layout, and the clipboard.                  *)
(*                                                                         *)
(* A layout is its nodes and edges, whose order nothing here reads, the    *)
(* members of its one group and its entry.  A node's place and             *)
(* configuration are one bit that an edit flips.  An id is a sequence: its *)
(* base and, for every time it was pasted, the number of the "_copy"       *)
(* suffix.  What is selected is chosen when it is used; the viewport and   *)
(* the autosave flags, which push no history, are left out.  The graph a   *)
(* layout stands for (graph_builder.py) is an operator of the layout.      *)
(***************************************************************************)
EXTENDS Naturals, Sequences, SequencesExt, FiniteSetsExt

CONSTANTS
  CvMaxHistory,  \* MAX_HISTORY
  CvMaxEdits     \* bound: edits in a behaviour

ASSUME CanvasAssumption == {CvMaxHistory, CvMaxEdits} \subseteq Nat

VARIABLES
  cvLayout,     \* CanvasState.layout
  cvHistory,    \* the layouts before it, the oldest first
  cvFuture,     \* the layouts undone, the next to redo first
  cvClipboard,  \* copies of nodes and edges
  cvLoose,      \* history variable: edges drawn while they missed an end
  cvEdits

cvVars == <<cvLayout, cvHistory, cvFuture, cvClipboard, cvLoose, cvEdits>>

Node(id, look) == [id |-> id, look |-> look]
Edge(id, source, target) == [id |-> id, source |-> source, target |-> target]
IdsOf(items) == {item.id : item \in items}
Joining(edges, nodes) == {e \in edges : {e.source, e.target} \subseteq IdsOf(nodes)}

\* What a user selects: one node or all of them, an edge, the group; and the first node
\* there was, which may be gone since it was selected.
NoSelection == [nodes |-> {}, edges |-> {}, group |-> FALSE]
Selections ==
       {[NoSelection EXCEPT !.nodes = {id}] : id \in IdsOf(cvLayout.nodes) \cup {<<"a">>}}
  \cup {[NoSelection EXCEPT !.nodes = IdsOf(cvLayout.nodes)]}
  \cup {[NoSelection EXCEPT !.edges = {id}] : id \in IdsOf(cvLayout.edges)}
  \cup {[NoSelection EXCEPT !.group = TRUE]}

CvInit ==
  /\ cvLayout = [nodes |-> {Node(<<"a">>, 0), Node(<<"b">>, 0)},
                 edges |-> {Edge(<<"e">>, <<"a">>, <<"b">>)},
                 group |-> {<<"a">>, <<"b">>}, entry |-> <<"a">>]
  /\ cvHistory = <<>> /\ cvFuture = <<>>
  /\ cvClipboard = [nodes |-> {}, edges |-> {}]
  /\ cvLoose = {} /\ cvEdits = 0

-----------------------------------------------------------------------------
\* Mutant: the layouts that were undone stay ahead of the edit.
PushHistoryOnly ==
  /\ cvHistory' = LET all == Append(cvHistory, cvLayout)
                  IN SubSeq(all, IF Len(all) > CvMaxHistory THEN 2 ELSE 1, Len(all))
  /\ UNCHANGED cvFuture

\* push_history: the layout as it is before the edit; what was undone is gone.
PushHistory ==
  /\ cvHistory' = LET all == Append(cvHistory, cvLayout)
                  IN SubSeq(all, IF Len(all) > CvMaxHistory THEN 2 ELSE 1, Len(all))
  /\ cvFuture' = <<>>

Edits == cvEdits < CvMaxEdits /\ cvEdits' = cvEdits + 1 /\ PushHistory

Without(items, ids) == {item \in items : item.id \notin ids}
Overwrite(items, item) == Without(items, {item.id}) \cup {item}

AddNode(id) ==
  /\ Edits /\ UNCHANGED <<cvClipboard, cvLoose>>
  /\ cvLayout' = [cvLayout EXCEPT !.nodes = Overwrite(@, Node(id, 0))]

\* move_node and update_node_config, which change nothing when there is no such node.
ChangeNode(id) ==
  /\ Edits /\ UNCHANGED <<cvClipboard, cvLoose>>
  /\ cvLayout' = [cvLayout EXCEPT !.nodes =
       {IF n.id = id THEN Node(id, 1 - n.look) ELSE n : n \in @}]

\* An edge is drawn between any two ids: nothing asks whether nodes have them.
AddEdge(id, source, target) ==
  /\ Edits /\ UNCHANGED cvClipboard
  /\ cvLayout' = [cvLayout EXCEPT !.edges = Overwrite(@, Edge(id, source, target))]
  /\ cvLoose' = IF {source, target} \subseteq IdsOf(cvLayout.nodes) THEN cvLoose
                ELSE cvLoose \cup {Edge(id, source, target)}

\* Mutant: the edges of a deleted node stay.
DeletedAlone(layout, selected) ==
  [layout EXCEPT
     !.nodes = Without(@, selected.nodes), !.edges = Without(@, selected.edges),
     !.group = IF selected.group THEN {} ELSE @ \ selected.nodes,
     !.entry = IF @ \in selected.nodes THEN <<>> ELSE @]

\* What is selected goes, and with a node its edges, its membership and its being the entry.
Deleted(layout, selected) ==
  [layout EXCEPT
     !.nodes = Without(@, selected.nodes),
     !.edges = {e \in Without(@, selected.edges) :
                  {e.source, e.target} \cap selected.nodes = {}},
     !.group = IF selected.group THEN {} ELSE @ \ selected.nodes,
     !.entry = IF @ \in selected.nodes THEN <<>> ELSE @]

Delete(selected) == Edits /\ cvLayout' = Deleted(cvLayout, selected) /\ UNCHANGED cvLoose

Copied(selected) ==
  [nodes |-> {n \in cvLayout.nodes : n.id \in selected.nodes},
   edges |-> {e \in cvLayout.edges : {e.source, e.target} \subseteq selected.nodes}]

DeleteSelection(selected) == Delete(selected) /\ UNCHANGED cvClipboard
CopySelection(selected) ==
  cvClipboard' = Copied(selected) /\ UNCHANGED <<cvLayout, cvHistory, cvFuture, cvLoose, cvEdits>>
CutSelection(selected) == cvClipboard' = Copied(selected) /\ Delete(selected)

\* The first suffix no node of the layout has; the copies of one paste have different bases.
FreshId(id) ==
  Append(id, Min({n \in 1 .. Cardinality(cvLayout.nodes) + 1 :
                    Append(id, n) \notin IdsOf(cvLayout.nodes)}))

\* Copies are placed at an offset, with the edges among them; ids of edges get the
\* suffix once, taken or not.
Paste ==
  /\ cvClipboard.nodes # {} /\ Edits /\ UNCHANGED <<cvClipboard, cvLoose>>
  /\ cvLayout' = [cvLayout EXCEPT
       !.nodes = @ \cup {Node(FreshId(n.id), 1 - n.look) : n \in cvClipboard.nodes},
       !.edges = @ \cup {Edge(Append(e.id, 1), FreshId(e.source), FreshId(e.target)) :
                          e \in Joining(cvClipboard.edges, cvClipboard.nodes)}]

Undo ==
  /\ cvHistory # <<>>
  /\ cvLayout' = Last(cvHistory) /\ cvHistory' = Front(cvHistory)
  /\ cvFuture' = <<cvLayout>> \o cvFuture
  /\ UNCHANGED <<cvClipboard, cvLoose, cvEdits>>

Redo ==
  /\ cvFuture # <<>>
  /\ cvLayout' = Head(cvFuture) /\ cvFuture' = Tail(cvFuture)
  /\ cvHistory' = Append(cvHistory, cvLayout)
  /\ UNCHANGED <<cvClipboard, cvLoose, cvEdits>>

\* The first end of an edge is picked before the second, and may be deleted in between.
CvNext ==
  \/ \E id \in IdsOf(cvLayout.nodes) : ChangeNode(id)
  \/ \E source, target \in IdsOf(cvLayout.nodes) \cup {<<"a">>} : AddEdge(<<"f">>, source, target)
  \/ AddNode(<<"c">>) \/ Paste \/ Undo \/ Redo
  \/ \E selected \in Selections :
       DeleteSelection(selected) \/ CopySelection(selected) \/ CutSelection(selected)

CvSpec == CvInit /\ [][CvNext]_cvVars

-----------------------------------------------------------------------------
\* build_graph: the graph a layout stands for.  Edges that miss an end are dropped, and
\* an entry that is no node of the layout.
BuildGraph(layout) ==
  [nodes |-> layout.nodes, edges |-> Joining(layout.edges, layout.nodes),
   entry |-> IF layout.entry \in IdsOf(layout.nodes) THEN layout.entry ELSE <<>>]

\* The layout and every layout that undo or redo can bring back stand for the graph that
\* was drawn: whatever was deleted, cut, pasted and undone in between, no two nodes share
\* an id, the group has no member that is gone, and build_graph drops no entry, and no
\* edge but those that were drawn without an end.
KeepsItsGraph(layout) ==
  /\ \A n, m \in layout.nodes : n.id = m.id => n = m
  /\ layout.group \subseteq IdsOf(layout.nodes)
  /\ BuildGraph(layout).entry = layout.entry
  /\ (layout.edges \ BuildGraph(layout).edges) \subseteq cvLoose

Layouts == cvHistory \o <<cvLayout>> \o cvFuture

OnlyLooseEdgesAreDropped == \A i \in DOMAIN Layouts : KeepsItsGraph(Layouts[i])

\* Undo and redo walk along the versions of the layout (the module Timeline) and none is
\* lost or changed but those an edit replaces or that no longer fit.
Line == INSTANCE Timeline WITH
  MaxPast <- CvMaxHistory, versions <- Layouts, at <- Len(cvHistory) + 1
UndoWalksTheLine == Line!TlSpec
=============================================================================
