------------------------ MODULE Configuration_proofs ------------------------
(***************************************************************************)
(* Proofs about module Configuration, for any number of layers and files of*)
(* any number of lines:                                                    *)
(*                                                                         *)
(*   LayerLaid          a document is its layers, one more at a time       *)
(*   DiffApplies        a difference, applied, gives what it was taken to  *)
(*   DocumentsAreLaid   every document is its layers, merged over each     *)
(*                      other or read back from a file                     *)
(***************************************************************************)
EXTENDS Configuration, FiniteSetTheorems, SequenceTheorems, TLAPS

-----------------------------------------------------------------------------
(***************************************************************************)
(* Tables, nodes and documents, and what laying one over another gives.    *)
(***************************************************************************)
DocTables == UNION {[K -> Values] : K \in SUBSET AllKeys}
DocNodes  == {Bare(v) : v \in Values} \cup {Table(t) : t \in DocTables}
Docs      == UNION {[S -> DocNodes] : S \in SUBSET AllSections}

\* What a node is.
LEMMA NodesAre ==
  /\ \A node \in DocNodes :
       /\ node = [bare |-> node.bare, keys |-> node.keys]
       /\ node.bare \in Values \cup {"table"} /\ node.keys \in DocTables
       /\ ~IsTable(node) => node.bare \in Values /\ node.keys = <<>>
       /\ IsTable(node) => node = Table(node.keys)
  /\ \A t \in DocTables : /\ Table(t) \in DocNodes /\ IsTable(Table(t)) /\ Table(t).keys = t
                       /\ t = [k \in DOMAIN t |-> t[k]]
                       /\ DOMAIN t \subseteq AllKeys /\ \A k \in DOMAIN t : t[k] \in Values
  /\ \A v \in Values : /\ Bare(v) \in DocNodes /\ ~IsTable(Bare(v)) /\ Bare(v).bare = v
                       /\ Bare(v).keys = <<>>
  /\ <<>> \in DocTables
<1>1. <<>> \in DocTables
  <2>1. <<>> \in [{} -> Values]
    OBVIOUS
  <2> QED
    BY <2>1 DEF DocTables
<1>2. \A v \in Values : /\ Bare(v) \in DocNodes /\ ~IsTable(Bare(v)) /\ Bare(v).bare = v
                        /\ Bare(v).keys = <<>>
  BY DEF DocNodes, Bare, IsTable, Values
<1>3. ASSUME NEW t \in DocTables
      PROVE  /\ Table(t) \in DocNodes /\ IsTable(Table(t)) /\ Table(t).keys = t
             /\ t = [k \in DOMAIN t |-> t[k]]
             /\ DOMAIN t \subseteq AllKeys /\ \A k \in DOMAIN t : t[k] \in Values
  <2>1. Table(t) \in DocNodes /\ IsTable(Table(t)) /\ Table(t).keys = t
    BY DEF DocNodes, Table, IsTable
  <2>2. PICK K \in SUBSET AllKeys : t \in [K -> Values]
    BY DEF DocTables
  <2> QED
    BY <2>1, <2>2
<1>4. ASSUME NEW node \in DocNodes
      PROVE  /\ node = [bare |-> node.bare, keys |-> node.keys]
             /\ node.bare \in Values \cup {"table"} /\ node.keys \in DocTables
             /\ ~IsTable(node) => node.bare \in Values /\ node.keys = <<>>
             /\ IsTable(node) => node = Table(node.keys)
  <2>1. CASE \E v \in Values : node = Bare(v)
    BY <1>1, <1>2, <2>1 DEF Bare
  <2>2. CASE \E t \in DocTables : node = Table(t)
    BY <2>2 DEF Table, IsTable
  <2> QED
    BY <2>1, <2>2 DEF DocNodes
<1> QED
  BY <1>1, <1>2, <1>3, <1>4

\* What a document is.
LEMMA DocsAre ==
  /\ \A doc \in Docs : /\ doc = [s \in DOMAIN doc |-> doc[s]]
                       /\ DOMAIN doc \subseteq AllSections /\ \A s \in DOMAIN doc : doc[s] \in DocNodes
  /\ \A S \in SUBSET AllSections : [S -> DocNodes] \subseteq Docs
  /\ <<>> \in Docs
<1>1. <<>> \in [{} -> DocNodes]
  OBVIOUS
<1> QED
  BY <1>1 DEF Docs

\* What a table with another laid over it says.
LEMMA LaidTables ==
  ASSUME NEW base \in DocTables, NEW over \in DocTables
  PROVE  /\ LaidOver(base, over) \in DocTables
         /\ DOMAIN LaidOver(base, over) = DOMAIN base \cup DOMAIN over
         /\ \A k \in DOMAIN over : LaidOver(base, over)[k] = over[k]
         /\ \A k \in DOMAIN base \ DOMAIN over : LaidOver(base, over)[k] = base[k]
<1>1. LaidOver(base, over) \in [DOMAIN base \cup DOMAIN over -> Values]
  BY NodesAre DEF LaidOver
<1>2. DOMAIN base \cup DOMAIN over \in SUBSET AllKeys
  BY NodesAre
<1>3. LaidOver(base, over) \in DocTables
  BY <1>1, <1>2 DEF DocTables
<1> QED
  BY <1>3 DEF LaidOver

\* What merge gives: tables of one section are laid over each other, all else is replaced.
LEMMA MergedDocs ==
  ASSUME NEW base \in Docs, NEW over \in Docs
  PROVE  /\ Merge(base, over) \in Docs
         /\ DOMAIN Merge(base, over) = DOMAIN base \cup DOMAIN over
         /\ \A s \in DOMAIN base \ DOMAIN over : Merge(base, over)[s] = base[s]
         /\ \A s \in DOMAIN over : s \in DOMAIN base /\ IsTable(base[s]) /\ IsTable(over[s]) =>
              Merge(base, over)[s] = Table(LaidOver(base[s].keys, over[s].keys))
         /\ \A s \in DOMAIN over : ~(s \in DOMAIN base /\ IsTable(base[s]) /\ IsTable(over[s])) =>
              Merge(base, over)[s] = over[s]
<1>1. DOMAIN Merge(base, over) = DOMAIN base \cup DOMAIN over
  BY DEF Merge
<1>2. \A s \in DOMAIN base \ DOMAIN over : Merge(base, over)[s] = base[s]
  BY DEF Merge
<1>3. \A s \in DOMAIN over : s \in DOMAIN base /\ IsTable(base[s]) /\ IsTable(over[s]) =>
        Merge(base, over)[s] = Table(LaidOver(base[s].keys, over[s].keys))
  BY DEF Merge
<1>4. \A s \in DOMAIN over : ~(s \in DOMAIN base /\ IsTable(base[s]) /\ IsTable(over[s])) =>
        Merge(base, over)[s] = over[s]
  BY DEF Merge
<1>5. \A s \in DOMAIN base \cup DOMAIN over : Merge(base, over)[s] \in DocNodes
  <2>1. ASSUME NEW s \in DOMAIN over, s \in DOMAIN base, IsTable(base[s]), IsTable(over[s])
        PROVE  Merge(base, over)[s] \in DocNodes
    <3>1. base[s].keys \in DocTables /\ over[s].keys \in DocTables
      BY <2>1, NodesAre, DocsAre
    <3>2. LaidOver(base[s].keys, over[s].keys) \in DocTables
      BY <3>1, LaidTables
    <3>3. Table(LaidOver(base[s].keys, over[s].keys)) \in DocNodes
      BY <3>2, NodesAre
    <3> QED
      BY <1>3, <2>1, <3>3
  <2> QED
    BY <1>2, <1>4, <2>1, DocsAre
<1>6. Merge(base, over) = [s \in DOMAIN base \cup DOMAIN over |-> Merge(base, over)[s]]
  BY DEF Merge
<1>7. Merge(base, over) \in [DOMAIN base \cup DOMAIN over -> DocNodes]
  BY <1>5, <1>6
<1>8. DOMAIN base \cup DOMAIN over \in SUBSET AllSections
  BY DocsAre
<1>9. Merge(base, over) \in Docs
  BY <1>7, <1>8, DocsAre
<1> QED
  BY <1>1, <1>2, <1>3, <1>4, <1>9

-----------------------------------------------------------------------------
(***************************************************************************)
(* One layer more.                                                         *)
(***************************************************************************)
\* What the next layer adds to the layers that matter to a section.
LEMMA MentionsGrow ==
  ASSUME NEW n \in Nat, NEW layers, NEW s
  PROVE  /\ Mentions(layers, n, s) \subseteq 1 .. n
         /\ s \notin DOMAIN layers[n + 1] => /\ Mentions(layers, n + 1, s) = Mentions(layers, n, s)
                                             /\ Since(layers, n + 1, s) = Since(layers, n, s)
         /\ s \in DOMAIN layers[n + 1] =>
              /\ Mentions(layers, n + 1, s) = Mentions(layers, n, s) \cup {n + 1}
              /\ IsTable(layers[n + 1][s]) =>
                   Since(layers, n + 1, s) = Since(layers, n, s) \cup {n + 1}
              /\ ~IsTable(layers[n + 1][s]) => Since(layers, n + 1, s) = {}
<1>1. 1 .. n + 1 = (1 .. n) \cup {n + 1}
  OBVIOUS
<1>2. Mentions(layers, n, s) \subseteq 1 .. n
  BY DEF Mentions
<1>3. ASSUME s \notin DOMAIN layers[n + 1]
      PROVE  /\ Mentions(layers, n + 1, s) = Mentions(layers, n, s)
             /\ Since(layers, n + 1, s) = Since(layers, n, s)
  <2>1. Mentions(layers, n + 1, s) = Mentions(layers, n, s)
    BY <1>1, <1>3 DEF Mentions
  <2> QED
    BY <2>1 DEF Since
<1>4. ASSUME s \in DOMAIN layers[n + 1]
      PROVE  Mentions(layers, n + 1, s) = Mentions(layers, n, s) \cup {n + 1}
  BY <1>1, <1>4 DEF Mentions
<1>5. ASSUME s \in DOMAIN layers[n + 1], IsTable(layers[n + 1][s])
      PROVE  Since(layers, n + 1, s) = Since(layers, n, s) \cup {n + 1}
  <2>1. \A i \in Mentions(layers, n, s) : n + 1 >= i /\ ~(i >= n + 1)
    BY <1>2
  <2>2. \A i \in Mentions(layers, n, s) : i \in Since(layers, n + 1, s) <=> i \in Since(layers, n, s)
    BY <1>4, <1>5, <2>1 DEF Since
  <2>3. n + 1 \in Since(layers, n + 1, s)
    BY <1>4, <1>5, <2>1 DEF Since
  <2> QED
    BY <1>4, <1>5, <2>2, <2>3 DEF Since
<1>6. ASSUME s \in DOMAIN layers[n + 1], ~IsTable(layers[n + 1][s])
      PROVE  Since(layers, n + 1, s) = {}
  <2>1. \A i \in Mentions(layers, n + 1, s) : n + 1 >= i
    BY <1>1, <1>2, <1>4, <1>6
  <2>2. n + 1 \in Mentions(layers, n + 1, s)
    BY <1>4, <1>6
  <2> QED
    BY <1>6, <2>1, <2>2 DEF Since
<1> QED
  BY <1>2, <1>3, <1>4, <1>5, <1>6

\* What a document says of one section.
Told(doc, layers, n, s) ==
  IF Since(layers, n, s) = {}
  THEN \E i \in 1 .. n : Uppermost(Mentions(layers, n, s), i) /\ doc[s] = layers[i][s]
  ELSE /\ IsTable(doc[s])
       /\ DOMAIN doc[s].keys = {k \in AllKeys : Says(layers, n, s, k) # {}}
       /\ \A k \in DOMAIN doc[s].keys :
            \E i \in 1 .. n : /\ Uppermost(Says(layers, n, s, k), i)
                              /\ doc[s].keys[k] = layers[i][s].keys[k]

\* What was laid as a table is a table that was laid since.
LEMMA TablesAreSince ==
  ASSUME NEW n \in Nat, NEW layers, NEW doc \in Docs, NEW s \in DOMAIN doc, Told(doc, layers, n, s)
  PROVE  IsTable(doc[s]) <=> Since(layers, n, s) # {}
<1>1. CASE Since(layers, n, s) = {}
  <2>1. PICK i \in 1 .. n : Uppermost(Mentions(layers, n, s), i) /\ doc[s] = layers[i][s]
    BY <1>1 DEF Told
  <2>2. \A j \in Mentions(layers, n, s) : j >= i => j = i
    <3>1. \A j \in Mentions(layers, n, s) : j <= i /\ j \in 1 .. n
      BY <2>1, MentionsGrow DEF Uppermost
    <3> QED
      BY <3>1
  <2>3. IsTable(layers[i][s]) => i \in Since(layers, n, s)
    BY <2>1, <2>2 DEF Since, Uppermost
  <2> QED
    BY <1>1, <2>1, <2>3
<1>2. CASE Since(layers, n, s) # {}
  BY <1>2 DEF Told
<1> QED
  BY <1>1, <1>2

\* A document that is its first n layers, with the next one merged into it, is its first
\* n + 1 layers.
LEMMA LayerLaid ==
  ASSUME NEW n \in Nat, NEW layers, layers[n + 1] \in Docs,
         NEW doc \in Docs, IsLayered(doc, layers, n)
  PROVE  IsLayered(Merge(doc, layers[n + 1]), layers, n + 1)
<1> DEFINE top == layers[n + 1]
           new == Merge(doc, top)
<1>1. /\ top \in Docs
      /\ new \in Docs /\ DOMAIN new = DOMAIN doc \cup DOMAIN top
      /\ \A s \in DOMAIN doc \ DOMAIN top : new[s] = doc[s]
      /\ \A s \in DOMAIN top : s \in DOMAIN doc /\ IsTable(doc[s]) /\ IsTable(top[s]) =>
           new[s] = Table(LaidOver(doc[s].keys, top[s].keys))
      /\ \A s \in DOMAIN top : ~(s \in DOMAIN doc /\ IsTable(doc[s]) /\ IsTable(top[s])) =>
           new[s] = top[s]
  BY MergedDocs
<1> HIDE DEF new
<1>2. /\ \A s \in DOMAIN doc : Told(doc, layers, n, s)
      /\ DOMAIN doc = {s \in AllSections : Mentions(layers, n, s) # {}}
  BY DEF IsLayered, Told
<1>3. DOMAIN new = {s \in AllSections : Mentions(layers, n + 1, s) # {}}
  <2>1. ASSUME NEW s \in AllSections
        PROVE  Mentions(layers, n + 1, s) # {} <=> (Mentions(layers, n, s) # {} \/ s \in DOMAIN top)
    <3>1. CASE s \in DOMAIN top
      <4>1. Mentions(layers, n + 1, s) = Mentions(layers, n, s) \cup {n + 1}
        BY <3>1, MentionsGrow
      <4> QED
        BY <3>1, <4>1
    <3>2. CASE s \notin DOMAIN top
      BY <3>2, MentionsGrow
    <3> QED
      BY <3>1, <3>2
  <2>2. DOMAIN top \subseteq AllSections
    BY <1>1, DocsAre
  <2> QED
    BY <1>1, <1>2, <2>1, <2>2
<1>4. \A i \in 1 .. n : i \in 1 .. n + 1 /\ i <= n + 1
  OBVIOUS
<1>5. n + 1 \in 1 .. n + 1
  OBVIOUS
<1>6. ASSUME NEW s \in DOMAIN doc, s \notin DOMAIN top PROVE Told(new, layers, n + 1, s)
  <2>1. /\ Mentions(layers, n + 1, s) = Mentions(layers, n, s)
        /\ Since(layers, n + 1, s) = Since(layers, n, s)
        /\ new[s] = doc[s] /\ Told(doc, layers, n, s)
    BY <1>1, <1>2, <1>6, MentionsGrow
  <2>2. \A k : Says(layers, n + 1, s, k) = Says(layers, n, s, k)
    BY <2>1 DEF Says
  <2> QED
    BY <1>4, <2>1, <2>2 DEF Told
<1>7. ASSUME NEW s \in DOMAIN top, ~IsTable(top[s]) PROVE Told(new, layers, n + 1, s)
  <2>1. /\ Mentions(layers, n + 1, s) = Mentions(layers, n, s) \cup {n + 1}
        /\ Since(layers, n + 1, s) = {}
        /\ Mentions(layers, n, s) \subseteq 1 .. n
    BY <1>7, MentionsGrow
  <2>2. Uppermost(Mentions(layers, n + 1, s), n + 1)
    BY <1>4, <2>1 DEF Uppermost
  <2>3. new[s] = top[s]
    BY <1>1, <1>7
  <2> QED
    BY <1>5, <2>1, <2>2, <2>3 DEF Told
<1>8. ASSUME NEW s \in DOMAIN top, IsTable(top[s]),
             IF s \in DOMAIN doc THEN ~IsTable(doc[s]) ELSE TRUE
      PROVE  Told(new, layers, n + 1, s)
  <2>1. Since(layers, n, s) = {}
    <3>1. CASE s \in DOMAIN doc
      BY <1>2, <1>8, <3>1, TablesAreSince
    <3>2. CASE s \notin DOMAIN doc
      <4>1. s \in AllSections
        BY <1>1, DocsAre
      <4> QED
        BY <1>2, <3>2, <4>1 DEF Since
    <3> QED
      BY <3>1, <3>2
  <2>2. Since(layers, n + 1, s) = {n + 1}
    BY <1>8, <2>1, MentionsGrow
  <2>3. new[s] = top[s]
    BY <1>1, <1>8
  <2>4. \A k : Says(layers, n + 1, s, k) = IF k \in DOMAIN top[s].keys THEN {n + 1} ELSE {}
    BY <2>2 DEF Says
  <2>5. DOMAIN top[s].keys \subseteq AllKeys
    BY <1>1, DocsAre, NodesAre
  <2>6. Uppermost({n + 1}, n + 1)
    BY DEF Uppermost
  <2> QED
    BY <1>5, <1>8, <2>2, <2>3, <2>4, <2>5, <2>6 DEF Told
<1>9. ASSUME NEW s \in DOMAIN top, IsTable(top[s]), s \in DOMAIN doc, IsTable(doc[s])
      PROVE  Told(new, layers, n + 1, s)
  <2> DEFINE old == doc[s].keys
             over == top[s].keys
  <2>1. Told(doc, layers, n, s) /\ Since(layers, n, s) # {}
    BY <1>2, <1>9, TablesAreSince
  <2>2. Since(layers, n + 1, s) = Since(layers, n, s) \cup {n + 1}
    BY <1>9, MentionsGrow
  <2>3. old \in DocTables /\ over \in DocTables
    BY <1>1, <1>9, DocsAre, NodesAre
  <2>4. /\ LaidOver(old, over) \in DocTables
        /\ DOMAIN LaidOver(old, over) = DOMAIN old \cup DOMAIN over
        /\ \A k \in DOMAIN over : LaidOver(old, over)[k] = over[k]
        /\ \A k \in DOMAIN old \ DOMAIN over : LaidOver(old, over)[k] = old[k]
    <3> HIDE DEF old, over
    <3> QED
      BY <2>3, LaidTables
  <2>5. new[s] = Table(LaidOver(old, over))
    BY <1>1, <1>9
  <2>6. IsTable(new[s]) /\ new[s].keys = LaidOver(old, over)
    BY <2>4, <2>5, NodesAre
  <2>7. \A k : Says(layers, n + 1, s, k) =
                 Says(layers, n, s, k) \cup (IF k \in DOMAIN over THEN {n + 1} ELSE {})
    BY <2>2 DEF Says
  <2>8. \A k : Says(layers, n, s, k) \subseteq 1 .. n
    BY MentionsGrow DEF Says, Since
  <2>9. /\ DOMAIN old = {k \in AllKeys : Says(layers, n, s, k) # {}}
        /\ \A k \in DOMAIN old : \E i \in 1 .. n : /\ Uppermost(Says(layers, n, s, k), i)
                                                   /\ old[k] = layers[i][s].keys[k]
    BY <2>1 DEF Told
  <2>10. DOMAIN over \subseteq AllKeys
    BY <2>3, NodesAre
  <2> HIDE DEF old
  <2>11. DOMAIN new[s].keys = {k \in AllKeys : Says(layers, n + 1, s, k) # {}}
    BY <2>4, <2>6, <2>7, <2>9, <2>10
  <2>12. ASSUME NEW k \in DOMAIN over
         PROVE  /\ Uppermost(Says(layers, n + 1, s, k), n + 1)
                /\ new[s].keys[k] = layers[n + 1][s].keys[k]
    <3>1. \A j \in Says(layers, n + 1, s, k) : j <= n + 1
      BY <1>4, <2>7, <2>8
    <3> QED
      BY <2>4, <2>6, <2>7, <3>1 DEF Uppermost
  <2>13. ASSUME NEW k \in DOMAIN old, k \notin DOMAIN over
         PROVE  \E i \in 1 .. n + 1 : /\ Uppermost(Says(layers, n + 1, s, k), i)
                                      /\ new[s].keys[k] = layers[i][s].keys[k]
    <3>1. Says(layers, n + 1, s, k) = Says(layers, n, s, k)
      BY <2>7, <2>13
    <3>2. PICK i \in 1 .. n : Uppermost(Says(layers, n, s, k), i) /\ old[k] = layers[i][s].keys[k]
      BY <2>9
    <3>3. new[s].keys[k] = old[k]
      BY <2>4, <2>6, <2>13
    <3> QED
      BY <1>4, <3>1, <3>2, <3>3
  <2>14. \A k \in DOMAIN new[s].keys : k \in DOMAIN over \/ (k \in DOMAIN old /\ k \notin DOMAIN over)
    BY <2>4, <2>6
  <2> HIDE DEF over
  <2>15. \A k \in DOMAIN new[s].keys :
           \E i \in 1 .. n + 1 : /\ Uppermost(Says(layers, n + 1, s, k), i)
                                 /\ new[s].keys[k] = layers[i][s].keys[k]
    BY <1>5, <2>12, <2>13, <2>14
  <2>16. Since(layers, n + 1, s) # {}
    BY <2>2
  <2> QED
    BY <2>6, <2>11, <2>15, <2>16 DEF Told
<1>10. \A s \in DOMAIN new : Told(new, layers, n + 1, s)
  BY <1>1, <1>6, <1>7, <1>8, <1>9
<1>11. IsLayered(new, layers, n + 1)
  BY <1>3, <1>10 DEF IsLayered, Told
<1> QED
  BY <1>11 DEF new

-----------------------------------------------------------------------------
(***************************************************************************)
(* A difference, applied.                                                  *)
(***************************************************************************)
\* Entries that say of every key what a target has there turn a table into the target.
LEMMA DifferencesApply ==
  ASSUME NEW table, NEW target, NEW entries, target = [x \in DOMAIN target |-> target[x]],
         \A e \in entries :
           IF e.kind = "removed" THEN Last(e.key) \notin DOMAIN target
           ELSE Last(e.key) \in DOMAIN target /\ e.to = target[Last(e.key)],
         \A x \in DOMAIN target : \/ x \in DOMAIN table /\ table[x] = target[x]
                                  \/ \E e \in entries : Last(e.key) = x,
         \A x \in DOMAIN table : x \in DOMAIN target \/ \E e \in entries : Last(e.key) = x
  PROVE  AppliedTo(table, entries) = target
<1> DEFINE same == Untouched(table, entries)
<1>1. \A x \in same : x \in DOMAIN target /\ table[x] = target[x]
  BY DEF Untouched
<1>2. GivenBy(entries) \subseteq DOMAIN target
  BY DEF GivenBy
<1>3. \A x \in DOMAIN target : x \in same \/ \E e \in entries : Last(e.key) = x
  BY DEF Untouched
<1>4. \A x \in DOMAIN target : (\E e \in entries : Last(e.key) = x) => x \in GivenBy(entries)
  BY DEF GivenBy
<1>5. same \cup GivenBy(entries) = DOMAIN target
  BY <1>1, <1>2, <1>3, <1>4
<1>6. ASSUME NEW x \in DOMAIN target, x \notin same
      PROVE  (CHOOSE e \in entries : Last(e.key) = x).to = target[x]
  <2>1. \E e \in entries : Last(e.key) = x
    BY <1>3, <1>6
  <2> QED
    BY <2>1
<1> HIDE DEF same
<1>7. [x \in same \cup GivenBy(entries) |->
         IF x \in same THEN table[x] ELSE (CHOOSE e \in entries : Last(e.key) = x).to] = target
  BY <1>1, <1>5, <1>6
<1> QED
  BY <1>7 DEF AppliedTo, same

\* The last part of a path of sections, and of a path of keys.
LEMMA PathsAre ==
  /\ \A x : /\ Len(Append(<<>>, x)) = 1 /\ Append(<<>>, x)[1] = x
            /\ Last(Append(<<>>, x)) = x
  /\ \A s, x : /\ Len(Append(<<s>>, x)) = 2 /\ Append(<<s>>, x)[1] = s
               /\ Last(Append(<<s>>, x)) = x
<1>1. ASSUME NEW x
      PROVE  Len(Append(<<>>, x)) = 1 /\ Append(<<>>, x)[1] = x
  <2>1. <<>> \in Seq({x}) /\ Len(<<>>) = 0
    OBVIOUS
  <2> QED
    BY <2>1, AppendProperties
<1>2. ASSUME NEW s, NEW x
      PROVE  Len(Append(<<s>>, x)) = 2 /\ Append(<<s>>, x)[1] = s /\ Append(<<s>>, x)[2] = x
  <2>1. <<s>> \in Seq({s, x}) /\ Len(<<s>>) = 1 /\ <<s>>[1] = s
    OBVIOUS
  <2>2. /\ Len(Append(<<s>>, x)) = 1 + 1
        /\ \A i \in 1 .. 1 : Append(<<s>>, x)[i] = <<s>>[i]
        /\ Append(<<s>>, x)[1 + 1] = x
    BY <2>1, AppendProperties
  <2> QED
    BY <2>1, <2>2
<1> QED
  BY <1>1, <1>2 DEF Last

\* What one level of a difference holds.
EntriesTell(a, b, prefix, entries) ==
  /\ \A e \in entries :
       \E x \in DOMAIN a \cup DOMAIN b :
         /\ e.key = Append(prefix, x)
         /\ IF e.kind = "removed" THEN x \in DOMAIN a /\ x \notin DOMAIN b
            ELSE x \in DOMAIN b /\ e.to = b[x] /\ (x \in DOMAIN a => a[x] # b[x])
  /\ \A x \in DOMAIN a : x \notin DOMAIN b => \E e \in entries : e.key = Append(prefix, x)
  /\ \A x \in DOMAIN b :
       (x \in DOMAIN a /\ a[x] = b[x]) \/ \E e \in entries : e.key = Append(prefix, x)

\* A level of diff tells how its second table departs from its first.
LEMMA EntriesAre ==
  ASSUME NEW a, NEW b, NEW prefix
  PROVE  EntriesTell(a, b, prefix, DiffEntries(a, b, prefix))
<1>1. ASSUME NEW e \in DiffEntries(a, b, prefix)
      PROVE  \E x \in DOMAIN a \cup DOMAIN b :
                /\ e.key = Append(prefix, x)
                /\ IF e.kind = "removed" THEN x \in DOMAIN a /\ x \notin DOMAIN b
                   ELSE x \in DOMAIN b /\ e.to = b[x] /\ (x \in DOMAIN a => a[x] # b[x])
  BY <1>1 DEF DiffEntries
<1>2. ASSUME NEW x \in DOMAIN a, x \notin DOMAIN b
      PROVE  \E e \in DiffEntries(a, b, prefix) : e.key = Append(prefix, x)
  <2>1. [key |-> Append(prefix, x), kind |-> "removed", to |-> Bare("null")]
          \in DiffEntries(a, b, prefix)
    BY <1>2 DEF DiffEntries
  <2> QED
    BY <2>1
<1>3. ASSUME NEW x \in DOMAIN b, x \notin DOMAIN a
      PROVE  \E e \in DiffEntries(a, b, prefix) : e.key = Append(prefix, x)
  <2>1. [key |-> Append(prefix, x), kind |-> "added", to |-> b[x]] \in DiffEntries(a, b, prefix)
    BY <1>3 DEF DiffEntries
  <2> QED
    BY <2>1
<1>4. ASSUME NEW x \in DOMAIN b, x \in DOMAIN a, a[x] # b[x]
      PROVE  \E e \in DiffEntries(a, b, prefix) : e.key = Append(prefix, x)
  <2>1. [key |-> Append(prefix, x), kind |-> "changed", to |-> b[x]] \in DiffEntries(a, b, prefix)
    BY <1>4 DEF DiffEntries
  <2> QED
    BY <2>1
<1> QED
  BY <1>1, <1>2, <1>3, <1>4 DEF EntriesTell

\* The keys of a table as bare nodes, and back.
LEMMA BareKeysAre ==
  ASSUME NEW node \in DocNodes
  PROVE  /\ DOMAIN BareKeys(node) = DOMAIN node.keys
         /\ BareKeys(node) = [k \in DOMAIN BareKeys(node) |-> BareKeys(node)[k]]
         /\ \A k \in DOMAIN node.keys : BareKeys(node)[k] = Bare(node.keys[k])
         /\ Unbare(BareKeys(node)) = node.keys
<1>1. node.keys \in DocTables
  BY NodesAre
<1>2. node.keys = [k \in DOMAIN node.keys |-> node.keys[k]]
  BY <1>1, NodesAre
<1>3. /\ DOMAIN BareKeys(node) = DOMAIN node.keys
      /\ BareKeys(node) = [k \in DOMAIN BareKeys(node) |-> BareKeys(node)[k]]
      /\ \A k \in DOMAIN node.keys : BareKeys(node)[k] = Bare(node.keys[k])
  BY DEF BareKeys
<1>4. \A k \in DOMAIN node.keys : Bare(node.keys[k]).bare = node.keys[k]
  BY DEF Bare
<1> QED
  BY <1>2, <1>3, <1>4 DEF Unbare

\* The difference of two tables of one section, applied to the first, gives the second.
LEMMA KeysApply ==
  ASSUME NEW a \in DocNodes, NEW b \in DocNodes, NEW s
  PROVE  AppliedTo(BareKeys(a), DiffEntries(BareKeys(a), BareKeys(b), <<s>>)) = BareKeys(b)
<1> DEFINE table == BareKeys(a)
           target == BareKeys(b)
           entries == DiffEntries(table, target, <<s>>)
<1>1. target = [x \in DOMAIN target |-> target[x]]
  BY BareKeysAre
<1> HIDE DEF table, target
<1>2. EntriesTell(table, target, <<s>>, entries)
  BY EntriesAre
<1> HIDE DEF entries
<1>3. \A x : Last(Append(<<s>>, x)) = x
  BY PathsAre
<1>4. ASSUME NEW e \in entries
      PROVE  IF e.kind = "removed" THEN Last(e.key) \notin DOMAIN target
             ELSE Last(e.key) \in DOMAIN target /\ e.to = target[Last(e.key)]
  <2>1. PICK x \in DOMAIN table \cup DOMAIN target :
          /\ e.key = Append(<<s>>, x)
          /\ IF e.kind = "removed" THEN x \in DOMAIN table /\ x \notin DOMAIN target
             ELSE x \in DOMAIN target /\ e.to = target[x]
    BY <1>2 DEF EntriesTell
  <2>2. Last(e.key) = x
    BY <1>3, <2>1
  <2> QED
    BY <2>1, <2>2
<1>5. \A x \in DOMAIN target : \/ x \in DOMAIN table /\ table[x] = target[x]
                               \/ \E e \in entries : Last(e.key) = x
  BY <1>2, <1>3 DEF EntriesTell
<1>6. \A x \in DOMAIN table : x \in DOMAIN target \/ \E e \in entries : Last(e.key) = x
  BY <1>2, <1>3 DEF EntriesTell
<1>7. AppliedTo(table, entries) = target
  BY <1>1, <1>4, <1>5, <1>6, DifferencesApply
<1> QED
  BY <1>7 DEF table, target, entries

\* Both are tables, and are compared key by key.
BothTables(a, b) == {s \in DOMAIN a \cap DOMAIN b : IsTable(a[s]) /\ IsTable(b[s])}

\* What diff says of sections, of keys, and which sections it names.
LEMMA DiffParts ==
  ASSUME NEW a \in Docs, NEW b \in Docs
  PROVE  /\ OfSections(Diff(a, b)) =
              {e \in DiffEntries(a, b, <<>>) : e.key[1] \notin BothTables(a, b)}
         /\ \A s \in BothTables(a, b) :
              OfKeys(Diff(a, b), s) = DiffEntries(BareKeys(a[s]), BareKeys(b[s]), <<s>>)
         /\ SectionsOf(Diff(a, b)) = {s \in DOMAIN a \cup DOMAIN b : Got(a, s) # Got(b, s)}
              \cup {s \in DOMAIN b : s \notin DOMAIN a /\ b[s] = Bare("null")}
              \cup {s \in DOMAIN a : s \notin DOMAIN b /\ a[s] = Bare("null")}
<1> DEFINE both == BothTables(a, b)
           whole == DiffEntries(a, b, <<>>)
           inner(s) == DiffEntries(BareKeys(a[s]), BareKeys(b[s]), <<s>>)
           diff == Diff(a, b)
<1>1. diff = {e \in whole : e.key[1] \notin both} \cup UNION {inner(s) : s \in both}
  BY DEF Diff, BothTables
<1>2. EntriesTell(a, b, <<>>, whole)
  BY EntriesAre
<1>3. \A s : EntriesTell(BareKeys(a[s]), BareKeys(b[s]), <<s>>, inner(s))
  BY EntriesAre
<1> HIDE DEF both, whole, inner, diff
<1>4. ASSUME NEW e \in whole PROVE Len(e.key) = 1 /\ e.key[1] \in DOMAIN a \cup DOMAIN b
  <2>1. PICK x \in DOMAIN a \cup DOMAIN b : e.key = Append(<<>>, x)
    BY <1>2 DEF EntriesTell
  <2> QED
    BY <2>1, PathsAre
<1>5. ASSUME NEW s \in both, NEW e \in inner(s) PROVE Len(e.key) = 2 /\ e.key[1] = s
  <2>1. \E x : e.key = Append(<<s>>, x)
    BY <1>3 DEF EntriesTell
  <2> QED
    BY <2>1, PathsAre
<1>6. OfSections(diff) = {e \in whole : e.key[1] \notin both}
  BY <1>1, <1>4, <1>5 DEF OfSections
<1>7. ASSUME NEW s \in both PROVE OfKeys(diff, s) = inner(s)
  BY <1>1, <1>4, <1>5, <1>7 DEF OfKeys
<1>8. \A s \in both : s \in DOMAIN a /\ s \in DOMAIN b /\ IsTable(a[s]) /\ IsTable(b[s])
  BY DEF both, BothTables
<1>9. ASSUME NEW s \in DOMAIN a \cup DOMAIN b, s \notin both
      PROVE  s \in SectionsOf(diff) <=> ~(s \in DOMAIN a /\ s \in DOMAIN b /\ a[s] = b[s])
  <2>1. s \in SectionsOf(diff) <=> \E e \in whole : e.key[1] = s
    BY <1>1, <1>5, <1>9 DEF SectionsOf
  <2>2. (\E e \in whole : e.key[1] = s) <=> \E e \in whole : e.key = Append(<<>>, s)
    <3>1. \A e \in whole : e.key[1] = s => e.key = Append(<<>>, s)
      BY <1>2, PathsAre DEF EntriesTell
    <3>2. \A e \in whole : e.key = Append(<<>>, s) => e.key[1] = s
      BY PathsAre
    <3> QED
      BY <3>1, <3>2
  <2>3. s \in DOMAIN a /\ s \in DOMAIN b /\ a[s] = b[s] => ~\E e \in whole : e.key = Append(<<>>, s)
    <3> SUFFICES ASSUME s \in DOMAIN a, s \in DOMAIN b, a[s] = b[s],
                        NEW e \in whole, e.key = Append(<<>>, s)
                 PROVE  FALSE
      OBVIOUS
    <3>1. PICK x \in DOMAIN a \cup DOMAIN b :
            /\ e.key = Append(<<>>, x)
            /\ IF e.kind = "removed" THEN x \in DOMAIN a /\ x \notin DOMAIN b
               ELSE x \in DOMAIN b /\ e.to = b[x] /\ (x \in DOMAIN a => a[x] # b[x])
      BY <1>2 DEF EntriesTell
    <3>2. x = s
      <4>1. Append(<<>>, x)[1] = x /\ Append(<<>>, s)[1] = s
        BY PathsAre
      <4> QED
        BY <3>1, <4>1
    <3> QED
      BY <3>1, <3>2
  <2>4. ~(s \in DOMAIN a /\ s \in DOMAIN b /\ a[s] = b[s]) => \E e \in whole : e.key = Append(<<>>, s)
    BY <1>2 DEF EntriesTell
  <2> QED
    BY <2>1, <2>2, <2>3, <2>4
<1>10. ASSUME NEW s \in both PROVE s \in SectionsOf(diff) <=> a[s] # b[s]
  <2> DEFINE p == BareKeys(a[s])
             q == BareKeys(b[s])
  <2>1. a[s] \in DocNodes /\ b[s] \in DocNodes
    BY <1>8, DocsAre
  <2>2. s \in SectionsOf(diff) <=> inner(s) # {}
    <3>1. \A e \in inner(s) : e \in diff /\ e.key[1] = s
      BY <1>1, <1>5
    <3>2. \A e \in diff : e.key[1] = s => e \in inner(s)
      BY <1>1, <1>5
    <3> QED
      BY <3>1, <3>2 DEF SectionsOf
  <2>3. ASSUME a[s] = b[s] PROVE inner(s) = {}
    <3>1. EntriesTell(p, q, <<s>>, inner(s)) /\ p = q
      BY <1>3, <2>3
    <3> HIDE DEF p, q
    <3> QED
      BY <3>1 DEF EntriesTell
  <2>4. ASSUME inner(s) = {} PROVE a[s] = b[s]
    <3>1. EntriesTell(p, q, <<s>>, inner(s))
      BY <1>3
    <3>2. p = [k \in DOMAIN p |-> p[k]] /\ q = [k \in DOMAIN q |-> q[k]]
      BY <2>1, BareKeysAre
    <3>3. Unbare(p) = a[s].keys /\ Unbare(q) = b[s].keys
      BY <2>1, BareKeysAre
    <3> HIDE DEF p, q
    <3>4. DOMAIN p = DOMAIN q /\ \A k \in DOMAIN q : p[k] = q[k]
      BY <2>4, <3>1 DEF EntriesTell
    <3>5. p = q
      BY <3>2, <3>4
    <3>6. a[s] = Table(a[s].keys) /\ b[s] = Table(b[s].keys)
      BY <1>8, <2>1, NodesAre
    <3> QED
      BY <3>3, <3>5, <3>6
  <2> QED
    BY <2>2, <2>3, <2>4
<1>11. SectionsOf(diff) \subseteq DOMAIN a \cup DOMAIN b
  BY <1>1, <1>4, <1>5, <1>8 DEF SectionsOf
<1>12. \A s \in DOMAIN a \cup DOMAIN b :
         s \in SectionsOf(diff) <=> ~(s \in DOMAIN a /\ s \in DOMAIN b /\ a[s] = b[s])
  BY <1>8, <1>9, <1>10
<1>13. SectionsOf(diff) = {s \in DOMAIN a \cup DOMAIN b : Got(a, s) # Got(b, s)}
              \cup {s \in DOMAIN b : s \notin DOMAIN a /\ b[s] = Bare("null")}
              \cup {s \in DOMAIN a : s \notin DOMAIN b /\ a[s] = Bare("null")}
  BY <1>11, <1>12 DEF Got
<1> QED
  BY <1>6, <1>7, <1>13 DEF diff, whole, both, inner

\* A difference applied to the first document gives the second.
LEMMA DiffApplies ==
  ASSUME NEW a \in Docs, NEW b \in Docs
  PROVE  Applied(a, Diff(a, b)) = b
<1> DEFINE both == BothTables(a, b)
           diff == Diff(a, b)
           table == [s \in DOMAIN a |->
                       IF IsTable(a[s])
                       THEN Table(Unbare(AppliedTo(BareKeys(a[s]), OfKeys(diff, s)))) ELSE a[s]]
           entries == OfSections(diff)
<1>1. entries = {e \in DiffEntries(a, b, <<>>) : e.key[1] \notin both}
  BY DiffParts
<1>2. EntriesTell(a, b, <<>>, DiffEntries(a, b, <<>>))
  BY EntriesAre
<1>3. ASSUME NEW s \in both PROVE s \in DOMAIN table /\ s \in DOMAIN b /\ table[s] = b[s]
  <2>1. s \in DOMAIN a /\ s \in DOMAIN b /\ IsTable(a[s]) /\ IsTable(b[s])
    BY <1>3 DEF BothTables
  <2>2. a[s] \in DocNodes /\ b[s] \in DocNodes
    BY <2>1, DocsAre
  <2>3. AppliedTo(BareKeys(a[s]), OfKeys(diff, s)) = BareKeys(b[s])
    <3>1. OfKeys(diff, s) = DiffEntries(BareKeys(a[s]), BareKeys(b[s]), <<s>>)
      BY <1>3, DiffParts
    <3>2. AppliedTo(BareKeys(a[s]), DiffEntries(BareKeys(a[s]), BareKeys(b[s]), <<s>>))
            = BareKeys(b[s])
      BY <2>2, KeysApply
    <3> QED
      BY <3>1, <3>2
  <2>4. Table(Unbare(BareKeys(b[s]))) = b[s]
    BY <2>1, <2>2, BareKeysAre, NodesAre
  <2>5. table[s] = Table(Unbare(AppliedTo(BareKeys(a[s]), OfKeys(diff, s))))
    BY <2>1
  <2> HIDE DEF table, diff
  <2>6. DOMAIN table = DOMAIN a
    BY DEF table
  <2> QED
    BY <2>1, <2>3, <2>4, <2>5, <2>6
<1>4. DOMAIN table = DOMAIN a /\ \A s \in DOMAIN a : ~IsTable(a[s]) => table[s] = a[s]
  OBVIOUS
<1>5. \A s : s \in both <=> s \in DOMAIN a /\ s \in DOMAIN b /\ IsTable(a[s]) /\ IsTable(b[s])
  BY DEF BothTables
<1>6. b = [s \in DOMAIN b |-> b[s]]
  BY DocsAre
<1>7. Applied(a, diff) = AppliedTo(table, entries)
  BY DEF Applied
<1>8. \A x : Append(<<>>, x)[1] = x /\ Last(Append(<<>>, x)) = x
  BY PathsAre
<1> HIDE DEF both, diff, table, entries
<1>9. ASSUME NEW e \in entries
      PROVE  IF e.kind = "removed" THEN Last(e.key) \notin DOMAIN b
             ELSE Last(e.key) \in DOMAIN b /\ e.to = b[Last(e.key)]
  <2>1. PICK x \in DOMAIN a \cup DOMAIN b :
          /\ e.key = Append(<<>>, x)
          /\ IF e.kind = "removed" THEN x \in DOMAIN a /\ x \notin DOMAIN b
             ELSE x \in DOMAIN b /\ e.to = b[x]
    BY <1>1, <1>2 DEF EntriesTell
  <2>2. Last(e.key) = x
    BY <1>8, <2>1
  <2> QED
    BY <2>1, <2>2
<1>10. ASSUME NEW x \in DOMAIN b
       PROVE  \/ x \in DOMAIN table /\ table[x] = b[x]
              \/ \E e \in entries : Last(e.key) = x
  <2>1. CASE x \in both
    BY <1>3, <2>1
  <2>2. CASE x \notin both /\ x \in DOMAIN a /\ a[x] = b[x]
    BY <1>4, <1>5, <2>2
  <2>3. CASE x \notin both /\ ~(x \in DOMAIN a /\ a[x] = b[x])
    <3>1. PICK e \in DiffEntries(a, b, <<>>) : e.key = Append(<<>>, x)
      BY <1>2, <2>3 DEF EntriesTell
    <3>2. e \in entries /\ Last(e.key) = x
      BY <1>1, <1>8, <2>3, <3>1
    <3> QED
      BY <3>2
  <2> QED
    BY <2>1, <2>2, <2>3
<1>11. ASSUME NEW x \in DOMAIN table, x \notin DOMAIN b PROVE \E e \in entries : Last(e.key) = x
  <2>1. PICK e \in DiffEntries(a, b, <<>>) : e.key = Append(<<>>, x)
    BY <1>2, <1>4, <1>11 DEF EntriesTell
  <2>2. e \in entries /\ Last(e.key) = x
    BY <1>1, <1>5, <1>8, <1>11, <2>1
  <2> QED
    BY <2>2
<1>12. AppliedTo(table, entries) = b
  BY <1>6, <1>9, <1>10, <1>11, DifferencesApply
<1> QED
  BY <1>7, <1>12 DEF diff

-----------------------------------------------------------------------------
(***************************************************************************)
(* The lines of a file.                                                    *)
(***************************************************************************)
\* Every line that a file can have.
LineOf(s, k, v) == [path |-> IF k = "none" THEN <<s>> ELSE <<s, k>>, value |-> v]
AnyLines == {LineOf(s, k, v) : s \in AllSections, k \in AllKeys \cup {"none"}, v \in Values}

\* What a line is.
LEMMA LinesAre ==
  /\ \A line \in AnyLines :
       /\ line.path[1] \in AllSections /\ line.value \in Values
       /\ Len(line.path) = 1 \/ (Len(line.path) = 2 /\ line.path[2] \in AllKeys)
  /\ \A s \in AllSections, v \in Values : [path |-> <<s>>, value |-> v] \in AnyLines
  /\ \A s \in AllSections, k \in AllKeys, v \in Values :
       [path |-> <<s, k>>, value |-> v] \in AnyLines
  /\ NoFile \notin Seq(AnyLines)
<1>1. ASSUME NEW line \in AnyLines
      PROVE  /\ line.path[1] \in AllSections /\ line.value \in Values
             /\ Len(line.path) = 1 \/ (Len(line.path) = 2 /\ line.path[2] \in AllKeys)
  <2>1. PICK s \in AllSections, k \in AllKeys \cup {"none"}, v \in Values : line = LineOf(s, k, v)
    BY DEF AnyLines
  <2>2. CASE k = "none"
    BY <2>1, <2>2 DEF LineOf
  <2>3. CASE k # "none"
    BY <2>1, <2>3 DEF LineOf
  <2> QED
    BY <2>2, <2>3
<1>2. ASSUME NEW s \in AllSections, NEW v \in Values PROVE [path |-> <<s>>, value |-> v] \in AnyLines
  <2>1. LineOf(s, "none", v) \in AnyLines
    BY DEF AnyLines
  <2> QED
    BY <2>1 DEF LineOf
<1>3. ASSUME NEW s \in AllSections, NEW k \in AllKeys, NEW v \in Values
      PROVE  [path |-> <<s, k>>, value |-> v] \in AnyLines
  <2>1. LineOf(s, k, v) \in AnyLines
    BY DEF AnyLines
  <2>2. k # "none"
    BY DEF AllKeys
  <2> QED
    BY <2>1, <2>2 DEF LineOf
<1>4. NoFile \notin Seq(AnyLines)
  <2> SUFFICES ASSUME NoFile \in Seq(AnyLines) PROVE FALSE
    OBVIOUS
  <2>1. Len(NoFile) = 1 /\ NoFile[1].path = <<>>
    BY DEF NoFile
  <2>2. NoFile[1] \in AnyLines
    <3>1. \A i \in 1 .. Len(NoFile) : NoFile[i] \in AnyLines
      BY ElementOfSeq
    <3>2. 1 \in 1 .. Len(NoFile)
      BY <2>1
    <3> QED
      BY <3>1, <3>2
  <2>3. Len(NoFile[1].path) # 0
    BY <1>1, <2>2
  <2> QED
    BY <2>1, <2>3
<1> QED
  BY <1>1, <1>2, <1>3, <1>4

\* There are finitely many lines.
LEMMA LinesFinite == IsFiniteSet(AnyLines)
<1> DEFINE P == AllSections \X ((AllKeys \cup {"none"}) \X Values)
           f == [p \in P |-> LineOf(p[1], p[2][1], p[2][2])]
<1>1. IsFiniteSet(AllSections)
  <2>1. IsFiniteSet({"security"} \cup {"database"} \cup {"unknown"})
    BY FS_Singleton, FS_Union
  <2>2. AllSections = {"security"} \cup {"database"} \cup {"unknown"}
    BY DEF AllSections, Required
  <2> QED
    BY <2>1, <2>2
<1>2. IsFiniteSet(AllKeys \cup {"none"})
  <2>1. IsFiniteSet({"tls_required"} \cup {"echo"} \cup {"none"})
    BY FS_Singleton, FS_Union
  <2>2. AllKeys \cup {"none"} = {"tls_required"} \cup {"echo"} \cup {"none"}
    BY DEF AllKeys
  <2> QED
    BY <2>1, <2>2
<1>3. IsFiniteSet(Values)
  <2>1. IsFiniteSet(({"true"} \cup {"false"}) \cup ({"null"} \cup {"None"}))
    BY FS_Singleton, FS_Union
  <2>2. Values = ({"true"} \cup {"false"}) \cup ({"null"} \cup {"None"})
    BY DEF Values
  <2> QED
    BY <2>1, <2>2
<1>4. IsFiniteSet((AllKeys \cup {"none"}) \X Values)
  BY <1>2, <1>3, FS_Product
<1>5. IsFiniteSet(P)
  BY <1>1, <1>4, FS_Product
<1>7. f \in [P -> AnyLines]
  BY DEF AnyLines
<1>8. \A line \in AnyLines : \E p \in P : f[p] = line
  <2> SUFFICES ASSUME NEW line \in AnyLines PROVE \E p \in P : f[p] = line
    OBVIOUS
  <2>1. PICK s \in AllSections, k \in AllKeys \cup {"none"}, v \in Values : line = LineOf(s, k, v)
    BY DEF AnyLines
  <2>2. <<s, <<k, v>>>> \in P
    OBVIOUS
  <2>3. f[<<s, <<k, v>>>>] = LineOf(s, k, v)
    BY <2>2
  <2> HIDE DEF f, P
  <2> QED
    BY <2>1, <2>2, <2>3
<1>9. f \in Surjection(P, AnyLines)
  <2> HIDE DEF f, P
  <2> QED
    BY <1>7, <1>8 DEF Surjection
<1> HIDE DEF f, P
<1> QED
  BY <1>5, <1>9, FS_Surjection

\* A document in the lines of a file, in some order.
LEMMA FilesAre ==
  ASSUME NEW doc \in Docs
  PROVE  SetToSeq(Exported(doc)) \in Seq(AnyLines)
<1> DEFINE S == Exported(doc)
<1>1. S \subseteq AnyLines
  <2>1. ASSUME NEW s \in DOMAIN doc PROVE s \in AllSections /\ doc[s] \in DocNodes
    BY DocsAre
  <2>2. \A v \in Values : Text(v) \in Values
    BY DEF Text, Values
  <2>3. ASSUME NEW s \in DOMAIN doc, ~IsTable(doc[s])
        PROVE  [path |-> <<s>>, value |-> Text(doc[s].bare)] \in AnyLines
    <3>1. s \in AllSections /\ Text(doc[s].bare) \in Values
      BY <2>1, <2>2, <2>3, NodesAre
    <3> QED
      BY <3>1, LinesAre
  <2>4. ASSUME NEW s \in DOMAIN doc, NEW k \in DOMAIN doc[s].keys
        PROVE  [path |-> <<s, k>>, value |-> Text(doc[s].keys[k])] \in AnyLines
    <3>1. s \in AllSections /\ doc[s].keys \in DocTables
      BY <2>1, NodesAre
    <3>2. k \in AllKeys /\ Text(doc[s].keys[k]) \in Values
      BY <2>2, <3>1, NodesAre
    <3> QED
      BY <3>1, <3>2, LinesAre
  <2> QED
    BY <2>3, <2>4 DEF Exported
<1> HIDE DEF S
<1>2. IsFiniteSet(S)
  BY <1>1, LinesFinite, FS_Subset
<1>3. ExistsBijection(1 .. Cardinality(S), S) /\ Cardinality(S) \in Nat
  BY <1>2, FS_CardinalityType
<1>4. PICK n \in Nat : n = Cardinality(S) /\ ExistsBijection(1 .. n, S)
  BY <1>3
<1>5. PICK g \in [1 .. n -> S] : IsInjective(g)
  <2>1. PICK g \in Bijection(1 .. n, S) : TRUE
    BY <1>4 DEF ExistsBijection
  <2> QED
    BY <2>1 DEF Bijection, Injection, IsInjective
<1>6. SetToSeq(S) \in [1 .. n -> S]
  BY <1>4, <1>5 DEF SetToSeq
<1>7. SetToSeq(S) \in Seq(S)
  BY <1>6, SeqDef
<1>8. SetToSeq(S) \in Seq(AnyLines)
  <2>1. SetToSeq(S) \in [1 .. n -> AnyLines]
    BY <1>1, <1>6
  <2> QED
    BY <2>1, SeqDef
<1> QED
  BY <1>8 DEF S

\* Documents and tables of one entry.
LEMMA OnlyAre ==
  /\ \A s \in AllSections, node \in DocNodes : Only(s, node) \in Docs
  /\ \A k \in AllKeys, v \in Values : Only(k, v) \in DocTables
  /\ \A k, v : DOMAIN Only(k, v) = {k} /\ Only(k, v)[k] = v
<1>1. \A k, v : DOMAIN Only(k, v) = {k} /\ Only(k, v)[k] = v
  BY DEF Only
<1>2. ASSUME NEW s \in AllSections, NEW node \in DocNodes PROVE Only(s, node) \in Docs
  <2>1. Only(s, node) \in [{s} -> DocNodes]
    BY DEF Only
  <2> QED
    BY <2>1 DEF Docs
<1>3. ASSUME NEW k \in AllKeys, NEW v \in Values PROVE Only(k, v) \in DocTables
  <2>1. Only(k, v) \in [{k} -> Values]
    BY DEF Only
  <2> QED
    BY <2>1 DEF DocTables
<1> QED
  BY <1>1, <1>2, <1>3

\* What one line says is a document of one section.
LEMMA SaidAre ==
  ASSUME NEW line \in AnyLines
  PROVE  /\ Said(line) \in Docs /\ DOMAIN Said(line) = {line.path[1]}
         /\ Len(line.path) = 1 => Said(line)[line.path[1]] = Bare(line.value)
         /\ Len(line.path) = 2 => Said(line)[line.path[1]] = Table(Only(line.path[2], line.value))
<1> DEFINE node == IF Len(line.path) = 1 THEN Bare(line.value)
                   ELSE Table(Only(line.path[2], line.value))
<1>1. node \in DocNodes
  <2>1. CASE Len(line.path) = 1
    BY <2>1, LinesAre, NodesAre
  <2>2. CASE Len(line.path) # 1
    <3>1. Only(line.path[2], line.value) \in DocTables
      BY <2>2, LinesAre, OnlyAre
    <3> QED
      BY <2>2, <3>1, NodesAre
  <2> QED
    BY <2>1, <2>2
<1>2. Said(line) = Only(line.path[1], node)
  BY DEF Said
<1>3. line.path[1] \in AllSections
  BY LinesAre
<1>4. Len(line.path) = 1 => node = Bare(line.value)
  OBVIOUS
<1>5. Len(line.path) = 2 => node = Table(Only(line.path[2], line.value))
  OBVIOUS
<1> HIDE DEF node
<1>6. Said(line) \in Docs
  BY <1>1, <1>2, <1>3, OnlyAre
<1>7. DOMAIN Said(line) = {line.path[1]} /\ Said(line)[line.path[1]] = node
  BY <1>2, OnlyAre
<1> QED
  BY <1>4, <1>5, <1>6, <1>7

-----------------------------------------------------------------------------
(***************************************************************************)
(* The documents of a run.                                                 *)
(***************************************************************************)
\* The document and its layers are documents, and a file is of lines.
CfTypes ==
  /\ cfEnv \in Environments /\ cfDoc \in Docs /\ cfLayers \in Seq(Docs)
  /\ cfLines # NoFile => cfLines \in Seq(AnyLines)

\* While a file is read, the document is its layers as far as the file was read, and what
\* is left of the file are the layers that are left.
CfRead(m) ==
  /\ Len(cfLayers) = m + Len(cfLines) /\ IsLayered(cfDoc, cfLayers, m)
  /\ \A i \in 1 .. Len(cfLines) : cfLayers[m + i] = Said(cfLines[i])

\* The inductive invariant.
CfInv ==
  /\ CfTypes
  /\ cfLines = NoFile => IsLayered(cfDoc, cfLayers, Len(cfLayers))
  /\ cfLines # NoFile => \E m \in Nat : CfRead(m)

\* Layers that lie further up do not matter yet.
LEMMA LayersAgree ==
  ASSUME NEW n \in Nat, NEW layers, NEW more, \A i \in 1 .. n : more[i] = layers[i],
         NEW doc, IsLayered(doc, layers, n)
  PROVE  IsLayered(doc, more, n)
<1>1. \A s : Mentions(more, n, s) = Mentions(layers, n, s)
  BY DEF Mentions
<1>2. \A s : Mentions(layers, n, s) \subseteq 1 .. n
  BY DEF Mentions
<1>3. \A s : Since(more, n, s) = Since(layers, n, s)
  BY <1>1, <1>2 DEF Since
<1>4. \A s : Since(layers, n, s) \subseteq 1 .. n
  BY <1>2 DEF Since
<1>5. \A s, k : Says(more, n, s, k) = Says(layers, n, s, k)
  BY <1>3, <1>4 DEF Says
<1>6. DOMAIN doc = {s \in AllSections : Mentions(more, n, s) # {}}
  BY <1>1 DEF IsLayered
<1>7. ASSUME NEW s \in DOMAIN doc PROVE Told(doc, more, n, s)
  <2>1. Told(doc, layers, n, s)
    BY DEF IsLayered, Told
  <2> QED
    BY <1>1, <1>3, <1>5, <2>1 DEF Told
<1> QED
  BY <1>6, <1>7 DEF IsLayered, Told

\* The empty document is what no layer says.
LEMMA NoLayers ==
  ASSUME NEW layers
  PROVE  IsLayered(<<>>, layers, 0)
<1>1. \A s : Mentions(layers, 0, s) = {}
  BY DEF Mentions
<1> QED
  BY <1>1 DEF IsLayered

\* Profiles are documents of tables.
LEMMA ProfilesAre ==
  /\ BaseProfile \in Docs /\ \A env \in Environments : EnvironmentOverrides(env) \in Docs
  /\ \A env \in Environments : Profile(env) \in Docs
  /\ \A env \in Environments : \A s \in DOMAIN Profile(env) : IsTable(Profile(env)[s])
<1> DEFINE Whole(doc) == doc \in Docs /\ \A s \in DOMAIN doc : IsTable(doc[s])
<1>1. ASSUME NEW t \in DocTables, NEW s \in AllSections PROVE Whole(Only(s, Table(t)))
  <2>1. Table(t) \in DocNodes /\ IsTable(Table(t))
    BY NodesAre
  <2> DEFINE node == Table(t)
             doc == Only(s, node)
  <2>2. doc \in Docs
    BY <2>1, OnlyAre
  <2>3. DOMAIN doc = {s} /\ doc[s] = node
    BY OnlyAre
  <2> HIDE DEF doc
  <2>4. \A x \in DOMAIN doc : IsTable(doc[x])
    <3> SUFFICES ASSUME NEW x \in DOMAIN doc PROVE IsTable(doc[x])
      OBVIOUS
    <3>1. doc[x] = node
      BY <2>3
    <3> QED
      BY <2>1, <3>1
  <2>5. Whole(doc)
    BY <2>2, <2>4
  <2> QED
    BY <2>5 DEF doc
<1>2. ASSUME NEW v \in Values
      PROVE  Whole(Only("security", Tls(v))) /\ Whole(Only("database", Echo(v)))
  <2>1. Only("tls_required", v) \in DocTables /\ Only("echo", v) \in DocTables
    BY OnlyAre DEF AllKeys
  <2>2. "security" \in AllSections /\ "database" \in AllSections
    BY DEF AllSections, Required
  <2> HIDE DEF Whole
  <2> QED
    BY <1>1, <2>1, <2>2 DEF Tls, Echo
<1>3. ASSUME NEW a, NEW b, Whole(a), Whole(b) PROVE Whole(LaidOver(a, b))
  <2>1. DOMAIN a \cup DOMAIN b \in SUBSET AllSections
    BY <1>3, DocsAre
  <2>2. \A s \in DOMAIN a \cup DOMAIN b : LaidOver(a, b)[s] \in DocNodes /\ IsTable(LaidOver(a, b)[s])
    BY <1>3, DocsAre DEF LaidOver
  <2>3. /\ LaidOver(a, b) = [s \in DOMAIN a \cup DOMAIN b |-> LaidOver(a, b)[s]]
        /\ DOMAIN LaidOver(a, b) = DOMAIN a \cup DOMAIN b
    BY DEF LaidOver
  <2>4. LaidOver(a, b) \in [DOMAIN a \cup DOMAIN b -> DocNodes]
    BY <2>2, <2>3
  <2> QED
    BY <2>1, <2>2, <2>3, <2>4, DocsAre
<1>4. ASSUME NEW a, NEW b, Whole(a), Whole(b) PROVE Whole(Merge(a, b))
  <2>1. /\ a \in Docs /\ b \in Docs
        /\ \A s \in DOMAIN a : IsTable(a[s]) /\ a[s].keys \in DocTables
        /\ \A s \in DOMAIN b : IsTable(b[s]) /\ b[s].keys \in DocTables
    BY <1>4, DocsAre, NodesAre
  <2>2. Merge(a, b) \in Docs /\ DOMAIN Merge(a, b) = DOMAIN a \cup DOMAIN b
    BY <2>1, MergedDocs
  <2>3. ASSUME NEW s \in DOMAIN a \cup DOMAIN b PROVE IsTable(Merge(a, b)[s])
    <3>1. CASE s \notin DOMAIN b
      <4>1. s \in DOMAIN a \ DOMAIN b
        BY <3>1
      <4>2. \A x \in DOMAIN a \ DOMAIN b : Merge(a, b)[x] = a[x]
        BY DEF Merge
      <4>3. Merge(a, b)[s] = a[s]
        BY <4>1, <4>2
      <4> QED
        BY <2>1, <4>1, <4>3
    <3>2. CASE s \in DOMAIN b /\ s \notin DOMAIN a
      <4>1. Merge(a, b)[s] = b[s]
        BY <2>1, <3>2, MergedDocs
      <4> QED
        BY <2>1, <3>2, <4>1
    <3>3. CASE s \in DOMAIN b /\ s \in DOMAIN a
      <4>1. Merge(a, b)[s] = Table(LaidOver(a[s].keys, b[s].keys))
        BY <2>1, <3>3, MergedDocs
      <4> QED
        BY <4>1 DEF IsTable, Table
    <3> QED
      BY <3>1, <3>2, <3>3
  <2> QED
    BY <2>2, <2>3
<1>5. Whole(BaseProfile)
  <2> HIDE DEF Whole
  <2> QED
    BY <1>2, <1>3 DEF BaseProfile, Values
<1>6. ASSUME NEW env \in Environments PROVE Whole(EnvironmentOverrides(env))
  <2>1. "true" \in Values /\ "false" \in Values
    BY DEF Values
  <2>2. /\ Whole(Only("database", Echo("true"))) /\ Whole(Only("database", Echo("false")))
        /\ Whole(Only("security", Tls("true"))) /\ Whole(Only("security", Tls("false")))
    BY <1>2, <2>1
  <2>3. /\ Whole(LaidOver(Only("database", Echo("true")), Only("security", Tls("false"))))
        /\ Whole(LaidOver(Only("database", Echo("false")), Only("security", Tls("true"))))
    BY <1>3, <2>2
  <2> HIDE DEF Whole
  <2> QED
    BY <2>2, <2>3 DEF EnvironmentOverrides, Environments
<1>7. \A env \in Environments : Whole(Profile(env))
  BY <1>4, <1>5, <1>6 DEF Profile
<1> QED
  BY <1>5, <1>6, <1>7

\* There is no document at first.
LEMMA CfStarts == CfInit => CfInv
<1> SUFFICES ASSUME CfInit PROVE CfInv
  OBVIOUS
<1>1. cfEnv \in Environments /\ cfDoc = <<>> /\ cfLayers = <<>> /\ cfLines = NoFile
  BY DEF CfInit
<1>2. CfTypes
  BY <1>1, DocsAre, EmptySeq DEF CfTypes
<1>3. IsLayered(cfDoc, cfLayers, Len(cfLayers))
  BY <1>1, NoLayers
<1> QED
  BY <1>1, <1>2, <1>3 DEF CfInv

\* There is no document, as before anything was laid.
LEMMA NothingLaid ==
  ASSUME CfTypes, cfDoc' = <<>>, cfLayers' = <<>>, cfLines' = NoFile, cfEnv' = cfEnv
  PROVE  CfInv'
<1>1. CfTypes'
  BY DocsAre, EmptySeq DEF CfTypes
<1>2. IsLayered(cfDoc', cfLayers', Len(cfLayers'))
  BY NoLayers
<1> QED
  BY <1>1, <1>2 DEF CfInv

\* A profile is its base under the overrides of its environment.
LEMMA ProfileLaid ==
  ASSUME CfInv, GetProfile
  PROVE  CfInv'
<1> DEFINE over == EnvironmentOverrides(cfEnv)
           layers == <<BaseProfile, over>>
<1>1. cfEnv \in Environments
  BY DEF CfInv, CfTypes
<1>2. BaseProfile \in Docs /\ over \in Docs
  BY <1>1, ProfilesAre
<1>3. /\ cfDoc' = Merge(BaseProfile, over) /\ cfLayers' = layers
      /\ cfLines = NoFile /\ cfLines' = cfLines /\ cfEnv' = cfEnv
  BY DEF GetProfile, Profile
<1> HIDE DEF over
<1>4. layers[1] = BaseProfile /\ layers[2] = over /\ Len(layers) = 2 /\ layers \in Seq(Docs)
  BY <1>2
<1> HIDE DEF layers
<1>5. Merge(<<>>, BaseProfile) = BaseProfile
  <2>1. BaseProfile = [s \in DOMAIN BaseProfile |-> BaseProfile[s]]
    BY <1>2, DocsAre
  <2>2. DOMAIN <<>> = {}
    OBVIOUS
  <2> QED
    BY <2>1, <2>2 DEF Merge
<1>6. IsLayered(BaseProfile, layers, 1)
  <2>1. IsLayered(Merge(<<>>, layers[0 + 1]), layers, 0 + 1)
    <3>1. IsLayered(<<>>, layers, 0) /\ layers[0 + 1] \in Docs /\ <<>> \in Docs
      BY <1>2, <1>4, NoLayers, DocsAre
    <3> QED
      BY <3>1, LayerLaid
  <2> QED
    BY <1>4, <1>5, <2>1
<1>7. IsLayered(Merge(BaseProfile, over), layers, 2)
  <2>1. IsLayered(Merge(BaseProfile, layers[1 + 1]), layers, 1 + 1)
    <3>1. layers[1 + 1] \in Docs
      BY <1>2, <1>4
    <3> QED
      BY <1>2, <1>6, <3>1, LayerLaid
  <2> QED
    BY <1>4, <2>1
<1>8. Merge(BaseProfile, over) \in Docs
  BY <1>2, MergedDocs
<1>9. CfTypes'
  BY <1>1, <1>3, <1>4, <1>8 DEF CfTypes
<1> QED
  BY <1>3, <1>4, <1>7, <1>9 DEF CfInv

\* A caller lays one layer more.
LEMMA OverrideLaid ==
  ASSUME CfInv, Override
  PROVE  CfInv'
<1>1. PICK s \in AllSections, node \in OverrideNodes :
        cfDoc' = Merge(cfDoc, Only(s, node)) /\ cfLayers' = Append(cfLayers, Only(s, node))
  BY DEF Override
<1>2. cfLines = NoFile /\ cfLines' = cfLines /\ cfEnv' = cfEnv
  BY DEF Override
<1>3. node \in DocNodes
  <2>1. {Bare(v) : v \in {"true", "null"}} \subseteq DocNodes
    BY NodesAre DEF Values
  <2>2. Table(<<>>) \in DocNodes
    BY NodesAre
  <2>3. ASSUME NEW k \in AllKeys, NEW v \in {"true", "false"} PROVE Table(Only(k, v)) \in DocNodes
    <3>1. v \in Values
      BY DEF Values
    <3>2. Only(k, v) \in DocTables
      BY <3>1, OnlyAre
    <3> QED
      BY <3>2, NodesAre
  <2> QED
    BY <2>1, <2>2, <2>3 DEF OverrideNodes
<1> DEFINE layer == Only(s, node)
<1>4. layer \in Docs
  BY <1>3, OnlyAre
<1> HIDE DEF layer
<1>5. cfDoc \in Docs /\ cfLayers \in Seq(Docs)
  BY DEF CfInv, CfTypes
<1>6. PICK n \in Nat : n = Len(cfLayers)
  BY <1>5, LenProperties
<1>7. cfDoc' = Merge(cfDoc, layer) /\ cfLayers' = Append(cfLayers, layer)
  BY <1>1 DEF layer
<1>8. /\ cfLayers' \in Seq(Docs) /\ Len(cfLayers') = n + 1 /\ cfLayers'[n + 1] = layer
      /\ \A i \in 1 .. n : cfLayers'[i] = cfLayers[i]
  BY <1>4, <1>5, <1>6, <1>7, AppendProperties
<1>9. IsLayered(cfDoc, cfLayers, n)
  BY <1>2, <1>6 DEF CfInv
<1>10. IsLayered(cfDoc, cfLayers', n)
  BY <1>8, <1>9, LayersAgree
<1>11. IsLayered(Merge(cfDoc, cfLayers'[n + 1]), cfLayers', n + 1)
  BY <1>4, <1>5, <1>8, <1>10, LayerLaid
<1>12. cfDoc' \in Docs
  BY <1>4, <1>5, <1>7, MergedDocs
<1>13. CfTypes'
  BY <1>2, <1>8, <1>12 DEF CfInv, CfTypes
<1>14. IsLayered(cfDoc', cfLayers', Len(cfLayers'))
  BY <1>7, <1>8, <1>11
<1> QED
  BY <1>2, <1>13, <1>14 DEF CfInv

\* A file is opened: nothing of it was read.
LEMMA FileOpened ==
  ASSUME CfInv, NEW lines \in Seq(AnyLines), Open(lines)
  PROVE  CfInv'
<1>1. cfDoc' = <<>> /\ cfLines' = lines /\ cfEnv' = cfEnv
      /\ cfLayers' = [i \in DOMAIN lines |-> Said(lines[i])]
  BY DEF Open
<1>2. PICK n \in Nat : n = Len(lines) /\ DOMAIN lines = 1 .. n
  BY LenProperties
<1>3. \A i \in 1 .. n : lines[i] \in AnyLines
  BY <1>2, ElementOfSeq
<1> DEFINE layers == [i \in 1 .. n |-> Said(lines[i])]
<1>4. cfLayers' = layers /\ \A i \in 1 .. n : layers[i] = Said(lines[i])
  BY <1>1, <1>2
<1>5. layers \in [1 .. n -> Docs]
  BY <1>3, SaidAre
<1> HIDE DEF layers
<1>6. layers \in Seq(Docs) /\ Len(layers) = n
  <2>1. layers \in Seq(Docs) /\ DOMAIN layers = 1 .. n
    BY <1>5, SeqDef
  <2> QED
    BY <2>1, LenProperties
<1>7. lines # NoFile
  BY LinesAre
<1>8. CfTypes'
  BY <1>1, <1>4, <1>6, DocsAre DEF CfInv, CfTypes
<1>9. /\ Len(cfLayers') = 0 + Len(cfLines') /\ IsLayered(cfDoc', cfLayers', 0)
      /\ \A i \in 1 .. Len(cfLines') : cfLayers'[0 + i] = Said(cfLines'[i])
  <2>1. Len(cfLayers') = n /\ Len(cfLines') = n /\ n = 0 + n
    BY <1>1, <1>2, <1>4, <1>6
  <2>2. IsLayered(cfDoc', cfLayers', 0)
    BY <1>1, NoLayers
  <2>3. \A i \in 1 .. n : cfLayers'[0 + i] = Said(cfLines'[i])
    <3>1. \A i \in 1 .. n : 0 + i = i
      OBVIOUS
    <3> QED
      BY <1>1, <1>4, <3>1
  <2> QED
    BY <2>1, <2>2, <2>3
<1>10. \E m \in Nat : CfRead(m)'
  BY <1>9 DEF CfRead
<1> QED
  BY <1>1, <1>7, <1>8, <1>10 DEF CfInv

\* A line is read: it is merged into the document, or the file is given up.
LEMMA LineRead ==
  ASSUME CfInv, ReadLine
  PROVE  CfInv'
<1> DEFINE line == Head(cfLines)
           s == line.path[1]
           k == line.path[2]
           under == Len(line.path) = 2 /\ s \in DOMAIN cfDoc
<1>1. cfLines # NoFile /\ cfLines # <<>> /\ cfEnv' = cfEnv
  BY DEF ReadLine
<1>2. cfLines \in Seq(AnyLines) /\ cfDoc \in Docs /\ cfLayers \in Seq(Docs) /\ CfTypes
  BY <1>1 DEF CfInv, CfTypes
<1>3. /\ line \in AnyLines /\ line = cfLines[1] /\ Tail(cfLines) \in Seq(AnyLines)
      /\ Len(cfLines) \in Nat /\ Len(cfLines) # 0
      /\ Len(Tail(cfLines)) = Len(cfLines) - 1
      /\ \A i \in 1 .. Len(cfLines) - 1 : Tail(cfLines)[i] = cfLines[i + 1]
  BY <1>1, <1>2, HeadTailProperties
<1>4. \/ /\ under /\ ~IsTable(cfDoc[s])
         /\ cfDoc' = <<>> /\ cfLayers' = <<>> /\ cfLines' = NoFile
      \/ /\ under /\ IsTable(cfDoc[s])
         /\ cfDoc' = [cfDoc EXCEPT ![s].keys = LaidOver(@, Only(k, line.value))]
         /\ cfLines' = Tail(cfLines) /\ UNCHANGED cfLayers
      \/ /\ ~under
         /\ cfDoc' = LaidOver(cfDoc, Said(line))
         /\ cfLines' = Tail(cfLines) /\ UNCHANGED cfLayers
  BY DEF ReadLine
<1>5. PICK m \in Nat : CfRead(m)
  BY <1>1 DEF CfInv
<1> HIDE DEF line
<1>6. /\ Said(line) \in Docs /\ DOMAIN Said(line) = {s}
      /\ Len(line.path) = 1 => Said(line)[s] = Bare(line.value)
      /\ Len(line.path) = 2 => Said(line)[s] = Table(Only(k, line.value))
      /\ Len(line.path) = 1 \/ Len(line.path) = 2
  BY <1>3, SaidAre, LinesAre
<1>7. ASSUME under, IsTable(cfDoc[s]),
             cfDoc' = [cfDoc EXCEPT ![s].keys = LaidOver(@, Only(k, line.value))]
      PROVE  cfDoc' = Merge(cfDoc, Said(line))
  <2> DEFINE new == LaidOver(cfDoc[s].keys, Only(k, line.value))
  <2>1. Said(line)[s] = Table(Only(k, line.value))
    BY <1>6, <1>7
  <2>2. IsTable(Said(line)[s]) /\ Said(line)[s].keys = Only(k, line.value)
    BY <2>1 DEF Table, IsTable
  <2>3. cfDoc' = [x \in DOMAIN cfDoc |-> IF x = s THEN [cfDoc[s] EXCEPT !.keys = new] ELSE cfDoc[x]]
    <3>1. cfDoc = [x \in DOMAIN cfDoc |-> cfDoc[x]]
      BY <1>2, DocsAre
    <3> QED
      BY <1>7, <3>1
  <2>4. [cfDoc[s] EXCEPT !.keys = new] = Table(new)
    <3>1. cfDoc[s] = Table(cfDoc[s].keys)
      BY <1>2, <1>7, DocsAre, NodesAre
    <3> HIDE DEF new
    <3> QED
      BY <3>1 DEF Table
  <2> HIDE DEF new
  <2>5. Merge(cfDoc, Said(line)) = [x \in DOMAIN cfDoc |-> IF x = s THEN Table(new) ELSE cfDoc[x]]
    <3>1. DOMAIN cfDoc \cup DOMAIN Said(line) = DOMAIN cfDoc
      BY <1>6, <1>7
    <3>2. \A x \in DOMAIN cfDoc :
            (IF x \notin DOMAIN Said(line) THEN cfDoc[x]
             ELSE IF x \in DOMAIN cfDoc /\ IsTable(cfDoc[x]) /\ IsTable(Said(line)[x])
                  THEN Table(LaidOver(cfDoc[x].keys, Said(line)[x].keys))
                  ELSE Said(line)[x]) = IF x = s THEN Table(new) ELSE cfDoc[x]
      BY <1>6, <1>7, <2>2 DEF new
    <3> QED
      BY <3>1, <3>2 DEF Merge
  <2> QED
    BY <2>3, <2>4, <2>5
<1>8. ASSUME ~under, cfDoc' = LaidOver(cfDoc, Said(line))
      PROVE  cfDoc' = Merge(cfDoc, Said(line))
  <2>1. s \in DOMAIN cfDoc => ~IsTable(Said(line)[s])
    <3> SUFFICES ASSUME s \in DOMAIN cfDoc PROVE ~IsTable(Said(line)[s])
      OBVIOUS
    <3>1. Said(line)[s] = Bare(line.value) /\ line.value \in Values
      BY <1>3, <1>6, <1>8, LinesAre
    <3> QED
      BY <3>1, NodesAre
  <2> DEFINE said == Said(line)
  <2>2. DOMAIN said = {s}
    BY <1>6
  <2> HIDE DEF said
  <2>3. \A x \in DOMAIN cfDoc \cup DOMAIN said :
          (IF x \notin DOMAIN said THEN cfDoc[x]
           ELSE IF x \in DOMAIN cfDoc /\ IsTable(cfDoc[x]) /\ IsTable(said[x])
                THEN Table(LaidOver(cfDoc[x].keys, said[x].keys))
                ELSE said[x]) = IF x \in DOMAIN said THEN said[x] ELSE cfDoc[x]
    BY <2>1, <2>2 DEF said
  <2>4. Merge(cfDoc, said) = LaidOver(cfDoc, said)
    BY <2>3 DEF Merge, LaidOver
  <2> QED
    BY <1>8, <2>4 DEF said
<1>9. CASE cfDoc' = <<>> /\ cfLayers' = <<>> /\ cfLines' = NoFile
  BY <1>1, <1>2, <1>9, NothingLaid
<1>10. CASE cfDoc' = Merge(cfDoc, Said(line)) /\ cfLines' = Tail(cfLines) /\ cfLayers' = cfLayers
  <2> DEFINE rest == Tail(cfLines)
  <2>1. /\ Len(cfLayers) = m + Len(cfLines) /\ IsLayered(cfDoc, cfLayers, m)
        /\ \A i \in 1 .. Len(cfLines) : cfLayers[m + i] = Said(cfLines[i])
    BY <1>5 DEF CfRead
  <2>2. cfLayers[m + 1] = Said(line)
    BY <1>3, <2>1
  <2>3. IsLayered(cfDoc', cfLayers, m + 1)
    BY <1>2, <1>6, <1>10, <2>1, <2>2, LayerLaid
  <2>4. cfDoc' \in Docs
    BY <1>2, <1>6, <1>10, MergedDocs
  <2>5. Len(cfLayers) = (m + 1) + Len(rest)
    BY <1>3, <2>1
  <2>6. \A i \in 1 .. Len(rest) : cfLayers[(m + 1) + i] = Said(rest[i])
    <3> SUFFICES ASSUME NEW i \in 1 .. Len(rest) PROVE cfLayers[(m + 1) + i] = Said(rest[i])
      OBVIOUS
    <3>1. i + 1 \in 1 .. Len(cfLines) /\ i \in 1 .. Len(cfLines) - 1 /\ (m + 1) + i = m + (i + 1)
      BY <1>3
    <3> QED
      BY <1>3, <2>1, <3>1
  <2>7. rest # NoFile /\ rest \in Seq(AnyLines)
    BY <1>3, LinesAre
  <2> HIDE DEF rest
  <2>8. cfLines' = rest
    BY <1>10 DEF rest
  <2>9. CfTypes'
    BY <1>1, <1>2, <1>10, <2>4, <2>7, <2>8 DEF CfTypes
  <2>10. CfRead(m + 1)'
    BY <1>10, <2>3, <2>5, <2>6, <2>8 DEF CfRead
  <2>11. m + 1 \in Nat
    OBVIOUS
  <2>12. \E n \in Nat : CfRead(n)'
    BY <2>10, <2>11
  <2> QED
    BY <2>7, <2>8, <2>9, <2>12 DEF CfInv
<1> QED
  BY <1>4, <1>7, <1>8, <1>9, <1>10

\* Every step keeps the invariant.
LEMMA CfKeeps ==
  ASSUME CfInv, [CfNext]_cfVars
  PROVE  CfInv'
<1>1. cfDoc \in Docs /\ CfTypes
  BY DEF CfInv, CfTypes
<1>2. CASE GetProfile
  BY <1>2, ProfileLaid
<1>3. CASE Override
  BY <1>3, OverrideLaid
<1>4. CASE ExportAndLoad
  BY <1>1, <1>4, FilesAre, FileOpened DEF ExportAndLoad
<1>5. CASE LoadFile
  <2>1. PICK n \in 1 .. CfMaxLines : \E l \in [1 .. n -> Lines] : Open(l)
    BY <1>5 DEF LoadFile
  <2>5. PICK lines \in [1 .. n -> Lines] : Open(lines)
    BY <2>1
  <2>2. Lines \subseteq AnyLines
    <3>1. "true" \in Values
      BY DEF Values
    <3>2. \A p \in AllSections \X AllKeys : [path |-> p, value |-> "true"] \in AnyLines
      BY <3>1, LinesAre
    <3> QED
      BY <3>1, <3>2, LinesAre DEF Lines
  <2>3. lines \in [1 .. n -> AnyLines] /\ n \in Nat
    BY <2>2, ConfigurationAssumption
  <2>4. lines \in Seq(AnyLines)
    BY <2>3, SeqDef
  <2> QED
    BY <2>4, <2>5, FileOpened
<1>6. CASE ReadLine
  BY <1>6, LineRead
<1>7. CASE EndOfFile
  <2>1. /\ cfLines = <<>> /\ cfLines' = NoFile
        /\ cfEnv' = cfEnv /\ cfDoc' = cfDoc /\ cfLayers' = cfLayers
    BY <1>7 DEF EndOfFile
  <2>2. <<>> # NoFile
    BY LinesAre, EmptySeq
  <2>3. PICK m \in Nat : CfRead(m)
    BY <2>1, <2>2 DEF CfInv
  <2>4. Len(cfLayers) = m
    BY <2>1, <2>3 DEF CfRead
  <2>5. IsLayered(cfDoc, cfLayers, Len(cfLayers))
    BY <2>3, <2>4 DEF CfRead
  <2>6. CfTypes'
    BY <1>1, <2>1 DEF CfTypes
  <2> QED
    BY <2>1, <2>5, <2>6 DEF CfInv
<1>8. CASE UNCHANGED cfVars
  BY <1>8 DEF cfVars, CfInv, CfTypes, CfRead
<1> QED
  BY <1>2, <1>3, <1>4, <1>5, <1>6, <1>7, <1>8 DEF CfNext

\* What is valid in production is valid everywhere.
LEMMA ValidEverywhere ==
  ASSUME NEW doc, ValidFor(doc, "production")
  PROVE  /\ \A env \in Environments : ValidFor(doc, env)
         /\ Entry(doc, "security", "tls_required") # "false"
<1>1. Required \ DOMAIN doc = {}
  <2> SUFFICES ASSUME NEW s \in Required \ DOMAIN doc PROVE FALSE
    OBVIOUS
  <2>1. [kind |-> "missing", key |-> s, severity |-> "error"] \in Issues(doc, "production")
    BY DEF Issues
  <2> QED
    BY <2>1 DEF ValidFor
<1>2. Entry(doc, "security", "tls_required") # "false"
  <2> SUFFICES ASSUME Entry(doc, "security", "tls_required") = "false" PROVE FALSE
    OBVIOUS
  <2>1. "tls_required" \in {"tls_required"} \cap {x \in AllKeys : Entry(doc, "security", x) = "false"}
    BY DEF AllKeys
  <2>2. [kind |-> "conflicting", key |-> "tls_required", severity |-> "error"]
          \in Issues(doc, "production")
    BY <2>1 DEF Issues
  <2> QED
    BY <2>2 DEF ValidFor
<1>3. ASSUME NEW env \in Environments, NEW i \in Issues(doc, env) PROVE i.severity # "error"
  <2>1. \/ i \in {[kind |-> "unknown", key |-> s, severity |-> "warning"] : s \in DOMAIN doc \ Required}
        \/ i \in {[kind |-> "conflicting", key |-> "echo", severity |-> "warning"] :
                    k \in {"echo"} \cap {x \in AllKeys : env = "production"
                                                          /\ Entry(doc, "database", x) = "true"}}
    BY <1>1, <1>2 DEF Issues
  <2> QED
    BY <2>1
<1> QED
  BY <1>2, <1>3 DEF ValidFor

\* Configuration documents are what was laid over what, path by path, whether they were
\* merged from profile and overrides or read from an env file; diff and compare tell how a
\* document departs from its profile, and a document valid for production is valid
\* everywhere (configuration_manager.py, deployment_profiles.py).
THEOREM DocumentsAreLaid == CfSpec => []ConfigurationIsLayered
<1>1. CfInit => CfInv
  BY CfStarts
<1>2. CfInv /\ [CfNext]_cfVars => CfInv'
  BY CfKeeps
<1>3. CfInv => ConfigurationIsLayered
  <2> SUFFICES ASSUME CfInv, cfLines = NoFile
               PROVE  /\ IsLayered(cfDoc, cfLayers, Len(cfLayers))
                      /\ Applied(Profile(cfEnv), Diff(Profile(cfEnv), cfDoc)) = cfDoc
                      /\ DifferingSections(Profile(cfEnv), cfDoc)
                           \subseteq SectionsOf(Diff(Profile(cfEnv), cfDoc))
                      /\ SectionsOf(Diff(Profile(cfEnv), cfDoc))
                           \ DifferingSections(Profile(cfEnv), cfDoc) \subseteq Nulls(cfDoc)
                      /\ ValidFor(cfDoc, "production") =>
                           /\ \A env \in Environments : ValidFor(cfDoc, env)
                           /\ Entry(cfDoc, "security", "tls_required") # "false"
    BY DEF ConfigurationIsLayered
  <2> DEFINE profile == Profile(cfEnv)
             diff == Diff(profile, cfDoc)
  <2>1. cfEnv \in Environments /\ cfDoc \in Docs
    BY DEF CfInv, CfTypes
  <2>2. profile \in Docs /\ \A s \in DOMAIN profile : IsTable(profile[s])
    BY <2>1, ProfilesAre
  <2> HIDE DEF profile
  <2>3. Applied(profile, diff) = cfDoc
    BY <2>1, <2>2, DiffApplies
  <2>4. SectionsOf(diff) =
          {s \in DOMAIN profile \cup DOMAIN cfDoc : Got(profile, s) # Got(cfDoc, s)}
            \cup {s \in DOMAIN cfDoc : s \notin DOMAIN profile /\ cfDoc[s] = Bare("null")}
            \cup {s \in DOMAIN profile : s \notin DOMAIN cfDoc /\ profile[s] = Bare("null")}
    BY <2>1, <2>2, DiffParts
  <2>5. \A s \in DOMAIN profile : profile[s] # Bare("null")
    BY <2>2, NodesAre DEF Values
  <2> HIDE DEF diff
  <2>6. /\ DifferingSections(profile, cfDoc) \subseteq SectionsOf(diff)
        /\ SectionsOf(diff) \ DifferingSections(profile, cfDoc) \subseteq Nulls(cfDoc)
    BY <2>4, <2>5 DEF DifferingSections, Nulls
  <2>7. IsLayered(cfDoc, cfLayers, Len(cfLayers))
    BY DEF CfInv
  <2> QED
    BY <2>3, <2>6, <2>7, ValidEverywhere DEF profile, diff
<1> QED
  BY <1>1, <1>2, <1>3, PTL DEF CfSpec
=============================================================================
