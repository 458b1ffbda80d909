---------------------------- MODULE Configuration ----------------------------
(***************************************************************************)
(* Configuration documents (integration/production/deployment_profiles.py, *)
(* configuration_manager.py): the profile of an environment is its base    *)
(* under the environment's overrides, callers lay more over it, a document *)
(* is validated, compared with another, and read back from the lines of an *)
(* env file.                                                               *)
(*                                                                         *)
(* Two of the nine required sections, one unknown section and two keys     *)
(* stand for all; a section is a table of one level, or a bare value.      *)
(***************************************************************************)
EXTENDS Naturals, Sequences, SequencesExt

CONSTANTS
  CfMaxLayers,  \* bound: the layers laid before another layer or a file is taken
  CfMaxLines    \* bound: the lines of a file written by hand

ASSUME ConfigurationAssumption == {CfMaxLayers, CfMaxLines} \subseteq Nat

Environments == {"development", "testing", "staging", "production"}
Required     == {"security", "database"}
AllSections  == Required \cup {"unknown"}
AllKeys      == {"tls_required", "echo"}

VARIABLES
  cfEnv,     \* the environment the document is for
  cfDoc,     \* the document: section -> a bare value, or a table
  cfLayers,  \* what it was made of, the last one uppermost; none, no document
  cfLines    \* the lines of an env file still to be read, or NoFile
cfVars == <<cfEnv, cfDoc, cfLayers, cfLines>>

NoFile == <<[path |-> <<>>, value |-> "none"]>>

\* Every node is one record: a bare value has no keys.
Bare(value)    == [bare |-> value, keys |-> <<>>]
Table(entries) == [bare |-> "table", keys |-> entries]
IsTable(node)  == node.bare = "table"
Values == {"true", "false", "null", "None"}

\* The dict of one key, and a dict with another laid over it.
Only(key, value)     == [k \in {key} |-> value]
LaidOver(base, over) ==
  [k \in DOMAIN base \cup DOMAIN over |-> IF k \in DOMAIN over THEN over[k] ELSE base[k]]

-----------------------------------------------------------------------------
(***************************************************************************)
(* merge (configuration_manager.py) and _deep_merge (deployment_profiles). *)
(***************************************************************************)
\* Mutant: the sections of the override replace those of the base.
MergeShallow(base, override) == LaidOver(base, override)

Merge(base, override) ==
  [s \in DOMAIN base \cup DOMAIN override |->
     IF s \notin DOMAIN override THEN base[s]
     ELSE IF s \in DOMAIN base /\ IsTable(base[s]) /\ IsTable(override[s])
          THEN Table(LaidOver(base[s].keys, override[s].keys))
          ELSE override[s]]

Tls(value)  == Table(Only("tls_required", value))
Echo(value) == Table(Only("echo", value))

BaseProfile ==
  LaidOver(Only("security", Tls("false")), Only("database", Echo("false")))

EnvironmentOverrides(env) ==
  CASE env = "development" ->
         LaidOver(Only("database", Echo("true")), Only("security", Tls("false")))
    [] env = "testing"     -> Only("database", Echo("false"))
    [] env = "staging"     -> Only("security", Tls("true"))
    [] env = "production"  ->
         LaidOver(Only("database", Echo("false")), Only("security", Tls("true")))

Profile(env) == Merge(BaseProfile, EnvironmentOverrides(env))

-----------------------------------------------------------------------------
(***************************************************************************)
(* validate.                                                               *)
(***************************************************************************)
Entry(doc, s, k) ==
  IF s \in DOMAIN doc /\ k \in DOMAIN doc[s].keys THEN doc[s].keys[k] ELSE "absent"

Issues(doc, env) ==
  {[kind |-> "missing", key |-> s, severity |-> "error"] : s \in Required \ DOMAIN doc}
    \cup {[kind |-> "unknown", key |-> s, severity |-> "warning"] : s \in DOMAIN doc \ Required}
    \cup {[kind |-> "conflicting", key |-> "tls_required",
           severity |-> IF env = "production" THEN "error" ELSE "warning"] :
            k \in {"tls_required"} \cap {x \in AllKeys : Entry(doc, "security", x) = "false"}}
    \cup {[kind |-> "conflicting", key |-> "echo", severity |-> "warning"] :
            k \in {"echo"} \cap {x \in AllKeys : env = "production"
                                                  /\ Entry(doc, "database", x) = "true"}}

ValidFor(doc, env) == \A i \in Issues(doc, env) : i.severity # "error"

-----------------------------------------------------------------------------
(***************************************************************************)
(* compare and diff.                                                       *)
(***************************************************************************)
\* `get` answers null for a section that is not there.
Got(doc, s) == IF s \in DOMAIN doc THEN doc[s] ELSE Bare("null")
DifferingSections(a, b) == {s \in DOMAIN a \cup DOMAIN b : Got(a, s) # Got(b, s)}

\* One level of diff, of sections or of keys.
DiffEntries(a, b, prefix) ==
  {[key |-> Append(prefix, x), kind |-> "removed", to |-> Bare("null")] :
      x \in DOMAIN a \ DOMAIN b}
    \cup {[key |-> Append(prefix, x), kind |-> "added", to |-> b[x]] : x \in DOMAIN b \ DOMAIN a}
    \cup {[key |-> Append(prefix, x), kind |-> "changed", to |-> b[x]] :
            x \in {y \in DOMAIN a \cap DOMAIN b : a[y] # b[y]}}

BareKeys(table) == [k \in DOMAIN table.keys |-> Bare(table.keys[k])]

Diff(a, b) ==
  LET both == {s \in DOMAIN a \cap DOMAIN b : IsTable(a[s]) /\ IsTable(b[s])} IN
    {e \in DiffEntries(a, b, <<>>) : e.key[1] \notin both}
      \cup UNION {DiffEntries(BareKeys(a[s]), BareKeys(b[s]), <<s>>) : s \in both}

-----------------------------------------------------------------------------
(***************************************************************************)
(* export and _load_env: `SECTION__KEY=value` lines.  A null is written as *)
(* the text None.  JSON and YAML read back what was written.               *)
(***************************************************************************)
Text(value) == IF value = "null" THEN "None" ELSE value

Exported(doc) ==
  {[path |-> <<s>>, value |-> Text(doc[s].bare)] : s \in {x \in DOMAIN doc : ~IsTable(doc[x])}}
    \cup UNION {{[path |-> <<s, k>>, value |-> Text(doc[s].keys[k])] :
                     k \in DOMAIN doc[s].keys} : s \in {x \in DOMAIN doc : IsTable(doc[x])}}

\* What one line says, as a document.
Said(line) ==
  Only(line.path[1], IF Len(line.path) = 1 THEN Bare(line.value)
                     ELSE Table(Only(line.path[2], line.value)))

\* A key under a bare value is a TypeError, and there is no document.
ReadLine ==
  /\ cfLines # NoFile /\ cfLines # <<>>
  /\ LET line == Head(cfLines)
         under == Len(line.path) = 2 /\ line.path[1] \in DOMAIN cfDoc
     IN \/ /\ under /\ ~IsTable(cfDoc[line.path[1]])
           /\ cfDoc' = <<>> /\ cfLayers' = <<>> /\ cfLines' = NoFile
        \/ /\ under /\ IsTable(cfDoc[line.path[1]])
           /\ cfDoc' = [cfDoc EXCEPT ![line.path[1]].keys =
                                        LaidOver(@, Only(line.path[2], line.value))]
           /\ cfLines' = Tail(cfLines) /\ UNCHANGED cfLayers
        \/ /\ ~under
           /\ cfDoc' = LaidOver(cfDoc, Said(line))
           /\ cfLines' = Tail(cfLines) /\ UNCHANGED cfLayers
  /\ UNCHANGED cfEnv

EndOfFile ==
  /\ cfLines = <<>> /\ cfLines' = NoFile /\ UNCHANGED <<cfEnv, cfDoc, cfLayers>>

-----------------------------------------------------------------------------
CfInit ==
  /\ cfEnv \in Environments /\ cfDoc = <<>> /\ cfLayers = <<>> /\ cfLines = NoFile

GetProfile ==
  /\ cfLines = NoFile /\ cfLayers = <<>>
  /\ cfDoc' = Profile(cfEnv) /\ cfLayers' = <<BaseProfile, EnvironmentOverrides(cfEnv)>>
  /\ UNCHANGED <<cfEnv, cfLines>>

\* Of a caller's overrides, section by section.
OverrideNodes == {Bare(v) : v \in {"true", "null"}}
           \cup {Table(<<>>)}
           \cup {Table(Only(k, v)) : k \in AllKeys, v \in {"true", "false"}}

Override ==
  /\ cfLines = NoFile /\ Len(cfLayers) \in 1..(CfMaxLayers - 1)
  /\ \E s \in AllSections, node \in OverrideNodes :
       /\ cfDoc' = Merge(cfDoc, Only(s, node))
       /\ cfLayers' = Append(cfLayers, Only(s, node))
  /\ UNCHANGED <<cfEnv, cfLines>>

\* A file is read from nothing: each of its lines is a layer of its own.
Open(lines) ==
  /\ cfDoc' = <<>> /\ cfLines' = lines
  /\ cfLayers' = [i \in DOMAIN lines |-> Said(lines[i])]
  /\ UNCHANGED cfEnv

ExportAndLoad ==
  /\ cfLines = NoFile /\ cfDoc # <<>> /\ Open(SetToSeq(Exported(cfDoc)))

Lines == {[path |-> p, value |-> "true"] :
            p \in {<<s>> : s \in AllSections} \cup (AllSections \X AllKeys)}

LoadFile ==
  /\ cfLines = NoFile /\ Len(cfLayers) < CfMaxLayers
  /\ \E lines \in UNION {[1..n -> Lines] : n \in 1..CfMaxLines} : Open(lines)

CfNext == GetProfile \/ Override \/ ExportAndLoad \/ LoadFile \/ ReadLine \/ EndOfFile

CfSpec == CfInit /\ [][CfNext]_cfVars

-----------------------------------------------------------------------------
\* Of the first n layers, those that mention a section, and those of them that say anything
\* of it since it was last a bare value.
Mentions(layers, n, s) == {i \in 1 .. n : s \in DOMAIN layers[i]}
Since(layers, n, s) ==
  {i \in Mentions(layers, n, s) :
     \A j \in Mentions(layers, n, s) : j >= i => IsTable(layers[j][s])}
Says(layers, n, s, k) == {i \in Since(layers, n, s) : k \in DOMAIN layers[i][s].keys}
Uppermost(places, i) == i \in places /\ \A j \in places : j <= i

\* A document says at every path what the last of its layers there says, and nothing else;
\* a bare value hides what was laid before it.
IsLayered(doc, layers, n) ==
  /\ DOMAIN doc = {s \in AllSections : Mentions(layers, n, s) # {}}
  /\ \A s \in DOMAIN doc :
       IF Since(layers, n, s) = {}
       THEN \E i \in 1 .. n : Uppermost(Mentions(layers, n, s), i) /\ doc[s] = layers[i][s]
       ELSE /\ IsTable(doc[s])
            /\ DOMAIN doc[s].keys = {k \in AllKeys : Says(layers, n, s, k) # {}}
            /\ \A k \in DOMAIN doc[s].keys :
                 \E i \in 1 .. n : /\ Uppermost(Says(layers, n, s, k), i)
                                   /\ doc[s].keys[k] = layers[i][s].keys[k]

\* What a table, or the sections of a document, are when a difference is applied to them.
Untouched(table, entries) == {x \in DOMAIN table : \A e \in entries : Last(e.key) # x}
GivenBy(entries) == {Last(e.key) : e \in {x \in entries : x.kind # "removed"}}
AppliedTo(table, entries) ==
  [x \in Untouched(table, entries) \cup GivenBy(entries) |->
     IF x \in Untouched(table, entries) THEN table[x]
     ELSE (CHOOSE e \in entries : Last(e.key) = x).to]

OfSections(diff) == {e \in diff : Len(e.key) = 1}
OfKeys(diff, s)  == {e \in diff : Len(e.key) = 2 /\ e.key[1] = s}
Unbare(keys)     == [k \in DOMAIN keys |-> keys[k].bare]

Applied(a, diff) ==
  AppliedTo([s \in DOMAIN a |->
               IF IsTable(a[s]) THEN Table(Unbare(AppliedTo(BareKeys(a[s]), OfKeys(diff, s))))
               ELSE a[s]],
            OfSections(diff))

SectionsOf(diff) == {e.key[1] : e \in diff}
Nulls(doc) == {s \in DOMAIN doc : doc[s] = Bare("null")}

\* A document is its layers, wherever they came from: profile, overrides, or the lines of
\* an env file.  Its differences from the profile of its environment are all there is
\* between them, and in the sections that compare names, but for a null section, which
\* compare takes for an absent one.  What is valid in production is valid everywhere, and
\* no table of it turns TLS off.
ConfigurationIsLayered ==
  cfLines = NoFile /\ cfLayers # <<>> =>
    LET profile == Profile(cfEnv)
        diff    == Diff(profile, cfDoc)
        compare == DifferingSections(profile, cfDoc)
    IN /\ IsLayered(cfDoc, cfLayers, Len(cfLayers))
       /\ Applied(profile, diff) = cfDoc
       /\ compare \subseteq SectionsOf(diff) /\ SectionsOf(diff) \ compare \subseteq Nulls(cfDoc)
       /\ ValidFor(cfDoc, "production") =>
            /\ \A env \in Environments : ValidFor(cfDoc, env)
            /\ Entry(cfDoc, "security", "tls_required") # "false"
=============================================================================
