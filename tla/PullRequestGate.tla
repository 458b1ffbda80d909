--------------------------- MODULE PullRequestGate ---------------------------
(***************************************************************************)
(* What the Repository Service promises about a pull request, whatever its *)
(* callers do: a pull request is opened, may be approved, and the provider *)
(* merges it at most once and never before somebody approved it.           *)
(*                                                                         *)
(* Module Repository implements this specification (PullRequestGate is a   *)
(* PROPERTY of its runs and the subject of a theorem).  Its "opened" is    *)
(* the provider's set of pull requests, "approved" the rows whose          *)
(* approved_at is set, "merged" the provider's merged pull requests.       *)
(***************************************************************************)
CONSTANT PullRequests

VARIABLES opened, approved, merged

vars == <<opened, approved, merged>>

TypeOK ==
  /\ opened \subseteq PullRequests
  /\ approved \subseteq PullRequests
  /\ merged \subseteq PullRequests

Init ==
  /\ opened = {}
  /\ approved = {}
  /\ merged = {}

Open(p) ==
  /\ p \notin opened
  /\ opened' = opened \union {p}
  /\ UNCHANGED <<approved, merged>>

\* Only a pull request that exists can be approved.
Approve(p) ==
  /\ p \in opened \ approved
  /\ approved' = approved \union {p}
  /\ UNCHANGED <<opened, merged>>

\* The approval gate: no merge without an approval, and no second merge.
Merge(p) ==
  /\ p \in approved \ merged
  /\ merged' = merged \union {p}
  /\ UNCHANGED <<opened, approved>>

Next == \E p \in PullRequests : Open(p) \/ Approve(p) \/ Merge(p)

Spec == Init /\ [][Next]_vars
=============================================================================
