------------------------------ MODULE Dashboard ------------------------------
(***************************************************************************)
(* The live operations dashboard (integration/dashboard, api/dashboard.py):*)
(* every request gathers its sections one after the other, from a cache    *)
(* that all requests share or from the platform's modules, and assembles   *)
(* the cards.  A module that cannot be reached leaves its section None.    *)
(*                                                                         *)
(* Of a value only whether it is None is kept.  Of the sections that are   *)
(* fetched and cached alike, the workflow reports stand for health,        *)
(* readiness, metrics, incidents and chaos, and one workflow for all.      *)
(* Nothing calls the cache's invalidate.                                   *)
(***************************************************************************)
EXTENDS Naturals, Sequences

CONSTANTS
  DaRequests,     \* clients that poll
  DaTtl,          \* DEFAULT_TTL_SECONDS
  DaVersionsTtl,  \* _VERSIONS_TTL_SECONDS
  DaMaxTime       \* bound: the clock

ASSUME DashboardAssumption == {DaTtl, DaVersionsTtl, DaMaxTime} \subseteq Nat

VARIABLES
  daNow,    \* time.monotonic()
  daStore,  \* DashboardCache._store: key -> the value and when it expires
  daPc,     \* of each request: "idle", "gather", "fetch"
  daDb,     \* whether the process has a db_factory
  daRaw     \* what the request has gathered so far, with how it came by it
daVars == <<daNow, daStore, daPc, daDb, daRaw>>

None == "None"
Some == "some"

\* The order of _gather_raw.
Sections == <<"workflows", "versions", "events">>
Ttl(s) == IF s = "versions" THEN DaVersionsTtl ELSE DaTtl

DaInit ==
  /\ daNow = 0 /\ daStore = <<>>
  /\ daPc = [r \in DaRequests |-> "idle"] /\ daDb \in BOOLEAN
  /\ daRaw = [r \in DaRequests |-> <<>>]

DaTick ==
  /\ daNow < DaMaxTime /\ daNow' = daNow + 1
  /\ UNCHANGED <<daStore, daPc, daDb, daRaw>>

\* A request whose session cannot be opened is an error and gathers nothing.
Ask(r) ==
  /\ daPc[r] = "idle"
  /\ daPc' = [daPc EXCEPT ![r] = "gather"]
  /\ UNCHANGED <<daNow, daStore, daDb, daRaw>>

-----------------------------------------------------------------------------
(***************************************************************************)
(* _gather_raw and DashboardCache.get_or_build.                            *)
(***************************************************************************)
Section(r) == Sections[Len(daRaw[r]) + 1]
Gathering(r, pc) == daPc[r] = pc /\ Len(daRaw[r]) < Len(Sections)
Gives(r, value, from, age) ==
  daRaw' = [daRaw EXCEPT ![r] = Append(@, [section |-> Section(r), value |-> value,
                                           from |-> from, age |-> age])]

\* Mutant: a value is found when there is one, whatever it is.
CachedAny(s) == s \in DOMAIN daStore /\ daNow < daStore[s].expires

\* A value that is None is taken for none.
Cached(s) == s \in DOMAIN daStore /\ daNow < daStore[s].expires /\ daStore[s].value # None

\* The versions of no workflow are no versions.
NoWorkflows(r) == Section(r) = "versions" /\ daRaw[r][1].value = None

Hit(r) ==
  /\ Gathering(r, "gather") /\ ~NoWorkflows(r) /\ Section(r) # "events"
  /\ Cached(Section(r))
  /\ Gives(r, daStore[Section(r)].value, "cache",
           daNow - (daStore[Section(r)].expires - Ttl(Section(r))))
  /\ UNCHANGED <<daNow, daStore, daPc, daDb>>

Skip(r) ==
  /\ Gathering(r, "gather") /\ NoWorkflows(r)
  /\ Gives(r, None, "nothing", 0)
  /\ UNCHANGED <<daNow, daStore, daPc, daDb>>

\* An expired entry goes.  The events are never looked for in the cache.
Miss(r) ==
  /\ Gathering(r, "gather") /\ ~NoWorkflows(r)
  /\ Section(r) = "events" \/ ~Cached(Section(r))
  /\ daStore' = [s \in {t \in DOMAIN daStore : t # Section(r) \/ daNow < daStore[t].expires} |->
                   daStore[s]]
  /\ daPc' = [daPc EXCEPT ![r] = "fetch"]
  /\ UNCHANGED <<daNow, daDb, daRaw>>

\* The fetch returns what it read, or None; the cache takes either, over what another
\* request has set meanwhile.  The events need a session.
Fetched(r) ==
  /\ Gathering(r, "fetch")
  /\ daPc' = [daPc EXCEPT ![r] = "gather"]
  /\ \E value \in {Some, None} :
       /\ Section(r) = "events" /\ ~daDb => value = None
       /\ Gives(r, value, "fetch", 0)
       /\ daStore' = IF Section(r) = "events" THEN daStore
            ELSE [s \in DOMAIN daStore \cup {Section(r)} |->
                    IF s # Section(r) THEN daStore[s]
                    ELSE [value |-> value, expires |-> daNow + Ttl(s)]]
  /\ UNCHANGED <<daNow, daDb>>

-----------------------------------------------------------------------------
(***************************************************************************)
(* _build_from_raw.                                                        *)
(***************************************************************************)
Degraded(r) == {daRaw[r][i].section : i \in {j \in DOMAIN daRaw[r] : daRaw[r][j].value = None}}
                 \ {"versions"}

\* overall_ready is a bool and the report's overall a score: with a report there is no
\* summary, and the answer is an error.  The session is closed all the same.
Assemble(r) ==
  /\ daPc[r] = "gather" /\ Len(daRaw[r]) = Len(Sections)
  /\ daPc' = [daPc EXCEPT ![r] = "idle"] /\ daRaw' = [daRaw EXCEPT ![r] = <<>>]
  /\ UNCHANGED <<daNow, daStore, daDb>>

DaNext ==
  \/ DaTick
  \/ \E r \in DaRequests : Ask(r) \/ Hit(r) \/ Skip(r) \/ Miss(r) \/ Fetched(r) \/ Assemble(r)

DaSpec == DaInit /\ [][DaNext]_daVars

-----------------------------------------------------------------------------
\* What a request is given was stored less than the section's time to live ago, by
\* whichever request; its events are its own; and a card is degraded only by a fetch of
\* this request: what failed for another, before or beside it, is tried again.  The
\* versions shown are those of workflows that are shown.
CardsAreFresh ==
  \A r \in DaRequests : \A i \in DOMAIN daRaw[r] :
    LET card == daRaw[r][i] IN
      /\ card.from = "cache" => card.age < Ttl(card.section)
      /\ card.section = "events" => card.from = "fetch"
      /\ card.section \in Degraded(r) => card.from = "fetch"
      /\ card.section = "versions" /\ card.value # None => "workflows" \notin Degraded(r)
=============================================================================
