-------------------------- MODULE ProductionRecords --------------------------
(***************************************************************************)
(* The records of the production tools (integration/api/production.py,     *)
(* production_repository.py, release_manager.py, environment_validator.py):*)
(* environment checks and releases are made by one request, stored by its  *)
(* transaction, or in lists of the process when there is no database, and  *)
(* told by the checklist and the status.                                   *)
(*                                                                         *)
(* What the checks look at is not kept: a report is the set of the         *)
(* statuses its checks gave.  BackupRestore has the backups; here they are *)
(* counted.                                                                *)
(***************************************************************************)
EXTENDS Naturals, Sequences, FiniteSets, SequencesExt

CONSTANTS
  PrRequests,      \* requests at a time
  PrEnvironments,  \* environments that are checked
  PrMaxRecords     \* bound: the checks, releases and backups recorded or about to be

ASSUME ProductionAssumption == PrMaxRecords \in Nat

VARIABLES
  prDb,        \* whether the process has a db_factory
  prChecks,    \* environment_checks: the reports, oldest first
  prReleases,  \* releases: in the order of created_at; in memory, of the posts
  prBackups,   \* how many backups are recorded
  prPending,   \* of each request: what it has built and not stored yet
  prJournal    \* history: everything that was stored, in order
prVars == <<prDb, prChecks, prReleases, prBackups, prPending, prJournal>>

Nothing == [is |-> "nothing"]

-----------------------------------------------------------------------------
(***************************************************************************)
(* environment_validator.py and EnvironmentReport.                         *)
(***************************************************************************)
Connectivity == {"skipped", "pass", "fail"}  \* no probe, answered, raised
Writable     == {"pass", "fail"}
DiskSpace    == {"pass", "warn", "skipped"}  \* low is a warning, unreadable no check

\* Connections, files, disk and permissions; of plugins, workflows, migrations, secrets
\* and TLS the route says nothing, and they are skipped.
RunChecks == {{c, f, d, p, "skipped"} : c \in Connectivity, f \in Writable,
                                        d \in DiskSpace, p \in Writable}

Overall(report) ==
  CASE "fail" \in report -> "fail"
    [] "fail" \notin report /\ "warn" \in report -> "warn"
    [] report \subseteq {"skipped"} -> "skipped"
    [] OTHER -> "pass"

Ready(report) == Overall(report) \in {"pass", "skipped"}

-----------------------------------------------------------------------------
(***************************************************************************)
(* release_manager.py.  A version is its major and minor number; one that  *)
(* does not parse is refused.                                              *)
(***************************************************************************)
ReleaseVersions == {<<1, 0>>, <<2, 0>>}
NoVersion == <<>>

IsBreaking(previous, next) == previous # NoVersion /\ next[1] > previous[1]

Upgrade(previous, next) ==
  (IF IsBreaking(previous, next) THEN <<"review_breaking_changes">> ELSE <<>>)
    \o <<"backup", "run_migrations", "validate_environment", "validate_deployment_assets",
         "smoke_test">>

Rollback(previous) ==
  IF previous = NoVersion THEN <<"no_prior_release">>
  ELSE <<"stop_traffic", "restore_backup", "downgrade_migrations",
         "redeploy_previous_artifacts", "verify_health">>

Release(version, previous) ==
  [is |-> "release", version |-> version, previous |-> previous,
   upgrade |-> Upgrade(previous, version), rollback |-> Rollback(previous)]

-----------------------------------------------------------------------------
(***************************************************************************)
(* The rows.                                                               *)
(***************************************************************************)
\* Mutant: a release posted again is a new row.
SavedAnew(rows, release) ==
  Append(SelectSeq(rows, LAMBDA r : r.version # release.version), release)

\* save_release: the row of a version keeps its place, and its release is replaced.
Saved(rows, release) ==
  IF \E i \in DOMAIN rows : rows[i].version = release.version
  THEN [i \in DOMAIN rows |-> IF rows[i].version = release.version THEN release ELSE rows[i]]
  ELSE Append(rows, release)

\* What the stores take of one record.
Stored(record) ==
  /\ prJournal' = Append(prJournal, record)
  /\ prChecks' = IF record.is = "check" THEN Append(prChecks, record) ELSE prChecks
  /\ prReleases' = IF record.is # "release" THEN prReleases
                   ELSE IF prDb THEN Saved(prReleases, record) ELSE Append(prReleases, record)
  /\ prBackups' = IF record.is = "backup" THEN prBackups + 1 ELSE prBackups

\* Without a database a record is in its list before the request returns.
Make(q, record) ==
  /\ prPending[q] = Nothing
  /\ Len(prJournal) + Cardinality({p \in PrRequests : prPending[p] # Nothing}) < PrMaxRecords
  /\ IF prDb THEN /\ prPending' = [prPending EXCEPT ![q] = record]
                  /\ UNCHANGED <<prChecks, prReleases, prBackups, prJournal>>
     ELSE Stored(record) /\ UNCHANGED prPending
  /\ UNCHANGED prDb

GetEnvironment(q) ==
  \E env \in PrEnvironments, report \in RunChecks :
    Make(q, [is |-> "check", environment |-> env, report |-> report])

PostRelease(q) ==
  \E version \in ReleaseVersions, previous \in ReleaseVersions \cup {NoVersion} :
    Make(q, Release(version, previous))

PostBackup(q) == Make(q, [is |-> "backup"])

Save(q) ==
  /\ prPending[q] # Nothing
  /\ Stored(prPending[q]) /\ prPending' = [prPending EXCEPT ![q] = Nothing]
  /\ UNCHANGED prDb

\* The caller is answered as if it had been stored.
SaveFails(q) ==
  /\ prPending[q] # Nothing
  /\ prPending' = [prPending EXCEPT ![q] = Nothing]
  /\ UNCHANGED <<prDb, prChecks, prReleases, prBackups, prJournal>>

PrRestart ==
  /\ prPending' = [q \in PrRequests |-> Nothing]
  /\ IF prDb THEN UNCHANGED <<prChecks, prReleases, prBackups, prJournal>>
     ELSE prChecks' = <<>> /\ prReleases' = <<>> /\ prBackups' = 0 /\ prJournal' = <<>>
  /\ UNCHANGED prDb

PrInit ==
  /\ prDb \in BOOLEAN /\ prChecks = <<>> /\ prReleases = <<>> /\ prBackups = 0
  /\ prPending = [q \in PrRequests |-> Nothing] /\ prJournal = <<>>

PrNext ==
  \/ \E q \in PrRequests : GetEnvironment(q) \/ PostRelease(q) \/ PostBackup(q)
                             \/ Save(q) \/ SaveFails(q)
  \/ PrRestart

PrSpec == PrInit /\ [][PrNext]_prVars

-----------------------------------------------------------------------------
(***************************************************************************)
(* What is told.                                                           *)
(***************************************************************************)
LatestCheck(env) ==
  LET at == {i \in DOMAIN prChecks : prChecks[i].environment = env}
  IN IF at = {} THEN Nothing ELSE prChecks[CHOOSE i \in at : \A j \in at : j <= i]

\* get_checklist, each item with whether it is satisfied.
EnvironmentReady(env) == LatestCheck(env) # Nothing /\ Ready(LatestCheck(env).report)
RecentBackup == prBackups > 0

\* get_status.
LatestRelease == IF prReleases = <<>> THEN Nothing ELSE Last(prReleases)

\* What was stored, by its places in the journal.
JournalOf(is) == {i \in DOMAIN prJournal : prJournal[i].is = is}
ChecksOf(env) == {i \in JournalOf("check") : prJournal[i].environment = env}
PostsOf(version) == {i \in JournalOf("release") : prJournal[i].version = version}

\* The first post of its version.
IsNew(i) == \A j \in PostsOf(prJournal[i].version) : i <= j

\* The checklist and the status tell what was stored, though checks overlap, stores fail
\* and the process restarts: an environment is ready when nothing failed and nothing
\* warned in the check of it that was stored last; of the releases, the status tells the
\* one whose version was new last, or without a database the one posted last, with the
\* plans of its last post, and the review of a major step is in them.
RecordsAreTold ==
  LET posts == PostsOf(LatestRelease.version) IN
    /\ \A env \in PrEnvironments :
         EnvironmentReady(env) <=>
           \E i \in ChecksOf(env) : /\ \A j \in ChecksOf(env) : j <= i
                                    /\ prJournal[i].report \cap {"fail", "warn"} = {}
    /\ RecentBackup <=> JournalOf("backup") # {}
    /\ LatestRelease = Nothing <=> JournalOf("release") = {}
    /\ JournalOf("release") # {} =>
         \E i \in posts :
           /\ \A j \in posts : j <= i
           /\ LatestRelease = prJournal[i]
           /\ IF prDb
              THEN \E k \in posts : IsNew(k) /\ \A j \in JournalOf("release") : j > k => ~IsNew(j)
              ELSE \A j \in JournalOf("release") : j <= i
    /\ \A i \in DOMAIN prReleases :
         LET r == prReleases[i] IN
           /\ "review_breaking_changes" \in ToSet(r.upgrade)
                <=> r.previous # NoVersion /\ r.previous[1] < r.version[1]
           /\ "redeploy_previous_artifacts" \in ToSet(r.rollback) <=> r.previous # NoVersion
=============================================================================
