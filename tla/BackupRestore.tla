---------------------------- MODULE BackupRestore ----------------------------
(***************************************************************************)
(* Backups and restores (services/integration/production): a backup        *)
(* fetches its scopes into one file with a checksum, a restore is planned  *)
(* and validated against the file, and applied later, when it is           *)
(* confirmed, from what the file then holds.                               *)
(*                                                                         *)
(* The live data of a scope is its version.  Files may be damaged or       *)
(* deleted behind the manager's back.                                      *)
(***************************************************************************)
EXTENDS Integers, FiniteSets

CONSTANTS
  BrScopes,      \* BackupScope
  BrMaxEdits,    \* bound: changes of live data in a behaviour
  BrMaxBackups,  \* bound: backups
  BrMaxRestores  \* bound: restores planned

ASSUME BackupRestoreAssumption ==
  BrMaxEdits \in Nat /\ BrMaxBackups \in Nat /\ BrMaxRestores \in Nat

VARIABLES
  brLive,      \* version of each scope's live data; Null when a restore emptied it
  brEdits,     \* the changes made, which number the versions
  brBackups,   \* the records, with what was live and fetched when they were taken
  brFiles,     \* each backup's file: whether there is one, and its payload
  brPlans,     \* the restores planned that may be applied
  brWrites     \* what the last restore wrote, with its plan

brVars == <<brLive, brEdits, brBackups, brFiles, brPlans, brWrites>>

Null    == -1  \* the JSON null
Damaged == -2  \* anything that was not written by a backup

BackupIds == DOMAIN brBackups
PlanIds   == DOMAIN brPlans
Added(records, new) ==
  [i \in DOMAIN records \cup {Cardinality(DOMAIN records) + 1} |->
     IF i \in DOMAIN records THEN records[i] ELSE new]

BrInit ==
  /\ brLive = [s \in BrScopes |-> 0] /\ brEdits = 0
  /\ brBackups = <<>> /\ brFiles = <<>> /\ brPlans = <<>> /\ brWrites = {}

Edit(s) ==
  /\ brEdits < BrMaxEdits /\ brEdits' = brEdits + 1
  /\ brLive' = [brLive EXCEPT ![s] = brEdits + 1]
  /\ UNCHANGED <<brBackups, brFiles, brPlans, brWrites>>

\* A scope without a fetcher, or whose fetcher raises, is stored as null.
Payload(scopes, fetched) == [s \in scopes |-> IF s \in fetched THEN brLive[s] ELSE Null]

\* create_backup.  An incremental one skips what its baseline lists and lists only what
\* it fetched; a full one lists all that was asked for.
CreateBackup(type, asked, baseline) ==
  LET skipped == IF type = "incremental" /\ baseline \in BackupIds
                 THEN brBackups[baseline].scopes ELSE {}
      capture == asked \ skipped
  IN /\ Cardinality(BackupIds) < BrMaxBackups
     /\ \E fetched \in SUBSET capture :
          LET payload == Payload(capture, fetched)
          IN /\ brBackups' = Added(brBackups,
                  [type |-> type, taken |-> brLive, fetched |-> fetched, checksum |-> payload,
                   scopes |-> IF type = "incremental" THEN fetched ELSE capture,
                   status |-> IF fetched = {} /\ capture # {} THEN "partial" ELSE "completed"])
             /\ brFiles' = Added(brFiles, [found |-> TRUE, payload |-> payload])
     /\ UNCHANGED <<brLive, brEdits, brPlans, brWrites>>

\* Mutant: the plan trusts the record and never reads the file.
Trusted(b) == TRUE

\* verify_backup: the checksum of the file's payload is the recorded one.
Verified(b) == brFiles[b].found /\ brFiles[b].payload = brBackups[b].checksum

\* The plans made of a backup's file before it was damaged.
Touched(b) == [p \in PlanIds |-> IF brPlans[p].backup = b
                 THEN [brPlans[p] EXCEPT !.touched = TRUE] ELSE brPlans[p]]

\* Another payload in the file, or no file, for good.
Damage(b) ==
  /\ Verified(b)
  /\ \E found \in BOOLEAN :
       brFiles' = [brFiles EXCEPT ![b] = [found |-> found,
                     payload |-> [s \in DOMAIN brBackups[b].checksum |-> Damaged]]]
  /\ brPlans' = Touched(b)
  /\ UNCHANGED <<brLive, brEdits, brBackups, brWrites>>

\* plan_restore writes nothing.  The plans with issues and those of a dry run, which are
\* never applied, are not followed.
PlanRestore(b, mode, scopes) ==
  /\ Cardinality(PlanIds) < BrMaxRestores
  /\ mode # "dry_run" /\ Verified(b)
  /\ scopes \subseteq brBackups[b].scopes /\ brBackups[b].status # "partial"
  /\ brPlans' = Added(brPlans, [backup |-> b, scopes |-> scopes, touched |-> FALSE])
  /\ UNCHANGED <<brLive, brEdits, brBackups, brFiles, brWrites>>

\* A plan is a value and may be applied again, with the backup it was made of, which is
\* what the one caller passes beside it (production_cli.py:112).  Without confirmation, or with its file
\* missing, nothing is written; otherwise the file is read again, unverified, and written
\* back scope by scope: to those with a writer, until one raises.
ApplyRestore(p, confirm) ==
  LET plan == brPlans[p]
      file == brFiles[plan.backup]
  IN /\ confirm /\ file.found
     /\ \E written \in SUBSET plan.scopes :
          /\ brLive' = [s \in BrScopes |-> IF s \in written THEN file.payload[s] ELSE brLive[s]]
          /\ brWrites' = {[plan |-> p, scope |-> s, value |-> file.payload[s]] : s \in written}
     /\ UNCHANGED <<brEdits, brBackups, brFiles, brPlans>>

\* No scopes in a request are all scopes, or all of the backup's.
Requests == (SUBSET BrScopes) \ {{}}

BrNext ==
  \/ \E s \in BrScopes : Edit(s)
  \/ \E type \in {"full", "incremental"}, asked \in Requests, b \in BackupIds \cup {0} :
       CreateBackup(type, asked, b)
  \/ \E b \in BackupIds : Damage(b)
  \/ \E b \in BackupIds, mode \in {"dry_run", "full", "selective"} :
       \E scopes \in Requests \cup {brBackups[b].scopes} : PlanRestore(b, mode, scopes)
  \/ \E p \in PlanIds, confirm \in BOOLEAN : ApplyRestore(p, confirm)

BrSpec == BrInit /\ [][BrNext]_brVars

-----------------------------------------------------------------------------
\* A restore writes back what was live when the backup was taken, or empties a scope
\* that a full backup listed without having fetched it, or its plan is older than a
\* change of the file: nothing else reaches live data, however backups, changes and
\* restores interleave.
RestoredWasCaptured ==
  \A w \in brWrites :
    LET plan == brPlans[w.plan]
        backup == brBackups[plan.backup]
    IN \/ w.scope \in backup.fetched /\ w.value = backup.taken[w.scope]
       \/ w.scope \notin backup.fetched /\ w.value = Null /\ backup.type = "full"
       \/ plan.touched
=============================================================================
