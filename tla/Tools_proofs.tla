---------------------------- MODULE Tools_proofs ----------------------------
(***************************************************************************)
(* The tools around the platform, proved for histories, graphs and tables  *)
(* of any size.  A section per component: its inductive invariant as a     *)
(* conjunction of named parts, a lemma per group of actions, the theorem.  *)
(*                                                                         *)
(*   Backups and restores   RestoresAreFaithful                            *)
(*   The dashboard          DashboardIsFresh                               *)
(*   Undo and redo          CanvasIsALine                                  *)
(*   Layouts                LayoutsHoldTogether                            *)
(*   Static analysis        VerdictsAreEarned                              *)
(*   Load order of plugins  LoadOrdersAreSafe                              *)
(*   Plugins                PluginsAreTrusted                              *)
(*   Platform readiness     ReadinessIsTold                                *)
(***************************************************************************)
EXTENDS BackupRestore, Canvas, Dashboard, PluginGraph, Plugins, Readiness,
        WorkflowAnalysis, FiniteSetTheorems, SequenceTheorems, WellFoundedInduction, TLAPS

-----------------------------------------------------------------------------
\* A set of numbers that is not empty has a least one, which is its Min.
LEMMA MinExists ==
  ASSUME NEW S, S \subseteq Nat, S # {}
  PROVE  Min(S) \in S /\ \A k \in S : Min(S) <= k
<1> DEFINE R == OpToRel(<, Nat)
<1>1. IsWellFoundedOn(R, Nat)
  BY NatLessThanWellFounded
<1>2. \A x, y \in Nat : y < x => <<y, x>> \in R
  BY DEF OpToRel
<1>3. PICK x \in S : \A y \in S : ~ (<<y, x>> \in R)
  <2> HIDE DEF R
  <2> QED BY <1>1, WFMin
<1> HIDE DEF R
<1>4. ASSUME NEW y \in S PROVE x <= y
  <2>1. x \in Nat /\ y \in Nat
    OBVIOUS
  <2>2. ~(y < x)
    BY <1>2, <1>3, <2>1
  <2> QED BY <2>1, <2>2
<1> QED
  BY <1>4 DEF Min

\* A frame of a depth-first search: a node, and the successors left.
Frames == [node : Nat, left : SUBSET Nat]

-----------------------------------------------------------------------------
(***************************************************************************)
(* Backups and restores.                                                   *)
(***************************************************************************)
\* Records are numbered from 1 in the order in which they are made.
Numbered(records) == \E n \in Nat : DOMAIN records = 1..n

\* A record that is added gets a number of its own, and the others keep theirs.
LEMMA AddedKeeps ==
  ASSUME NEW records, NEW new, Numbered(records)
  PROVE  /\ Numbered(Added(records, new))
         /\ Cardinality(DOMAIN records) + 1 \notin DOMAIN records
         /\ DOMAIN Added(records, new) = DOMAIN records \cup {Cardinality(DOMAIN records) + 1}
         /\ Added(records, new)[Cardinality(DOMAIN records) + 1] = new
         /\ \A i \in DOMAIN records : Added(records, new)[i] = records[i]
<1>1. PICK n \in Nat : DOMAIN records = 1..n
  BY DEF Numbered
<1>2. Cardinality(1..n) = n
  BY FS_Interval
<1>3. DOMAIN records \cup {n + 1} = 1..(n + 1) /\ n + 1 \notin DOMAIN records /\ n + 1 \in Nat
  BY <1>1
<1>4. DOMAIN Added(records, new) = DOMAIN records \cup {n + 1}
  BY <1>1, <1>2 DEF Added
<1>5. Numbered(Added(records, new))
  BY <1>3, <1>4 DEF Numbered
<1> QED
  BY <1>1, <1>2, <1>3, <1>4, <1>5 DEF Added

\* What a backup lists its file held when it was taken: what was live of the scopes
\* it fetched, and, for a full one, null for those it did not.
BackupSound(backup) ==
  /\ backup.scopes \subseteq DOMAIN backup.checksum
  /\ \A s \in backup.scopes :
       \/ s \in backup.fetched /\ backup.checksum[s] = backup.taken[s]
       \/ s \notin backup.fetched /\ backup.checksum[s] = Null /\ backup.type = "full"

\* A plan is made of the scopes its backup lists, and its file still holds what it
\* held then, unless it was touched.
PlanSound(plan) ==
  /\ DOMAIN plan = {"backup", "scopes", "touched"}
  /\ plan.backup \in BackupIds
  /\ plan.scopes \subseteq brBackups[plan.backup].scopes
  /\ \/ plan.touched
     \/ brFiles[plan.backup].payload = brBackups[plan.backup].checksum

\* The invariant of backups and restores.
BrInv ==
  /\ Numbered(brBackups) /\ Numbered(brPlans) /\ DOMAIN brFiles = BackupIds
  /\ \A b \in BackupIds : BackupSound(brBackups[b])
  /\ \A p \in PlanIds : PlanSound(brPlans[p])
  /\ \A w \in brWrites : w.plan \in PlanIds
  /\ RestoredWasCaptured

LEMMA CreateBackupKeeps ==
  ASSUME BrInv, NEW type \in {"full", "incremental"}, NEW asked, NEW baseline,
         CreateBackup(type, asked, baseline)
  PROVE  BrInv'
<1> DEFINE skipped == IF type = "incremental" /\ baseline \in BackupIds
                      THEN brBackups[baseline].scopes ELSE {}
           capture == asked \ skipped
           Record(fetched) ==
             [type |-> type, taken |-> brLive, fetched |-> fetched,
              checksum |-> Payload(capture, fetched),
              scopes |-> IF type = "incremental" THEN fetched ELSE capture,
              status |-> IF fetched = {} /\ capture # {} THEN "partial" ELSE "completed"]
           id == Cardinality(BackupIds) + 1
<1>1. PICK fetched \in SUBSET capture :
        /\ brBackups' = Added(brBackups, Record(fetched))
        /\ brFiles' = Added(brFiles, [found |-> TRUE, payload |-> Payload(capture, fetched)])
        /\ UNCHANGED <<brPlans, brWrites>>
  BY Zenon DEF CreateBackup
<1>2. BackupSound(Record(fetched))
  BY DEF BackupSound, Payload
<1> DEFINE new == Record(fetched)
<1> HIDE DEF Record, capture, new
<1>3. /\ Numbered(brBackups') /\ id \notin BackupIds /\ BackupIds' = BackupIds \cup {id}
      /\ brBackups'[id] = new /\ \A b \in BackupIds : brBackups'[b] = brBackups[b]
  <2>1. brBackups' = Added(brBackups, new) /\ Numbered(brBackups)
    BY <1>1 DEF BrInv, new
  <2> QED
    BY <2>1, AddedKeeps DEF BackupIds
<1>4. DOMAIN brFiles' = BackupIds' /\ \A b \in BackupIds : brFiles'[b] = brFiles[b]
  <2> DEFINE file == [found |-> TRUE, payload |-> Payload(capture, fetched)]
  <2> HIDE DEF file
  <2>1. brFiles' = Added(brFiles, file) /\ DOMAIN brFiles = BackupIds /\ Numbered(brFiles)
    BY <1>1 DEF BrInv, file, Numbered, BackupIds
  <2>2. DOMAIN Added(brFiles, file) = BackupIds \cup {id}
    BY <2>1, AddedKeeps
  <2>3. \A b \in BackupIds : Added(brFiles, file)[b] = brFiles[b]
    BY <2>1, AddedKeeps
  <2> QED
    BY <1>3, <2>1, <2>2, <2>3
<1>5. \A b \in BackupIds' : BackupSound(brBackups'[b])
  BY <1>2, <1>3 DEF BrInv, new
<1>6. \A p \in PlanIds' : PlanSound(brPlans[p])'
  BY <1>1, <1>3, <1>4 DEF BrInv, PlanIds, PlanSound
<1>7. RestoredWasCaptured'
  BY <1>1, <1>3 DEF BrInv, RestoredWasCaptured, PlanIds, PlanSound
<1> QED
  BY <1>1, <1>3, <1>4, <1>5, <1>6, <1>7 DEF BrInv, PlanIds

LEMMA DamageKeeps ==
  ASSUME BrInv, NEW b \in BackupIds, Damage(b)
  PROVE  BrInv'
<1>1. PICK file : brFiles' = [brFiles EXCEPT ![b] = file]
  BY DEF Damage
<1>2. brPlans' = Touched(b) /\ brBackups' = brBackups /\ brWrites' = brWrites
  BY DEF Damage
<1>3. PlanIds' = PlanIds
  BY <1>2 DEF Touched, PlanIds
<1>4. \A p \in PlanIds :
        /\ brPlans'[p].backup = brPlans[p].backup /\ brPlans'[p].scopes = brPlans[p].scopes
        /\ DOMAIN brPlans'[p] = {"backup", "scopes", "touched"}
        /\ brPlans[p].touched => brPlans'[p].touched
        /\ brPlans[p].backup = b => brPlans'[p].touched
  BY <1>2 DEF Touched, PlanIds, BrInv, PlanSound
<1>5. \A p \in PlanIds' : PlanSound(brPlans[p])'
  BY <1>1, <1>2, <1>3, <1>4 DEF BrInv, PlanSound, BackupIds
<1>6. RestoredWasCaptured'
  BY <1>2, <1>3, <1>4 DEF BrInv, RestoredWasCaptured
<1> QED
  BY <1>1, <1>2, <1>3, <1>5, <1>6 DEF BrInv, Numbered, PlanIds, BackupIds

LEMMA PlanRestoreKeeps ==
  ASSUME BrInv, NEW b \in BackupIds, NEW mode, NEW scopes, PlanRestore(b, mode, scopes)
  PROVE  BrInv'
<1> DEFINE new == [backup |-> b, scopes |-> scopes, touched |-> FALSE]
           id == Cardinality(PlanIds) + 1
<1>1. /\ brPlans' = Added(brPlans, new)
      /\ brBackups' = brBackups /\ brFiles' = brFiles /\ brWrites' = brWrites
      /\ Verified(b) /\ scopes \subseteq brBackups[b].scopes
  BY DEF PlanRestore
<1>2. /\ Numbered(brPlans') /\ PlanIds' = PlanIds \cup {id}
      /\ brPlans'[id] = new /\ \A p \in PlanIds : brPlans'[p] = brPlans[p]
  <2> HIDE DEF new
  <2>1. brPlans' = Added(brPlans, new) /\ Numbered(brPlans)
    BY <1>1 DEF BrInv
  <2> QED
    BY <2>1, AddedKeeps DEF PlanIds
<1>3. PlanSound(new)'
  BY <1>1 DEF PlanSound, Verified, BackupIds
<1>4. \A p \in PlanIds : PlanSound(brPlans[p])'
  BY <1>1, <1>2 DEF BrInv, PlanSound, BackupIds
<1>5. RestoredWasCaptured'
  BY <1>1, <1>2 DEF BrInv, RestoredWasCaptured
<1> QED
  BY <1>1, <1>2, <1>3, <1>4, <1>5 DEF BrInv, BackupIds, Numbered

LEMMA ApplyRestoreKeeps ==
  ASSUME BrInv, NEW p \in PlanIds, NEW confirm, ApplyRestore(p, confirm)
  PROVE  BrInv'
<1> DEFINE plan == brPlans[p]
           backup == brBackups[plan.backup]
           file == brFiles[plan.backup]
<1>1. PICK written \in SUBSET plan.scopes :
        /\ brWrites' = {[plan |-> p, scope |-> s, value |-> file.payload[s]] : s \in written}
        /\ brBackups' = brBackups /\ brFiles' = brFiles /\ brPlans' = brPlans
  BY DEF ApplyRestore
<1>2. PlanSound(plan) /\ BackupSound(backup)
  BY DEF BrInv, PlanSound
<1>3. ASSUME NEW s \in written
      PROVE  \/ s \in backup.fetched /\ file.payload[s] = backup.taken[s]
             \/ s \notin backup.fetched /\ file.payload[s] = Null /\ backup.type = "full"
             \/ plan.touched
  BY <1>2 DEF PlanSound, BackupSound
<1>4. RestoredWasCaptured'
  <2> SUFFICES ASSUME NEW w \in brWrites'
               PROVE  \/ w.scope \in backup.fetched /\ w.value = backup.taken[w.scope]
                      \/ w.scope \notin backup.fetched /\ w.value = Null
                           /\ backup.type = "full"
                      \/ plan.touched
    BY <1>1 DEF RestoredWasCaptured
  <2>1. PICK s \in written : w = [plan |-> p, scope |-> s, value |-> file.payload[s]]
    BY <1>1
  <2>2. w.scope = s /\ w.value = file.payload[s]
    BY <2>1
  <2> HIDE DEF plan, backup, file
  <2> QED
    BY <1>3, <2>2
<1>5. \A w \in brWrites' : w.plan \in PlanIds
  BY <1>1
<1>6. BackupIds' = BackupIds /\ PlanIds' = PlanIds
  BY <1>1 DEF BackupIds, PlanIds
<1> HIDE DEF plan, backup, file
<1>7. \A q \in PlanIds : PlanSound(brPlans[q])'
  BY <1>1, <1>6 DEF BrInv, PlanSound
<1> QED
  BY <1>1, <1>4, <1>5, <1>6, <1>7 DEF BrInv, Numbered

\* What a restore writes was captured by its backup, or the file was changed after
\* the restore was planned, for any number of scopes, backups, edits and restores
\* (restore_manager.py, apply_restore; backup_manager.py, create_backup).
THEOREM RestoresAreFaithful == BrSpec => []RestoredWasCaptured
<1>1. BrInit => BrInv
  BY DEF BrInit, BrInv, BackupIds, PlanIds, Numbered, RestoredWasCaptured
<1>2. BrInv /\ [BrNext]_brVars => BrInv'
  <2> SUFFICES ASSUME BrInv, [BrNext]_brVars PROVE BrInv'
    OBVIOUS
  <2>1. ASSUME NEW s \in BrScopes, Edit(s) PROVE BrInv'
    BY <2>1 DEF Edit, BrInv, BackupIds, PlanIds, Numbered, PlanSound, RestoredWasCaptured
  <2>2. CASE UNCHANGED brVars
    BY <2>2 DEF brVars, BrInv, BackupIds, PlanIds, Numbered, PlanSound, RestoredWasCaptured
  <2> QED
    BY <2>1, <2>2, CreateBackupKeeps, DamageKeeps, PlanRestoreKeeps, ApplyRestoreKeeps
       DEF BrNext
<1>3. BrInv => RestoredWasCaptured
  BY DEF BrInv
<1> QED
  BY <1>1, <1>2, <1>3, PTL DEF BrSpec

-----------------------------------------------------------------------------
(***************************************************************************)
(* The dashboard.                                                          *)
(***************************************************************************)
\* A card says where its value is from: from the cache it is not None and younger
\* than its time to live, and without a fetch it is None for the versions alone.
CardSound(card) ==
  /\ card.from = "cache" => card.age < Ttl(card.section) /\ card.value # None
  /\ card.section = "events" => card.from = "fetch"
  /\ card.value = None /\ card.section # "versions" => card.from = "fetch"

DaCards == [section : {"workflows", "versions", "events"}, value : {Some, None},
            from : {"cache", "fetch", "nothing"}, age : Int]

\* What a request has gathered: the sections in their order, and versions only
\* after workflows; nor are versions fetched without them.
GatheredSoundly(r) ==
  /\ daRaw[r] \in Seq(DaCards)
  /\ Len(daRaw[r]) <= 3
  /\ \A i \in 1..Len(daRaw[r]) :
       daRaw[r][i].section = Sections[i] /\ CardSound(daRaw[r][i])
  /\ Len(daRaw[r]) >= 2 /\ daRaw[r][2].value # None => daRaw[r][1].value # None
  /\ Len(daRaw[r]) = 1 /\ daPc[r] = "fetch" => daRaw[r][1].value # None

\* The invariant of the dashboard.
DaInv ==
  /\ daNow \in Nat
  /\ DOMAIN daPc = DaRequests /\ DOMAIN daRaw = DaRequests
  /\ DOMAIN daStore \subseteq {"workflows", "versions"}
  /\ \A s \in DOMAIN daStore : daStore[s].expires \in Nat /\ daStore[s].value \in {Some, None}
  /\ \A r \in DaRequests : GatheredSoundly(r)

LEMMA SectionsInOrder ==
  /\ Len(Sections) = 3
  /\ Sections[1] = "workflows" /\ Sections[2] = "versions" /\ Sections[3] = "events"
BY DEF Sections

LEMMA GatheredLength ==
  ASSUME DaInv, NEW r \in DaRequests
  PROVE  /\ daRaw[r] \in Seq(DaCards) /\ Len(daRaw[r]) \in 0..3
         /\ DOMAIN daRaw[r] = 1..Len(daRaw[r])
<1>1. daRaw[r] \in Seq(DaCards) /\ Len(daRaw[r]) <= 3
  BY DEF DaInv, GatheredSoundly
<1>2. Len(daRaw[r]) \in Nat
  BY <1>1
<1>3. DOMAIN daRaw[r] = 1..Len(daRaw[r])
  BY <1>1
<1>4. \A n \in Nat : n <= 3 => n \in 0..3
  OBVIOUS
<1> QED
  BY <1>1, <1>2, <1>3, <1>4, Zenon

LEMMA GatheredIsFresh == DaInv => CardsAreFresh
<1> SUFFICES ASSUME DaInv, NEW r \in DaRequests, NEW i \in DOMAIN daRaw[r]
             PROVE  /\ daRaw[r][i].from = "cache" => daRaw[r][i].age < Ttl(daRaw[r][i].section)
                    /\ daRaw[r][i].section = "events" => daRaw[r][i].from = "fetch"
                    /\ daRaw[r][i].section \in Degraded(r) => daRaw[r][i].from = "fetch"
                    /\ daRaw[r][i].section = "versions" /\ daRaw[r][i].value # None
                         => "workflows" \notin Degraded(r)
  BY Zenon DEF CardsAreFresh
<1>1. DOMAIN daRaw[r] = 1..Len(daRaw[r]) /\ Len(daRaw[r]) \in 0..3
  BY GatheredLength
<1>2. \A j \in DOMAIN daRaw[r] :
        daRaw[r][j].section = Sections[j] /\ CardSound(daRaw[r][j])
  BY <1>1 DEF DaInv, GatheredSoundly
<1>3. \A j, k \in DOMAIN daRaw[r] : daRaw[r][j].section = daRaw[r][k].section => j = k
  <2> SUFFICES ASSUME NEW j \in DOMAIN daRaw[r], NEW k \in DOMAIN daRaw[r],
                      Sections[j] = Sections[k]
               PROVE  j = k
    BY <1>2
  <2>1. PICK n \in 0..3 : DOMAIN daRaw[r] = 1..n
    BY <1>1
  <2>2. j \in 1..n /\ k \in 1..n
    BY <2>1
  <2>3. j \in {1, 2, 3} /\ k \in {1, 2, 3}
    BY <2>2
  <2> QED
    BY <2>3, SectionsInOrder
<1>4. \A s \in Degraded(r) :
        s # "versions" /\ \E j \in DOMAIN daRaw[r] : daRaw[r][j].section = s
                                                       /\ daRaw[r][j].value = None
  BY DEF Degraded
<1>5. ASSUME daRaw[r][i].section \in Degraded(r) PROVE daRaw[r][i].from = "fetch"
  BY <1>2, <1>3, <1>4, <1>5 DEF CardSound
<1>6. ASSUME daRaw[r][i].section = "versions", daRaw[r][i].value # None
      PROVE  "workflows" \notin Degraded(r)
  <2>1. i = 2
    BY <1>1, <1>2, <1>6, SectionsInOrder
  <2>2. 1 \in DOMAIN daRaw[r] /\ daRaw[r][1].value # None /\ daRaw[r][1].section = "workflows"
    BY <1>1, <1>2, <1>6, <2>1, SectionsInOrder DEF DaInv, GatheredSoundly
  <2> QED
    BY <1>3, <1>4, <2>2
<1>7. /\ daRaw[r][i].from = "cache" => daRaw[r][i].age < Ttl(daRaw[r][i].section)
      /\ daRaw[r][i].section = "events" => daRaw[r][i].from = "fetch"
  BY <1>2 DEF CardSound
<1> QED
  BY <1>5, <1>6, <1>7, Zenon

\* A card that is sound may be added to what a request has gathered.
LEMMA GivesKeeps ==
  ASSUME DaInv, NEW r \in DaRequests, Len(daRaw[r]) < 3,
         NEW value \in {Some, None}, NEW from \in {"cache", "fetch", "nothing"}, NEW age \in Int,
         Gives(r, value, from, age),
         CardSound([section |-> Section(r), value |-> value, from |-> from, age |-> age]),
         Section(r) = "versions" /\ value # None => daRaw[r][1].value # None,
         daPc'[r] = "gather", DOMAIN daPc' = DaRequests,
         \A q \in DaRequests \ {r} : daPc'[q] = daPc[q]
  PROVE  DOMAIN daRaw' = DaRequests /\ \A q \in DaRequests : GatheredSoundly(q)'
<1> DEFINE card == [section |-> Section(r), value |-> value, from |-> from, age |-> age]
<1>1. daRaw[r] \in Seq(DaCards) /\ Len(daRaw[r]) \in 0..2
  <2>1. daRaw[r] \in Seq(DaCards) /\ Len(daRaw[r]) \in 0..3
    BY GatheredLength, Zenon
  <2>2. \A n \in 0..3 : n < 3 => n \in 0..2
    OBVIOUS
  <2> QED
    BY <2>1, <2>2, Zenon
<1>2. Section(r) \in {"workflows", "versions", "events"}
  BY <1>1, SectionsInOrder DEF Section
<1>3. card \in DaCards
  <2>1. \A s \in {"workflows", "versions", "events"} :
          [section |-> s, value |-> value, from |-> from, age |-> age] \in DaCards
    BY DEF DaCards
  <2> QED
    BY <1>2, <2>1
<1> HIDE DEF card
<1>4. /\ daRaw'[r] = Append(daRaw[r], card) /\ DOMAIN daRaw' = DaRequests
      /\ \A q \in DaRequests \ {r} : daRaw'[q] = daRaw[q]
  BY DEF Gives, DaInv, card
<1>5. /\ daRaw'[r] \in Seq(DaCards) /\ Len(daRaw'[r]) = Len(daRaw[r]) + 1
      /\ \A i \in 1..Len(daRaw[r]) : daRaw'[r][i] = daRaw[r][i]
      /\ daRaw'[r][Len(daRaw[r]) + 1] = card
  BY <1>1, <1>3, <1>4
<1>6. \A i \in 1..Len(daRaw'[r]) :
        daRaw'[r][i].section = Sections[i] /\ CardSound(daRaw'[r][i])
  <2> SUFFICES ASSUME NEW i \in 1..Len(daRaw'[r])
               PROVE  daRaw'[r][i].section = Sections[i] /\ CardSound(daRaw'[r][i])
    OBVIOUS
  <2>1. CASE i = Len(daRaw[r]) + 1
    BY <1>5, <2>1 DEF card, Section
  <2>2. CASE i \in 1..Len(daRaw[r])
    BY <1>5, <2>2 DEF DaInv, GatheredSoundly
  <2> QED
    BY <1>1, <1>5, <2>1, <2>2
<1>7. Len(daRaw'[r]) >= 2 /\ daRaw'[r][2].value # None => daRaw'[r][1].value # None
  <2>1. CASE Len(daRaw[r]) = 1
    BY <1>5, <2>1, SectionsInOrder DEF card, Section
  <2>2. CASE Len(daRaw[r]) # 1
    BY <1>1, <1>5, <2>2 DEF DaInv, GatheredSoundly
  <2> QED
    BY <2>1, <2>2
<1>8. GatheredSoundly(r)'
  BY <1>1, <1>5, <1>6, <1>7 DEF GatheredSoundly
<1>9. \A q \in DaRequests \ {r} : GatheredSoundly(q)'
  BY <1>4 DEF GatheredSoundly, DaInv
<1> QED
  BY <1>4, <1>8, <1>9

\* A request that gathers nothing in a step keeps what it has.
LEMMA GatheredKept ==
  ASSUME DaInv, daRaw' = daRaw, NEW r \in DaRequests,
         DOMAIN daPc' = DaRequests, \A q \in DaRequests \ {r} : daPc'[q] = daPc[q],
         daPc'[r] = "fetch" /\ Len(daRaw[r]) = 1 => daRaw[r][1].value # None
  PROVE  DOMAIN daRaw' = DaRequests /\ \A q \in DaRequests : GatheredSoundly(q)'
BY DEF GatheredSoundly, DaInv

LEMMA HitKeeps == ASSUME DaInv, NEW r \in DaRequests, Hit(r) PROVE DaInv'
<1> DEFINE s == Section(r)
           age == daNow - (daStore[s].expires - Ttl(s))
<1>1. /\ daPc[r] = "gather" /\ Len(daRaw[r]) < 3 /\ s # "events" /\ ~NoWorkflows(r)
      /\ s \in DOMAIN daStore /\ daNow < daStore[s].expires /\ daStore[s].value # None
      /\ Gives(r, daStore[s].value, "cache", age)
      /\ UNCHANGED <<daNow, daStore, daPc, daDb>>
  BY SectionsInOrder DEF Hit, Gathering, Cached
<1>2. daStore[s].expires \in Nat /\ daStore[s].value \in {Some, None} /\ daNow \in Nat
  BY <1>1 DEF DaInv
<1>3. Ttl(s) \in Nat
  BY DashboardAssumption DEF Ttl
<1>4. age \in Int /\ age < Ttl(s)
  BY <1>1, <1>2, <1>3
<1>5. s = "versions" => daRaw[r][1].value # None
  BY <1>1 DEF NoWorkflows
<1> HIDE DEF s, age
<1>6. CardSound([section |-> s, value |-> daStore[s].value, from |-> "cache", age |-> age])
  BY <1>1, <1>4 DEF CardSound
<1>7. DOMAIN daRaw' = DaRequests /\ \A q \in DaRequests : GatheredSoundly(q)'
  <2>1. DOMAIN daPc' = DaRequests /\ daPc' = daPc
    BY <1>1 DEF DaInv
  <2> DEFINE value == daStore[s].value
  <2>2. /\ value \in {Some, None} /\ Gives(r, value, "cache", age)
        /\ CardSound([section |-> Section(r), value |-> value, from |-> "cache", age |-> age])
        /\ Section(r) = "versions" => daRaw[r][1].value # None
    BY <1>1, <1>2, <1>5, <1>6 DEF s
  <2> HIDE DEF value
  <2> QED
    BY <1>1, <1>4, <2>1, <2>2, GivesKeeps
<1> QED
  BY <1>1, <1>7 DEF DaInv

LEMMA SkipKeeps == ASSUME DaInv, NEW r \in DaRequests, Skip(r) PROVE DaInv'
<1>1. /\ daPc[r] = "gather" /\ Len(daRaw[r]) < 3 /\ Section(r) = "versions"
      /\ Gives(r, None, "nothing", 0) /\ UNCHANGED <<daNow, daStore, daPc, daDb>>
  BY SectionsInOrder DEF Skip, Gathering, NoWorkflows
<1>2. CardSound([section |-> Section(r), value |-> None, from |-> "nothing", age |-> 0])
  BY <1>1 DEF CardSound
<1>3. DOMAIN daRaw' = DaRequests /\ \A q \in DaRequests : GatheredSoundly(q)'
  <2>1. DOMAIN daPc' = DaRequests /\ daPc' = daPc
    BY <1>1 DEF DaInv
  <2> QED
    BY <1>1, <1>2, <2>1, GivesKeeps
<1> QED
  BY <1>1, <1>3 DEF DaInv

LEMMA MissKeeps == ASSUME DaInv, NEW r \in DaRequests, Miss(r) PROVE DaInv'
<1>1. /\ daPc[r] = "gather" /\ Len(daRaw[r]) < 3 /\ ~NoWorkflows(r)
      /\ daPc' = [daPc EXCEPT ![r] = "fetch"] /\ UNCHANGED <<daNow, daDb, daRaw>>
  BY SectionsInOrder DEF Miss, Gathering
<1>2. Len(daRaw[r]) = 1 => daRaw[r][1].value # None
  BY <1>1, SectionsInOrder DEF NoWorkflows, Section
<1>3. DOMAIN daPc' = DaRequests /\ \A q \in DaRequests \ {r} : daPc'[q] = daPc[q]
  BY <1>1 DEF DaInv
<1>4. DOMAIN daRaw' = DaRequests /\ \A q \in DaRequests : GatheredSoundly(q)'
  BY <1>1, <1>2, <1>3, GatheredKept
<1>5. /\ DOMAIN daStore' \subseteq {"workflows", "versions"}
      /\ \A s \in DOMAIN daStore' : daStore'[s].expires \in Nat
                                      /\ daStore'[s].value \in {Some, None}
  BY DEF Miss, DaInv
<1> QED
  BY <1>1, <1>3, <1>4, <1>5 DEF DaInv

LEMMA FetchedKeeps == ASSUME DaInv, NEW r \in DaRequests, Fetched(r) PROVE DaInv'
<1>1. /\ daPc[r] = "fetch" /\ Len(daRaw[r]) < 3
      /\ daPc' = [daPc EXCEPT ![r] = "gather"] /\ UNCHANGED <<daNow, daDb>>
  BY SectionsInOrder DEF Fetched, Gathering
<1>2. PICK value \in {Some, None} :
        /\ Gives(r, value, "fetch", 0)
        /\ daStore' = IF Section(r) = "events" THEN daStore
             ELSE [s \in DOMAIN daStore \cup {Section(r)} |->
                     IF s # Section(r) THEN daStore[s]
                     ELSE [value |-> value, expires |-> daNow + Ttl(s)]]
  BY DEF Fetched
<1>3. /\ DOMAIN daPc' = DaRequests /\ daPc'[r] = "gather"
      /\ \A q \in DaRequests \ {r} : daPc'[q] = daPc[q]
  BY <1>1 DEF DaInv
<1>4. Len(daRaw[r]) \in 0..2 /\ Section(r) \in {"workflows", "versions", "events"}
  <2>1. PICK n \in 0..2 : n = Len(daRaw[r])
    BY <1>1, GatheredLength
  <2>2. Section(r) \in {Sections[1], Sections[2], Sections[3]}
    <3>1. n + 1 \in {1, 2, 3}
      OBVIOUS
    <3> QED
      BY <2>1, <3>1, Zenon DEF Section
  <2> QED
    BY <2>1, <2>2, SectionsInOrder
<1>5. CardSound([section |-> Section(r), value |-> value, from |-> "fetch", age |-> 0])
  BY DEF CardSound
<1>6. Section(r) = "versions" => daRaw[r][1].value # None
  <2>1. PICK n \in 0..2 : n = Len(daRaw[r])
    BY <1>4
  <2>2. n \in {0, 2} => Sections[n + 1] # "versions"
    BY SectionsInOrder
  <2>3. Section(r) = "versions" => Len(daRaw[r]) = 1
    BY <2>1, <2>2 DEF Section
  <2> QED
    BY <1>1, <2>3 DEF DaInv, GatheredSoundly
<1>7. DOMAIN daRaw' = DaRequests /\ \A q \in DaRequests : GatheredSoundly(q)'
  BY <1>1, <1>2, <1>3, <1>5, <1>6, GivesKeeps
<1>8. /\ DOMAIN daStore' \subseteq {"workflows", "versions"}
      /\ \A s \in DOMAIN daStore' : daStore'[s].expires \in Nat
                                      /\ daStore'[s].value \in {Some, None}
  <2>1. \A s : Ttl(s) \in Nat
    BY DashboardAssumption DEF Ttl
  <2> QED
    BY <1>2, <1>4, <2>1 DEF DaInv
<1> QED
  BY <1>1, <1>3, <1>7, <1>8 DEF DaInv

\* What the dashboard shows is fresh, or was tried by the request that shows it, for
\* any number of requests, any times to live and any clock (dashboard_cache.py,
\* get_or_build; dashboard_service.py, _gather_raw).
THEOREM DashboardIsFresh == DaSpec => []CardsAreFresh
<1>1. DaInit => DaInv
  BY DEF DaInit, DaInv, GatheredSoundly
<1>2. DaInv /\ [DaNext]_daVars => DaInv'
  <2> SUFFICES ASSUME DaInv, [DaNext]_daVars PROVE DaInv'
    OBVIOUS
  <2>1. CASE DaTick \/ UNCHANGED daVars
    <3>1. daNow' \in Nat /\ daStore' = daStore /\ daPc' = daPc /\ daRaw' = daRaw
      BY <2>1 DEF DaTick, daVars, DaInv
    <3>2. \A r \in DaRequests : GatheredSoundly(r)'
      BY <3>1 DEF DaInv, GatheredSoundly
    <3> QED
      BY <3>1, <3>2 DEF DaInv
  <2>2. ASSUME NEW r \in DaRequests, Ask(r) PROVE DaInv'
    <3>1. /\ daPc' = [daPc EXCEPT ![r] = "gather"] /\ UNCHANGED <<daNow, daStore, daDb, daRaw>>
      BY <2>2 DEF Ask
    <3>2. /\ DOMAIN daPc' = DaRequests /\ daPc'[r] = "gather"
          /\ \A q \in DaRequests \ {r} : daPc'[q] = daPc[q]
      BY <3>1 DEF DaInv
    <3>3. DOMAIN daRaw' = DaRequests /\ \A q \in DaRequests : GatheredSoundly(q)'
      BY <3>1, <3>2, GatheredKept
    <3> QED
      BY <3>1, <3>2, <3>3 DEF DaInv
  <2>3. ASSUME NEW r \in DaRequests, Assemble(r) PROVE DaInv'
    <3>1. /\ daPc' = [daPc EXCEPT ![r] = "idle"] /\ daRaw' = [daRaw EXCEPT ![r] = <<>>]
          /\ UNCHANGED <<daNow, daStore, daDb>>
      BY <2>3 DEF Assemble
    <3>2. ASSUME NEW q \in DaRequests PROVE GatheredSoundly(q)'
      <4>1. CASE q = r
        <5>1. daRaw'[q] = <<>>
          BY <3>1, <4>1 DEF DaInv
        <5> QED
          BY <5>1 DEF GatheredSoundly
      <4>2. CASE q # r
        BY <3>1, <4>2 DEF DaInv, GatheredSoundly
      <4> QED
        BY <4>1, <4>2
    <3> QED
      BY <3>1, <3>2 DEF DaInv
  <2> QED
    BY <2>1, <2>2, <2>3, HitKeeps, SkipKeeps, MissKeeps, FetchedKeeps DEF DaNext
<1>3. DaInv => CardsAreFresh
  BY GatheredIsFresh
<1> QED
  BY <1>1, <1>2, <1>3, PTL DEF DaSpec

-----------------------------------------------------------------------------
(***************************************************************************)
(* Undo and redo.                                                          *)
(***************************************************************************)
\* The layouts that can be shown: the current one and what undo or redo brings back.
Shown == ToSet(cvHistory) \cup {cvLayout} \cup ToSet(cvFuture)

\* History and future are sequences of layouts, together no longer than the history
\* may be: a redo always finds its place.
CvInv ==
  /\ cvHistory \in Seq(Shown) /\ cvFuture \in Seq(Shown)
  /\ Len(cvHistory) + Len(cvFuture) <= CvMaxHistory

LEMMA HistoryBound == CvMaxHistory \in Nat
BY CanvasAssumption

\* A sequence is one over any set that holds what is in it.
LEMMA SeqOver ==
  ASSUME NEW L, NEW s \in Seq(L), NEW T, \A i \in 1..Len(s) : s[i] \in T
  PROVE  s \in Seq(T)
BY LenProperties, SeqDef

\* What can be shown after a step is enough to say what history and future are.
LEMMA ShownIs ==
  ASSUME NEW L, NEW h \in Seq(L), NEW f \in Seq(L), NEW l \in L,
         NEW T, T = ToSet(h) \cup {l} \cup ToSet(f)
  PROVE  h \in Seq(T) /\ f \in Seq(T) /\ l \in T
<1>1. DOMAIN h = 1..Len(h) /\ DOMAIN f = 1..Len(f)
  BY LenProperties
<1>2. \A i \in 1..Len(h) : h[i] \in T
  BY <1>1 DEF ToSet
<1>3. \A i \in 1..Len(f) : f[i] \in T
  BY <1>1 DEF ToSet
<1> QED
  BY <1>2, <1>3, SeqOver

\* The layouts on their line.
Laid(h, l, f) == h \o <<l>> \o f

LEMMA LaidOut ==
  ASSUME NEW L, NEW h \in Seq(L), NEW l \in L, NEW f \in Seq(L)
  PROVE  /\ Laid(h, l, f) \in Seq(L)
         /\ Len(Laid(h, l, f)) = Len(h) + 1 + Len(f)
         /\ \A i \in 1..Len(h) : Laid(h, l, f)[i] = h[i]
         /\ Laid(h, l, f)[Len(h) + 1] = l
         /\ \A i \in 1..Len(f) : Laid(h, l, f)[Len(h) + 1 + i] = f[i]
<1> DEFINE hl == h \o <<l>>
           hlf == hl \o f
<1>1. <<l>> \in Seq(L) /\ Len(<<l>>) = 1 /\ <<l>>[1] = l
  OBVIOUS
<1>2. PICK m \in Nat, n \in Nat : m = Len(h) /\ n = Len(f)
  BY LenProperties
<1>3. hl \in Seq(L) /\ Len(hl) = m + 1
  BY <1>1, <1>2, ConcatProperties
<1>4. \A i \in 1..m + 1 : hl[i] = IF i <= m THEN h[i] ELSE <<l>>[i - m]
  BY <1>1, <1>2, ConcatProperties
<1>5. hl[m + 1] = l
  BY <1>1, <1>2, <1>4
<1> HIDE DEF hl
<1>6. hlf \in Seq(L) /\ Len(hlf) = m + 1 + n
  BY <1>2, <1>3, ConcatProperties
<1>7. \A i \in 1..m + 1 + n : hlf[i] = IF i <= m + 1 THEN hl[i] ELSE f[i - (m + 1)]
  BY <1>2, <1>3, ConcatProperties
<1>8. Laid(h, l, f) = hlf
  BY DEF Laid, hl
<1> HIDE DEF hlf
<1>9. /\ \A i \in 1..m : hlf[i] = h[i]
      /\ hlf[m + 1] = l
      /\ \A i \in 1..n : hlf[m + 1 + i] = f[i]
  BY <1>4, <1>5, <1>7
<1> QED
  BY <1>2, <1>6, <1>8, <1>9

\* Undo and redo leave the line as it is: they move one layout across the place where
\* the user stands.
LEMMA LineKept ==
  ASSUME NEW L, NEW h \in Seq(L), NEW l \in L, NEW f \in Seq(L), f # <<>>
  PROVE  Laid(Append(h, l), Head(f), Tail(f)) = Laid(h, l, f)
<1> DEFINE hl == h \o <<l>>
           first == <<Head(f)>>
<1>1. Append(h, l) = hl
  BY AppendIsConcat
<1>2. hl \in Seq(L) /\ Tail(f) \in Seq(L) /\ first \in Seq(L)
  BY ConcatProperties, HeadTailProperties
<1>3. first \o Tail(f) = f
  <2>1. PICK n \in Nat : n = Len(Tail(f)) /\ n + 1 = Len(f)
    BY LenProperties, EmptySeq, HeadTailProperties
  <2>2. \A i \in 1..n : Tail(f)[i] = f[i + 1]
    BY <2>1, HeadTailProperties
  <2>3. first \o Tail(f) \in Seq(L) /\ Len(first \o Tail(f)) = n + 1
    BY <1>2, <2>1, ConcatProperties
  <2>4. ASSUME NEW i \in 1..n + 1 PROVE (first \o Tail(f))[i] = f[i]
    BY <1>2, <2>1, <2>2
  <2> QED
    BY <2>1, <2>3, <2>4, SeqEqual
<1>4. (hl \o first) \o Tail(f) = hl \o (first \o Tail(f))
  BY <1>2, ConcatAssociative
<1> QED
  BY <1>1, <1>3, <1>4 DEF Laid

\* An undo is the redo it can be taken back by.
LEMMA LineKeptBack ==
  ASSUME NEW L, NEW h \in Seq(L), NEW l \in L, NEW f \in Seq(L), h # <<>>
  PROVE  /\ Front(h) \in Seq(L) /\ Last(h) \in L /\ Len(Front(h)) = Len(h) - 1
         /\ <<l>> \o f \in Seq(L) /\ Len(<<l>> \o f) = Len(f) + 1
         /\ Laid(Front(h), Last(h), <<l>> \o f) = Laid(h, l, f)
<1>1. PICK g \in Seq(L), k \in L : h = Append(g, k)
  BY SequenceEmptyOrAppend
<1>2. /\ Len(h) = Len(g) + 1 /\ Len(g) \in Nat /\ h[Len(g) + 1] = k
      /\ \A i \in 1..Len(g) : h[i] = g[i]
  BY <1>1, AppendProperties, LenProperties
<1>3. Last(h) = k
  BY <1>2 DEF Last
<1>4. Front(h) = g
  <2>1. Front(h) = SubSeq(h, 1, Len(g))
    BY <1>2 DEF Front
  <2>2. /\ SubSeq(h, 1, Len(g)) \in Seq(L) /\ Len(SubSeq(h, 1, Len(g))) = Len(g)
        /\ \A i \in 1..Len(g) : SubSeq(h, 1, Len(g))[i] = h[i]
    <3>1. \A i \in 1..Len(g) : h[i] \in L
      BY <1>2, ElementOfSeq
    <3> QED
      BY <1>2, <3>1, SubSeqProperties
  <2> QED
    BY <1>2, <2>1, <2>2, SeqEqual
<1> DEFINE lf == <<l>> \o f
<1>5. <<l>> \in Seq(L) /\ Len(<<l>>) = 1 /\ <<l>>[1] = l
  OBVIOUS
<1>6. /\ lf \in Seq(L) /\ Len(lf) = Len(f) + 1 /\ Len(f) \in Nat
      /\ \A i \in 1..Len(f) + 1 : lf[i] = IF i <= 1 THEN <<l>>[i] ELSE f[i - 1]
  BY <1>5, ConcatProperties, LenProperties
<1> HIDE DEF lf
<1>7. lf # <<>> /\ Head(lf) = l
  BY <1>5, <1>6, EmptySeq
<1>8. Tail(lf) = f
  <2>1. /\ Tail(lf) \in Seq(L) /\ Len(Tail(lf)) = Len(f)
        /\ \A i \in 1..Len(f) : Tail(lf)[i] = lf[i + 1]
    BY <1>6, <1>7, HeadTailProperties
  <2>2. \A i \in 1..Len(f) : lf[i + 1] = f[i]
    BY <1>6
  <2> QED
    BY <2>1, <2>2, SeqEqual
<1>9. Laid(Append(g, k), Head(lf), Tail(lf)) = Laid(g, k, lf)
  BY <1>6, <1>7, LineKept
<1>10. Laid(Front(h), Last(h), lf) = Laid(h, l, f)
  BY <1>1, <1>3, <1>4, <1>7, <1>8, <1>9
<1> QED
  BY <1>2, <1>3, <1>4, <1>6, <1>10 DEF lf


\* What the history keeps of the layouts up to an edit, and what the line keeps of them.
Pushed(all, M) == SubSeq(all, IF Len(all) > M THEN 2 ELSE 1, Len(all))
Trimmed(past, n, M) == IF n <= M THEN past ELSE SubSeq(past, n - M + 1, n)

LEMMA EditKept ==
  ASSUME NEW L, NEW h \in Seq(L), NEW l \in L, NEW f \in Seq(L),
         NEW M \in Nat, Len(h) <= M
  PROVE  /\ Pushed(Append(h, l), M) \in Seq(L) /\ Len(Pushed(Append(h, l), M)) <= M
         /\ Pushed(Append(h, l), M)
              = Trimmed(SubSeq(Laid(h, l, f), 1, Len(h) + 1), Len(h) + 1, M)
<1> DEFINE hl == Append(h, l)
           kept == Pushed(hl, M)
<1>1. PICK m \in Nat : m = Len(h)
  BY LenProperties
<1>2. hl \in Seq(L) /\ Len(hl) = m + 1 /\ hl = h \o <<l>>
  BY <1>1, AppendProperties, AppendIsConcat
<1>3. SubSeq(hl, 1, m + 1) = hl
  BY <1>2, SubSeqFull
<1> HIDE DEF hl, kept
<1>4. SubSeq(Laid(h, l, f), 1, m + 1) = hl
  <2>1. Laid(h, l, f) = hl \o f
    BY <1>2 DEF Laid
  <2>2. 1 \in 1..Len(hl) /\ m + 1 \in 1..Len(hl)
    BY <1>2
  <2> QED
    BY <1>2, <1>3, <2>1, <2>2, SubSeqOfConcat1
<1>5. \A i \in 1..m + 1 : hl[i] \in L
  BY <1>2, ElementOfSeq
<1>6. CASE m + 1 <= M
  <2>1. kept = hl
    BY <1>2, <1>3, <1>6 DEF kept, Pushed
  <2> QED
    BY <1>1, <1>2, <1>4, <1>6, <2>1 DEF Trimmed, hl, kept
<1>7. CASE m = M
  <2>1. kept = SubSeq(hl, 2, m + 1)
    BY <1>2, <1>7 DEF kept, Pushed
  <2>2. \A i \in 2..m + 1 : hl[i] \in L
    BY <1>5
  <2>3. SubSeq(hl, 2, m + 1) \in Seq(L)
    BY <2>2, SubSeqProperties
  <2>4. Len(SubSeq(hl, 2, m + 1)) = m
    <3>1. Len(SubSeq(hl, 2, m + 1)) = IF 2 <= m + 1 THEN m + 1 - 2 + 1 ELSE 0
      BY <2>2, SubSeqProperties
    <3> QED
      BY <3>1
  <2>5. m + 1 - M + 1 = 2 /\ ~(m + 1 <= M)
    BY <1>7
  <2> QED
    <3>1. Trimmed(hl, m + 1, M) = kept
      BY <2>1, <2>5 DEF Trimmed
    <3>2. kept \in Seq(L) /\ Len(kept) <= M
      BY <1>7, <2>1, <2>3, <2>4
    <3> QED
      BY <1>1, <1>4, <3>1, <3>2 DEF hl, kept
<1> QED
  BY <1>1, <1>6, <1>7

\* The line after an edit ends with the edited layout.
LEMMA LineAfterEdit ==
  ASSUME NEW L, NEW h \in Seq(L), NEW l \in L
  PROVE  /\ Laid(h, l, <<>>) # <<>> /\ Len(Laid(h, l, <<>>)) = Len(h) + 1
         /\ Front(Laid(h, l, <<>>)) = h
<1> DEFINE hl == Append(h, l)
<1>1. PICK m \in Nat : m = Len(h)
  BY LenProperties
<1>2. /\ hl \in Seq(L) /\ hl # <<>> /\ Len(hl) = m + 1 /\ hl = h \o <<l>>
      /\ \A i \in 1..m : hl[i] = h[i]
  BY <1>1, AppendProperties, AppendIsConcat
<1>3. Laid(h, l, <<>>) = hl
  BY <1>2, ConcatEmptySeq DEF Laid
<1> HIDE DEF hl
<1>4. Front(hl) = SubSeq(hl, 1, m)
  BY <1>2 DEF Front
<1>5. \A i \in 1..m : hl[i] \in L
  BY <1>2, ElementOfSeq
<1>6. SubSeq(hl, 1, m) \in Seq(L) /\ Len(SubSeq(hl, 1, m)) = m
  BY <1>5, SubSeqProperties
<1>7. \A i \in 1..m : SubSeq(hl, 1, m)[i] = hl[i]
  BY <1>5, SubSeqProperties
<1>8. SubSeq(hl, 1, m) = h
  BY <1>1, <1>2, <1>6, <1>7, SeqEqual
<1> QED
  BY <1>1, <1>2, <1>3, <1>4, <1>8

LEMMA LayoutsLaid == Layouts = Laid(cvHistory, cvLayout, cvFuture)
BY DEF Layouts, Laid

\* What the sequences are over, whatever they are.
LEMMA CvInvFrom ==
  ASSUME NEW L, cvHistory' \in Seq(L), cvLayout' \in L, cvFuture' \in Seq(L),
         Len(cvHistory') + Len(cvFuture') <= CvMaxHistory
  PROVE  CvInv'
<1>1. cvHistory' \in Seq(Shown') /\ cvFuture' \in Seq(Shown')
  BY ShownIs DEF Shown
<1> QED
  BY <1>1 DEF CvInv

LEMMA CvTyped ==
  ASSUME CvInv
  PROVE  /\ cvHistory \in Seq(Shown) /\ cvFuture \in Seq(Shown) /\ cvLayout \in Shown
         /\ Len(cvHistory) \in Nat /\ Len(cvFuture) \in Nat
         /\ Len(cvHistory) + Len(cvFuture) <= CvMaxHistory
BY LenProperties DEF CvInv, Shown

LEMMA PushIsEdit ==
  ASSUME CvInv, PushHistory
  PROVE  CvInv' /\ Line!EditVersion
<1> DEFINE L == Shown \cup {cvLayout'}
           h == cvHistory
           l == cvLayout
           f == cvFuture
           kept == Pushed(Append(h, l), CvMaxHistory)
<1>1. cvHistory' = kept /\ cvFuture' = <<>>
  BY DEF PushHistory, Pushed
<1>2. h \in Seq(L) /\ f \in Seq(L) /\ l \in L /\ cvLayout' \in L
  <2>1. Shown \subseteq L
    OBVIOUS
  <2> QED
    BY <2>1, CvTyped, SeqMonotonic
<1>3. Len(h) <= CvMaxHistory /\ CvMaxHistory \in Nat
  BY CvTyped, HistoryBound
<1> HIDE DEF L, h, l, f, kept
<1>4. /\ kept \in Seq(L) /\ Len(kept) <= CvMaxHistory
      /\ kept = Trimmed(SubSeq(Laid(h, l, f), 1, Len(h) + 1), Len(h) + 1, CvMaxHistory)
  BY <1>2, <1>3, EditKept DEF kept
<1>5. CvInv'
  <2>1. <<>> \in Seq(L) /\ Len(kept) + Len(<<>>) <= CvMaxHistory
    <3>1. Len(kept) \in Nat
      BY <1>4, LenProperties
    <3> QED
      BY <1>3, <1>4, <3>1
  <2> QED
    BY <1>1, <1>2, <1>4, <2>1, CvInvFrom
<1>6. kept = Line!Kept
  BY <1>4, LayoutsLaid DEF Line!Kept, Trimmed, h, l, f
<1>7. Layouts' = Laid(kept, cvLayout', <<>>)
  BY <1>1 DEF Layouts, Laid
<1>8. Layouts' # <<>> /\ Len(Layouts') = Len(kept) + 1 /\ Front(Layouts') = kept
  BY <1>2, <1>4, <1>7, LineAfterEdit
<1> QED
  BY <1>1, <1>5, <1>6, <1>8 DEF Line!EditVersion, Line!Front, Front

LEMMA UndoWalks ==
  ASSUME CvInv, Undo
  PROVE  CvInv' /\ Line!Walk
<1> DEFINE L == Shown
           h == cvHistory
           l == cvLayout
           f == cvFuture
<1>1. h # <<>> /\ cvLayout' = Last(h) /\ cvHistory' = Front(h) /\ cvFuture' = <<l>> \o f
  BY DEF Undo
<1>2. /\ h \in Seq(L) /\ f \in Seq(L) /\ l \in L /\ Len(h) \in Nat /\ Len(f) \in Nat
      /\ Len(h) + Len(f) <= CvMaxHistory
  BY CvTyped
<1>3. Layouts = Laid(h, l, f) /\ Layouts' = Laid(Front(h), Last(h), <<l>> \o f)
  BY <1>1, LayoutsLaid DEF Layouts, Laid
<1> HIDE DEF L, h, l, f
<1>4. /\ Front(h) \in Seq(L) /\ Last(h) \in L /\ Len(Front(h)) = Len(h) - 1
      /\ <<l>> \o f \in Seq(L) /\ Len(<<l>> \o f) = Len(f) + 1
      /\ Laid(Front(h), Last(h), <<l>> \o f) = Laid(h, l, f)
  BY <1>1, <1>2, LineKeptBack
<1>5. CvInv'
  <2>1. Len(Front(h)) + Len(<<l>> \o f) <= CvMaxHistory
    BY <1>2, <1>4, HistoryBound
  <2> QED
    BY <1>1, <1>4, <2>1, CvInvFrom
<1>6. DOMAIN Layouts = 1..Len(h) + 1 + Len(f)
  BY <1>2, <1>3, LaidOut, LenProperties
<1>7. Len(cvHistory') + 1 = Len(cvHistory) /\ Len(cvHistory) \in 1..Len(h) + 1 + Len(f)
  BY <1>1, <1>2, <1>4, EmptySeq DEF h
<1> QED
  BY <1>2, <1>3, <1>4, <1>5, <1>6, <1>7 DEF Line!Walk, h

LEMMA RedoWalks ==
  ASSUME CvInv, Redo
  PROVE  CvInv' /\ Line!Walk
<1> DEFINE L == Shown
           h == cvHistory
           l == cvLayout
           f == cvFuture
<1>1. f # <<>> /\ cvLayout' = Head(f) /\ cvFuture' = Tail(f) /\ cvHistory' = Append(h, l)
  BY DEF Redo
<1>2. /\ h \in Seq(L) /\ f \in Seq(L) /\ l \in L /\ Len(h) \in Nat /\ Len(f) \in Nat
      /\ Len(h) + Len(f) <= CvMaxHistory
  BY CvTyped
<1>3. Layouts = Laid(h, l, f) /\ Layouts' = Laid(Append(h, l), Head(f), Tail(f))
  BY <1>1, LayoutsLaid DEF Layouts, Laid
<1> HIDE DEF L, h, l, f
<1>4. /\ Append(h, l) \in Seq(L) /\ Len(Append(h, l)) = Len(h) + 1
      /\ Head(f) \in L /\ Tail(f) \in Seq(L) /\ Len(Tail(f)) = Len(f) - 1
      /\ Laid(Append(h, l), Head(f), Tail(f)) = Laid(h, l, f)
  BY <1>1, <1>2, LineKept, AppendProperties, HeadTailProperties
<1>5. CvInv'
  <2>1. Len(Append(h, l)) + Len(Tail(f)) <= CvMaxHistory
    BY <1>2, <1>4, HistoryBound
  <2> QED
    BY <1>1, <1>4, <2>1, CvInvFrom
<1>6. DOMAIN Layouts = 1..Len(h) + 1 + Len(f)
  BY <1>2, <1>3, LaidOut, LenProperties
<1>7. /\ Len(cvHistory') + 1 = Len(h) + 2 /\ Len(h) + 2 \in 1..Len(h) + 1 + Len(f)
      /\ Len(cvHistory) + 1 = Len(h) + 1
  BY <1>1, <1>2, <1>4, EmptySeq DEF h
<1> QED
  BY <1>2, <1>3, <1>4, <1>5, <1>6, <1>7 DEF Line!Walk

LEMMA CvSteps ==
  ASSUME [CvNext]_cvVars
  PROVE  PushHistory \/ Undo \/ Redo \/ UNCHANGED <<cvLayout, cvHistory, cvFuture>>
BY DEF CvNext, cvVars, ChangeNode, AddEdge, AddNode, Paste, DeleteSelection, CopySelection,
       CutSelection, Delete, Edits

LEMMA CvKept ==
  ASSUME CvInv, [CvNext]_cvVars
  PROVE  CvInv' /\ [Line!TlNext]_(Line!tlVars)
<1>1. CASE PushHistory
  BY <1>1, PushIsEdit DEF Line!TlNext
<1>2. CASE Undo \/ Redo
  BY <1>2, UndoWalks, RedoWalks DEF Line!TlNext
<1>3. CASE UNCHANGED <<cvLayout, cvHistory, cvFuture>>
  BY <1>3 DEF CvInv, Shown, Layouts, Line!tlVars
<1> QED
  BY <1>1, <1>2, <1>3, CvSteps

\* Undo and redo walk along the line of the canvas's layouts, and an edit replaces what
\* lies ahead and drops what no longer fits, for any depth of the history: the canvas
\* implements the module Timeline (canvas_state.py, push_history, undo and redo).
THEOREM CanvasIsALine == CvSpec => UndoWalksTheLine
<1>1. CvInit => CvInv /\ Line!TlInit
  <2> SUFFICES ASSUME CvInit PROVE CvInv /\ Line!TlInit
    OBVIOUS
  <2>1. cvHistory = <<>> /\ cvFuture = <<>>
    BY DEF CvInit
  <2>2. CvInv
    BY <2>1, HistoryBound DEF CvInv
  <2>3. Len(Layouts) = 1
    BY <2>1 DEF Layouts
  <2> QED
    BY <2>1, <2>2, <2>3 DEF Line!TlInit
<1>2. CvInv /\ [CvNext]_cvVars => CvInv' /\ [Line!TlNext]_(Line!tlVars)
  BY CvKept
<1> QED
  BY <1>1, <1>2, PTL DEF CvSpec, UndoWalksTheLine, Line!TlSpec

-----------------------------------------------------------------------------
(***************************************************************************)
(* What the layouts hold.                                                  *)
(***************************************************************************)
\* What the ids of nodes are made of: their names, and the numbers of the suffixes.
Marks == {"a", "b", "c"} \cup Nat

\* Nodes that are finitely many and told apart by their ids.
NodesSound(nodes) ==
  /\ IsFiniteSet(nodes)
  /\ IdsOf(nodes) \subseteq Seq(Marks)
  /\ \A n, m \in nodes : n.id = m.id => n = m

\* Edges that join nodes, or were drawn without an end.
EdgesSound(edges, nodes, loose) ==
  \A e \in edges : (e.source \in IdsOf(nodes) /\ e.target \in IdsOf(nodes)) \/ e \in loose

LayoutSound(layout, loose) ==
  /\ DOMAIN layout = {"nodes", "edges", "group", "entry"}
  /\ NodesSound(layout.nodes) /\ EdgesSound(layout.edges, layout.nodes, loose)
  /\ layout.group \subseteq IdsOf(layout.nodes)
  /\ layout.entry \in IdsOf(layout.nodes) \cup {<<>>}

\* The invariant of the layouts: what can be shown keeps its graph, and the copied nodes
\* are told apart; a copied edge may miss an end.
NdInv ==
  /\ \A layout \in Shown : LayoutSound(layout, cvLoose)
  /\ NodesSound(cvClipboard.nodes)

LEMMA LooseGrows ==
  ASSUME NEW layout, NEW loose, NEW more, loose \subseteq more, LayoutSound(layout, loose)
  PROVE  LayoutSound(layout, more)
BY DEF LayoutSound, EdgesSound

LEMMA MarksAre == (\A s \in {"a", "b", "c"} : s \in Marks) /\ Nat \subseteq Marks
BY DEF Marks

LEMMA NamesAre == \A s \in {"a", "b", "c"} : <<s>> \in Seq(Marks)
BY MarksAre

LEMMA FewerNodes ==
  ASSUME NEW nodes, NodesSound(nodes), NEW kept \in SUBSET nodes
  PROVE  NodesSound(kept)
BY FS_Subset DEF NodesSound, IdsOf

\* There are no more ids than nodes.
LEMMA IdsAreFew ==
  ASSUME NEW nodes, IsFiniteSet(nodes)
  PROVE  /\ IsFiniteSet(IdsOf(nodes)) /\ Cardinality(IdsOf(nodes)) <= Cardinality(nodes)
         /\ Cardinality(nodes) \in Nat /\ Cardinality(IdsOf(nodes)) \in Nat
<1> DEFINE f == [n \in nodes |-> n.id]
<1>1. f \in Surjection(nodes, IdsOf(nodes))
  BY DEF Surjection, IdsOf
<1> HIDE DEF f
<1> QED
  BY <1>1, FS_Surjection, FS_CardinalityType

\* A number up to one more than the nodes are makes an id that none of them has.
LEMMA FreshIds ==
  ASSUME NodesSound(cvLayout.nodes), NEW id \in Seq(Marks)
  PROVE  /\ FreshId(id) \in Seq(Marks) /\ FreshId(id) \notin IdsOf(cvLayout.nodes)
         /\ \E n \in Nat : FreshId(id) = Append(id, n)
<1> DEFINE taken == IdsOf(cvLayout.nodes)
           last == Cardinality(cvLayout.nodes) + 1
           free == {n \in 1 .. last : Append(id, n) \notin taken}
<1>1. /\ IsFiniteSet(taken) /\ Cardinality(taken) < last /\ last \in Nat
      /\ Cardinality(taken) \in Nat
  BY IdsAreFew DEF NodesSound
<1>2. FreshId(id) = Append(id, Min(free))
  BY DEF FreshId
<1> HIDE DEF taken, last
<1>3. free # {}
  <2> SUFFICES ASSUME \A n \in 1 .. last : Append(id, n) \in taken PROVE FALSE
    OBVIOUS
  <2> DEFINE f == [n \in 1 .. last |-> Append(id, n)]
  <2>1. \A m, n \in 1 .. last : Append(id, m) = Append(id, n) => m = n
    <3>1. \A n \in 1 .. last : n \in Marks
      BY <1>1, MarksAre
    <3> QED
      BY <3>1, AppendInjective
  <2>2. f \in Injection(1 .. last, taken)
    BY <2>1 DEF Injection, IsInjective
  <2> HIDE DEF f
  <2>3. Cardinality(1 .. last) <= Cardinality(taken)
    BY <1>1, <2>2, FS_Injection
  <2>4. Cardinality(1 .. last) = last
    BY <1>1, FS_Interval
  <2> QED
    BY <1>1, <2>3, <2>4
<1>4. free \subseteq Nat
  BY <1>1
<1>5. Min(free) \in free
  <2> HIDE DEF free
  <2> QED
    BY <1>3, <1>4, MinExists
<1>6. Min(free) \in Nat /\ Append(id, Min(free)) \notin taken
  BY <1>4, <1>5
<1> HIDE DEF free
<1>7. Append(id, Min(free)) \in Seq(Marks)
  BY <1>6, MarksAre, AppendProperties
<1> QED
  BY <1>2, <1>6, <1>7 DEF taken

LEMMA SameStem ==
  ASSUME NEW S, NEW s \in Seq(S), NEW t \in Seq(S), NEW e \in S, NEW f \in S,
         Append(s, e) = Append(t, f)
  PROVE  s = t
BY AppendInjective

LEMMA FreshDiffer ==
  ASSUME NodesSound(cvLayout.nodes), NEW a \in Seq(Marks), NEW b \in Seq(Marks),
         FreshId(a) = FreshId(b)
  PROVE  a = b
<1>1. PICK m \in Nat : FreshId(a) = Append(a, m)
  BY FreshIds
<1>2. PICK n \in Nat : FreshId(b) = Append(b, n)
  BY FreshIds
<1>3. m \in Marks /\ n \in Marks
  BY MarksAre
<1>4. Append(a, m) = Append(b, n)
  BY <1>1, <1>2
<1> HIDE DEF Marks
<1> QED
  BY <1>3, <1>4, SameStem

\* A node takes the place of the one with its id.
LEMMA AddNodeSound ==
  ASSUME LayoutSound(cvLayout, cvLoose), NEW id \in Seq(Marks), AddNode(id)
  PROVE  LayoutSound(cvLayout', cvLoose')
<1> DEFINE old == Without(cvLayout.nodes, {id})
           new == Overwrite(cvLayout.nodes, Node(id, 0))
<1>1. /\ new = old \cup {Node(id, 0)} /\ Node(id, 0).id = id
      /\ cvLayout' = [cvLayout EXCEPT !.nodes = new] /\ cvLoose' = cvLoose
  BY DEF AddNode, Overwrite, Node
<1>2. NodesSound(old) /\ id \notin IdsOf(old)
  BY FewerNodes DEF Without, LayoutSound, IdsOf
<1>3. IdsOf(new) = IdsOf(cvLayout.nodes) \cup {id}
  BY <1>1 DEF IdsOf, Without
<1>4. NodesSound(new)
  <2>1. IsFiniteSet(new)
    <3>1. IsFiniteSet(old)
      BY <1>2 DEF NodesSound
    <3> HIDE DEF old, new
    <3> QED
      BY <1>1, <3>1, FS_AddElement
  <2>2. \A n, m \in new : n.id = m.id => n = m
    BY <1>1, <1>2 DEF NodesSound, IdsOf
  <2> QED
    BY <1>3, <2>1, <2>2 DEF NodesSound, LayoutSound
<1> HIDE DEF new
<1> QED
  BY <1>1, <1>3, <1>4 DEF LayoutSound, EdgesSound

LEMMA ChangeNodeSound ==
  ASSUME LayoutSound(cvLayout, cvLoose), NEW id, ChangeNode(id)
  PROVE  LayoutSound(cvLayout', cvLoose')
<1> DEFINE f == [n \in cvLayout.nodes |-> IF n.id = id THEN Node(id, 1 - n.look) ELSE n]
           new == {f[n] : n \in cvLayout.nodes}
<1>1. new = {IF n.id = id THEN Node(id, 1 - n.look) ELSE n : n \in cvLayout.nodes}
  OBVIOUS
<1>2. cvLayout' = [cvLayout EXCEPT !.nodes = new] /\ cvLoose' = cvLoose
  BY <1>1 DEF ChangeNode
<1>3. \A n \in cvLayout.nodes : f[n].id = n.id
  BY DEF Node
<1>4. f \in Surjection(cvLayout.nodes, new)
  BY DEF Surjection
<1> HIDE DEF f
<1>5. IdsOf(new) = IdsOf(cvLayout.nodes)
  BY <1>3 DEF IdsOf
<1>6. \A n, m \in new : n.id = m.id => n = m
  BY <1>3 DEF LayoutSound, NodesSound
<1>7. IsFiniteSet(new)
  BY <1>4, FS_Surjection DEF LayoutSound, NodesSound
<1> HIDE DEF new
<1> QED
  BY <1>2, <1>5, <1>6, <1>7 DEF LayoutSound, NodesSound, EdgesSound

LEMMA AddEdgeSound ==
  ASSUME LayoutSound(cvLayout, cvLoose), NEW id, NEW source, NEW target,
         AddEdge(id, source, target)
  PROVE  LayoutSound(cvLayout', cvLoose')
<1> DEFINE new == Overwrite(cvLayout.edges, Edge(id, source, target))
<1>1. cvLayout' = [cvLayout EXCEPT !.edges = new]
  BY DEF AddEdge
<1>2. EdgesSound(new, cvLayout.nodes, cvLoose')
  <2> DEFINE edge == Edge(id, source, target)
  <2>1. \/ source \in IdsOf(cvLayout.nodes) /\ target \in IdsOf(cvLayout.nodes)
        \/ edge \in cvLoose'
    BY DEF AddEdge
  <2>2. edge.source = source /\ edge.target = target
    BY DEF Edge
  <2>3. new \subseteq cvLayout.edges \cup {edge} /\ cvLoose \subseteq cvLoose'
    BY DEF Overwrite, Without, AddEdge
  <2> HIDE DEF new, edge
  <2> QED
    BY <2>1, <2>2, <2>3 DEF EdgesSound, LayoutSound
<1> HIDE DEF new
<1> QED
  BY <1>1, <1>2 DEF LayoutSound

\* What is left after a deletion refers to nodes that are left.
LEMMA DeleteSound ==
  ASSUME LayoutSound(cvLayout, cvLoose), NEW selected, Delete(selected)
  PROVE  LayoutSound(cvLayout', cvLoose')
<1> DEFINE nodes == Without(cvLayout.nodes, selected.nodes)
           edges == {e \in Without(cvLayout.edges, selected.edges) :
                       {e.source, e.target} \cap selected.nodes = {}}
           group == IF selected.group THEN {} ELSE cvLayout.group \ selected.nodes
           entry == IF cvLayout.entry \in selected.nodes THEN <<>> ELSE cvLayout.entry
<1>1. cvLayout' = [cvLayout EXCEPT !.nodes = nodes, !.edges = edges, !.group = group,
                                   !.entry = entry]
      /\ cvLoose' = cvLoose
  BY DEF Delete, Deleted
<1>2. NodesSound(nodes)
  BY FewerNodes DEF Without, LayoutSound
<1>3. IdsOf(nodes) = IdsOf(cvLayout.nodes) \ selected.nodes
  BY DEF Without, IdsOf
<1>4. EdgesSound(edges, nodes, cvLoose)
  <2>1. ASSUME NEW e \in edges
        PROVE  (e.source \in IdsOf(nodes) /\ e.target \in IdsOf(nodes)) \/ e \in cvLoose
    <3>1. e \in cvLayout.edges /\ e.source \notin selected.nodes /\ e.target \notin selected.nodes
      BY DEF Without
    <3> QED
      BY <1>3, <3>1 DEF LayoutSound, EdgesSound
  <2> QED
    BY <2>1 DEF EdgesSound
<1>5. group \subseteq IdsOf(nodes) /\ entry \in IdsOf(nodes) \cup {<<>>}
  BY <1>3 DEF LayoutSound
<1> HIDE DEF nodes, edges, group, entry
<1> QED
  BY <1>1, <1>2, <1>4, <1>5 DEF LayoutSound

\* A copy is of nodes of the layout.
LEMMA CopySound ==
  ASSUME LayoutSound(cvLayout, cvLoose), NEW selected
  PROVE  NodesSound(Copied(selected).nodes)
<1> DEFINE nodes == {n \in cvLayout.nodes : n.id \in selected.nodes}
<1>1. Copied(selected).nodes = nodes
  BY DEF Copied
<1>2. NodesSound(nodes)
  BY FewerNodes DEF LayoutSound
<1> QED
  BY <1>1, <1>2

\* The pasted nodes have ids of their own, and the pasted edges join them.
LEMMA PasteSound ==
  ASSUME LayoutSound(cvLayout, cvLoose), NodesSound(cvClipboard.nodes), Paste
  PROVE  LayoutSound(cvLayout', cvLoose')
<1> DEFINE f == [n \in cvClipboard.nodes |-> Node(FreshId(n.id), 1 - n.look)]
           copies == {f[n] : n \in cvClipboard.nodes}
           nodes == cvLayout.nodes \cup copies
           copied == {Edge(Append(e.id, 1), FreshId(e.source), FreshId(e.target)) :
                        e \in Joining(cvClipboard.edges, cvClipboard.nodes)}
           edges == cvLayout.edges \cup copied
<1>1. cvLayout' = [cvLayout EXCEPT !.nodes = nodes, !.edges = edges] /\ cvLoose' = cvLoose
  <2>1. copies = {Node(FreshId(n.id), 1 - n.look) : n \in cvClipboard.nodes}
    OBVIOUS
  <2> QED
    BY <2>1 DEF Paste
<1>2. \A n \in cvClipboard.nodes : n.id \in Seq(Marks)
  BY DEF NodesSound, IdsOf
<1>3. \A n \in cvClipboard.nodes :
        f[n].id = FreshId(n.id) /\ f[n].id \in Seq(Marks) /\ f[n].id \notin IdsOf(cvLayout.nodes)
  BY <1>2, FreshIds DEF LayoutSound, Node
<1>4. ASSUME NEW n \in cvClipboard.nodes, NEW m \in cvClipboard.nodes, f[n].id = f[m].id
      PROVE  n = m
  <2>1. FreshId(n.id) = FreshId(m.id)
    BY <1>3, <1>4
  <2>2. n.id = m.id
    BY <1>2, <2>1, FreshDiffer DEF LayoutSound
  <2> QED
    BY <2>2 DEF NodesSound
<1>5. f \in Surjection(cvClipboard.nodes, copies)
  BY DEF Surjection
<1>6. \A x \in IdsOf(cvClipboard.nodes) : FreshId(x) \in IdsOf(copies)
  BY <1>3 DEF IdsOf
<1> HIDE DEF f
<1>7. IsFiniteSet(nodes)
  <2>1. IsFiniteSet(copies)
    BY <1>5, FS_Surjection DEF NodesSound
  <2> HIDE DEF copies
  <2> QED
    BY <2>1, FS_Union DEF LayoutSound, NodesSound
<1>8. IdsOf(nodes) = IdsOf(cvLayout.nodes) \cup IdsOf(copies)
  BY DEF IdsOf
<1>9. IdsOf(copies) \subseteq Seq(Marks)
  BY <1>3 DEF IdsOf
<1>10. \A n, m \in nodes : n.id = m.id => n = m
  <2>1. \A n \in cvLayout.nodes : n.id \in IdsOf(cvLayout.nodes)
    BY DEF IdsOf
  <2>2. \A n \in copies : n.id \notin IdsOf(cvLayout.nodes)
    BY <1>3
  <2>3. \A n, m \in copies : n.id = m.id => n = m
    BY <1>4
  <2>4. \A n, m \in cvLayout.nodes : n.id = m.id => n = m
    BY DEF LayoutSound, NodesSound
  <2> HIDE DEF copies
  <2> QED
    BY <2>1, <2>2, <2>3, <2>4
<1>11. EdgesSound(edges, nodes, cvLoose)
  <2>1. ASSUME NEW e \in copied PROVE e.source \in IdsOf(copies) /\ e.target \in IdsOf(copies)
    BY <1>6 DEF Edge, Joining
  <2> HIDE DEF copied, copies
  <2> QED
    BY <1>8, <2>1 DEF LayoutSound, EdgesSound
<1>12. NodesSound(nodes)
  <2> HIDE DEF nodes, copies
  <2> QED
    BY <1>7, <1>8, <1>9, <1>10 DEF LayoutSound, NodesSound
<1> HIDE DEF nodes, edges, copies
<1> QED
  BY <1>1, <1>8, <1>11, <1>12 DEF LayoutSound

\* A step shows nothing new but the layout it leads to.
LEMMA ShownKept ==
  ASSUME CvInv, [CvNext]_cvVars
  PROVE  Shown' \subseteq Shown \cup {cvLayout'}
<1> DEFINE L == Shown
<1>1. /\ cvHistory \in Seq(L) /\ cvFuture \in Seq(L) /\ cvLayout \in L
      /\ Len(cvHistory) \in Nat /\ Len(cvFuture) \in Nat
      /\ Len(cvHistory) <= CvMaxHistory /\ CvMaxHistory \in Nat
  BY CvTyped, HistoryBound
<1> HIDE DEF L
<1>2. cvHistory' \in Seq(L) /\ cvFuture' \in Seq(L)
  <2>1. CASE PushHistory
    <3>1. Pushed(Append(cvHistory, cvLayout), CvMaxHistory) \in Seq(L)
      BY <1>1, EditKept
    <3> QED
      BY <2>1, <3>1 DEF PushHistory, Pushed
  <2>2. CASE Undo
    BY <1>1, <2>2, LineKeptBack DEF Undo
  <2>3. CASE Redo
    BY <1>1, <2>3, AppendProperties, HeadTailProperties DEF Redo
  <2>4. CASE UNCHANGED <<cvLayout, cvHistory, cvFuture>>
    BY <1>1, <2>4
  <2> QED
    BY <2>1, <2>2, <2>3, <2>4, CvSteps
<1>3. ToSet(cvHistory') \subseteq L /\ ToSet(cvFuture') \subseteq L
  BY <1>2, LenProperties, ElementOfSeq DEF ToSet
<1> QED
  BY <1>3 DEF Shown, L

LEMMA NdStep ==
  ASSUME CvInv, NdInv, [CvNext]_cvVars
  PROVE  NdInv'
<1>1. LayoutSound(cvLayout, cvLoose) /\ cvLayout \in Shown
  BY DEF NdInv, Shown
<1>2. /\ cvLayout' \in Shown \/ LayoutSound(cvLayout', cvLoose')
      /\ NodesSound(cvClipboard'.nodes) /\ cvLoose \subseteq cvLoose'
  <2>1. ASSUME NEW id \in IdsOf(cvLayout.nodes), ChangeNode(id)
        PROVE  /\ LayoutSound(cvLayout', cvLoose')
               /\ cvClipboard' = cvClipboard /\ cvLoose \subseteq cvLoose'
    BY <1>1, <2>1, ChangeNodeSound DEF ChangeNode
  <2>2. ASSUME NEW source, NEW target, AddEdge(<<"f">>, source, target)
        PROVE  /\ LayoutSound(cvLayout', cvLoose')
               /\ cvClipboard' = cvClipboard /\ cvLoose \subseteq cvLoose'
    BY <1>1, <2>2, AddEdgeSound DEF AddEdge
  <2>3. CASE AddNode(<<"c">>)
    BY <1>1, <2>3, NamesAre, AddNodeSound DEF AddNode, NdInv
  <2>4. CASE Paste
    BY <1>1, <2>4, PasteSound DEF Paste, NdInv
  <2>5. CASE Undo
    <3>1. Last(cvHistory) \in Shown
      BY <2>5, CvTyped, LineKeptBack DEF Undo
    <3> QED
      BY <2>5, <3>1 DEF Undo, NdInv
  <2>6. CASE Redo
    <3>1. Head(cvFuture) \in Shown
      BY <2>6, CvTyped, HeadTailProperties DEF Redo
    <3> QED
      BY <2>6, <3>1 DEF Redo, NdInv
  <2>7. ASSUME NEW selected,
               \/ DeleteSelection(selected) \/ CopySelection(selected)
               \/ CutSelection(selected)
        PROVE  /\ cvLayout' = cvLayout \/ LayoutSound(cvLayout', cvLoose')
               /\ cvClipboard' \in {cvClipboard, Copied(selected)} /\ cvLoose' = cvLoose
    BY <1>1, <2>7, DeleteSound DEF DeleteSelection, CopySelection, CutSelection, Delete
  <2>8. CASE UNCHANGED cvVars
    BY <1>1, <2>8 DEF cvVars, NdInv
  <2> QED
    BY <1>1, <2>1, <2>2, <2>3, <2>4, <2>5, <2>6, <2>7, <2>8, CopySound DEF CvNext, NdInv
<1> QED
  <2>1. ASSUME NEW layout \in Shown' PROVE LayoutSound(layout, cvLoose')
    <3>1. layout \in Shown \/ layout = cvLayout'
      BY ShownKept
    <3> QED
      BY <1>2, <3>1, LooseGrows DEF NdInv
  <2> QED
    BY <1>2, <2>1 DEF NdInv

\* Whatever is drawn, deleted, cut, pasted, undone and redone, for any depth of the
\* history: every layout that is or can be shown stands for the graph that was drawn, and
\* build_graph drops of it only edges that were drawn without an end (canvas_state.py,
\* delete_selection and paste; graph_builder.py, build_graph).
THEOREM LayoutsHoldTogether == CvSpec => []OnlyLooseEdgesAreDropped
<1>1. CvInit => CvInv /\ NdInv
  <2> SUFFICES ASSUME CvInit PROVE CvInv /\ NdInv
    OBVIOUS
  <2>1. CvInv /\ Shown = {cvLayout} /\ cvClipboard.nodes = {}
    BY HistoryBound DEF CvInit, CvInv, Shown, ToSet
  <2> DEFINE nodes == {Node(<<"a">>, 0), Node(<<"b">>, 0)}
  <2>2. IdsOf(nodes) = {<<"a">>, <<"b">>}
    BY DEF IdsOf, Node
  <2>3. NodesSound(nodes)
    <3>1. IsFiniteSet(nodes)
      <4>1. IsFiniteSet({Node(<<"a">>, 0)})
        BY FS_Singleton
      <4> QED
        BY <4>1, FS_AddElement
    <3>2. \A n, m \in nodes : n.id = m.id => n = m
      BY DEF Node
    <3> QED
      BY <2>2, <3>1, <3>2, NamesAre DEF NodesSound
  <2> HIDE DEF nodes
  <2>4. LayoutSound(cvLayout, cvLoose)
    <3>1. cvLayout = [nodes |-> nodes, edges |-> {Edge(<<"e">>, <<"a">>, <<"b">>)},
                      group |-> {<<"a">>, <<"b">>}, entry |-> <<"a">>]
      BY DEF CvInit, nodes
    <3> QED
      BY <2>2, <2>3, <3>1 DEF LayoutSound, EdgesSound, Edge
  <2>5. NodesSound(cvClipboard.nodes)
    BY <2>1, FS_EmptySet DEF NodesSound, IdsOf
  <2> QED
    BY <2>1, <2>4, <2>5 DEF NdInv
<1>2. CvInv /\ NdInv /\ [CvNext]_cvVars => (CvInv /\ NdInv)'
  BY CvKept, NdStep
<1>3. ASSUME CvInv, NdInv PROVE OnlyLooseEdgesAreDropped
  <2>1. \A i \in DOMAIN Layouts : Layouts[i] \in Shown
    <3>1. Layouts \in Seq(Shown)
      BY <1>3, CvTyped, LayoutsLaid, LaidOut
    <3> QED
      BY <3>1, LenProperties, ElementOfSeq
  <2> QED
    <3>1. ASSUME NEW layout, LayoutSound(layout, cvLoose) PROVE KeepsItsGraph(layout)
      <4>1. BuildGraph(layout).entry = layout.entry
        BY <3>1 DEF LayoutSound, BuildGraph
      <4>2. BuildGraph(layout).edges = Joining(layout.edges, layout.nodes)
        BY DEF BuildGraph
      <4>3. (layout.edges \ BuildGraph(layout).edges) \subseteq cvLoose
        BY <3>1, <4>2 DEF LayoutSound, EdgesSound, Joining
      <4> QED
        BY <3>1, <4>1, <4>3 DEF KeepsItsGraph, LayoutSound, NodesSound
    <3> QED
      BY <1>3, <2>1, <3>1 DEF NdInv, OnlyLooseEdgesAreDropped
<1> QED
  BY <1>1, <1>2, <1>3, PTL DEF CvSpec

-----------------------------------------------------------------------------
(***************************************************************************)
(* The static analysis of workflows.                                       *)
(***************************************************************************)
\* Sets of nodes that no edge leaves.
Closed(kept) == \A e \in waEdges : e[1] \in kept => e[2] \in kept

LEMMA WayOut == ASSUME NEW a, NEW b, Way(a, b), NEW kept \in SUBSET Nodes, a \in kept, Closed(kept)
                PROVE  b \in kept
BY DEF Way, Closed

LEMMA WayIs == ASSUME NEW a, NEW b,
                      \A kept \in SUBSET Nodes : a \in kept /\ Closed(kept) => b \in kept
               PROVE  Way(a, b)
BY DEF Way, Closed

\* Every node has a way to itself, an edge is a way, and ways are joined.
LEMMA WaySelf == ASSUME NEW a PROVE Way(a, a)
BY DEF Way

LEMMA WayEdge == ASSUME NEW a, NEW b, <<a, b>> \in waEdges PROVE Way(a, b)
BY WayIs DEF Closed

LEMMA WayJoined == ASSUME NEW a, NEW b, NEW c, Way(a, b), Way(b, c) PROVE Way(a, c)
BY DEF Way

\* The graph: edges between its nodes, one from __start__, none into it.
WaGraph ==
  /\ \A e \in waEdges : e \in ({Start} \cup Inner) \X (Inner \cup {End})
  /\ \E e \in waEdges : e[1] = Start
  /\ waEnd \in BOOLEAN /\ (~waEnd => \A e \in waEdges : e[2] # End)

\* What the search from __start__ has found, and what it still has to follow.
WaForward ==
  /\ Start \in waReached
  /\ \A n \in waReached : n \in Nodes /\ Way(Start, n)
  /\ waPc = "forward" => /\ waQueue \subseteq waReached
                         /\ \A n \in waReached \ waQueue : Successors(n) \subseteq waReached
  /\ waPc # "forward" => \A n \in waReached : Successors(n) \subseteq waReached

\* The same of the search back from __end__.
WaBackward ==
  /\ \A n \in waCoreached : n \in Nodes /\ waEnd /\ Way(n, End)
  /\ waPc = "backward" => /\ waQueue \subseteq waCoreached
                          /\ \A n \in waCoreached \ waQueue : Predecessors(n) \subseteq waCoreached
  /\ waPc \in {"cycles", "reported"} =>
       \A n \in waCoreached : Predecessors(n) \subseteq waCoreached
  /\ waPc # "forward" /\ waEnd => End \in waCoreached

Black == waVisited \ Gray

\* The path of the depth-first search: different nodes, each with a way to the next.
WaPath ==
  /\ waStack \in Seq(Frames)
  /\ waVisited \subseteq Nodes
  /\ \A i \in 1..Len(waStack) :
       /\ waStack[i].node \in waVisited
       /\ waStack[i].left \subseteq Successors(waStack[i].node)
  /\ \A i, j \in 1..Len(waStack) : waStack[i].node = waStack[j].node => i = j
  /\ \A i, j \in 1..Len(waStack) : i <= j => Way(waStack[i].node, waStack[j].node)

\* A reported cycle is one.
WaCycles ==
  /\ \A c \in waCycles : \A n, m \in c : Way(n, m)
  /\ waCycles # {} => \E e \in waEdges : Way(e[2], e[1])

\* Without a cycle, nothing leaves the nodes that are done, nothing comes back to one of
\* them, and a node of the path has only sent the search to them and to the next one.
WaAcyclic ==
  waCycles = {} =>
    /\ \A n \in Black : \A m \in Successors(n) : m \in Black /\ ~Way(m, n)
    /\ \A i \in 1..Len(waStack) : \A m \in Successors(waStack[i].node) \ waStack[i].left :
         m \in Black \/ (i + 1 <= Len(waStack) /\ m = waStack[i + 1].node)

WaReport ==
  waPc = "reported" =>
    /\ waStack = <<>> /\ Nodes \subseteq waVisited
    /\ waSends \subseteq Inner \cap (Unreachable \cup DeadEnds \cup Isolated)

\* The invariant of the analysis.
WaInv ==
  /\ waPc \in {"forward", "backward", "cycles", "reported"}
  /\ WaGraph /\ WaForward /\ WaBackward /\ WaPath /\ WaCycles /\ WaAcyclic /\ WaReport

-----------------------------------------------------------------------------
LEMMA NodesAre ==
  /\ Start \in Nodes /\ Inner \subseteq Nodes /\ Start \notin Inner /\ End \notin Inner
  /\ Start # End /\ (waEnd <=> End \in Nodes) /\ Nodes \subseteq Nat
BY WorkflowAnalysisAssumption DEF Start, Inner, Nodes, End

\* An edge joins two nodes: it makes one the successor of the other.
LEMMA EdgesJoin ==
  ASSUME WaGraph, NEW e \in waEdges
  PROVE  /\ e = <<e[1], e[2]>> /\ e[1] \in Nodes /\ e[2] \in Nodes
         /\ e[2] \in Successors(e[1]) /\ e[1] \in Predecessors(e[2])
<1>1. /\ e = <<e[1], e[2]>> /\ e[1] \in {Start} \cup Inner /\ e[2] \in Inner \cup {End}
      /\ ~waEnd => e[2] # End
  BY DEF WaGraph
<1>2. e[1] \in Nodes /\ e[2] \in Nodes
  BY <1>1, NodesAre
<1> QED
  BY <1>1, <1>2 DEF Successors, Predecessors

LEMMA WaySuccessor ==
  ASSUME NEW n, NEW m
  PROVE  /\ m \in Successors(n) => m \in Nodes /\ Way(n, m)
         /\ m \in Predecessors(n) => m \in Nodes /\ Way(m, n)
BY WayEdge DEF Successors, Predecessors

\* Sets of nodes that hold the successors of their nodes are closed.
LEMMA ClosedIs ==
  ASSUME WaGraph, NEW kept, \A n \in kept : Successors(n) \subseteq kept
  PROVE  Closed(kept)
BY EdgesJoin DEF Closed

\* The graph does not change under the analysis.
LEMMA GraphKept ==
  ASSUME UNCHANGED <<waEdges, waEnd>>
  PROVE  /\ Nodes' = Nodes
         /\ \A n : Successors(n)' = Successors(n) /\ Predecessors(n)' = Predecessors(n)
         /\ \A a, b : Way(a, b)' <=> Way(a, b)
         /\ WaGraph' <=> WaGraph
<1>1. Nodes' = Nodes
  BY DEF Nodes, Start, Inner, End
<1> QED
  BY <1>1 DEF Successors, Predecessors, Way, WaGraph, Start, Inner, End

LEMMA GraphUnchanged == ASSUME [WaNext]_waVars PROVE UNCHANGED <<waEdges, waEnd>>
BY
   DEF WaNext, waVars, Forward, TurnBack, Backward, SeekCycles, StartDfs, FollowEdge, Blacken,
       Report

-----------------------------------------------------------------------------
\* The searches from both ends.
LEMMA ForwardKeeps ==
  ASSUME WaInv, Forward
  PROVE  WaForward' /\ waPc' = waPc
<1> DEFINE n == Min(waQueue)
<1>1. n \in waQueue
  <2>1. waQueue \subseteq Nat /\ waQueue # {}
    BY NodesAre DEF WaInv, WaForward, Forward
  <2> QED
    BY <2>1, MinExists
<1>2. /\ waReached' = waReached \cup Successors(n)
      /\ waQueue' = (waQueue \ {n}) \cup (Successors(n) \ waReached)
      /\ waPc = "forward" /\ UNCHANGED <<waEdges, waEnd, waPc>>
  BY DEF Forward
<1> HIDE DEF n
<1>3. n \in waReached /\ Way(Start, n)
  BY <1>1, <1>2 DEF WaInv, WaForward
<1>4. \A m \in Successors(n) : m \in Nodes /\ Way(Start, m)
  BY <1>3, WaySuccessor, WayJoined
<1>5. \A m \in waReached' : m \in Nodes /\ Way(Start, m)
  BY <1>2, <1>4 DEF WaInv, WaForward
<1>6. waQueue' \subseteq waReached'
  BY <1>2 DEF WaInv, WaForward
<1>7. \A m \in waReached' \ waQueue' : Successors(m) \subseteq waReached'
  BY <1>2 DEF WaInv, WaForward
<1> QED
  BY <1>2, <1>5, <1>6, <1>7, GraphKept DEF WaInv, WaForward, Start

LEMMA TurnBackKeeps ==
  ASSUME WaInv, TurnBack
  PROVE  WaForward' /\ WaBackward'
<1>1. /\ waPc = "forward" /\ waQueue = {} /\ waPc' = "backward"
      /\ waCoreached' = Nodes \cap {End} /\ waQueue' = waCoreached'
      /\ UNCHANGED <<waEdges, waEnd, waReached>>
  BY DEF TurnBack
<1>2. WaForward'
  BY <1>1, GraphKept DEF WaInv, WaForward, Start
<1>3. WaBackward'
  BY <1>1, GraphKept, NodesAre, WaySelf DEF WaBackward, End
<1> QED
  BY <1>2, <1>3

LEMMA BackwardKeeps ==
  ASSUME WaInv, Backward
  PROVE  WaBackward' /\ waPc' = waPc
<1> DEFINE n == Min(waQueue)
<1>1. n \in waQueue
  <2>1. waQueue \subseteq Nat /\ waQueue # {}
    BY NodesAre DEF WaInv, WaBackward, Backward
  <2> QED
    BY <2>1, MinExists
<1>2. /\ waCoreached' = waCoreached \cup Predecessors(n)
      /\ waQueue' = (waQueue \ {n}) \cup (Predecessors(n) \ waCoreached)
      /\ waPc = "backward" /\ UNCHANGED <<waEdges, waEnd, waPc>>
  BY DEF Backward
<1> HIDE DEF n
<1>3. n \in waCoreached /\ waEnd /\ Way(n, End)
  BY <1>1, <1>2 DEF WaInv, WaBackward
<1>4. \A m \in Predecessors(n) : m \in Nodes /\ Way(m, End)
  BY <1>3, WaySuccessor, WayJoined
<1>5. \A m \in waCoreached' : m \in Nodes /\ waEnd /\ Way(m, End)
  BY <1>2, <1>3, <1>4 DEF WaInv, WaBackward
<1>6. waQueue' \subseteq waCoreached'
  BY <1>2 DEF WaInv, WaBackward
<1>7. \A m \in waCoreached' \ waQueue' : Predecessors(m) \subseteq waCoreached'
  BY <1>2 DEF WaInv, WaBackward
<1>8. waEnd => End \in waCoreached'
  BY <1>2 DEF WaInv, WaBackward
<1> QED
  BY <1>2, <1>5, <1>6, <1>7, <1>8, GraphKept DEF WaBackward, End

\* Both searches stay done.
LEMMA SearchesKept ==
  ASSUME WaInv, UNCHANGED <<waEdges, waEnd, waReached, waCoreached>>,
         waPc \in {"backward", "cycles", "reported"}, waPc' \in {"cycles", "reported"},
         waPc = "backward" => waQueue = {}
  PROVE  WaForward' /\ WaBackward'
<1>1. WaForward'
  BY GraphKept DEF WaInv, WaForward, Start
<1>2. WaBackward'
  BY GraphKept DEF WaInv, WaBackward, End
<1> QED
  BY <1>1, <1>2

LEMMA ForwardLeavesBackward ==
  ASSUME WaInv, Forward
  PROVE  WaBackward'
BY GraphKept DEF WaInv, WaBackward, Forward, End

LEMMA BackwardLeavesForward ==
  ASSUME WaInv, Backward
  PROVE  WaForward'
BY GraphKept DEF WaInv, WaForward, Backward, Start

\* Before the search for cycles and after it nothing of it changes.
LEMMA DfsKept ==
  ASSUME WaInv, UNCHANGED <<waEdges, waEnd, waStack, waVisited, waCycles>>
  PROVE  WaPath' /\ WaCycles' /\ WaAcyclic'
<1>1. Black' = Black
  BY DEF Black, Gray
<1>2. WaPath'
  BY GraphKept DEF WaInv, WaPath
<1>3. WaCycles'
  BY GraphKept DEF WaInv, WaCycles
<1>4. WaAcyclic'
  BY <1>1, GraphKept DEF WaInv, WaAcyclic
<1> QED
  BY <1>2, <1>3, <1>4

-----------------------------------------------------------------------------
\* The turns of the depth-first search.
LEMMA PathTyped ==
  ASSUME WaPath
  PROVE  /\ Len(waStack) \in Nat
         /\ Gray = {waStack[i].node : i \in 1..Len(waStack)}
         /\ \A i \in 1..Len(waStack) :
              /\ waStack[i] \in Frames /\ waStack[i].node \in Nodes
              /\ waStack[i] = [node |-> waStack[i].node, left |-> waStack[i].left]
<1>1. waStack \in Seq(Frames) /\ DOMAIN waStack = 1..Len(waStack) /\ Len(waStack) \in Nat
  BY LenProperties DEF WaPath
<1>2. \A i \in 1..Len(waStack) : waStack[i] \in Frames
  BY <1>1, ElementOfSeq
<1>3. \A frame \in Frames : frame = [node |-> frame.node, left |-> frame.left]
  BY DEF Frames
<1>4. \A i \in 1..Len(waStack) : waStack[i].node \in Nodes
  BY DEF WaPath
<1> QED
  BY <1>1, <1>2, <1>3, <1>4 DEF Gray

\* A successor that is taken up is no longer left.
LEMMA TakenIs ==
  ASSUME WaPath, waStack # <<>>, NEW n
  PROVE  /\ Taken(n) \in Seq(Frames) /\ Len(Taken(n)) = Len(waStack) /\ Len(waStack) \in Nat \ {0}
         /\ \A i \in 1..Len(waStack) :
              /\ Taken(n)[i].node = waStack[i].node
              /\ Taken(n)[i].left = waStack[i].left \ (IF i = Len(waStack) THEN {n} ELSE {})
<1> DEFINE L == Len(waStack)
           frame == [node |-> waStack[L].node, left |-> waStack[L].left \ {n}]
<1>1. waStack \in Seq(Frames) /\ L \in Nat \ {0} /\ L \in 1..L
  BY EmptySeq DEF WaPath
<1>2. waStack[L] \in Frames /\ waStack[L] = [node |-> waStack[L].node, left |-> waStack[L].left]
  BY <1>1, PathTyped
<1>3. Taken(n) = [waStack EXCEPT ![L] = frame]
  <2>1. \A a, b : [[node |-> a, left |-> b] EXCEPT !.left = b \ {n}]
                    = [node |-> a, left |-> b \ {n}]
    OBVIOUS
  <2>2. [waStack[L] EXCEPT !.left = waStack[L].left \ {n}] = frame
    BY <1>2, <2>1, Zenon
  <2>3. Taken(n) = [waStack EXCEPT ![L] = [waStack[L] EXCEPT !.left = waStack[L].left \ {n}]]
    BY DEF Taken
  <2> QED
    BY <2>2, <2>3, Zenon
<1>4. frame \in Frames
  BY <1>2 DEF Frames
<1> HIDE DEF frame
<1>5. /\ Taken(n) \in Seq(Frames) /\ Len(Taken(n)) = L
      /\ \A i \in 1..L : Taken(n)[i] = IF i = L THEN frame ELSE waStack[i]
  BY <1>1, <1>3, <1>4, ExceptSeq
<1> QED
  BY <1>1, <1>5 DEF frame

\* A path with a successor of its last node, or of none, put on top.
LEMMA EnterKeeps ==
  ASSUME WaInv, UNCHANGED <<waEdges, waEnd, waCycles>>,
         NEW path \in Seq(Frames), NEW n \in Nodes \ waVisited, Enter(path, n),
         Len(path) = Len(waStack),
         \A i \in 1..Len(waStack) :
           /\ path[i].node = waStack[i].node /\ path[i].left \subseteq waStack[i].left
           /\ \A m \in waStack[i].left \ path[i].left : i = Len(waStack) /\ m = n,
         Len(waStack) > 0 => n \in Successors(waStack[Len(waStack)].node)
  PROVE  WaPath' /\ WaCycles' /\ WaAcyclic'
<1> DEFINE frame == [node |-> n, left |-> Successors(n)]
<1>1. PICK L \in Nat : L = Len(waStack)
  BY PathTyped DEF WaInv
<1>2. frame \in Frames
  BY NodesAre DEF Frames, Successors
<1> HIDE DEF frame
<1>3. waStack' = Append(path, frame) /\ waVisited' = waVisited \cup {n}
  BY DEF Enter, frame
<1>4. /\ waStack' \in Seq(Frames) /\ Len(waStack') = L + 1
      /\ \A i \in 1..L : waStack'[i] = path[i]
      /\ waStack'[L + 1] = frame
  BY <1>1, <1>2, <1>3, AppendProperties
<1>5. frame.node = n /\ frame.left = Successors(n)
  BY DEF frame
<1>6. \A i \in 1..L : /\ waStack'[i].node = waStack[i].node
                      /\ waStack'[i].left \subseteq waStack[i].left
                      /\ \A m \in waStack[i].left \ waStack'[i].left : i = L /\ m = n
  BY <1>1, <1>4
<1>7. \A i \in 1..L : /\ waStack[i].node \in waVisited
                      /\ waStack[i].left \subseteq Successors(waStack[i].node)
  BY <1>1 DEF WaInv, WaPath
<1>8. \A i \in 1..L + 1 : i = L + 1 \/ i \in 1..L
  OBVIOUS
<1>9. Black' = Black
  <2>1. Gray' = {waStack'[i].node : i \in 1..L + 1}
    BY <1>4, LenProperties DEF Gray
  <2>2. Gray' = Gray \cup {n}
    <3>1. \A i \in 1..L : waStack'[i].node = waStack[i].node /\ i \in 1..L + 1
      BY <1>6
    <3>2. waStack'[L + 1].node = n /\ L + 1 \in 1..L + 1
      BY <1>4, <1>5
    <3>3. Gray = {waStack[i].node : i \in 1..L}
      BY <1>1, PathTyped DEF WaInv
    <3> QED
      BY <1>8, <2>1, <3>1, <3>2, <3>3
  <2> QED
    BY <1>3, <2>2 DEF Black
<1>10. \A i \in 1..L : Way(waStack[i].node, n)
  <2> SUFFICES ASSUME NEW i \in 1..L PROVE Way(waStack[i].node, n)
    OBVIOUS
  <2>1. Way(waStack[i].node, waStack[L].node) /\ n \in Successors(waStack[L].node)
    BY <1>1 DEF WaInv, WaPath
  <2> QED
    BY <2>1, WaySuccessor, WayJoined
<1>11. WaPath'
  <2>1. waVisited' \subseteq Nodes'
    BY <1>3, GraphKept DEF WaInv, WaPath
  <2>2. \A i \in 1..L + 1 :
          /\ waStack'[i].node \in waVisited'
          /\ waStack'[i].left \subseteq Successors(waStack'[i].node)
    BY <1>3, <1>4, <1>5, <1>6, <1>7, <1>8
  <2>3. \A i, j \in 1..L + 1 : waStack'[i].node = waStack'[j].node => i = j
    <3>1. \A i, j \in 1..L : waStack[i].node = waStack[j].node => i = j
      BY <1>1 DEF WaInv, WaPath
    <3>2. \A i \in 1..L : waStack'[i].node # waStack'[L + 1].node
      BY <1>4, <1>5, <1>6, <1>7
    <3> QED
      BY <1>6, <1>8, <3>1, <3>2
  <2>4. \A i, j \in 1..L + 1 : i <= j => Way(waStack'[i].node, waStack'[j].node)
    <3>1. \A i, j \in 1..L : i <= j => Way(waStack[i].node, waStack[j].node)
      BY <1>1 DEF WaInv, WaPath
    <3>2. \A i \in 1..L : Way(waStack'[i].node, waStack'[L + 1].node)
      BY <1>4, <1>5, <1>6, <1>10
    <3>3. \A i \in 1..L : ~(L + 1 <= i)
      OBVIOUS
    <3> QED
      BY <1>6, <1>8, <3>1, <3>2, <3>3, WaySelf
  <2> QED
    BY <1>4, <2>1, <2>2, <2>3, <2>4, GraphKept DEF WaPath
<1>12. WaCycles'
  BY GraphKept DEF WaInv, WaCycles
<1>13. WaAcyclic'
  <2> SUFFICES ASSUME waCycles = {}
               PROVE  /\ \A k \in Black : \A m \in Successors(k) : m \in Black /\ ~Way(m, k)
                      /\ \A i \in 1..L + 1 :
                           \A m \in Successors(waStack'[i].node) \ waStack'[i].left :
                             m \in Black \/ (i + 1 <= L + 1 /\ m = waStack'[i + 1].node)
    BY <1>4, <1>9, GraphKept DEF WaAcyclic
  <2>1. \A i \in 1..L : \A m \in Successors(waStack[i].node) \ waStack[i].left :
          m \in Black \/ (i + 1 <= L /\ m = waStack[i + 1].node)
    BY <1>1 DEF WaInv, WaAcyclic
  <2>2. ASSUME NEW i \in 1..L + 1, NEW m \in Successors(waStack'[i].node) \ waStack'[i].left
        PROVE  m \in Black \/ (i + 1 <= L + 1 /\ m = waStack'[i + 1].node)
    <3>1. i # L + 1
      BY <1>4, <1>5, <2>2
    <3>2. i \in 1..L
      BY <1>8, <3>1
    <3>3. CASE m \in waStack[i].left
      <4>1. i = L /\ m = n
        BY <1>6, <2>2, <3>2, <3>3
      <4> QED
        BY <1>4, <1>5, <4>1
    <3>4. CASE m \notin waStack[i].left
      <4>1. m \in Successors(waStack[i].node) \ waStack[i].left
        BY <1>6, <3>2, <3>4
      <4>2. CASE m \in Black
        BY <4>2
      <4>3. CASE i + 1 <= L /\ m = waStack[i + 1].node
        <5>1. i + 1 \in 1..L /\ i + 1 <= L + 1
          BY <3>2, <4>3
        <5> QED
          BY <1>6, <4>3, <5>1
      <4> QED
        BY <2>1, <3>2, <4>1, <4>2, <4>3
    <3> QED
      BY <3>3, <3>4
  <2> QED
    BY <2>2 DEF WaInv, WaAcyclic
<1> QED
  BY <1>11, <1>12, <1>13


LEMMA StartDfsKeeps ==
  ASSUME WaInv, StartDfs
  PROVE  WaPath' /\ WaCycles' /\ WaAcyclic'
<1> DEFINE n == Min(Nodes \ waVisited)
<1>1. /\ waStack = <<>> /\ Enter(<<>>, n) /\ UNCHANGED <<waEdges, waEnd, waCycles>>
      /\ Nodes \ waVisited # {}
  BY DEF StartDfs
<1>2. n \in Nodes \ waVisited
  <2>1. Nodes \ waVisited \subseteq Nat
    BY NodesAre
  <2> QED
    BY <1>1, <2>1, MinExists
<1> HIDE DEF n
<1>3. <<>> \in Seq(Frames) /\ Len(waStack) = 0 /\ Len(<<>>) = Len(waStack)
  BY <1>1
<1>4. \A i \in 1..Len(waStack) : FALSE
  BY <1>3
<1>5. ~(Len(waStack) > 0)
  BY <1>3
<1> DEFINE path == <<>>
<1>6. path \in Seq(Frames) /\ Enter(path, n) /\ Len(path) = Len(waStack)
  BY <1>1, <1>3
<1> HIDE DEF path
<1> QED
  BY <1>1, <1>2, <1>4, <1>5, <1>6, EnterKeeps

LEMMA FollowEdgeKeeps ==
  ASSUME WaInv, FollowEdge
  PROVE  WaPath' /\ WaCycles' /\ WaAcyclic'
<1> DEFINE last == waStack[Len(waStack)]
<1>1. waStack # <<>> /\ UNCHANGED <<waEdges, waEnd>>
  BY DEF FollowEdge
<1>2. PICK n \in last.left :
        \/ /\ n \in Gray /\ waCycles' = waCycles \cup {WayBackTo(n)}
           /\ waStack' = Taken(n) /\ waVisited' = waVisited
        \/ /\ n \notin Gray /\ n \in waVisited
           /\ waStack' = Taken(n) /\ waVisited' = waVisited /\ waCycles' = waCycles
        \/ n \notin Gray /\ n \notin waVisited /\ Enter(Taken(n), n) /\ waCycles' = waCycles
  BY Zenon DEF FollowEdge, Closes, Last
<1>3. PICK L \in Nat \ {0} : L = Len(waStack)
  BY <1>1, TakenIs DEF WaInv
<1>4. /\ Taken(n) \in Seq(Frames) /\ Len(Taken(n)) = L
      /\ \A i \in 1..L :
           /\ Taken(n)[i].node = waStack[i].node
           /\ Taken(n)[i].left = waStack[i].left \ (IF i = L THEN {n} ELSE {})
  BY <1>1, <1>3, TakenIs DEF WaInv
<1>5. L \in 1..L
  BY <1>3
<1>6. n \in Successors(last.node) /\ n \in Nodes /\ Way(last.node, n)
  <2>1. last.left \subseteq Successors(last.node)
    BY <1>3, <1>5 DEF WaInv, WaPath
  <2> QED
    BY <1>2, <2>1, WaySuccessor
<1>7. ASSUME waStack' = Taken(n), waVisited' = waVisited
      PROVE  WaPath' /\ Black' = Black
  <2>1. Gray = {waStack[i].node : i \in 1..L}
    BY <1>3, PathTyped DEF WaInv
  <2>2. Gray' = {waStack'[i].node : i \in 1..L}
    BY <1>4, <1>7, LenProperties DEF Gray
  <2>3. Gray' = Gray
    BY <1>4, <1>7, <2>1, <2>2
  <2>4. /\ waVisited \subseteq Nodes
        /\ \A i \in 1..L : /\ waStack[i].node \in waVisited
                           /\ waStack[i].left \subseteq Successors(waStack[i].node)
        /\ \A i, j \in 1..L : waStack[i].node = waStack[j].node => i = j
        /\ \A i, j \in 1..L : i <= j => Way(waStack[i].node, waStack[j].node)
    BY <1>3 DEF WaInv, WaPath
  <2>5. \A i \in 1..L : /\ waStack'[i].node = waStack[i].node
                        /\ waStack'[i].left \subseteq waStack[i].left
    BY <1>4, <1>7
  <2>6. Len(waStack') = L /\ waStack' \in Seq(Frames)
    BY <1>4, <1>7
  <2> QED
    BY <1>1, <1>7, <2>3, <2>4, <2>5, <2>6, GraphKept DEF WaPath, Black
<1>8. CASE n \in Gray /\ waCycles' = waCycles \cup {WayBackTo(n)}
             /\ waStack' = Taken(n) /\ waVisited' = waVisited
  <2>1. waCycles' # {}
    BY <1>8
  <2>2. Way(n, last.node)
    <3>1. PICK i \in 1..L : n = waStack[i].node
      BY <1>3, <1>8, PathTyped DEF WaInv
    <3>2. i <= L
      BY <3>1
    <3> QED
      BY <1>3, <1>5, <3>1, <3>2 DEF WaInv, WaPath
  <2>3. \E e \in waEdges : Way(e[2], e[1])
    <3>1. <<last.node, n>> \in waEdges
      BY <1>6 DEF Successors
    <3> QED
      BY <2>2, <3>1
  <2>4. ASSUME NEW a \in WayBackTo(n), NEW b \in WayBackTo(n) PROVE Way(a, b)
    <3>1. PICK i \in 1..L : a = waStack[i].node
      BY <1>3, LenProperties DEF WayBackTo, WaInv, WaPath
    <3>2. PICK j \in 1..L : b = waStack[j].node /\ \E k \in 1..j : waStack[k].node = n
      BY <1>3, LenProperties DEF WayBackTo, WaInv, WaPath
    <3>3. PICK k \in 1..j : waStack[k].node = n
      BY <3>2
    <3>4. k \in 1..L /\ k <= j /\ i <= L
      BY <3>1, <3>2, <3>3
    <3>5. Way(a, last.node) /\ Way(n, b)
      BY <1>3, <1>5, <3>1, <3>2, <3>3, <3>4 DEF WaInv, WaPath
    <3> QED
      BY <1>6, <3>5, WayJoined
  <2>5. WaCycles'
    BY <1>1, <1>8, <2>3, <2>4, GraphKept DEF WaInv, WaCycles
  <2> QED
    BY <1>7, <1>8, <2>1, <2>5 DEF WaAcyclic
<1>9. CASE n \notin Gray /\ n \in waVisited
             /\ waStack' = Taken(n) /\ waVisited' = waVisited /\ waCycles' = waCycles
  <2>1. n \in Black
    BY <1>9 DEF Black
  <2>2. WaCycles'
    BY <1>1, <1>9, GraphKept DEF WaInv, WaCycles
  <2>3. WaAcyclic'
    <3> SUFFICES ASSUME waCycles = {}
                 PROVE  /\ \A k \in Black : \A m \in Successors(k) : m \in Black /\ ~Way(m, k)
                        /\ \A i \in 1..L :
                             \A m \in Successors(waStack'[i].node) \ waStack'[i].left :
                               m \in Black \/ (i + 1 <= L /\ m = waStack'[i + 1].node)
      BY <1>1, <1>4, <1>7, <1>9, GraphKept DEF WaAcyclic
    <3>1. \A i \in 1..L : \A m \in Successors(waStack[i].node) \ waStack[i].left :
            m \in Black \/ (i + 1 <= L /\ m = waStack[i + 1].node)
      BY <1>3 DEF WaInv, WaAcyclic
    <3>2. ASSUME NEW i \in 1..L, NEW m \in Successors(waStack'[i].node) \ waStack'[i].left
          PROVE  m \in Black \/ (i + 1 <= L /\ m = waStack'[i + 1].node)
      <4>1. m = n \/ m \in Successors(waStack[i].node) \ waStack[i].left
        BY <1>4, <1>9, <3>2
      <4>2. i + 1 <= L => i + 1 \in 1..L
        OBVIOUS
      <4> QED
        BY <1>4, <1>9, <2>1, <3>1, <4>1, <4>2
    <3> QED
      BY <3>2 DEF WaInv, WaAcyclic
  <2> QED
    BY <1>7, <1>9, <2>2, <2>3
<1>10. CASE n \notin Gray /\ n \notin waVisited /\ Enter(Taken(n), n) /\ waCycles' = waCycles
  <2>1. n \in Nodes \ waVisited /\ UNCHANGED <<waEdges, waEnd, waCycles>>
    BY <1>1, <1>6, <1>10
  <2>2. \A i \in 1..Len(waStack) :
          /\ Taken(n)[i].node = waStack[i].node /\ Taken(n)[i].left \subseteq waStack[i].left
          /\ \A m \in waStack[i].left \ Taken(n)[i].left : i = Len(waStack) /\ m = n
    BY <1>3, <1>4
  <2>3. Len(Taken(n)) = Len(waStack) /\ Taken(n) \in Seq(Frames)
    BY <1>3, <1>4
  <2>4. Enter(Taken(n), n) /\ n \in Successors(waStack[Len(waStack)].node)
    BY <1>6, <1>10
  <2> DEFINE path == Taken(n)
  <2> HIDE DEF path
  <2>5. /\ path \in Seq(Frames) /\ Enter(path, n) /\ Len(path) = Len(waStack)
        /\ \A i \in 1..Len(waStack) :
             /\ path[i].node = waStack[i].node /\ path[i].left \subseteq waStack[i].left
             /\ \A m \in waStack[i].left \ path[i].left : i = Len(waStack) /\ m = n
    BY <2>2, <2>3, <2>4 DEF path
  <2> QED
    BY <2>1, <2>4, <2>5, EnterKeeps
<1> QED
  BY <1>2, <1>8, <1>9, <1>10

LEMMA BlackenKeeps ==
  ASSUME WaInv, Blacken
  PROVE  WaPath' /\ WaCycles' /\ WaAcyclic'
<1>1. /\ waStack # <<>> /\ waStack' = Front(waStack) /\ Last(waStack).left = {}
      /\ UNCHANGED <<waEdges, waEnd, waVisited, waCycles>>
  BY DEF Blacken
<1>2. PICK L \in Nat \ {0} : L = Len(waStack)
  BY <1>1, EmptySeq DEF WaInv, WaPath
<1>3. /\ \A i \in 1..L : waStack[i] \in Frames
      /\ Gray = {waStack[i].node : i \in 1..L}
  BY <1>2, PathTyped DEF WaInv
<1>4. waStack' = SubSeq(waStack, 1, L - 1)
  BY <1>1, <1>2 DEF Front
<1>5. \A i \in 1..L - 1 : waStack[i] \in Frames
  BY <1>2, <1>3
<1>6. waStack' \in Seq(Frames) /\ Len(waStack') = L - 1
  BY <1>2, <1>4, <1>5, SubSeqProperties
<1>7. \A i \in 1..L - 1 : waStack'[i] = waStack[i]
  BY <1>2, <1>4, <1>5, SubSeqProperties
<1>8. /\ \A i \in 1..L - 1 : i \in 1..L
      /\ \A i \in 1..L : i = L \/ i \in 1..L - 1
      /\ L \in 1..L /\ L \notin 1..L - 1
  BY <1>2
<1> DEFINE last == waStack[L].node
<1>9. Black' = Black \cup {last} /\ last \notin Black /\ last \in waVisited
  <2>1. Gray' = {waStack'[i].node : i \in 1..L - 1}
    BY <1>6, LenProperties DEF Gray
  <2>2. Gray' = {waStack[i].node : i \in 1..L - 1}
    BY <1>7, <2>1
  <2>3. \A i \in 1..L - 1 : waStack[i].node # last
    BY <1>2, <1>8 DEF WaInv, WaPath
  <2>4. last \in waVisited
    BY <1>2, <1>8 DEF WaInv, WaPath
  <2>5. Gray = Gray' \cup {last} /\ last \notin Gray'
    BY <1>3, <1>8, <2>2, <2>3
  <2> QED
    BY <1>1, <2>4, <2>5 DEF Black
<1>10. WaPath'
  <2>1. /\ waVisited \subseteq Nodes
        /\ \A i \in 1..L : /\ waStack[i].node \in waVisited
                           /\ waStack[i].left \subseteq Successors(waStack[i].node)
        /\ \A i, j \in 1..L : waStack[i].node = waStack[j].node => i = j
        /\ \A i, j \in 1..L : i <= j => Way(waStack[i].node, waStack[j].node)
    BY <1>2 DEF WaInv, WaPath
  <2>2. /\ \A i \in 1..L - 1 : /\ waStack'[i].node \in waVisited
                               /\ waStack'[i].left \subseteq Successors(waStack'[i].node)
        /\ \A i, j \in 1..L - 1 : waStack'[i].node = waStack'[j].node => i = j
        /\ \A i, j \in 1..L - 1 : i <= j => Way(waStack'[i].node, waStack'[j].node)
    BY <1>7, <1>8, <2>1
  <2> QED
    BY <1>1, <1>6, <2>1, <2>2, GraphKept DEF WaPath
<1>11. WaCycles'
  BY <1>1, GraphKept DEF WaInv, WaCycles
<1>12. WaAcyclic'
  <2> SUFFICES ASSUME waCycles = {}
               PROVE  /\ \A k \in Black' : \A m \in Successors(k) : m \in Black' /\ ~Way(m, k)
                      /\ \A i \in 1..L - 1 :
                           \A m \in Successors(waStack'[i].node) \ waStack'[i].left :
                             m \in Black' \/ (i + 1 <= L - 1 /\ m = waStack'[i + 1].node)
    BY <1>1, <1>6, GraphKept DEF WaAcyclic
  <2>1. /\ \A k \in Black : \A m \in Successors(k) : m \in Black /\ ~Way(m, k)
        /\ \A i \in 1..L : \A m \in Successors(waStack[i].node) \ waStack[i].left :
             m \in Black \/ (i + 1 <= L /\ m = waStack[i + 1].node)
    BY <1>2 DEF WaInv, WaAcyclic
  <2>2. \A m \in Successors(last) : m \in Black
    <3>1. waStack[L].left = {}
      BY <1>1, <1>2 DEF Last
    <3>2. ~(L + 1 <= L)
      BY <1>2
    <3> QED
      BY <1>8, <2>1, <3>1, <3>2
  <2>3. \A m \in Black : ~Way(m, last)
    <3>1. Black \in SUBSET Nodes
      BY DEF Black, WaInv, WaPath
    <3>2. Closed(Black)
      BY <2>1, ClosedIs DEF WaInv
    <3> QED
      BY <1>9, <3>1, <3>2, WayOut
  <2>4. ASSUME NEW i \in 1..L - 1, NEW m \in Successors(waStack'[i].node) \ waStack'[i].left
        PROVE  m \in Black' \/ (i + 1 <= L - 1 /\ m = waStack'[i + 1].node)
    <3>1. m \in Successors(waStack[i].node) \ waStack[i].left
      BY <1>7, <2>4
    <3>2. m \in Black \/ (i + 1 <= L /\ m = waStack[i + 1].node)
      BY <1>8, <2>1, <3>1
    <3>3. CASE m \in Black
      BY <1>9, <3>3
    <3>4. CASE i + 1 = L /\ m = waStack[i + 1].node
      BY <1>9, <3>4
    <3>5. CASE i + 1 # L /\ i + 1 <= L /\ m = waStack[i + 1].node
      <4>1. i + 1 \in 1..L - 1 /\ i + 1 <= L - 1
        BY <1>2, <3>5
      <4> QED
        BY <1>7, <3>5, <4>1
    <3> QED
      BY <3>2, <3>3, <3>4, <3>5
  <2> QED
    BY <1>9, <2>1, <2>2, <2>3, <2>4
<1> QED
  BY <1>10, <1>11, <1>12

-----------------------------------------------------------------------------
\* What the analysis reports.
LEMMA ReachedIsExact ==
  ASSUME WaInv, waPc = "reported"
  PROVE  /\ waReached = {n \in Nodes : Way(Start, n)}
         /\ waCoreached = {n \in Nodes : waEnd /\ Way(n, End)}
<1>1. waReached \in SUBSET Nodes /\ Start \in waReached
  BY DEF WaInv, WaForward
<1>2. Closed(waReached)
  BY ClosedIs DEF WaInv, WaForward
<1>3. \A n \in Nodes : Way(Start, n) => n \in waReached
  BY <1>1, <1>2, WayOut
<1>4. waReached = {n \in Nodes : Way(Start, n)}
  BY <1>3 DEF WaInv, WaForward
<1> DEFINE rest == Nodes \ waCoreached
<1>5. Closed(rest)
  <2> SUFFICES ASSUME NEW e \in waEdges, e[1] \in rest, e[2] \in waCoreached PROVE FALSE
    BY EdgesJoin DEF Closed, WaInv
  <2>1. e[1] \in Predecessors(e[2])
    BY EdgesJoin DEF WaInv
  <2> QED
    BY <2>1 DEF WaInv, WaBackward
<1>6. ASSUME NEW n \in Nodes, waEnd, Way(n, End) PROVE n \in waCoreached
  <2> SUFFICES ASSUME n \in rest PROVE FALSE
    OBVIOUS
  <2>1. End \in rest
    BY <1>5, <1>6, WayOut
  <2> QED
    BY <1>6, <2>1 DEF WaInv, WaBackward
<1>7. waCoreached = {n \in Nodes : waEnd /\ Way(n, End)}
  BY <1>6 DEF WaInv, WaBackward
<1> QED
  BY <1>4, <1>7

LEMMA CyclesAreExact ==
  ASSUME WaInv, waPc = "reported"
  PROVE  waCycles = {} <=> \A e \in waEdges : ~Way(e[2], e[1])
<1>1. ASSUME waCycles = {}, NEW e \in waEdges PROVE ~Way(e[2], e[1])
  <2>1. Len(waStack) = 0 /\ Nodes \subseteq waVisited
    BY DEF WaInv, WaReport
  <2>2. Gray = {}
    BY <2>1, PathTyped DEF WaInv
  <2>3. e[1] \in Black /\ e[2] \in Successors(e[1])
    BY <2>1, <2>2, EdgesJoin DEF Black, WaInv
  <2> QED
    BY <1>1, <2>3 DEF WaInv, WaAcyclic
<1>2. waCycles # {} => \E e \in waEdges : Way(e[2], e[1])
  BY DEF WaInv, WaCycles
<1> QED
  BY <1>1, <1>2

\* A node that nothing follows has no way to another one.
LEMMA NoWayOn ==
  ASSUME WaInv, NEW n \in Nodes, Successors(n) = {}, NEW m, Way(n, m)
  PROVE  m = n
<1>1. {n} \in SUBSET Nodes /\ Closed({n})
  BY ClosedIs DEF WaInv
<1> QED
  BY <1>1, WayOut

LEMMA VerdictsAreExact ==
  ASSUME WaInv, waPc = "reported"
  PROVE  /\ Passed <=> \A n \in Nodes \ waSends : waEnd /\ Way(Start, n) /\ Way(n, End)
         /\ Passed => Healthy /\ (LintWarnings = {} \/ waSends # {})
         /\ Healthy <=> LintErrors = {}
<1>1. /\ \A n \in Nodes : n \in waReached <=> Way(Start, n)
      /\ \A n \in Nodes : n \in waCoreached <=> waEnd /\ Way(n, End)
  BY ReachedIsExact
<1>2. waSends \subseteq Inner \cap (Unreachable \cup DeadEnds \cup Isolated)
  BY DEF WaInv, WaReport
<1>3. ASSUME Passed, NEW n \in Nodes \ waSends PROVE waEnd /\ Way(Start, n) /\ Way(n, End)
  <2>1. waEnd /\ n \notin Unreachable /\ n \notin DeadEnds
    BY <1>3 DEF Passed
  <2>2. n \in waReached /\ (n = End \/ n \in waCoreached)
    BY <2>1 DEF Unreachable, DeadEnds
  <2> QED
    BY <1>1, <2>1, <2>2, WaySelf
<1>4. ASSUME \A n \in Nodes \ waSends : waEnd /\ Way(Start, n) /\ Way(n, End) PROVE Passed
  <2>1. waEnd
    BY <1>2, <1>4, NodesAre
  <2>2. End \in waReached
    BY <1>1, <1>2, <1>4, <2>1, NodesAre
  <2>3. Unreachable \subseteq waSends
    BY <1>1, <1>4 DEF Unreachable
  <2>4. DeadEnds \subseteq waSends
    BY <1>1, <1>4 DEF DeadEnds
  <2> QED
    BY <2>1, <2>2, <2>3, <2>4 DEF Passed
<1>5. Errors = {} <=> Successors(Start) # {} /\ waEnd
  <2>1. "no entry" \in Errors <=> Successors(Start) = {}
    BY DEF Errors
  <2>2. "no end" \in Errors <=> ~waEnd
    BY DEF Errors
  <2>3. Errors \subseteq {"no entry", "no end"}
    BY DEF Errors
  <2> QED
    BY <2>1, <2>2, <2>3
<1>6. Successors(Start) # {}
  BY EdgesJoin DEF WaInv, WaGraph
<1>7. ASSUME Passed PROVE Healthy
  <2>1. Stranded = {}
    BY <1>7 DEF Passed, Stranded, Dynamic
  <2> QED
    BY <1>5, <1>6, <1>7, <2>1 DEF Passed, Healthy
<1>8. ASSUME Passed, waSends = {} PROVE LintWarnings = {}
  <2>1. \A n \in Nodes : Way(n, End)
    BY <1>3, <1>8
  <2>2. \A n \in Nodes : Successors(n) = {} => n = End
    BY <2>1, NoWayOn
  <2>3. NoRoute = {} /\ Dynamic = {}
    BY <1>8, <2>2 DEF NoRoute, Dynamic
  <2>4. Isolated = {}
    BY <2>2, NodesAre DEF Isolated
  <2>5. ~(DeadEndCount > 0)
    <3>1. DeadEndCount = 0
      BY <2>3, FS_EmptySet DEF DeadEndCount
    <3> QED
      BY <3>1
  <2>6. "W001" \notin LintWarnings
    BY <2>4 DEF LintWarnings
  <2>7. "W002" \notin LintWarnings
    BY <2>5 DEF LintWarnings
  <2>8. LintWarnings \subseteq {"W001", "W002"}
    BY DEF LintWarnings
  <2> QED
    BY <2>6, <2>7, <2>8
<1>9. Healthy <=> LintErrors = {}
  <2>1. "E002" \in LintErrors <=> "no entry" \in Errors
    BY DEF LintErrors
  <2>2. "E003" \in LintErrors <=> ~waEnd
    BY DEF LintErrors
  <2>3. "E004" \in LintErrors <=> waEnd /\ End \notin waReached
    BY DEF LintErrors
  <2>4. "E005" \in LintErrors <=> Stranded # {}
    BY DEF LintErrors
  <2>5. LintErrors \subseteq {"E002", "E003", "E004", "E005"}
    BY DEF LintErrors
  <2>6. "no entry" \in Errors <=> Successors(Start) = {}
    BY DEF Errors
  <2> QED
    BY <1>5, <2>1, <2>2, <2>3, <2>4, <2>5, <2>6 DEF Healthy
<1> QED
  BY <1>3, <1>4, <1>7, <1>8, <1>9

LEMMA WaStarts == WaInit => WaInv
<1> SUFFICES ASSUME WaInit PROVE WaInv
  OBVIOUS
<1>1. WaGraph
  <2>1. PICK k \in 1..WaMaxEdges :
          waEdges \in kSubset(k, ({Start} \cup Inner) \X (Inner \cup {End}))
    BY DEF WaInit, Compilable
  <2>2. waEdges \subseteq ({Start} \cup Inner) \X (Inner \cup {End})
    BY <2>1 DEF kSubset
  <2> QED
    BY <2>2 DEF WaInit, Compilable, WaGraph
<1>2. WaForward
  BY NodesAre, WaySelf DEF WaInit, WaForward
<1>3. WaBackward
  BY DEF WaInit, WaBackward
<1>4. WaPath
  BY DEF WaInit, WaPath
<1>5. Black = {}
  BY DEF WaInit, Black
<1>6. WaAcyclic
  BY <1>5 DEF WaInit, WaAcyclic
<1> QED
  BY <1>1, <1>2, <1>3, <1>4, <1>6 DEF WaInit, WaInv, WaCycles, WaReport

LEMMA WaKeeps == WaInv /\ [WaNext]_waVars => WaInv'
<1> SUFFICES ASSUME WaInv, [WaNext]_waVars PROVE WaInv'
  OBVIOUS
<1>1. UNCHANGED <<waEdges, waEnd>> /\ WaGraph'
  BY GraphUnchanged, GraphKept DEF WaInv
<1>2. CASE Forward
  <2>1. WaForward' /\ WaBackward' /\ waPc' = waPc
    BY <1>2, ForwardKeeps, ForwardLeavesBackward
  <2>2. UNCHANGED <<waEdges, waEnd, waStack, waVisited, waCycles>> /\ waPc = "forward"
    BY <1>2 DEF Forward
  <2> QED
    BY <1>1, <2>1, <2>2, DfsKept DEF WaInv, WaReport
<1>3. CASE TurnBack
  <2>1. /\ UNCHANGED <<waEdges, waEnd, waStack, waVisited, waCycles>> /\ waPc' = "backward"
    BY <1>3 DEF TurnBack
  <2> QED
    BY <1>1, <1>3, <2>1, TurnBackKeeps, DfsKept DEF WaInv, WaReport
<1>4. CASE Backward
  <2>1. WaForward' /\ WaBackward' /\ waPc' = waPc
    BY <1>4, BackwardKeeps, BackwardLeavesForward
  <2>2. UNCHANGED <<waEdges, waEnd, waStack, waVisited, waCycles>> /\ waPc = "backward"
    BY <1>4 DEF Backward
  <2> QED
    BY <1>1, <2>1, <2>2, DfsKept DEF WaInv, WaReport
<1>5. CASE SeekCycles
  <2>1. /\ UNCHANGED <<waEdges, waEnd, waReached, waCoreached, waStack, waVisited, waCycles>>
        /\ waPc = "backward" /\ waQueue = {} /\ waPc' = "cycles"
    BY <1>5 DEF SeekCycles
  <2> QED
    BY <1>1, <2>1, SearchesKept, DfsKept DEF WaInv, WaReport
<1>6. CASE StartDfs \/ FollowEdge \/ Blacken
  <2>1. /\ UNCHANGED <<waEdges, waEnd, waReached, waCoreached>>
        /\ waPc = "cycles" /\ waPc' = "cycles"
    BY <1>6 DEF StartDfs, FollowEdge, Blacken
  <2>2. WaPath' /\ WaCycles' /\ WaAcyclic'
    BY <1>6, StartDfsKeeps, FollowEdgeKeeps, BlackenKeeps
  <2>3. WaForward' /\ WaBackward'
    BY <2>1, SearchesKept
  <2> QED
    BY <1>1, <2>1, <2>2, <2>3 DEF WaInv, WaReport
<1>7. CASE Report
  <2>1. /\ UNCHANGED <<waEdges, waEnd, waReached, waCoreached, waStack, waVisited, waCycles>>
        /\ waPc = "cycles" /\ waPc' = "reported"
        /\ waStack = <<>> /\ Nodes \subseteq waVisited
        /\ waSends' \subseteq Inner \cap (Unreachable \cup DeadEnds \cup Isolated)
    BY <1>7 DEF Report
  <2>2. WaForward' /\ WaBackward' /\ WaPath' /\ WaCycles' /\ WaAcyclic'
    BY <2>1, SearchesKept, DfsKept
  <2>3. Unreachable' = Unreachable /\ DeadEnds' = DeadEnds /\ Isolated' = Isolated
        /\ Inner' = Inner /\ Nodes' = Nodes
    BY <2>1, GraphKept DEF Unreachable, DeadEnds, Isolated, Inner, End
  <2>4. WaReport'
    BY <2>1, <2>3 DEF WaReport
  <2> QED
    BY <1>1, <2>1, <2>2, <2>4 DEF WaInv
<1>8. CASE UNCHANGED waVars
  <2>1. UNCHANGED <<waPc, waQueue, waReached, waCoreached, waStack, waVisited, waCycles, waSends>>
    BY <1>8 DEF waVars
  <2>2. WaPath' /\ WaCycles' /\ WaAcyclic'
    BY <1>1, <2>1, DfsKept
  <2>3. WaForward'
    BY <1>1, <2>1, GraphKept DEF WaInv, WaForward, Start
  <2>4. WaBackward'
    BY <1>1, <2>1, GraphKept DEF WaInv, WaBackward, End
  <2>5. WaReport'
    <3>1. Unreachable' = Unreachable /\ DeadEnds' = DeadEnds /\ Isolated' = Isolated
          /\ Inner' = Inner /\ Nodes' = Nodes
      BY <1>1, <2>1, GraphKept DEF Unreachable, DeadEnds, Isolated, Inner, End
    <3> QED
      BY <2>1, <3>1 DEF WaInv, WaReport
  <2> QED
    BY <1>1, <2>1, <2>2, <2>3, <2>4, <2>5 DEF WaInv
<1> QED
  BY <1>2, <1>3, <1>4, <1>5, <1>6, <1>7, <1>8 DEF WaNext

\* The searches of the static analysis say of a workflow graph what its ways say, and
\* the gate's, the report's and the linter's verdicts agree as they should, for graphs
\* of any size and any order of their edges (graph_metrics.py, workflow_validator.py,
\* graph_linter.py).
THEOREM VerdictsAreEarned == WaSpec => []AnalysisIsExact
<1>1. WaInv => AnalysisIsExact
  <2> SUFFICES ASSUME WaInv, waPc = "reported" PROVE AnalysisIsExact
    BY DEF AnalysisIsExact
  <2>1. \A c \in waCycles : \A n, m \in c : Way(n, m)
    BY DEF WaInv, WaCycles
  <2> QED
    BY <2>1, ReachedIsExact, CyclesAreExact, VerdictsAreExact DEF AnalysisIsExact
<1> QED
  BY <1>1, WaStarts, WaKeeps, PTL DEF WaSpec

-----------------------------------------------------------------------------
(***************************************************************************)
(* The load order of plugins.                                              *)
(***************************************************************************)
\* What a plugin waits for, and the dependents that are searched.
WaitsFor(m) == {d \in Manifests : <<d, m>> \in pgEdges} \ ToSet(pgOrder)
Nexts(n) == Dependents(n) \cap Unresolved
Done == pgVisited \ ToSet(Path)

\* The degree counts what is waited for, and what is placed comes after it.
PgPlacing ==
  /\ pgEdges \subseteq Manifests \X Manifests
  /\ pgOrder \in Seq(Manifests)
  /\ DOMAIN pgDegree = Manifests
  /\ \A m \in Manifests : pgDegree[m] = Cardinality(WaitsFor(m))
  /\ \A j \in 1..Len(pgOrder) : \A d : <<d, pgOrder[j]>> \in pgEdges =>
       \E i \in 1..Len(pgOrder) : i < j /\ pgOrder[i] = d

\* The path of the search: different plugins, each a dependent of the one before.
PgPath ==
  /\ pgStack \in Seq(Frames)
  /\ pgVisited \subseteq Unresolved
  /\ \A i \in 1..Len(pgStack) :
       /\ pgStack[i].node \in pgVisited
       /\ pgStack[i].left \subseteq Nexts(pgStack[i].node)
  /\ \A i, j \in 1..Len(pgStack) : pgStack[i].node = pgStack[j].node => i = j
  /\ \A i \in 1..Len(pgStack) :
       i + 1 <= Len(pgStack) => pgStack[i + 1].node \in Nexts(pgStack[i].node)

\* In a reported cycle every plugin depends on one of it.
CycleSound(c) ==
  /\ c # {} /\ c \subseteq Manifests
  /\ \A m \in c : \E d \in c : <<d, m>> \in pgEdges

\* Without a cycle nothing leaves what is done, a plugin of the path has only sent the
\* search there and to the next one, and the plugin done last depends on none of it.
PgAcyclic ==
  pgCycles = {} =>
    /\ \A n \in Done : Nexts(n) \subseteq Done
    /\ \A i \in 1..Len(pgStack) : \A m \in Nexts(pgStack[i].node) \ pgStack[i].left :
         m \in Done \/ (i + 1 <= Len(pgStack) /\ m = pgStack[i + 1].node)
    /\ Done # {} => \E t \in Done : \A d \in Done : t \notin Nexts(d)

\* The invariant of the load order: nothing is searched before all are placed that can be.
PgInv ==
  /\ PgPlacing /\ PgPath /\ PgAcyclic
  /\ \A c \in pgCycles : CycleSound(c)
  /\ Queue # {} => pgStack = <<>> /\ pgVisited = {} /\ pgCycles = {}

-----------------------------------------------------------------------------
LEMMA ManifestsFinite == IsFiniteSet(Manifests) /\ Manifests \subseteq Nat
BY FS_Interval, PluginGraphAssumption DEF Manifests

LEMMA WaitsFinite ==
  ASSUME NEW m
  PROVE  IsFiniteSet(WaitsFor(m)) /\ (Cardinality(WaitsFor(m)) = 0 <=> WaitsFor(m) = {})
<1>1. WaitsFor(m) \subseteq Manifests
  BY DEF WaitsFor
<1> QED
  BY <1>1, ManifestsFinite, FS_Subset, FS_EmptySet

LEMMA OrderIs ==
  ASSUME PgPlacing
  PROVE  /\ ToSet(pgOrder) = {pgOrder[i] : i \in 1..Len(pgOrder)}
         /\ Len(pgOrder) \in Nat
         /\ ToSet(pgOrder) \subseteq Manifests
<1>1. DOMAIN pgOrder = 1..Len(pgOrder) /\ Len(pgOrder) \in Nat
  BY LenProperties DEF PgPlacing
<1>2. \A i \in 1..Len(pgOrder) : pgOrder[i] \in Manifests
  BY ElementOfSeq DEF PgPlacing
<1> QED
  BY <1>1, <1>2 DEF ToSet

\* A plugin is placed after everything it depends on, and waits for one less.
LEMMA PlaceKeeps ==
  ASSUME PgInv, Place
  PROVE  PgInv'
<1> DEFINE n == Min(Queue)
<1>1. n \in Manifests /\ pgDegree[n] = 0 /\ n \notin ToSet(pgOrder)
  <2>1. Queue \subseteq Nat /\ Queue # {}
    BY ManifestsFinite DEF Place, Queue
  <2>2. n \in Queue
    BY <2>1, MinExists
  <2> QED
    BY <2>2 DEF Queue
<1>2. /\ pgOrder' = Append(pgOrder, n)
      /\ pgDegree' = [m \in Manifests |-> IF m \in Dependents(n) THEN pgDegree[m] - 1
                                          ELSE pgDegree[m]]
      /\ UNCHANGED <<pgEdges, pgStack, pgVisited, pgCycles>>
      /\ pgStack = <<>> /\ pgVisited = {} /\ pgCycles = {}
  BY DEF Place, PgInv
<1> HIDE DEF n
<1>3. PICK L \in Nat : L = Len(pgOrder)
  BY OrderIs DEF PgInv
<1>4. /\ pgOrder' \in Seq(Manifests) /\ Len(pgOrder') = L + 1
      /\ \A i \in 1..L : pgOrder'[i] = pgOrder[i]
      /\ pgOrder'[L + 1] = n
  BY <1>1, <1>2, <1>3, AppendProperties DEF PgInv, PgPlacing
<1>5. ToSet(pgOrder') = ToSet(pgOrder) \cup {n}
  <2>1. ToSet(pgOrder') = {pgOrder'[i] : i \in 1..L + 1}
    BY <1>4, LenProperties DEF ToSet
  <2>2. ToSet(pgOrder) = {pgOrder[i] : i \in 1..L}
    BY <1>3, OrderIs DEF PgInv
  <2>3. (\A i \in 1..L + 1 : i = L + 1 \/ i \in 1..L) /\ L + 1 \in 1..L + 1
        /\ \A i \in 1..L : i \in 1..L + 1
    OBVIOUS
  <2> QED
    BY <1>4, <2>1, <2>2, <2>3
<1>6. Manifests' = Manifests
  BY DEF Manifests
<1>7. \A m : WaitsFor(m)' = WaitsFor(m) \ {n}
  BY <1>2, <1>5, <1>6 DEF WaitsFor
<1>8. ASSUME NEW m \in Manifests PROVE pgDegree'[m] = Cardinality(WaitsFor(m)')
  <2>1. CASE m \in Dependents(n)
    <3>1. n \in WaitsFor(m)
      BY <1>1, <2>1 DEF Dependents, WaitsFor
    <3>2. Cardinality(WaitsFor(m) \ {n}) = Cardinality(WaitsFor(m)) - 1
      BY <3>1, WaitsFinite, FS_RemoveElement
    <3> QED
      BY <1>2, <1>7, <2>1, <3>2 DEF PgInv, PgPlacing
  <2>2. CASE m \notin Dependents(n)
    <3>1. n \notin WaitsFor(m)
      BY <2>2 DEF Dependents, WaitsFor
    <3>2. WaitsFor(m) \ {n} = WaitsFor(m)
      BY <3>1
    <3> QED
      BY <1>2, <1>7, <2>2, <3>2 DEF PgInv, PgPlacing
  <2> QED
    BY <2>1, <2>2
<1>9. ASSUME NEW j \in 1..L + 1, NEW d, <<d, pgOrder'[j]>> \in pgEdges
      PROVE  \E i \in 1..L + 1 : i < j /\ pgOrder'[i] = d
  <2>1. CASE j \in 1..L
    <3>1. PICK i \in 1..L : i < j /\ pgOrder[i] = d
      BY <1>3, <1>4, <1>9, <2>1 DEF PgInv, PgPlacing
    <3> QED
      BY <1>4, <3>1
  <2>2. CASE j = L + 1
    <3>1. d \in Manifests /\ <<d, n>> \in pgEdges
      BY <1>4, <1>9, <2>2 DEF PgInv, PgPlacing
    <3>2. WaitsFor(n) = {}
      BY <1>1, WaitsFinite DEF PgInv, PgPlacing
    <3>3. d \in ToSet(pgOrder)
      BY <3>1, <3>2 DEF WaitsFor
    <3>4. PICK i \in 1..L : pgOrder[i] = d
      BY <1>3, <3>3, OrderIs DEF PgInv
    <3>5. i \in 1..L + 1 /\ i < j
      BY <2>2, <3>4
    <3> QED
      BY <1>4, <3>4, <3>5
  <2> QED
    BY <2>1, <2>2
<1>10. PgPlacing'
  <2>1. DOMAIN pgDegree' = Manifests /\ pgEdges' \subseteq Manifests' \X Manifests'
    BY <1>2, <1>6 DEF PgInv, PgPlacing
  <2> QED
    BY <1>2, <1>4, <1>6, <1>8, <1>9, <2>1 DEF PgPlacing
<1>11. pgStack' = <<>> /\ pgVisited' = {} /\ pgCycles' = {}
  BY <1>2
<1>12. PgPath' /\ PgAcyclic'
  <2>1. Done' = {}
    BY <1>11 DEF Done
  <2>2. Len(pgStack') = 0 /\ pgStack' \in Seq(Frames) /\ \A i \in 1..0 : FALSE
    BY <1>11
  <2> QED
    BY <1>11, <2>1, <2>2 DEF PgPath, PgAcyclic
<1> QED
  BY <1>10, <1>11, <1>12 DEF PgInv

-----------------------------------------------------------------------------
\* The search does not touch what is placed.
LEMMA PlacedKept ==
  ASSUME PgInv, UNCHANGED <<pgEdges, pgDegree, pgOrder>>
  PROVE  /\ PgPlacing' /\ Unresolved' = Unresolved /\ Queue' = Queue
         /\ \A n : Nexts(n)' = Nexts(n)
         /\ \A c : CycleSound(c)' <=> CycleSound(c)
<1>1. Manifests' = Manifests
  BY DEF Manifests
<1>2. PgPlacing'
  BY <1>1 DEF PgInv, PgPlacing, WaitsFor
<1>3. Unresolved' = Unresolved /\ Queue' = Queue
  BY <1>1 DEF Unresolved, Queue
<1>4. \A n : Nexts(n)' = Nexts(n)
  BY <1>1, <1>3 DEF Nexts, Dependents
<1> QED
  BY <1>1, <1>2, <1>3, <1>4 DEF CycleSound

LEMMA SearchTyped ==
  ASSUME PgPath
  PROVE  /\ Len(pgStack) \in Nat
         /\ Len(Path) = Len(pgStack) /\ \A i \in 1..Len(pgStack) : Path[i] = pgStack[i].node
         /\ DOMAIN Path = 1..Len(pgStack)
         /\ ToSet(Path) = {pgStack[i].node : i \in 1..Len(pgStack)}
         /\ \A i \in 1..Len(pgStack) :
              /\ pgStack[i] \in Frames /\ pgStack[i].node \in Unresolved
              /\ pgStack[i] = [node |-> pgStack[i].node, left |-> pgStack[i].left]
<1>1. pgStack \in Seq(Frames) /\ DOMAIN pgStack = 1..Len(pgStack) /\ Len(pgStack) \in Nat
  BY LenProperties DEF PgPath
<1>2. \A i \in 1..Len(pgStack) : pgStack[i] \in Frames
  BY <1>1, ElementOfSeq
<1>3. \A frame \in Frames : frame = [node |-> frame.node, left |-> frame.left]
  BY DEF Frames
<1>4. \A i \in 1..Len(pgStack) : pgStack[i].node \in Unresolved
  BY DEF PgPath
<1>5. Path = [i \in 1..Len(pgStack) |-> pgStack[i].node]
  BY <1>1 DEF Path
<1>6. /\ DOMAIN Path = 1..Len(pgStack) /\ Len(Path) = Len(pgStack)
      /\ \A i \in 1..Len(pgStack) : Path[i] = pgStack[i].node
  BY <1>1, <1>5
<1>7. ToSet(Path) = {pgStack[i].node : i \in 1..Len(pgStack)}
  BY <1>6 DEF ToSet
<1> QED
  BY <1>1, <1>2, <1>3, <1>4, <1>6, <1>7

LEMMA LeftIs ==
  ASSUME PgPath, pgStack # <<>>, NEW rest, rest \subseteq pgStack[Len(pgStack)].left
  PROVE  /\ Left(rest) \in Seq(Frames) /\ Len(Left(rest)) = Len(pgStack)
         /\ Len(pgStack) \in Nat \ {0}
         /\ \A i \in 1..Len(pgStack) :
              /\ Left(rest)[i].node = pgStack[i].node
              /\ Left(rest)[i].left = IF i = Len(pgStack) THEN rest ELSE pgStack[i].left
<1>1. PICK L \in Nat \ {0} : L = Len(pgStack)
  BY EmptySeq DEF PgPath
<1>2. L \in 1..L /\ pgStack \in Seq(Frames)
  BY <1>1 DEF PgPath
<1> DEFINE frame == [node |-> pgStack[L].node, left |-> rest]
<1>3. /\ pgStack[L] \in Frames
      /\ pgStack[L] = [node |-> pgStack[L].node, left |-> pgStack[L].left]
  BY <1>1, <1>2, SearchTyped
<1>4. frame \in Frames
  BY <1>1, <1>3 DEF Frames
<1>5. [pgStack[L] EXCEPT !.left = rest] = frame
  <2>1. \A a, b : [[node |-> a, left |-> b] EXCEPT !.left = rest] = [node |-> a, left |-> rest]
    OBVIOUS
  <2> QED
    BY <1>3, <2>1, Zenon
<1>6. \A i \in 1..L - 1 : pgStack[i] \in Frames
  BY <1>1, <1>2, SearchTyped
<1> DEFINE front == SubSeq(pgStack, 1, L - 1)
<1>7. front \in Seq(Frames) /\ Len(front) = L - 1
  BY <1>1, <1>6, SubSeqProperties
<1>8. \A i \in 1..L - 1 : front[i] = pgStack[i]
  BY <1>1, <1>6, SubSeqProperties
<1>9. Left(rest) = front \o <<frame>>
  BY <1>1, <1>5 DEF Left
<1> HIDE DEF front, frame
<1>10. Left(rest) = Append(front, frame)
  BY <1>4, <1>7, <1>9, AppendIsConcat
<1>11. /\ Left(rest) \in Seq(Frames) /\ Len(Left(rest)) = L
       /\ \A i \in 1..L - 1 : Left(rest)[i] = front[i]
       /\ Left(rest)[L] = frame
  <2>1. L - 1 + 1 = L
    BY <1>1
  <2> QED
    BY <1>4, <1>7, <1>10, <2>1, AppendProperties
<1>12. \A i \in 1..L : i = L \/ i \in 1..L - 1
  BY <1>1
<1>13. ASSUME NEW i \in 1..L
       PROVE  /\ Left(rest)[i].node = pgStack[i].node
              /\ Left(rest)[i].left = IF i = L THEN rest ELSE pgStack[i].left
  <2>1. CASE i = L
    BY <1>11, <2>1 DEF frame
  <2>2. CASE i # L
    BY <1>8, <1>11, <1>12, <2>2
  <2> QED
    BY <2>1, <2>2
<1> QED
  BY <1>1, <1>11, <1>13

-----------------------------------------------------------------------------
\* A path with a dependent of its last plugin, or of none, put on top.
LEMMA VisitKeeps ==
  ASSUME PgInv, UNCHANGED <<pgEdges, pgDegree, pgOrder, pgCycles>>,
         NEW path \in Seq(Frames), NEW n \in Unresolved \ pgVisited, Visit(path, n),
         Len(path) = Len(pgStack),
         \A i \in 1..Len(pgStack) :
           /\ path[i].node = pgStack[i].node /\ path[i].left \subseteq pgStack[i].left
           /\ \A m \in pgStack[i].left \ path[i].left : i = Len(pgStack) /\ m = n,
         Len(pgStack) > 0 => n \in Nexts(pgStack[Len(pgStack)].node)
  PROVE  PgPath' /\ PgAcyclic'
<1> DEFINE frame == [node |-> n, left |-> Nexts(n)]
<1>1. PICK L \in Nat : L = Len(pgStack)
  BY SearchTyped DEF PgInv
<1>2. frame \in Frames
  <2>1. n \in Nat /\ Nexts(n) \subseteq Nat
    BY ManifestsFinite DEF Unresolved, Nexts
  <2> QED
    BY <2>1 DEF Frames
<1> HIDE DEF frame
<1>3. pgStack' = Append(path, frame) /\ pgVisited' = pgVisited \cup {n}
  BY DEF Visit, Nexts, frame
<1>4. /\ pgStack' \in Seq(Frames) /\ Len(pgStack') = L + 1
      /\ \A i \in 1..L : pgStack'[i] = path[i]
      /\ pgStack'[L + 1] = frame
  BY <1>1, <1>2, <1>3, AppendProperties
<1>5. frame.node = n /\ frame.left = Nexts(n)
  BY DEF frame
<1>6. \A i \in 1..L : /\ pgStack'[i].node = pgStack[i].node
                      /\ pgStack'[i].left \subseteq pgStack[i].left
                      /\ \A m \in pgStack[i].left \ pgStack'[i].left : i = L /\ m = n
  BY <1>1, <1>4
<1>7. \A i \in 1..L : /\ pgStack[i].node \in pgVisited
                      /\ pgStack[i].left \subseteq Nexts(pgStack[i].node)
  BY <1>1 DEF PgInv, PgPath
<1>8. \A i \in 1..L + 1 : i = L + 1 \/ i \in 1..L
  OBVIOUS
<1>9. Unresolved' = Unresolved /\ \A m : Nexts(m)' = Nexts(m)
  BY PlacedKept
<1>10. PgPath'
  <2>1. pgVisited' \subseteq Unresolved
    BY <1>3 DEF PgInv, PgPath
  <2>2. \A i \in 1..L + 1 :
          /\ pgStack'[i].node \in pgVisited'
          /\ pgStack'[i].left \subseteq Nexts(pgStack'[i].node)
    BY <1>3, <1>4, <1>5, <1>6, <1>7, <1>8
  <2>3. \A i, j \in 1..L + 1 : pgStack'[i].node = pgStack'[j].node => i = j
    <3>1. \A i, j \in 1..L : pgStack[i].node = pgStack[j].node => i = j
      BY <1>1 DEF PgInv, PgPath
    <3>2. \A i \in 1..L : pgStack'[i].node # pgStack'[L + 1].node
      BY <1>4, <1>5, <1>6, <1>7
    <3> QED
      BY <1>6, <1>8, <3>1, <3>2
  <2>4. ASSUME NEW i \in 1..L + 1, i + 1 <= L + 1
        PROVE  pgStack'[i + 1].node \in Nexts(pgStack'[i].node)
    <3>1. i \in 1..L
      BY <2>4
    <3>2. CASE i = L
      <4>1. n \in Nexts(pgStack[L].node)
        BY <1>1, <3>1, <3>2
      <4> QED
        BY <1>4, <1>5, <1>6, <3>1, <3>2, <4>1
    <3>3. CASE i # L
      <4>1. i + 1 \in 1..L /\ i + 1 <= L
        BY <3>1, <3>3
      <4>2. pgStack[i + 1].node \in Nexts(pgStack[i].node)
        BY <1>1, <3>1, <4>1 DEF PgInv, PgPath
      <4> QED
        BY <1>6, <3>1, <4>1, <4>2
    <3> QED
      BY <3>2, <3>3
  <2> QED
    BY <1>4, <1>9, <2>1, <2>2, <2>3, <2>4 DEF PgPath
<1>11. Done' = Done
  <2>1. ToSet(Path)' = {pgStack'[i].node : i \in 1..L + 1}
    <3>1. (PgPath => ToSet(Path) = {pgStack[i].node : i \in 1..Len(pgStack)})'
      BY SearchTyped, PTL
    <3> QED
      BY <1>4, <1>10, <3>1
  <2>2. ToSet(Path) = {pgStack[i].node : i \in 1..L}
    BY <1>1, SearchTyped DEF PgInv
  <2>3. ToSet(Path)' = ToSet(Path) \cup {n}
    <3>1. \A i \in 1..L : pgStack'[i].node = pgStack[i].node /\ i \in 1..L + 1
      BY <1>6
    <3>2. pgStack'[L + 1].node = n /\ L + 1 \in 1..L + 1
      BY <1>4, <1>5
    <3> QED
      BY <1>8, <2>1, <2>2, <3>1, <3>2
  <2> QED
    BY <1>3, <2>3 DEF Done
<1>12. PgAcyclic'
  <2> SUFFICES ASSUME pgCycles = {}
               PROVE  /\ \A k \in Done : Nexts(k) \subseteq Done
                      /\ \A i \in 1..L + 1 :
                           \A m \in Nexts(pgStack'[i].node) \ pgStack'[i].left :
                             m \in Done \/ (i + 1 <= L + 1 /\ m = pgStack'[i + 1].node)
                      /\ Done # {} => \E t \in Done : \A d \in Done : t \notin Nexts(d)
    BY <1>4, <1>9, <1>11 DEF PgAcyclic
  <2>1. \A i \in 1..L : \A m \in Nexts(pgStack[i].node) \ pgStack[i].left :
          m \in Done \/ (i + 1 <= L /\ m = pgStack[i + 1].node)
    BY <1>1 DEF PgInv, PgAcyclic
  <2>2. ASSUME NEW i \in 1..L + 1, NEW m \in Nexts(pgStack'[i].node) \ pgStack'[i].left
        PROVE  m \in Done \/ (i + 1 <= L + 1 /\ m = pgStack'[i + 1].node)
    <3>1. i # L + 1
      BY <1>4, <1>5, <2>2
    <3>2. i \in 1..L
      BY <1>8, <3>1
    <3>3. CASE m \in pgStack[i].left
      <4>1. i = L /\ m = n
        BY <1>6, <2>2, <3>2, <3>3
      <4> QED
        BY <1>4, <1>5, <4>1
    <3>4. CASE m \notin pgStack[i].left
      <4>1. m \in Nexts(pgStack[i].node) \ pgStack[i].left
        BY <1>6, <2>2, <3>2, <3>4
      <4>2. CASE m \in Done
        BY <4>2
      <4>3. CASE i + 1 <= L /\ m = pgStack[i + 1].node
        <5>1. i + 1 \in 1..L /\ i + 1 <= L + 1
          BY <3>2, <4>3
        <5> QED
          BY <1>6, <4>3, <5>1
      <4> QED
        BY <2>1, <3>2, <4>1, <4>2, <4>3
    <3> QED
      BY <3>3, <3>4
  <2>3. /\ \A k \in Done : Nexts(k) \subseteq Done
        /\ Done # {} => \E t \in Done : \A d \in Done : t \notin Nexts(d)
    BY DEF PgInv, PgAcyclic
  <2> QED
    BY <2>2, <2>3
<1> QED
  BY <1>10, <1>12

LEMMA StartSearchKeeps ==
  ASSUME PgInv, StartSearch
  PROVE  PgInv'
<1> DEFINE n == Min(Unresolved \ pgVisited)
           path == <<>>
<1>1. /\ pgStack = <<>> /\ Visit(path, n) /\ UNCHANGED <<pgEdges, pgDegree, pgOrder, pgCycles>>
      /\ Unresolved \ pgVisited # {} /\ Queue = {}
  BY DEF StartSearch, Placed
<1>2. n \in Unresolved \ pgVisited
  <2>1. Unresolved \ pgVisited \subseteq Nat
    BY ManifestsFinite DEF Unresolved
  <2> QED
    BY <1>1, <2>1, MinExists
<1> HIDE DEF n
<1>3. Len(pgStack) = 0 /\ path \in Seq(Frames) /\ Len(path) = Len(pgStack)
  BY <1>1
<1>4. (\A i \in 1..Len(pgStack) : FALSE) /\ ~(Len(pgStack) > 0)
  BY <1>3
<1> HIDE DEF path
<1>5. PgPath' /\ PgAcyclic'
  BY <1>1, <1>2, <1>3, <1>4, VisitKeeps
<1>6. /\ PgPlacing' /\ Queue' = {}
      /\ \A c : CycleSound(c)' <=> CycleSound(c)
  BY <1>1, PlacedKept
<1> QED
  BY <1>1, <1>5, <1>6 DEF PgInv

LEMMA FollowKeeps ==
  ASSUME PgInv, Follow
  PROVE  PgInv'
<1> DEFINE last == pgStack[Len(pgStack)]
           n    == Min(last.left)
           rest == last.left \ {n}
<1>1. /\ pgStack # <<>> /\ last.left # {} /\ Queue = {}
      /\ UNCHANGED <<pgEdges, pgDegree, pgOrder>>
      /\ \/ /\ n \in ToSet(Path) /\ pgCycles' = pgCycles \cup {CycleTo(n)}
            /\ pgStack' = Left(rest) /\ pgVisited' = pgVisited
         \/ /\ n \in pgVisited \ ToSet(Path)
            /\ pgStack' = Left(rest) /\ pgVisited' = pgVisited /\ pgCycles' = pgCycles
         \/ n \notin pgVisited /\ Visit(Left(rest), n) /\ pgCycles' = pgCycles
  BY DEF Follow, Placed, Last
<1>2. PICK L \in Nat \ {0} : L = Len(pgStack)
  BY <1>1, EmptySeq DEF PgInv, PgPath
<1>3. L \in 1..L
  BY <1>2
<1>4. last.left \subseteq Nexts(last.node) /\ Nexts(last.node) \subseteq Unresolved
  BY <1>2, <1>3 DEF PgInv, PgPath, Nexts
<1>5. n \in last.left
  <2>1. last.left \subseteq Nat
    BY <1>4, ManifestsFinite DEF Unresolved
  <2> QED
    BY <1>1, <2>1, MinExists
<1>6. n \in Unresolved /\ n \in Nexts(last.node)
  BY <1>4, <1>5
<1> HIDE DEF n
<1> DEFINE taken == Left(rest)
<1>7. /\ taken \in Seq(Frames) /\ Len(taken) = L
      /\ \A i \in 1..L :
           /\ taken[i].node = pgStack[i].node
           /\ taken[i].left = IF i = L THEN rest ELSE pgStack[i].left
  <2>1. rest \subseteq pgStack[Len(pgStack)].left
    OBVIOUS
  <2> HIDE DEF rest
  <2> QED
    BY <1>1, <1>2, <2>1, LeftIs DEF PgInv
<1> HIDE DEF taken
<1>8. /\ PgPlacing' /\ Unresolved' = Unresolved /\ Queue' = {}
      /\ \A m : Nexts(m)' = Nexts(m)
      /\ \A c : CycleSound(c)' <=> CycleSound(c)
  BY <1>1, PlacedKept
<1>9. ASSUME pgStack' = taken, pgVisited' = pgVisited
      PROVE  PgPath' /\ Done' = Done
  <2>1. /\ pgVisited \subseteq Unresolved
        /\ \A i \in 1..L : /\ pgStack[i].node \in pgVisited
                           /\ pgStack[i].left \subseteq Nexts(pgStack[i].node)
        /\ \A i, j \in 1..L : pgStack[i].node = pgStack[j].node => i = j
        /\ \A i \in 1..L : i + 1 <= L => pgStack[i + 1].node \in Nexts(pgStack[i].node)
    BY <1>2 DEF PgInv, PgPath
  <2>2. \A i \in 1..L : /\ pgStack'[i].node = pgStack[i].node
                        /\ pgStack'[i].left \subseteq pgStack[i].left
    BY <1>2, <1>7, <1>9
  <2>3. Len(pgStack') = L /\ pgStack' \in Seq(Frames)
    BY <1>7, <1>9
  <2>4. \A i \in 1..L : i + 1 <= L => i + 1 \in 1..L
    OBVIOUS
  <2>5. PgPath'
    <3>1. /\ \A i \in 1..L : /\ pgStack'[i].node \in pgVisited'
                             /\ pgStack'[i].left \subseteq Nexts(pgStack'[i].node)
          /\ \A i, j \in 1..L : pgStack'[i].node = pgStack'[j].node => i = j
      BY <1>9, <2>1, <2>2
    <3>2. \A i \in 1..L : i + 1 <= L => pgStack'[i + 1].node \in Nexts(pgStack'[i].node)
      BY <2>1, <2>2, <2>4
    <3> QED
      BY <1>8, <1>9, <2>1, <2>3, <3>1, <3>2 DEF PgPath
  <2>6. (PgPath => ToSet(Path) = {pgStack[i].node : i \in 1..Len(pgStack)})'
    BY SearchTyped, PTL
  <2>7. ToSet(Path)' = {pgStack'[i].node : i \in 1..L}
    BY <2>3, <2>5, <2>6
  <2>8. ToSet(Path) = {pgStack[i].node : i \in 1..L}
    BY <1>2, SearchTyped DEF PgInv
  <2>9. ToSet(Path)' = ToSet(Path)
    BY <2>2, <2>7, <2>8
  <2> QED
    BY <1>9, <2>5, <2>9 DEF Done
<1>10. CASE n \in ToSet(Path) /\ pgCycles' = pgCycles \cup {CycleTo(n)}
              /\ pgStack' = taken /\ pgVisited' = pgVisited
  <2>1. pgCycles' # {}
    BY <1>10
  <2>2. /\ DOMAIN Path = 1..L
        /\ \A i \in 1..L : Path[i] = pgStack[i].node /\ Path[i] \in Unresolved
        /\ ToSet(Path) = {pgStack[i].node : i \in 1..L}
    BY <1>2, SearchTyped DEF PgInv
  <2>3. ASSUME NEW i \in 1..L, NEW k \in 1..i, Path[k] = n PROVE Path[i] \in CycleTo(n)
    BY <2>2, <2>3 DEF CycleTo
  <2>4. PICK k \in 1..L : Path[k] = n
    BY <1>10, <2>2
  <2>5. ASSUME NEW m \in CycleTo(n)
        PROVE  m \in Manifests /\ \E d \in CycleTo(n) : <<d, m>> \in pgEdges
    <3>1. PICK j \in 1..L : m = Path[j] /\ \E h \in 1..j : Path[h] = n
      BY <2>2 DEF CycleTo
    <3>2. PICK h \in 1..j : Path[h] = n
      BY <3>1
    <3>3. CASE h = j
      <4>1. Path[L] = last.node /\ k \in 1..L
        BY <1>2, <1>3, <2>2
      <4>2. <<last.node, m>> \in pgEdges
        BY <1>6, <3>1, <3>2, <3>3 DEF Nexts, Dependents
      <4>3. last.node \in CycleTo(n)
        BY <1>3, <2>3, <2>4, <4>1
      <4> QED
        BY <3>1, <2>2, <4>2, <4>3 DEF Unresolved
    <3>4. CASE h # j
      <4>1. j - 1 \in 1..L /\ h \in 1..j - 1 /\ (j - 1) + 1 = j
        BY <3>4
      <4>2. Path[j - 1] \in CycleTo(n)
        BY <2>3, <3>2, <4>1
      <4>3. pgStack[(j - 1) + 1].node \in Nexts(pgStack[j - 1].node)
        BY <1>2, <4>1 DEF PgInv, PgPath
      <4>4. <<Path[j - 1], m>> \in pgEdges
        BY <2>2, <3>1, <4>1, <4>3 DEF Nexts, Dependents
      <4> QED
        BY <2>2, <3>1, <4>2, <4>4 DEF Unresolved
    <3> QED
      BY <3>3, <3>4
  <2>6. CycleTo(n) # {}
    <3>1. k \in 1..k
      BY <2>4
    <3> QED
      BY <2>3, <2>4, <3>1
  <2>7. CycleSound(CycleTo(n))
    BY <2>5, <2>6 DEF CycleSound
  <2>8. \A c \in pgCycles' : CycleSound(c)'
    BY <1>8, <1>10, <2>7 DEF PgInv
  <2>9. PgPath' /\ PgAcyclic'
    BY <1>9, <1>10, <2>1 DEF PgAcyclic
  <2> QED
    BY <1>8, <2>8, <2>9 DEF PgInv
<1>11. CASE n \in pgVisited \ ToSet(Path)
              /\ pgStack' = taken /\ pgVisited' = pgVisited /\ pgCycles' = pgCycles
  <2>1. n \in Done
    BY <1>11 DEF Done
  <2>2. \A c \in pgCycles' : CycleSound(c)'
    BY <1>8, <1>11 DEF PgInv
  <2>3. PgPath' /\ Done' = Done
    BY <1>9, <1>11
  <2>4. PgAcyclic'
    <3> SUFFICES ASSUME pgCycles = {}
                 PROVE  /\ \A k \in Done : Nexts(k) \subseteq Done
                        /\ \A i \in 1..L :
                             \A m \in Nexts(pgStack'[i].node) \ pgStack'[i].left :
                               m \in Done \/ (i + 1 <= L /\ m = pgStack'[i + 1].node)
                        /\ Done # {} => \E t \in Done : \A d \in Done : t \notin Nexts(d)
      BY <1>7, <1>8, <1>11, <2>3 DEF PgAcyclic
    <3>1. \A i \in 1..L : \A m \in Nexts(pgStack[i].node) \ pgStack[i].left :
            m \in Done \/ (i + 1 <= L /\ m = pgStack[i + 1].node)
      BY <1>2 DEF PgInv, PgAcyclic
    <3>2. ASSUME NEW i \in 1..L, NEW m \in Nexts(pgStack'[i].node) \ pgStack'[i].left
          PROVE  m \in Done \/ (i + 1 <= L /\ m = pgStack'[i + 1].node)
      <4>1. m = n \/ m \in Nexts(pgStack[i].node) \ pgStack[i].left
        BY <1>2, <1>7, <1>11, <3>2
      <4>2. i + 1 <= L => i + 1 \in 1..L
        OBVIOUS
      <4> QED
        BY <1>7, <1>11, <2>1, <3>1, <4>1, <4>2
    <3> QED
      BY <3>2 DEF PgInv, PgAcyclic
  <2> QED
    BY <1>8, <2>2, <2>3, <2>4 DEF PgInv
<1>12. CASE n \notin pgVisited /\ Visit(taken, n) /\ pgCycles' = pgCycles
  <2>1. n \in Unresolved \ pgVisited /\ UNCHANGED <<pgEdges, pgDegree, pgOrder, pgCycles>>
    BY <1>1, <1>6, <1>12
  <2>2. \A i \in 1..Len(pgStack) :
          /\ taken[i].node = pgStack[i].node /\ taken[i].left \subseteq pgStack[i].left
          /\ \A m \in pgStack[i].left \ taken[i].left : i = Len(pgStack) /\ m = n
    BY <1>2, <1>7
  <2>3. /\ Len(taken) = Len(pgStack) /\ taken \in Seq(Frames) /\ Visit(taken, n)
        /\ n \in Nexts(pgStack[Len(pgStack)].node)
    BY <1>2, <1>6, <1>7, <1>12
  <2>4. PgPath' /\ PgAcyclic'
    BY <2>1, <2>2, <2>3, VisitKeeps
  <2> QED
    BY <1>8, <1>12, <2>4 DEF PgInv
<1> QED
  BY <1>1, <1>10, <1>11, <1>12 DEF taken

\* The plugin done last depends on none that is done.
LEMMA ReturnKeeps ==
  ASSUME PgInv, Return
  PROVE  PgInv'
<1>1. /\ pgStack # <<>> /\ pgStack[Len(pgStack)].left = {} /\ Queue = {}
      /\ pgStack' = SubSeq(pgStack, 1, Len(pgStack) - 1)
      /\ UNCHANGED <<pgEdges, pgDegree, pgOrder, pgVisited, pgCycles>>
  BY DEF Return, Placed, Last
<1>2. PICK L \in Nat \ {0} : L = Len(pgStack)
  BY <1>1, EmptySeq DEF PgInv, PgPath
<1>3. \A i \in 1..L : pgStack[i] \in Frames
  BY <1>2, SearchTyped DEF PgInv
<1>4. /\ \A i \in 1..L - 1 : i \in 1..L
      /\ \A i \in 1..L : i = L \/ i \in 1..L - 1
      /\ L \in 1..L /\ L \notin 1..L - 1
  BY <1>2
<1>5. \A i \in 1..L - 1 : pgStack[i] \in Frames
  BY <1>3, <1>4
<1>6. pgStack' \in Seq(Frames) /\ Len(pgStack') = L - 1
  BY <1>1, <1>2, <1>5, SubSeqProperties
<1>7. \A i \in 1..L - 1 : pgStack'[i] = pgStack[i]
  BY <1>1, <1>2, <1>5, SubSeqProperties
<1>8. /\ PgPlacing' /\ Unresolved' = Unresolved /\ Queue' = {}
      /\ \A m : Nexts(m)' = Nexts(m)
      /\ \A c : CycleSound(c)' <=> CycleSound(c)
  BY <1>1, PlacedKept
<1> DEFINE last == pgStack[L].node
<1>9. PgPath'
  <2>1. /\ pgVisited \subseteq Unresolved
        /\ \A i \in 1..L : /\ pgStack[i].node \in pgVisited
                           /\ pgStack[i].left \subseteq Nexts(pgStack[i].node)
        /\ \A i, j \in 1..L : pgStack[i].node = pgStack[j].node => i = j
        /\ \A i \in 1..L : i + 1 <= L => pgStack[i + 1].node \in Nexts(pgStack[i].node)
    BY <1>2 DEF PgInv, PgPath
  <2>2. \A i \in 1..L - 1 : i + 1 <= L - 1 => i + 1 \in 1..L - 1 /\ i + 1 <= L
    BY <1>2
  <2>3. /\ \A i \in 1..L - 1 : /\ pgStack'[i].node \in pgVisited
                               /\ pgStack'[i].left \subseteq Nexts(pgStack'[i].node)
        /\ \A i, j \in 1..L - 1 : pgStack'[i].node = pgStack'[j].node => i = j
        /\ \A i \in 1..L - 1 :
             i + 1 <= L - 1 => pgStack'[i + 1].node \in Nexts(pgStack'[i].node)
    BY <1>4, <1>7, <2>1, <2>2
  <2> QED
    BY <1>1, <1>6, <1>8, <2>1, <2>3 DEF PgPath
<1>10. Done' = Done \cup {last} /\ last \notin Done
  <2>1. (PgPath => ToSet(Path) = {pgStack[i].node : i \in 1..Len(pgStack)})'
    BY SearchTyped, PTL
  <2>2. ToSet(Path)' = {pgStack'[i].node : i \in 1..L - 1}
    BY <1>6, <1>9, <2>1
  <2>3. ToSet(Path)' = {pgStack[i].node : i \in 1..L - 1}
    BY <1>7, <2>2
  <2>4. \A i \in 1..L - 1 : pgStack[i].node # last
    BY <1>2, <1>4 DEF PgInv, PgPath
  <2>5. last \in pgVisited
    BY <1>2, <1>4 DEF PgInv, PgPath
  <2>6. ToSet(Path) = {pgStack[i].node : i \in 1..L}
    BY <1>2, SearchTyped DEF PgInv
  <2>7. ToSet(Path) = ToSet(Path)' \cup {last} /\ last \notin ToSet(Path)'
    BY <1>4, <2>3, <2>4, <2>6
  <2> QED
    BY <1>1, <2>5, <2>7 DEF Done
<1>11. PgAcyclic'
  <2> SUFFICES ASSUME pgCycles = {}
               PROVE  /\ \A k \in Done' : Nexts(k) \subseteq Done'
                      /\ \A i \in 1..L - 1 :
                           \A m \in Nexts(pgStack'[i].node) \ pgStack'[i].left :
                             m \in Done' \/ (i + 1 <= L - 1 /\ m = pgStack'[i + 1].node)
                      /\ \E t \in Done' : \A d \in Done' : t \notin Nexts(d)
    BY <1>1, <1>6, <1>8 DEF PgAcyclic
  <2>1. /\ \A k \in Done : Nexts(k) \subseteq Done
        /\ \A i \in 1..L : \A m \in Nexts(pgStack[i].node) \ pgStack[i].left :
             m \in Done \/ (i + 1 <= L /\ m = pgStack[i + 1].node)
    BY <1>2 DEF PgInv, PgAcyclic
  <2>2. Nexts(last) \subseteq Done
    <3>1. pgStack[L].left = {} /\ ~(L + 1 <= L)
      BY <1>1, <1>2
    <3> QED
      BY <1>4, <2>1, <3>1
  <2>3. \A d \in Done' : last \notin Nexts(d)
    BY <1>10, <2>1, <2>2
  <2>4. ASSUME NEW i \in 1..L - 1, NEW m \in Nexts(pgStack'[i].node) \ pgStack'[i].left
        PROVE  m \in Done' \/ (i + 1 <= L - 1 /\ m = pgStack'[i + 1].node)
    <3>1. m \in Nexts(pgStack[i].node) \ pgStack[i].left
      BY <1>7, <2>4
    <3>2. m \in Done \/ (i + 1 <= L /\ m = pgStack[i + 1].node)
      BY <1>4, <2>1, <3>1
    <3>3. CASE m \in Done
      BY <1>10, <3>3
    <3>4. CASE i + 1 = L /\ m = pgStack[i + 1].node
      BY <1>10, <3>4
    <3>5. CASE i + 1 # L /\ i + 1 <= L /\ m = pgStack[i + 1].node
      <4>1. i + 1 \in 1..L - 1 /\ i + 1 <= L - 1
        BY <1>2, <3>5
      <4> QED
        BY <1>7, <3>5, <4>1
    <3> QED
      BY <3>2, <3>3, <3>4, <3>5
  <2> QED
    BY <1>10, <2>1, <2>2, <2>3, <2>4
<1> QED
  BY <1>1, <1>8, <1>9, <1>11 DEF PgInv

-----------------------------------------------------------------------------
LEMMA PgStarts == PgInit => PgInv
<1> SUFFICES ASSUME PgInit PROVE PgInv
  OBVIOUS
<1>1. pgEdges \subseteq Manifests \X Manifests
  <2>1. PICK k \in 0..PgMaxDependencies : pgEdges \in kSubset(k, Manifests \X Manifests)
    BY DEF PgInit
  <2> QED
    BY <2>1 DEF kSubset
<1>2. pgOrder = <<>> /\ pgStack = <<>> /\ pgVisited = {} /\ pgCycles = {}
  BY DEF PgInit
<1>3. ToSet(pgOrder) = {} /\ Len(pgOrder) = 0 /\ Len(pgStack) = 0
  BY <1>2 DEF ToSet
<1>4. \A m : WaitsFor(m) = {d \in Manifests : <<d, m>> \in pgEdges}
  BY <1>3 DEF WaitsFor
<1>5. PgPlacing
  <2>1. pgOrder \in Seq(Manifests) /\ \A j \in 1..Len(pgOrder) : FALSE
    BY <1>2, <1>3
  <2>2. DOMAIN pgDegree = Manifests
        /\ \A m \in Manifests : pgDegree[m] = Cardinality(WaitsFor(m))
    BY <1>4 DEF PgInit
  <2> QED
    BY <1>1, <2>1, <2>2 DEF PgPlacing
<1>6. Done = {} /\ pgStack \in Seq(Frames) /\ \A i \in 1..Len(pgStack) : FALSE
  BY <1>2, <1>3 DEF Done
<1>7. PgPath /\ PgAcyclic
  BY <1>2, <1>6 DEF PgPath, PgAcyclic
<1> QED
  BY <1>2, <1>5, <1>7 DEF PgInv

LEMMA PgKeeps == PgInv /\ [PgNext]_pgVars => PgInv'
<1> SUFFICES ASSUME PgInv, [PgNext]_pgVars PROVE PgInv'
  OBVIOUS
<1>1. CASE Place
  BY <1>1, PlaceKeeps
<1>2. CASE StartSearch
  BY <1>2, StartSearchKeeps
<1>3. CASE Follow
  BY <1>3, FollowKeeps
<1>4. CASE Return
  BY <1>4, ReturnKeeps
<1>5. CASE UNCHANGED pgVars
  <2>1. UNCHANGED <<pgEdges, pgDegree, pgOrder, pgStack, pgVisited, pgCycles>>
    BY <1>5 DEF pgVars
  <2>2. /\ PgPlacing' /\ Unresolved' = Unresolved /\ Queue' = Queue
        /\ \A n : Nexts(n)' = Nexts(n)
        /\ \A c : CycleSound(c)' <=> CycleSound(c)
    BY <2>1, PlacedKept
  <2>3. Done' = Done
    BY <2>1 DEF Done, Path
  <2>4. PgPath' /\ PgAcyclic'
    BY <2>1, <2>2, <2>3 DEF PgInv, PgPath, PgAcyclic
  <2> QED
    BY <2>1, <2>2, <2>4 DEF PgInv
<1> QED
  BY <1>1, <1>2, <1>3, <1>4, <1>5 DEF PgNext

\* Without a cycle the search has no plugin that is not done and waits for another.
LEMMA AllAreLoaded ==
  ASSUME PgInv, Validated, pgCycles = {}
  PROVE  Unresolved = {}
<1>1. Queue = {} /\ pgStack = <<>> /\ Unresolved \subseteq pgVisited
  BY DEF Validated, Placed
<1>2. Done = Unresolved
  <2>1. ToSet(Path) = {pgStack[i].node : i \in 1..Len(pgStack)} /\ Len(pgStack) = 0
    BY <1>1, SearchTyped DEF PgInv
  <2> QED
    BY <1>1, <2>1 DEF Done, PgInv, PgPath
<1> SUFFICES ASSUME Unresolved # {} PROVE FALSE
  OBVIOUS
<1>3. PICK t \in Done : \A d \in Done : t \notin Nexts(d)
  BY <1>2 DEF PgInv, PgAcyclic
<1>4. t \in Manifests /\ t \notin ToSet(pgOrder)
  BY <1>2 DEF Unresolved
<1>5. pgDegree[t] # 0
  BY <1>1, <1>4 DEF Queue
<1>6. WaitsFor(t) # {}
  BY <1>4, <1>5, WaitsFinite DEF PgInv, PgPlacing
<1>7. PICK d \in Manifests : <<d, t>> \in pgEdges /\ d \notin ToSet(pgOrder)
  BY <1>6 DEF WaitsFor
<1>8. d \in Unresolved /\ t \in Nexts(d)
  BY <1>2, <1>4, <1>7 DEF Unresolved, Nexts, Dependents
<1> QED
  BY <1>2, <1>3, <1>8

\* The plugin validator places a plugin after everything it depends on, finds a cycle
\* whenever something is left over, and reports no set of plugins as a cycle that has one
\* which could be loaded before the others, for any number of plugins and dependencies
\* (plugin_validator.py).
THEOREM LoadOrdersAreSafe == PgSpec => []LoadOrderIsSound
<1>1. PgInv => LoadOrderIsSound
  <2> SUFFICES ASSUME PgInv, Validated PROVE LoadOrderIsSound
    BY DEF LoadOrderIsSound
  <2>1. ASSUME NEW e \in pgEdges, e[2] \in ToSet(pgOrder)
        PROVE  \E i, j \in DOMAIN pgOrder : i < j /\ pgOrder[i] = e[1] /\ pgOrder[j] = e[2]
    <3>1. DOMAIN pgOrder = 1..Len(pgOrder)
      BY LenProperties DEF PgInv, PgPlacing
    <3>2. e = <<e[1], e[2]>>
      BY DEF PgInv, PgPlacing
    <3>3. PICK j \in 1..Len(pgOrder) : pgOrder[j] = e[2]
      BY <2>1, OrderIs DEF PgInv
    <3>4. PICK i \in 1..Len(pgOrder) : i < j /\ pgOrder[i] = e[1]
      BY <3>2, <3>3 DEF PgInv, PgPlacing
    <3> QED
      BY <3>1, <3>3, <3>4
  <2>2. ASSUME \A m \in Manifests : Valid(m) PROVE Unresolved = {}
    <3>1. pgCycles = {}
      BY <2>2 DEF Valid, PgInv, CycleSound
    <3> QED
      BY <3>1, AllAreLoaded
  <2>3. \A c \in pgCycles : \A m \in c : \E d \in c : <<d, m>> \in pgEdges
    BY DEF PgInv, CycleSound
  <2> QED
    BY <2>1, <2>2, <2>3 DEF LoadOrderIsSound
<1> QED
  BY <1>1, PgStarts, PgKeeps, PTL DEF PgSpec

-----------------------------------------------------------------------------
(***************************************************************************)
(* Plugins.                                                                *)
(***************************************************************************)
\* An entry of the registry or of the catalog, and the manifests it may hold.
Holds(entries, manifests) ==
  \A p \in DOMAIN entries :
    /\ entries[p] = [state |-> entries[p].state, declares |-> entries[p].declares]
    /\ <<p, entries[p].declares>> \in manifests

\* A manifest found valid is behind every entry, every write and every call; the monitor
\* has counted just what did not end by itself.
PlInv ==
  /\ Holds(plRegistry, plValidated)
  /\ Holds(plRows, plValidated \cup plReloaded)
  /\ \A w \in plWrites : w.kind = "record" => <<w.plugin, w.declares>> \in plValidated
  /\ \A call \in plHooks : <<call.plugin, call.declares>> \in plValidated
  /\ \A h \in plHanded : \E v \in plValidated : v[1] = h[1] /\ h[2] \subseteq v[2]
  /\ plEnded \in BOOLEAN
  /\ \E violations, timeouts \in BOOLEAN :
       /\ plMonitor = [violations |-> violations, timeouts |-> timeouts]
       /\ plEnded <=> ~violations /\ ~timeouts

LEMMA HoldsMore ==
  ASSUME NEW entries, NEW manifests, NEW more, Holds(entries, manifests), manifests \subseteq more
  PROVE  Holds(entries, more)
BY DEF Holds

LEMMA PutHolds ==
  ASSUME NEW entries, NEW manifests, Holds(entries, manifests),
         NEW p, NEW state, NEW declares, <<p, declares>> \in manifests
  PROVE  Holds(Put(entries, p, [state |-> state, declares |-> declares]), manifests)
<1> DEFINE new == Put(entries, p, [state |-> state, declares |-> declares])
<1>1. /\ DOMAIN new = DOMAIN entries \cup {p}
      /\ new[p] = [state |-> state, declares |-> declares]
      /\ \A q \in DOMAIN entries : q # p => new[q] = entries[q]
  BY DEF Put
<1> HIDE DEF new
<1>2. Holds(new, manifests)
  BY <1>1 DEF Holds
<1> QED
  BY <1>2 DEF new

LEMMA StateHolds ==
  ASSUME NEW entries, NEW manifests, Holds(entries, manifests), NEW p, NEW state
  PROVE  Holds([entries EXCEPT ![p].state = state], manifests)
<1> DEFINE new == [entries EXCEPT ![p].state = state]
<1>1. DOMAIN new = DOMAIN entries
  OBVIOUS
<1>2. ASSUME NEW q \in DOMAIN entries
      PROVE  new[q] \in {entries[q], [state |-> state, declares |-> entries[q].declares]}
  <2>1. new[q] = IF q = p THEN [entries[q] EXCEPT !.state = state] ELSE entries[q]
    OBVIOUS
  <2>2. entries[q] = [state |-> entries[q].state, declares |-> entries[q].declares]
    BY DEF Holds
  <2>3. \A a, b : [[state |-> a, declares |-> b] EXCEPT !.state = state]
                    = [state |-> state, declares |-> b]
    OBVIOUS
  <2>4. [entries[q] EXCEPT !.state = state] = [state |-> state, declares |-> entries[q].declares]
    BY <2>2, <2>3, Zenon
  <2> QED
    BY <2>1, <2>4
<1> HIDE DEF new
<1>3. ASSUME NEW q \in DOMAIN entries
      PROVE  /\ new[q] = [state |-> new[q].state, declares |-> new[q].declares]
             /\ <<q, new[q].declares>> \in manifests
  <2>1. /\ entries[q] = [state |-> entries[q].state, declares |-> entries[q].declares]
        /\ <<q, entries[q].declares>> \in manifests
    BY DEF Holds
  <2>2. CASE new[q] = entries[q]
    BY <2>1, <2>2
  <2>3. CASE new[q] = [state |-> state, declares |-> entries[q].declares]
    <3>1. new[q].state = state /\ new[q].declares = entries[q].declares
      BY <2>3
    <3> QED
      BY <2>1, <2>3, <3>1
  <2> QED
    BY <1>2, <2>2, <2>3
<1>4. Holds(new, manifests)
  BY <1>1, <1>3 DEF Holds
<1> QED
  BY <1>4 DEF new

LEMMA DropHolds ==
  ASSUME NEW entries, NEW manifests, Holds(entries, manifests), NEW p
  PROVE  Holds(Drop(entries, p), manifests)
<1> DEFINE new == Drop(entries, p)
<1>1. DOMAIN new = DOMAIN entries \ {p} /\ \A q \in DOMAIN new : new[q] = entries[q]
  BY DEF Drop
<1> HIDE DEF new
<1>2. Holds(new, manifests)
  BY <1>1 DEF Holds
<1> QED
  BY <1>2 DEF new

LEMMA RecordedHolds ==
  ASSUME NEW manifests, Holds(plRows, manifests), NEW p, NEW kind, NEW state, NEW declares,
         kind = "record" => <<p, declares>> \in manifests
  PROVE  Holds(Recorded(p, kind, state, declares), manifests)
<1>1. CASE kind = "record"
  BY <1>1, PutHolds DEF Recorded
<1>2. CASE kind # "record"
  BY <1>2, StateHolds DEF Recorded
<1> QED
  BY <1>1, <1>2

\* Steps that neither dispatch nor take back a valid manifest.
LEMMA CallsKept ==
  ASSUME PlInv, UNCHANGED plCalls, plValidated \subseteq plValidated',
         Holds(plRegistry, plValidated)', Holds(plRows, plValidated \cup plReloaded)',
         \A w \in plWrites' : w.kind = "record" => <<w.plugin, w.declares>> \in plValidated'
  PROVE  PlInv'
<1>1. UNCHANGED <<plHooks, plHanded, plMonitor, plEnded>>
  BY DEF plCalls
<1>2. /\ \A call \in plHooks : <<call.plugin, call.declares>> \in plValidated'
      /\ \A h \in plHanded : \E v \in plValidated' : v[1] = h[1] /\ h[2] \subseteq v[2]
  BY DEF PlInv
<1>3. /\ plEnded \in BOOLEAN
      /\ \E violations, timeouts \in BOOLEAN :
           /\ plMonitor = [violations |-> violations, timeouts |-> timeouts]
           /\ plEnded <=> ~violations /\ ~timeouts
  BY Zenon DEF PlInv
<1> QED
  BY <1>1, <1>2, <1>3 DEF PlInv

LEMMA InstallKeeps == ASSUME PlInv, NEW p, Install(p) PROVE PlInv'
<1> DEFINE declares == plDisk[p].declares
<1>1. /\ UNCHANGED plCalls /\ UNCHANGED <<plRows, plReloaded>>
      /\ plValidated' = plValidated \cup {<<p, declares>>}
      /\ \/ UNCHANGED <<plRegistry, plWrites>>
         \/ /\ plRegistry' = Put(plRegistry, p, [state |-> "installed", declares |-> declares])
            /\ plWrites' = plWrites \cup {[plugin |-> p, kind |-> "record",
                                           state |-> "installed", declares |-> declares]}
  BY DEF Install, Request, Recording
<1> HIDE DEF declares
<1>2. /\ Holds(plRegistry, plValidated') /\ Holds(plRows, plValidated' \cup plReloaded)
      /\ <<p, declares>> \in plValidated'
  BY <1>1, HoldsMore DEF PlInv
<1>3. Holds(plRegistry', plValidated')
  <2> DEFINE new == Put(plRegistry, p, [state |-> "installed", declares |-> declares])
  <2>1. Holds(new, plValidated')
    BY <1>2, PutHolds
  <2> HIDE DEF new
  <2>2. plRegistry' = plRegistry \/ plRegistry' = new
    BY <1>1 DEF new
  <2> QED
    BY <1>2, <2>1, <2>2
<1>4. \A w \in plWrites' : w.kind = "record" => <<w.plugin, w.declares>> \in plValidated'
  BY <1>1 DEF PlInv
<1> QED
  BY <1>1, <1>2, <1>3, <1>4, CallsKept

LEMMA ToggleKeeps == ASSUME PlInv, NEW p, NEW state, Toggle(p, state) PROVE PlInv'
<1>1. /\ UNCHANGED plCalls /\ UNCHANGED <<plRows, plValidated, plReloaded>>
      /\ plRegistry' = [plRegistry EXCEPT ![p].state = state]
      /\ plWrites' = plWrites \cup {[plugin |-> p, kind |-> "state", state |-> state,
                                     declares |-> {}]}
  BY DEF Toggle, Request, Recording, plHistory
<1>2. Holds(plRegistry', plValidated)
  BY <1>1, StateHolds DEF PlInv
<1>3. \A w \in plWrites' : w.kind = "record" => <<w.plugin, w.declares>> \in plValidated'
  BY <1>1 DEF PlInv
<1> QED
  BY <1>1, <1>2, <1>3, CallsKept DEF PlInv

LEMMA RegistryKeeps == ASSUME PlInv, NEW p, Reload(p) \/ RemovePlugin(p) PROVE PlInv'
<1>1. /\ UNCHANGED plCalls /\ UNCHANGED <<plRows, plValidated, plReloaded, plWrites>>
      /\ \/ \E state : plRegistry' = [plRegistry EXCEPT ![p].state = state]
         \/ plRegistry' = Drop(plRegistry, p)
  BY DEF Reload, RemovePlugin, Request, plHistory
<1>2. Holds(plRegistry', plValidated)
  <2>1. CASE plRegistry' = Drop(plRegistry, p)
    BY <2>1, DropHolds, Zenon DEF PlInv
  <2>2. CASE \E state : plRegistry' = [plRegistry EXCEPT ![p].state = state]
    <3>1. PICK state : plRegistry' = [plRegistry EXCEPT ![p].state = state]
      BY <2>2
    <3> DEFINE new == [plRegistry EXCEPT ![p].state = state]
    <3>2. Holds(new, plValidated)
      BY StateHolds DEF PlInv
    <3>3. plRegistry' = new
      BY <3>1
    <3> HIDE DEF new
    <3> QED
      BY <3>2, <3>3
  <2> QED
    BY <1>1, <2>1, <2>2
<1> QED
  BY <1>1, <1>2, CallsKept DEF PlInv

LEMMA PersistKeeps == ASSUME PlInv, NEW w \in plWrites, Persist(w) PROVE PlInv'
<1>1. /\ UNCHANGED plCalls /\ UNCHANGED <<plRegistry, plValidated, plReloaded>>
      /\ plWrites' = plWrites \ {w}
      /\ plRows' \in {plRows, Recorded(w.plugin, w.kind, w.state, w.declares)}
  BY DEF Persist, plHistory
<1>2. Holds(plRows', plValidated \cup plReloaded)
  <2> DEFINE new == Recorded(w.plugin, w.kind, w.state, w.declares)
  <2>1. w.kind = "record" => <<w.plugin, w.declares>> \in plValidated \cup plReloaded
    BY DEF PlInv
  <2>2. Holds(new, plValidated \cup plReloaded)
    BY <2>1, RecordedHolds DEF PlInv
  <2>3. plRows' = plRows \/ plRows' = new
    BY <1>1
  <2> HIDE DEF new
  <2> QED
    BY <2>2, <2>3 DEF PlInv
<1> QED
  BY <1>1, <1>2, CallsKept DEF PlInv

LEMMA CommandKeeps ==
  ASSUME PlInv, NEW p, NEW state, CommandInstall(p) \/ CommandSet(p, state) \/ CommandReload(p)
  PROVE  PlInv'
<1>1. UNCHANGED plCalls /\ UNCHANGED <<plRegistry, plWrites>>
  BY DEF CommandInstall, CommandSet, CommandReload, Request
<1>2. plValidated \subseteq plValidated' /\ plReloaded \subseteq plReloaded'
  BY DEF CommandInstall, CommandSet, CommandReload, plHistory
<1>3. \E q, kind, s, d :
        /\ plRows' = Recorded(q, kind, s, d)
        /\ kind = "record" => <<q, d>> \in plValidated' \cup plReloaded'
  BY DEF CommandInstall, CommandSet, CommandReload
<1>4. Holds(plRegistry, plValidated') /\ Holds(plRows, plValidated' \cup plReloaded')
  <2>1. plValidated \cup plReloaded \subseteq plValidated' \cup plReloaded'
    BY <1>2
  <2> QED
    BY <1>2, <2>1, HoldsMore DEF PlInv
<1>5. Holds(plRows', plValidated' \cup plReloaded')
  BY <1>3, <1>4, RecordedHolds
<1>6. \A w \in plWrites : w.kind = "record" => <<w.plugin, w.declares>> \in plValidated'
  BY <1>2 DEF PlInv
<1> QED
  BY <1>1, <1>2, <1>4, <1>5, <1>6, CallsKept

\* A call is handed what a valid manifest of its plugin declares, or less.
LEMMA DispatchKeeps == ASSUME PlInv, BeginDispatch PROVE PlInv'
<1>1. PICK modes :
        plHooks' = {[plugin |-> p, mode |-> modes[p], declares |-> plRegistry[p].declares] :
                      p \in {q \in PluginIds : Enabled(q)}}
  BY DEF BeginDispatch
<1>2. UNCHANGED <<plRegistry, plRows, plWrites, plHanded, plMonitor, plEnded, plValidated,
                  plReloaded>>
  BY DEF BeginDispatch, plHistory
<1>3. \A p : Enabled(p) => <<p, plRegistry[p].declares>> \in plValidated
  BY DEF Enabled, PlInv, Holds
<1>4. \A call \in plHooks' : <<call.plugin, call.declares>> \in plValidated
  BY <1>1, <1>3
<1>5. /\ plEnded \in BOOLEAN
      /\ \E violations, timeouts \in BOOLEAN :
           /\ plMonitor = [violations |-> violations, timeouts |-> timeouts]
           /\ plEnded <=> ~violations /\ ~timeouts
  BY Zenon DEF PlInv
<1> QED
  BY <1>2, <1>4, <1>5 DEF PlInv

LEMMA RunHookKeeps == ASSUME PlInv, NEW call \in plHooks, RunHook(call) PROVE PlInv'
<1>1. /\ UNCHANGED <<plRegistry, plRows, plWrites, plValidated, plReloaded>>
      /\ plHooks' = plHooks \ {call}
      /\ plHanded' = plHanded \cup {<<call.plugin, Handed(call)>>}
  BY DEF RunHook, plHistory
<1>2. Handed(call) \subseteq call.declares
  BY DEF Handed
<1>3. \A h \in plHanded' : \E v \in plValidated : v[1] = h[1] /\ h[2] \subseteq v[2]
  <2> DEFINE v == <<call.plugin, call.declares>>
             new == <<call.plugin, Handed(call)>>
  <2>1. v \in plValidated /\ v[1] = new[1] /\ new[2] \subseteq v[2]
    BY <1>2 DEF PlInv
  <2> QED
    BY <1>1, <2>1 DEF PlInv
<1>4. PICK violations \in BOOLEAN, timeouts \in BOOLEAN :
        /\ plMonitor = [violations |-> violations, timeouts |-> timeouts]
        /\ plEnded <=> ~violations /\ ~timeouts
  BY DEF PlInv
<1>5. /\ plEnded' \in BOOLEAN
      /\ \E v, t \in BOOLEAN :
           plMonitor' = [violations |-> v, timeouts |-> t] /\ (plEnded' <=> ~v /\ ~t)
  <2>1. CASE UNCHANGED <<plMonitor, plEnded>>
    BY <1>4, <2>1 DEF PlInv
  <2>2. CASE \E end \in ChildEnds :
               /\ plMonitor' = [violations |-> plMonitor.violations \/ Violates(end),
                                timeouts |-> plMonitor.timeouts \/ end = "timed out"]
               /\ plEnded' = (plEnded /\ end \in {"failed", "returned"})
    <3>1. PICK end \in ChildEnds :
            /\ plMonitor' = [violations |-> plMonitor.violations \/ Violates(end),
                             timeouts |-> plMonitor.timeouts \/ end = "timed out"]
            /\ plEnded' = (plEnded /\ end \in {"failed", "returned"})
      BY <2>2
    <3> DEFINE v == violations \/ Violates(end)
               t == timeouts \/ end = "timed out"
    <3>2. plMonitor.violations = violations /\ plMonitor.timeouts = timeouts
      BY <1>4
    <3>3. plMonitor' = [violations |-> v, timeouts |-> t]
      BY <3>1, <3>2
    <3>4. /\ end = "timed out" => Violates(end)
          /\ end \in {"failed", "returned"} <=> ~Violates(end)
      BY <3>1 DEF Violates, ChildEnds
    <3>5. plEnded' <=> plEnded /\ end \in {"failed", "returned"}
      BY <3>1
    <3>6. plEnded' <=> ~v /\ ~t
      BY <1>4, <3>4, <3>5
    <3>7. plEnded' \in BOOLEAN /\ v \in BOOLEAN /\ t \in BOOLEAN
      BY <3>1
    <3> HIDE DEF v, t
    <3> QED
      BY <3>3, <3>6, <3>7
  <2> QED
    BY <2>1, <2>2 DEF RunHook
<1> QED
  BY <1>1, <1>3, <1>5 DEF PlInv

\* No plugin's code is handed more than a valid manifest of that plugin declares, whatever
\* the bundles on disk become, and the monitor tells of exactly the processes that did not
\* end by themselves, for any number of plugins, requests and changes (plugin_sdk).
THEOREM PluginsAreTrusted == PlSpec => []PluginsAreContained
<1>1. PlInit => PlInv
  <2> SUFFICES ASSUME PlInit PROVE PlInv
    OBVIOUS
  <2>1. Holds(plRegistry, plValidated) /\ Holds(plRows, plValidated \cup plReloaded)
    BY DEF PlInit, Holds
  <2> QED
    BY <2>1 DEF PlInit, PlInv
<1>2. PlInv /\ [PlNext]_plVars => PlInv'
  <2> SUFFICES ASSUME PlInv, [PlNext]_plVars PROVE PlInv'
    OBVIOUS
  <2>1. ASSUME NEW p \in PluginIds, ChangeBundle(p) PROVE PlInv'
    <3>1. UNCHANGED plCalls /\ UNCHANGED <<plRegistry, plRows, plWrites, plValidated, plReloaded>>
      BY <2>1 DEF ChangeBundle, plHistory
    <3> QED
      BY <3>1, CallsKept DEF PlInv
  <2>2. ASSUME NEW p \in PluginIds, NEW state \in {"enabled", "disabled"},
               \/ Install(p) \/ Reload(p) \/ RemovePlugin(p) \/ CommandInstall(p)
               \/ CommandReload(p) \/ Toggle(p, state) \/ CommandSet(p, state)
        PROVE  PlInv'
    BY <2>2, InstallKeeps, RegistryKeeps, CommandKeeps, ToggleKeeps
  <2>3. CASE PlRestart
    <3>1. UNCHANGED plCalls /\ UNCHANGED <<plRows, plValidated, plReloaded>>
          /\ plRegistry' = <<>> /\ plWrites' = {}
      BY <2>3 DEF PlRestart, Request, plHistory
    <3>2. Holds(plRegistry', plValidated)
      BY <3>1 DEF Holds
    <3> QED
      BY <3>1, <3>2, CallsKept DEF PlInv
  <2>4. CASE BeginDispatch
    BY <2>4, DispatchKeeps
  <2>5. CASE \E call \in plHooks : RunHook(call) \/ SpawnFails(call)
    <3>1. ASSUME NEW call \in plHooks, SpawnFails(call) PROVE PlInv'
      <4>1. /\ UNCHANGED <<plRegistry, plRows, plWrites, plHanded, plMonitor, plEnded,
                           plValidated, plReloaded>>
            /\ plHooks' = {}
        BY <3>1 DEF SpawnFails, plHistory
      <4> QED
        BY <4>1 DEF PlInv
    <3> QED
      BY <2>5, <3>1, RunHookKeeps
  <2>6. CASE \E w \in plWrites : Persist(w)
    BY <2>6, PersistKeeps
  <2>7. CASE UNCHANGED plVars
    <3>1. UNCHANGED plCalls /\ UNCHANGED <<plRegistry, plRows, plWrites, plValidated, plReloaded>>
      BY <2>7 DEF plVars, plCalls, plHistory
    <3> QED
      BY <3>1, CallsKept DEF PlInv
  <2>8. "enabled" \in {"enabled", "disabled"}
    OBVIOUS
  <2> QED
    BY <2>1, <2>2, <2>3, <2>4, <2>5, <2>6, <2>7, <2>8 DEF PlNext
<1>3. PlInv => PluginsAreContained
  <2> SUFFICES ASSUME PlInv PROVE PluginsAreContained
    OBVIOUS
  <2>1. HandedWasValidated
    BY DEF PlInv, Holds, HandedWasValidated
  <2>2. SandboxHealthy <=> plEnded
    <3>1. PICK violations \in BOOLEAN, timeouts \in BOOLEAN :
            /\ plMonitor = [violations |-> violations, timeouts |-> timeouts]
            /\ plEnded <=> ~violations /\ ~timeouts
      BY DEF PlInv
    <3> QED
      BY <3>1 DEF SandboxHealthy
  <2> QED
    BY <2>1, <2>2 DEF PluginsAreContained
<1> QED
  BY <1>1, <1>2, <1>3, PTL DEF PlSpec

-----------------------------------------------------------------------------
(***************************************************************************)
(* The readiness report: the hierarchy of the agents.                      *)
(***************************************************************************)
FindingKinds == {"root_has_parent", "broken_parent_chain", "orphan_root", "cyclic_parent_chain"}

RdTypes ==
  /\ rdParent \in Parents /\ rdLeft \subseteq Agents /\ rdHops \in Nat
  /\ rdFindings \subseteq Agents \X FindingKinds
  /\ rdAt = <<>> \/ (rdAt = <<rdAt[1], rdAt[2]>> /\ rdAt[1] \in Agents /\ rdAt[2] \in Agents)

\* In the hierarchy of these parents chain leads from a up n hops.
Leads(parent, chain, a, n) ==
  /\ chain \in [0 .. n -> Agents] /\ chain[0] = a
  /\ \A i \in 1 .. n : chain[i] = parent[chain[i - 1]]

BlamedIn(findings, a) == \E f \in findings : f[1] = a
Blamed(a) == BlamedIn(rdFindings, a)

\* The agents that are looked at already, the one whose chain is climbed left out.
Climbed == Agents \ (rdLeft \cup (IF rdAt = <<>> THEN {} ELSE {rdAt[1]}))

\* Those looked at are blamed for their own chain, the others not yet; the climb is rdHops
\* up from where it started, and on every chain that would end.
RdHierarchy ==
  /\ rdPc = "health" => rdAt = <<>> /\ rdFindings = {}
  /\ rdPc = "registry" =>
       /\ \A a \in Agents : <<a, "orphan_root">> \notin rdFindings
       /\ \A a \in Climbed \ {Root} : Blamed(a) <=> ~ChainEnds(a)
       /\ Root \in Climbed => (Blamed(Root) <=> rdParent[Root] # NoParent)
       /\ \A a \in Agents \ Climbed : ~Blamed(a)
       /\ rdAt # <<>> =>
            /\ rdAt[1] # Root /\ rdAt[1] \notin rdLeft /\ rdHops <= RdMaxHops
            /\ \E chain : Leads(rdParent, chain, rdAt[1], rdHops) /\ chain[rdHops] = rdAt[2]
            /\ \A n \in 0 .. RdMaxHops - 1 : \A chain :
                 Leads(rdParent, chain, rdAt[1], n) /\ rdParent[chain[n]] = NoParent =>
                   rdHops <= n /\ chain[rdHops] = rdAt[2]

-----------------------------------------------------------------------------
LEMMA AgentsFinite ==
  /\ IsFiniteSet(Agents) /\ RdMaxHops \in Nat /\ Root \in Agents
  /\ NoParent \notin Agents /\ Unknown \notin Agents /\ NoParent # Unknown
<1>1. IsFiniteSet(RdAgents \cup {Root})
  BY ReadinessAssumption, FS_AddElement
<1>2. NoParent \notin Agents /\ Unknown \notin Agents /\ NoParent # Unknown
  BY ReadinessAssumption DEF Agents, NoParent, Unknown, Root
<1> QED
  BY <1>1, <1>2, ReadinessAssumption DEF Agents

\* Which chains end does not change while the hierarchy does not.
LEMMA ChainsStay ==
  ASSUME rdParent' = rdParent
  PROVE  \A a : ChainEnds(a)' <=> ChainEnds(a)
BY DEF ChainEnds, Agents

LEMMA OneMoreIsBlamed ==
  ASSUME NEW findings, NEW x, NEW kind, NEW a
  PROVE  BlamedIn(findings \cup {<<x, kind>>}, a) <=> BlamedIn(findings, a) \/ a = x
<1>1. <<x, kind>>[1] = x
  OBVIOUS
<1>2. BlamedIn(findings, a) => BlamedIn(findings \cup {<<x, kind>>}, a)
  BY DEF BlamedIn
<1>3. a = x => BlamedIn(findings \cup {<<x, kind>>}, a)
  BY <1>1 DEF BlamedIn
<1>4. BlamedIn(findings \cup {<<x, kind>>}, a) => BlamedIn(findings, a) \/ a = x
  BY <1>1 DEF BlamedIn
<1> QED
  BY <1>2, <1>3, <1>4

LEMMA EndsByLead ==
  ASSUME NEW a
  PROVE  ChainEnds(a) <=> \E n \in 0 .. RdMaxHops - 1 : \E chain :
                            Leads(rdParent, chain, a, n) /\ rdParent[chain[n]] = NoParent
BY DEF ChainEnds, Leads

-----------------------------------------------------------------------------
LEMMA HierarchyStarts == RdInit => RdTypes /\ RdHierarchy
<1>1. ASSUME RdInit PROVE RdTypes /\ RdHierarchy
  <2>1. RdTypes
    BY <1>1 DEF RdInit, RdTypes, Parents
  <2>2. rdPc # "registry" /\ rdAt = <<>> /\ rdFindings = {}
    BY <1>1 DEF RdInit
  <2> QED
    BY <2>1, <2>2 DEF RdHierarchy
<1> QED
  BY <1>1

\* The check of the agents begins with any hierarchy, and nothing climbed.
LEMMA HealthKeeps ==
  ASSUME RdTypes, RdHierarchy, CheckHealth
  PROVE  RdTypes' /\ RdHierarchy'
<1>1. /\ rdAt' = <<>> /\ rdFindings' = {} /\ rdHops' \in Nat /\ rdPc' = "registry"
      /\ rdParent' \in Parents /\ rdLeft' = Agents
  BY DEF CheckHealth, RdTypes, RdHierarchy
<1>2. RdTypes'
  BY <1>1 DEF RdTypes, Agents
<1>3. Climbed' = {} /\ \A a : ~Blamed(a)'
  BY <1>1 DEF Climbed, Blamed, BlamedIn, Agents
<1> QED
  BY <1>1, <1>2, <1>3 DEF RdHierarchy

LEMMA RootKeeps ==
  ASSUME RdTypes, RdHierarchy, CheckRoot
  PROVE  RdTypes' /\ RdHierarchy'
<1>1. /\ rdAt = <<>> /\ rdAt' = <<>> /\ rdPc = "registry" /\ rdPc' = "registry"
      /\ UNCHANGED <<rdParent, rdHops>> /\ rdLeft' = rdLeft \ {Root} /\ Root \in rdLeft
      /\ rdFindings' = rdFindings \cup
           (IF rdParent[Root] # NoParent THEN {<<Root, "root_has_parent">>} ELSE {})
  BY DEF CheckRoot
<1>2. RdTypes'
  BY <1>1, AgentsFinite DEF RdTypes, FindingKinds, Agents
<1>3. Climbed' = Climbed \cup {Root} /\ Root \notin Climbed /\ Root \in Agents
  BY <1>1, AgentsFinite DEF Climbed, Agents
<1>4. ~Blamed(Root)
  BY <1>1, <1>3 DEF RdHierarchy
<1>5. \A a : Blamed(a)' <=> Blamed(a) \/ (a = Root /\ rdParent[Root] # NoParent)
  <2>1. CASE rdParent[Root] # NoParent
    BY <1>1, <2>1, OneMoreIsBlamed DEF Blamed
  <2>2. CASE rdParent[Root] = NoParent
    BY <1>1, <2>2 DEF Blamed
  <2> QED
    BY <2>1, <2>2
<1>6. \A a \in Agents : <<a, "orphan_root">> \notin rdFindings'
  BY <1>1 DEF RdHierarchy
<1>7. \A a : ChainEnds(a)' <=> ChainEnds(a)
  BY <1>1, ChainsStay
<1> QED
  BY <1>1, <1>2, <1>3, <1>4, <1>5, <1>6, <1>7 DEF RdHierarchy, Agents

LEMMA StartKeeps ==
  ASSUME RdTypes, RdHierarchy, StartClimb
  PROVE  RdTypes' /\ RdHierarchy'
<1> DEFINE a == CHOOSE a \in rdLeft \ {Root} : TRUE
<1>1. a \in rdLeft \ {Root}
  BY DEF StartClimb
<1>2. /\ rdAt = <<>> /\ rdAt' = <<a, a>> /\ rdPc = "registry" /\ rdPc' = "registry"
      /\ UNCHANGED <<rdParent, rdFindings>> /\ rdLeft' = rdLeft \ {a} /\ rdHops' = 0
  BY DEF StartClimb
<1> HIDE DEF a
<1>3. a \in Agents /\ a # Root
  BY <1>1 DEF RdTypes
<1>4. RdTypes'
  BY <1>2, <1>3 DEF RdTypes, Agents
<1>5. Climbed' = Climbed
  BY <1>1, <1>2 DEF Climbed, Agents
<1>6. \A b : (Blamed(b)' <=> Blamed(b)) /\ (ChainEnds(b)' <=> ChainEnds(b))
  BY <1>2, ChainsStay DEF Blamed, BlamedIn
<1>7. \E chain : Leads(rdParent, chain, a, 0) /\ chain[0] = a
  <2> DEFINE chain == [i \in 0 .. 0 |-> a]
  <2>1. Leads(rdParent, chain, a, 0) /\ chain[0] = a
    BY <1>3 DEF Leads
  <2> QED
    BY <2>1
<1>8. \A n \in 0 .. RdMaxHops - 1 : \A chain : Leads(rdParent, chain, a, n) => 0 <= n /\ chain[0] = a
  BY AgentsFinite DEF Leads
<1>9. rdParent' = rdParent /\ rdAt'[1] = a /\ rdAt'[2] = a
  BY <1>2
<1>10. \A n \in 0 .. RdMaxHops - 1 : \A chain :
         Leads(rdParent', chain, rdAt'[1], n) => rdHops' <= n /\ chain[rdHops'] = rdAt'[2]
  BY <1>2, <1>8, <1>9
<1>11. \E chain : Leads(rdParent', chain, rdAt'[1], rdHops') /\ chain[rdHops'] = rdAt'[2]
  BY <1>2, <1>7, <1>9
<1>12. rdAt'[1] # Root /\ rdAt'[1] \notin rdLeft' /\ rdHops' <= RdMaxHops
  BY <1>2, <1>3, <1>9, AgentsFinite
<1> QED
  BY <1>2, <1>4, <1>5, <1>6, <1>10, <1>11, <1>12 DEF RdHierarchy, Agents

LEMMA ClimbKeeps ==
  ASSUME RdTypes, RdHierarchy, Climb
  PROVE  RdTypes' /\ RdHierarchy'
<1> DEFINE start == rdAt[1]
           a == rdAt[2]
           up == rdParent[a]
<1>1. /\ rdAt # <<>> /\ rdPc = "registry" /\ rdPc' = "registry" /\ up # NoParent
      /\ UNCHANGED <<rdParent, rdLeft>> /\ rdHops < RdMaxHops
      /\ \/ /\ up = Unknown /\ rdAt' = <<>> /\ UNCHANGED rdHops
            /\ rdFindings' = rdFindings \cup {<<start, "broken_parent_chain">>}
         \/ /\ up # Unknown /\ rdAt' = <<start, up>> /\ rdHops' = rdHops + 1
            /\ UNCHANGED rdFindings
  BY DEF Climb, OrphanRoot
<1>2. start \in Agents /\ a \in Agents /\ (up \in Agents \/ up = Unknown)
  BY <1>1 DEF RdTypes, Parents
<1>3. rdHops \in Nat /\ RdMaxHops \in Nat
  BY AgentsFinite DEF RdTypes
<1>4. /\ start # Root /\ start \notin rdLeft
      /\ \E chain : Leads(rdParent, chain, start, rdHops) /\ chain[rdHops] = a
      /\ \A n \in 0 .. RdMaxHops - 1 : \A chain :
           Leads(rdParent, chain, start, n) /\ rdParent[chain[n]] = NoParent =>
             rdHops <= n /\ chain[rdHops] = a
  BY <1>1 DEF RdHierarchy
<1>5. start \notin Climbed /\ ~Blamed(start)
  BY <1>1, <1>2 DEF RdHierarchy, Climbed
<1> DEFINE Ends(chain, n) == Leads(rdParent, chain, start, n) /\ rdParent[chain[n]] = NoParent
<1>6. ASSUME NEW n \in 0 .. RdMaxHops - 1, NEW chain, Ends(chain, n)
      PROVE  rdHops + 1 <= n /\ chain[rdHops + 1] = up /\ up \in Agents
  <2>1. rdHops <= n /\ chain[rdHops] = a
    BY <1>4, <1>6
  <2>2. rdHops # n
    BY <1>1, <1>6, <2>1
  <2>3. n \in Nat /\ rdHops + 1 \in 1 .. n /\ rdHops + 1 \in 0 .. n /\ (rdHops + 1) - 1 = rdHops
    BY <1>3, <2>1, <2>2
  <2>4. chain[rdHops + 1] = rdParent[chain[rdHops]] /\ chain[rdHops + 1] \in Agents
    BY <1>6, <2>3 DEF Leads
  <2> QED
    BY <2>1, <2>3, <2>4
<1>7. rdParent' = rdParent /\ \A b : ChainEnds(b)' <=> ChainEnds(b)
  BY <1>1, ChainsStay
<1> HIDE DEF start, a, up
<1>8. CASE up = Unknown
  <2>1. /\ rdAt' = <<>> /\ rdHops' = rdHops
        /\ rdFindings' = rdFindings \cup {<<start, "broken_parent_chain">>}
    BY <1>1, <1>8
  <2>2. RdTypes'
    BY <1>1, <1>2, <2>1 DEF RdTypes, FindingKinds, Agents
  <2>3. ~ChainEnds(start)
    <3>1. \A n \in 0 .. RdMaxHops - 1 : \A chain : ~Ends(chain, n)
      BY <1>6, <1>8, AgentsFinite
    <3> QED
      BY <3>1, EndsByLead DEF Ends
  <2>4. Climbed' = Climbed \cup {start}
    BY <1>1, <1>2, <1>4, <2>1 DEF Climbed, Agents, start
  <2>5. \A b : Blamed(b)' <=> Blamed(b) \/ b = start
    BY <2>1, OneMoreIsBlamed DEF Blamed
  <2>6. \A b \in Agents : <<b, "orphan_root">> \notin rdFindings'
    BY <1>1, <2>1 DEF RdHierarchy
  <2> QED
    BY <1>1, <1>4, <1>5, <1>7, <2>1, <2>2, <2>3, <2>4, <2>5, <2>6 DEF RdHierarchy, Agents
<1>9. CASE up # Unknown
  <2>1. /\ rdAt' = <<start, up>> /\ rdHops' = rdHops + 1 /\ rdFindings' = rdFindings
        /\ up \in Agents
    BY <1>1, <1>2, <1>9
  <2>2. RdTypes'
    BY <1>1, <1>2, <1>3, <2>1 DEF RdTypes, Agents
  <2>3. Climbed' = Climbed
    BY <1>1, <2>1 DEF Climbed, Agents, start
  <2>4. \A b : Blamed(b)' <=> Blamed(b)
    BY <2>1 DEF Blamed, BlamedIn
  <2>5. \E chain : Leads(rdParent, chain, start, rdHops + 1) /\ chain[rdHops + 1] = up
    <3>1. PICK chain : Leads(rdParent, chain, start, rdHops) /\ chain[rdHops] = a
      BY <1>4
    <3> DEFINE longer == [i \in 0 .. rdHops + 1 |-> IF i = rdHops + 1 THEN up ELSE chain[i]]
    <3>2. /\ \A i \in 0 .. rdHops + 1 : i = rdHops + 1 \/ i \in 0 .. rdHops
          /\ \A i \in 0 .. rdHops : i # rdHops + 1
      BY <1>3
    <3>3. longer \in [0 .. rdHops + 1 -> Agents]
      BY <2>1, <3>1, <3>2 DEF Leads
    <3>4. longer[0] = start /\ longer[rdHops + 1] = up
      BY <1>3, <3>1 DEF Leads
    <3>5. ASSUME NEW i \in 1 .. rdHops + 1 PROVE longer[i] = rdParent[longer[i - 1]]
      <4>1. CASE i = rdHops + 1
        <5>1. i - 1 = rdHops /\ rdHops \in 0 .. rdHops + 1 /\ rdHops # rdHops + 1
          BY <1>3, <4>1
        <5> QED
          BY <3>1, <3>4, <4>1, <5>1 DEF up
      <4>2. CASE i # rdHops + 1
        <5>1. i \in 1 .. rdHops /\ i \in 0 .. rdHops + 1 /\ i - 1 \in 0 .. rdHops + 1
              /\ i - 1 # rdHops + 1
          BY <1>3, <4>2
        <5> QED
          BY <3>1, <4>2, <5>1 DEF Leads
      <4> QED
        BY <4>1, <4>2
    <3>6. Leads(rdParent, longer, start, rdHops + 1)
      BY <3>3, <3>4, <3>5 DEF Leads
    <3> QED
      BY <3>4, <3>6
  <2>6. rdAt'[1] = start /\ rdAt'[2] = up /\ rdHops + 1 <= RdMaxHops
    BY <1>1, <1>3, <2>1
  <2>7. \E chain : Leads(rdParent', chain, rdAt'[1], rdHops') /\ chain[rdHops'] = rdAt'[2]
    BY <1>7, <2>1, <2>5, <2>6
  <2>8. \A n \in 0 .. RdMaxHops - 1 : \A chain :
          Leads(rdParent', chain, rdAt'[1], n) /\ rdParent'[chain[n]] = NoParent =>
            rdHops' <= n /\ chain[rdHops'] = rdAt'[2]
    BY <1>1, <1>6, <1>7, <2>1, <2>6
  <2> QED
    BY <1>1, <1>4, <1>7, <2>1, <2>2, <2>3, <2>4, <2>6, <2>7, <2>8 DEF RdHierarchy, Agents
<1> QED
  BY <1>8, <1>9

LEMMA EndKeeps ==
  ASSUME RdTypes, RdHierarchy, EndClimb
  PROVE  RdTypes' /\ RdHierarchy'
<1> DEFINE start == rdAt[1]
           a == rdAt[2]
<1>1. /\ rdAt # <<>> /\ rdAt' = <<>> /\ rdPc = "registry" /\ rdPc' = "registry"
      /\ UNCHANGED <<rdParent, rdLeft, rdHops>>
      /\ rdParent[a] = NoParent \/ rdHops >= RdMaxHops
      /\ rdFindings' = rdFindings \cup
           (IF rdHops >= RdMaxHops THEN {<<start, "cyclic_parent_chain">>} ELSE {})
  BY DEF EndClimb, Cyclic
<1>2. start \in Agents /\ a \in Agents /\ rdHops \in Nat /\ RdMaxHops \in Nat
  BY <1>1, AgentsFinite DEF RdTypes
<1>3. /\ start # Root /\ start \notin rdLeft
      /\ \E chain : Leads(rdParent, chain, start, rdHops) /\ chain[rdHops] = a
      /\ \A n \in 0 .. RdMaxHops - 1 : \A chain :
           Leads(rdParent, chain, start, n) /\ rdParent[chain[n]] = NoParent => rdHops <= n
  BY <1>1 DEF RdHierarchy
<1>4. start \notin Climbed /\ ~Blamed(start)
  BY <1>1, <1>2 DEF RdHierarchy, Climbed
<1>5. Climbed' = Climbed \cup {start}
  BY <1>1, <1>2, <1>3 DEF Climbed, Agents
<1> HIDE DEF start, a
<1>6. RdTypes'
  BY <1>1, <1>2 DEF RdTypes, FindingKinds, Agents
<1>7. \A b : Blamed(b)' <=> Blamed(b) \/ (b = start /\ rdHops >= RdMaxHops)
  <2>1. CASE rdHops >= RdMaxHops
    BY <1>1, <2>1, OneMoreIsBlamed DEF Blamed
  <2>2. CASE ~(rdHops >= RdMaxHops)
    BY <1>1, <2>2 DEF Blamed
  <2> QED
    BY <2>1, <2>2
<1>8. ChainEnds(start) <=> ~(rdHops >= RdMaxHops)
  <2>1. ASSUME rdHops >= RdMaxHops PROVE ~ChainEnds(start)
    BY <1>2, <1>3, <2>1, EndsByLead
  <2>2. ASSUME ~(rdHops >= RdMaxHops) PROVE ChainEnds(start)
    <3>1. rdHops \in 0 .. RdMaxHops - 1 /\ rdParent[a] = NoParent
      BY <1>1, <1>2, <2>2
    <3> QED
      BY <1>3, <3>1, EndsByLead
  <2> QED
    BY <2>1, <2>2
<1>9. \A b : ChainEnds(b)' <=> ChainEnds(b)
  BY <1>1, ChainsStay
<1>10. \A b \in Agents : <<b, "orphan_root">> \notin rdFindings'
  BY <1>1 DEF RdHierarchy
<1> QED
  BY <1>1, <1>3, <1>4, <1>5, <1>6, <1>7, <1>8, <1>9, <1>10 DEF RdHierarchy, Agents

\* When every agent is looked at, those are blamed that should be.
LEMMA HierarchyIsFound == RdTypes /\ RdHierarchy => ChainsAreChecked
<1> SUFFICES ASSUME RdTypes, RdHierarchy, rdPc = "registry", rdAt = <<>>, rdLeft = {}
             PROVE  /\ \A a \in Agents : Blamed(a) <=>
                         IF a = Root THEN rdParent[a] # NoParent ELSE ~ChainEnds(a)
                    /\ \A a \in Agents : <<a, "orphan_root">> \notin rdFindings
  BY DEF ChainsAreChecked, Blamed, BlamedIn
<1>1. Climbed = Agents
  BY DEF Climbed
<1> QED
  BY <1>1 DEF RdHierarchy

-----------------------------------------------------------------------------
(***************************************************************************)
(* The readiness report: its scores.                                       *)
(***************************************************************************)
\* The scores of these categories are at their height or well below it, and are all at
\* their height exactly when nothing looked at so far was wrong.
Slight == {"monitoring", "recovery", "persistence"}

ScoresTell(categories) ==
  /\ categories \subseteq DOMAIN rdScores
  /\ \A c \in categories : rdScores[c] \in Nat /\ (rdScores[c] = 1000 \/ rdScores[c] <= 996)
  /\ \A c \in categories \cap Slight : rdScores[c] = 1000 \/ rdScores[c] <= 900
  /\ rdFlaws = {} <=> \A c \in categories : rdScores[c] = 1000

HealthScores == {"infrastructure", "monitoring", "recovery", "persistence"}

RdScored ==
  /\ rdPc = "health"    => ScoresTell({"persistence"})
  /\ rdPc = "registry"  => ScoresTell(HealthScores)
  /\ rdPc = "events"    => ScoresTell(HealthScores \cup {"registry"})
  /\ rdPc = "workflows" => ScoresTell(HealthScores \cup {"registry", "messaging"})
  /\ rdPc = "score"     => ScoresTell(HealthScores \cup {"registry", "messaging", "workflows"})
  /\ rdPc = "report"    => (rdScores["overall"] = 990 <=> rdFlaws = {})

-----------------------------------------------------------------------------
LEMMA ScoresAdd ==
  ASSUME NEW categories, ScoresTell(categories), NEW c, c \notin categories \cup Slight,
         NEW s \in Nat, s = 1000 \/ s <= 996, rdScores' = Score(c, s),
         rdFlaws' = {} <=> (rdFlaws = {} /\ s = 1000)
  PROVE  ScoresTell(categories \cup {c})'
<1>1. /\ DOMAIN rdScores' = DOMAIN rdScores \cup {c} /\ rdScores'[c] = s
      /\ \A x \in categories : rdScores'[x] = rdScores[x]
  BY DEF Score, ScoresTell
<1> QED
  BY <1>1 DEF ScoresTell

Samples == 1 .. 285

RoundTells(part, whole) ==
  /\ Rounded(part, whole) \in Nat
  /\ part = whole => Rounded(part, whole) = 1000
  /\ part # whole => Rounded(part, whole) <= 996

\* A flaw in a sample of 285 or less costs the category at least 0.4 %.
LEMMA RoundedTells ==
  ASSUME NEW whole \in Samples, NEW part \in 0 .. whole
  PROVE  RoundTells(part, whole)
<1> DEFINE m == 2 * 1000 * part + whole
           d == 2 * whole
           q == Rounded(part, whole)
<1>1. m \in Nat /\ d \in Nat /\ d > 0 /\ q = m \div d
  BY DEF Rounded, Samples
<1>2. /\ part = whole => m = 1000 * d + whole
      /\ part # whole => m <= 1000 * d - 2000 + whole
  BY DEF Samples
<1>3. whole < d /\ whole \in Nat /\ 3 * d + whole < 2000
  BY DEF Samples
<1> HIDE DEF m, d
<1>4. /\ q \in Nat
      /\ part = whole => q = 1000
      /\ part # whole => q <= 996
  BY <1>1, <1>2, <1>3
<1> QED
  BY <1>4 DEF RoundTells

LEMMA PartOf ==
  ASSUME NEW S, IsFiniteSet(S), NEW T \in SUBSET S
  PROVE  /\ Cardinality(T) \in 0 .. Cardinality(S) /\ Cardinality(S) \in Nat
         /\ Cardinality(T) = Cardinality(S) <=> T = S
BY FS_Subset, FS_CardinalityType

LEMMA SampleTells ==
  ASSUME NEW sample \in {RdComponents, RdSubjects, RdGraphs}, NEW sound \in SUBSET sample
  PROVE  \A score : score = Rounded(Cardinality(sound), Cardinality(sample)) =>
           score \in Nat /\ (score = 1000 \/ score <= 996) /\ (score = 1000 <=> sound = sample)
<1>1. IsFiniteSet(sample) /\ Cardinality(sample) \in 1 .. 285
  BY ReadinessAssumption
<1>2. PICK whole \in Samples : whole = Cardinality(sample)
  BY <1>1 DEF Samples
<1>3. PICK part \in 0 .. whole : part = Cardinality(sound)
  BY <1>1, <1>2, PartOf
<1>4. part = whole <=> sound = sample
  BY <1>1, <1>2, <1>3, PartOf
<1>5. RoundTells(part, whole)
  BY <1>2, <1>3, RoundedTells
<1> DEFINE score == Rounded(part, whole)
<1>6. score \in Nat /\ (score = 1000 \/ score <= 996) /\ (score = 1000 <=> sound = sample)
  BY <1>4, <1>5 DEF RoundTells
<1> QED
  BY <1>2, <1>3, <1>6 DEF score

LEMMA HealthScored ==
  ASSUME RdScored, CheckHealth
  PROVE  ScoresTell(HealthScores)'
<1>1. PICK status \in [RdComponents -> {"healthy", "degraded", "failed"}] :
        /\ rdScores' = OfHealth(status)
        /\ NoteIf("component", \E c \in RdComponents : status[c] # "healthy")
  BY DEF CheckHealth
<1> DEFINE healthy == {c \in RdComponents : status[c] = "healthy"}
           score == Rounded(Cardinality(healthy), Cardinality(RdComponents))
<1>2. /\ score \in Nat /\ (score = 1000 \/ score <= 996)
      /\ score = 1000 <=> healthy = RdComponents
  <2>1. healthy \in SUBSET RdComponents
    OBVIOUS
  <2> HIDE DEF healthy
  <2> QED
    BY <2>1, SampleTells
<1>3. /\ DOMAIN rdScores' = HealthScores
      /\ rdScores'["infrastructure"] = score
      /\ rdScores'["monitoring"] = IF "monitoring" \in healthy THEN 1000 ELSE 500
      /\ rdScores'["recovery"] = IF "incident_response" \in healthy THEN 1000 ELSE 500
      /\ rdScores'["persistence"] = rdScores["persistence"]
  BY <1>1 DEF OfHealth, HealthScores
<1>4. /\ rdScores["persistence"] \in Nat
      /\ rdScores["persistence"] = 1000 \/ rdScores["persistence"] <= 900
      /\ rdFlaws = {} <=> rdScores["persistence"] = 1000
  BY DEF RdScored, ScoresTell, Slight, CheckHealth
<1>5. rdFlaws' = {} <=> rdFlaws = {} /\ healthy = RdComponents
  BY <1>1 DEF NoteIf
<1>6. /\ healthy = RdComponents => rdScores'["monitoring"] = 1000 /\ rdScores'["recovery"] = 1000
      /\ rdScores'["monitoring"] \in {500, 1000} /\ rdScores'["recovery"] \in {500, 1000}
  BY <1>3, ReadinessAssumption
<1> HIDE DEF healthy, score
<1> QED
  BY <1>2, <1>3, <1>4, <1>5, <1>6 DEF ScoresTell, Slight, HealthScores

LEMMA RegistryScored ==
  ASSUME RdTypes, RdHierarchy, RdScored, ScoreRegistry
  PROVE  ScoresTell(HealthScores \cup {"registry"})'
<1>1. ScoresTell(HealthScores) /\ "registry" \notin HealthScores \cup Slight
  BY DEF RdScored, ScoreRegistry, HealthScores, Slight
<1>2. rdFindings = {} <=> EveryChainEnds
  <2>1. \A a \in Agents : (\E f \in rdFindings : f[1] = a) <=>
          IF a = Root THEN rdParent[a] # NoParent ELSE ~ChainEnds(a)
    BY HierarchyIsFound DEF ScoreRegistry, ChainsAreChecked
  <2>2. \A f \in rdFindings : f[1] \in Agents
    BY DEF RdTypes
  <2>3. rdFindings = {} <=> \A a \in Agents : ~(\E f \in rdFindings : f[1] = a)
    BY <2>2
  <2> QED
    BY <2>1, <2>3, AgentsFinite DEF EveryChainEnds
<1>3. Cardinality(rdFindings) \in Nat /\ (Cardinality(rdFindings) = 0 <=> rdFindings = {})
  <2>1. IsFiniteSet(FindingKinds)
    <3>1. IsFiniteSet({"root_has_parent"})
      BY FS_Singleton
    <3>2. IsFiniteSet({"root_has_parent"} \cup {"broken_parent_chain"})
      BY <3>1, FS_AddElement
    <3>3. IsFiniteSet({"root_has_parent"} \cup {"broken_parent_chain"} \cup {"orphan_root"})
      BY <3>2, FS_AddElement
    <3>4. IsFiniteSet({"root_has_parent"} \cup {"broken_parent_chain"} \cup {"orphan_root"}
                        \cup {"cyclic_parent_chain"})
      BY <3>3, FS_AddElement
    <3>5. FindingKinds = {"root_has_parent"} \cup {"broken_parent_chain"} \cup {"orphan_root"}
                           \cup {"cyclic_parent_chain"}
      BY DEF FindingKinds
    <3> QED
      BY <3>4, <3>5
  <2>2. IsFiniteSet(Agents \X FindingKinds)
    BY <2>1, AgentsFinite, FS_Product
  <2>3. IsFiniteSet(rdFindings)
    BY <2>2, FS_Subset DEF RdTypes
  <2> QED
    BY <2>3, FS_CardinalityType, FS_EmptySet
<1>4. PICK others \in 0 .. 1 :
        LET found == Cardinality(rdFindings) + others IN
          /\ rdScores' = Score("registry", IF 100 * found > 1000 THEN 0 ELSE 1000 - 100 * found)
          /\ rdFlaws' = rdFlaws \cup (IF EveryChainEnds THEN {} ELSE {"chains"})
                                \cup (IF others = 0 THEN {} ELSE {"registry"})
  BY DEF ScoreRegistry
<1>5. PICK found \in Nat : found = Cardinality(rdFindings) + others
  BY <1>3
<1> DEFINE s == IF 100 * found > 1000 THEN 0 ELSE 1000 - 100 * found
<1>6. s \in Nat /\ (s = 1000 \/ s <= 996) /\ (s = 1000 <=> found = 0)
  OBVIOUS
<1>7. found = 0 <=> rdFindings = {} /\ others = 0
  BY <1>3, <1>5
<1>8. rdScores' = Score("registry", s)
  BY <1>4, <1>5
<1> HIDE DEF s
<1>9. rdFlaws' = {} <=> (rdFlaws = {} /\ s = 1000)
  BY <1>2, <1>4, <1>6, <1>7
<1> QED
  BY <1>1, <1>6, <1>8, <1>9, ScoresAdd

LEMMA EventsScored ==
  ASSUME RdScored, CheckEvents
  PROVE  ScoresTell(HealthScores \cup {"registry", "messaging"})'
<1> DEFINE before == HealthScores \cup {"registry"}
<1>1. /\ ScoresTell(before) /\ "messaging" \notin before \cup Slight
      /\ before \cup {"messaging"} = HealthScores \cup {"registry", "messaging"}
  BY DEF RdScored, CheckEvents, HealthScores, Slight
<1> HIDE DEF before
<1>2. PICK entry \in [RdSubjects -> Entries] :
        LET problems == {s \in RdSubjects : Orphan(entry[s]) \/ DeadSubscription(entry[s])}
            total    == Cardinality(RdSubjects)
        IN /\ rdScores' = Score("messaging", Rounded(total - Cardinality(problems), total))
           /\ NoteIf("subject", \E s \in RdSubjects :
                       /\ entry[s].published # (entry[s].consumers # {})
                       /\ ~(entry[s].published /\ entry[s].wildcard))
  BY DEF CheckEvents
<1> DEFINE Wrong(s) == Orphan(s) \/ DeadSubscription(s)
           problems == {s \in RdSubjects : Wrong(entry[s])}
           sound == RdSubjects \ problems
           score == Rounded(Cardinality(sound), Cardinality(RdSubjects))
<1>3. \A s \in Entries :
        Wrong(s) <=> (s.published # (s.consumers # {})) /\ ~(s.published /\ s.wildcard)
  BY DEF Entries, Orphan, DeadSubscription
<1>4. \A s \in RdSubjects : entry[s] \in Entries
  OBVIOUS
<1>5. rdFlaws' = {} <=> rdFlaws = {} /\ sound = RdSubjects
  BY <1>2, <1>3, <1>4 DEF NoteIf
<1>6. Cardinality(sound) = Cardinality(RdSubjects) - Cardinality(problems)
  <2>1. problems \in SUBSET RdSubjects /\ IsFiniteSet(RdSubjects)
    BY ReadinessAssumption
  <2> HIDE DEF problems
  <2>2. Cardinality(RdSubjects \ problems) = Cardinality(RdSubjects) - Cardinality(RdSubjects \cap problems)
    BY <2>1, FS_Difference
  <2>3. RdSubjects \cap problems = problems
    BY <2>1
  <2> QED
    BY <2>2, <2>3
<1>7. rdScores' = Score("messaging", score)
  BY <1>2, <1>6
<1>8. sound \in SUBSET RdSubjects
  OBVIOUS
<1> HIDE DEF sound, problems, Wrong
<1>9. score \in Nat /\ (score = 1000 \/ score <= 996) /\ (score = 1000 <=> sound = RdSubjects)
  BY <1>8, SampleTells
<1> HIDE DEF score
<1>10. rdFlaws' = {} <=> (rdFlaws = {} /\ score = 1000)
  BY <1>5, <1>9
<1> QED
  BY <1>1, <1>7, <1>9, <1>10, ScoresAdd

LEMMA WorkflowsScored ==
  ASSUME RdScored, CheckWorkflows
  PROVE  ScoresTell(HealthScores \cup {"registry", "messaging", "workflows"})'
<1> DEFINE before == HealthScores \cup {"registry", "messaging"}
<1>1. /\ ScoresTell(before) /\ "workflows" \notin before \cup Slight
      /\ before \cup {"workflows"} = HealthScores \cup {"registry", "messaging", "workflows"}
  BY DEF RdScored, CheckWorkflows, HealthScores, Slight
<1> HIDE DEF before
<1>2. PICK passing \in SUBSET RdGraphs :
        /\ rdScores' = Score("workflows", Rounded(Cardinality(passing), Cardinality(RdGraphs)))
        /\ NoteIf("graph", passing # RdGraphs)
  BY DEF CheckWorkflows
<1> DEFINE s == Rounded(Cardinality(passing), Cardinality(RdGraphs))
<1>3. s \in Nat /\ (s = 1000 \/ s <= 996) /\ (s = 1000 <=> passing = RdGraphs)
  BY SampleTells
<1>4. rdScores' = Score("workflows", s)
  BY <1>2
<1> HIDE DEF s
<1>5. rdFlaws' = {} <=> (rdFlaws = {} /\ s = 1000)
  BY <1>2, <1>3 DEF NoteIf
<1> QED
  BY <1>1, <1>3, <1>4, <1>5, ScoresAdd

\* Nothing is rounded away: a category below its height misses at least 0.4 %.
LEMMA OverallTells ==
  ASSUME RdScored, ComputeReadiness
  PROVE  rdScores'["overall"] = 990 <=> rdFlaws' = {}
<1> DEFINE scores == Score("documentation", 900)
           S(c) == scores[c]
<1>1. ScoresTell(HealthScores \cup {"registry", "messaging", "workflows"}) /\ rdFlaws' = rdFlaws
  BY DEF RdScored, ComputeReadiness
<1>2. rdScores'["overall"] = (Weighed(scores) + 50) \div 100
  BY DEF ComputeReadiness
<1>3. S("documentation") = 900
  BY DEF Score
<1>4. \A c \in HealthScores \cup {"registry", "messaging", "workflows"} :
        /\ S(c) = rdScores[c] /\ S(c) \in Nat /\ (S(c) = 1000 \/ S(c) <= 996)
        /\ c \in Slight => S(c) = 1000 \/ S(c) <= 900
  BY <1>1 DEF ScoresTell, Score, HealthScores
<1> HIDE DEF scores
<1>5. Weighed(scores) = 15 * S("infrastructure") + 15 * S("registry") + 15 * S("messaging")
        + 15 * S("workflows") + 10 * S("persistence") + 10 * S("monitoring")
        + 10 * S("recovery") + 10 * S("documentation")
  BY <1>3, <1>4 DEF Weighed, Weight, HealthScores
<1>6. rdFlaws = {} <=> \A c \in HealthScores \cup {"registry", "messaging", "workflows"} :
                         S(c) = 1000
  BY <1>1, <1>4 DEF ScoresTell
<1> HIDE DEF S
<1>7. PICK total \in Nat : total = Weighed(scores)
  BY <1>3, <1>4, <1>5 DEF HealthScores
<1>8. rdFlaws = {} => total = 99000
  BY <1>3, <1>5, <1>6, <1>7 DEF HealthScores
<1>9. rdFlaws # {} => total <= 98940
  BY <1>3, <1>4, <1>5, <1>6, <1>7 DEF HealthScores, Slight
<1> QED
  BY <1>1, <1>2, <1>7, <1>8, <1>9

-----------------------------------------------------------------------------
(***************************************************************************)
(* The readiness report: the order of the departments.                     *)
(***************************************************************************)
\* The entries of d in the table that are not visited yet.
Unmet(d) == {n \in rdNeeds : n[1] = d /\ \A i \in 1 .. Len(rdOrder) : rdOrder[i] # n[2]}

\* Every department is visited once and after all it needs, and its degree counts the
\* rest of its needs; the search only ends when nothing is left to visit.
RdSorting ==
  rdPc \in {"sort", "sorted"} =>
    /\ rdNeeds \subseteq RdDepartments \X (RdDepartments \cup {Unknown})
    /\ rdOrder \in Seq(RdDepartments)
    /\ \A i, j \in 1 .. Len(rdOrder) : rdOrder[i] = rdOrder[j] => i = j
    /\ DOMAIN rdDegree = RdDepartments
    /\ \A d \in RdDepartments : rdDegree[d] = Cardinality(Unmet(d))
    /\ \A i \in 1 .. Len(rdOrder) : \A n \in rdNeeds : n[1] = rdOrder[i] =>
         \E j \in 1 .. Len(rdOrder) : j < i /\ rdOrder[j] = n[2]
    /\ rdPc = "sorted" => ReadyNow = {}

RdInv == RdTypes /\ RdHierarchy /\ RdScored /\ RdSorting

-----------------------------------------------------------------------------
LEMMA UnmetFinite ==
  ASSUME rdNeeds \subseteq RdDepartments \X (RdDepartments \cup {Unknown}), NEW d
  PROVE  IsFiniteSet(Unmet(d)) /\ Cardinality(Unmet(d)) \in Nat
         /\ (Cardinality(Unmet(d)) = 0 <=> Unmet(d) = {})
<1>1. IsFiniteSet(RdDepartments \cup {Unknown})
  BY ReadinessAssumption, FS_AddElement
<1>2. IsFiniteSet(RdDepartments \X (RdDepartments \cup {Unknown}))
  BY <1>1, ReadinessAssumption, FS_Product
<1>3. Unmet(d) \subseteq RdDepartments \X (RdDepartments \cup {Unknown})
  BY DEF Unmet
<1>4. IsFiniteSet(Unmet(d))
  BY <1>2, <1>3, FS_Subset
<1> QED
  BY <1>4, FS_CardinalityType, FS_EmptySet

LEMMA VisitedAre ==
  ASSUME rdOrder \in Seq(RdDepartments)
  PROVE  /\ Len(rdOrder) \in Nat /\ DOMAIN rdOrder = 1 .. Len(rdOrder)
         /\ ToSet(rdOrder) = {rdOrder[i] : i \in 1 .. Len(rdOrder)}
         /\ ToSet(rdOrder) \subseteq RdDepartments
<1>1. DOMAIN rdOrder = 1 .. Len(rdOrder) /\ Len(rdOrder) \in Nat
  BY LenProperties
<1>2. \A i \in 1 .. Len(rdOrder) : rdOrder[i] \in RdDepartments
  BY ElementOfSeq
<1> QED
  BY <1>1, <1>2 DEF ToSet

LEMMA VisitSorts ==
  ASSUME RdSorting, VisitDepartment
  PROVE  RdSorting'
<1>1. PICK d \in ReadyNow :
        /\ rdOrder' = Append(rdOrder, d)
        /\ rdDegree' = [x \in RdDepartments |->
                          IF <<x, d>> \in rdNeeds THEN rdDegree[x] - 1 ELSE rdDegree[x]]
  BY DEF VisitDepartment
<1>2. rdPc = "sort" /\ rdPc' = "sort" /\ rdNeeds' = rdNeeds
  BY DEF VisitDepartment, sorting
<1>3. /\ rdNeeds \subseteq RdDepartments \X (RdDepartments \cup {Unknown})
      /\ rdOrder \in Seq(RdDepartments)
      /\ \A i, j \in 1 .. Len(rdOrder) : rdOrder[i] = rdOrder[j] => i = j
      /\ \A x \in RdDepartments : rdDegree[x] = Cardinality(Unmet(x))
      /\ \A i \in 1 .. Len(rdOrder) : \A n \in rdNeeds : n[1] = rdOrder[i] =>
           \E j \in 1 .. Len(rdOrder) : j < i /\ rdOrder[j] = n[2]
  BY <1>2 DEF RdSorting
<1>4. d \in RdDepartments /\ rdDegree[d] = 0 /\ d \notin ToSet(rdOrder)
  BY <1>1 DEF ReadyNow
<1>5. PICK L \in Nat : L = Len(rdOrder)
  BY <1>3, VisitedAre
<1>6. /\ rdOrder' \in Seq(RdDepartments) /\ Len(rdOrder') = L + 1
      /\ \A i \in 1 .. L : rdOrder'[i] = rdOrder[i]
      /\ rdOrder'[L + 1] = d
  BY <1>1, <1>3, <1>4, <1>5, AppendProperties
<1>7. \A i \in 1 .. L : rdOrder[i] # d
  BY <1>3, <1>4, <1>5, VisitedAre
<1>8. (\A i \in 1 .. L + 1 : i = L + 1 \/ i \in 1 .. L) /\ \A i \in 1 .. L : i \in 1 .. L + 1
      /\ i # L + 1
  OBVIOUS
<1>9. \A x : Unmet(x)' = {n \in Unmet(x) : n[2] # d}
  BY <1>2, <1>5, <1>6, <1>8 DEF Unmet
<1>10. ASSUME NEW x \in RdDepartments PROVE rdDegree'[x] = Cardinality(Unmet(x)')
  <2>1. \A n \in Unmet(x) : n \in RdDepartments \X (RdDepartments \cup {Unknown}) /\ n[1] = x
    BY <1>3 DEF Unmet
  <2>2. \A n \in Unmet(x) : n[2] = d <=> n = <<x, d>>
    BY <2>1
  <2>3. CASE <<x, d>> \in rdNeeds
    <3>1. <<x, d>> \in Unmet(x)
      BY <1>5, <1>7, <2>3 DEF Unmet
    <3>2. Unmet(x)' = Unmet(x) \ {<<x, d>>}
      BY <1>9, <2>2
    <3>3. Cardinality(Unmet(x) \ {<<x, d>>}) = Cardinality(Unmet(x)) - 1
      BY <1>3, <3>1, UnmetFinite, FS_RemoveElement
    <3> QED
      BY <1>1, <1>3, <2>3, <3>2, <3>3
  <2>4. CASE <<x, d>> \notin rdNeeds
    <3>1. Unmet(x)' = Unmet(x)
      BY <1>9, <2>2, <2>4 DEF Unmet
    <3> QED
      BY <1>1, <1>3, <2>4, <3>1
  <2> QED
    BY <2>3, <2>4
<1>11. Unmet(d) = {}
  BY <1>3, <1>4, UnmetFinite
<1>12. \A n \in rdNeeds : n[1] = d => \E j \in 1 .. L : rdOrder[j] = n[2]
  BY <1>5, <1>11 DEF Unmet
<1>13. ASSUME NEW i \in 1 .. L + 1, NEW n \in rdNeeds, n[1] = rdOrder'[i]
       PROVE  \E j \in 1 .. L + 1 : j < i /\ rdOrder'[j] = n[2]
  <2>1. CASE i = L + 1
    <3>1. PICK j \in 1 .. L : rdOrder[j] = n[2]
      BY <1>6, <1>12, <1>13, <2>1
    <3> QED
      BY <1>6, <1>8, <2>1, <3>1
  <2>2. CASE i \in 1 .. L
    <3>1. PICK j \in 1 .. L : j < i /\ rdOrder[j] = n[2]
      BY <1>3, <1>5, <1>6, <1>13, <2>2
    <3> QED
      BY <1>6, <1>8, <3>1
  <2> QED
    BY <1>8, <2>1, <2>2
<1>14. \A i, j \in 1 .. L + 1 : rdOrder'[i] = rdOrder'[j] => i = j
  BY <1>3, <1>5, <1>6, <1>7, <1>8
<1>15. DOMAIN rdDegree' = RdDepartments
  BY <1>1
<1> QED
  BY <1>2, <1>3, <1>6, <1>10, <1>13, <1>14, <1>15 DEF RdSorting

LEMMA SortEnds ==
  ASSUME RdSorting, EndSort
  PROVE  RdSorting'
<1>1. /\ UNCHANGED <<rdNeeds, rdDegree, rdOrder>> /\ rdPc = "sort" /\ ReadyNow = {}
  BY DEF EndSort, sorting
<1>2. ReadyNow' = ReadyNow /\ \A d : Unmet(d)' = Unmet(d)
  BY <1>1 DEF ReadyNow, Unmet, ToSet
<1> QED
  BY <1>1, <1>2 DEF RdSorting

LEMMA SortStarts == RdInit => RdSorting
<1> SUFFICES ASSUME RdInit, rdPc = "sort" PROVE RdSorting
  BY DEF RdInit, RdSorting
<1>1. rdNeeds \subseteq RdDepartments \X (RdDepartments \cup {Unknown}) /\ rdOrder = <<>>
  BY DEF RdInit
<1>2. rdOrder \in Seq(RdDepartments) /\ Len(rdOrder) = 0
  BY <1>1, EmptySeq
<1>3. \A d : Unmet(d) = {n \in rdNeeds : n[1] = d}
  BY <1>2 DEF Unmet
<1>4. /\ DOMAIN rdDegree = RdDepartments
      /\ \A d \in RdDepartments : rdDegree[d] = Cardinality(Unmet(d))
  BY <1>3 DEF RdInit
<1> QED
  BY <1>1, <1>2, <1>4 DEF RdSorting

-----------------------------------------------------------------------------
\* has_cycle answers no exactly when no departments wait for each other.
LEMMA CyclesAreFound ==
  ASSUME RdSorting, rdPc = "sorted"
  PROVE  HasCycle <=> \E stuck \in (SUBSET RdDepartments) \ {{}} :
                        \A d \in stuck : Missing(d, RdDepartments \ stuck) # {}
<1>1. /\ rdNeeds \subseteq RdDepartments \X (RdDepartments \cup {Unknown})
      /\ rdOrder \in Seq(RdDepartments)
      /\ \A i, j \in 1 .. Len(rdOrder) : rdOrder[i] = rdOrder[j] => i = j
      /\ \A x \in RdDepartments : rdDegree[x] = Cardinality(Unmet(x))
      /\ \A i \in 1 .. Len(rdOrder) : \A n \in rdNeeds : n[1] = rdOrder[i] =>
           \E j \in 1 .. Len(rdOrder) : j < i /\ rdOrder[j] = n[2]
      /\ ReadyNow = {}
  BY DEF RdSorting
<1>2. PICK L \in Nat : L = Len(rdOrder)
  BY <1>1, VisitedAre
<1>3. ToSet(rdOrder) = {rdOrder[i] : i \in 1 .. L} /\ ToSet(rdOrder) \subseteq RdDepartments
      /\ DOMAIN rdOrder = 1 .. L
  BY <1>1, <1>2, VisitedAre
<1>4. Cardinality(ToSet(rdOrder)) = L
  <2> DEFINE f == [i \in 1 .. L |-> rdOrder[i]]
  <2>1. ExistsBijection(1 .. L, ToSet(rdOrder))
    <3>1. f \in Bijection(1 .. L, ToSet(rdOrder))
      BY <1>1, <1>2, <1>3 DEF Bijection, Injection, IsInjective, Surjection
    <3> QED
      BY <3>1 DEF ExistsBijection
  <2>2. Cardinality(1 .. L) = L /\ IsFiniteSet(1 .. L)
    BY FS_Interval
  <2> QED
    BY <2>1, <2>2, FS_Bijection
<1>5. HasCycle <=> ToSet(rdOrder) # RdDepartments
  BY <1>2, <1>3, <1>4, PartOf, ReadinessAssumption DEF HasCycle
<1>6. ASSUME ToSet(rdOrder) # RdDepartments
      PROVE  \E stuck \in (SUBSET RdDepartments) \ {{}} :
               \A d \in stuck : Missing(d, RdDepartments \ stuck) # {}
  <2> DEFINE stuck == RdDepartments \ ToSet(rdOrder)
  <2>1. stuck \in (SUBSET RdDepartments) \ {{}} /\ RdDepartments \ stuck = ToSet(rdOrder)
    BY <1>3, <1>6
  <2>2. ASSUME NEW d \in stuck PROVE Missing(d, RdDepartments \ stuck) # {}
    <3>1. rdDegree[d] # 0
      BY <1>1 DEF ReadyNow
    <3>2. PICK n \in Unmet(d) : TRUE
      BY <1>1, <3>1, UnmetFinite
    <3>3. n \in rdNeeds /\ n[1] = d /\ n[2] \notin ToSet(rdOrder)
      BY <1>2, <1>3, <3>2 DEF Unmet
    <3> QED
      BY <2>1, <3>3 DEF Missing
  <2> QED
    BY <2>1, <2>2
<1>7. ASSUME ToSet(rdOrder) = RdDepartments, NEW stuck \in (SUBSET RdDepartments) \ {{}},
             \A d \in stuck : Missing(d, RdDepartments \ stuck) # {}
      PROVE  FALSE
  <2> DEFINE at == {i \in 1 .. L : rdOrder[i] \in stuck}
  <2>1. at \subseteq Nat /\ at # {}
    BY <1>3, <1>7
  <2>2. PICK i \in at : \A k \in at : i <= k
    BY <2>1, MinExists
  <2>3. PICK n \in rdNeeds : n[1] = rdOrder[i] /\ n[2] \notin RdDepartments \ stuck
    BY <1>7 DEF Missing
  <2>4. PICK j \in 1 .. L : j < i /\ rdOrder[j] = n[2]
    BY <1>1, <1>2, <2>3
  <2>5. rdOrder[j] \in stuck
    BY <1>3, <2>3, <2>4
  <2>6. i <= j
    BY <2>2, <2>5
  <2> QED
    BY <2>1, <2>4, <2>6
<1> QED
  BY <1>5, <1>6, <1>7

\* In the order of the visits validate_dependency finds nothing missing.
LEMMA NothingMissing ==
  ASSUME RdSorting, rdPc = "sorted", NEW i \in DOMAIN rdOrder
  PROVE  Missing(rdOrder[i], ToSet(SubSeq(rdOrder, 1, i - 1))) = {}
<1>1. rdOrder \in Seq(RdDepartments)
  BY DEF RdSorting
<1>2. PICK L \in Nat : L = Len(rdOrder)
  BY <1>1, VisitedAre
<1>3. i \in 1 .. L
  BY <1>1, <1>2, VisitedAre
<1> DEFINE before == SubSeq(rdOrder, 1, i - 1)
<1>4. /\ DOMAIN before = 1 .. i - 1
      /\ \A j \in 1 .. i - 1 : before[j] = rdOrder[j]
  BY <1>1, <1>2, <1>3, SubSeqProperties
<1> HIDE DEF before
<1>5. \A j \in 1 .. i - 1 : rdOrder[j] \in ToSet(before)
  BY <1>4 DEF ToSet
<1>6. \A n \in rdNeeds : n[1] = rdOrder[i] => n[2] \in ToSet(before)
  <2> SUFFICES ASSUME NEW n \in rdNeeds, n[1] = rdOrder[i] PROVE n[2] \in ToSet(before)
    OBVIOUS
  <2>1. PICK j \in 1 .. L : j < i /\ rdOrder[j] = n[2]
    BY <1>2, <1>3 DEF RdSorting
  <2> QED
    BY <1>3, <1>5, <2>1
<1> QED
  BY <1>6 DEF Missing, before


-----------------------------------------------------------------------------
LEMMA RdStarts == RdInit => RdInv
<1>1. ASSUME RdInit PROVE RdScored
  <2>1. /\ rdPc \in {"health", "sort"} /\ rdFlaws = {}
        /\ rdScores = [c \in {"persistence"} |-> 1000]
    BY <1>1 DEF RdInit
  <2>2. ScoresTell({"persistence"})
    BY <2>1 DEF ScoresTell
  <2> QED
    BY <2>1, <2>2 DEF RdScored
<1> QED
  BY <1>1, HierarchyStarts, SortStarts DEF RdInv

\* Steps that look at nothing new leave the scores.
LEMMA ScoresStay ==
  ASSUME RdScored, UNCHANGED <<rdPc, rdScores, rdFlaws>>
  PROVE  RdScored'
BY DEF RdScored, ScoresTell

LEMMA RdKeeps == RdInv /\ [RdNext]_rdVars => RdInv'
<1> SUFFICES ASSUME RdInv, [RdNext]_rdVars PROVE RdInv'
  OBVIOUS
<1> USE DEF RdInv
<1>1. CASE CheckHealth
  <2>1. rdPc' = "registry"
    BY <1>1 DEF CheckHealth
  <2> QED
    BY <1>1, <2>1, HealthKeeps, HealthScored DEF RdScored, RdSorting
<1>2. CASE CheckRoot
  <2>1. rdPc = "registry" /\ UNCHANGED <<rdPc, rdScores, rdFlaws>>
    BY <1>2 DEF CheckRoot
  <2> QED
    BY <1>2, <2>1, RootKeeps, ScoresStay DEF RdSorting
<1>3. CASE StartClimb
  <2>1. rdPc = "registry" /\ UNCHANGED <<rdPc, rdScores, rdFlaws>>
    BY <1>3 DEF StartClimb
  <2> QED
    BY <1>3, <2>1, StartKeeps, ScoresStay DEF RdSorting
<1>4. CASE Climb
  <2>1. rdPc = "registry" /\ UNCHANGED <<rdPc, rdScores, rdFlaws>>
    BY <1>4 DEF Climb
  <2> QED
    BY <1>4, <2>1, ClimbKeeps, ScoresStay DEF RdSorting
<1>5. CASE EndClimb
  <2>1. rdPc = "registry" /\ UNCHANGED <<rdPc, rdScores, rdFlaws>>
    BY <1>5 DEF EndClimb
  <2> QED
    BY <1>5, <2>1, EndKeeps, ScoresStay DEF RdSorting
<1>6. CASE ScoreRegistry
  <2>1. /\ rdPc' = "events" /\ rdParent' = [a \in Agents |-> NoParent] /\ rdFindings' = {}
        /\ rdHops' = 0 /\ UNCHANGED <<rdLeft, rdAt>>
    BY <1>6 DEF ScoreRegistry
  <2>2. RdTypes'
    BY <2>1 DEF RdTypes, Parents, Agents
  <2> QED
    BY <1>6, <2>1, <2>2, RegistryScored DEF RdScored, RdSorting, RdHierarchy
<1>7. CASE CheckEvents \/ CheckWorkflows \/ ComputeReadiness
  <2>1. /\ rdPc' \in {"workflows", "score", "report"}
        /\ UNCHANGED <<rdParent, rdLeft, rdAt, rdHops, rdFindings>>
    BY <1>7 DEF CheckEvents, CheckWorkflows, ComputeReadiness, climb
  <2>2. RdTypes' /\ RdHierarchy' /\ RdSorting'
    BY <2>1 DEF RdTypes, RdHierarchy, RdSorting, Agents
  <2>3. RdScored'
    <3>1. CASE CheckEvents
      <4>1. rdPc' = "workflows"
        BY <3>1 DEF CheckEvents
      <4> QED
        BY <3>1, <4>1, EventsScored DEF RdScored
    <3>2. CASE CheckWorkflows
      <4>1. rdPc' = "score"
        BY <3>2 DEF CheckWorkflows
      <4> QED
        BY <3>2, <4>1, WorkflowsScored DEF RdScored
    <3>3. CASE ComputeReadiness
      <4>1. rdPc' = "report"
        BY <3>3 DEF ComputeReadiness
      <4> QED
        BY <3>3, <4>1, OverallTells DEF RdScored
    <3> QED
      BY <1>7, <3>1, <3>2, <3>3
  <2> QED
    BY <2>2, <2>3
<1>8. CASE VisitDepartment \/ EndSort
  <2>1. /\ rdPc' \in {"sort", "sorted"}
        /\ UNCHANGED <<rdParent, rdLeft, rdAt, rdHops, rdFindings>>
    BY <1>8 DEF VisitDepartment, EndSort, climb
  <2>2. RdTypes' /\ RdHierarchy' /\ RdScored'
    BY <2>1 DEF RdTypes, RdHierarchy, RdScored, Agents
  <2> QED
    BY <1>8, <2>2, VisitSorts, SortEnds
<1>9. CASE UNCHANGED rdVars
  <2>1. UNCHANGED <<rdPc, rdParent, rdLeft, rdAt, rdHops, rdFindings, rdScores, rdNeeds, rdDegree,
                    rdOrder, rdFlaws>>
    BY <1>9 DEF rdVars
  <2>2. RdTypes'
    BY <2>1 DEF RdTypes, Agents
  <2>3. RdHierarchy'
    <3>1. Climbed' = Climbed /\ \A a : Blamed(a)' <=> Blamed(a)
      BY <2>1 DEF Climbed, Blamed, BlamedIn, Agents
    <3>2. \A a : ChainEnds(a)' <=> ChainEnds(a)
      BY <2>1, ChainsStay
    <3> QED
      BY <2>1, <3>1, <3>2 DEF RdHierarchy, Agents
  <2>4. RdSorting'
    <3>1. ReadyNow' = ReadyNow /\ \A d : Unmet(d)' = Unmet(d)
      BY <2>1 DEF ReadyNow, Unmet, ToSet
    <3> QED
      BY <2>1, <3>1 DEF RdSorting
  <2> QED
    BY <2>1, <2>2, <2>3, <2>4, ScoresStay
<1> QED
  BY <1>1, <1>2, <1>3, <1>4, <1>5, <1>6, <1>7, <1>8, <1>9 DEF RdNext

\* For any number of agents, hops and departments, and samples of up to 285: the findings
\* blame the agents whose own chain does not end in time, and no other; no flaw that is
\* found is rounded away, and has_cycle is right.
THEOREM ReadinessIsTold == RdSpec => []ReadinessIsEarned
<1>1. RdInv => ReadinessIsEarned
  <2> SUFFICES ASSUME RdInv PROVE ReadinessIsEarned
    OBVIOUS
  <2>1. rdPc = "report" => (rdScores["overall"] = 990 <=> rdFlaws = {})
    BY DEF RdInv, RdScored
  <2>2. ChainsAreChecked
    BY HierarchyIsFound DEF RdInv
  <2>3. rdPc = "sorted" =>
          \A i \in DOMAIN rdOrder : Missing(rdOrder[i], ToSet(SubSeq(rdOrder, 1, i - 1))) = {}
    BY NothingMissing DEF RdInv
  <2>4. rdPc = "sorted" => (HasCycle <=> \E stuck \in (SUBSET RdDepartments) \ {{}} :
                              \A d \in stuck : Missing(d, RdDepartments \ stuck) # {})
    BY CyclesAreFound DEF RdInv
  <2> QED
    BY <2>1, <2>2, <2>3, <2>4 DEF ReadinessIsEarned
<1> QED
  BY <1>1, RdStarts, RdKeeps, PTL DEF RdSpec
=============================================================================
