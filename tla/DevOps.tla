------------------------------- MODULE DevOps -------------------------------
(***************************************************************************)
(* The DevOps service: stage A turns approved gates into a deployment plan *)
(* and a deployment row; stage B, started by every approval of the plan,   *)
(* deploys, checks and then releases or rolls back.                        *)
(*                                                                         *)
(* Database writes are best effort (they commit or are swallowed), stored  *)
(* artifacts are not (a failed store ends the run).  Versions 0.n.0 are    *)
(* the number n.  Nothing keeps two runs of one project apart.             *)
(***************************************************************************)
EXTENDS Naturals, Sequences, FiniteSets

CONSTANTS DvoRuns,     \* runs of devops_head, of either stage
          MaxGateMessages  \* bound on the gate results delivered

ASSUME DevOpsAssumption == IsFiniteSet(DvoRuns) /\ MaxGateMessages \in Nat

VARIABLES dvoRun,      \* what each run has done
          dvoPlans,    \* versions proposed by the stored deployment_plan artifacts
          dvoRows,     \* deployments: status and version, latest last
          dvoReleases, \* release_metadata: version and deployment, latest last
          dvoSeen,     \* gates _pending_validation holds for the project
          dvoPassed,   \* passes delivered, per gate
          dvoStarts    \* stage A starts the pair of gates caused

dvoData  == <<dvoPlans, dvoRows, dvoReleases>>
dvoGates == <<dvoSeen, dvoPassed, dvoStarts>>
dvoVars  == <<dvoRun, dvoData, dvoGates>>

Gates == {"qa", "security"}
DvoDone == {"planned", "deployed", "rolled_back", "failed"}

DvoInit ==
    /\ dvoRun = [r \in DvoRuns |->
         [pc |-> "idle", version |-> 0, row |-> 0, deploy |-> "none",
          checks |-> "none", rollback |-> "none", tagged |-> FALSE]]
    /\ dvoPlans = <<>> /\ dvoRows = <<>> /\ dvoReleases = <<>>
    /\ dvoSeen = {} /\ dvoPassed = [g \in Gates |-> 0] /\ dvoStarts = 0

At(r, pc)   == dvoRun[r].pc = pc
Goto(r, pc) == dvoRun' = [dvoRun EXCEPT ![r].pc = pc]

\* A run that ends forgets its version and its row.
DvoEnds(r, pcs) == \E pc \in pcs : dvoRun' = [dvoRun EXCEPT ![r].pc = pc, ![r].version = 0, ![r].row = 0]
SetRow(i, status) == IF i = 0 THEN dvoRows ELSE [dvoRows EXCEPT ![i].status = status]

\* Mutant: the pair is not forgotten when it starts a run.
StartKeepsPair(seen) ==
    dvoSeen' = seen /\ dvoStarts' = IF Gates \subseteq seen THEN dvoStarts + 1 ELSE dvoStarts

-----------------------------------------------------------------------------
\* A gate's result arrives.  Only a pass is remembered, and a failing result does
\* not withdraw an earlier pass.
StartOnBoth(seen) ==
    IF Gates \subseteq seen THEN dvoSeen' = {} /\ dvoStarts' = dvoStarts + 1
                            ELSE dvoSeen' = seen /\ UNCHANGED dvoStarts

GateCompleted(g) ==
    /\ dvoPassed["qa"] + dvoPassed["security"] < MaxGateMessages
    /\ \/ /\ dvoPassed' = [dvoPassed EXCEPT ![g] = @ + 1]
          /\ StartOnBoth(dvoSeen \cup {g})
       \/ UNCHANGED dvoGates
    /\ UNCHANGED <<dvoRun, dvoData>>

\* The set lives in the process.
DvoRestart ==
    /\ dvoSeen # {} /\ dvoSeen' = {}
    /\ UNCHANGED <<dvoRun, dvoData, dvoPassed, dvoStarts>>

-----------------------------------------------------------------------------
\* Stage A needs the code and both reports, and neither verdict failing; a report
\* without a verdict does not block.
ReportBlocks(verdict) == verdict \in {"missing", "fail"}

PlanStart(r) ==
    /\ At(r, "idle")
    /\ \E source \in BOOLEAN, qa, security \in {"missing", "pass", "warn", "fail", "none"} :
         Goto(r, IF source /\ ~ReportBlocks(qa) /\ ~ReportBlocks(security) THEN "infrastructure" ELSE "failed")
    /\ UNCHANGED <<dvoData, dvoGates>>

InfrastructureWorkers == {"dockerfile_writer_worker", "docker_compose_worker"}
CicdWorkers           == {"pipeline_config_worker", "environment_config_worker"}

\* A lead runs its template workers together and fails with any of them; a worker
\* fails when its artifact cannot be stored.
LeadRuns(r, pc, workers, next) ==
    /\ At(r, pc)
    /\ \E unstored \in SUBSET workers : Goto(r, IF unstored = {} THEN next ELSE "failed")
    /\ UNCHANGED <<dvoData, dvoGates>>

GenerateInfrastructure(r) == LeadRuns(r, "infrastructure", InfrastructureWorkers, "cicd")
GenerateCicd(r)           == LeadRuns(r, "cicd", CicdWorkers, "proposing")

BumpMinor(releases) == IF releases = <<>> THEN 1 ELSE releases[Len(releases)].version + 1

\* The latest release is read; on a database error there seems to be none.
Propose(r) ==
    /\ At(r, "proposing")
    /\ \E releases \in {dvoReleases, <<>>} :
         dvoRun' = [dvoRun EXCEPT ![r].pc = "plan", ![r].version = BumpMinor(releases)]
    /\ UNCHANGED <<dvoData, dvoGates>>

StorePlan(r) ==
    /\ At(r, "plan")
    /\ \/ dvoPlans' = Append(dvoPlans, dvoRun[r].version) /\ Goto(r, "row")
       \/ UNCHANGED dvoPlans /\ DvoEnds(r, {"failed"})
    /\ UNCHANGED <<dvoRows, dvoReleases, dvoGates>>

CreateRow(r) ==
    /\ At(r, "row")
    /\ \/ dvoRows' = Append(dvoRows, [status |-> "awaiting_approval", version |-> dvoRun[r].version])
       \/ UNCHANGED dvoRows
    /\ DvoEnds(r, {"planned"})
    /\ UNCHANGED <<dvoPlans, dvoReleases, dvoGates>>

-----------------------------------------------------------------------------
\* Stage B: an approval marks the latest plan and runs the head with the latest
\* approved one; a second approval does so again.
Approve(r) ==
    /\ At(r, "idle") /\ dvoPlans # <<>>
    /\ dvoRun' = [dvoRun EXCEPT ![r].pc = "find_row", ![r].version = dvoPlans[Len(dvoPlans)]]
    /\ UNCHANGED <<dvoData, dvoGates>>

\* The run takes the project's latest row, whatever its status and version, creates
\* one when it saw none, and goes on without a row on a database error.
FindRow(r) ==
    /\ At(r, "find_row")
    /\ \/ /\ dvoRows # <<>>
          /\ dvoRun' = [dvoRun EXCEPT ![r].pc = "deploy", ![r].row = Len(dvoRows)]
       \/ dvoRows = <<>> /\ Goto(r, "insert_row")
       \/ Goto(r, "deploy")
    /\ UNCHANGED <<dvoData, dvoGates>>

InsertDeployment(r) ==
    /\ At(r, "insert_row")
    /\ \/ /\ dvoRows' = Append(dvoRows, [status |-> "pending", version |-> dvoRun[r].version])
          /\ dvoRun' = [dvoRun EXCEPT ![r].pc = "deploy", ![r].row = Len(dvoRows) + 1]
       \/ Goto(r, "deploy") /\ UNCHANGED dvoRows
    /\ UNCHANGED <<dvoPlans, dvoReleases, dvoGates>>

\* The provisioner: the provider starts the stack, refuses, or raises; only an answer
\* reaches the row and the context.  The health check runs whatever it was.
Deploy(r) ==
    /\ At(r, "deploy")
    /\ \/ \E answer \in {"started", "refused"} :
            /\ dvoRun' = [dvoRun EXCEPT ![r].pc = "check", ![r].deploy = answer]
            /\ \/ dvoRows' = SetRow(dvoRun[r].row, IF answer = "started" THEN "deploying" ELSE "failed")
               \/ UNCHANGED dvoRows
       \/ /\ dvoRun' = [dvoRun EXCEPT ![r].pc = "check", ![r].deploy = "raised"]
          /\ UNCHANGED dvoRows
    /\ UNCHANGED <<dvoPlans, dvoReleases, dvoGates>>

\* The checks pass or fail; when the provider raises or the report cannot be stored
\* the worker returns no content and the head sees no checks.  On checks that are not of
\* the form the interface promises the head raises (build_health_report).
HealthCheck(r) ==
    /\ At(r, "check")
    /\ \E checks \in {"passed", "failed", "unknown", "malformed"} :
         dvoRun' = [dvoRun EXCEPT ![r].pc = IF checks = "malformed" THEN "failed" ELSE "decide",
                                  ![r].checks = checks]
    /\ UNCHANGED <<dvoData, dvoGates>>

\* Mutant: a report without checks counts as passed.
MustRollBackOnFailedChecks(run) == run.deploy # "started" \/ run.checks = "failed"

\* decide_rollback: no checks at all are not a passed report.
MustRollBack(run) == run.deploy # "started" \/ run.checks # "passed"

\* The provider answers either way, or raises and ends the run unannounced.
RollBack(r) ==
    /\ At(r, "decide") /\ MustRollBack(dvoRun[r])
    /\ \E answer \in {"completed", "failed", "raised"} :
         dvoRun' = [dvoRun EXCEPT ![r].rollback = answer,
                                  ![r].pc = IF answer = "raised" THEN "failed" ELSE "record_rollback"]
    /\ UNCHANGED <<dvoData, dvoGates>>

\* The rollback report is stored, the row and the records follow in one transaction,
\* and the run is announced once its report is stored.
RecordRollback(r) ==
    /\ At(r, "record_rollback")
    /\ \/ DvoEnds(r, {"failed"}) /\ UNCHANGED dvoRows
       \/ /\ \/ dvoRows' = SetRow(dvoRun[r].row,
                             IF dvoRun[r].rollback = "completed" THEN "rolled_back" ELSE "failed")
             \/ UNCHANGED dvoRows
          /\ DvoEnds(r, {"rolled_back", "failed"})
    /\ UNCHANGED <<dvoPlans, dvoReleases, dvoGates>>

\* The release is tagged at the Repository service, if that answers.
Tag(r) ==
    /\ At(r, "decide") /\ ~MustRollBack(dvoRun[r])
    /\ dvoRun' = [dvoRun EXCEPT ![r].pc = "release", ![r].tagged = TRUE]
    /\ UNCHANGED <<dvoData, dvoGates>>

\* The row becomes healthy and the release is recorded in one transaction, which the
\* unique (project, version) refuses for a version already released.
CommitRelease(r) ==
    /\ dvoRun[r].row # 0 /\ \A i \in DOMAIN dvoReleases : dvoReleases[i].version # dvoRun[r].version
    /\ dvoRows' = SetRow(dvoRun[r].row, "healthy")
    /\ dvoReleases' = Append(dvoReleases, [version |-> dvoRun[r].version, row |-> dvoRun[r].row])

RecordRelease(r) ==
    /\ At(r, "release")
    /\ CommitRelease(r) \/ UNCHANGED <<dvoRows, dvoReleases>>
    /\ DvoEnds(r, {"deployed", "failed"})
    /\ UNCHANGED <<dvoPlans, dvoGates>>

DvoGateStep == DvoRestart \/ \E g \in Gates : GateCompleted(g)

DvoRunStep(r) ==
    \/ PlanStart(r) \/ GenerateInfrastructure(r) \/ GenerateCicd(r)
    \/ Propose(r) \/ StorePlan(r) \/ CreateRow(r)
    \/ Approve(r) \/ FindRow(r) \/ InsertDeployment(r) \/ Deploy(r) \/ HealthCheck(r)
    \/ RollBack(r) \/ RecordRollback(r) \/ Tag(r) \/ RecordRelease(r)

DvoNext == DvoGateStep \/ \E r \in DvoRuns : DvoRunStep(r)

DvoSpec == DvoInit /\ [][DvoNext]_dvoVars

-----------------------------------------------------------------------------
\* Whatever the provider, the database and the store do: what was tagged as a release
\* was started and passed its checks and was not rolled back, and a run that ended
\* after it reached the provider without releasing asked for the rollback, unless the
\* provider's checks were malformed (context.py:194-199, where it just ends).  However the
\* runs of a project interleave, a row reads healthy only with a release recorded for
\* it, and no version is recorded twice (_release_and_report's transaction).
ReleasedOrRolledBack ==
    /\ \A r \in DvoRuns :
         /\ dvoRun[r].tagged => /\ dvoRun[r].deploy = "started" /\ dvoRun[r].checks = "passed"
                                /\ dvoRun[r].rollback = "none"
         /\ (/\ dvoRun[r].pc \in DvoDone /\ dvoRun[r].deploy # "none" /\ ~dvoRun[r].tagged
             /\ dvoRun[r].checks # "malformed")
              => dvoRun[r].rollback # "none"
    /\ \A i \in DOMAIN dvoRows :
         dvoRows[i].status = "healthy" => \E k \in DOMAIN dvoReleases : dvoReleases[k].row = i
    /\ \A j, k \in DOMAIN dvoReleases : dvoReleases[j].version = dvoReleases[k].version => j = k

\* A pass of a gate starts at most one plan: the starts never outnumber the passes
\* of either gate, over repeated validations and restarts of the process.
StartsSpendTheirPasses ==
    \A g \in Gates : dvoStarts <= dvoPassed[g]
=============================================================================
