-------------------------------- MODULE Chaos --------------------------------
(***************************************************************************)
(* Chaos testing (services/integration/chaos): a scenario wraps a workflow *)
(* in faults, calls it until it succeeds or its retries are spent, and a   *)
(* suite of scenarios becomes a run that is scored and compared.           *)
(*                                                                         *)
(* Each wrapper counts the calls that reach it, and the fault applied last *)
(* is outermost.  Durations, incidents and what is made of them are left   *)
(* out; a rate is a pair of numbers.                                       *)
(***************************************************************************)
EXTENDS Integers, Sequences, FiniteSets

CONSTANTS
  ChScenarios,   \* number of scenarios of the suite
  ChMaxRetries,  \* bound: max_retries of a scenario
  ChMaxFaults    \* bound: faults of a scenario

ASSUME ChaosAssumption == {ChScenarios, ChMaxRetries, ChMaxFaults} \subseteq Nat

VARIABLES
  chFaults,    \* the faults applied, the outermost last; each with its calls so far
  chRetries,   \* max_retries of the scenario that runs, or None between scenarios
  chAttempts,  \* attempts: whether each succeeded
  chBroken,    \* whether the workflow itself failed in an attempt
  chResults    \* the results of the suite so far

chVars == <<chFaults, chRetries, chAttempts, chBroken, chResults>>
None == -1

\* A fault whose probability is below one may have been rolled out when it was applied;
\* random and partial ones are always recorded as triggered.
Faults(kinds, triggered) == [kind : kinds, triggered : triggered, calls : {0}]
FaultSpecs ==
  Faults({"unavailable", "timeout", "disconnect", "rate limit", "latency"}, BOOLEAN)
  \cup Faults({"random", "partial"}, {TRUE})

ChInit ==
  /\ chFaults = <<>> /\ chRetries = None /\ chAttempts = <<>> /\ chBroken = FALSE
  /\ chResults = <<>>

StartScenario ==
  /\ chRetries = None /\ Len(chResults) < ChScenarios
  /\ chRetries' \in 0 .. ChMaxRetries
  /\ \E n \in 0 .. ChMaxFaults : chFaults' \in [1 .. n -> FaultSpecs]
  /\ chAttempts' = <<>> /\ chBroken' = FALSE /\ UNCHANGED chResults

\* What the next call of a wrapper may come to: the default rate limit and the default
\* partial failure are of the first call alone; a random fault is rolled at every call.
MayFail(fault) ==
  CASE fault.kind \in {"unavailable", "timeout", "disconnect"} -> {fault.triggered}
    [] fault.kind = "rate limit" -> {fault.triggered /\ fault.calls = 0}
    [] fault.kind = "partial" -> {fault.calls = 0}
    [] fault.kind = "random" -> BOOLEAN
    [] fault.kind = "latency" -> {FALSE}

\* Mutant: max_retries attempts, the first included.
SpentEarly == Len(chAttempts) >= chRetries

Spent == Len(chAttempts) > chRetries

Succeeded == chAttempts # <<>> /\ chAttempts[Len(chAttempts)]

\* One attempt goes inwards until a fault fails it.
Attempt ==
  /\ chRetries # None /\ ~Succeeded /\ ~Spent
  /\ \E fails \in [DOMAIN chFaults -> BOOLEAN], broken \in BOOLEAN :
       LET failing == {i \in DOMAIN chFaults : fails[i]}
           reached == {i \in DOMAIN chFaults : \A j \in failing : j <= i}
       IN /\ \A i \in DOMAIN chFaults : fails[i] \in MayFail(chFaults[i])
          /\ broken => failing = {}
          /\ chFaults' = [i \in DOMAIN chFaults |->
                            IF i \in reached THEN [chFaults[i] EXCEPT !.calls = @ + 1]
                            ELSE chFaults[i]]
          /\ chAttempts' = Append(chAttempts, failing = {} /\ ~broken)
          /\ chBroken' = (chBroken \/ broken)
  /\ UNCHANGED <<chRetries, chResults>>

\* The result of a scenario; the checks a caller supplies say what they say, or nothing.
EndScenario ==
  /\ chRetries # None /\ (Succeeded \/ Spent)
  /\ \E completed \in {"unchecked", "yes", "no"} :
       chResults' = Append(chResults, [success |-> Succeeded, recovered |-> Succeeded,
                                       completed |-> completed])
  /\ chRetries' = None /\ chFaults' = <<>> /\ chAttempts' = <<>> /\ chBroken' = FALSE

ChNext == StartScenario \/ Attempt \/ EndScenario

ChSpec == ChInit /\ [][ChNext]_chVars

-----------------------------------------------------------------------------
\* compute_resilience_metrics: a rate over no scenario is zero.
Rate(part, whole) == IF whole = {} THEN <<0, 1>> ELSE <<Cardinality(part), Cardinality(whole)>>
Metrics(results) ==
  LET all       == DOMAIN results
      succeeded == {i \in all : results[i].success}
      checked   == {i \in all : results[i].completed # "unchecked"}
  IN [success    |-> Rate(succeeded, all),
      failure    |-> Rate(all \ succeeded, all),
      recovery   |-> Rate({i \in all : results[i].recovered}, all),
      completion |-> Rate({i \in checked : results[i].completed = "yes"}, checked)]

\* Mutant: every metric is better when it is lower.
OnlyCosts == {}

HigherIsBetter == {"success", "recovery", "completion"}

\* compare_runs: what changed for the better, as a numerator over Scale; a metric that
\* was zero is compared with nothing, and a loss of a tenth is no regression yet.
Gain(now, before, metric) ==
  LET change == now[metric][1] * before[metric][2] - before[metric][1] * now[metric][2]
  IN IF metric \in HigherIsBetter THEN change ELSE -change
Scale(now, before, metric) == before[metric][1] * now[metric][2]

Compared(now, before) == {m \in DOMAIN now : before[m][1] # 0}
Regressed(now, before) ==
  {m \in Compared(now, before) : -10 * Gain(now, before, m) > Scale(now, before, m)}
Improved(now, before) == {m \in Compared(now, before) : Gain(now, before, m) > 0}

-----------------------------------------------------------------------------
\* A scenario that ends gave up only after max_retries more attempts, passed no fault that
\* fails every call, and succeeded if each of its faults fails one call at most and it has
\* a retry for each, however the faults are stacked.
Permanent(fault) == fault.kind \in {"unavailable", "timeout", "disconnect"} /\ fault.triggered
Transient(fault) == fault.kind \in {"rate limit", "partial"} /\ fault.triggered
RetriesSuffice ==
  chRetries # None /\ (Succeeded \/ Spent) =>
    LET faults == {chFaults[i] : i \in DOMAIN chFaults}
    IN /\ ~Succeeded => Len(chAttempts) = chRetries + 1
       /\ Succeeded => \A f \in faults : ~Permanent(f)
       /\ /\ ~chBroken /\ \A f \in faults : ~Permanent(f) /\ f.kind # "random"
          /\ chRetries >= Cardinality({i \in DOMAIN chFaults : Transient(chFaults[i])})
          => Succeeded

\* A suite with fewer successes than a run of it before is reported as worse, in its
\* successes and its recoveries, and neither run is worse than the other in a metric in
\* which it is also better.
Outcomes == [success : BOOLEAN, completed : {"unchecked", "yes", "no"}]
Before == {Metrics([i \in DOMAIN chResults |-> [success |-> o[i].success, recovered |-> o[i].success,
                                               completed |-> o[i].completed]]) :
             o \in [DOMAIN chResults -> Outcomes]}
DegradationIsReported ==
  Len(chResults) = ChScenarios =>
    LET now == Metrics(chResults)
    IN \A before \in Before :
         /\ now.success[1] < before.success[1] =>
              /\ {"success", "recovery"} \subseteq Regressed(now, before)
              /\ "failure" \notin Improved(now, before)
         /\ Regressed(now, before) \cap Improved(now, before) = {}
         /\ Regressed(now, before) \cap Regressed(before, now) = {}

\* Retries are worth their name, and what a suite lost since an earlier run is reported.
ResilienceIsTold == RetriesSuffice /\ DegradationIsReported
=============================================================================
