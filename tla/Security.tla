------------------------------ MODULE Security ------------------------------
(***************************************************************************)
(* The Security Service: SecurityHead runs three leads concurrently, whose *)
(* five workers check the source code, and turns what they recorded into a *)
(* verdict, findings and a retry request for Engineering.                  *)
(*                                                                         *)
(* The content of a worker's result is abstracted to its gravest finding.  *)
(* A result is recorded under the worker's name, and under its artifact    *)
(* type unless another result is there already: two workers share a type.  *)
(***************************************************************************)
EXTENDS Naturals, Sequences, FiniteSets

VARIABLES secPc,    \* where the head is
          secDocs,  \* the design documents the compliance checklist asks for are there
          secWork,  \* worker -> "waiting", or what it returned
          secCtx,   \* key of the context -> the worker whose result it holds
          secSent,  \* what was announced, in order
          secRows   \* reports of the head with a row

secVars == <<secPc, secDocs, secWork, secCtx, secSent, secRows>>

SecProduces == [cve_scanner |-> "dependency_scan", owasp_checker |-> "static_analysis_report",
             injection_check |-> "static_analysis_report", secret_scanner |-> "secret_scan",
             compliance_validator |-> "compliance_report"]
SecWorkers == DOMAIN SecProduces
Keys == SecWorkers \cup {SecProduces[w] : w \in SecWorkers}

\* Severities, as the verdict tells them apart.  What a language model answers is
\* free; a secret is critical; a missing document is a compliance violation.
StaticAnalysis == {"clean", "warning", "blocking", "nothing"}
DependencyScan == {"clean", "warning", "blocking", "nothing"}
SecretScan     == {"clean", "blocking", "nothing"}
Compliance     == {IF secDocs THEN "clean" ELSE "blocking", IF secDocs THEN "warning" ELSE "blocking", "nothing"}

SecOutcomes(w) ==
    CASE w \in {"owasp_checker", "injection_check"} -> StaticAnalysis
      [] w = "cve_scanner"          -> DependencyScan
      [] w = "secret_scanner"       -> SecretScan
      [] w = "compliance_validator" -> Compliance

-----------------------------------------------------------------------------
SecInit ==
    /\ secPc = "idle" /\ secDocs = FALSE /\ secSent = <<>> /\ secRows = {}
    /\ secWork = [w \in SecWorkers |-> "waiting"] /\ secCtx = [k \in Keys |-> "none"]

SecStart ==
    /\ secPc = "idle"
    /\ \E source, docs \in BOOLEAN :
         /\ secPc' = IF source THEN "scan" ELSE "escalated"
         /\ secSent' = IF source THEN secSent ELSE <<"failed">>
         /\ secDocs' = docs
    /\ UNCHANGED <<secWork, secCtx, secRows>>

\* _ctx_record_finding
SecRecord(w) ==
    secCtx' = [secCtx EXCEPT ![w] = w,
                             ![SecProduces[w]] = IF @ = "none" THEN w ELSE @]

\* A worker that raises records nothing; its lead completes all the same.
SecRunWorker(w) ==
    /\ secPc = "scan" /\ secWork[w] = "waiting"
    /\ \E o \in SecOutcomes(w) :
         /\ secWork' = [secWork EXCEPT ![w] = o]
         /\ IF o = "nothing" THEN UNCHANGED secCtx ELSE SecRecord(w)
    /\ UNCHANGED <<secPc, secDocs, secSent, secRows>>

\* Mutant: the results are read by artifact type.
MergedByType == {secWork[secCtx[SecProduces[w]]] : w \in {v \in SecWorkers : secCtx[SecProduces[v]] # "none"}}

\* The results the head merges, by worker; a worker without one found nothing.
Merged == {secWork[w] : w \in {v \in SecWorkers : secCtx[v] = v}}

SecBlocking == "blocking" \in Merged
Findings == Merged \cap {"warning", "blocking"} # {}

SecAnnounce == IF SecBlocking THEN <<"retry", "failed", "failed">> ELSE <<"completed", "completed">>

\* The findings are announced, the risk assessment and the report are stored, each
\* of which may raise, then the retry request and the outcome go out.
SecAggregate ==
    /\ secPc = "scan" /\ \A w \in SecWorkers : secWork[w] # "waiting"
    /\ LET announced == IF Findings THEN <<"findings">> ELSE <<>> IN
       \/ /\ secPc' = "failed" /\ secSent' = announced
          /\ \E rows \in {{}, {"risk_assessment"}} : secRows' = rows
       \/ /\ secPc' = IF SecBlocking THEN "failed" ELSE "completed"
          /\ secSent' = announced \o SecAnnounce
          /\ secRows' = {"risk_assessment", "security_report"}
    /\ UNCHANGED <<secDocs, secWork, secCtx>>

SecNext == SecStart \/ SecAggregate \/ \E w \in SecWorkers : SecRunWorker(w)

SecSpec == SecInit /\ [][SecNext]_secVars

-----------------------------------------------------------------------------
Sent(s) == \E i \in DOMAIN secSent : secSent[i] = s

\* No finding is lost between the workers, whatever order they finish in: Security
\* is announced as completed only if no worker that returned found something
\* blocking, and as failed with a stored report only if one did.
NoFindingIsLost ==
    LET blocked == \E w \in SecWorkers : secWork[w] = "blocking" IN
    /\ Sent("completed") => ~blocked /\ "security_report" \in secRows
    /\ secPc = "failed" /\ "security_report" \in secRows => blocked /\ Sent("retry")
=============================================================================
