---------------------------- MODULE Architecture ----------------------------
(***************************************************************************)
(* The Architecture Service: ArchitectureHead runs three leads over ten    *)
(* workers, stores what they produce as rows of the artifacts table and    *)
(* submits five of them for approval.                                      *)
(*                                                                         *)
(* A run is one call of ArchitectureHead.execute.  Nothing orders the runs *)
(* of one project: they overlap, and share the rows.  The content of an    *)
(* artifact is abstracted to the run that made it and to the artifacts its *)
(* worker could see in its context; what the language model answers is a   *)
(* free choice.                                                            *)
(***************************************************************************)
EXTENDS Naturals, Sequences, FiniteSets

CONSTANTS ArchRuns,               \* calls of the head for one project
          MaxTraceabilityReruns,  \* ArchitectureHead.MAX_TRACEABILITY_RERUNS
          PlatformTypes           \* what the platform workers make (PlatformDesignLead.WORKERS)

ASSUME ArchitectureAssumption ==
    /\ MaxTraceabilityReruns \in Nat
    /\ {"deployment_architecture", "ui_blueprint"} \subseteq PlatformTypes

VARIABLES archPc,      \* where each run is
          archStep,    \* its position in the design pipeline, or in the submission
          archAttempt, \* its attempts of the review
          archRows,    \* the artifacts table: type -> versions, oldest first
          archCtx,     \* types whose content the context of its task holds
          archWork,    \* its platform workers still running
          archGate,    \* its design as it stood at the last check of each kind
          archSent     \* rows its submission has picked

archVars == <<archPc, archStep, archAttempt, archRows, archCtx, archWork, archGate, archSent>>

DesignPipeline == <<"architecture_blueprint", "api_spec", "database_schema">>
ApprovalArtifacts == <<"architecture_blueprint", "api_spec", "database_schema",
                       "deployment_architecture", "ui_blueprint">>
DesignTypes    == {DesignPipeline[i] : i \in DOMAIN DesignPipeline}
ArtifactTypes  == DesignTypes \cup PlatformTypes

\* The latest version of a type that a run made, and the design it made.
OwnLatest(r, t) ==
    {v \in DOMAIN archRows[t] :
        /\ archRows[t][v].run = r
        /\ \A w \in DOMAIN archRows[t] : archRows[t][w].run = r => w <= v}
OwnDesign(r) == [t \in DesignTypes |-> OwnLatest(r, t)]

\* AgentResult.artifacts is a list of ArtifactRef, so the dictionaries that
\* create_artifact returns are ArtifactRef objects by the time a lead reads them.
ArtifactIsDict == FALSE

\* _ctx_update records the content of a result under the type of its artifacts,
\* for the artifacts that are dictionaries.
CtxUpdate(r, t) ==
    archCtx' = IF ArtifactIsDict THEN [archCtx EXCEPT ![r] = @ \cup {t}] ELSE archCtx

\* create_artifact in a worker: a new draft row of the type.
NewDraft(r, t) ==
    archRows' = [archRows EXCEPT ![t] = Append(@,
                    [run |-> r, status |-> "draft", saw |-> archCtx[r]])]

-----------------------------------------------------------------------------
Unchecked == [traced |-> [t \in DesignTypes |-> {}], reviewed |-> [t \in DesignTypes |-> {}]]

\* A head is called with a fresh context: it holds no architecture artifact,
\* because the context builder loads the Product artifacts only.
ArchInit ==
    /\ archPc = [r \in ArchRuns |-> "idle"] /\ archStep = [r \in ArchRuns |-> 1]
    /\ archAttempt = [r \in ArchRuns |-> 0]
    /\ archRows = [t \in ArtifactTypes |-> <<>>]
    /\ archCtx = [r \in ArchRuns |-> {}] /\ archWork = [r \in ArchRuns |-> {}]
    /\ archGate = [r \in ArchRuns |-> Unchecked]
    /\ archSent = [r \in ArchRuns |-> {}]

StartRun(r) ==
    /\ archPc[r] = "idle"
    /\ archPc' = [archPc EXCEPT ![r] = "design"]
    /\ UNCHANGED <<archStep, archAttempt, archRows, archCtx, archWork, archGate, archSent>>

\* Where the head goes after the system design: on from the first pass, or back
\* to the check that found the gap.
AfterDesign(r) ==
    /\ archPc' = [archPc EXCEPT ![r] = IF @ = "design" THEN "platform" ELSE "traceability"]
    /\ archWork' = [archWork EXCEPT ![r] = IF archPc[r] = "design" THEN PlatformTypes ELSE @]
    /\ archStep' = [archStep EXCEPT ![r] = 1]

\* Mutant: the head does not look at the result of the first pass either.
DesignFailsTolerated(r) == AfterDesign(r) /\ UNCHANGED <<archRows, archCtx>>

\* A failed design worker ends the lead, with or without a row: it may fail after
\* create_artifact.  The head escalates on the first pass, and does not look at
\* the result of the lead it runs again for a gap.
DesignFails(r) ==
    /\ archPc' = [archPc EXCEPT ![r] = IF @ = "design" THEN "escalated" ELSE "traceability"]
    /\ NewDraft(r, DesignPipeline[archStep[r]]) \/ UNCHANGED archRows
    /\ archStep' = [archStep EXCEPT ![r] = 1]
    /\ UNCHANGED <<archCtx, archWork>>

DesignCompletes(r) ==
    LET t == DesignPipeline[archStep[r]] IN
    /\ NewDraft(r, t)
    /\ CtxUpdate(r, t)
    /\ IF archStep[r] < Len(DesignPipeline)
       THEN archStep' = [archStep EXCEPT ![r] = @ + 1] /\ UNCHANGED <<archPc, archWork>>
       ELSE AfterDesign(r)

\* SystemDesignLead: blueprint, then API specification, then database schema.
SystemDesign(r) ==
    /\ archPc[r] \in {"design", "redesign"}
    /\ DesignFails(r) \/ DesignCompletes(r)
    /\ UNCHANGED <<archAttempt, archGate, archSent>>

\* PlatformDesignLead: five workers run concurrently, and the lead completes
\* whatever they return: a failed worker may leave no row.
PlatformWorker(r, t) ==
    /\ archPc[r] = "platform" /\ t \in archWork[r]
    /\ archWork' = [archWork EXCEPT ![r] = @ \ {t}]
    /\ \/ NewDraft(r, t) /\ CtxUpdate(r, t)
       \/ UNCHANGED <<archRows, archCtx>>
    /\ archPc' = [archPc EXCEPT ![r] = IF archWork[r] = {t} THEN "traceability" ELSE @]
    /\ UNCHANGED <<archStep, archAttempt, archGate, archSent>>

\* A review that escalates is run again after another system design while
\* attempts remain, if its reason is about coverage; otherwise the head escalates.
ReviewEscalates(r, aboutCoverage) ==
    /\ IF aboutCoverage /\ archAttempt[r] < MaxTraceabilityReruns
       THEN /\ archPc' = [archPc EXCEPT ![r] = "redesign"]
            /\ archAttempt' = [archAttempt EXCEPT ![r] = @ + 1]
       ELSE /\ archPc' = [archPc EXCEPT ![r] = "escalated"]
            /\ UNCHANGED archAttempt
    /\ UNCHANGED archGate

\* Traceability measures the coverage of the design; below the threshold, or
\* without an answer, the lead escalates with a reason about coverage.
Traceability(r) ==
    /\ archPc[r] = "traceability"
    /\ \/ /\ archPc' = [archPc EXCEPT ![r] = "review"]
          /\ archGate' = [archGate EXCEPT ![r].traced = OwnDesign(r)]
          /\ UNCHANGED archAttempt
       \/ ReviewEscalates(r, TRUE)
    /\ UNCHANGED <<archStep, archRows, archCtx, archWork, archSent>>

\* The reviewer passes the package, or fails it for a reason the model words,
\* which may or may not mention coverage.
Review(r) ==
    /\ archPc[r] = "review"
    /\ \/ /\ archPc' = [archPc EXCEPT ![r] = "submit"]
          /\ archGate' = [archGate EXCEPT ![r].reviewed = OwnDesign(r)]
          /\ UNCHANGED archAttempt
       \/ \E aboutCoverage \in BOOLEAN : ReviewEscalates(r, aboutCoverage)
    /\ UNCHANGED <<archStep, archRows, archCtx, archWork, archSent>>

\* _submit_for_approval: per approval type, the latest version still in draft,
\* whichever run made it.
LatestDraft(t) ==
    {v \in DOMAIN archRows[t] :
        /\ archRows[t][v].status = "draft"
        /\ \A w \in DOMAIN archRows[t] : archRows[t][w].status = "draft" => w <= v}

SelectForApproval(r) ==
    /\ archPc[r] = "submit" /\ archStep[r] \in DOMAIN ApprovalArtifacts
    /\ LET t == ApprovalArtifacts[archStep[r]]
       IN archSent' = [archSent EXCEPT ![r] = @ \cup ({t} \X LatestDraft(t))]
    /\ archStep' = [archStep EXCEPT ![r] = @ + 1]
    /\ UNCHANGED <<archPc, archAttempt, archRows, archCtx, archWork, archGate>>

\* The rows picked are under review once the transaction commits ...
SubmitCommits(r) ==
    /\ archPc[r] = "submit" /\ archStep[r] = Len(ApprovalArtifacts) + 1
    /\ archRows' = [t \in ArtifactTypes |-> [v \in DOMAIN archRows[t] |->
                       IF <<t, v>> \in archSent[r]
                       THEN [archRows[t][v] EXCEPT !.status = "under_review"]
                       ELSE archRows[t][v]]]
    /\ archPc' = [archPc EXCEPT ![r] = "submitted"]
    /\ UNCHANGED <<archStep, archAttempt, archCtx, archWork, archGate, archSent>>

\* ... and remain drafts when a select or the commit raises: the exception is
\* logged, and the rows picked so far are announced as a completed design.
SubmitFails(r) ==
    /\ archPc[r] = "submit"
    /\ archPc' = [archPc EXCEPT ![r] = "announced"]
    /\ UNCHANGED <<archStep, archAttempt, archRows, archCtx, archWork, archGate, archSent>>

ArchNext ==
    \E r \in ArchRuns :
        \/ StartRun(r) \/ SystemDesign(r) \/ Traceability(r) \/ Review(r)
        \/ SelectForApproval(r) \/ SubmitCommits(r) \/ SubmitFails(r)
        \/ \E t \in PlatformTypes : PlatformWorker(r, t)

ArchSpec == ArchInit /\ [][ArchNext]_archVars

-----------------------------------------------------------------------------
\* However the runs of a project overlap, a run announces a completed design only
\* when it made every part of it, traced it and then reviewed it as it still
\* stands; and a run whose submission was committed leaves, of each part, that
\* version or a later one under review, never only an older one.
SubmittedWasTracedAndReviewed ==
    \A r \in ArchRuns : archPc[r] \in {"submitted", "announced"} =>
        /\ archGate[r].traced = OwnDesign(r) /\ archGate[r].reviewed = OwnDesign(r)
        /\ \A t \in DesignTypes : \E v \in OwnLatest(r, t) :
             archPc[r] = "submitted" =>
                 \E w \in DOMAIN archRows[t] :
                     w >= v /\ archRows[t][w].status = "under_review"
=============================================================================
