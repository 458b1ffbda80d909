--------------------------- MODULE ProductPipeline ---------------------------
(***************************************************************************)
(* The Product department (services/product/agents): the head runs four    *)
(* writers, the reviewer and the artifact lead one after the other; the    *)
(* lead submits the latest draft of each document and announces them.      *)
(*                                                                         *)
(* The manager runs the pipeline within the request that starts a project: *)
(* a request that is repeated runs another one beside it.  An agent's run  *)
(* is one step here; AgentRuntime has its inside.                          *)
(***************************************************************************)
EXTENDS Naturals, Sequences, FiniteSets, FiniteSetsExt, SequencesExt

CONSTANT PpRuns  \* the runs of the pipeline

VARIABLES
  ppStep,       \* the step each run is at; 0 before it starts
  ppStatus,     \* the status of each run
  ppDrafts,     \* the writers of each document's rows, oldest first
  ppUnderReview,\* the writers of those under review; the others are drafts
  ppSelected,   \* the writer of the draft a run's lead read, if any, of each document so far
  ppAnnounced   \* the runs whose package was announced

ppVars == <<ppStep, ppStatus, ppDrafts, ppUnderReview, ppSelected, ppAnnounced>>

\* The lead's artifact_types, in the order the pipeline writes them.
Documents == <<"feature_spec_doc", "requirements_doc", "user_stories_doc", "acceptance_criteria">>
Reviewer  == Len(Documents) + 1
Lead      == Len(Documents) + 2

PpInit ==
  /\ ppStep = [r \in PpRuns |-> 0] /\ ppStatus = [r \in PpRuns |-> "running"]
  /\ ppDrafts = [d \in ToSet(Documents) |-> <<>>]
  /\ ppUnderReview = [d \in ToSet(Documents) |-> {}]
  /\ ppSelected = [r \in PpRuns |-> <<>>] /\ ppAnnounced = {}

StartPipeline(r) ==
  /\ ppStep[r] = 0 /\ ppStep' = [ppStep EXCEPT ![r] = 1]
  /\ UNCHANGED <<ppStatus, ppDrafts, ppUnderReview, ppSelected, ppAnnounced>>

\* Mutant: the pipeline goes on after a step that failed.
OnlyNext(r) ==
  ppStep' = [ppStep EXCEPT ![r] = @ + 1] /\ UNCHANGED ppStatus

\* A FAILED or ESCALATED result escalates the head: the pipeline stops.
StepFails(r) ==
  ppStatus' = [ppStatus EXCEPT ![r] = "escalated"] /\ UNCHANGED ppStep

Advance(r) == ppStep' = [ppStep EXCEPT ![r] = @ + 1] /\ UNCHANGED ppStatus

\* A writer inserts a draft and passes; it fails or escalates without one, or with one
\* when it raises on the items of the answer it has just stored.
Write(r) ==
  /\ ppStatus[r] = "running" /\ ppStep[r] \in DOMAIN Documents
  /\ \/ /\ ppDrafts' = [ppDrafts EXCEPT ![Documents[ppStep[r]]] = Append(@, r)]
        /\ Advance(r) \/ StepFails(r)
     \/ StepFails(r) /\ UNCHANGED ppDrafts
  /\ UNCHANGED <<ppUnderReview, ppSelected, ppAnnounced>>

\* The reviewer fails on its verdict, whatever the documents.
ReviewPackage(r) ==
  /\ ppStatus[r] = "running" /\ ppStep[r] = Reviewer
  /\ Advance(r) \/ StepFails(r)
  /\ UNCHANGED <<ppDrafts, ppUnderReview, ppSelected, ppAnnounced>>

\* The rows of a document that are still drafts, by their position.
Drafts(d) == {i \in DOMAIN ppDrafts[d] : ppDrafts[d][i] \notin ppUnderReview[d]}

\* The lead reads the latest draft of each document in turn, of those committed by then.
SelectDraft(r) ==
  LET d      == Documents[Len(ppSelected[r]) + 1]
      latest == IF Drafts(d) = {} THEN {} ELSE {ppDrafts[d][Max(Drafts(d))]}
  IN /\ ppStatus[r] = "running" /\ ppStep[r] = Lead /\ Len(ppSelected[r]) < Len(Documents)
     /\ ppSelected' = [ppSelected EXCEPT ![r] = Append(@, latest)]
     /\ UNCHANGED <<ppStep, ppStatus, ppDrafts, ppUnderReview, ppAnnounced>>

\* The commit sets the status of what was read, which another lead may have done before.
SubmitPackage(r) ==
  LET taken(d) == ppSelected[r][CHOOSE i \in DOMAIN Documents : Documents[i] = d]
  IN /\ ppStatus[r] = "running" /\ ppStep[r] = Lead /\ Len(ppSelected[r]) = Len(Documents)
     /\ \/ /\ ppUnderReview' = [d \in DOMAIN ppDrafts |-> ppUnderReview[d] \cup taken(d)]
           /\ Advance(r)
        \/ StepFails(r) /\ UNCHANGED ppUnderReview
     /\ UNCHANGED <<ppDrafts, ppSelected, ppAnnounced>>

\* The lead's event is published after its transaction, best effort; its result is
\* that of the transaction and the head completes.
AnnouncePackage(r) ==
  /\ ppStatus[r] = "running" /\ ppStep[r] = Lead + 1
  /\ ppAnnounced' \in {ppAnnounced, ppAnnounced \cup {r}}
  /\ ppStatus' = [ppStatus EXCEPT ![r] = "completed"]
  /\ UNCHANGED <<ppStep, ppDrafts, ppUnderReview, ppSelected>>

PpNext ==
  \E r \in PpRuns : StartPipeline(r) \/ Write(r) \/ ReviewPackage(r)
                    \/ SelectDraft(r) \/ SubmitPackage(r) \/ AnnouncePackage(r)

PpSpec == PpInit /\ [][PpNext]_ppVars

-----------------------------------------------------------------------------
\* A package that is announced for approval has one document of each kind, all of them
\* under review: with overlapping runs a lead may take the drafts of another run, or the
\* same ones as another lead, but never leaves a later one without.
PackageIsWhole ==
  \A r \in ppAnnounced : \A i \in DOMAIN Documents :
    /\ ppSelected[r][i] # {}
    /\ ppSelected[r][i] \subseteq ppUnderReview[Documents[i]]
=============================================================================
