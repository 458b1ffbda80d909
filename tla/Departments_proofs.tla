-------------------------- MODULE Departments_proofs --------------------------
(***************************************************************************)
(* What each department promises of its results, proved for any number of  *)
(* runs, workers, artifacts and review cycles.  A section per component:   *)
(* its inductive invariant as a conjunction of named parts, a lemma per    *)
(* group of actions, and the theorems.                                     *)
(*                                                                         *)
(*   Architecture  SubmissionsWereReviewed                                 *)
(*   Engineering   BranchesAreGated                                        *)
(*   QA            RetriesAreFounded                                       *)
(*   Security      FindingsAreKept                                         *)
(*   DevOps        ReleasesAreChecked, PassesStartOnce                     *)
(*   Product       PackagesAreWhole                                        *)
(*   Agent runtime RowsAreNumbered, StoredWasReviewed                      *)
(***************************************************************************)
EXTENDS Architecture, Engineering, QA, Security, DevOps, ProductPipeline, AgentRuntime,
        FiniteSetTheorems, SequenceTheorems, WellFoundedInduction, TLAPS

-----------------------------------------------------------------------------
(***************************************************************************)
(* Sequences and numbers                                                   *)
(***************************************************************************)
LEMMA ShortSeqs ==
  ASSUME NEW S
  PROVE  /\ <<>> \in Seq(S)
         /\ \A a \in S : <<a>> \in Seq(S)
         /\ \A a, b \in S : <<a, b>> \in Seq(S)
         /\ \A a, b, c \in S : <<a, b, c>> \in Seq(S)
OBVIOUS

\* What a concatenation mentions is what its parts mention.
Mentions(s, x) == \E i \in DOMAIN s : s[i] = x

LEMMA ConcatMentions ==
  ASSUME NEW S, NEW s \in Seq(S), NEW t \in Seq(S)
  PROVE  \A x : Mentions(s \o t, x) <=> Mentions(s, x) \/ Mentions(t, x)
<1>1. ASSUME NEW i \in DOMAIN s
      PROVE  i \in DOMAIN (s \o t) /\ (s \o t)[i] = s[i]
  BY <1>1
<1>2. ASSUME NEW i \in DOMAIN t
      PROVE  i + Len(s) \in DOMAIN (s \o t) /\ (s \o t)[i + Len(s)] = t[i]
  BY <1>2
<1>3. ASSUME NEW i \in DOMAIN (s \o t)
      PROVE  IF i \in DOMAIN s THEN (s \o t)[i] = s[i]
             ELSE i - Len(s) \in DOMAIN t /\ (s \o t)[i] = t[i - Len(s)]
  BY <1>3
<1> QED BY <1>1, <1>2, <1>3 DEF Mentions

\* What a sequence holds after an append.
LEMMA AppendedSet ==
  ASSUME NEW S, NEW s \in Seq(S), NEW e \in S
  PROVE  ToSet(Append(s, e)) = ToSet(s) \cup {e}
<1>1. \A i \in DOMAIN s : i \in DOMAIN Append(s, e) /\ Append(s, e)[i] = s[i]
  OBVIOUS
<1>2. Len(s) + 1 \in DOMAIN Append(s, e) /\ Append(s, e)[Len(s) + 1] = e
  OBVIOUS
<1>3. \A i \in DOMAIN Append(s, e) : i \in DOMAIN s \/ i = Len(s) + 1
  OBVIOUS
<1> QED BY <1>1, <1>2, <1>3 DEF ToSet

\* A bounded set of numbers has a greatest one.
LEMMA LatestExists ==
  ASSUME NEW n \in Nat, NEW S, S \subseteq 1 .. n, S # {}
  PROVE  \E m \in S : \A k \in S : k <= m
<1> DEFINE T == {n - k : k \in S}
           R == OpToRel(<, Nat)
<1>1. T \subseteq Nat
  <2>1. \A k \in S : n - k \in Nat
    OBVIOUS
  <2> QED BY <2>1
<1>2. T # {}
  <2>1. PICK k \in S : TRUE
    OBVIOUS
  <2>2. n - k \in T
    BY <2>1
  <2> QED BY <2>2
<1>3. IsWellFoundedOn(R, Nat)
  BY NatLessThanWellFounded
<1>4. \A x, y \in Nat : y < x => <<y, x>> \in R
  BY DEF OpToRel
<1>5. PICK x \in T : \A y \in T : ~ (<<y, x>> \in R)
  <2> HIDE DEF T, R
  <2> QED BY <1>1, <1>2, <1>3, WFMin
<1>6. \A y \in T : ~(y < x)
  <2> HIDE DEF T, R
  <2> QED BY <1>1, <1>4, <1>5
<1>7. PICK m \in S : x = n - m
  BY <1>5
<1>8. ASSUME NEW k \in S
      PROVE  k <= m
  <2>1. ~(n - k < n - m)
    BY <1>6, <1>7
  <2> QED BY <2>1
<1> QED BY <1>8

LEMMA MaxOfBounded ==
  ASSUME NEW n \in Nat, NEW S, S \subseteq 1 .. n, S # {}
  PROVE  Max(S) \in S /\ \A k \in S : k <= Max(S)
BY LatestExists DEF Max

-----------------------------------------------------------------------------
(***************************************************************************)
(* Architecture                                                            *)
(***************************************************************************)
ArchPcs == {"idle", "design", "platform", "traceability", "redesign", "review", "submit",
            "submitted", "announced", "escalated"}
ArchRowStates == [run : ArchRuns, status : {"draft", "under_review"}, saw : SUBSET ArtifactTypes]
ArchDesigns == [DesignTypes -> SUBSET Nat]

ArchTypeOK ==
  /\ archPc \in [ArchRuns -> ArchPcs] /\ archStep \in [ArchRuns -> 1 .. 6]
  /\ archAttempt \in [ArchRuns -> Nat]
  /\ archRows \in [ArtifactTypes -> Seq(ArchRowStates)]
  /\ archCtx \in [ArchRuns -> SUBSET ArtifactTypes]
  /\ archWork \in [ArchRuns -> SUBSET PlatformTypes]
  /\ archGate \in [ArchRuns -> [traced : ArchDesigns, reviewed : ArchDesigns]]
  /\ archSent \in [ArchRuns -> SUBSET (ArtifactTypes \X Nat)]

\* The pipeline starts at its first type, and the submission at its first row.
StepsStartAtOne(r) ==
  /\ archPc[r] \in {"idle", "platform", "traceability", "review"} => archStep[r] = 1
  /\ archPc[r] \in {"design", "redesign"} => archStep[r] \in 1 .. 3

\* The run made a version of the type.
Made(r, t) == \E v \in DOMAIN archRows[t] : archRows[t][v].run = r

UnderReview(t, w) == w \in DOMAIN archRows[t] /\ archRows[t][w].status = "under_review"
Picked(r, t, w) == w \in DOMAIN archRows[t] /\ <<t, w>> \in archSent[r]

\* What a run has checked by the time it gets somewhere.
DesignIsOwn(r) ==
  /\ archPc[r] = "design" => \A i \in 1 .. archStep[r] - 1 : Made(r, DesignPipeline[i])
  /\ archPc[r] \in {"platform", "traceability", "redesign", "review", "submit", "submitted",
                    "announced"} => \A t \in DesignTypes : Made(r, t)
  /\ archPc[r] \in {"review", "submit", "submitted", "announced"} =>
       archGate[r].traced = OwnDesign(r)
  /\ archPc[r] \in {"submit", "submitted", "announced"} => archGate[r].reviewed = OwnDesign(r)

\* Of the types it is through with, a submission has picked the run's own version
\* or a later one, unless such a version is under review already.
SubmissionCovers(r) ==
  /\ archPc[r] = "submit" =>
       \A i \in 1 .. 3 : i < archStep[r] => \A v \in OwnLatest(r, DesignPipeline[i]) :
         \E w \in Nat : w >= v /\ (UnderReview(DesignPipeline[i], w) \/ Picked(r, DesignPipeline[i], w))
  /\ archPc[r] = "submitted" =>
       \A t \in DesignTypes : \A v \in OwnLatest(r, t) :
         \E w \in Nat : w >= v /\ UnderReview(t, w)

ArchRunInv(r) == StepsStartAtOne(r) /\ DesignIsOwn(r) /\ SubmissionCovers(r)

ArchInv == ArchTypeOK /\ \A r \in ArchRuns : ArchRunInv(r)

LEMMA DesignPipelineTypes ==
  /\ DesignTypes = {"architecture_blueprint", "api_spec", "database_schema"}
  /\ \A i \in 1 .. 3 : DesignPipeline[i] \in DesignTypes
  /\ \A t \in DesignTypes : \E i \in 1 .. 3 : t = DesignPipeline[i]
  /\ Len(DesignPipeline) = 3
  /\ DesignTypes \subseteq ArtifactTypes
<1>1. DOMAIN DesignPipeline = {1, 2, 3} /\ Len(DesignPipeline) = 3 /\ 1 .. 3 = {1, 2, 3}
  BY DEF DesignPipeline
<1>2. /\ DesignPipeline[1] = "architecture_blueprint" /\ DesignPipeline[2] = "api_spec"
      /\ DesignPipeline[3] = "database_schema"
  BY DEF DesignPipeline
<1>3. DesignTypes = {DesignPipeline[1], DesignPipeline[2], DesignPipeline[3]}
  BY <1>1 DEF DesignTypes
<1> QED BY <1>1, <1>2, <1>3 DEF ArtifactTypes

\* The submission takes the design first, in the order of the pipeline.
LEMMA ApprovalTypes ==
  /\ Len(ApprovalArtifacts) = 5 /\ DOMAIN ApprovalArtifacts = 1 .. 5
  /\ \A i \in 1 .. 3 : ApprovalArtifacts[i] = DesignPipeline[i]
  /\ \A i \in 1 .. 5 : ApprovalArtifacts[i] \in ArtifactTypes
<1>1. Len(ApprovalArtifacts) = 5 /\ DOMAIN ApprovalArtifacts = 1 .. 5 /\ 1 .. 3 = {1, 2, 3}
      /\ 1 .. 5 = {1, 2, 3, 4, 5}
  BY DEF ApprovalArtifacts
<1>2. \A i \in 1 .. 3 : ApprovalArtifacts[i] = DesignPipeline[i]
  BY <1>1 DEF ApprovalArtifacts, DesignPipeline
<1>3. ApprovalArtifacts[4] \in PlatformTypes /\ ApprovalArtifacts[5] \in PlatformTypes
  BY ArchitectureAssumption DEF ApprovalArtifacts
<1> QED BY <1>1, <1>2, <1>3, DesignPipelineTypes DEF ArtifactTypes

\* A run that made versions of a type has a latest one.
LEMMA OwnLatestExists ==
  ASSUME ArchTypeOK, NEW r \in ArchRuns, NEW t \in DesignTypes, Made(r, t)
  PROVE  OwnLatest(r, t) # {}
<1> DEFINE S == {v \in DOMAIN archRows[t] : archRows[t][v].run = r}
<1>1. archRows[t] \in Seq(ArchRowStates)
  BY DesignPipelineTypes DEF ArchTypeOK
<1>2. PICK n \in Nat : DOMAIN archRows[t] = 1 .. n
  BY <1>1
<1>3. S \subseteq 1 .. n /\ S # {}
  BY <1>2 DEF Made
<1> HIDE DEF S
<1>4. PICK m \in S : \A k \in S : k <= m
  BY <1>2, <1>3, LatestExists
<1> QED BY <1>4 DEF OwnLatest, S

LEMMA OwnDesignIsDesign ==
  ASSUME ArchTypeOK, NEW r \in ArchRuns
  PROVE  OwnDesign(r) \in ArchDesigns
<1>1. ASSUME NEW t \in DesignTypes PROVE OwnLatest(r, t) \subseteq Nat
  <2>1. archRows[t] \in Seq(ArchRowStates)
    BY DesignPipelineTypes DEF ArchTypeOK
  <2> QED BY <2>1 DEF OwnLatest
<1> QED BY <1>1 DEF OwnDesign, ArchDesigns

LEMMA ArchInitInv == ArchInit => ArchInv
<1> SUFFICES ASSUME ArchInit PROVE ArchInv OBVIOUS
<1>1. \A S : <<>> \in Seq(S)
  OBVIOUS
<1>2. [t \in DesignTypes |-> {}] \in ArchDesigns
  BY DEF ArchDesigns
<1>3. ArchTypeOK
  BY <1>1, <1>2 DEF ArchInit, ArchTypeOK, Unchecked, ArchPcs
<1> QED BY <1>3 DEF ArchInit, ArchInv, ArchRunInv, StepsStartAtOne, DesignIsOwn, SubmissionCovers

\* What a step on the rows leaves to a run: its own versions, and what is under
\* review of anybody's.
RowsKept(q) ==
  /\ \A u \in DesignTypes : OwnLatest(q, u)' = OwnLatest(q, u) /\ (Made(q, u) => Made(q, u)')
  /\ \A u \in DesignTypes : \A w \in Nat : UnderReview(u, w) => UnderReview(u, w)'
  /\ \A u \in DesignTypes : DOMAIN archRows[u] \subseteq (DOMAIN archRows[u])'

LEMMA SameRowsKept ==
  ASSUME UNCHANGED archRows
  PROVE  \A q \in ArchRuns : RowsKept(q)
BY DEF RowsKept, OwnLatest, Made, UnderReview

LEMMA OtherRunKept ==
  ASSUME NEW q \in ArchRuns, ArchRunInv(q), RowsKept(q),
         archPc'[q] = archPc[q], archStep'[q] = archStep[q], archGate'[q] = archGate[q],
         archSent'[q] = archSent[q]
  PROVE  ArchRunInv(q)'
<1>1. StepsStartAtOne(q)'
  BY DEF ArchRunInv, StepsStartAtOne
<1>2. OwnDesign(q)' = OwnDesign(q)
  BY DEF RowsKept, OwnDesign
<1>3. DesignIsOwn(q)'
  <2>1. ASSUME archPc[q] = "design", StepsStartAtOne(q), NEW i \in 1 .. archStep[q] - 1,
               Made(q, DesignPipeline[i])
        PROVE  Made(q, DesignPipeline[i])'
    <3>1. i \in 1 .. 3
      BY <2>1 DEF StepsStartAtOne
    <3> QED BY <2>1, <3>1, DesignPipelineTypes DEF RowsKept
  <2> QED BY <1>2, <2>1 DEF ArchRunInv, DesignIsOwn, RowsKept
<1>4. SubmissionCovers(q)'
  <2>1. ASSUME NEW u \in DesignTypes, NEW w \in Nat, Picked(q, u, w)
        PROVE  Picked(q, u, w)'
    BY <2>1 DEF RowsKept, Picked
  <2>2. ASSUME archPc'[q] = "submit", NEW i \in 1 .. 3, i < archStep'[q],
               NEW v \in OwnLatest(q, DesignPipeline[i])'
        PROVE  \E w \in Nat : w >= v /\ (UnderReview(DesignPipeline[i], w)'
                                         \/ Picked(q, DesignPipeline[i], w)')
    <3> DEFINE u == DesignPipeline[i]
    <3>1. u \in DesignTypes
      BY DesignPipelineTypes
    <3> HIDE DEF u
    <3>2. v \in OwnLatest(q, u)
      BY <2>2, <3>1 DEF RowsKept, u
    <3>3. PICK w \in Nat : w >= v /\ (UnderReview(u, w) \/ Picked(q, u, w))
      BY <2>2, <3>2 DEF ArchRunInv, SubmissionCovers, u
    <3>4. UnderReview(u, w)' \/ Picked(q, u, w)'
      BY <2>1, <3>1, <3>3 DEF RowsKept
    <3> QED BY <3>3, <3>4 DEF u
  <2>3. ASSUME archPc'[q] = "submitted", NEW t \in DesignTypes, NEW v \in OwnLatest(q, t)'
        PROVE  \E w \in Nat : w >= v /\ UnderReview(t, w)'
    BY <2>3 DEF ArchRunInv, SubmissionCovers, RowsKept
  <2> QED BY <2>2, <2>3 DEF SubmissionCovers
<1> QED BY <1>1, <1>3, <1>4 DEF ArchRunInv

\* A new draft of a run is its own, and leaves the other runs their versions.
LEMMA NewDraftKeeps ==
  ASSUME ArchTypeOK, NEW r \in ArchRuns, NEW t \in ArtifactTypes, NewDraft(r, t)
  PROVE  /\ archRows' \in [ArtifactTypes -> Seq(ArchRowStates)]
         /\ Made(r, t)'
         /\ \A u \in DesignTypes : Made(r, u) => Made(r, u)'
         /\ \A q \in ArchRuns \ {r} : RowsKept(q)
<1> DEFINE row == [run |-> r, status |-> "draft", saw |-> archCtx[r]]
<1>1. row \in ArchRowStates /\ row.run = r
  BY DEF ArchTypeOK, ArchRowStates
<1>2. archRows' = [archRows EXCEPT ![t] = Append(archRows[t], row)]
  BY DEF NewDraft
<1> HIDE DEF row
<1>3. archRows' \in [ArtifactTypes -> Seq(ArchRowStates)]
  <2>1. Append(archRows[t], row) \in Seq(ArchRowStates)
    BY <1>1 DEF ArchTypeOK
  <2> QED BY <1>2, <2>1 DEF ArchTypeOK
<1>4. PICK n \in Nat : /\ DOMAIN archRows[t] = 1 .. n /\ DOMAIN archRows'[t] = 1 .. n + 1
                       /\ archRows'[t][n + 1] = row
                       /\ \A w \in 1 .. n : archRows'[t][w] = archRows[t][w]
  <2>1. archRows[t] \in Seq(ArchRowStates) /\ archRows'[t] = Append(archRows[t], row)
    BY <1>2 DEF ArchTypeOK
  <2>2. PICK n \in Nat : n = Len(archRows[t])
    BY <2>1
  <2> QED BY <1>1, <2>1, <2>2
<1>5. \A u \in ArtifactTypes \ {t} : archRows'[u] = archRows[u]
  BY <1>2 DEF ArchTypeOK
<1>6. \A u \in ArtifactTypes : \A w \in DOMAIN archRows[u] :
        w \in DOMAIN archRows'[u] /\ archRows'[u][w] = archRows[u][w]
  <2>1. \A w \in DOMAIN archRows[t] : w \in DOMAIN archRows'[t] /\ archRows'[t][w] = archRows[t][w]
    BY <1>4
  <2> QED BY <1>5, <2>1
<1>7. Made(r, t)'
  BY <1>1, <1>4 DEF Made
<1>8. ASSUME NEW q \in ArchRuns, NEW u \in DesignTypes, Made(q, u)
      PROVE  Made(q, u)'
  BY <1>6, <1>8, DesignPipelineTypes DEF Made
<1>9. ASSUME NEW q \in ArchRuns \ {r}, NEW u \in DesignTypes
      PROVE  OwnLatest(q, u)' = OwnLatest(q, u)
  <2>1. CASE u # t
    BY <1>5, <2>1, DesignPipelineTypes DEF OwnLatest
  <2>2. CASE u = t
    <3>1. \A w \in 1 .. n + 1 : archRows'[t][w].run = q <=> w \in 1 .. n /\ archRows[t][w].run = q
      BY <1>1, <1>4
    <3>2. ASSUME NEW v PROVE v \in OwnLatest(q, u)' <=> v \in OwnLatest(q, u)
      BY <1>4, <2>2, <3>1 DEF OwnLatest
    <3> QED BY <3>2 DEF OwnLatest
  <2> QED BY <2>1, <2>2
<1>10. ASSUME NEW u \in DesignTypes, NEW w \in Nat, UnderReview(u, w)
       PROVE  UnderReview(u, w)'
  BY <1>6, <1>10, DesignPipelineTypes DEF UnderReview
<1>11. \A u \in DesignTypes : DOMAIN archRows[u] \subseteq (DOMAIN archRows[u])'
  BY <1>6, DesignPipelineTypes
<1> QED BY <1>3, <1>7, <1>8, <1>9, <1>10, <1>11 DEF RowsKept

\* The pipeline leaves a version of every type it is through with.
LEMMA SystemDesignInv ==
  ASSUME ArchInv, NEW r \in ArchRuns, SystemDesign(r)
  PROVE  ArchInv'
<1>1. ArchTypeOK /\ ArchRunInv(r) /\ archPc[r] \in {"design", "redesign"}
      /\ archStep[r] \in 1 .. 3 /\ UNCHANGED <<archAttempt, archGate, archSent>>
  BY DEF ArchInv, ArchRunInv, StepsStartAtOne, SystemDesign
<1>2. PICK t \in DesignTypes : t = DesignPipeline[archStep[r]] /\ t \in ArtifactTypes
  BY <1>1, DesignPipelineTypes
<1>3. NewDraft(r, t) \/ UNCHANGED archRows
  BY <1>2 DEF SystemDesign, DesignFails, DesignCompletes
<1>4. /\ archRows' \in [ArtifactTypes -> Seq(ArchRowStates)]
      /\ \A u \in DesignTypes : Made(r, u) => Made(r, u)'
      /\ \A q \in ArchRuns \ {r} : RowsKept(q)
  <2>1. CASE NewDraft(r, t)
    BY <1>1, <1>2, <2>1, NewDraftKeeps
  <2>2. CASE UNCHANGED archRows
    BY <1>1, <2>2, SameRowsKept DEF ArchTypeOK, Made
  <2> QED BY <1>3, <2>1, <2>2
<1>5. /\ archCtx' \in [ArchRuns -> SUBSET ArtifactTypes]
      /\ archPc' \in [ArchRuns -> ArchPcs] /\ archStep' \in [ArchRuns -> 1 .. 6]
      /\ archWork' \in [ArchRuns -> SUBSET PlatformTypes]
      /\ \A q \in ArchRuns \ {r} : archPc'[q] = archPc[q] /\ archStep'[q] = archStep[q]
      /\ \/ /\ archPc[r] = "design" /\ archPc'[r] = "escalated"
         \/ /\ archPc[r] = "redesign" /\ archPc'[r] = "traceability" /\ archStep'[r] = 1
         \/ /\ NewDraft(r, t) /\ archPc'[r] = archPc[r]
            /\ archStep[r] < 3 /\ archStep'[r] = archStep[r] + 1
         \/ /\ NewDraft(r, t) /\ archStep[r] = 3 /\ archStep'[r] = 1
            /\ archPc[r] = "design" /\ archPc'[r] = "platform"
  <2>1. CASE DesignFails(r)
    BY <1>1, <2>1 DEF DesignFails, ArchTypeOK, ArchPcs
  <2>2. CASE DesignCompletes(r)
    <3>1. archCtx' \in [ArchRuns -> SUBSET ArtifactTypes]
      BY <1>1, <1>2, <2>2 DEF DesignCompletes, CtxUpdate, ArchTypeOK
    <3>2. NewDraft(r, t)
      BY <1>2, <2>2 DEF DesignCompletes
    <3>3. CASE archStep[r] < 3
      <4>1. archStep' = [archStep EXCEPT ![r] = archStep[r] + 1] /\ UNCHANGED <<archPc, archWork>>
        BY <2>2, <3>3, DesignPipelineTypes DEF DesignCompletes
      <4>2. archStep' \in [ArchRuns -> 1 .. 6] /\ archStep'[r] = archStep[r] + 1
            /\ \A q \in ArchRuns \ {r} : archStep'[q] = archStep[q]
        BY <1>1, <3>3, <4>1 DEF ArchTypeOK
      <4>3. archPc \in [ArchRuns -> ArchPcs] /\ archWork \in [ArchRuns -> SUBSET PlatformTypes]
        BY <1>1 DEF ArchTypeOK
      <4> QED BY <3>1, <3>2, <3>3, <4>1, <4>2, <4>3
    <3>4. CASE archStep[r] = 3
      <4>1. AfterDesign(r)
        BY <2>2, <3>4, DesignPipelineTypes DEF DesignCompletes
      <4> QED BY <1>1, <3>1, <3>2, <3>4, <4>1 DEF AfterDesign, ArchTypeOK, ArchPcs
    <3> QED BY <1>1, <3>3, <3>4
  <2> QED BY <2>1, <2>2 DEF SystemDesign
<1>6. ArchTypeOK'
  BY <1>1, <1>4, <1>5 DEF ArchTypeOK
<1>7. ASSUME NEW q \in ArchRuns \ {r} PROVE ArchRunInv(q)'
  <2>1. ArchRunInv(q)
    BY DEF ArchInv
  <2> QED BY <1>1, <1>4, <1>5, <2>1, OtherRunKept
<1>8. StepsStartAtOne(r)'
  BY <1>1, <1>5 DEF StepsStartAtOne
<1>9. archPc[r] = "redesign" => \A u \in DesignTypes : Made(r, u)'
  BY <1>1, <1>4 DEF ArchRunInv, DesignIsOwn
<1>10. archPc[r] = "design" /\ NewDraft(r, t) =>
         \A i \in 1 .. archStep[r] : Made(r, DesignPipeline[i])'
  <2>1. ASSUME archPc[r] = "design", NewDraft(r, t), NEW i \in 1 .. archStep[r]
        PROVE  Made(r, DesignPipeline[i])'
    <3>1. CASE i = archStep[r]
      <4>1. Made(r, t)'
        BY <1>1, <1>2, <2>1, NewDraftKeeps
      <4> QED BY <1>2, <3>1, <4>1
    <3>2. CASE i # archStep[r]
      <4>1. i \in 1 .. archStep[r] - 1 /\ i \in 1 .. 3
        BY <1>1, <3>2
      <4>2. Made(r, DesignPipeline[i])
        BY <1>1, <2>1, <4>1 DEF ArchRunInv, DesignIsOwn
      <4> QED BY <1>4, <4>1, <4>2, DesignPipelineTypes
    <3> QED BY <3>1, <3>2
  <2> QED BY <2>1
<1>11. DesignIsOwn(r)'
  <2>1. archPc'[r] = "design" => \A i \in 1 .. archStep'[r] - 1 : Made(r, DesignPipeline[i])'
    <3>1. archPc'[r] = "design" =>
            archPc[r] = "design" /\ NewDraft(r, t) /\ archStep'[r] - 1 = archStep[r]
      BY <1>1, <1>5
    <3> QED BY <1>10, <3>1
  <2>2. archPc'[r] = "platform" => \A u \in DesignTypes : Made(r, u)'
    <3>1. archPc'[r] = "platform" =>
            archPc[r] = "design" /\ NewDraft(r, t) /\ archStep[r] = 3
      BY <1>1, <1>5
    <3> QED BY <1>10, <3>1, DesignPipelineTypes
  <2>3. archPc'[r] \in {"traceability", "redesign"} => archPc[r] = "redesign"
    BY <1>1, <1>5
  <2>4. archPc'[r] \in {"design", "platform", "traceability", "redesign", "escalated"}
    BY <1>1, <1>5
  <2> QED BY <1>9, <2>1, <2>2, <2>3, <2>4 DEF DesignIsOwn
<1>12. SubmissionCovers(r)'
  BY <1>1, <1>5 DEF SubmissionCovers
<1> QED BY <1>6, <1>7, <1>8, <1>11, <1>12 DEF ArchInv, ArchRunInv

LEMMA PlatformInv ==
  ASSUME ArchInv, NEW r \in ArchRuns, NEW t \in PlatformTypes, PlatformWorker(r, t)
  PROVE  ArchInv'
<1>1. /\ ArchTypeOK /\ ArchRunInv(r) /\ archPc[r] = "platform" /\ t \in ArtifactTypes
      /\ UNCHANGED <<archStep, archAttempt, archGate, archSent>>
  BY DEF ArchInv, PlatformWorker, ArtifactTypes
<1>2. /\ archPc' \in [ArchRuns -> ArchPcs] /\ archWork' \in [ArchRuns -> SUBSET PlatformTypes]
      /\ archCtx' \in [ArchRuns -> SUBSET ArtifactTypes]
      /\ archPc'[r] \in {"platform", "traceability"}
      /\ \A q \in ArchRuns \ {r} : archPc'[q] = archPc[q]
  <2>1. archPc' = [archPc EXCEPT ![r] = IF archWork[r] = {t} THEN "traceability" ELSE archPc[r]]
        /\ archWork' = [archWork EXCEPT ![r] = archWork[r] \ {t}]
    BY DEF PlatformWorker
  <2>2. /\ archPc' \in [ArchRuns -> ArchPcs] /\ archPc'[r] \in {"platform", "traceability"}
        /\ \A q \in ArchRuns \ {r} : archPc'[q] = archPc[q]
    BY <1>1, <2>1 DEF ArchTypeOK, ArchPcs
  <2>3. archWork' \in [ArchRuns -> SUBSET PlatformTypes]
    BY <1>1, <2>1 DEF ArchTypeOK
  <2>4. archCtx' \in [ArchRuns -> SUBSET ArtifactTypes]
    <3>1. CtxUpdate(r, t) \/ UNCHANGED archCtx
      BY DEF PlatformWorker
    <3>2. archCtx \in [ArchRuns -> SUBSET ArtifactTypes]
      BY <1>1 DEF ArchTypeOK
    <3> QED BY <1>1, <3>1, <3>2 DEF CtxUpdate
  <2> QED BY <2>2, <2>3, <2>4
<1>3. /\ archRows' \in [ArtifactTypes -> Seq(ArchRowStates)]
      /\ \A u \in DesignTypes : Made(r, u) => Made(r, u)'
      /\ \A q \in ArchRuns \ {r} : RowsKept(q)
  <2>1. CASE NewDraft(r, t)
    BY <1>1, <2>1, NewDraftKeeps
  <2>2. CASE UNCHANGED archRows
    BY <1>1, <2>2, SameRowsKept DEF ArchTypeOK, Made
  <2> QED BY <2>1, <2>2 DEF PlatformWorker
<1>4. ArchTypeOK'
  BY <1>1, <1>2, <1>3 DEF ArchTypeOK
<1>5. ASSUME NEW q \in ArchRuns \ {r} PROVE ArchRunInv(q)'
  <2>1. ArchRunInv(q)
    BY DEF ArchInv
  <2> QED BY <1>1, <1>2, <1>3, <2>1, OtherRunKept
<1>6. ArchRunInv(r)'
  BY <1>1, <1>2, <1>3 DEF ArchRunInv, StepsStartAtOne, DesignIsOwn, SubmissionCovers
<1> QED BY <1>4, <1>5, <1>6 DEF ArchInv

\* A head starts afresh, and a check sees the design as it is.
LEMMA ArchChecksInv ==
  ASSUME ArchInv, NEW r \in ArchRuns, StartRun(r) \/ Traceability(r) \/ Review(r)
  PROVE  ArchInv'
<1>1. /\ ArchTypeOK /\ ArchRunInv(r)
      /\ UNCHANGED <<archStep, archRows, archCtx, archWork, archSent>>
  BY DEF ArchInv, StartRun, Traceability, Review
<1>2. OwnDesign(r) \in ArchDesigns /\ (\A q \in ArchRuns : RowsKept(q))
      /\ OwnDesign(r)' = OwnDesign(r) /\ (\A t \in DesignTypes : Made(r, t) => Made(r, t)')
  BY <1>1, OwnDesignIsDesign, SameRowsKept DEF RowsKept, OwnDesign
<1> DEFINE Goes(p) == archPc' = [archPc EXCEPT ![r] = p]
<1>20. \/ archPc[r] = "idle" /\ Goes("design") /\ UNCHANGED <<archAttempt, archGate>>
       \/ /\ archPc[r] = "traceability" /\ Goes("review") /\ UNCHANGED archAttempt
          /\ archGate' = [archGate EXCEPT ![r].traced = OwnDesign(r)]
       \/ /\ archPc[r] = "review" /\ Goes("submit") /\ UNCHANGED archAttempt
          /\ archGate' = [archGate EXCEPT ![r].reviewed = OwnDesign(r)]
       \/ /\ archPc[r] \in {"traceability", "review"} /\ UNCHANGED archGate
          /\ \/ Goes("redesign") /\ archAttempt' = [archAttempt EXCEPT ![r] = archAttempt[r] + 1]
             \/ Goes("escalated") /\ UNCHANGED archAttempt
  <2>1. CASE StartRun(r)
    BY <2>1 DEF StartRun
  <2>2. ASSUME NEW about \in BOOLEAN, ReviewEscalates(r, about)
        PROVE  /\ UNCHANGED archGate
               /\ \/ Goes("redesign") /\ archAttempt' = [archAttempt EXCEPT ![r] = archAttempt[r] + 1]
                  \/ Goes("escalated") /\ UNCHANGED archAttempt
    BY <2>2 DEF ReviewEscalates
  <2>3. CASE Traceability(r)
    BY <2>2, <2>3 DEF Traceability
  <2>4. CASE Review(r)
    BY <2>2, <2>4 DEF Review
  <2> QED BY <2>1, <2>3, <2>4
<1>21. archAttempt \in [ArchRuns -> Nat] /\ archPc \in [ArchRuns -> ArchPcs]
  BY <1>1 DEF ArchTypeOK
<1>3. /\ archPc' \in [ArchRuns -> ArchPcs]
      /\ archAttempt' \in [ArchRuns -> Nat]
      /\ \A q \in ArchRuns \ {r} : archPc'[q] = archPc[q]
      /\ \/ archPc[r] = "idle" /\ archPc'[r] = "design"
         \/ archPc[r] = "traceability" /\ archPc'[r] = "review"
         \/ archPc[r] = "review" /\ archPc'[r] = "submit"
         \/ archPc[r] \in {"traceability", "review"} /\ archPc'[r] \in {"redesign", "escalated"}
  <2>1. archAttempt' \in [ArchRuns -> Nat]
    BY <1>20, <1>21
  <2>2. ASSUME NEW p \in ArchPcs, Goes(p)
        PROVE  /\ archPc' \in [ArchRuns -> ArchPcs] /\ archPc'[r] = p
               /\ \A q \in ArchRuns \ {r} : archPc'[q] = archPc[q]
    BY <1>21, <2>2
  <2>3. {"design", "review", "submit", "redesign", "escalated"} \subseteq ArchPcs
    BY DEF ArchPcs
  <2> HIDE DEF Goes
  <2> QED BY <1>20, <2>1, <2>2, <2>3
<1>4. /\ archGate' \in [ArchRuns -> [traced : ArchDesigns, reviewed : ArchDesigns]]
      /\ \A q \in ArchRuns \ {r} : archGate'[q] = archGate[q]
      /\ archPc'[r] = "review" => archGate'[r].traced = OwnDesign(r)
      /\ archPc'[r] = "submit" => /\ archGate'[r].traced = archGate[r].traced
                                  /\ archGate'[r].reviewed = OwnDesign(r)
  <2>1. archGate \in [ArchRuns -> [traced : ArchDesigns, reviewed : ArchDesigns]]
    BY <1>1 DEF ArchTypeOK
  <2>2. CASE UNCHANGED archGate /\ archPc'[r] \notin {"review", "submit"}
    BY <2>1, <2>2
  <2>3. CASE archPc'[r] = "review" /\ archGate' = [archGate EXCEPT ![r].traced = OwnDesign(r)]
    BY <1>2, <2>1, <2>3
  <2>4. CASE archPc'[r] = "submit" /\ archGate' = [archGate EXCEPT ![r].reviewed = OwnDesign(r)]
    BY <1>2, <2>1, <2>4
  <2>5. \A p \in ArchPcs : Goes(p) => archPc'[r] = p
    BY <1>21
  <2>6. {"design", "review", "submit", "redesign", "escalated"} \subseteq ArchPcs
    BY DEF ArchPcs
  <2> HIDE DEF Goes
  <2> QED BY <1>20, <2>2, <2>3, <2>4, <2>5, <2>6
<1>5. ArchTypeOK'
  BY <1>1, <1>3, <1>4 DEF ArchTypeOK
<1>6. ASSUME NEW q \in ArchRuns \ {r} PROVE ArchRunInv(q)'
  <2>1. ArchRunInv(q)
    BY DEF ArchInv
  <2> QED BY <1>1, <1>2, <1>3, <1>4, <2>1, OtherRunKept
<1>7. StepsStartAtOne(r)'
  BY <1>1, <1>3 DEF ArchRunInv, StepsStartAtOne
<1>8. DesignIsOwn(r)'
  <2>1. archPc'[r] = "design" => 1 .. archStep'[r] - 1 = {}
    BY <1>1, <1>3 DEF ArchRunInv, StepsStartAtOne
  <2>2. archPc'[r] \in {"review", "submit", "redesign"} => \A t \in DesignTypes : Made(r, t)'
    BY <1>1, <1>2, <1>3 DEF ArchRunInv, DesignIsOwn
  <2>3. archPc'[r] \in {"review", "submit"} => archGate'[r].traced = OwnDesign(r)'
    BY <1>1, <1>2, <1>3, <1>4 DEF ArchRunInv, DesignIsOwn
  <2> QED BY <1>2, <1>3, <1>4, <2>1, <2>2, <2>3 DEF DesignIsOwn
<1>9. SubmissionCovers(r)'
  <2>1. archPc'[r] = "submit" => archStep'[r] = 1
    BY <1>1, <1>3 DEF ArchRunInv, StepsStartAtOne
  <2> QED BY <1>3, <2>1 DEF SubmissionCovers
<1> QED BY <1>5, <1>6, <1>7, <1>8, <1>9 DEF ArchInv, ArchRunInv

\* The latest draft of a type is no older than the run's own version, unless that
\* version is no draft any more.
LEMMA SelectInv ==
  ASSUME ArchInv, NEW r \in ArchRuns, SelectForApproval(r)
  PROVE  ArchInv'
<1>1. /\ ArchTypeOK /\ ArchRunInv(r) /\ archPc[r] = "submit" /\ archStep[r] \in 1 .. 5
      /\ UNCHANGED <<archPc, archAttempt, archRows, archCtx, archWork, archGate>>
  BY ApprovalTypes DEF ArchInv, SelectForApproval
<1>2. PICK t \in ArtifactTypes : t = ApprovalArtifacts[archStep[r]]
  BY <1>1, ApprovalTypes
<1>3. /\ archSent' = [archSent EXCEPT ![r] = archSent[r] \cup ({t} \X LatestDraft(t))]
      /\ archStep' = [archStep EXCEPT ![r] = archStep[r] + 1]
  BY <1>2 DEF SelectForApproval
<1>4. archRows[t] \in Seq(ArchRowStates)
  BY <1>1 DEF ArchTypeOK
<1>5. LatestDraft(t) \subseteq Nat
  BY <1>4 DEF LatestDraft
<1>6. /\ archSent' \in [ArchRuns -> SUBSET (ArtifactTypes \X Nat)]
      /\ archSent'[r] = archSent[r] \cup ({t} \X LatestDraft(t))
      /\ \A q \in ArchRuns \ {r} : archSent'[q] = archSent[q]
  BY <1>1, <1>3, <1>5 DEF ArchTypeOK
<1>7. /\ archStep' \in [ArchRuns -> 1 .. 6] /\ archStep'[r] = archStep[r] + 1
      /\ \A q \in ArchRuns \ {r} : archStep'[q] = archStep[q]
  BY <1>1, <1>3 DEF ArchTypeOK
<1>8. ArchTypeOK'
  BY <1>1, <1>6, <1>7 DEF ArchTypeOK
<1>9. \A q \in ArchRuns : RowsKept(q)
  BY <1>1, SameRowsKept
<1>10. ASSUME NEW q \in ArchRuns \ {r} PROVE ArchRunInv(q)'
  <2>1. ArchRunInv(q)
    BY DEF ArchInv
  <2> QED BY <1>1, <1>6, <1>7, <1>9, <2>1, OtherRunKept
<1>11. OwnDesign(r)' = OwnDesign(r) /\ (\A u \in DesignTypes : Made(r, u) => Made(r, u)')
  BY <1>9 DEF RowsKept, OwnDesign
<1>12. StepsStartAtOne(r)' /\ DesignIsOwn(r)'
  BY <1>1, <1>11 DEF ArchRunInv, StepsStartAtOne, DesignIsOwn
<1>13. ASSUME NEW i \in 1 .. 3, i < archStep'[r], NEW v \in OwnLatest(r, DesignPipeline[i])
       PROVE  \E w \in Nat : w >= v /\ (UnderReview(DesignPipeline[i], w)'
                                        \/ Picked(r, DesignPipeline[i], w)')
  <2> DEFINE u == DesignPipeline[i]
  <2>1. u \in DesignTypes /\ u \in ArtifactTypes
    BY DesignPipelineTypes
  <2>2. CASE i < archStep[r]
    <3>1. PICK w \in Nat : w >= v /\ (UnderReview(u, w) \/ Picked(r, u, w))
      BY <1>1, <1>13, <2>2 DEF ArchRunInv, SubmissionCovers
    <3> HIDE DEF u
    <3>2. UnderReview(u, w)' \/ Picked(r, u, w)'
      BY <1>1, <1>6, <3>1 DEF UnderReview, Picked
    <3> QED BY <3>1, <3>2 DEF u
  <2>3. CASE i >= archStep[r]
    <3>1. u = t
      BY <1>1, <1>2, <1>7, <1>13, <2>3, ApprovalTypes
    <3> HIDE DEF u
    <3>2. v \in DOMAIN archRows[t] /\ v \in Nat
      BY <1>4, <1>13, <3>1 DEF OwnLatest, u
    <3>3. CASE archRows[t][v].status = "draft"
      <4> DEFINE S == {w \in DOMAIN archRows[t] : archRows[t][w].status = "draft"}
      <4>1. PICK n \in Nat : DOMAIN archRows[t] = 1 .. n
        BY <1>4
      <4>2. S \subseteq 1 .. n /\ v \in S
        BY <3>2, <3>3, <4>1
      <4> HIDE DEF S
      <4>3. PICK m \in S : \A k \in S : k <= m
        BY <4>1, <4>2, LatestExists
      <4>4. m \in LatestDraft(t) /\ m \in DOMAIN archRows[t] /\ m \in Nat /\ m >= v
        BY <4>1, <4>2, <4>3 DEF S, LatestDraft
      <4>5. Picked(r, t, m)'
        BY <1>1, <1>6, <4>4 DEF Picked
      <4> QED BY <3>1, <4>4, <4>5 DEF u
    <3>4. CASE archRows[t][v].status # "draft"
      <4>1. archRows[t][v] \in ArchRowStates
        BY <1>4, <3>2
      <4>2. archRows[t][v].status = "under_review"
        BY <3>4, <4>1 DEF ArchRowStates
      <4>3. UnderReview(t, v)'
        BY <1>1, <3>2, <4>2 DEF UnderReview
      <4> QED BY <3>1, <3>2, <4>3 DEF u
    <3> QED BY <3>3, <3>4
  <2> QED BY <1>1, <2>2, <2>3
<1>14. SubmissionCovers(r)'
  <2>1. \A u \in DesignTypes : OwnLatest(r, u)' = OwnLatest(r, u)
    BY <1>9 DEF RowsKept
  <2> QED BY <1>1, <1>13, <2>1, DesignPipelineTypes DEF SubmissionCovers
<1> QED BY <1>8, <1>10, <1>12, <1>14 DEF ArchInv, ArchRunInv

\* A commit puts the picked rows under review, and changes nothing else of a row.
LEMMA CommitInv ==
  ASSUME ArchInv, NEW r \in ArchRuns, SubmitCommits(r)
  PROVE  ArchInv'
<1>1. /\ ArchTypeOK /\ ArchRunInv(r) /\ archPc[r] = "submit" /\ archStep[r] = 6
      /\ UNCHANGED <<archStep, archAttempt, archCtx, archWork, archGate, archSent>>
      /\ archPc' = [archPc EXCEPT ![r] = "submitted"]
  BY ApprovalTypes DEF ArchInv, SubmitCommits
<1>2. archRows' = [t \in ArtifactTypes |-> [v \in DOMAIN archRows[t] |->
                     IF <<t, v>> \in archSent[r]
                     THEN [archRows[t][v] EXCEPT !.status = "under_review"]
                     ELSE archRows[t][v]]]
  BY DEF SubmitCommits
<1>3. ASSUME NEW t \in ArtifactTypes
      PROVE  /\ archRows'[t] \in Seq(ArchRowStates) /\ DOMAIN archRows'[t] = DOMAIN archRows[t]
             /\ \A v \in DOMAIN archRows[t] :
                  /\ archRows'[t][v].run = archRows[t][v].run
                  /\ archRows'[t][v].status = IF <<t, v>> \in archSent[r] THEN "under_review"
                                              ELSE archRows[t][v].status
  <2>1. archRows[t] \in Seq(ArchRowStates)
    BY <1>1 DEF ArchTypeOK
  <2> DEFINE new == [v \in DOMAIN archRows[t] |->
                       IF <<t, v>> \in archSent[r]
                       THEN [archRows[t][v] EXCEPT !.status = "under_review"]
                       ELSE archRows[t][v]]
  <2>2. archRows'[t] = new
    BY <1>2
  <2>3. ASSUME NEW v \in DOMAIN archRows[t]
        PROVE  /\ new[v] \in ArchRowStates /\ new[v].run = archRows[t][v].run
               /\ new[v].status = IF <<t, v>> \in archSent[r] THEN "under_review"
                                  ELSE archRows[t][v].status
    <3>1. archRows[t][v] \in ArchRowStates
      BY <2>1
    <3> QED BY <3>1 DEF ArchRowStates
  <2>4. DOMAIN archRows[t] = 1 .. Len(archRows[t]) /\ Len(archRows[t]) \in Nat
    BY <2>1
  <2>5. new \in [1 .. Len(archRows[t]) -> ArchRowStates]
    BY <2>3, <2>4
  <2> HIDE DEF new
  <2>6. new \in Seq(ArchRowStates) /\ DOMAIN new = DOMAIN archRows[t]
    BY <2>4, <2>5
  <2> QED BY <2>2, <2>3, <2>6
<1>4. archRows' \in [ArtifactTypes -> Seq(ArchRowStates)]
  <2>1. archRows' = [t \in ArtifactTypes |-> archRows'[t]]
    BY <1>2
  <2> QED BY <1>3, <2>1
<1>5. ArchTypeOK'
  BY <1>1, <1>4 DEF ArchTypeOK, ArchPcs
<1>6. ASSUME NEW q \in ArchRuns PROVE RowsKept(q)
  <2>1. ASSUME NEW u \in DesignTypes
        PROVE  OwnLatest(q, u)' = OwnLatest(q, u) /\ (Made(q, u) => Made(q, u)')
    <3>1. u \in ArtifactTypes
      BY DesignPipelineTypes
    <3>2. DOMAIN archRows'[u] = DOMAIN archRows[u]
          /\ \A v \in DOMAIN archRows[u] : archRows'[u][v].run = archRows[u][v].run
      BY <1>3, <3>1
    <3>3. ASSUME NEW v PROVE v \in OwnLatest(q, u)' <=> v \in OwnLatest(q, u)
      BY <3>2 DEF OwnLatest
    <3>4. OwnLatest(q, u)' = OwnLatest(q, u)
      BY <3>3 DEF OwnLatest
    <3>5. Made(q, u) => Made(q, u)'
      BY <3>2 DEF Made
    <3> QED BY <3>4, <3>5
  <2>2. ASSUME NEW u \in DesignTypes, NEW w \in Nat, UnderReview(u, w)
        PROVE  UnderReview(u, w)'
    BY <1>3, <2>2, DesignPipelineTypes DEF UnderReview
  <2>3. \A u \in DesignTypes : DOMAIN archRows[u] \subseteq (DOMAIN archRows[u])'
    BY <1>3, DesignPipelineTypes
  <2> QED BY <2>1, <2>2, <2>3 DEF RowsKept
<1>7. /\ archPc'[r] = "submitted"
      /\ \A q \in ArchRuns \ {r} : archPc'[q] = archPc[q]
  BY <1>1 DEF ArchTypeOK
<1>8. ASSUME NEW q \in ArchRuns \ {r} PROVE ArchRunInv(q)'
  <2>1. ArchRunInv(q)
    BY DEF ArchInv
  <2> QED BY <1>1, <1>6, <1>7, <2>1, OtherRunKept
<1>9. OwnDesign(r)' = OwnDesign(r) /\ (\A u \in DesignTypes : Made(r, u) => Made(r, u)')
  BY <1>6 DEF RowsKept, OwnDesign
<1>10. StepsStartAtOne(r)' /\ DesignIsOwn(r)'
  BY <1>1, <1>7, <1>9 DEF ArchRunInv, StepsStartAtOne, DesignIsOwn
<1>11. ASSUME NEW t \in DesignTypes, NEW v \in OwnLatest(r, t)
       PROVE  \E w \in Nat : w >= v /\ UnderReview(t, w)'
  <2>1. PICK i \in 1 .. 3 : t = DesignPipeline[i]
    BY DesignPipelineTypes
  <2>2. PICK w \in Nat : w >= v /\ (UnderReview(t, w) \/ Picked(r, t, w))
    BY <1>1, <2>1, <1>11 DEF ArchRunInv, SubmissionCovers
  <2>3. Picked(r, t, w) => UnderReview(t, w)'
    BY <1>3, DesignPipelineTypes DEF Picked, UnderReview
  <2>4. UnderReview(t, w) => UnderReview(t, w)'
    BY <1>6 DEF RowsKept
  <2> QED BY <2>2, <2>3, <2>4
<1>12. SubmissionCovers(r)'
  <2>1. \A u \in DesignTypes : OwnLatest(r, u)' = OwnLatest(r, u)
    BY <1>6 DEF RowsKept
  <2> QED BY <1>7, <1>11, <2>1 DEF SubmissionCovers
<1> QED BY <1>5, <1>8, <1>10, <1>12 DEF ArchInv, ArchRunInv

\* A submission that fails leaves the rows as they are.
LEMMA SubmitFailsInv ==
  ASSUME ArchInv, NEW r \in ArchRuns, SubmitFails(r)
  PROVE  ArchInv'
<1>1. /\ ArchTypeOK /\ ArchRunInv(r) /\ archPc[r] = "submit"
      /\ UNCHANGED <<archStep, archAttempt, archRows, archCtx, archWork, archGate, archSent>>
      /\ archPc' = [archPc EXCEPT ![r] = "announced"]
  BY DEF ArchInv, SubmitFails
<1>2. ArchTypeOK' /\ archPc'[r] = "announced"
      /\ \A q \in ArchRuns \ {r} : archPc'[q] = archPc[q]
  BY <1>1 DEF ArchTypeOK, ArchPcs
<1>3. \A q \in ArchRuns : RowsKept(q)
  BY <1>1, SameRowsKept
<1>4. ASSUME NEW q \in ArchRuns \ {r} PROVE ArchRunInv(q)'
  <2>1. ArchRunInv(q)
    BY DEF ArchInv
  <2> QED BY <1>1, <1>2, <1>3, <2>1, OtherRunKept
<1>5. OwnDesign(r)' = OwnDesign(r) /\ (\A u \in DesignTypes : Made(r, u) => Made(r, u)')
  BY <1>3 DEF RowsKept, OwnDesign
<1>6. ArchRunInv(r)'
  BY <1>1, <1>2, <1>5 DEF ArchRunInv, StepsStartAtOne, DesignIsOwn, SubmissionCovers
<1> QED BY <1>2, <1>4, <1>6 DEF ArchInv

LEMMA ArchStepInv == ArchInv /\ [ArchNext]_archVars => ArchInv'
<1> SUFFICES ASSUME ArchInv, [ArchNext]_archVars PROVE ArchInv' OBVIOUS
<1>1. CASE UNCHANGED archVars
  <2>1. ArchTypeOK'
    BY <1>1 DEF archVars, ArchInv, ArchTypeOK
  <2>2. ASSUME NEW q \in ArchRuns PROVE ArchRunInv(q)'
    <3>1. RowsKept(q) /\ ArchRunInv(q)
      BY <1>1, SameRowsKept DEF archVars, ArchInv
    <3> QED BY <1>1, <3>1, OtherRunKept DEF archVars
  <2> QED BY <2>1, <2>2 DEF ArchInv
<1>2. CASE ArchNext
  BY <1>2, SystemDesignInv, PlatformInv, ArchChecksInv, SelectInv, CommitInv, SubmitFailsInv
  DEF ArchNext
<1> QED BY <1>1, <1>2

\* However the calls of the Architecture Service overlap, a design announced as complete
\* was made by the call that announces it, traced and reviewed as it still stands, and a
\* committed submission leaves it, or something later, under review.
THEOREM SubmissionsWereReviewed == ArchSpec => []SubmittedWasTracedAndReviewed
<1>1. ArchInv => SubmittedWasTracedAndReviewed
  <2> SUFFICES ASSUME ArchInv, NEW r \in ArchRuns, archPc[r] \in {"submitted", "announced"}
               PROVE  /\ archGate[r].traced = OwnDesign(r) /\ archGate[r].reviewed = OwnDesign(r)
                      /\ \A t \in DesignTypes : \E v \in OwnLatest(r, t) :
                           archPc[r] = "submitted" =>
                               \E w \in DOMAIN archRows[t] :
                                   w >= v /\ archRows[t][w].status = "under_review"
    BY DEF SubmittedWasTracedAndReviewed
  <2>1. archGate[r].traced = OwnDesign(r) /\ archGate[r].reviewed = OwnDesign(r)
    BY DEF ArchInv, ArchRunInv, DesignIsOwn
  <2>2. ASSUME NEW t \in DesignTypes
        PROVE  \E v \in OwnLatest(r, t) : archPc[r] = "submitted" =>
                 \E w \in DOMAIN archRows[t] : w >= v /\ archRows[t][w].status = "under_review"
    <3>1. Made(r, t)
      BY DEF ArchInv, ArchRunInv, DesignIsOwn
    <3>2. PICK v \in OwnLatest(r, t) : TRUE
      BY <3>1, OwnLatestExists DEF ArchInv
    <3>3. ASSUME archPc[r] = "submitted"
          PROVE  \E w \in DOMAIN archRows[t] : w >= v /\ archRows[t][w].status = "under_review"
      <4>1. PICK w \in Nat : w >= v /\ UnderReview(t, w)
        BY <3>2, <3>3 DEF ArchInv, ArchRunInv, SubmissionCovers
      <4> QED BY <4>1 DEF UnderReview
    <3> QED BY <3>2, <3>3
  <2> QED BY <2>1, <2>2
<1> QED BY <1>1, ArchInitInv, ArchStepInv, PTL DEF ArchSpec

-----------------------------------------------------------------------------
(***************************************************************************)
(* Engineering                                                             *)
(***************************************************************************)
EngModules == [name : EngWorkers \cup {"none"}, cycles : Nat, changes : Nat, gated : Nat]

EngTypeOK ==
  /\ engPc \in [Runs -> {"idle", "fan_out", "review", "quality", "refactor", "branch",
                         "commit", "pull", "completed", "escalated"}]
  /\ engWork \in [Runs -> [EngWorkers -> [at : {"waiting", "failed", "inserting", "completed"},
                                          version : Nat]]]
  /\ engPending \in [Runs -> Seq(EngWorkers)]
  /\ engCurrent \in [Runs -> EngModules]
  /\ engReviewed \in [Runs -> Seq(EngModules)]
  /\ engBranch \in Runs \cup {"none"}
  /\ engCommits \subseteq [run : Runs, module : EngModules]
  /\ engPulls \subseteq Runs

\* The rows are numbered through, and a worker inserts at most the next number.
EngNumbered ==
  /\ IsFiniteSet(engVersions) /\ engVersions = 1 .. Cardinality(engVersions)
  /\ \A r \in Runs, w \in EngWorkers :
       /\ engWork[r][w].version <= Cardinality(engVersions) + 1
       /\ engWork[r][w].at = "inserting" => engWork[r][w].version # 0

\* The modules a run still has to review: each once, each with its row.
PendingOnce(r) ==
  /\ \A i \in DOMAIN engPending[r] : engWork[r][engPending[r][i]].at = "completed"
  /\ \A i, j \in DOMAIN engPending[r] : engPending[r][i] = engPending[r][j] => i = j

\* The modules it keeps: as the quality gate saw them, each once and with its row, and
\* none of those still to review.
ReviewedOnce(r) ==
  \A i \in DOMAIN engReviewed[r] :
    /\ engReviewed[r][i].gated = engReviewed[r][i].changes
    /\ engReviewed[r][i].name \in EngWorkers
    /\ engWork[r][engReviewed[r][i].name].at = "completed"
    /\ \A j \in DOMAIN engPending[r] : engPending[r][j] # engReviewed[r][i].name
    /\ \A j \in DOMAIN engReviewed[r] : engReviewed[r][j].name = engReviewed[r][i].name => i = j

\* Where a run is tells what it holds.
StageHolds(r) ==
  /\ engPc[r] \in {"idle", "fan_out"} => engReviewed[r] = <<>>
  /\ engPc[r] \in {"quality", "refactor"} => engPending[r] # <<>>
  /\ engPc[r] \in {"review", "quality", "refactor"} /\ engPending[r] # <<>> =>
       engCurrent[r].name = Head(engPending[r])
  /\ engPc[r] = "review" /\ engPending[r] = <<>> =>
       engCurrent[r] = NoModule /\ engReviewed[r] = <<>>
  /\ engPc[r] \in {"branch", "commit", "pull"} => engReviewed[r] # <<>>

\* What a run has committed is the beginning of what it kept, on a branch of its own.
CommitsInOrder(r) ==
  LET n == Cardinality(CommittedBy(r)) IN
  /\ IsFiniteSet(CommittedBy(r)) /\ n <= Len(engReviewed[r])
  /\ CommittedBy(r) = {[run |-> r, module |-> engReviewed[r][j]] : j \in 1 .. n}
  /\ engPc[r] \in {"idle", "fan_out", "review", "quality", "refactor", "branch"} =>
       CommittedBy(r) = {} /\ engBranch # r /\ r \notin engPulls
  /\ engPc[r] = "commit" => n < Len(engReviewed[r])
  /\ engPc[r] = "pull" => n = Len(engReviewed[r])
  /\ engPc[r] \in {"commit", "pull"} => engBranch = r
  /\ engPc[r] = "completed" /\ engReviewed[r] # <<>> =>
       n = Len(engReviewed[r]) /\ r \in engPulls
  /\ CommittedBy(r) # {} \/ r \in engPulls => engBranch = r

EngInv ==
  /\ EngTypeOK /\ EngNumbered
  /\ \A r \in Runs : PendingOnce(r) /\ ReviewedOnce(r) /\ StageHolds(r) /\ CommitsInOrder(r)
EngRunHolds(r) == PendingOnce(r) /\ ReviewedOnce(r) /\ StageHolds(r) /\ CommitsInOrder(r)

LEMMA EngModuleTypes ==
  /\ NoModule \in EngModules /\ NoModule.name = "none"
  /\ \A w \in EngWorkers : Fresh(w) \in EngModules /\ Fresh(w).name = w
BY DEF NoModule, Fresh, EngModules

\* What a step of another run leaves alone stays as it is.
LEMMA OtherRunHolds ==
  ASSUME EngTypeOK, NEW r \in Runs, NEW q \in Runs, q # r, EngRunHolds(q),
         engPc'[q] = engPc[q], engWork'[q] = engWork[q], engPending'[q] = engPending[q],
         engCurrent'[q] = engCurrent[q], engReviewed'[q] = engReviewed[q],
         \/ engBranch' = engBranch
         \/ engBranch = "none" /\ engBranch' = r,
         CommittedBy(q)' = CommittedBy(q), q \in engPulls' <=> q \in engPulls
  PROVE  EngRunHolds(q)'
<1>1. engBranch' = q <=> engBranch = q
  BY EngineeringAssumption
<1>2. PendingOnce(q)'
  BY DEF EngRunHolds, PendingOnce
<1>3. ReviewedOnce(q)'
  BY DEF EngRunHolds, ReviewedOnce
<1>4. StageHolds(q)'
  BY DEF EngRunHolds, StageHolds, NoModule
<1>5. CommitsInOrder(q)'
  BY <1>1 DEF EngRunHolds, CommitsInOrder
<1> QED BY <1>2, <1>3, <1>4, <1>5 DEF EngRunHolds

LEMMA EngInitInv == EngInit => EngInv
<1> SUFFICES ASSUME EngInit PROVE EngInv OBVIOUS
<1>1. EngTypeOK
  BY EngModuleTypes DEF EngInit, EngTypeOK, Settled
<1>2. EngNumbered
  BY FS_EmptySet DEF EngInit, EngNumbered, Settled
<1>3. ASSUME NEW r \in Runs PROVE EngRunHolds(r)
  <2>1. CommittedBy(r) = {}
    BY DEF EngInit, CommittedBy
  <2>2. engReviewed[r] = <<>> /\ engPending[r] = <<>> /\ engPc[r] = "idle"
        /\ engBranch = "none" /\ engBranch # r /\ engPulls = {}
    BY EngineeringAssumption DEF EngInit
  <2>3. CommitsInOrder(r)
    BY <2>1, <2>2, FS_EmptySet DEF CommitsInOrder
  <2>4. StageHolds(r)
    BY <2>2 DEF StageHolds
  <2> QED BY <2>2, <2>3, <2>4 DEF EngRunHolds, PendingOnce, ReviewedOnce
<1> QED BY <1>1, <1>2, <1>3 DEF EngInv, EngRunHolds

\* A step that keeps the rows and the other runs keeps the invariant if its run does.
LEMMA EngStepOf ==
  ASSUME EngInv, NEW r \in Runs, EngTypeOK', EngNumbered', EngRunHolds(r)',
         \A q \in Runs \ {r} :
            /\ engPc'[q] = engPc[q] /\ engWork'[q] = engWork[q]
            /\ engPending'[q] = engPending[q] /\ engCurrent'[q] = engCurrent[q]
            /\ engReviewed'[q] = engReviewed[q]
            /\ CommittedBy(q)' = CommittedBy(q) /\ (q \in engPulls' <=> q \in engPulls),
         \/ engBranch' = engBranch
         \/ engBranch = "none" /\ engBranch' = r
  PROVE  EngInv'
<1>1. ASSUME NEW q \in Runs \ {r} PROVE EngRunHolds(q)'
  <2>1. EngRunHolds(q)
    BY DEF EngInv, EngRunHolds
  <2> QED BY <2>1, OtherRunHolds DEF EngInv
<1>2. \A q \in Runs : EngRunHolds(q)'
  BY <1>1
<1> QED BY <1>2 DEF EngInv, EngRunHolds
\* The steps before the branch that keep what a run has pending and reviewed.
LEMMA EngQuietStep ==
  ASSUME EngInv, NEW r \in Runs, NEW pc, NEW m \in EngModules,
         UNCHANGED <<engWork, engVersions, engPending, engReviewed, engBranch, engCommits,
                     engPulls>>,
         engPc' = [engPc EXCEPT ![r] = pc], engCurrent' = [engCurrent EXCEPT ![r] = m],
         engPc[r] \in {"idle", "fan_out", "review", "quality", "refactor"},
         pc \in {"fan_out", "review", "quality", "refactor", "completed", "escalated"},
         pc = "completed" => engReviewed[r] = <<>>,
         pc = "fan_out" => engReviewed[r] = <<>>,
         pc \in {"quality", "refactor"} => engPending[r] # <<>>,
         pc \in {"review", "quality", "refactor"} /\ engPending[r] # <<>> =>
           m.name = Head(engPending[r]),
         pc = "review" /\ engPending[r] = <<>> => m = NoModule /\ engReviewed[r] = <<>>
  PROVE  EngInv'
<1>1. EngRunHolds(r) /\ EngTypeOK /\ EngNumbered
  BY DEF EngInv, EngRunHolds
<1>2. engPc'[r] = pc /\ engCurrent'[r] = m
  BY <1>1 DEF EngTypeOK
<1>3. EngTypeOK'
  BY <1>1 DEF EngTypeOK
<1>4. EngNumbered'
  BY <1>1 DEF EngNumbered
<1>5. CommittedBy(r)' = CommittedBy(r)
  BY DEF CommittedBy
<1>6. StageHolds(r)'
  BY <1>2 DEF StageHolds, NoModule
<1>7. CommitsInOrder(r)'
  BY <1>1, <1>2, <1>5 DEF EngRunHolds, CommitsInOrder
<1>8. PendingOnce(r)' /\ ReviewedOnce(r)'
  BY <1>1 DEF EngRunHolds, PendingOnce, ReviewedOnce
<1>9. \A q \in Runs \ {r} : CommittedBy(q)' = CommittedBy(q)
  BY DEF CommittedBy
<1>10. EngRunHolds(r)'
  BY <1>6, <1>7, <1>8 DEF EngRunHolds
<1> QED
  <2>1. \A q \in Runs \ {r} : engPc'[q] = engPc[q] /\ engCurrent'[q] = engCurrent[q]
    BY <1>1 DEF EngTypeOK
  <2> QED BY <1>3, <1>4, <1>9, <1>10, <2>1, EngStepOf

LEMMA EngWaitInv ==
  ASSUME EngInv, NEW r \in Runs,
         EngStart(r) \/ EngAggregate(r) \/ CodeReview(r) \/ NothingToReview(r)
  PROVE  EngInv'
<1>1. EngTypeOK /\ StageHolds(r)
  BY DEF EngInv
<1>2. engCurrent[r] \in EngModules /\ engPending[r] \in Seq(EngWorkers)
      /\ engCurrent = [engCurrent EXCEPT ![r] = engCurrent[r]]
  BY <1>1 DEF EngTypeOK
<1>3. CASE EngStart(r)
  <2>1. engCurrent' = [engCurrent EXCEPT ![r] = engCurrent[r]]
    BY <1>2, <1>3 DEF EngStart
  <2>2. engReviewed[r] = <<>>
    BY <1>1, <1>3 DEF EngStart, StageHolds
  <2> QED BY <1>2, <1>3, <2>1, <2>2, EngQuietStep DEF EngStart
<1>4. CASE EngAggregate(r)
  <2> DEFINE m == IF engPending[r] = <<>> THEN NoModule ELSE Fresh(Head(engPending[r]))
  <2>1. m \in EngModules /\ (engPending[r] # <<>> => m.name = Head(engPending[r]))
        /\ (engPending[r] = <<>> => m = NoModule)
    <3>1. engPending[r] # <<>> => Head(engPending[r]) \in EngWorkers
      BY <1>2
    <3> QED BY <3>1, EngModuleTypes
  <2>2. engReviewed[r] = <<>> /\ engPc[r] = "fan_out"
    BY <1>1, <1>4 DEF EngAggregate, StageHolds
  <2>3. engCurrent' = [engCurrent EXCEPT ![r] = m]
    BY <1>4 DEF EngAggregate
  <2>4. PICK pc \in {"escalated", "review"} : engPc' = [engPc EXCEPT ![r] = pc]
    BY <1>4 DEF EngAggregate
  <2> HIDE DEF m
  <2> QED BY <1>4, <2>1, <2>2, <2>3, <2>4, EngQuietStep DEF EngAggregate
<1>5. CASE CodeReview(r)
  <2> DEFINE m == [engCurrent[r] EXCEPT !.cycles = @ + 1]
  <2>1. m \in EngModules /\ m.name = engCurrent[r].name
    BY <1>2 DEF EngModules
  <2>2. engPending[r] # <<>> /\ engPc[r] = "review"
    BY <1>1, <1>5 DEF CodeReview, StageHolds
  <2>3. m.name = Head(engPending[r])
    BY <1>1, <2>1, <2>2 DEF StageHolds
  <2>4. engCurrent' = [engCurrent EXCEPT ![r] = m]
    BY <1>5 DEF CodeReview
  <2>5. PICK pc \in {"quality", "refactor", "escalated"} : engPc' = [engPc EXCEPT ![r] = pc]
    BY <1>5 DEF CodeReview
  <2> HIDE DEF m
  <2> QED BY <1>5, <2>1, <2>2, <2>3, <2>4, <2>5, EngQuietStep DEF CodeReview
<1>6. CASE NothingToReview(r)
  <2>1. engCurrent' = [engCurrent EXCEPT ![r] = engCurrent[r]]
    BY <1>2, <1>6 DEF NothingToReview
  <2>2. engReviewed[r] = <<>>
    <3>1. engPending[r] # <<>> => Head(engPending[r]) \in EngWorkers
      BY <1>2
    <3>2. engPending[r] = <<>>
      BY <1>1, <1>6, <3>1, EngineeringAssumption, EngModuleTypes DEF NothingToReview, StageHolds
    <3> QED BY <1>1, <1>6, <3>2 DEF NothingToReview, StageHolds
  <2> QED BY <1>2, <1>6, <2>1, <2>2, EngQuietStep DEF NothingToReview
<1> QED BY <1>3, <1>4, <1>5, <1>6

\* Leaving the module under review, for good or among those kept.
LEMMA LeaveModuleInv ==
  ASSUME EngInv, NEW r \in Runs, engPc[r] \in {"quality", "refactor"},
         NEW kept \in {<<>>, <<[engCurrent[r] EXCEPT !.gated = engCurrent[r].changes]>>},
         LeaveModule(r, kept),
         UNCHANGED <<engUi, engWork, engVersions, engBranch, engCommits, engPulls>>
  PROVE  EngInv'
<1> DEFINE m == [engCurrent[r] EXCEPT !.gated = engCurrent[r].changes]
           old == engReviewed[r]
           new == engReviewed[r] \o kept
           todo == engPending[r]
           rest == Tail(engPending[r])
<1>1. EngTypeOK /\ EngNumbered /\ StageHolds(r) /\ PendingOnce(r) /\ ReviewedOnce(r)
      /\ CommitsInOrder(r)
  BY DEF EngInv
<1>2. todo \in Seq(EngWorkers) /\ todo # <<>> /\ engCurrent[r].name = todo[1]
      /\ old \in Seq(EngModules) /\ engCurrent[r] \in EngModules
  <2>1. todo # <<>> /\ engCurrent[r].name = Head(todo)
    BY <1>1 DEF StageHolds
  <2>2. todo \in Seq(EngWorkers) /\ old \in Seq(EngModules) /\ engCurrent[r] \in EngModules
    BY <1>1 DEF EngTypeOK
  <2> QED BY <2>1, <2>2
<1>3. /\ m \in EngModules /\ m.name = todo[1] /\ m.gated = m.changes
  BY <1>2 DEF EngModules
<1>4. kept \in {<<>>, <<m>>}
  OBVIOUS
<1> HIDE DEF m
<1>5. new = old \/ new = Append(old, m)
  <2>1. old \o <<>> = old
    BY <1>2, ConcatEmptySeq
  <2>2. old \o <<m>> = Append(old, m)
    BY <1>2, <1>3, AppendIsConcat
  <2> QED BY <1>4, <2>1, <2>2
<1> HIDE DEF new
<1>6. new \in Seq(EngModules)
  <2>1. old \in Seq(EngModules) /\ m \in EngModules
    BY <1>2, <1>3
  <2> HIDE DEF old
  <2> QED BY <1>5, <2>1, AppendProperties
<1>7. /\ rest \in Seq(EngWorkers) /\ Len(rest) = Len(todo) - 1
      /\ \A i \in DOMAIN rest : i + 1 \in DOMAIN todo /\ rest[i] = todo[i + 1]
  BY <1>2
<1>8. /\ engReviewed'[r] = new /\ engPending'[r] = rest
      /\ engReviewed' = [engReviewed EXCEPT ![r] = new]
      /\ engPending' = [engPending EXCEPT ![r] = rest]
  BY <1>1 DEF LeaveModule, EngTypeOK, new
<1>9. PICK c \in EngModules : /\ engCurrent' = [engCurrent EXCEPT ![r] = c]
                              /\ rest # <<>> => c.name = Head(rest)
  <2>1. rest # <<>> => Head(rest) \in EngWorkers
    BY <1>7
  <2> QED BY <2>1, EngModuleTypes DEF LeaveModule
<1>10. PICK pc : /\ engPc' = [engPc EXCEPT ![r] = pc]
                 /\ pc = IF rest # <<>> THEN "review"
                         ELSE IF new = <<>> THEN "escalated" ELSE "branch"
  BY DEF LeaveModule, new
<1>11. engPc'[r] = pc /\ engCurrent'[r] = c
  BY <1>1, <1>9, <1>10 DEF EngTypeOK
<1>12. EngTypeOK'
  BY <1>1, <1>6, <1>7, <1>8, <1>9, <1>10 DEF EngTypeOK
<1>13. EngNumbered'
  BY <1>1 DEF EngNumbered
<1>14. PendingOnce(r)'
  BY <1>1, <1>7, <1>8 DEF PendingOnce
<1>15. ReviewedOnce(r)'
  <2>1. \A j \in DOMAIN rest : rest[j] # todo[1]
    BY <1>1, <1>2, <1>7 DEF PendingOnce
  <2>2. \A i \in DOMAIN old : old[i].name # todo[1]
    BY <1>1, <1>2 DEF ReviewedOnce
  <2>3. 1 \in DOMAIN todo /\ todo[1] \in EngWorkers /\ engWork[r][todo[1]].at = "completed"
    BY <1>1, <1>2 DEF PendingOnce
  <2>4. ASSUME NEW i \in DOMAIN new
        PROVE  /\ new[i].gated = new[i].changes /\ new[i].name \in EngWorkers
               /\ engWork[r][new[i].name].at = "completed"
               /\ \A j \in DOMAIN rest : rest[j] # new[i].name
               /\ i \in DOMAIN old => new[i] = old[i]
               /\ i \notin DOMAIN old => i = Len(old) + 1 /\ new[i] = m
    <3>1. CASE i \in DOMAIN old
      <4>1. new[i] = old[i]
        BY <1>2, <1>5, <3>1
      <4>2. /\ old[i].gated = old[i].changes /\ old[i].name \in EngWorkers
            /\ engWork[r][old[i].name].at = "completed"
            /\ \A j \in DOMAIN todo : todo[j] # old[i].name
        BY <1>1, <3>1 DEF ReviewedOnce
      <4> QED BY <1>7, <3>1, <4>1, <4>2
    <3>2. CASE i \notin DOMAIN old
      <4>1. i = Len(old) + 1 /\ new[i] = m
        BY <1>2, <1>5, <3>2
      <4> QED BY <1>3, <2>1, <2>3, <3>2, <4>1
    <3> QED BY <3>1, <3>2
  <2>5. ASSUME NEW i \in DOMAIN new, NEW j \in DOMAIN new, new[j].name = new[i].name
        PROVE  i = j
    <3>1. CASE i \in DOMAIN old /\ j \in DOMAIN old
      BY <1>1, <2>4, <2>5, <3>1 DEF ReviewedOnce
    <3>2. CASE i \in DOMAIN old /\ j \notin DOMAIN old
      BY <1>3, <2>2, <2>4, <2>5, <3>2
    <3>3. CASE i \notin DOMAIN old /\ j \in DOMAIN old
      BY <1>3, <2>2, <2>4, <2>5, <3>3
    <3>4. CASE i \notin DOMAIN old /\ j \notin DOMAIN old
      BY <2>4, <3>4
    <3> QED BY <3>1, <3>2, <3>3, <3>4
  <2>6. engReviewed'[r] = new /\ engPending'[r] = rest /\ engWork' = engWork
    BY <1>8
  <2> HIDE DEF rest, old
  <2>7. ASSUME NEW i \in DOMAIN engReviewed'[r]
        PROVE  /\ engReviewed'[r][i].gated = engReviewed'[r][i].changes
               /\ engReviewed'[r][i].name \in EngWorkers
               /\ engWork'[r][engReviewed'[r][i].name].at = "completed"
               /\ \A j \in DOMAIN engPending'[r] : engPending'[r][j] # engReviewed'[r][i].name
               /\ \A j \in DOMAIN engReviewed'[r] :
                    engReviewed'[r][j].name = engReviewed'[r][i].name => i = j
    BY <2>4, <2>5, <2>6
  <2> QED BY <2>7 DEF ReviewedOnce
<1>16. StageHolds(r)'
  <2>1. /\ pc \in {"review", "branch", "escalated"}
        /\ pc = "review" => rest # <<>>
        /\ pc = "branch" => new # <<>>
    BY <1>10
  <2>2. /\ engPc'[r] = pc /\ engPending'[r] = rest /\ engReviewed'[r] = new
        /\ rest # <<>> => engCurrent'[r].name = Head(rest)
    BY <1>8, <1>9, <1>11
  <2> HIDE DEF rest
  <2> QED BY <2>1, <2>2 DEF StageHolds
<1>17. CommitsInOrder(r)'
  <2>1. CommittedBy(r) = {} /\ engBranch # r /\ r \notin engPulls
    BY <1>1 DEF CommitsInOrder
  <2>2. CommittedBy(r)' = {}
    BY <2>1 DEF CommittedBy
  <2>3. Cardinality(CommittedBy(r)') = 0 /\ IsFiniteSet(CommittedBy(r)') /\ Len(new) \in Nat
    BY <1>6, <2>2, FS_EmptySet
  <2>4. pc \in {"review", "escalated", "branch"}
    BY <1>10
  <2> QED BY <1>8, <1>11, <2>1, <2>2, <2>3, <2>4 DEF CommitsInOrder
<1>18. EngRunHolds(r)'
  BY <1>14, <1>15, <1>16, <1>17 DEF EngRunHolds
<1>19. \A q \in Runs \ {r} :
          /\ engPc'[q] = engPc[q] /\ engPending'[q] = engPending[q]
          /\ engCurrent'[q] = engCurrent[q] /\ engReviewed'[q] = engReviewed[q]
          /\ CommittedBy(q)' = CommittedBy(q)
  BY <1>1, <1>8, <1>9, <1>10 DEF EngTypeOK, CommittedBy
<1> QED BY <1>12, <1>13, <1>18, <1>19, EngStepOf

LEMMA EngGateInv ==
  ASSUME EngInv, NEW r \in Runs, Quality(r) \/ Refactor(r)
  PROVE  EngInv'
<1>1. EngTypeOK /\ StageHolds(r)
  BY DEF EngInv
<1>2. engCurrent[r] \in EngModules /\ engPending[r] # <<>>
      /\ engCurrent[r].name = Head(engPending[r])
      /\ engPc[r] \in {"quality", "refactor"}
      /\ engCurrent = [engCurrent EXCEPT ![r] = engCurrent[r]]
  BY <1>1 DEF EngTypeOK, StageHolds, Quality, Refactor
<1>3. CASE /\ Quality(r) /\ \E pc \in {"refactor", "escalated"} : engPc' = [engPc EXCEPT ![r] = pc]
           /\ UNCHANGED <<engReviewed, engPending, engCurrent>>
  <2>1. engCurrent' = [engCurrent EXCEPT ![r] = engCurrent[r]]
    BY <1>2, <1>3
  <2>2. PICK pc \in {"refactor", "escalated"} : engPc' = [engPc EXCEPT ![r] = pc]
    BY <1>3
  <2> QED BY <1>2, <1>3, <2>1, <2>2, EngQuietStep DEF Quality
<1>4. CASE Quality(r)
           /\ LeaveModule(r, <<[engCurrent[r] EXCEPT !.gated = engCurrent[r].changes]>>)
  BY <1>2, <1>4, LeaveModuleInv DEF Quality
<1>5. CASE Refactor(r) /\ engCurrent[r].cycles < EngMaxReviewCycles
  <2> DEFINE m == [engCurrent[r] EXCEPT !.changes = @ + 1]
  <2>1. m \in EngModules /\ m.name = Head(engPending[r])
    BY <1>2 DEF EngModules
  <2>2. engCurrent' = [engCurrent EXCEPT ![r] = m] /\ engPc' = [engPc EXCEPT ![r] = "review"]
    BY <1>5 DEF Refactor
  <2> HIDE DEF m
  <2> QED BY <1>2, <1>5, <2>1, <2>2, EngQuietStep DEF Refactor
<1>6. CASE Refactor(r) /\ LeaveModule(r, <<>>)
  BY <1>2, <1>6, LeaveModuleInv DEF Refactor
<1> QED BY <1>3, <1>4, <1>5, <1>6 DEF Quality, Refactor
\* The steps of a run that reviewed what it will commit: what it commits is the next module.
LEMMA EngDeliverInv ==
  ASSUME EngInv, NEW r \in Runs, CreateBranch(r) \/ CommitFiles(r) \/ OpenPullRequest(r)
  PROVE  EngInv'
<1> DEFINE done == CommittedBy(r)
           n == Cardinality(CommittedBy(r))
           kept == engReviewed[r]
<1>1. EngTypeOK /\ EngNumbered /\ StageHolds(r) /\ PendingOnce(r) /\ ReviewedOnce(r)
      /\ CommitsInOrder(r)
  BY DEF EngInv
<1>2. UNCHANGED <<engWork, engVersions, engPending, engCurrent, engReviewed>>
  BY DEF CreateBranch, CommitFiles, OpenPullRequest
<1>3. kept \in Seq(EngModules) /\ Len(kept) \in Nat /\ kept # <<>> /\ Len(kept) # 0
  <2>1. kept \in Seq(EngModules) /\ kept # <<>>
    BY <1>1 DEF EngTypeOK, StageHolds, CreateBranch, CommitFiles, OpenPullRequest
  <2> HIDE DEF kept
  <2> QED BY <2>1
<1>4. /\ IsFiniteSet(done) /\ n \in Nat /\ n <= Len(kept)
      /\ done = {[run |-> r, module |-> kept[j]] : j \in 1 .. n}
  <2>1. IsFiniteSet(done) /\ n <= Len(kept)
        /\ done = {[run |-> r, module |-> kept[j]] : j \in 1 .. n}
    BY <1>1 DEF CommitsInOrder
  <2> QED BY <2>1, FS_CardinalityType
<1>5. EngNumbered' /\ PendingOnce(r)' /\ ReviewedOnce(r)'
  BY <1>1, <1>2 DEF EngNumbered, PendingOnce, ReviewedOnce
\* It is enough to say where the run is, and what it has committed by then.
<1>6. ASSUME NEW pc \in {"commit", "pull", "completed", "escalated"},
             engPc' = [engPc EXCEPT ![r] = pc],
             engCommits' \subseteq [run : Runs, module : EngModules],
             engPulls' \subseteq Runs, engBranch' \in Runs \cup {"none"},
             CommitsInOrder(r)',
             \/ engBranch' = engBranch
             \/ engBranch = "none" /\ engBranch' = r,
             \A q \in Runs \ {r} : /\ CommittedBy(q)' = CommittedBy(q)
                                   /\ (q \in engPulls' <=> q \in engPulls)
      PROVE  EngInv'
  <2>1. EngTypeOK'
    BY <1>1, <1>2, <1>6 DEF EngTypeOK
  <2>2. engPc'[r] = pc /\ \A q \in Runs \ {r} : engPc'[q] = engPc[q]
    BY <1>1, <1>6 DEF EngTypeOK
  <2>3. StageHolds(r)'
    BY <1>2, <1>3, <2>2 DEF StageHolds
  <2>4. EngRunHolds(r)'
    BY <1>5, <1>6, <2>3 DEF EngRunHolds
  <2>5. \A q \in Runs \ {r} :
            /\ engPc'[q] = engPc[q] /\ engWork'[q] = engWork[q]
            /\ engPending'[q] = engPending[q] /\ engCurrent'[q] = engCurrent[q]
            /\ engReviewed'[q] = engReviewed[q]
            /\ CommittedBy(q)' = CommittedBy(q) /\ (q \in engPulls' <=> q \in engPulls)
    BY <1>2, <1>6, <2>2
  <2> QED BY <1>5, <1>6, <2>1, <2>4, <2>5, EngStepOf
<1>7. ASSUME NEW pc, engPc' = [engPc EXCEPT ![r] = pc]
      PROVE  engPc'[r] = pc
  BY <1>1, <1>7 DEF EngTypeOK
<1>8. engReviewed'[r] = kept
  BY <1>2
<1>9. CASE CreateBranch(r)
  <2>1. done = {} /\ engBranch # r /\ r \notin engPulls
    BY <1>1, <1>9 DEF CreateBranch, CommitsInOrder
  <2>2. engCommits' = engCommits /\ engPulls' = engPulls
    BY <1>9 DEF CreateBranch
  <2>3. \A q \in Runs : CommittedBy(q)' = CommittedBy(q)
    BY <2>2 DEF CommittedBy
  <2>4. n = 0 /\ CommittedBy(r)' = {} /\ Cardinality(CommittedBy(r)') = 0
    BY <2>1, <2>3, FS_EmptySet
  <2>5. PICK pc \in {"commit", "escalated"} :
          /\ engPc' = [engPc EXCEPT ![r] = pc]
          /\ pc = "commit" => engBranch' = r
    BY <1>9 DEF CreateBranch
  <2>6. engBranch' = engBranch \/ (engBranch = "none" /\ engBranch' = r)
    BY <1>9 DEF CreateBranch
  <2>7. CommitsInOrder(r)'
    <3>1. engPc'[r] = pc
      BY <1>7, <2>5
    <3>2. 0 < Len(kept) /\ IsFiniteSet({})
      BY <1>3, FS_EmptySet
    <3>3. {[run |-> r, module |-> kept[j]] : j \in 1 .. 0} = {}
      OBVIOUS
    <3> HIDE DEF kept
    <3> QED BY <1>8, <2>1, <2>2, <2>4, <2>5, <3>1, <3>2, <3>3 DEF CommitsInOrder
  <2>8. engBranch' \in Runs \cup {"none"}
    BY <1>1, <2>6 DEF EngTypeOK
  <2>9. engCommits' \subseteq [run : Runs, module : EngModules] /\ engPulls' \subseteq Runs
    BY <1>1, <2>2 DEF EngTypeOK
  <2> QED BY <1>6, <2>2, <2>3, <2>5, <2>6, <2>7, <2>8, <2>9
<1>10. CASE CommitFiles(r)
  <2>1. n < Len(kept) /\ engBranch = r
    BY <1>1, <1>10 DEF CommitFiles, CommitsInOrder
  <2>2. engPulls' = engPulls /\ engBranch' = engBranch
    BY <1>10 DEF CommitFiles
  <2>3. r \notin engPulls \/ r \in engPulls
    OBVIOUS
  <2>4. engBranch' \in Runs \cup {"none"} /\ engPulls' \subseteq Runs
    BY <1>1, <2>2 DEF EngTypeOK
  <2>5. CASE engPc' = [engPc EXCEPT ![r] = "escalated"] /\ UNCHANGED engCommits
    <3>1. \A q \in Runs : CommittedBy(q)' = CommittedBy(q)
      BY <2>5 DEF CommittedBy
    <3>2. CommitsInOrder(r)'
      BY <1>1, <1>7, <1>8, <2>1, <2>2, <2>5, <3>1 DEF CommitsInOrder
    <3>3. engCommits' \subseteq [run : Runs, module : EngModules]
      BY <1>1, <2>5 DEF EngTypeOK
    <3> QED BY <1>6, <2>2, <2>4, <2>5, <3>1, <3>2, <3>3
  <2>6. CASE /\ engCommits' = engCommits \cup {[run |-> r, module |-> kept[n + 1]]}
             /\ \E pc \in {IF n + 1 = Len(kept) THEN "pull" ELSE "commit", "escalated"} :
                  engPc' = [engPc EXCEPT ![r] = pc]
    <3> DEFINE c == [run |-> r, module |-> kept[n + 1]]
    <3>1. n + 1 \in DOMAIN kept /\ kept[n + 1] \in EngModules
      BY <1>3, <1>4, <2>1
    <3>2. c \notin done
      <4>1. ASSUME NEW j \in 1 .. n, kept[j] = kept[n + 1] PROVE FALSE
        <5>1. j \in DOMAIN kept /\ j # n + 1
          BY <1>3, <1>4, <2>1
        <5> QED BY <1>1, <3>1, <4>1, <5>1 DEF ReviewedOnce
      <4> QED BY <1>4, <4>1
    <3>3. CommittedBy(r)' = done \cup {c}
      <4>1. c.run = r
        OBVIOUS
      <4> HIDE DEF c
      <4>2. engCommits' = engCommits \cup {c}
        BY <2>6 DEF c
      <4>3. \A d : d \in CommittedBy(r)' <=> d \in engCommits' /\ d.run = r
        BY DEF CommittedBy
      <4>4. \A d : d \in CommittedBy(r) <=> d \in engCommits /\ d.run = r
        BY DEF CommittedBy
      <4> QED BY <4>1, <4>2, <4>3, <4>4
    <3>4. IsFiniteSet(CommittedBy(r)') /\ Cardinality(CommittedBy(r)') = n + 1
      <4>1. \A d : d \notin done => /\ IsFiniteSet(done \cup {d})
                                     /\ Cardinality(done \cup {d}) = n + 1
        BY <1>4, FS_AddElement
      <4> HIDE DEF c
      <4> QED BY <3>2, <3>3, <4>1
    <3>5. CommittedBy(r)' = {[run |-> r, module |-> kept[j]] : j \in 1 .. n + 1}
      <4>1. 1 .. n + 1 = (1 .. n) \cup {n + 1}
        BY <1>4
      <4> QED BY <1>4, <3>3, <4>1
    <3>6. \A q \in Runs \ {r} : CommittedBy(q)' = CommittedBy(q)
      BY <2>6 DEF CommittedBy
    <3>7. engCommits' \subseteq [run : Runs, module : EngModules]
      BY <1>1, <2>6, <3>1 DEF EngTypeOK
    <3>8. PICK pc \in {"pull", "commit", "escalated"} :
            /\ engPc' = [engPc EXCEPT ![r] = pc]
            /\ pc = "pull" => n + 1 = Len(kept)
            /\ pc = "commit" => n + 1 # Len(kept)
      BY <2>6
    <3>9. CommitsInOrder(r)'
      <4>1. n + 1 <= Len(kept) /\ (n + 1 # Len(kept) => n + 1 < Len(kept))
        BY <1>3, <1>4, <2>1
      <4>2. engPc'[r] = pc /\ engBranch' = r
        BY <1>7, <2>1, <2>2, <3>8
      <4> HIDE DEF n, kept, c
      <4> QED BY <1>8, <3>4, <3>5, <3>8, <4>1, <4>2 DEF CommitsInOrder
    <3> QED BY <1>6, <2>2, <2>4, <3>6, <3>7, <3>8, <3>9
  <2> QED BY <1>10, <2>5, <2>6 DEF CommitFiles
<1>11. CASE OpenPullRequest(r)
  <2>1. n = Len(kept) /\ engBranch = r
    BY <1>1, <1>11 DEF OpenPullRequest, CommitsInOrder
  <2>2. engCommits' = engCommits /\ engBranch' = engBranch
    BY <1>11 DEF OpenPullRequest
  <2>3. \A q \in Runs : CommittedBy(q)' = CommittedBy(q)
    BY <2>2 DEF CommittedBy
  <2>4. engPulls' = engPulls \/ engPulls' = engPulls \cup {r}
    BY <1>11 DEF OpenPullRequest
  <2>5. PICK pc \in {"completed", "escalated"} :
          /\ engPc' = [engPc EXCEPT ![r] = pc]
          /\ pc = "completed" => r \in engPulls'
    BY <1>11 DEF OpenPullRequest
  <2>6. CommitsInOrder(r)'
    <3>1. engPc'[r] = pc
      BY <1>7, <2>5
    <3>2. CommittedBy(r)' = done
      BY <2>3
    <3> HIDE DEF kept
    <3> QED BY <1>4, <1>8, <2>1, <2>2, <2>5, <3>1, <3>2 DEF CommitsInOrder
  <2>7. /\ engCommits' \subseteq [run : Runs, module : EngModules] /\ engPulls' \subseteq Runs
        /\ engBranch' \in Runs \cup {"none"}
    BY <1>1, <2>2, <2>4 DEF EngTypeOK
  <2> QED BY <1>6, <2>2, <2>3, <2>4, <2>5, <2>6, <2>7
<1> QED BY <1>9, <1>10, <1>11

\* The highest version there is.
LEMMA EngHighest ==
  ASSUME EngInv
  PROVE  Cardinality(engVersions) \in Nat
         /\ Max({0} \cup engVersions) = Cardinality(engVersions)
<1>1. Cardinality(engVersions) \in Nat
  BY FS_CardinalityType DEF EngInv, EngNumbered
<1>2. {0} \cup engVersions = 0 .. Cardinality(engVersions)
  BY <1>1 DEF EngInv, EngNumbered
<1>3. \A n \in Nat : Max(0 .. n) = n
  BY DEF Max
<1> QED BY <1>1, <1>2, <1>3

\* A worker takes the next number, and stores its module under it unless another did.
LEMMA EngWorkInv ==
  ASSUME EngInv, NEW r \in Runs, NEW w \in EngWorkers, Generate(r, w) \/ Store(r, w)
  PROVE  EngInv'
<1> DEFINE n == Cardinality(engVersions)
<1>1. EngTypeOK /\ EngNumbered /\ StageHolds(r) /\ PendingOnce(r) /\ ReviewedOnce(r)
      /\ CommitsInOrder(r)
  BY DEF EngInv
<1>2. UNCHANGED <<engPc, engUi, engCurrent, engReviewed, engBranch, engCommits, engPulls>>
      /\ engPc[r] = "fan_out" /\ engReviewed[r] = <<>>
  BY <1>1 DEF Generate, Store, StageHolds
<1>3. n \in Nat /\ Max({0} \cup engVersions) = n
  BY EngHighest
<1>4. \A q \in Runs : CommittedBy(q)' = CommittedBy(q)
  BY <1>2 DEF CommittedBy
<1>5. engWork[r][w].at # "completed" /\ engWork[r][w].version \in Nat
      /\ engPending[r] \in Seq(EngWorkers)
  BY <1>1 DEF Generate, Store, EngTypeOK
\* It is enough to give the worker's new state, the rows and what is pending.
<1>6. ASSUME NEW to \in [at : {"failed", "inserting", "completed"}, version : Nat],
             engWork' = [engWork EXCEPT ![r][w] = to],
             NEW todo \in Seq(EngWorkers), engPending' = [engPending EXCEPT ![r] = todo],
             todo = engPending[r] \/ (todo = Append(engPending[r], w) /\ to.at = "completed"),
             EngNumbered'
      PROVE  EngInv'
  <2>1. EngTypeOK'
    BY <1>1, <1>2, <1>6 DEF EngTypeOK
  <2>2. /\ engWork'[r][w] = to /\ engPending'[r] = todo
        /\ \A u \in EngWorkers \ {w} : engWork'[r][u] = engWork[r][u]
        /\ \A q \in Runs \ {r} : engWork'[q] = engWork[q] /\ engPending'[q] = engPending[q]
    BY <1>1, <1>6 DEF EngTypeOK
  <2>3. PendingOnce(r)'
    <3>1. \A i \in DOMAIN engPending[r] :
            engPending[r][i] \in EngWorkers /\ engPending[r][i] # w
      BY <1>1, <1>5 DEF PendingOnce
    <3>2. CASE todo = engPending[r]
      BY <1>1, <2>2, <3>1, <3>2 DEF PendingOnce
    <3>3. CASE todo = Append(engPending[r], w) /\ to.at = "completed"
      <4>1. \A i \in DOMAIN todo :
              \/ i \in DOMAIN engPending[r] /\ todo[i] = engPending[r][i]
              \/ i = Len(engPending[r]) + 1 /\ todo[i] = w
        BY <1>5, <3>3
      <4> QED BY <1>1, <2>2, <3>1, <3>3, <4>1 DEF PendingOnce
    <3> QED BY <1>6, <3>2, <3>3
  <2>4. ReviewedOnce(r)'
    BY <1>2 DEF ReviewedOnce
  <2>5. StageHolds(r)'
    BY <1>2 DEF StageHolds
  <2>6. CommitsInOrder(r)'
    BY <1>1, <1>2, <1>4 DEF CommitsInOrder
  <2>7. EngRunHolds(r)'
    BY <2>3, <2>4, <2>5, <2>6 DEF EngRunHolds
  <2> QED BY <1>2, <1>4, <1>6, <2>1, <2>2, <2>7, EngStepOf
<1>7. engPending = [engPending EXCEPT ![r] = engPending[r]]
  BY <1>1 DEF EngTypeOK
<1>8. CASE Generate(r, w)
  <2>1. PICK result \in {"failed", "inserting"} :
          engWork' = [engWork EXCEPT ![r][w] =
             IF result = "failed" THEN Settled(result)
             ELSE [at |-> result, version |-> 1 + n]]
    <3>1. WorkResults(r, w) \subseteq {"failed", "inserting"}
      BY EngineeringAssumption DEF WorkResults, BackendWork, FrontendWork, IntegrationWork
    <3> QED BY <1>3, <1>8, <3>1 DEF Generate
  <2> DEFINE to == IF result = "failed" THEN Settled(result)
                   ELSE [at |-> result, version |-> 1 + n]
  <2>2. to \in [at : {"failed", "inserting", "completed"}, version : Nat]
        /\ to.version <= n + 1 /\ (to.at = "inserting" => to.version # 0)
    BY <1>3, <2>1 DEF Settled
  <2>3. engWork' = [engWork EXCEPT ![r][w] = to]
    BY <2>1
  <2> HIDE DEF to
  <2>4. engPending' = [engPending EXCEPT ![r] = engPending[r]] /\ engVersions' = engVersions
    BY <1>7, <1>8 DEF Generate
  <2>5. EngNumbered'
    BY <1>1, <2>2, <2>3, <2>4 DEF EngNumbered, EngTypeOK
  <2> QED BY <1>5, <1>6, <2>2, <2>3, <2>4, <2>5
<1>9. CASE Store(r, w)
  <2> DEFINE v == engWork[r][w].version
             to == Settled(IF v \in engVersions THEN "failed" ELSE "completed")
  <2>1. /\ to \in [at : {"failed", "inserting", "completed"}, version : Nat]
        /\ to.version = 0 /\ to.at # "inserting"
        /\ to.at = IF v \in engVersions THEN "failed" ELSE "completed"
    BY DEF Settled
  <2>2. engWork' = [engWork EXCEPT ![r][w] = to]
    BY <1>9 DEF Store
  <2>3. v \in Nat /\ v <= n + 1 /\ v # 0
    BY <1>1, <1>5, <1>9 DEF Store, EngNumbered
  <2> HIDE DEF to
  <2>4. CASE v \in engVersions
    <3>1. engPending' = [engPending EXCEPT ![r] = engPending[r]] /\ engVersions' = engVersions
      BY <1>7, <1>9, <2>4 DEF Store
    <3>2. EngNumbered'
      <4>1. \A q \in Runs, u \in EngWorkers :
              engWork'[q][u] = engWork[q][u] \/ engWork'[q][u] = to
        BY <1>1, <2>2 DEF EngTypeOK
      <4>2. to.version <= n + 1
        BY <1>3, <2>1
      <4> QED BY <1>1, <2>1, <3>1, <4>1, <4>2 DEF EngNumbered
    <3> QED BY <1>5, <1>6, <2>1, <2>2, <3>1, <3>2
  <2>5. CASE v \notin engVersions
    <3>1. /\ engPending' = [engPending EXCEPT ![r] = Append(engPending[r], w)]
          /\ engVersions' = engVersions \cup {v}
      BY <1>9, <2>5 DEF Store
    <3>2. v = n + 1
      BY <1>1, <1>3, <2>3, <2>5 DEF EngNumbered
    <3>3. EngNumbered'
      <4>1. IsFiniteSet(engVersions') /\ Cardinality(engVersions') = n + 1
        BY <1>1, <2>5, <3>1, FS_AddElement DEF EngNumbered
      <4>2. engVersions = 1 .. n
        BY <1>1 DEF EngNumbered
      <4>3. engVersions' = 1 .. n + 1
        <5>1. engVersions' = (1 .. n) \cup {n + 1}
          BY <3>1, <3>2, <4>2
        <5> QED BY <1>3, <5>1
      <4>4. ASSUME NEW q \in Runs, NEW u \in EngWorkers
            PROVE  /\ engWork'[q][u].version <= n + 2
                   /\ engWork'[q][u].at = "inserting" => engWork'[q][u].version # 0
        <5>1. engWork'[q][u] = engWork[q][u] \/ engWork'[q][u] = to
          BY <1>1, <2>2 DEF EngTypeOK
        <5>2. engWork[q][u].version \in Nat /\ engWork[q][u].version <= n + 1
              /\ (engWork[q][u].at = "inserting" => engWork[q][u].version # 0)
          BY <1>1 DEF EngTypeOK, EngNumbered
        <5> QED BY <1>3, <2>1, <5>1, <5>2
      <4>5. n + 2 = (n + 1) + 1
        BY <1>3
      <4> HIDE DEF n
      <4> QED BY <4>1, <4>3, <4>4, <4>5 DEF EngNumbered
    <3>4. Append(engPending[r], w) \in Seq(EngWorkers)
      BY <1>5
    <3> QED BY <1>6, <2>1, <2>2, <2>5, <3>1, <3>3, <3>4
  <2> QED BY <2>4, <2>5
<1> QED BY <1>8, <1>9

LEMMA EngStepInv == EngInv /\ [EngNext]_engVars => EngInv'
<1> SUFFICES ASSUME EngInv, [EngNext]_engVars PROVE EngInv' OBVIOUS
<1>1. CASE UNCHANGED engVars
  <2>1. EngTypeOK' /\ EngNumbered'
    BY <1>1 DEF engVars, EngInv, EngTypeOK, EngNumbered
  <2>2. ASSUME NEW r \in Runs PROVE EngRunHolds(r)'
    <3>1. EngRunHolds(r) /\ CommittedBy(r)' = CommittedBy(r)
      BY <1>1 DEF engVars, EngInv, EngRunHolds, CommittedBy
    <3>2. PendingOnce(r)' /\ ReviewedOnce(r)' /\ StageHolds(r)'
      BY <1>1, <3>1 DEF engVars, EngRunHolds, PendingOnce, ReviewedOnce, StageHolds, NoModule
    <3>3. CommitsInOrder(r)'
      BY <1>1, <3>1 DEF engVars, EngRunHolds, CommitsInOrder
    <3> QED BY <3>2, <3>3 DEF EngRunHolds
  <2> QED BY <2>1, <2>2 DEF EngInv, EngRunHolds
<1>2. ASSUME NEW r \in Runs, EngStart(r) \/ EngRunStep(r) PROVE EngInv'
  BY <1>2, EngWaitInv, EngGateInv, EngDeliverInv, EngWorkInv DEF EngRunStep
<1> QED BY <1>1, <1>2 DEF EngNext

\* However runs of Engineering overlap and wherever one of their calls fails, the
\* integration branch holds one run's modules, as the quality gate passed them, and all of
\* them once the run completes.
THEOREM BranchesAreGated == EngSpec => []BranchHoldsOneGatedRun
<1>1. EngInv => BranchHoldsOneGatedRun
  <2> SUFFICES ASSUME EngInv PROVE BranchHoldsOneGatedRun OBVIOUS
  <2>1. ASSUME NEW r \in Runs
        PROVE  CommittedBy(r) \subseteq
                 {[run |-> r, module |-> engReviewed[r][j]] : j \in DOMAIN engReviewed[r]}
    <3>1. /\ CommittedBy(r) = {[run |-> r, module |-> engReviewed[r][j]] :
                                 j \in 1 .. Cardinality(CommittedBy(r))}
          /\ Cardinality(CommittedBy(r)) \in Nat
          /\ Cardinality(CommittedBy(r)) <= Len(engReviewed[r])
      BY FS_CardinalityType DEF EngInv, CommitsInOrder
    <3>2. engReviewed[r] \in Seq(EngModules)
      BY DEF EngInv, EngTypeOK
    <3>3. 1 .. Cardinality(CommittedBy(r)) \subseteq DOMAIN engReviewed[r]
      BY <3>1, <3>2
    <3> QED BY <3>1, <3>3
  <2>2. ASSUME NEW c \in engCommits
        PROVE  /\ c.run = engBranch /\ c.module.gated = c.module.changes
               /\ engWork[c.run][c.module.name].at = "completed"
    <3>1. c.run \in Runs /\ c \in CommittedBy(c.run)
      BY DEF EngInv, EngTypeOK, CommittedBy
    <3>2. PICK j \in DOMAIN engReviewed[c.run] : c.module = engReviewed[c.run][j]
      BY <2>1, <3>1
    <3> QED BY <3>1, <3>2 DEF EngInv, ReviewedOnce, CommitsInOrder
  <2>3. engPulls \subseteq {engBranch}
    BY DEF EngInv, EngTypeOK, CommitsInOrder
  <2>4. ASSUME NEW r \in Runs, engPc[r] = "completed", engReviewed[r] # <<>>
        PROVE  r \in engPulls /\ {c.module : c \in CommittedBy(r)}
                                   = {engReviewed[r][i] : i \in DOMAIN engReviewed[r]}
    <3>1. /\ r \in engPulls
          /\ CommittedBy(r) = {[run |-> r, module |-> engReviewed[r][j]] :
                                 j \in 1 .. Len(engReviewed[r])}
      BY <2>4 DEF EngInv, CommitsInOrder
    <3>2. engReviewed[r] \in Seq(EngModules)
      BY DEF EngInv, EngTypeOK
    <3>3. 1 .. Len(engReviewed[r]) = DOMAIN engReviewed[r]
      BY <3>2
    <3>4. ASSUME NEW j \in DOMAIN engReviewed[r]
          PROVE  \E d \in CommittedBy(r) : d.module = engReviewed[r][j]
      <4>1. [run |-> r, module |-> engReviewed[r][j]] \in CommittedBy(r)
        BY <3>1, <3>3
      <4> QED BY <4>1
    <3>5. ASSUME NEW d \in CommittedBy(r)
          PROVE  \E j \in DOMAIN engReviewed[r] : d.module = engReviewed[r][j]
      BY <3>1, <3>3
    <3> QED BY <3>1, <3>4, <3>5
  <2>5. \A r \in Runs : engPc[r] = "completed" /\ engReviewed[r] # <<>> =>
           r \in engPulls /\ {c.module : c \in CommittedBy(r)}
                                = {engReviewed[r][i] : i \in DOMAIN engReviewed[r]}
    BY <2>4
  <2> QED BY <2>2, <2>3, <2>5, Zenon DEF BranchHoldsOneGatedRun
<1> QED BY <1>1, EngInitInv, EngStepInv, PTL DEF EngSpec

-----------------------------------------------------------------------------
(***************************************************************************)
(* QA                                                                      *)
(***************************************************************************)
QATypeOK ==
  /\ qaPc \in {"idle", "escalated", "generate", "execute", "aggregate", "unstored",
               "completed", "failed"}
  /\ qaSpec \in BOOLEAN
  /\ qaWork \in [QAWorkers -> {"waiting", "met", "unmet", "nothing"}]
  /\ qaCtx \in [Reports -> {"absent", "met", "unmet", "lead"}]
  /\ qaRows \subseteq Reports \cup {"qa_report"}

\* Nothing is announced or reported before the verdict; after it, what was announced
\* and the stored report agree.
QAVerdict ==
  /\ qaPc \in {"idle", "generate", "execute", "aggregate"} => qaSent = <<>>
  /\ "qa_report" \in qaRows => qaPc \in {"completed", "failed"}
  /\ RetryFollowsDefectsAndReport

QAInv == QATypeOK /\ QAVerdict

\* The workers, what they produce, and that the head's report is none of theirs.
LEMMA QANames ==
  /\ QAWorkers = {"unit_test_writer", "coverage_analyzer", "integration_test_writer",
                  "regression_suite", "performance_test"}
  /\ \A w \in QAWorkers : QAProduces[w] \in Reports
  /\ "qa_report" \notin Reports
<1>1. QAWorkers = {"unit_test_writer", "coverage_analyzer", "integration_test_writer",
                   "regression_suite", "performance_test"}
  BY DEF QAWorkers, QAProduces
<1>2. "qa_report" \notin Reports
  BY <1>1 DEF Reports, QAProduces
<1> QED BY <1>1, <1>2 DEF Reports

LEMMA QAInitInv == QAInit => QAInv
<1> SUFFICES ASSUME QAInit PROVE QAInv OBVIOUS
<1>1. QATypeOK BY QANames DEF QAInit, QATypeOK
<1>2. QAVerdict BY DEF QAInit, QAVerdict, RetryFollowsDefectsAndReport, Announced
<1> QED BY <1>1, <1>2 DEF QAInv

LEMMA QAWorkerInv ==
  ASSUME QAInv, NEW w \in QAWorkers, QARunWorker(w)
  PROVE  QAInv'
<1>1. PICK o \in QAOutcomes(w) :
        /\ qaWork' = [qaWork EXCEPT ![w] = o]
        /\ QARecord(w, o)
        /\ qaRows' = IF o = "nothing" THEN qaRows ELSE qaRows \cup {QAProduces[w]}
  BY DEF QARunWorker
<1>2. o \in {"met", "unmet", "nothing"}
  BY QANames DEF QAOutcomes, TestWriter, Coverage, Contract, Regression, Performance
<1>3. QATypeOK'
  BY <1>1, <1>2, QANames DEF QARunWorker, QARecord, QAInv, QATypeOK
<1>4. "qa_report" \in qaRows' <=> "qa_report" \in qaRows
  BY <1>1, QANames
<1>5. QAVerdict'
  BY <1>4 DEF QARunWorker, QAInv, QAVerdict, RetryFollowsDefectsAndReport, Announced
<1> QED BY <1>3, <1>5 DEF QAInv

LEMMA QAAggregateInv ==
  ASSUME QAInv, QAAggregate
  PROVE  QAInv'
<1> USE DEF QAInv
<1>0. qaSent = <<>> /\ "qa_report" \notin qaRows
  BY DEF QAAggregate, QAVerdict
<1>1. CASE Unreadable
  BY <1>0, <1>1 DEF QAAggregate, QATypeOK, QAVerdict, RetryFollowsDefectsAndReport, Announced
<1>2. CASE ~Unreadable
  <2> DEFINE announced == IF Defects = {} THEN qaSent ELSE Append(qaSent, "defects")
             Subjects  == {"defects", "retry", "failed", "completed"}
  <2>1. announced = IF Defects = {} THEN <<>> ELSE <<"defects">>
    BY <1>0
  <2>2. announced \in Seq(Subjects) /\ QAAnnounce \in Seq(Subjects)
    <3> HIDE DEF Subjects, announced
    <3>1. \A x \in {"defects", "retry", "failed", "completed"} : x \in Subjects
      BY DEF Subjects
    <3> QED BY <2>1, <3>1, ShortSeqs DEF QAAnnounce
  <2>3. \A x : Mentions(announced, x) => x = "defects"
    <3> HIDE DEF announced
    <3>1. CASE announced = <<>>
      BY <3>1 DEF Mentions
    <3>2. CASE announced = <<"defects">>
      BY <3>2 DEF Mentions
    <3> QED BY <2>1, <3>1, <3>2
  <2>4. CASE qaPc' = "unstored" /\ qaSent' = announced /\ UNCHANGED qaRows
    <3> HIDE DEF announced
    <3>1. ~Announced("retry")' /\ ~Announced("failed")'
      BY <2>3, <2>4 DEF Announced, Mentions
    <3> QED BY <1>0, <2>4, <3>1 DEF QAAggregate, QATypeOK, QAVerdict, RetryFollowsDefectsAndReport
  <2>5. CASE /\ qaPc' = IF QABlocking = {} THEN "completed" ELSE "failed"
             /\ qaSent' = announced \o QAAnnounce
             /\ qaRows' = qaRows \cup {"qa_report"}
    <3> HIDE DEF announced, Subjects
    <3>1. \A x : Announced(x)' <=> Mentions(announced, x) \/ Mentions(QAAnnounce, x)
      <4>1. \A x : Announced(x)' <=> Mentions(announced \o QAAnnounce, x)
        BY <2>5 DEF Announced, Mentions
      <4> QED BY <2>2, <4>1, ConcatMentions
    <3>2. CASE QABlocking = {}
      <4>1. ~Mentions(QAAnnounce, "retry")
        BY <3>2 DEF QAAnnounce, Mentions
      <4> QED BY <2>3, <2>5, <3>1, <3>2, <4>1
              DEF QAAggregate, QATypeOK, QAVerdict, RetryFollowsDefectsAndReport
    <3>3. CASE QABlocking # {}
      <4>1. Mentions(QAAnnounce, "failed") /\ ~Mentions(QAAnnounce, "completed")
        BY <3>3 DEF QAAnnounce, Mentions
      <4>2. announced = <<"defects">>
        BY <2>1, <3>3 DEF Defects
      <4>3. Head(qaSent') = "defects"
        BY <2>2, <2>5, <4>2
      <4> QED BY <2>3, <2>5, <3>1, <3>3, <4>1, <4>3
              DEF QAAggregate, QATypeOK, QAVerdict, RetryFollowsDefectsAndReport
    <3> QED BY <3>2, <3>3
  <2> QED BY <1>2, <2>4, <2>5 DEF QAAggregate
<1> QED BY <1>1, <1>2

LEMMA QAStepInv == QAInv /\ [QANext]_qaVars => QAInv'
<1> SUFFICES ASSUME QAInv, [QANext]_qaVars PROVE QAInv' OBVIOUS
<1> USE DEF QAInv
<1>1. CASE QAStart
  <2>1. \/ qaPc' = "generate" /\ qaSent' = <<>>
        \/ qaPc' = "escalated" /\ qaSent' = <<"failed">>
    BY <1>1 DEF QAStart, QAVerdict
  <2>2. Announced("retry")' = FALSE /\ (qaPc' # "escalated" => ~Announced("failed")')
    BY <2>1 DEF Announced
  <2>3. "qa_report" \notin qaRows'
    BY <1>1 DEF QAStart, QAVerdict
  <2>4. QATypeOK'
    BY <1>1 DEF QAStart, QATypeOK
  <2> QED BY <2>1, <2>2, <2>3, <2>4 DEF QAVerdict, RetryFollowsDefectsAndReport
<1>2. CASE LeadsReturn
  <2>1. qaCtx' \in [Reports -> {"absent", "met", "unmet", "lead"}]
    BY <1>2 DEF LeadsReturn, LeadUpdate, QATypeOK
  <2> QED BY <1>2, <2>1
          DEF LeadsReturn, QATypeOK, QAVerdict, RetryFollowsDefectsAndReport, Announced
<1>3. CASE QAAggregate
  BY <1>3, QAAggregateInv
<1>4. ASSUME NEW w \in QAWorkers, QARunWorker(w) PROVE QAInv'
  BY <1>4, QAWorkerInv
<1>5. CASE UNCHANGED qaVars
  BY <1>5 DEF qaVars, QATypeOK, QAVerdict, RetryFollowsDefectsAndReport, Announced
<1> QED BY <1>1, <1>2, <1>3, <1>4, <1>5 DEF QANext

\* QA asks Engineering to retry only after it announced the defects and stored the report
\* that lists them, and then ends as failed; a run that broke down before asks for nothing.
THEOREM RetriesAreFounded == QASpec => []RetryFollowsDefectsAndReport
<1>1. QAInv => RetryFollowsDefectsAndReport
  BY DEF QAInv, QAVerdict
<1> QED BY <1>1, QAInitInv, QAStepInv, PTL DEF QASpec

-----------------------------------------------------------------------------
(***************************************************************************)
(* Security                                                                *)
(***************************************************************************)
SecTypeOK ==
  /\ secPc \in {"idle", "scan", "escalated", "failed", "completed"}
  /\ secDocs \in BOOLEAN
  /\ secWork \in [SecWorkers -> {"waiting", "clean", "warning", "blocking", "nothing"}]
  /\ secCtx \in [Keys -> SecWorkers \cup {"none"}]
  /\ secRows \subseteq {"risk_assessment", "security_report"}

\* Every result that was returned is under its worker's name, whoever shares its type.
SecRecorded ==
  \A w \in SecWorkers : secCtx[w] = w <=> secWork[w] \notin {"waiting", "nothing"}

\* What was announced and stored agrees with the merged results.
SecVerdict ==
  /\ secPc \in {"idle", "scan", "escalated"} => secRows = {}
  /\ Sent("completed") => secPc = "completed"
  /\ secPc = "completed" => ~SecBlocking /\ "security_report" \in secRows
  /\ secPc = "failed" /\ "security_report" \in secRows => SecBlocking /\ Sent("retry")

SecInv == SecTypeOK /\ SecRecorded /\ SecVerdict

\* The workers and the keys; no artifact type is the name of a worker.
LEMMA SecWorkerNames ==
  /\ SecWorkers = {"cve_scanner", "owasp_checker", "injection_check", "secret_scanner",
                   "compliance_validator"}
  /\ SecWorkers \subseteq Keys
  /\ \A w \in SecWorkers : SecProduces[w] \in Keys /\ SecProduces[w] \notin SecWorkers
<1>1. SecWorkers = {"cve_scanner", "owasp_checker", "injection_check", "secret_scanner",
                    "compliance_validator"}
  BY DEF SecWorkers, SecProduces
<1>2. \A w \in SecWorkers : SecProduces[w] \in Keys /\ SecProduces[w] \notin SecWorkers
  BY <1>1 DEF Keys, SecProduces
<1> QED BY <1>1, <1>2 DEF Keys

\* Merging by worker sees what the workers returned.
LEMMA MergedIsComplete ==
  ASSUME SecTypeOK, SecRecorded
  PROVE  SecBlocking <=> \E w \in SecWorkers : secWork[w] = "blocking"
BY DEF SecTypeOK, SecRecorded, SecBlocking, Merged

LEMMA SecInitInv == SecInit => SecInv
<1> SUFFICES ASSUME SecInit PROVE SecInv OBVIOUS
<1>1. SecTypeOK BY SecWorkerNames DEF SecInit, SecTypeOK
<1>2. SecRecorded BY SecWorkerNames DEF SecInit, SecRecorded
<1>3. SecVerdict BY DEF SecInit, SecVerdict, Sent
<1> QED BY <1>1, <1>2, <1>3 DEF SecInv

LEMMA SecWorkerInv ==
  ASSUME SecInv, NEW w \in SecWorkers, SecRunWorker(w)
  PROVE  SecInv'
<1> USE SecWorkerNames
<1>1. PICK o \in SecOutcomes(w) :
        /\ secWork' = [secWork EXCEPT ![w] = o]
        /\ IF o = "nothing" THEN UNCHANGED secCtx ELSE SecRecord(w)
  BY DEF SecRunWorker
<1>2. o \in {"clean", "warning", "blocking", "nothing"}
  BY DEF SecOutcomes, StaticAnalysis, DependencyScan, SecretScan, Compliance
<1>3. SecTypeOK'
  BY <1>1, <1>2 DEF SecRunWorker, SecRecord, SecInv, SecTypeOK
<1>4. SecRecorded'
  BY <1>1, <1>2 DEF SecRunWorker, SecRecord, SecInv, SecTypeOK, SecRecorded
<1>5. SecVerdict'
  BY DEF SecRunWorker, SecInv, SecTypeOK, SecVerdict, Sent
<1> QED BY <1>3, <1>4, <1>5 DEF SecInv

LEMMA SecAggregateInv ==
  ASSUME SecInv, SecAggregate
  PROVE  SecInv'
<1>1. (SecBlocking' <=> SecBlocking) /\ (SecRecorded' <=> SecRecorded)
  BY DEF SecAggregate, SecBlocking, Merged, SecRecorded
<1>2. SecVerdict'
  <2>1. CASE /\ secPc' = "failed" /\ secSent' = (IF Findings THEN <<"findings">> ELSE <<>>)
             /\ \E rows \in {{}, {"risk_assessment"}} : secRows' = rows
    BY <2>1 DEF SecVerdict, Sent
  <2>2. CASE /\ secPc' = IF SecBlocking THEN "failed" ELSE "completed"
             /\ secSent' = (IF Findings THEN <<"findings">> ELSE <<>>) \o SecAnnounce
             /\ secRows' = {"risk_assessment", "security_report"}
    <3> DEFINE first == IF Findings THEN <<"findings">> ELSE <<>>
               Subjects == {"findings", "retry", "failed", "completed"}
    <3>1. first \in Seq(Subjects) /\ SecAnnounce \in Seq(Subjects)
      <4> HIDE DEF Subjects
      <4>1. \A x \in {"findings", "retry", "failed", "completed"} : x \in Subjects
        BY DEF Subjects
      <4> QED BY <4>1, ShortSeqs DEF SecAnnounce
    <3>2. ~Mentions(first, "completed")
      BY DEF Mentions
    <3>3. \A x : Sent(x)' <=> Mentions(first, x) \/ Mentions(SecAnnounce, x)
      <4>1. secSent' = first \o SecAnnounce
        BY <2>2
      <4> HIDE DEF first, Subjects
      <4>2. \A x : Sent(x)' <=> Mentions(first \o SecAnnounce, x)
        BY <4>1 DEF Sent, Mentions
      <4> QED BY <3>1, <4>2, ConcatMentions
    <3>4. IF SecBlocking THEN Mentions(SecAnnounce, "retry") /\ ~Mentions(SecAnnounce, "completed")
                         ELSE Mentions(SecAnnounce, "completed")
      BY DEF SecAnnounce, Mentions
    <3> QED BY <1>1, <2>2, <3>2, <3>3, <3>4 DEF SecVerdict
  <2> QED BY <2>1, <2>2 DEF SecAggregate
<1>3. SecTypeOK'
  BY <1>2 DEF SecAggregate, SecInv, SecTypeOK
<1> QED BY <1>1, <1>2, <1>3 DEF SecInv

LEMMA SecStepInv == SecInv /\ [SecNext]_secVars => SecInv'
<1> SUFFICES ASSUME SecInv, [SecNext]_secVars PROVE SecInv' OBVIOUS
<1>1. CASE SecStart
  <2>1. secSent' = secSent \/ secSent' = <<"failed">>
    BY <1>1 DEF SecStart
  <2>2. SecTypeOK'
    BY <1>1, <2>1 DEF SecStart, SecInv, SecTypeOK
  <2>3. SecRecorded' /\ SecVerdict'
    BY <1>1, <2>1 DEF SecStart, SecInv, SecTypeOK, SecRecorded, SecVerdict, Sent
  <2> QED BY <2>2, <2>3 DEF SecInv
<1>2. CASE SecAggregate
  BY <1>2, SecAggregateInv
<1>3. ASSUME NEW w \in SecWorkers, SecRunWorker(w) PROVE SecInv'
  BY <1>3, SecWorkerInv
<1>4. CASE UNCHANGED secVars
  BY <1>4 DEF secVars, SecInv, SecTypeOK, SecRecorded, SecVerdict, Sent, SecBlocking, Merged
<1> QED BY <1>1, <1>2, <1>3, <1>4 DEF SecNext

\* No finding of a Security worker is lost, whatever order they finish in: the run completes
\* only if none that returned is blocking, and fails with a stored report only if one is.
THEOREM FindingsAreKept == SecSpec => []NoFindingIsLost
<1>1. SecInv => NoFindingIsLost
  BY MergedIsComplete DEF SecInv, SecVerdict, NoFindingIsLost
<1> QED BY <1>1, SecInitInv, SecStepInv, PTL DEF SecSpec

-----------------------------------------------------------------------------
(***************************************************************************)
(* DevOps                                                                  *)
(***************************************************************************)
\* The runs of the head, the rows and the releases, and the barrier of the gates.
DvoRunStates ==
  [pc       : {"idle", "infrastructure", "cicd", "proposing", "plan", "row", "planned",
               "find_row", "insert_row", "deploy", "check", "decide", "record_rollback",
               "rolled_back", "release", "deployed", "failed"},
   version  : Nat,
   row      : Nat,
   deploy   : {"none", "started", "refused", "raised"},
   checks   : {"none", "passed", "failed", "unknown", "malformed"},
   rollback : {"none", "completed", "failed", "raised"},
   tagged   : BOOLEAN]

DvoStatuses == {"awaiting_approval", "pending", "deploying", "failed", "rolled_back", "healthy"}

DvoRowStates == [status : DvoStatuses, version : Nat]

DvoReleaseStates == [version : Nat, row : Nat]

DvoRunType == dvoRun \in [DvoRuns -> DvoRunStates]

DvoDataType ==
  /\ dvoPlans \in Seq(Nat)
  /\ dvoRows \in Seq(DvoRowStates)
  /\ dvoReleases \in Seq(DvoReleaseStates)

DvoGateType ==
  /\ dvoSeen \subseteq Gates
  /\ dvoPassed \in [Gates -> Nat]
  /\ dvoStarts \in Nat

\* How far a run is tells what it knows: a run that was tagged passed its checks, and one
\* that ended after the provider was reached was tagged or asked for the rollback, if its
\* checks had their form.
RunIsTold(run) ==
  /\ run.pc \in {"idle", "infrastructure", "cicd", "proposing", "plan", "row", "planned",
                 "find_row", "insert_row", "deploy"} => run.deploy = "none"
  /\ run.deploy = "none" => run.rollback = "none" /\ ~run.tagged
  /\ run.pc \in {"check", "decide"} => run.deploy # "none" /\ run.rollback = "none" /\ ~run.tagged
  /\ run.pc = "record_rollback" => run.rollback # "none"
  /\ run.pc = "release" => run.tagged
  /\ run.tagged => run.deploy = "started" /\ run.checks = "passed" /\ run.rollback = "none"
  /\ run.pc \in DvoDone /\ run.deploy # "none" /\ ~run.tagged /\ run.checks # "malformed"
       => run.rollback # "none"

RunsAreTold == \A r \in DvoRuns : RunIsTold(dvoRun[r])

HealthyIsReleased ==
  \A i \in DOMAIN dvoRows :
    dvoRows[i].status = "healthy" => \E k \in DOMAIN dvoReleases : dvoReleases[k].row = i

ReleasedOnce ==
  \A j, k \in DOMAIN dvoReleases : dvoReleases[j].version = dvoReleases[k].version => j = k

\* A pass that is remembered has not been spent.
PassesAreSpent ==
  \A g \in Gates : dvoStarts + (IF g \in dvoSeen THEN 1 ELSE 0) <= dvoPassed[g]

DvoInv ==
  /\ DvoRunType /\ DvoDataType /\ DvoGateType
  /\ RunsAreTold /\ HealthyIsReleased /\ ReleasedOnce /\ PassesAreSpent

-----------------------------------------------------------------------------
\* A run changes by one of its own steps.
LEMMA DvoRunSet ==
  ASSUME DvoRunType, RunsAreTold, NEW r \in DvoRuns,
         NEW run \in DvoRunStates, RunIsTold(run), dvoRun' = [dvoRun EXCEPT ![r] = run]
  PROVE  DvoRunType' /\ RunsAreTold'
BY DEF DvoRunType, RunsAreTold

\* The stages before the provider is asked: nothing is known of it.
LEMMA DvoPlanRuns ==
  ASSUME DvoRunType, DvoDataType, RunsAreTold, NEW r \in DvoRuns,
         \/ PlanStart(r) \/ GenerateInfrastructure(r) \/ GenerateCicd(r)
         \/ Propose(r) \/ StorePlan(r) \/ CreateRow(r) \/ Approve(r)
         \/ FindRow(r) \/ InsertDeployment(r)
  PROVE  DvoRunType' /\ RunsAreTold'
<1> DEFINE run(pc, version, row) ==
             [dvoRun[r] EXCEPT !.pc = pc, !.version = version, !.row = row]
           After == {"infrastructure", "cicd", "proposing", "plan", "row", "planned",
                     "find_row", "insert_row", "deploy", "failed"}
<1>1. /\ dvoRun[r] \in DvoRunStates
      /\ dvoRun[r].deploy = "none" /\ dvoRun[r].rollback = "none" /\ ~dvoRun[r].tagged
  <2>1. dvoRun[r].pc \in {"idle", "infrastructure", "cicd", "proposing", "plan", "row",
                          "find_row", "insert_row"}
    BY DEF PlanStart, GenerateInfrastructure, GenerateCicd, LeadRuns, Propose, StorePlan,
           CreateRow, Approve, FindRow, InsertDeployment, At
  <2> QED BY <2>1 DEF DvoRunType, RunsAreTold, RunIsTold
<1>2. dvoRun[r].version \in Nat /\ dvoRun[r].row \in Nat
  BY <1>1 DEF DvoRunStates
<1>3. ASSUME NEW pc \in After, NEW version \in Nat, NEW row \in Nat,
             dvoRun' = [dvoRun EXCEPT ![r] = run(pc, version, row)]
      PROVE  DvoRunType' /\ RunsAreTold'
  <2>1. run(pc, version, row) \in DvoRunStates
    BY <1>1 DEF DvoRunStates
  <2>2. RunIsTold(run(pc, version, row))
    BY <1>1 DEF RunIsTold, DvoRunStates
  <2> HIDE DEF run
  <2> QED BY <1>3, <2>1, <2>2, DvoRunSet
<1>4. ASSUME NEW pc \in After, Goto(r, pc)
      PROVE  dvoRun' = [dvoRun EXCEPT ![r] = run(pc, dvoRun[r].version, dvoRun[r].row)]
  BY <1>1, <1>4 DEF Goto, DvoRunType, DvoRunStates
<1>5. ASSUME NEW pc \in After, DvoEnds(r, {pc})
      PROVE  dvoRun' = [dvoRun EXCEPT ![r] = run(pc, 0, 0)]
  BY <1>1, <1>5 DEF DvoEnds, DvoRunType, DvoRunStates
<1> HIDE DEF run
<1>6. CASE PlanStart(r) \/ GenerateInfrastructure(r) \/ GenerateCicd(r)
  <2>1. \E pc \in After : Goto(r, pc)
    BY <1>6 DEF PlanStart, GenerateInfrastructure, GenerateCicd, LeadRuns
  <2> QED BY <1>2, <1>3, <1>4, <2>1
<1>7. CASE Propose(r)
  <2>1. PICK releases \in {dvoReleases, <<>>} :
          dvoRun' = [dvoRun EXCEPT ![r].pc = "plan", ![r].version = BumpMinor(releases)]
    BY <1>7 DEF Propose
  <2>2. releases = <<>> \/ releases \in Seq(DvoReleaseStates)
    BY DEF DvoDataType
  <2>3. BumpMinor(releases) \in Nat
    <3>1. CASE releases = <<>>
      BY <3>1 DEF BumpMinor
    <3>2. CASE releases # <<>>
      <4>1. releases[Len(releases)] \in DvoReleaseStates
        BY <2>2, <3>2
      <4> QED BY <3>2, <4>1 DEF BumpMinor, DvoReleaseStates
    <3> QED BY <3>1, <3>2
  <2>4. dvoRun' = [dvoRun EXCEPT ![r] = run("plan", BumpMinor(releases), dvoRun[r].row)]
    BY <1>1, <2>1 DEF run, DvoRunType, DvoRunStates
  <2> QED BY <1>2, <1>3, <2>3, <2>4
<1>8. CASE StorePlan(r) \/ CreateRow(r)
  <2>1. Goto(r, "row") \/ DvoEnds(r, {"failed"}) \/ DvoEnds(r, {"planned"})
    BY <1>8 DEF StorePlan, CreateRow
  <2> QED BY <1>2, <1>3, <1>4, <1>5, <2>1
<1>9. CASE Approve(r)
  <2>1. dvoPlans[Len(dvoPlans)] \in Nat
    BY <1>9 DEF Approve, DvoDataType
  <2>2. dvoRun' = [dvoRun EXCEPT ![r] =
                     run("find_row", dvoPlans[Len(dvoPlans)], dvoRun[r].row)]
    BY <1>1, <1>9 DEF Approve, run, DvoRunType, DvoRunStates
  <2> QED BY <1>2, <1>3, <2>1, <2>2
<1>10. CASE FindRow(r) \/ InsertDeployment(r)
  <2>1. Len(dvoRows) \in Nat
    BY DEF DvoDataType
  <2>2. \/ Goto(r, "deploy")
        \/ Goto(r, "insert_row")
        \/ \E row \in Nat : dvoRun' = [dvoRun EXCEPT ![r].pc = "deploy", ![r].row = row]
    BY <1>10, <2>1 DEF FindRow, InsertDeployment
  <2>3. ASSUME NEW row \in Nat, dvoRun' = [dvoRun EXCEPT ![r].pc = "deploy", ![r].row = row]
        PROVE  dvoRun' = [dvoRun EXCEPT ![r] = run("deploy", dvoRun[r].version, row)]
    BY <1>1, <2>3 DEF run, DvoRunType, DvoRunStates
  <2> QED BY <1>2, <1>3, <1>4, <2>2, <2>3
<1> QED BY <1>6, <1>7, <1>8, <1>9, <1>10

\* The stages from the provider on.
LEMMA DvoDeployRuns ==
  ASSUME DvoRunType, RunsAreTold, NEW r \in DvoRuns,
         \/ Deploy(r) \/ HealthCheck(r) \/ RollBack(r) \/ RecordRollback(r) \/ Tag(r)
         \/ RecordRelease(r)
  PROVE  DvoRunType' /\ RunsAreTold'
<1> USE DEF DvoRunType, DvoRunStates, RunsAreTold, RunIsTold, At, DvoDone
<1>1. CASE Deploy(r)
  BY <1>1 DEF Deploy
<1>2. CASE HealthCheck(r)
  BY <1>2 DEF HealthCheck
<1>3. CASE RollBack(r)
  BY <1>3 DEF RollBack
<1>4. CASE RecordRollback(r)
  BY <1>4 DEF RecordRollback, DvoEnds
<1>5. CASE Tag(r)
  BY <1>5 DEF Tag, MustRollBack
<1>6. CASE RecordRelease(r)
  BY <1>6 DEF RecordRelease, DvoEnds
<1> QED BY <1>1, <1>2, <1>3, <1>4, <1>5, <1>6

LEMMA DvoRowTyped ==
  ASSUME NEW rows \in Seq(DvoRowStates), NEW i, NEW status \in DvoStatuses
  PROVE  /\ [rows EXCEPT ![i].status = status] \in Seq(DvoRowStates)
         /\ DOMAIN [rows EXCEPT ![i].status = status] = DOMAIN rows
<1>1. CASE i \in DOMAIN rows
  <2> DEFINE row == [rows[i] EXCEPT !.status = status]
  <2>1. row \in DvoRowStates
    <3>1. rows[i] \in DvoRowStates
      BY <1>1
    <3> QED BY <3>1 DEF DvoRowStates
  <2>2. [rows EXCEPT ![i].status = status] = [rows EXCEPT ![i] = row]
    OBVIOUS
  <2> HIDE DEF row
  <2> QED BY <1>1, <2>1, <2>2
<1>2. CASE i \notin DOMAIN rows
  <2>1. [rows EXCEPT ![i].status = status] = rows
    BY <1>2
  <2> QED BY <2>1
<1> QED BY <1>1, <1>2

\* A row becomes anything but healthy, or a new one that is not, and no release is touched.
LEMMA DvoRowSet ==
  ASSUME DvoDataType, HealthyIsReleased, UNCHANGED <<dvoPlans, dvoReleases>>,
         NEW i, NEW status \in DvoStatuses \ {"healthy"},
         \/ dvoRows' = SetRow(i, status)
         \/ \E v \in Nat : dvoRows' = Append(dvoRows, [status |-> status, version |-> v])
  PROVE  DvoDataType' /\ HealthyIsReleased'
<1> USE DEF DvoDataType, HealthyIsReleased
<1>1. CASE dvoRows' = SetRow(i, status)
  <2>1. dvoRows' \in Seq(DvoRowStates) /\ DOMAIN dvoRows' = DOMAIN dvoRows
    BY <1>1, DvoRowTyped DEF SetRow
  <2>3. \A j \in DOMAIN dvoRows : dvoRows'[j].status \in {dvoRows[j].status, status}
    BY <1>1 DEF SetRow, DvoRowStates
  <2> QED BY <2>1, <2>3
<1>2. ASSUME NEW v \in Nat, dvoRows' = Append(dvoRows, [status |-> status, version |-> v])
      PROVE  DvoDataType' /\ HealthyIsReleased'
  <2>1. dvoRows' \in Seq(DvoRowStates)
    <3>1. [status |-> status, version |-> v] \in DvoRowStates
      BY DEF DvoRowStates
    <3> QED BY <1>2, <3>1
  <2>2. \A j \in DOMAIN dvoRows' :
          \/ j \in DOMAIN dvoRows /\ dvoRows'[j] = dvoRows[j]
          \/ dvoRows'[j].status = status
    BY <1>2
  <2> QED BY <2>1, <2>2
<1> QED BY <1>1, <1>2

\* The transaction of a release records it with the row it makes healthy.
LEMMA DvoReleaseSet ==
  ASSUME DvoRunType, DvoDataType, HealthyIsReleased, ReleasedOnce,
         NEW r \in DvoRuns, CommitRelease(r), UNCHANGED dvoPlans
  PROVE  DvoDataType' /\ HealthyIsReleased' /\ ReleasedOnce'
<1> DEFINE i == dvoRun[r].row
           release == [version |-> dvoRun[r].version, row |-> i]
<1>1. i \in Nat \ {0} /\ dvoRun[r].version \in Nat
  BY DEF DvoRunType, DvoRunStates, CommitRelease
<1>2. dvoReleases' = Append(dvoReleases, release)
  BY DEF CommitRelease
<1>3. dvoRows' = [dvoRows EXCEPT ![i].status = "healthy"]
  BY <1>1 DEF CommitRelease, SetRow
<1>4. DvoDataType'
  <2>1. dvoRows' \in Seq(DvoRowStates)
    <3>1. "healthy" \in DvoStatuses
      BY DEF DvoStatuses
    <3>2. dvoRows \in Seq(DvoRowStates)
      BY DEF DvoDataType
    <3> QED BY <1>3, <3>1, <3>2, DvoRowTyped
  <2>2. dvoReleases' \in Seq(DvoReleaseStates)
    <3>1. release \in DvoReleaseStates
      BY <1>1 DEF DvoReleaseStates
    <3>2. dvoReleases \in Seq(DvoReleaseStates)
      BY DEF DvoDataType
    <3> HIDE DEF release
    <3> QED BY <1>2, <3>1, <3>2
  <2> QED BY <2>1, <2>2 DEF DvoDataType
<1>5. /\ DOMAIN dvoReleases' = DOMAIN dvoReleases \cup {Len(dvoReleases) + 1}
      /\ \A k \in DOMAIN dvoReleases : dvoReleases'[k] = dvoReleases[k]
      /\ dvoReleases'[Len(dvoReleases) + 1] = release
      /\ Len(dvoReleases) + 1 \notin DOMAIN dvoReleases
  BY <1>2 DEF DvoDataType
<1> HIDE DEF i
<1>6. HealthyIsReleased'
  <2>1. /\ DOMAIN dvoRows' = DOMAIN dvoRows
        /\ \A j \in DOMAIN dvoRows : j # i => dvoRows'[j] = dvoRows[j]
    BY <1>3 DEF DvoDataType
  <2>2. dvoReleases'[Len(dvoReleases) + 1].row = i
    BY <1>5
  <2> QED BY <1>5, <2>1, <2>2 DEF HealthyIsReleased
<1>7. ReleasedOnce'
  <2>1. \A k \in DOMAIN dvoReleases : dvoReleases[k].version # release.version
    BY DEF CommitRelease
  <2> HIDE DEF release
  <2> QED BY <1>5, <2>1 DEF ReleasedOnce
<1> QED BY <1>4, <1>6, <1>7

LEMMA DvoRunStepInv ==
  ASSUME DvoInv, NEW r \in DvoRuns, DvoRunStep(r)
  PROVE  DvoInv'
<1> USE DEF DvoInv
<1>1. DvoRunType' /\ RunsAreTold'
  BY DvoPlanRuns, DvoDeployRuns DEF DvoRunStep
<1>2. DvoGateType' /\ PassesAreSpent'
  <2>1. UNCHANGED dvoGates
    BY DEF DvoRunStep, PlanStart, GenerateInfrastructure, GenerateCicd, LeadRuns, Propose,
           StorePlan, CreateRow, Approve, FindRow, InsertDeployment, Deploy, HealthCheck, RollBack,
           RecordRollback, Tag, RecordRelease
  <2> QED BY <2>1 DEF dvoGates, DvoGateType, PassesAreSpent
<1>3. DvoDataType' /\ HealthyIsReleased' /\ ReleasedOnce'
  <2>1. CASE UNCHANGED dvoData
    BY <2>1 DEF dvoData, DvoDataType, HealthyIsReleased, ReleasedOnce
  <2>2. CASE PlanStart(r) \/ GenerateInfrastructure(r) \/ GenerateCicd(r) \/ Propose(r)
             \/ Approve(r) \/ FindRow(r) \/ HealthCheck(r) \/ RollBack(r) \/ Tag(r)
    BY <2>1, <2>2 DEF PlanStart, GenerateInfrastructure, GenerateCicd, LeadRuns, Propose,
                      Approve, FindRow, HealthCheck, RollBack, Tag
  <2>3. CASE StorePlan(r)
    <3>1. dvoRun[r].version \in Nat
      BY DEF DvoRunType, DvoRunStates
    <3>2. dvoPlans' \in Seq(Nat)
      <4>1. dvoPlans \in Seq(Nat)
        BY DEF DvoDataType
      <4>2. dvoPlans' = dvoPlans \/ dvoPlans' = Append(dvoPlans, dvoRun[r].version)
        BY <2>3 DEF StorePlan
      <4> QED BY <3>1, <4>1, <4>2
    <3> QED BY <2>3, <3>2 DEF StorePlan, DvoDataType, HealthyIsReleased, ReleasedOnce
  <2>4. ASSUME UNCHANGED <<dvoPlans, dvoReleases>>,
               \/ UNCHANGED dvoRows
               \/ \E i \in Nat, status \in DvoStatuses \ {"healthy"} :
                    \/ dvoRows' = SetRow(i, status)
                    \/ \E v \in Nat : dvoRows' = Append(dvoRows, [status |-> status, version |-> v])
        PROVE  DvoDataType' /\ HealthyIsReleased' /\ ReleasedOnce'
    BY <2>1, <2>4, DvoRowSet DEF dvoData, ReleasedOnce
  <2>5. CASE CreateRow(r) \/ InsertDeployment(r)
    <3>1. dvoRun[r].version \in Nat
      BY DEF DvoRunType, DvoRunStates
    <3> QED BY <2>4, <2>5, <3>1 DEF CreateRow, InsertDeployment, DvoStatuses
  <2>6. CASE Deploy(r) \/ RecordRollback(r)
    <3>1. dvoRun[r].row \in Nat
      BY DEF DvoRunType, DvoRunStates
    <3> QED BY <2>4, <2>6, <3>1 DEF Deploy, RecordRollback, DvoStatuses
  <2>7. CASE RecordRelease(r)
    BY <2>1, <2>7, DvoReleaseSet DEF RecordRelease, dvoData
  <2> QED BY <2>2, <2>3, <2>5, <2>6, <2>7 DEF DvoRunStep
<1> QED BY <1>1, <1>2, <1>3

LEMMA DvoGateStepInv ==
  ASSUME DvoInv, DvoGateStep
  PROVE  DvoInv'
<1> USE DEF DvoInv
<1>1. UNCHANGED <<dvoRun, dvoData>>
  BY DEF DvoGateStep, DvoRestart, GateCompleted
<1>2. DvoGateType' /\ PassesAreSpent'
  <2> USE DEF DvoGateType, PassesAreSpent
  <2>1. CASE DvoRestart
    BY <2>1 DEF DvoRestart
  <2>2. ASSUME NEW g \in Gates, dvoPassed' = [dvoPassed EXCEPT ![g] = @ + 1],
               StartOnBoth(dvoSeen \cup {g})
        PROVE  DvoGateType' /\ PassesAreSpent'
    BY <2>2 DEF StartOnBoth
  <2>3. ASSUME UNCHANGED dvoGates
        PROVE  DvoGateType' /\ PassesAreSpent'
    BY <2>3 DEF dvoGates
  <2> QED BY <2>1, <2>2, <2>3 DEF DvoGateStep, GateCompleted
<1>3. DvoRunType' /\ DvoDataType' /\ RunsAreTold' /\ HealthyIsReleased' /\ ReleasedOnce'
  BY <1>1 DEF dvoData, DvoRunType, DvoDataType, RunsAreTold, HealthyIsReleased, ReleasedOnce
<1> QED BY <1>2, <1>3

LEMMA DvoInitInv == DvoInit => DvoInv
BY DEF DvoInit, DvoInv, DvoRunType, DvoRunStates, DvoDataType, DvoGateType, RunsAreTold,
       RunIsTold, HealthyIsReleased, ReleasedOnce, PassesAreSpent

LEMMA DvoStepInv == DvoInv /\ [DvoNext]_dvoVars => DvoInv'
<1> SUFFICES ASSUME DvoInv, [DvoNext]_dvoVars PROVE DvoInv' OBVIOUS
<1>1. CASE UNCHANGED dvoVars
  BY <1>1 DEF dvoVars, dvoData, dvoGates, DvoInv, DvoRunType, DvoDataType, DvoGateType,
              RunsAreTold, HealthyIsReleased, ReleasedOnce, PassesAreSpent
<1> QED BY <1>1, DvoRunStepInv, DvoGateStepInv DEF DvoNext

LEMMA DvoInvariant == DvoSpec => []DvoInv
BY DvoInitInv, DvoStepInv, PTL DEF DvoSpec

\* A deployment that ends after it reached the provider was released or asked to be rolled
\* back, unless it raised on malformed checks; what is tagged as a release passed its
\* checks, a healthy row has its release, and no version is recorded twice, however runs
\* interleave and whichever call fails.
THEOREM ReleasesAreChecked == DvoSpec => []ReleasedOrRolledBack
<1>1. DvoInv => ReleasedOrRolledBack
  BY DEF DvoInv, RunsAreTold, RunIsTold, HealthyIsReleased, ReleasedOnce, ReleasedOrRolledBack
<1> QED BY <1>1, DvoInvariant, PTL

\* The plans started never outnumber the passes of either gate, over repeated validations
\* and restarts of the process.
THEOREM PassesStartOnce == DvoSpec => []StartsSpendTheirPasses
<1>1. DvoInv => StartsSpendTheirPasses
  BY DEF DvoInv, DvoGateType, PassesAreSpent, StartsSpendTheirPasses
<1> QED BY <1>1, DvoInvariant, PTL

-----------------------------------------------------------------------------
(***************************************************************************)
(* Product                                                                 *)
(***************************************************************************)
\* Who has written each document, and whose leads have submitted.
PpWriters(i) == {r \in PpRuns : ppStep[r] > i}
PpSubmitters == {r \in PpRuns : ppStep[r] = Lead + 1}

PpTypeOK ==
  /\ ppStep \in [PpRuns -> 0 .. Lead + 1]
  /\ ppStatus \in [PpRuns -> {"running", "escalated", "completed"}]
  /\ ppDrafts \in [ToSet(Documents) -> Seq(PpRuns)]
  /\ ppUnderReview \in [ToSet(Documents) -> SUBSET PpRuns]
  /\ ppSelected \in [PpRuns -> Seq(SUBSET PpRuns)]
  /\ ppAnnounced \subseteq PpSubmitters

\* A run that is past a document's writer has a row of it.
PpRowsWritten ==
  \A i \in DOMAIN Documents : PpWriters(i) \subseteq ToSet(ppDrafts[Documents[i]])

\* A submission takes at most one row of each document.
PpOneEach ==
  /\ IsFiniteSet(PpSubmitters)
  /\ \A i \in DOMAIN Documents :
       /\ IsFiniteSet(ppUnderReview[Documents[i]])
       /\ Cardinality(ppUnderReview[Documents[i]]) <= Cardinality(PpSubmitters)

\* A lead selects one document after the other and misses none; submitting them puts
\* them under review.
PpNoneMissed ==
  \A r \in PpRuns :
    /\ Len(ppSelected[r]) <= Len(Documents)
    /\ \A i \in DOMAIN ppSelected[r] : \E w \in PpRuns : ppSelected[r][i] = {w}
    /\ r \in PpSubmitters =>
         /\ Len(ppSelected[r]) = Len(Documents)
         /\ \A i \in DOMAIN Documents : ppSelected[r][i] \subseteq ppUnderReview[Documents[i]]

PpInv == PpTypeOK /\ PpRowsWritten /\ PpOneEach /\ PpNoneMissed

LEMMA PpNumbers ==
  /\ DOMAIN Documents = 1 .. 4 /\ Len(Documents) = 4 /\ Reviewer = 5 /\ Lead = 6
  /\ ToSet(Documents) = {"feature_spec_doc", "requirements_doc", "user_stories_doc",
                         "acceptance_criteria"}
  /\ \A i \in DOMAIN Documents : Documents[i] \in ToSet(Documents)
  /\ \A i, j \in DOMAIN Documents : Documents[i] = Documents[j] => i = j
<1>1. DOMAIN Documents = 1 .. 4 /\ Len(Documents) = 4
  BY DEF Documents
<1>2. /\ Documents[1] = "feature_spec_doc" /\ Documents[2] = "requirements_doc"
      /\ Documents[3] = "user_stories_doc" /\ Documents[4] = "acceptance_criteria"
  BY DEF Documents
<1> QED BY <1>1, <1>2 DEF ToSet, Reviewer, Lead

LEMMA PpInitInv == PpInit => PpInv
<1> SUFFICES ASSUME PpInit PROVE PpInv OBVIOUS
<1> USE DEF PpInit
<1>1. PpSubmitters = {} /\ \A i \in DOMAIN Documents : PpWriters(i) = {}
  BY PpNumbers DEF PpSubmitters, PpWriters
<1>2. PpTypeOK
  BY PpNumbers DEF PpTypeOK
<1>3. PpRowsWritten
  BY <1>1, PpNumbers DEF PpRowsWritten, ToSet
<1>4. PpOneEach
  BY <1>1, PpNumbers, FS_EmptySet DEF PpOneEach
<1>5. PpNoneMissed
  BY <1>1, PpNumbers DEF PpNoneMissed
<1> QED BY <1>2, <1>3, <1>4, <1>5 DEF PpInv

\* While a lead has not submitted, its own rows outnumber what was taken: each document
\* has a draft left.
LEMMA PpDraftLeft ==
  ASSUME PpInv, NEW r \in PpRuns, ppStep[r] = Lead, NEW i \in DOMAIN Documents
  PROVE  Drafts(Documents[i]) # {}
<1> DEFINE d == Documents[i]
           S == PpSubmitters
           U == ppUnderReview[d]
<1>1. SUFFICES ASSUME Drafts(d) = {} PROVE FALSE
  OBVIOUS
<1>2. PpWriters(i) \subseteq U
  <2>1. PpWriters(i) \subseteq ToSet(ppDrafts[d])
    BY DEF PpInv, PpRowsWritten
  <2> QED BY <1>1, <2>1 DEF Drafts, ToSet
<1>3. S \cup {r} \subseteq U /\ r \notin S
  <2>1. S \cup {r} \subseteq PpWriters(i)
    BY PpNumbers DEF PpSubmitters, PpWriters
  <2>2. r \notin S
    BY PpNumbers DEF PpSubmitters
  <2> QED BY <1>2, <2>1, <2>2
<1>4. IsFiniteSet(S) /\ IsFiniteSet(U) /\ Cardinality(U) <= Cardinality(S)
  BY DEF PpInv, PpOneEach
<1> HIDE DEF S, U
<1>5. Cardinality(S \cup {r}) = Cardinality(S) + 1
  BY <1>3, <1>4, FS_AddElement
<1>6. Cardinality(S \cup {r}) <= Cardinality(U)
  BY <1>3, <1>4, FS_Subset
<1>7. Cardinality(S) \in Nat /\ Cardinality(U) \in Nat
  BY <1>4, FS_CardinalityType
<1> QED BY <1>4, <1>5, <1>6, <1>7

LEMMA PpSelectInv ==
  ASSUME PpInv, NEW r \in PpRuns, SelectDraft(r)
  PROVE  PpInv'
<1> DEFINE i == Len(ppSelected[r]) + 1
           d == Documents[i]
           latest == IF Drafts(d) = {} THEN {} ELSE {ppDrafts[d][Max(Drafts(d))]}
<1> USE DEF PpInv
<1>1. /\ ppStep[r] = Lead /\ i \in DOMAIN Documents
      /\ ppSelected' = [ppSelected EXCEPT ![r] = Append(@, latest)]
      /\ UNCHANGED <<ppStep, ppStatus, ppDrafts, ppUnderReview, ppAnnounced>>
  BY PpNumbers DEF SelectDraft, PpTypeOK
<1>2. PICK w \in PpRuns : latest = {w}
  <2>1. Drafts(d) # {}
    BY <1>1, PpDraftLeft
  <2>2. ppDrafts[d] \in Seq(PpRuns)
    BY <1>1, PpNumbers DEF PpTypeOK
  <2>3. Drafts(d) \subseteq 1 .. Len(ppDrafts[d]) /\ Len(ppDrafts[d]) \in Nat
    BY <2>2 DEF Drafts
  <2>4. Max(Drafts(d)) \in 1 .. Len(ppDrafts[d])
    BY <2>1, <2>3, MaxOfBounded
  <2>5. ppDrafts[d][Max(Drafts(d))] \in PpRuns
    BY <2>2, <2>4
  <2> QED BY <2>1, <2>5
<1> HIDE DEF latest
<1>3. PpSubmitters' = PpSubmitters /\ \A k \in DOMAIN Documents : PpWriters(k)' = PpWriters(k)
  BY <1>1 DEF PpSubmitters, PpWriters
<1>4. PpRowsWritten' /\ PpOneEach'
  BY <1>1, <1>3 DEF PpRowsWritten, PpOneEach
<1>5. ppSelected'[r] = Append(ppSelected[r], {w}) /\ \A q \in PpRuns \ {r} : ppSelected'[q] = ppSelected[q]
  BY <1>1, <1>2 DEF PpTypeOK
<1>6. ppSelected[r] \in Seq(SUBSET PpRuns) /\ {w} \in SUBSET PpRuns
  BY DEF PpTypeOK
<1>7. PpTypeOK'
  <2>1. ppSelected' \in [PpRuns -> Seq(SUBSET PpRuns)]
    BY <1>1, <1>2, <1>6 DEF PpTypeOK
  <2> QED BY <1>1, <1>3, <2>1 DEF PpTypeOK
<1>8. PpNoneMissed'
  <2>1. r \notin PpSubmitters
    BY <1>1, PpNumbers DEF PpSubmitters
  <2>2. /\ Len(ppSelected'[r]) <= Len(Documents)
        /\ \A k \in DOMAIN ppSelected'[r] : \E v \in PpRuns : ppSelected'[r][k] = {v}
    <3>1. Len(Append(ppSelected[r], {w})) = i
      BY <1>6
    <3>2. \A k \in DOMAIN Append(ppSelected[r], {w}) :
            \/ k \in DOMAIN ppSelected[r] /\ Append(ppSelected[r], {w})[k] = ppSelected[r][k]
            \/ Append(ppSelected[r], {w})[k] = {w}
      BY <1>6
    <3> QED BY <1>1, <1>5, <3>1, <3>2, PpNumbers DEF PpNoneMissed
  <2> QED BY <1>1, <1>3, <1>5, <2>1, <2>2 DEF PpNoneMissed
<1> QED BY <1>4, <1>7, <1>8

LEMMA PpSubmitInv ==
  ASSUME PpInv, NEW r \in PpRuns, SubmitPackage(r)
  PROVE  PpInv'
<1> DEFINE taken(d) == ppSelected[r][CHOOSE i \in DOMAIN Documents : Documents[i] = d]
<1> USE DEF PpInv
<1>1. /\ ppStatus[r] = "running" /\ ppStep[r] = Lead /\ Len(ppSelected[r]) = Len(Documents)
      /\ UNCHANGED <<ppDrafts, ppSelected, ppAnnounced>>
  BY DEF SubmitPackage
<1>2. CASE StepFails(r) /\ UNCHANGED ppUnderReview
  <2>1. UNCHANGED ppStep /\ ppStatus' \in [PpRuns -> {"running", "escalated", "completed"}]
    BY <1>2 DEF StepFails, PpTypeOK
  <2>2. PpSubmitters' = PpSubmitters /\ \A k \in DOMAIN Documents : PpWriters(k)' = PpWriters(k)
    BY <2>1 DEF PpSubmitters, PpWriters
  <2> QED BY <1>1, <1>2, <2>1, <2>2
          DEF PpTypeOK, PpRowsWritten, PpOneEach, PpNoneMissed
<1>3. CASE /\ ppUnderReview' = [d \in DOMAIN ppDrafts |-> ppUnderReview[d] \cup taken(d)]
           /\ Advance(r)
  <2>1. ppStep' = [ppStep EXCEPT ![r] = Lead + 1] /\ UNCHANGED ppStatus
    BY <1>1, <1>3 DEF Advance, PpTypeOK
  <2>2. PpSubmitters' = PpSubmitters \cup {r} /\ r \notin PpSubmitters
    BY <1>1, <2>1, PpNumbers DEF PpSubmitters, PpTypeOK
  <2>3. \A k \in DOMAIN Documents : PpWriters(k)' = PpWriters(k)
    BY <1>1, <2>1, PpNumbers DEF PpWriters, PpTypeOK
  <2>4. \A i \in DOMAIN Documents : taken(Documents[i]) = ppSelected[r][i]
    BY PpNumbers
  <2> HIDE DEF taken
  <2>5. \A i \in DOMAIN Documents :
          ppUnderReview'[Documents[i]] = ppUnderReview[Documents[i]] \cup ppSelected[r][i]
    BY <1>3, <2>4, PpNumbers DEF PpTypeOK
  <2>6. \A i \in DOMAIN Documents : \E w \in PpRuns : ppSelected[r][i] = {w}
    <3>1. DOMAIN ppSelected[r] = DOMAIN Documents
      BY <1>1, PpNumbers DEF PpTypeOK
    <3> QED BY <3>1 DEF PpNoneMissed
  <2>7. PpTypeOK'
    <3>1. ppUnderReview' \in [ToSet(Documents) -> SUBSET PpRuns]
      <4>1. \A d \in ToSet(Documents) : \E i \in DOMAIN Documents : d = Documents[i]
        BY DEF ToSet
      <4>2. ASSUME NEW d \in ToSet(Documents)
            PROVE  ppUnderReview'[d] \in SUBSET PpRuns
        <5>1. PICK i \in DOMAIN Documents : d = Documents[i]
          BY <4>1
        <5>2. ppUnderReview[d] \in SUBSET PpRuns
          BY DEF PpTypeOK
        <5> QED BY <2>5, <2>6, <5>1, <5>2
      <4> QED BY <1>3, <4>2 DEF PpTypeOK
    <3>2. ppStep' \in [PpRuns -> 0 .. Lead + 1]
      BY <2>1, PpNumbers DEF PpTypeOK
    <3> QED BY <1>1, <2>1, <2>2, <3>1, <3>2 DEF PpTypeOK
  <2>8. PpRowsWritten'
    BY <1>1, <2>3 DEF PpRowsWritten
  <2>9. PpOneEach'
    <3>1. /\ IsFiniteSet(PpSubmitters')
          /\ Cardinality(PpSubmitters') = Cardinality(PpSubmitters) + 1
      BY <2>2, FS_AddElement DEF PpOneEach
    <3>2. ASSUME NEW i \in DOMAIN Documents
          PROVE  /\ IsFiniteSet(ppUnderReview'[Documents[i]])
                 /\ Cardinality(ppUnderReview'[Documents[i]]) <= Cardinality(PpSubmitters')
      <4> DEFINE U == ppUnderReview[Documents[i]]
      <4>1. IsFiniteSet(U) /\ Cardinality(U) <= Cardinality(PpSubmitters)
        BY DEF PpOneEach
      <4>2. PICK w \in PpRuns : ppUnderReview'[Documents[i]] = U \cup {w}
        BY <2>5, <2>6
      <4> HIDE DEF U
      <4>3. /\ IsFiniteSet(U \cup {w}) /\ Cardinality(U) \in Nat
            /\ Cardinality(U \cup {w}) \in {Cardinality(U), Cardinality(U) + 1}
        BY <4>1, FS_AddElement, FS_CardinalityType
      <4>4. Cardinality(PpSubmitters) \in Nat
        BY FS_CardinalityType DEF PpOneEach
      <4> QED BY <3>1, <4>1, <4>2, <4>3, <4>4
    <3> QED BY <3>1, <3>2 DEF PpOneEach
  <2>10. PpNoneMissed'
    BY <1>1, <2>2, <2>5 DEF PpNoneMissed
  <2> QED BY <2>7, <2>8, <2>9, <2>10
<1> QED BY <1>2, <1>3 DEF SubmitPackage

LEMMA PpWriteInv ==
  ASSUME PpInv, NEW r \in PpRuns, Write(r)
  PROVE  PpInv'
<1> USE DEF PpInv
<1>1. ppStep[r] \in DOMAIN Documents /\ UNCHANGED <<ppUnderReview, ppSelected, ppAnnounced>>
  BY DEF Write
<1>2. CASE StepFails(r) /\ UNCHANGED ppDrafts
  <2>1. UNCHANGED ppStep /\ ppStatus' \in [PpRuns -> {"running", "escalated", "completed"}]
    BY <1>2 DEF StepFails, PpTypeOK
  <2>2. PpSubmitters' = PpSubmitters /\ \A k \in DOMAIN Documents : PpWriters(k)' = PpWriters(k)
    BY <2>1 DEF PpSubmitters, PpWriters
  <2> QED BY <1>1, <1>2, <2>1, <2>2
          DEF PpTypeOK, PpRowsWritten, PpOneEach, PpNoneMissed
<1>3. CASE /\ Advance(r)
           /\ ppDrafts' = [ppDrafts EXCEPT ![Documents[ppStep[r]]] = Append(@, r)]
  <2>1. PICK i \in DOMAIN Documents : i = ppStep[r]
    BY <1>1
  <2>2. ppStep' = [ppStep EXCEPT ![r] = i + 1] /\ UNCHANGED ppStatus
    BY <1>3, <2>1 DEF Advance
  <2>3. PpSubmitters' = PpSubmitters
    BY <2>2, <2>1, PpNumbers DEF PpSubmitters, PpTypeOK
  <2>4. /\ PpWriters(i)' = PpWriters(i) \cup {r}
        /\ \A k \in DOMAIN Documents \ {i} : PpWriters(k)' = PpWriters(k)
    <3>1. i \in 1 .. 4 /\ DOMAIN Documents = 1 .. 4
      BY PpNumbers
    <3>2. \A q \in PpRuns : ppStep[q] \in Nat
      <4>1. \A q \in PpRuns : ppStep[q] \in 0 .. Lead + 1
        BY DEF PpTypeOK
      <4> QED BY <4>1, PpNumbers
    <3>3. \A q \in PpRuns : ppStep'[q] = IF q = r THEN i + 1 ELSE ppStep[q]
      BY <2>2 DEF PpTypeOK
    <3>4. \A k \in 1 .. 4, q \in PpRuns :
            ppStep'[q] > k <=> (ppStep[q] > k \/ (q = r /\ k = i))
      BY <2>1, <3>1, <3>2, <3>3
    <3>5. \A k \in 1 .. 4 : PpWriters(k)' = PpWriters(k) \cup (IF k = i THEN {r} ELSE {})
      BY <3>4 DEF PpWriters
    <3> QED BY <3>1, <3>5
  <2>5. /\ ppDrafts[Documents[i]] \in Seq(PpRuns)
        /\ ppDrafts'[Documents[i]] = Append(ppDrafts[Documents[i]], r)
        /\ \A k \in DOMAIN Documents \ {i} : ppDrafts'[Documents[k]] = ppDrafts[Documents[k]]
    BY <1>3, <2>1, PpNumbers DEF PpTypeOK
  <2>6. ToSet(Append(ppDrafts[Documents[i]], r)) = ToSet(ppDrafts[Documents[i]]) \cup {r}
    BY <2>5, AppendedSet
  <2>7. PpRowsWritten'
    <3>1. PpWriters(i)' \subseteq ToSet(ppDrafts'[Documents[i]])
      BY <2>1, <2>4, <2>5, <2>6 DEF PpRowsWritten
    <3>2. ASSUME NEW k \in DOMAIN Documents \ {i}
          PROVE  PpWriters(k)' \subseteq ToSet(ppDrafts'[Documents[k]])
      BY <2>4, <2>5 DEF PpRowsWritten
    <3> QED BY <3>1, <3>2 DEF PpRowsWritten
  <2>8. PpTypeOK'
    <3>1. ppStep' \in [PpRuns -> 0 .. Lead + 1]
      BY <2>2, <2>1, PpNumbers DEF PpTypeOK
    <3>2. ppDrafts' \in [ToSet(Documents) -> Seq(PpRuns)]
      <4>1. Append(ppDrafts[Documents[i]], r) \in Seq(PpRuns)
        BY <2>5
      <4> QED BY <1>3, <2>1, <4>1 DEF PpTypeOK
    <3> QED BY <1>1, <2>2, <2>3, <3>1, <3>2 DEF PpTypeOK
  <2>9. PpOneEach' /\ PpNoneMissed'
    BY <1>1, <2>3 DEF PpOneEach, PpNoneMissed
  <2> QED BY <2>7, <2>8, <2>9
<1>4. CASE /\ StepFails(r)
           /\ ppDrafts' = [ppDrafts EXCEPT ![Documents[ppStep[r]]] = Append(@, r)]
  <2>1. PICK i \in DOMAIN Documents : i = ppStep[r]
    BY <1>1
  <2>2. UNCHANGED ppStep /\ ppStatus' \in [PpRuns -> {"running", "escalated", "completed"}]
    BY <1>4 DEF StepFails, PpTypeOK
  <2>3. PpSubmitters' = PpSubmitters /\ \A k \in DOMAIN Documents : PpWriters(k)' = PpWriters(k)
    BY <2>2 DEF PpSubmitters, PpWriters
  <2>4. /\ ppDrafts[Documents[i]] \in Seq(PpRuns)
        /\ ppDrafts'[Documents[i]] = Append(ppDrafts[Documents[i]], r)
        /\ \A k \in DOMAIN Documents \ {i} : ppDrafts'[Documents[k]] = ppDrafts[Documents[k]]
    BY <1>4, <2>1, PpNumbers DEF PpTypeOK
  <2>5. ToSet(Append(ppDrafts[Documents[i]], r)) = ToSet(ppDrafts[Documents[i]]) \cup {r}
    BY <2>4, AppendedSet
  <2>6. PpRowsWritten'
    <3>1. PpWriters(i)' \subseteq ToSet(ppDrafts'[Documents[i]])
      BY <2>1, <2>3, <2>4, <2>5 DEF PpRowsWritten
    <3>2. ASSUME NEW k \in DOMAIN Documents \ {i}
          PROVE  PpWriters(k)' \subseteq ToSet(ppDrafts'[Documents[k]])
      BY <2>3, <2>4 DEF PpRowsWritten
    <3> QED BY <3>1, <3>2 DEF PpRowsWritten
  <2>7. ppDrafts' \in [ToSet(Documents) -> Seq(PpRuns)]
    <3>1. Append(ppDrafts[Documents[i]], r) \in Seq(PpRuns)
      BY <2>4
    <3> QED BY <1>4, <2>1, <3>1 DEF PpTypeOK
  <2>8. PpTypeOK'
    BY <1>1, <2>2, <2>3, <2>7 DEF PpTypeOK
  <2>9. PpOneEach' /\ PpNoneMissed'
    BY <1>1, <2>2, <2>3 DEF PpOneEach, PpNoneMissed
  <2> QED BY <2>6, <2>8, <2>9
<1> QED BY <1>2, <1>3, <1>4 DEF Write

LEMMA PpOtherInv ==
  ASSUME PpInv, NEW r \in PpRuns, StartPipeline(r) \/ ReviewPackage(r) \/ AnnouncePackage(r)
  PROVE  PpInv'
<1> USE DEF PpInv
<1>1. UNCHANGED <<ppDrafts, ppUnderReview, ppSelected>>
  BY DEF StartPipeline, ReviewPackage, AnnouncePackage
<1>2. ppStatus' \in [PpRuns -> {"running", "escalated", "completed"}]
  BY DEF StartPipeline, ReviewPackage, AnnouncePackage, Advance, StepFails, PpTypeOK
<1>3. \/ UNCHANGED ppStep
      \/ ppStep[r] \in {0, Reviewer} /\ ppStep' = [ppStep EXCEPT ![r] = ppStep[r] + 1]
  <2>1. CASE StartPipeline(r)
    BY <2>1 DEF StartPipeline
  <2>2. CASE ReviewPackage(r) \/ AnnouncePackage(r)
    BY <2>2 DEF ReviewPackage, AnnouncePackage, Advance, StepFails
  <2> QED BY <2>1, <2>2
<1>4. \A q \in PpRuns :
        /\ ppStep[q] \in 0 .. 7
        /\ ppStep'[q] = ppStep[q] \/ (ppStep[q] \in {0, 5} /\ ppStep'[q] = ppStep[q] + 1)
  BY <1>3, PpNumbers DEF PpTypeOK
<1>7. ppStep' \in [PpRuns -> 0 .. Lead + 1]
  <2>1. Lead + 1 = 7 /\ \A q \in PpRuns : ppStep'[q] \in 0 .. 7
    BY <1>4, PpNumbers
  <2>2. ppStep' = [q \in PpRuns |-> ppStep'[q]]
    BY <1>3 DEF PpTypeOK
  <2> QED BY <2>1, <2>2
<1>8. PpSubmitters' = PpSubmitters
  BY <1>4, PpNumbers DEF PpSubmitters
<1>5. \A k \in DOMAIN Documents : PpWriters(k)' = PpWriters(k)
  <2>1. \A k \in DOMAIN Documents, q \in PpRuns : ppStep'[q] > k <=> ppStep[q] > k
    BY <1>4, PpNumbers
  <2> QED BY <2>1 DEF PpWriters
<1>6. ppAnnounced' \subseteq PpSubmitters
  BY DEF StartPipeline, ReviewPackage, AnnouncePackage, PpTypeOK, PpSubmitters
<1> QED BY <1>1, <1>2, <1>7, <1>8, <1>5, <1>6
        DEF PpTypeOK, PpRowsWritten, PpOneEach, PpNoneMissed

LEMMA PpStepInv == PpInv /\ [PpNext]_ppVars => PpInv'
<1> SUFFICES ASSUME PpInv, [PpNext]_ppVars PROVE PpInv' OBVIOUS
<1>1. CASE UNCHANGED ppVars
  <2>1. PpSubmitters' = PpSubmitters /\ \A k \in DOMAIN Documents : PpWriters(k)' = PpWriters(k)
    BY <1>1 DEF ppVars, PpSubmitters, PpWriters
  <2> QED BY <1>1, <2>1
          DEF ppVars, PpInv, PpTypeOK, PpRowsWritten, PpOneEach, PpNoneMissed
<1> QED BY <1>1, PpWriteInv, PpSelectInv, PpSubmitInv, PpOtherInv DEF PpNext

\* A package that Product announces for approval has a document of each kind under review,
\* however many runs overlap and take each other's drafts.
THEOREM PackagesAreWhole == PpSpec => []PackageIsWhole
<1>1. ASSUME PpInv PROVE PackageIsWhole
  <2> SUFFICES ASSUME NEW r \in ppAnnounced, NEW i \in DOMAIN Documents
               PROVE  /\ ppSelected[r][i] # {}
                      /\ ppSelected[r][i] \subseteq ppUnderReview[Documents[i]]
    BY DEF PackageIsWhole
  <2>1. r \in PpRuns /\ r \in PpSubmitters
    BY <1>1 DEF PpInv, PpTypeOK, PpSubmitters
  <2>2. /\ ppSelected[r] \in Seq(SUBSET PpRuns)
        /\ Len(ppSelected[r]) = Len(Documents)
    BY <1>1, <2>1 DEF PpInv, PpTypeOK, PpNoneMissed
  <2>3. DOMAIN ppSelected[r] = DOMAIN Documents
    BY <2>2, PpNumbers
  <2>4. \E w \in PpRuns : ppSelected[r][i] = {w}
    BY <1>1, <2>1, <2>3 DEF PpInv, PpNoneMissed
  <2>5. ppSelected[r][i] \subseteq ppUnderReview[Documents[i]]
    BY <1>1, <2>1 DEF PpInv, PpNoneMissed
  <2> QED BY <2>4, <2>5
<1> QED BY <1>1, PpInitInv, PpStepInv, PTL DEF PpSpec

-----------------------------------------------------------------------------
(***************************************************************************)
(* The agent runtime                                                       *)
(***************************************************************************)
RtReviews == [cycles : 0 .. RtMaxReviewCycles, blocking : BOOLEAN, good : BOOLEAN]
RtRowStates == [version : Nat, by : RtAgents, review : RtReviews]

RtTypeOK ==
  /\ rtPc \in [RtAgents -> {"idle", "generate", "critique", "improve", "judge", "store",
                            "select", "insert", "flush"}]
  /\ rtReview \in [RtAgents -> RtReviews]
  /\ rtRead \in [RtAgents -> Nat]
  /\ rtResult \in [RtAgents -> {"none", "failed", "escalated", "completed"}]
  /\ rtRows \subseteq RtRowStates /\ IsFiniteSet(rtRows)
  /\ rtSent \subseteq [version : Nat, by : RtAgents]

\* The rows are numbered through; what an agent read is at most what is there now, and a
\* result that completed, as what is announced, is a row of its own.
RtNumbered ==
  /\ Versions = 1 .. Cardinality(rtRows)
  /\ \A a \in RtAgents :
       /\ rtRead[a] <= Cardinality(rtRows)
       /\ rtResult[a] = "completed" =>
            \E row \in rtRows : row.version = rtRead[a] + 1 /\ row.by = a
       /\ rtResult[a] # "none" => rtPc[a] = "flush"
  /\ \A e \in rtSent : \E row \in rtRows : row.version = e.version /\ row.by = e.by

\* A review goes on while cycles are left, and is left early only without blocking issues.
ReviewIsSpent(review) == review.blocking => review.cycles = RtMaxReviewCycles

RtReviewed ==
  /\ \A a \in RtAgents :
       /\ rtPc[a] \in {"idle", "generate", "critique"} =>
            rtReview[a].cycles < RtMaxReviewCycles
       /\ rtPc[a] \in {"judge", "store", "select", "insert"} => ReviewIsSpent(rtReview[a])
  /\ \A row \in rtRows : ReviewIsSpent(row.review)

RtInv == RtTypeOK /\ RtNumbered /\ RtReviewed

LEMMA RtInitInv == RtInit => RtInv
<1> SUFFICES ASSUME RtInit PROVE RtInv OBVIOUS
<1>1. Unreviewed \in RtReviews /\ Unreviewed.cycles < RtMaxReviewCycles
  BY AgentRuntimeAssumption DEF Unreviewed, RtReviews
<1>2. RtTypeOK
  BY <1>1, FS_EmptySet DEF RtInit, RtTypeOK
<1>3. RtNumbered
  BY FS_EmptySet DEF RtInit, RtNumbered, Versions
<1>4. RtReviewed
  BY <1>1 DEF RtInit, RtReviewed
<1> QED BY <1>2, <1>3, <1>4 DEF RtInv

\* The highest version is the number of rows.
LEMMA RtHighest ==
  ASSUME RtInv
  PROVE  Max(Versions \cup {0}) = Cardinality(rtRows) /\ Cardinality(rtRows) \in Nat
<1>1. Cardinality(rtRows) \in Nat
  BY FS_CardinalityType DEF RtInv, RtTypeOK
<1>2. Versions \cup {0} = 0 .. Cardinality(rtRows)
  BY <1>1 DEF RtInv, RtNumbered
<1>3. \A n \in Nat : Max(0 .. n) = n
  BY DEF Max
<1> QED BY <1>1, <1>2, <1>3

\* The steps that touch no row: the review, the model, the store and the read.
LEMMA RtQuietInv ==
  ASSUME RtInv, NEW a \in RtAgents,
         \/ PreExecute(a) \/ CallLlm(a) \/ Critique(a) \/ Improve(a) \/ Judge(a)
         \/ StoreContent(a) \/ SelectVersion(a)
  PROVE  RtInv'
<1> USE DEF RtInv
<1>1. UNCHANGED <<rtRows, rtSent>>
  BY DEF PreExecute, CallLlm, Critique, Improve, Judge, StoreContent, SelectVersion
<1>2. /\ rtPc' \in [RtAgents -> {"idle", "generate", "critique", "improve", "judge", "store",
                                 "select", "insert", "flush"}]
      /\ rtResult' \in [RtAgents -> {"none", "failed", "escalated", "completed"}]
  BY DEF PreExecute, CallLlm, Critique, Improve, Judge, StoreContent, SelectVersion, Go, Ends,
         RtTypeOK
<1>3. rtReview' \in [RtAgents -> RtReviews]
  <2>1. CASE Critique(a)
    <3>1. rtReview[a].cycles + 1 \in 0 .. RtMaxReviewCycles
      BY <2>1, AgentRuntimeAssumption DEF Critique, RtReviewed, RtTypeOK, RtReviews
    <3> QED BY <2>1, <3>1 DEF Critique, RtTypeOK, RtReviews
  <2>2. CASE ~Critique(a)
    BY <2>2 DEF PreExecute, CallLlm, Improve, Judge, StoreContent, SelectVersion, RtTypeOK
  <2> QED BY <2>1, <2>2
<1>4. /\ rtRead' \in [RtAgents -> Nat]
      /\ \A b \in RtAgents : rtRead'[b] <= Cardinality(rtRows)
  <2>1. CASE SelectVersion(a)
    <3>1. rtRead' = [rtRead EXCEPT ![a] = Cardinality(rtRows)]
      BY <2>1, RtHighest DEF SelectVersion
    <3>2. \A b \in RtAgents : rtRead[b] \in Nat /\ rtRead[b] <= Cardinality(rtRows)
      BY DEF RtTypeOK, RtNumbered
    <3> QED BY <3>1, <3>2, RtHighest DEF RtTypeOK
  <2>2. CASE UNCHANGED rtRead
    BY <2>2 DEF RtTypeOK, RtNumbered
  <2> QED BY <2>1, <2>2 DEF PreExecute, CallLlm, Critique, Improve, Judge, StoreContent
<1>5. RtTypeOK'
  BY <1>1, <1>2, <1>3, <1>4 DEF RtTypeOK
<1>6. RtNumbered'
  <2>1. ASSUME NEW b \in RtAgents
        PROVE  /\ rtResult'[b] = "completed" => rtResult[b] = "completed" /\ rtRead'[b] = rtRead[b]
               /\ rtResult'[b] # "none" => rtPc'[b] = "flush"
    BY DEF PreExecute, CallLlm, Critique, Improve, Judge, StoreContent, SelectVersion, Go,
           Ends, RtTypeOK, RtNumbered
  <2> QED BY <1>1, <1>4, <2>1 DEF RtNumbered, Versions
<1>7. RtReviewed'
  <2>1. ASSUME NEW b \in RtAgents
        PROVE  /\ rtPc'[b] \in {"idle", "generate", "critique"} =>
                    rtReview'[b].cycles < RtMaxReviewCycles
               /\ rtPc'[b] \in {"judge", "store", "select", "insert"} =>
                    ReviewIsSpent(rtReview'[b])
    <3>1. CASE b # a
      BY <3>1 DEF PreExecute, CallLlm, Critique, Improve, Judge, StoreContent, SelectVersion,
                  Go, Ends, RtTypeOK, RtReviewed
    <3>2. CASE b = a /\ (PreExecute(a) \/ CallLlm(a) \/ Judge(a) \/ StoreContent(a) \/ SelectVersion(a))
      BY <3>2 DEF PreExecute, CallLlm, Judge, StoreContent, SelectVersion, Go, Ends, RtTypeOK,
                  RtReviewed
    <3>3. CASE b = a /\ Critique(a)
      BY <3>3 DEF Critique, Go, RtTypeOK, ReviewIsSpent
    <3>4. CASE b = a /\ Improve(a)
      <4>1. rtReview[a].cycles \in 0 .. RtMaxReviewCycles
        BY DEF RtTypeOK, RtReviews
      <4> QED BY <3>4, <4>1, AgentRuntimeAssumption DEF Improve, Go, RtTypeOK, ReviewIsSpent
    <3> QED BY <3>1, <3>2, <3>3, <3>4
  <2> QED BY <1>1, <2>1 DEF RtReviewed
<1> QED BY <1>5, <1>6, <1>7

\* An insert that the table accepts takes the next number.
LEMMA RtInsertInv ==
  ASSUME RtInv, NEW a \in RtAgents, InsertRow(a)
  PROVE  RtInv'
<1> USE DEF RtInv
<1>1. rtPc[a] = "insert" /\ UNCHANGED <<rtReview, rtRead, rtSent>>
  BY DEF InsertRow
<1>2. ASSUME NEW status \in {"failed", "completed"}, Ends(a, status)
      PROVE  /\ rtPc' = [rtPc EXCEPT ![a] = "flush"]
             /\ rtResult' = [rtResult EXCEPT ![a] = status]
  BY <1>2 DEF Ends, Go
<1>3. CASE Ends(a, "failed") /\ UNCHANGED rtRows
  <2>1. RtTypeOK'
    BY <1>1, <1>2, <1>3 DEF RtTypeOK
  <2>2. RtNumbered'
    BY <1>1, <1>2, <1>3 DEF RtTypeOK, RtNumbered, Versions
  <2>3. RtReviewed'
    BY <1>1, <1>2, <1>3 DEF RtTypeOK, RtReviewed
  <2> QED BY <2>1, <2>2, <2>3
<1>4. CASE /\ rtRead[a] + 1 \notin Versions
           /\ Ends(a, "completed") /\ rtRows' = rtRows \cup {RowBy(a)}
  <2> DEFINE n == Cardinality(rtRows)
  <2>1. n \in Nat /\ Versions = 1 .. n /\ rtRead[a] \in Nat /\ rtRead[a] <= n
    BY RtHighest DEF RtTypeOK, RtNumbered
  <2>2. rtRead[a] + 1 = n + 1
    BY <1>4, <2>1
  <2>3. RowBy(a) \in RtRowStates /\ RowBy(a).version = n + 1 /\ RowBy(a).by = a
        /\ RowBy(a).review = rtReview[a]
    BY <2>1, <2>2 DEF RowBy, RtRowStates, RtTypeOK
  <2>4. RowBy(a) \notin rtRows
    BY <1>4, <2>2, <2>3 DEF Versions
  <2>5. IsFiniteSet(rtRows') /\ Cardinality(rtRows') = n + 1
    BY <1>4, <2>4, FS_AddElement DEF RtTypeOK
  <2>6. Versions' = 1 .. n + 1
    <3>1. Versions' = Versions \cup {n + 1}
      BY <1>4, <2>3 DEF Versions
    <3> QED BY <2>1, <3>1
  <2>7. RtTypeOK'
    BY <1>1, <1>2, <1>4, <2>3, <2>5 DEF RtTypeOK
  <2>8. RtNumbered'
    <3>1. ASSUME NEW b \in RtAgents
          PROVE  /\ rtRead'[b] <= Cardinality(rtRows')
                 /\ rtResult'[b] = "completed" =>
                      \E row \in rtRows' : row.version = rtRead'[b] + 1 /\ row.by = b
                 /\ rtResult'[b] # "none" => rtPc'[b] = "flush"
      <4>1. rtRead[b] \in Nat /\ rtRead[b] <= n
        BY DEF RtTypeOK, RtNumbered
      <4>2. CASE b = a
        BY <1>1, <1>2, <1>4, <2>1, <2>2, <2>3, <2>5, <4>1, <4>2 DEF RtTypeOK
      <4>3. CASE b # a
        BY <1>1, <1>2, <1>4, <2>1, <2>5, <4>1, <4>3 DEF RtTypeOK, RtNumbered
      <4> QED BY <4>2, <4>3
    <3>2. \A e \in rtSent' : \E row \in rtRows' : row.version = e.version /\ row.by = e.by
      BY <1>1, <1>4 DEF RtNumbered
    <3> QED BY <2>5, <2>6, <3>1, <3>2 DEF RtNumbered
  <2>9. RtReviewed'
    <3>1. ReviewIsSpent(RowBy(a).review)
      BY <1>1, <2>3 DEF RtReviewed
    <3> QED BY <1>1, <1>2, <1>4, <3>1 DEF RtTypeOK, RtReviewed
  <2> QED BY <2>7, <2>8, <2>9
<1> QED BY <1>3, <1>4 DEF InsertRow

\* What is announced is the row that the run wrote.
LEMMA RtFlushInv ==
  ASSUME RtInv, NEW a \in RtAgents, PostExecute(a)
  PROVE  RtInv'
<1> USE DEF RtInv
<1>1. /\ rtPc' = [rtPc EXCEPT ![a] = "idle"] /\ rtReview' = [rtReview EXCEPT ![a] = Unreviewed]
      /\ rtRead' = [rtRead EXCEPT ![a] = 0] /\ rtResult' = [rtResult EXCEPT ![a] = "none"]
      /\ UNCHANGED rtRows
  BY DEF PostExecute, Go
<1>2. \/ UNCHANGED rtSent
      \/ /\ rtResult[a] = "completed"
         /\ rtSent' = rtSent \cup {[version |-> rtRead[a] + 1, by |-> a]}
  BY DEF PostExecute
<1>3. Unreviewed \in RtReviews /\ Unreviewed.cycles < RtMaxReviewCycles
  BY AgentRuntimeAssumption DEF Unreviewed, RtReviews
<1>4. RtTypeOK'
  <2>1. rtSent' \subseteq [version : Nat, by : RtAgents]
    BY <1>2 DEF RtTypeOK
  <2> QED BY <1>1, <1>3, <2>1 DEF RtTypeOK
<1>5. RtNumbered'
  <2>1. \A e \in rtSent' : \E row \in rtRows : row.version = e.version /\ row.by = e.by
    BY <1>2 DEF RtNumbered
  <2>2. \A b \in RtAgents : rtRead'[b] <= Cardinality(rtRows)
    BY <1>1, RtHighest DEF RtTypeOK, RtNumbered
  <2> QED BY <1>1, <2>1, <2>2 DEF RtTypeOK, RtNumbered, Versions
<1>6. RtReviewed'
  BY <1>1, <1>3 DEF RtTypeOK, RtReviewed
<1> QED BY <1>4, <1>5, <1>6

LEMMA RtStepInv == RtInv /\ [RtNext]_rtVars => RtInv'
<1> SUFFICES ASSUME RtInv, [RtNext]_rtVars PROVE RtInv' OBVIOUS
<1>1. CASE UNCHANGED rtVars
  BY <1>1 DEF rtVars, RtInv, RtTypeOK, RtNumbered, RtReviewed, Versions
<1>2. ASSUME NEW a \in RtAgents, AgentStep(a) PROVE RtInv'
  BY <1>2, RtQuietInv, RtInsertInv, RtFlushInv DEF AgentStep
<1> QED BY <1>1, <1>2 DEF RtNext

LEMMA RtInvariant == RtSpec => []RtInv
BY RtInitInv, RtStepInv, PTL DEF RtSpec

\* The rows that agents write at the same time are numbered without a gap, and what an agent
\* announces is a row that it wrote itself.
THEOREM RowsAreNumbered == RtSpec => []AnnouncedAsNumbered
<1>1. RtInv => AnnouncedAsNumbered
  BY DEF RtInv, RtNumbered, AnnouncedAsNumbered
<1> QED BY <1>1, RtInvariant, PTL

\* A row whose last review still had blocking issues is stored only when all the review
\* cycles are spent.
THEOREM StoredWasReviewed == RtSpec => []UncritiquedOnlyWhenSpent
<1>1. RtInv => UncritiquedOnlyWhenSpent
  BY DEF RtInv, RtReviewed, ReviewIsSpent, UncritiquedOnlyWhenSpent
<1> QED BY <1>1, RtInvariant, PTL
=============================================================================
