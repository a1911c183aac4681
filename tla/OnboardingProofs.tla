------------------------- MODULE OnboardingProofs -------------------------
(***************************************************************************)
(* What Onboarding guarantees for every set of engagements, document       *)
(* requests and handler invocations of both applications.  Its steps are   *)
(* steps of the lifecycle or leave the lifecycle alone, so what            *)
(* EngagementLifecycleProofs proves of the lifecycle holds here too.       *)
(***************************************************************************)
EXTENDS Onboarding, EngagementLifecycleProofs

\* A step of onboarding is one of its actions, of the lifecycle, or changes nothing.
LEMMA OnboardingStepCases ==
  ASSUME [Next]_vars
  PROVE  \/ \E p \in PortalProc, e \in Engagement :
              \/ signEngagementLetter(p, e)
              \/ submitQuestionnaire(p, e)
              \/ \E r \in DocumentRequest : completeUpload(p, e, r)
         \/ \E e \in Engagement, r \in DocumentRequest :
              requestUploadUrl(e, r) \/ \E before, after \in DocState : SetDoc(e, r, before, after)
         \/ \E p \in PortalProc : \/ MarkSubmitted(p)
                                  \/ RecordStep(p)
                                  \/ ReadEngagement(p)
                                  \/ ReadChecklist(p)
                                  \/ CompleteOnboarding(p)
                                  \/ PortalFail(p)
         \/ LifecycleStep
         \/ UNCHANGED vars
<1>1. ASSUME NEW e \in Engagement, AccountantDocuments(e)
      PROVE  \E r \in DocumentRequest, before, after \in DocState : SetDoc(e, r, before, after)
  BY <1>1 DEF AccountantDocuments, createDocumentRequest, replaceDocument, softDeleteDocument,
     recoverDocument, adminCompleteUpload, ScanOutcome, DocState
<1> QED
  BY <1>1 DEF Next, Client, Continue

-----------------------------------------------------------------------------
(***************************************************************************)
(* Type correctness.                                                       *)
(***************************************************************************)
TypeOK == LifecycleTypeOK /\ OnboardingTypeOK

\* PGoTo keeps the types of what it assigns.
LEMMA PGoToType ==
  ASSUME OnboardingTypeOK, NEW p \in PortalProc, NEW e \in Engagement, NEW step \in PortalStep,
         PGoTo(p, e, step)
  PROVE  /\ ppc' \in [PortalProc -> PortalStep]
         /\ peng' \in [PortalProc -> Engagement \cup {NULL}]
         /\ \A q \in PortalProc : ppc'[q] # "idle" => peng'[q] \in Engagement
BY DEF OnboardingTypeOK, PGoTo

\* The rows onboarding starts with have their types.
LEMMA OnboardingTypeInit ==
  Init => OnboardingTypeOK
BY DEF Init, OnboardingTypeOK, DocState, PortalStep

\* Every action keeps the types.
LEMMA OnboardingTypeStep ==
  OnboardingTypeOK /\ [Next]_vars => OnboardingTypeOK'
<1> SUFFICES ASSUME OnboardingTypeOK, [Next]_vars
             PROVE  OnboardingTypeOK'
  OBVIOUS
<1> USE DEF stepVars, portalVars
<1>0. {"idle", "markSubmitted", "auditLetter", "auditAnswers", "auditUpload",
       "evaluate", "checklist", "transition"} \subseteq PortalStep
  BY DEF PortalStep
<1>1. ASSUME NEW p \in PortalProc, NEW e \in Engagement,
             \/ signEngagementLetter(p, e)
             \/ submitQuestionnaire(p, e)
             \/ \E r \in DocumentRequest : completeUpload(p, e, r)
      PROVE  OnboardingTypeOK'
  <2>1. \E step \in PortalStep : PGoTo(p, e, step)
    BY <1>0, <1>1 DEF signEngagementLetter, submitQuestionnaire, completeUpload
  <2>2. /\ ppc' \in [PortalProc -> PortalStep]
        /\ peng' \in [PortalProc -> Engagement \cup {NULL}]
        /\ \A q \in PortalProc : ppc'[q] # "idle" => peng'[q] \in Engagement
    BY <2>1, PGoToType
  <2>3. doc' \in [Engagement -> [DocumentRequest -> DocState]]
    <3>1. CASE UNCHANGED doc
      BY <3>1 DEF OnboardingTypeOK
    <3>2. ASSUME NEW r \in DocumentRequest, completeUpload(p, e, r)
          PROVE  doc' \in [Engagement -> [DocumentRequest -> DocState]]
      BY <3>2 DEF completeUpload, ScanOutcome, DocState, OnboardingTypeOK
    <3> QED
      BY <1>1, <3>1, <3>2 DEF signEngagementLetter, submitQuestionnaire
  <2> QED
    BY <1>1, <2>2, <2>3 DEF signEngagementLetter, submitQuestionnaire, completeUpload,
       OnboardingTypeOK
<1>2. ASSUME NEW e \in Engagement, NEW r \in DocumentRequest,
             requestUploadUrl(e, r) \/ \E before, after \in DocState : SetDoc(e, r, before, after)
      PROVE  OnboardingTypeOK'
  <2>1. \E after \in DocState : doc' = [doc EXCEPT ![e][r] = after]
    BY <1>2 DEF requestUploadUrl, SetDoc, DocState
  <2>2. doc' \in [Engagement -> [DocumentRequest -> DocState]]
    BY <2>1 DEF OnboardingTypeOK
  <2>3. UNCHANGED <<letterSignedAt, answered, questionnaireSubmittedAt, stepAudit,
                    onboardingNotices, ppc, peng, saw>>
    BY <1>2 DEF requestUploadUrl, SetDoc
  <2> QED
    BY <2>2, <2>3 DEF OnboardingTypeOK
<1>3. ASSUME NEW p \in PortalProc,
             \/ MarkSubmitted(p) \/ RecordStep(p) \/ ReadEngagement(p)
             \/ ReadChecklist(p) \/ CompleteOnboarding(p) \/ PortalFail(p)
      PROVE  OnboardingTypeOK'
  <2>1. peng[p] \in Engagement
    BY <1>3 DEF MarkSubmitted, RecordStep, ReadEngagement, ReadChecklist, CompleteOnboarding,
       PortalFail, OnboardingTypeOK
  <2>2. \E step \in PortalStep : PGoTo(p, peng[p], step)
    BY <1>0, <1>3 DEF MarkSubmitted, RecordStep, ReadEngagement, ReadChecklist,
       CompleteOnboarding, PortalFail
  <2>3. /\ ppc' \in [PortalProc -> PortalStep]
        /\ peng' \in [PortalProc -> Engagement \cup {NULL}]
        /\ \A q \in PortalProc : ppc'[q] # "idle" => peng'[q] \in Engagement
    BY <2>1, <2>2, PGoToType
  <2>4. /\ letterSignedAt' \in [Engagement -> BOOLEAN]
        /\ answered' \in [Engagement -> BOOLEAN]
        /\ questionnaireSubmittedAt' \in [Engagement -> BOOLEAN]
        /\ doc' \in [Engagement -> [DocumentRequest -> DocState]]
    BY <1>3 DEF MarkSubmitted, RecordStep, ReadEngagement, ReadChecklist,
       CompleteOnboarding, PortalFail, OnboardingTypeOK
  <2>5. stepAudit' \in [Engagement -> SUBSET StepAction]
    BY <1>3 DEF MarkSubmitted, RecordStep, ReadEngagement, ReadChecklist,
       CompleteOnboarding, PortalFail, OnboardingTypeOK
  <2>6. onboardingNotices' \in [Engagement -> Nat]
    BY <1>3 DEF MarkSubmitted, RecordStep, ReadEngagement, ReadChecklist,
       CompleteOnboarding, PortalFail, OnboardingTypeOK
  <2>7. saw' \in [PortalProc -> BOOLEAN]
    BY <1>3, <2>1 DEF MarkSubmitted, RecordStep, ReadEngagement, ReadChecklist,
       CompleteOnboarding, PortalFail, OnboardingTypeOK
  <2> QED
    BY <2>3, <2>4, <2>5, <2>6, <2>7 DEF OnboardingTypeOK
<1>4. CASE UNCHANGED onboardingVars
  BY <1>4 DEF onboardingVars, OnboardingTypeOK
<1> QED
  BY <1>1, <1>2, <1>3, <1>4, OnboardingStepCases DEF LifecycleStep, vars

(***************************************************************************)
(* Every variable of onboarding keeps its type.                            *)
(***************************************************************************)
THEOREM OnboardingTypeCorrect == Spec => []OnboardingTypeOK
BY OnboardingTypeInit, OnboardingTypeStep, PTL DEF Spec

-----------------------------------------------------------------------------
(***************************************************************************)
(* Onboarding implements the lifecycle.                                    *)
(***************************************************************************)
LEMMA LifecycleProjection ==
  ASSUME TypeOK, [Next]_vars
  PROVE  [LifecycleNext]_lifecycleVars
<1>1. ASSUME NEW p \in PortalProc, CompleteOnboarding(p)
      PROVE  [LifecycleNext]_lifecycleVars
  <2>1. peng[p] \in Engagement
    BY <1>1 DEF CompleteOnboarding, TypeOK, OnboardingTypeOK
  <2>2. StartByOnboarding(peng[p]) \/ UNCHANGED lifecycleVars
    BY <1>1 DEF CompleteOnboarding
  <2> QED
    BY <2>1, <2>2 DEF LifecycleNext
<1>2. ASSUME LifecycleStep
      PROVE  [LifecycleNext]_lifecycleVars
  BY <1>2 DEF LifecycleStep, LifecycleNext
<1>3. ASSUME UNCHANGED lifecycleVars
      PROVE  [LifecycleNext]_lifecycleVars
  BY <1>3
<1> QED
  BY <1>1, <1>2, <1>3, OnboardingStepCases DEF signEngagementLetter, submitQuestionnaire,
     completeUpload, requestUploadUrl, SetDoc, MarkSubmitted, RecordStep, ReadEngagement,
     ReadChecklist, PortalFail, vars

\* Both type invariants always hold.
LEMMA TypeInvariant == Spec => []TypeOK
<1>1. Init => TypeOK
  BY TypeInit, OnboardingTypeInit DEF Init, TypeOK
<1>2. TypeOK /\ [Next]_vars => TypeOK'
  BY LifecycleProjection, TypeStep, OnboardingTypeStep DEF TypeOK
<1> QED
  BY <1>1, <1>2, PTL DEF Spec

(***************************************************************************)
(* A behaviour of Onboarding is one of the lifecycle, so that every        *)
(* theorem about the lifecycle applies.                                    *)
(***************************************************************************)
THEOREM OnboardingImplementsLifecycle == Spec => LifecycleSpec
<1>1. Init => LifecycleInit
  BY DEF Init
<1>2. TypeOK /\ [Next]_vars => [LifecycleNext]_lifecycleVars
  BY LifecycleProjection
<1> QED
  BY <1>1, <1>2, TypeInvariant, PTL DEF Spec, LifecycleSpec

-----------------------------------------------------------------------------
(***************************************************************************)
(* Fire-once.                                                              *)
(***************************************************************************)

(***************************************************************************)
(* Nothing puts an engagement back to New.                                 *)
(***************************************************************************)
LEMMA NeverNewAgain ==
  ASSUME LifecycleTypeOK, [LifecycleNext]_lifecycleVars, NEW e \in Engagement,
         status[e] # "New"
  PROVE  status'[e] # "New"
<1>1. ASSUME NEW p \in Proc, NEW f \in Engagement, NEW from \in Status, NEW to \in Status,
             transitionEngagementStatus(p, f, from, to)
      PROVE  status'[e] # "New"
  <2>1. to # "New"
    BY <1>1 DEF transitionEngagementStatus, LIFECYCLE_ALLOWED_TRANSITIONS
  <2> QED
    BY <1>1, <2>1 DEF transitionEngagementStatus, LifecycleTypeOK
<1>2. ASSUME NEW f \in Engagement, StartByOnboarding(f) \/ reopenEngagement(f)
      PROVE  status'[e] # "New"
  BY <1>2 DEF StartByOnboarding, reopenEngagement, LifecycleTypeOK
<1>3. ASSUME UNCHANGED status
      PROVE  status'[e] # "New"
  BY <1>3
<1> QED
  BY <1>1, <1>2, <1>3, LifecycleStepCases DEF Tick, confirmFiling, confirmDelivery,
     getOrCreateEngagementThread, StampCompletion, AuditStamp, archiveEngagementThread,
     NotifyClient, Fail, rowVars, lifecycleVars

(***************************************************************************)
(* The accountant is told once, and only of an engagement that left New.   *)
(***************************************************************************)
THEOREM NotifiedOnce == Spec => []OnboardingNotifiedOnce
<1>1. Init => OnboardingNotifiedOnce
  BY DEF Init, OnboardingNotifiedOnce
<1>2. TypeOK /\ OnboardingNotifiedOnce /\ [Next]_vars => OnboardingNotifiedOnce'
  <2> SUFFICES ASSUME TypeOK, OnboardingNotifiedOnce, [Next]_vars
               PROVE  OnboardingNotifiedOnce'
    OBVIOUS
  <2>1. \A e \in Engagement : status[e] # "New" => status'[e] # "New"
    BY LifecycleProjection, NeverNewAgain DEF TypeOK
  <2>2. ASSUME NEW p \in PortalProc, CompleteOnboarding(p), status[peng[p]] = "New"
        PROVE  OnboardingNotifiedOnce'
    <3>1. /\ peng[p] \in Engagement
          /\ onboardingNotices[peng[p]] \in Nat
          /\ onboardingNotices' = [onboardingNotices EXCEPT ![peng[p]] = @ + 1]
          /\ status' = [status EXCEPT ![peng[p]] = "InProgress"]
      BY <2>2 DEF CompleteOnboarding, StartByOnboarding, TypeOK, OnboardingTypeOK
    <3>2. onboardingNotices[peng[p]] = 0
      BY <2>2, <3>1 DEF OnboardingNotifiedOnce
    <3> QED
      BY <3>1, <3>2 DEF OnboardingNotifiedOnce, TypeOK, OnboardingTypeOK, LifecycleTypeOK
  <2>3. ASSUME UNCHANGED onboardingNotices
        PROVE  OnboardingNotifiedOnce'
    BY <2>1, <2>3 DEF OnboardingNotifiedOnce
  <2> QED
    BY <2>2, <2>3, OnboardingStepCases DEF signEngagementLetter, submitQuestionnaire,
       completeUpload, requestUploadUrl, SetDoc, MarkSubmitted, RecordStep, ReadEngagement,
       ReadChecklist, CompleteOnboarding, PortalFail, LifecycleStep, onboardingVars, vars
<1> QED
  BY <1>1, <1>2, TypeInvariant, PTL DEF Spec

-----------------------------------------------------------------------------
(***************************************************************************)
(* The decision is taken on what was read two round trips earlier.  It is  *)
(* still true when it is acted upon because the two facts are never        *)
(* undone: this is the invariant that carries them across the reads.       *)
(***************************************************************************)
Decided(p) ==
  ppc[p] = "transition" \/ (ppc[p] = "checklist" /\ saw[p])

ReadIsStillTrue ==
  \A p \in PortalProc :
    Decided(p) => letterSignedAt[peng[p]] /\ questionnaireSubmittedAt[peng[p]]

\* No signature and no submission is ever taken back.
LEMMA NeverUndone ==
  ASSUME TypeOK, [Next]_vars, NEW e \in Engagement
  PROVE  /\ letterSignedAt[e] => letterSignedAt'[e]
         /\ questionnaireSubmittedAt[e] => questionnaireSubmittedAt'[e]
<1>1. ASSUME NEW p \in PortalProc, NEW f \in Engagement, signEngagementLetter(p, f)
      PROVE  /\ letterSignedAt[e] => letterSignedAt'[e]
             /\ questionnaireSubmittedAt[e] => questionnaireSubmittedAt'[e]
  BY <1>1 DEF signEngagementLetter, TypeOK, OnboardingTypeOK
<1>2. ASSUME NEW p \in PortalProc, MarkSubmitted(p)
      PROVE  /\ letterSignedAt[e] => letterSignedAt'[e]
             /\ questionnaireSubmittedAt[e] => questionnaireSubmittedAt'[e]
  BY <1>2 DEF MarkSubmitted, TypeOK, OnboardingTypeOK
<1>3. ASSUME UNCHANGED <<letterSignedAt, questionnaireSubmittedAt>>
      PROVE  /\ letterSignedAt[e] => letterSignedAt'[e]
             /\ questionnaireSubmittedAt[e] => questionnaireSubmittedAt'[e]
  BY <1>3
<1> QED
  BY <1>1, <1>2, <1>3, OnboardingStepCases DEF submitQuestionnaire, completeUpload,
     requestUploadUrl, SetDoc, RecordStep, ReadEngagement, ReadChecklist, CompleteOnboarding,
     PortalFail, LifecycleStep, stepVars, onboardingVars, vars

(***************************************************************************)
(* A handler reaches a decision only by the two reads.                     *)
(***************************************************************************)
LEMMA DecidedByReads ==
  ASSUME TypeOK, [Next]_vars, NEW p \in PortalProc, Decided(p)'
  PROVE  /\ peng'[p] = peng[p] /\ peng[p] \in Engagement
         /\ \/ Decided(p)
            \/ letterSignedAt[peng[p]] /\ questionnaireSubmittedAt[peng[p]]
<1> DEFINE Goal == /\ peng'[p] = peng[p] /\ peng[p] \in Engagement
                   /\ \/ Decided(p)
                      \/ letterSignedAt[peng[p]] /\ questionnaireSubmittedAt[peng[p]]
<1>1. ASSUME ppc'[p] = ppc[p], peng'[p] = peng[p], saw'[p] = saw[p]
      PROVE  Goal
  BY <1>1 DEF Decided, TypeOK, OnboardingTypeOK
<1>2. ASSUME NEW q \in PortalProc, NEW e \in Engagement,
             \/ signEngagementLetter(q, e)
             \/ submitQuestionnaire(q, e)
             \/ \E r \in DocumentRequest : completeUpload(q, e, r)
      PROVE  Goal
  <2>1. q # p
    BY <1>2 DEF signEngagementLetter, submitQuestionnaire, completeUpload, PGoTo, Decided,
       TypeOK, OnboardingTypeOK
  <2> QED
    BY <1>1, <1>2, <2>1 DEF signEngagementLetter, submitQuestionnaire, completeUpload, PGoTo,
       TypeOK, OnboardingTypeOK
<1>3. ASSUME NEW q \in PortalProc,
             MarkSubmitted(q) \/ RecordStep(q) \/ CompleteOnboarding(q) \/ PortalFail(q)
      PROVE  Goal
  <2>1. q # p
    BY <1>3 DEF MarkSubmitted, RecordStep, CompleteOnboarding, PortalFail, PGoTo, Decided,
       TypeOK, OnboardingTypeOK
  <2> QED
    BY <1>1, <1>3, <2>1 DEF MarkSubmitted, RecordStep, CompleteOnboarding, PortalFail, PGoTo,
       TypeOK, OnboardingTypeOK
<1>4. ASSUME NEW q \in PortalProc, ReadEngagement(q)
      PROVE  Goal
  <2>1. CASE q = p
    BY <1>4, <2>1 DEF ReadEngagement, PGoTo, Decided, TypeOK, OnboardingTypeOK
  <2>2. CASE q # p
    BY <1>1, <1>4, <2>2 DEF ReadEngagement, PGoTo, TypeOK, OnboardingTypeOK
  <2> QED
    BY <2>1, <2>2
<1>5. ASSUME NEW q \in PortalProc, ReadChecklist(q)
      PROVE  Goal
  <2>1. CASE q = p
    BY <1>5, <2>1 DEF ReadChecklist, PGoTo, Decided, TypeOK, OnboardingTypeOK
  <2>2. CASE q # p
    BY <1>1, <1>5, <2>2 DEF ReadChecklist, PGoTo, TypeOK, OnboardingTypeOK
  <2> QED
    BY <2>1, <2>2
<1>6. ASSUME UNCHANGED portalVars
      PROVE  Goal
  BY <1>1, <1>6 DEF portalVars
<1> QED
  BY <1>2, <1>3, <1>4, <1>5, <1>6, OnboardingStepCases DEF requestUploadUrl, SetDoc,
     LifecycleStep, onboardingVars, vars

(***************************************************************************)
(* The system starts only work whose client has signed and answered.       *)
(***************************************************************************)
THEOREM StartJustified == Spec => StartedOnlyWhenOnboarded
<1> DEFINE Justified ==
      \A e \in Engagement :
        onboardingNotices'[e] # onboardingNotices[e] =>
          /\ letterSignedAt[e] /\ questionnaireSubmittedAt[e]
          /\ status[e] = "New" /\ status'[e] = "InProgress"
<1>1. Init => ReadIsStillTrue
  BY DEF Init, ReadIsStillTrue, Decided
<1>2. TypeOK /\ ReadIsStillTrue /\ [Next]_vars => ReadIsStillTrue'
  <2> SUFFICES ASSUME TypeOK, ReadIsStillTrue, [Next]_vars,
                      NEW p \in PortalProc, Decided(p)'
               PROVE  letterSignedAt'[peng'[p]] /\ questionnaireSubmittedAt'[peng'[p]]
    BY DEF ReadIsStillTrue
  <2>1. /\ peng'[p] = peng[p] /\ peng[p] \in Engagement
        /\ letterSignedAt[peng[p]] /\ questionnaireSubmittedAt[peng[p]]
    BY DecidedByReads DEF ReadIsStillTrue
  <2> QED
    BY <2>1, NeverUndone
<1>3. TypeOK /\ ReadIsStillTrue /\ [Next]_vars => [Justified]_vars
  <2> SUFFICES ASSUME TypeOK, ReadIsStillTrue, [Next]_vars
               PROVE  Justified
    OBVIOUS
  <2>1. ASSUME NEW p \in PortalProc, CompleteOnboarding(p)
        PROVE  Justified
    <3>1. /\ peng[p] \in Engagement
          /\ letterSignedAt[peng[p]] /\ questionnaireSubmittedAt[peng[p]]
      BY <2>1 DEF CompleteOnboarding, ReadIsStillTrue, Decided, TypeOK, OnboardingTypeOK
    <3> QED
      BY <2>1, <3>1 DEF CompleteOnboarding, StartByOnboarding, TypeOK, OnboardingTypeOK,
         LifecycleTypeOK
  <2>2. ASSUME UNCHANGED onboardingNotices
        PROVE  Justified
    BY <2>2
  <2> QED
    BY <2>1, <2>2, OnboardingStepCases DEF signEngagementLetter, submitQuestionnaire,
       completeUpload, requestUploadUrl, SetDoc, MarkSubmitted, RecordStep, ReadEngagement,
       ReadChecklist, PortalFail, LifecycleStep, onboardingVars, vars
<1> QED
  BY <1>1, <1>2, <1>3, TypeInvariant, PTL DEF Spec, StartedOnlyWhenOnboarded
=============================================================================
