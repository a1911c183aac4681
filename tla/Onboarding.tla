---------------------------- MODULE Onboarding ----------------------------
(***************************************************************************)
(* Client onboarding (apps/portal/src/app/onboarding/actions.ts,           *)
(* packages/db/src/onboarding.ts, onboarding-completion.ts): the client    *)
(* signs the engagement letter, answers the questionnaire and uploads a    *)
(* document for every DocumentRequest, in any order once the letter is     *)
(* signed.  The handler of the questionnaire and the one of an upload      *)
(* first commit their own step and then evaluate whether onboarding is     *)
(* complete: a read of the engagement, a read of the checklist, and a      *)
(* transaction that moves the engagement from New to In Progress.  Those   *)
(* three are separate round trips of handlers that run concurrently.       *)
(*                                                                         *)
(* The reads that authorize a handler are merged into its first write.     *)
(* They check letterSignedAt, which is never cleared, and that the client  *)
(* sees the document, which row-level security hides once it is deleted:   *)
(* a handler may meet a deleted document because it looked before.         *)
(* The documents of one request are abstracted to one.                     *)
(***************************************************************************)
EXTENDS EngagementLifecycle

CONSTANTS
  DocumentRequest,  \* DocumentRequest ids
  Mine,             \* what getMyEngagement() returns: the oldest of its client
  PortalProc,       \* handler invocations of the portal application
  PortalFaulty      \* those that may die between two steps

ASSUME OnboardingAssumption ==
  /\ Mine \subseteq WithClient
  /\ PortalFaulty \subseteq PortalProc

VARIABLES
  letterSignedAt,            \* is the column non-NULL?
  answered,                  \* is there a QuestionnaireAnswer row? (engagementId is UNIQUE)
  questionnaireSubmittedAt,  \* is the column non-NULL?
  doc,                       \* what became of each DocumentRequest
  stepAudit,                 \* actions of which an AuditEvent row exists
  onboardingNotices,         \* ACCOUNTANT 'onboarding_completed' rows
  ppc,                       \* the next step of each portal invocation
  peng,                      \* the engagement it works on, NULL when idle
  saw                        \* what it read: letter signed, questionnaire submitted

stepVars == <<letterSignedAt, answered, questionnaireSubmittedAt, doc>>
portalVars == <<ppc, peng, saw>>
onboardingVars == <<stepVars, stepAudit, onboardingNotices, portalVars>>
vars == <<lifecycleVars, onboardingVars>>

(***************************************************************************)
(* A request is "absent" until the accountant creates it, then "open" as   *)
(* long as it has no usable document.  Its document is "pending" until it  *)
(* is scanned and validated, "active" when clean; "pendingDeleted" and     *)
(* "deleted" are a pending and an active document with deletedAt set.      *)
(***************************************************************************)
DocState == {"absent", "open", "pending", "active", "pendingDeleted", "deleted"}

StepAction == {"engagement.letter_signed", "engagement.questionnaire_submitted",
               "document.upload"}

PortalStep == {"idle", "markSubmitted", "auditLetter", "auditAnswers", "auditUpload",
               "evaluate", "checklist", "transition"}

PGoTo(p, e, step) ==
  /\ ppc' = [ppc EXCEPT ![p] = step]
  /\ peng' = [peng EXCEPT ![p] = IF step = "idle" THEN NULL ELSE e]

Init ==
  /\ LifecycleInit
  /\ letterSignedAt = [e \in Engagement |-> FALSE]
  /\ answered = [e \in Engagement |-> FALSE]
  /\ questionnaireSubmittedAt = [e \in Engagement |-> FALSE]
  /\ doc = [e \in Engagement |-> [r \in DocumentRequest |-> "absent"]]
  /\ stepAudit = [e \in Engagement |-> {}]
  /\ onboardingNotices = [e \in Engagement |-> 0]
  /\ ppc = [p \in PortalProc |-> "idle"]
  /\ peng = [p \in PortalProc |-> NULL]
  /\ saw = [p \in PortalProc |-> FALSE]

-----------------------------------------------------------------------------
(***************************************************************************)
(* The client's steps.                                                     *)
(***************************************************************************)

\* Nothing keeps a client from signing again, whatever the status.
signEngagementLetter(p, e) ==
  /\ ppc[p] = "idle"
  /\ e \in WithClient
  /\ letterSignedAt' = [letterSignedAt EXCEPT ![e] = TRUE]
  /\ PGoTo(p, e, "auditLetter")
  /\ UNCHANGED <<lifecycleVars, answered, questionnaireSubmittedAt, doc, stepAudit,
                 onboardingNotices, saw>>

(***************************************************************************)
(* submitQuestionnaireAsClient: one batch of two statements and no         *)
(* transaction.  The INSERT throws when the row exists already.            *)
(***************************************************************************)
submitQuestionnaire(p, e) ==
  /\ ppc[p] = "idle"
  /\ e \in Mine
  /\ letterSignedAt[e]
  /\ ~answered[e]
  /\ answered' = [answered EXCEPT ![e] = TRUE]
  /\ PGoTo(p, e, "markSubmitted")
  /\ UNCHANGED <<lifecycleVars, letterSignedAt, questionnaireSubmittedAt, doc, stepAudit,
                 onboardingNotices, saw>>

MarkSubmitted(p) ==
  /\ ppc[p] = "markSubmitted"
  /\ questionnaireSubmittedAt' = [questionnaireSubmittedAt EXCEPT ![peng[p]] = TRUE]
  /\ PGoTo(p, peng[p], "auditAnswers")
  /\ UNCHANGED <<lifecycleVars, letterSignedAt, answered, doc, stepAudit,
                 onboardingNotices, saw>>

\* requestUploadUrlAction: a pending document for the request.
requestUploadUrl(e, r) ==
  /\ e \in Mine
  /\ letterSignedAt[e]
  /\ doc[e][r] = "open"
  /\ doc' = [doc EXCEPT ![e][r] = "pending"]
  /\ UNCHANGED <<lifecycleVars, letterSignedAt, answered, questionnaireSubmittedAt,
                 stepAudit, onboardingNotices, portalVars>>

\* Mutant: the scanner's word for active is stored.
ScanOutcomeVerbatim(before) == {"clean", "open", "pending"}

(***************************************************************************)
(* What completeUpload makes of a document: clean and valid, infected (the *)
(* request needs another one), or undecided.  It does not look at          *)
(* deletedAt, and leaves a document that is not pending as it is.          *)
(***************************************************************************)
ScanOutcome(before) ==
  IF before = "pending" THEN {"active", "open", "pending"}
  ELSE IF before = "pendingDeleted" THEN {"deleted", "open", "pendingDeleted"}
  ELSE {before}

(***************************************************************************)
(* Completing an upload a second time is how a client can have onboarding  *)
(* evaluated again.                                                        *)
(***************************************************************************)
completeUpload(p, e, r) ==
  /\ ppc[p] = "idle"
  /\ e \in Mine
  /\ letterSignedAt[e]
  /\ doc[e][r] \notin {"absent", "open"}
  /\ \E outcome \in ScanOutcome(doc[e][r]) : doc' = [doc EXCEPT ![e][r] = outcome]
  /\ PGoTo(p, e, "auditUpload")
  /\ UNCHANGED <<lifecycleVars, letterSignedAt, answered, questionnaireSubmittedAt,
                 stepAudit, onboardingNotices, saw>>

\* Mutant: an upload evaluates nothing.
RecordStepOnly(p) ==
  \E action \in StepAction :
    /\ \/ ppc[p] = "auditLetter"  /\ action = "engagement.letter_signed"
       \/ ppc[p] = "auditAnswers" /\ action = "engagement.questionnaire_submitted"
       \/ ppc[p] = "auditUpload"  /\ action = "document.upload"
    /\ stepAudit' = [stepAudit EXCEPT ![peng[p]] = @ \cup {action}]
    /\ PGoTo(p, peng[p], IF ppc[p] = "auditAnswers" THEN "evaluate" ELSE "idle")
    /\ UNCHANGED <<lifecycleVars, stepVars, onboardingNotices, saw>>

(***************************************************************************)
(* recordAuthEvent without a transaction, after the step has committed.    *)
(* Signing the letter evaluates nothing: it cannot be the last step.       *)
(***************************************************************************)
RecordStep(p) ==
  \E action \in StepAction :
    /\ \/ ppc[p] = "auditLetter"  /\ action = "engagement.letter_signed"
       \/ ppc[p] = "auditAnswers" /\ action = "engagement.questionnaire_submitted"
       \/ ppc[p] = "auditUpload"  /\ action = "document.upload"
    /\ stepAudit' = [stepAudit EXCEPT ![peng[p]] = @ \cup {action}]
    /\ PGoTo(p, peng[p], IF ppc[p] = "auditLetter" THEN "idle" ELSE "evaluate")
    /\ UNCHANGED <<lifecycleVars, stepVars, onboardingNotices, saw>>

-----------------------------------------------------------------------------
(***************************************************************************)
(* processOnboardingCompletion.                                            *)
(***************************************************************************)

\* Mutant: the questionnaire is not asked for.
ReadLetterOnly(p) ==
  /\ ppc[p] = "evaluate"
  /\ LET e == peng[p]
     IN  IF status[e] = "New"
         THEN /\ saw' = [saw EXCEPT ![p] = letterSignedAt[e]]
              /\ PGoTo(p, e, "checklist")
         ELSE /\ PGoTo(p, e, "idle")
              /\ UNCHANGED saw
  /\ UNCHANGED <<lifecycleVars, stepVars, stepAudit, onboardingNotices>>

ReadEngagement(p) ==
  /\ ppc[p] = "evaluate"
  /\ LET e == peng[p]
     IN  IF status[e] = "New"
         THEN /\ saw' = [saw EXCEPT ![p] =
                            letterSignedAt[e] /\ questionnaireSubmittedAt[e]]
              /\ PGoTo(p, e, "checklist")
         ELSE /\ PGoTo(p, e, "idle")
              /\ UNCHANGED saw
  /\ UNCHANGED <<lifecycleVars, stepVars, stepAudit, onboardingNotices>>

(***************************************************************************)
(* Its own checklist query joins Document on status = 'active' alone: a    *)
(* soft-deleted document still counts.                                     *)
(***************************************************************************)
allRequiredProvided(e) ==
  \A r \in DocumentRequest : doc[e][r] \in {"absent", "active", "deleted"}

ReadChecklist(p) ==
  /\ ppc[p] = "checklist"
  /\ PGoTo(p, peng[p],
           IF saw[p] /\ allRequiredProvided(peng[p]) THEN "transition" ELSE "idle")
  /\ saw' = [saw EXCEPT ![p] = FALSE]
  /\ UNCHANGED <<lifecycleVars, stepVars, stepAudit, onboardingNotices>>

\* Mutant: the notification does not depend on the rows the UPDATE touched.
NotifyAnyway(p) ==
  /\ ppc[p] = "transition"
  /\ LET e == peng[p]
     IN  /\ IF status[e] = "New" THEN StartByOnboarding(e) ELSE UNCHANGED lifecycleVars
         /\ onboardingNotices' = [onboardingNotices EXCEPT ![e] = @ + 1]
         /\ PGoTo(p, e, "idle")
  /\ UNCHANGED <<stepVars, stepAudit, saw>>

\* Mutant: no WHERE status = 'New'.
StartAnyway(p) ==
  /\ ppc[p] = "transition"
  /\ LET e == peng[p]
     IN  /\ status' = [status EXCEPT ![e] = "InProgress"]
         /\ Record(e, "engagement.transition")
         /\ onboardingNotices' = [onboardingNotices EXCEPT ![e] = @ + 1]
         /\ PGoTo(p, e, "idle")
  /\ UNCHANGED <<now, deliveryConfirmedAt, filingConfirmedAt, postVars, procVars>>
  /\ UNCHANGED <<stepVars, stepAudit, saw>>

(***************************************************************************)
(* One transaction: UPDATE ... WHERE status = 'New', the accountant's      *)
(* notification, the audit row.                                            *)
(***************************************************************************)
CompleteOnboarding(p) ==
  /\ ppc[p] = "transition"
  /\ LET e == peng[p]
     IN  /\ IF status[e] = "New"
            THEN /\ StartByOnboarding(e)
                 /\ onboardingNotices' = [onboardingNotices EXCEPT ![e] = @ + 1]
            ELSE UNCHANGED <<lifecycleVars, onboardingNotices>>
         /\ PGoTo(p, e, "idle")
  /\ UNCHANGED <<stepVars, stepAudit, saw>>

-----------------------------------------------------------------------------
(***************************************************************************)
(* The accountant's dealings with requests and documents.  None of them    *)
(* evaluates the completion of onboarding.                                 *)
(***************************************************************************)

SetDoc(e, r, before, after) ==
  /\ doc[e][r] = before
  /\ doc' = [doc EXCEPT ![e][r] = after]
  /\ UNCHANGED <<lifecycleVars, letterSignedAt, answered, questionnaireSubmittedAt,
                 stepAudit, onboardingNotices, portalVars>>

createDocumentRequest(e, r) == SetDoc(e, r, "absent", "open")

replaceDocument(e, r) == \/ SetDoc(e, r, "active", "pending")
                         \/ SetDoc(e, r, "deleted", "pendingDeleted")

softDeleteDocument(e, r) == \/ SetDoc(e, r, "active", "deleted")
                            \/ SetDoc(e, r, "pending", "pendingDeleted")

recoverDocument(e, r) == \/ SetDoc(e, r, "deleted", "active")
                         \/ SetDoc(e, r, "pendingDeleted", "pending")

adminCompleteUpload(e, r) ==
  \E before \in {"pending", "pendingDeleted"} :
    \E outcome \in ScanOutcome(before) : SetDoc(e, r, before, outcome)

-----------------------------------------------------------------------------
(***************************************************************************)
(* A handler dies, or a statement of it throws.  An exception out of       *)
(* processOnboardingCompletion is logged and swallowed.                    *)
(***************************************************************************)
PortalFail(p) ==
  /\ p \in PortalFaulty
  /\ ppc[p] # "idle"
  /\ PGoTo(p, peng[p], "idle")
  /\ saw' = [saw EXCEPT ![p] = FALSE]
  /\ UNCHANGED <<lifecycleVars, stepVars, stepAudit, onboardingNotices>>

Continue(p) ==
  \/ MarkSubmitted(p)
  \/ RecordStep(p)
  \/ ReadEngagement(p)
  \/ ReadChecklist(p)
  \/ CompleteOnboarding(p)

Client(e) ==
  \/ \E p \in PortalProc :
       \/ signEngagementLetter(p, e)
       \/ submitQuestionnaire(p, e)
       \/ \E r \in DocumentRequest : completeUpload(p, e, r)
  \/ \E r \in DocumentRequest : requestUploadUrl(e, r)

AccountantDocuments(e) ==
  \E r \in DocumentRequest :
    \/ createDocumentRequest(e, r)
    \/ replaceDocument(e, r)
    \/ softDeleteDocument(e, r)
    \/ recoverDocument(e, r)
    \/ adminCompleteUpload(e, r)

(***************************************************************************)
(* The lifecycle goes on beside it.  Its StartByOnboarding happens only in *)
(* CompleteOnboarding.                                                     *)
(***************************************************************************)
LifecycleStep == AccountantSide /\ UNCHANGED onboardingVars

Next ==
  \/ \E e \in Engagement : Client(e) \/ AccountantDocuments(e)
  \/ \E p \in PortalProc : Continue(p) \/ PortalFail(p)
  \/ LifecycleStep

Spec == Init /\ [][Next]_vars

(***************************************************************************)
(* As for the lifecycle: a portal handler that cannot fail goes on.        *)
(***************************************************************************)
FairSpec == Spec /\ \A p \in PortalProc \ PortalFaulty : WF_vars(Continue(p))

-----------------------------------------------------------------------------
(***************************************************************************)
(* Properties.                                                             *)
(***************************************************************************)

\* Every variable of onboarding keeps its type.
OnboardingTypeOK ==
  /\ letterSignedAt \in [Engagement -> BOOLEAN]
  /\ answered \in [Engagement -> BOOLEAN]
  /\ questionnaireSubmittedAt \in [Engagement -> BOOLEAN]
  /\ doc \in [Engagement -> [DocumentRequest -> DocState]]
  /\ stepAudit \in [Engagement -> SUBSET StepAction]
  /\ onboardingNotices \in [Engagement -> Nat]
  /\ ppc \in [PortalProc -> PortalStep]
  /\ peng \in [PortalProc -> Engagement \cup {NULL}]
  /\ \A p \in PortalProc : ppc[p] # "idle" => peng[p] \in Engagement
  /\ saw \in [PortalProc -> BOOLEAN]

(***************************************************************************)
(* Fire-once (AC-ONBD-006-03): however many handlers finish the last steps *)
(* at the same time, the accountant is told at most once that onboarding   *)
(* is complete, and never of an engagement that is still New.              *)
(***************************************************************************)
OnboardingNotifiedOnce ==
  \A e \in Engagement :
    /\ onboardingNotices[e] <= 1
    /\ onboardingNotices[e] = 1 => status[e] # "New"

(***************************************************************************)
(* The system starts the work on its own only for a client who has signed  *)
(* and answered (AC-ONBD-005-02), although it acts on what it read two     *)
(* round trips earlier.                                                    *)
(***************************************************************************)
StartedOnlyWhenOnboarded ==
  [][\A e \in Engagement :
       onboardingNotices'[e] # onboardingNotices[e] =>
         /\ letterSignedAt[e] /\ questionnaireSubmittedAt[e]
         /\ status[e] = "New" /\ status'[e] = "InProgress"]_vars

(***************************************************************************)
(* Onboarding complete, as processOnboardingCompletion would find it.      *)
(***************************************************************************)
Ready(e) ==
  letterSignedAt[e] /\ questionnaireSubmittedAt[e] /\ allRequiredProvided(e)

(***************************************************************************)
(* No completion is lost between two handlers that commit their steps at   *)
(* the same time: when a client's step leaves onboarding complete and its  *)
(* handler survives, the engagement leaves New, unless the accountant      *)
(* makes onboarding incomplete again first.                                *)
(***************************************************************************)
LastStepStartsWork ==
  \A p \in PortalProc \ PortalFaulty, e \in Engagement :
    (Ready(e) /\ peng[p] = e /\ ppc[p] \in {"auditAnswers", "auditUpload", "evaluate"})
      ~> (status[e] # "New" \/ ~Ready(e))

(***************************************************************************)
(* AC-ONBD-006-01 and -02: an engagement whose onboarding is and stays     *)
(* complete goes to In Progress without the accountant advancing it.       *)
(***************************************************************************)
CompleteOnboardingStartsWork ==
  \A e \in Engagement : Ready(e) ~> (status[e] # "New" \/ ~Ready(e))

(***************************************************************************)
(* The checklist the engine decides by "mirrors resolveChecklist", which   *)
(* does not show soft-deleted documents.                                   *)
(***************************************************************************)
resolveChecklist(e) ==
  \A r \in DocumentRequest : doc[e][r] \in {"absent", "active"}

ChecklistMirrorsClientView ==
  [][\A p \in PortalProc :
       ppc[p] = "checklist" /\ ppc'[p] = "transition" => resolveChecklist(peng[p])]_vars
=============================================================================
