------------------------------- MODULE MCOffice -------------------------------
(***************************************************************************)
(* What goes on around the engagement in the office: who takes part in it, *)
(* the reminders, the pages that accountants and clients work with, and    *)
(* the two stores of the developers' tools.  Safety only; the components   *)
(* that promise something eventually are in MCPractice.                    *)
(*                                                                         *)
(* They write no row in common: a behaviour of all of them is an           *)
(* interleaving of behaviours of each, and what each is asked of is a      *)
(* property of its own variables.  So the run takes one component at a     *)
(* time, chosen by `part`, and leaves the others in their initial state.   *)
(* What a component learns from another (that a request is overdue, that   *)
(* there is a new message) is an unconstrained step of its own module.     *)
(*                                                                         *)
(* Two components are taken in two parts.  The queries of the reminder     *)
(* engine read and write different rows: "overdue" and "approaching".  The *)
(* editors of a template share no row with a client but the template:      *)
(* "templates" has editors and no client, "answers" one editor and one     *)
(* client.                                                                 *)
(***************************************************************************)
EXTENDS Participants, ThreadRead, Reminders, TaskFiles, StateStore, LiveBadge, Folders,
        Composer, Services, Questionnaires, Migrations, RowPolicies, DocumentPages, Downloads,
        RequestPages, GeneralThreads, EngagementPanels, DocumentRequests, InitiateForm

VARIABLE part

Parts == {"participants", "thread read", "overdue", "approaching", "tasks", "state store",
          "badge", "folders", "composer", "services", "templates", "answers",
          "migrations", "row policies", "document pages", "downloads",
          "requests", "direct threads", "panels", "document requests", "new engagement"}

vars == <<participantsVars, threadReadVars, remindersVars, taskFilesVars, stateStoreVars,
          liveBadgeVars, foldersVars, composerVars, servicesVars, questionnairesVars,
          migrationsVars, rowPoliciesVars, documentPagesVars, downloadsVars,
          requestPagesVars, generalThreadsVars, engagementPanelsVars, documentRequestsVars,
          initiateFormVars, part>>

Init ==
  /\ ParticipantsInit
  /\ ThreadReadInit
  /\ RemindersInit
  /\ TaskFilesInit
  /\ StateStoreInit
  /\ LiveBadgeInit
  /\ FoldersInit
  /\ ComposerInit
  /\ ServicesInit
  /\ QuestionnairesInit
  /\ primary = CHOOSE s \in Kind : TRUE    \* the kinds are alike
  /\ MigrationsInit
  /\ RowPoliciesInit
  /\ DocumentPagesInit
  /\ DownloadsInit
  /\ RequestPagesInit
  /\ GeneralThreadsInit
  /\ EngagementPanelsInit
  /\ DocumentRequestsInit
  /\ InitiateFormInit
  /\ part \in Parts
  /\ part # "row policies" => owner = [e \in Case |-> NULL]
  /\ part # "composer" => surface = "client, engagement"
  /\ part # "panels" => area = "status"
  /\ progress["brief"] # NULL /\ progress["phase"] # NULL
  /\ part # "state store" => \A pr \in PullRequest : progress[pr] = NULL
  /\ part # "document requests" => ~hasLogin

-----------------------------------------------------------------------------
\* The rows that a run of the engine may find are those of one query.
OnlyOf(items) ==
  \A p \in Engine : engine'[p] # NULL => \A x \in engine'[p].todo : x.item \in items

\* No cadence is looked at when a due date approaches.
RemindersPart ==
  /\ part \in {"overdue", "approaching"}
  /\ \/ part = "overdue"
     \/ part = "approaching" /\ UNCHANGED <<frequency, override>>
  /\ RemindersNext
  /\ OnlyOf(IF part = "overdue" THEN DocumentRequest ELSE DueEngagement)

QuestionnairesPart ==
  /\ part \in {"templates", "answers"}
  /\ \/ part = "templates" /\ UNCHANGED <<primary, answerVars>>
     \/ part = "answers"
  /\ QuestionnairesNext
  /\ part = "answers" => \A e \in LapsedEditor : editor'[e] = NULL

\* Two tabs and one write, or one tab and as many writes as the bound allows.
FoldersPart ==
  /\ part = "folders"
  /\ FoldersNext
  /\ treeWrites' > 1 => Cardinality({t \in TreeTab : treeView'[t] # NULL}) = 1

\* Two tabs and one client, or one tab and as many clients as there are.
GeneralThreadsPart ==
  /\ part = "direct threads"
  /\ GeneralThreadsNext
  /\ Cardinality(engaged') > 1 => Cardinality({t \in StarterTab : starter'[t] # NULL}) <= 1

\* All but the component of the part stay as they are.
Others ==
  /\ IF part = "participants" THEN TRUE ELSE UNCHANGED participantsVars
  /\ IF part = "thread read" THEN TRUE ELSE UNCHANGED threadReadVars
  /\ IF part \in {"overdue", "approaching"} THEN TRUE ELSE UNCHANGED remindersVars
  /\ IF part = "tasks" THEN TRUE ELSE UNCHANGED taskFilesVars
  /\ IF part = "state store" THEN TRUE ELSE UNCHANGED stateStoreVars
  /\ IF part = "badge" THEN TRUE ELSE UNCHANGED liveBadgeVars
  /\ IF part = "folders" THEN TRUE ELSE UNCHANGED foldersVars
  /\ IF part = "composer" THEN TRUE ELSE UNCHANGED composerVars
  /\ IF part = "services" THEN TRUE ELSE UNCHANGED servicesVars
  /\ IF part \in {"templates", "answers"} THEN TRUE ELSE UNCHANGED questionnairesVars
  /\ IF part = "migrations" THEN TRUE ELSE UNCHANGED migrationsVars
  /\ IF part = "row policies" THEN TRUE ELSE UNCHANGED rowPoliciesVars
  /\ IF part = "document pages" THEN TRUE ELSE UNCHANGED documentPagesVars
  /\ IF part = "downloads" THEN TRUE ELSE UNCHANGED downloadsVars
  /\ IF part = "requests" THEN TRUE ELSE UNCHANGED requestPagesVars
  /\ IF part = "direct threads" THEN TRUE ELSE UNCHANGED generalThreadsVars
  /\ IF part = "panels" THEN TRUE ELSE UNCHANGED engagementPanelsVars
  /\ IF part = "document requests" THEN TRUE ELSE UNCHANGED documentRequestsVars
  /\ IF part = "new engagement" THEN TRUE ELSE UNCHANGED initiateFormVars
  /\ UNCHANGED part

Next ==
  /\ \/ part = "participants" /\ ParticipantsNext
     \/ part = "thread read" /\ ThreadReadNext
     \/ RemindersPart
     \/ part = "tasks" /\ TaskFilesNext
     \/ part = "state store" /\ StateStoreNext
     \/ part = "badge" /\ LiveBadgeNext
     \/ FoldersPart
     \/ part = "composer" /\ ComposerNext
     \/ part = "services" /\ ServicesNext
     \/ QuestionnairesPart
     \/ part = "migrations" /\ MigrationsNext
     \/ part = "row policies" /\ RowPoliciesNext
     \/ part = "document pages" /\ DocumentPagesNext
     \/ part = "downloads" /\ DownloadsNext
     \/ part = "requests" /\ RequestPagesNext
     \/ GeneralThreadsPart
     \/ part = "panels" /\ EngagementPanelsNext
     \/ part = "document requests" /\ DocumentRequestsNext
     \/ part = "new engagement" /\ InitiateFormNext
  /\ Others

Spec == Init /\ [][Next]_vars

-----------------------------------------------------------------------------
\* The variables of every component keep their types.
TypeOK ==
  /\ ParticipantsTypeOK
  /\ ThreadReadTypeOK
  /\ RemindersTypeOK
  /\ TaskFilesTypeOK
  /\ StateStoreTypeOK
  /\ LiveBadgeTypeOK
  /\ FoldersTypeOK
  /\ ComposerTypeOK
  /\ ServicesTypeOK
  /\ QuestionnairesTypeOK
  /\ MigrationsTypeOK
  /\ RowPoliciesTypeOK
  /\ DocumentPagesTypeOK
  /\ DownloadsTypeOK
  /\ RequestPagesTypeOK
  /\ GeneralThreadsTypeOK
  /\ EngagementPanelsTypeOK
  /\ DocumentRequestsTypeOK
  /\ InitiateFormTypeOK
  /\ part \in Parts

(***************************************************************************)
(* Each record of what was done leads to what is: the log of a task to its *)
(* status (scripts/task.ts), the events to the state of the process        *)
(* (scripts/state-store.ts), the files recorded as applied to the policies *)
(* in force (scripts/db-migrate.ts), and the download events to the URLs   *)
(* that were given (documents/actions.ts).                                 *)
(***************************************************************************)
RecordsTellHistory ==
  /\ TaskHistoryLegal
  /\ EventsAccountForState
  /\ BookkeepingTrue
  /\ GivenIsLogged

(***************************************************************************)
(* A page shows what is stored, or is known to be out of date: the unread  *)
(* threads (repositories/thread-read.ts), the badge of the notifications   *)
(* (NotificationBadgeClient.tsx), the tree of the folders                  *)
(* (FolderTree.tsx), the lists of the documents (DocumentsClientPage.tsx), *)
(* the panels of an engagement (EngagementStatusPanel.tsx), and what the   *)
(* client was asked for (DocumentRequestEditor.tsx).                       *)
(***************************************************************************)
PagesShowRows ==
  /\ ReadOnlyIfShownOrRaced
  /\ BadgeExactUnlessDisturbed
  /\ TreeShowsRowsUnlessStale
  /\ ListsShowRowsUnlessOutdated
  /\ PanelsShowRow
  /\ EditorShowsRequests

(***************************************************************************)
(* People are told what happened, and no more often than promised: of      *)
(* what is overdue (repositories/reminder-engine.ts), of what became of    *)
(* the message they wrote (MessageComposer.tsx), of the file they uploaded *)
(* (DocumentUploadStep.tsx, UploadControl.tsx), of the request they        *)
(* decided (DecisionActions.tsx), of the thread they started               *)
(* (StartGeneralThread.tsx), of the documents that are asked for           *)
(* (repositories/document-request.ts), and of the engagements that there   *)
(* are when another is begun (InitiateEngagementForm.tsx).                 *)
(***************************************************************************)
ToldWhatHappened ==
  /\ RemindersSpaced
  /\ SentOnceIfTold
  /\ ToldAsStored
  /\ ToldOfRequests
  /\ ThreadsAsTold
  /\ AddedAsTold
  /\ FormTellsWhatIs

(***************************************************************************)
(* No call from an outdated page undoes what holds of a row: a service     *)
(* that was retired (repositories/service.ts), a template that belongs to  *)
(* its service (repositories/questionnaire-template.ts), and a complete    *)
(* set of answers (repositories/questionnaire-answer.ts).  And the rows of *)
(* an engagement appear and disappear together (db/policies).              *)
(***************************************************************************)
RowsStayWhole ==
  /\ RetiredStaysRetired
  /\ TemplateKeepsToItsService
  /\ RequiredAnswered
  /\ PoliciesAgree
=============================================================================
