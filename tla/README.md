# Tax portal: TLA+ models, model checking and proofs

This directory holds the formal models of the tax portal: a Next.js portal for
clients (`apps/portal`), one for the accountants (`apps/admin`), and the shared
packages below them (`packages/db`, `packages/auth`, `packages/storage`, ...).
All durable state is in one SQL Server database reached through Prisma, and in
one blob store. There is no job queue and no lock service. What makes the system
hard is therefore always the same thing: **server actions of several users,
each a sequence of awaited statements, run over shared rows, and may be cut off
after any of them.**

The models take the code at that level. One action is one thing that the
database makes atomic (a statement on the pool, or a transaction whose first
statement locks its row); everything that is awaited after it is an action of
its own, of the same handler invocation.

Paths below are relative to the repository's root.

## 1. Inventory

| Component | State it keeps | Operations | What must be true of it | Here |
|---|---|---|---|---|
| **Engagement lifecycle** (`packages/db/src/repositories/engagement.ts`, `retention.ts`, `thread.ts`, the admin's engagement actions) | `Engagement.status`, the two confirmations, `completedAt`; the engagement's thread; notices of the client | advance, confirm delivery, confirm filing, complete, reopen; after the commit: stamp the retention clock, audit the stamp, archive the thread, notify | a status moves only along its machine and every move is audited; each completion has confirmations of its own; the clock starts once; a completion that survives takes effect | modelled |
| **Audit ledger** (`audit.ts`) | `AuditEvent`, append-only | `withAuditTransaction`, `recordAuthEvent` | what the rows say is what happened | as far as the handlers use it |
| **Onboarding** (`onboarding.ts`, `onboarding-completion.ts`, `checklist.ts`, the portal's onboarding actions) | `letterSignedAt`, `questionnaireSubmittedAt`, answers, document requests and their documents | sign, submit, upload; evaluate completion; the accountant creates requests, uploads, replaces, deletes, recovers | work starts at most once, only when onboarding is complete, and always when it is | modelled |
| **Questionnaires** (`questionnaire-template.ts`, `questionnaire-answer.ts`, their pages) | templates, questions, answers | edit a template, turn to another service, answer, submit | a template asks what was written for its service; what is kept answers all that was asked | partly |
| **Documents and versions** (`document.ts`, `document-version.ts`, `document-request.ts`, the documents pages) | `Document` (status, version, key, tombstone), `DocumentVersion`, `DocumentRequest`, the bytes; lists, upload controls and the editor of requests in the browser | request an upload, complete it (scan, verdict), replace, delete, recover, download; ask for a document | a contiguous version history, scan before active, no verdict twice, audit with each change; what a user is told of an upload or a request is so | modelled |
| **Retention, holds, purge** (`retention.ts`, `legal-hold.ts`, `purge.ts`) | `completedAt`, `LegalHold`, document rows, bytes | place, lift, purge | nothing destroyed inside the window or under a hold; bytes after rows; all bytes of what is purged | modelled |
| **Intake** (`engagement-request.ts`, `engagement-creation.ts`, the request actions and pages, the accountant's new engagements and their form) | engagement requests, invitations at the provider, engagements | submit, accept, decline, mail; initiate after a look for duplicates | one decision per request; a mail only of the decision that won; the prospect hears; no duplicate but after a warning about it | modelled |
| **Messaging** (`message.ts`, `thread.ts`, `thread-read.ts`, `message-attachment.ts`, the message pages) | threads, messages, attachments, read markers; composers and forms in the browser | open, send, attach, mark read, start a direct thread | notices cross to the other party; only scanned bytes are offered; what was read was shown; what was told to be sent is sent once | partly |
| **Notifications, digest, reminders** (`notification.ts`, `email-digest.ts`, `reminder-engine.ts`, the badge) | notification rows, watermarks, preferences, event streams | notify, publish, count, dispatch a digest, run reminders | no double sends, none forgotten; a badge counts what is unread | partly |
| **Participants, notes, folders** (`participants/actions.ts`, `folder.ts`, the panels of an engagement) | `EngagementParticipant`, stub users, folders, notes, due date, priority, cadence override | invite; create, rename, move, place; set, clear, record | no user without an engagement; what a tab shows is stored, or known to be old | partly |
| **Services, templates, settings** (`service.ts`, the services page) | the catalogue | add, edit, deactivate | what was retired stays retired | partly |
| **Session context and row-level security** (`client.ts`, `db/policies`) | `SESSION_CONTEXT` of pooled connections; policies and their predicates | query under a role; deploy a policy | the policies of the tables agree; the bookkeeping of what is deployed is true | policies and their deployment |
| **Authentication, sign-up, rate limiting** (`packages/auth`) | identities at an external provider, counters | sign in, invite, limit | | limiter and invitations, in the intake |
| **Storage and scanner** (`packages/storage`) | blobs, signed URLs | PUT, GET, delete, scan | | as the documents use it |
| **Realtime, email, e-signature** (`packages/realtime`, `email`, `esign`) | subscribers of a channel, in one process | publish, subscribe; send; sign | | the realtime transport, in the badge |
| **User interface** (client components of both applications) | what each tab keeps in its own state | handlers that call actions and then change that state | what a user sees and is told is so | the components with a state of their own |
| **Process scripts** (`scripts/task.ts`, `state-store.ts`, `db-migrate.ts`) | task files, `state.json`, `events.jsonl`; which files are applied | start, review, reject, finish a task; change the state; deploy | each record of what was done leads to what is | partly |

How they interact:

* The accountant's **completion** of an engagement (lifecycle) sets
  `completedAt`, which starts the window of **retention**; the **purge** reads it
  and destroys the **documents**.
* A step of **onboarding** that can be the last, an answer batch or an upload,
  evaluates completion and, when complete, performs a **lifecycle** step
  (New -> In Progress) in a transaction of its own, beside the accountant's
  handlers, which can perform that same step.
* **Documents** decide the checklist of onboarding: their status, and whether
  they are deleted.
* A decision of the **intake** or an initiated engagement makes the row that the
  lifecycle starts from; an **invitation** to participate adds the people to whom
  **row-level security** shows the engagement.
* A **message** and every handler that notifies insert a notification; the
  **badge** counts them, the **digest** mails once a day whoever has unread
  ones, and the **reminder engine** adds its own.
* **Pages** call the actions of all of these, keep what they were told in a state
  of their own, and may act on what another user has changed since.
* Every handler writes the **audit ledger**, some on the transaction of
  their change and some beside it. Which of the two it is makes much of the
  difference between what holds and what does not (section 7).

The hazards, with their lines, are listed in `PROJECT.json`, each with the
properties that watch it or the reason why none does yet.

## 2. Modules

| Module | Role |
|---|---|
| `EngagementLedger` | abstract specification: an engagement is nothing but the counts of its audit rows, and its status is computed from them |
| `EngagementLifecycle` | the lifecycle, handler by handler; implements `EngagementLedger` |
| `Onboarding` | EXTENDS `EngagementLifecycle`: the client's side and the completion engine, composed with the accountant's; implements `EngagementLifecycle` |
| `Documents` | uploads, verdicts, replacements, tombstones, statement by statement |
| `Retention` | window, holds and purge, statement by statement, with what a purge reaches of the documents |
| `Intake` | requests from submission to decision, invitation and mail; engagements that accountants initiate |
| `Messages` | sending into a thread, its notices, attachments and their scan |
| `Digest` | the daily mail and its watermarks |
| `Reminders` | the two queries of the reminder engine, their notices and watermarks |
| `Participants` | inviting a participant: provider, transaction, second transaction |
| `ThreadRead` | read markers, stamped beside the list that they are about |
| `Composer` | sending a message and its file from one form, on four pages, and trying again |
| `GeneralThreads` | the form that starts a direct thread |
| `LiveBadge` | rows, events, streams and the count in a tab |
| `Folders` | the tree of folders in the database and in each tab |
| `DocumentPages`, `Downloads` | upload controls and lists of both applications; URLs that are given |
| `DocumentRequests` | the editor of the requests for documents: the INSERT, the notice, the list that is changed by hand |
| `RequestPages` | the accountants' pages of requests |
| `InitiateForm` | the form of a new engagement, its look for duplicates, the warning and its override |
| `EngagementPanels` | status, attributes, override and notes in panels that keep their own copy |
| `Services`, `Questionnaires` | the catalogue with its page; templates, editors and answers |
| `RowPolicies`, `Migrations` | what the policies show, table by table; how they are deployed |
| `TaskFiles`, `StateStore` | the two stores of `scripts/task.ts` |
| `Null` | the absent value that these modules share |
| `MC*` | small instances and bounds for TLC; `MCPractice` and `MCOffice` compose the modules from `Intake` on |
| `EngagementLifecycleProofs`, `OnboardingProofs`, `DocumentsProofs`, `RetentionProofs`, `IntakeProofs` | theorems about the module of that name, for every value of the constants |
| `PracticeProofs` | theorems about `Messages` and `Digest`, and the types of `MCPractice` |
| `PagesProofs`, `OfficeProofs` | the invariants of the components of `MCOffice`, in two modules; the theorems about all of them are in the second |

### EngagementLifecycle

`status`, `deliveryConfirmedAt`, `filingConfirmedAt`, `completedAt` are the
columns; `thread` is the state of the engagement's thread; `audit` and
`notices` count rows by their action or type; `pc` and `eng` say which awaited
statement a handler is at, and on which engagement.

`transitionEngagementStatus`, `confirmDelivery`, `confirmFiling` and
`reopenEngagement` are each one action: their transaction begins with a guarded
`UPDATE ... WHERE status = <from>`, so the row is locked until the audit row is
in, and a failure rolls back both. When a transition commits, its handler
goes on with `StampCompletion`, `AuditStamp`, `archiveEngagementThread` and
`NotifyClient`, one action each, because each is a round trip; `Fail` may end a
handler in `Faulty` before any of them. The stamp and its audit row are
two steps although the code puts them into `withAuditTransaction`: the UPDATE
goes through the pool and commits by itself (`retention.ts:158`).
`StartByOnboarding` is the transition onboarding makes: any time in this module
on its own, only from `CompleteOnboarding` in the composition.

### Onboarding

A portal handler commits its own step (`MarkSubmitted`, `completeUpload`, ...),
writes its audit row (`RecordStep`), then evaluates: `ReadEngagement`,
`ReadChecklist` and `CompleteOnboarding` are the three round trips of
`processOnboardingCompletion`. What it read is kept in `saw`, so a stale read is
acted on exactly as the code would. The accountant's dealings with documents
(`createDocumentRequest`, `adminCompleteUpload`, `replaceDocument`,
`softDeleteDocument`, `recoverDocument`) change the same requests and evaluate
nothing. The documents of one request are one; its versions are in `Documents`.

### Documents

Every statement is an action. `replaceDocumentWithNewVersion` reads the
current version, then `InsertVersion` (refused by the unique key on document and
version), `SupersedePrior`, `MovePointer`, `AuditReplacement`; only the last is
on the transaction. `completeUpload` gets a document and a key from its caller and
never reads the row: it stats the object under the key (the validation), `Scan` reads
it again, and `ApplyVerdict` writes the verdict later, to whatever the row is by then,
if it is still pending. The key may be that of any document and version (`Key`).
What a handler has seen of the bytes is kept in `work[p].seen`. `softDeleteDocument` and `recoverDocument` set and clear the
tombstone, `AuditTombstone` follows. The key of a row is a version number, bytes
are what the validation and the scanner make of them, and `PutObject` is the browser's
PUT under a signed URL (external), which may be used any number of times.

### Retention

`purgeEngagement` reads eligibility and holds (`seen` remembers which holds
existed; it is a history variable that no guard reads), then
`CollectVersionKeys`, `CollectDocumentKeys`, `DeleteVersions`, `CommitPurge`, and
after the commit `EraseKey` for each key until `Erased`. The transaction is READ
COMMITTED: each statement sees what is committed, its own deletions show at the
commit (`doomed`), and a version inserted between the two DELETEs makes the second
fail by its foreign key, whence `RollBack`. `placeLegalHold` and `liftLegalHold`
are a read or a write through the pool, then the rest. Uploads and replacements
are reduced to two steps, the row and the URL; URLs may be used at any time and
more than once, also after the purge.

### Intake

`EngagementRequest` rows, `Engagement` rows by tax year, invitations at the
provider, and mails. `acceptRequest` reads, creates the invitation at the provider
inside its transaction, and writes the guarded UPDATE, the engagement and the audit
row; a loser of that UPDATE throws `AlreadyDecidedError` and leaves an invitation
behind. After the commit come the limiter and the mail, each a step; what the
action answers is `told`. An accountant who initiates an engagement looks for
duplicates on the pool, may override the warning, and inserts in a transaction.

### Messages, Digest, Reminders

`appendMessage` inserts, then `ResolveRecipients` and one `EmitNotice` each; a
failure of one recipient is swallowed (`allSettled`), a failure to resolve them is
an error for a message that is there. `InsertAttachment`, `PutAttachment`,
`VerdictOn`, `PromoteAttachment` are the steps of `storeAndScanAttachment`.
`Digest` selects recipients once and then sends and stamps one by one, at the `now`
it started with. `Reminders` counts time in parts of a day, since one watermark is
compared by elapsed time and the other by calendar day; `crossing` and `tainted`
say which runs overlapped and whose watermark was lost.

### The pages

`Composer`, `GeneralThreads`, `RequestPages`, `InitiateForm`, `EngagementPanels`,
`Folders`, `DocumentPages`, `DocumentRequests`, `Services`, `Questionnaires` and
`LiveBadge` have for each tab the
state its component keeps (`useState`), what is on its way to or from the server,
and the rows the actions write. The browser sends the actions of one tab one after
the other; a page that is loaded anew forgets the state of the old one, but actions
under way go on. A handler of the component is one action up to its first `await`,
the server's part one or more, and what follows the `await` one more. Variables such
as `outdated`, `disturbed`, `treeStale`, `overtaken`, `dated` and `strayed` are history:
they name the tabs for which the code cannot know that its copy is old, and no guard
reads them.

### Records of the developers' tools, and policies

`TaskFiles`, `StateStore` and `Migrations` have two commands at a time over files or
statements without a lock; `raced`, `astray` and `overlapped` name what overlaps may
have hit. `RowPolicies` has one operator per predicate of `db/policies`, over the
facts the predicates look up, and steps that change those facts.

## 3. Runs

All runs set `CHECK_DEADLOCK FALSE`: the system may really stop, when every
handler is idle and nobody does anything, or when a bound is reached.

| Run | Expect | States | Question |
|---|---|---|---|
| `lifecycle` | pass | 101,934 | Does the audit trail account for the row, does the clock start once and only after a completion, is no notice sent for a change that did not commit, does a completion whose handler survives take effect, and is it all a behaviour of the ledger? |
| `onboarding` | pass | 193,208 | Is the work started, and the accountant told, at most once and only for an onboarded client; does the last of several concurrent steps start it; is it all a behaviour of the lifecycle? |
| `documents` | pass | 311,779 | Do concurrent and interrupted replacements leave a history without gap or fork; is a verdict final for its version, and only in the ways that are named at odds with the bytes; does a replacement that got its version through take effect? |
| `retention` | pass | 294,683 | Is anything destroyed inside the window or by a purge that ran past a hold it could read; do bytes go last; is a lifting audited once; does a surviving purge erase all it collected? |
| `practice` | pass | 168,251 | Is a request decided once, its prospect mailed of that decision only, and does he hear of it; are duplicates bounded; do notices reach the other party and no one else; is the digest sent once a day, and to everyone selected? |
| `office` | pass | 510,765 | Do pages show what is stored, are people told what happened, do records lead to what is, and does no call from an old page undo what holds of a row? |
| `onboarding_lost`, `onboarding_deleted`, `scan_race`, `version_lost`, `delete_unaudited`, `hold_at_commit` | violation | | section 7 |

Every property of a passing run has a mutant in `PROJECT.json`: a change of the
modelled code, as a plausible bug would make it (a dropped guard, a missed status, an
unlocked read), under which TLC finds the property violated. The mutated
operators stand in the modules, beside the operator they change. The composed
properties of `office` have several conjuncts and one listed mutant each; for every
other conjunct a mutated operator stands in its module, found by TLC in the same way
(`DecideUnguarded`, `TellPendingAsActive`, `ReplayOnAbort`, `RunOn`, `FailUnlessNotified`,
`WarnAlways`, ...).

### Two runs of many components

`MCPractice` and `MCOffice` run components that write no row in common. A behaviour
of all of them together is an interleaving of behaviours of each, and what each is
asked is a property of its own variables, so it is checked in each alone: the
variable `part` picks the component of a behaviour, the others stay in their
initial state. What a component learns from another is an unconstrained step of its
own module (`NewNotification`, `MessageArrives`, an overdue request), so nothing is
lost by not composing them. `surface` (of `Composer`: which of the four pages) and
`area` (of `EngagementPanels`: which panel) are fixed at the start for the same
reason. The four parts of `practice` promise something eventually and are fair; the
21 parts of `office` are asked for safety only. Its parts:

| Part | States | Asks |
|---|---|---|
| participants | 6,850 | `NoOrphanStub` |
| thread read | 10,709 | what a viewer does not find unread was shown (`ReadOnlyIfShownOrRaced`) |
| overdue, approaching | 50,340; 1,829 | reminders not sooner than the cadence, at most one notice a day (`RemindersSpaced`) |
| tasks | 25,731 | a log is a way through the lifecycle and tells the status (`TaskHistoryLegal`) |
| state store | 38,177 | the events account for the state (`EventsAccountForState`) |
| badge | 1,789 | the count is exact unless disturbed (`BadgeExactUnlessDisturbed`) |
| folders | 22,214 | the tree is the rows unless stale (`TreeShowsRowsUnlessStale`) |
| composer | 28,040 | told to be sent is sent, once (`SentOnceIfTold`) |
| services | 7,815 | `RetiredStaysRetired` |
| templates, answers | 4,989; 3,586 | `TemplateKeepsToItsService`, `RequiredAnswered` |
| migrations | 24,276 | the bookkeeping can be trusted (`BookkeepingTrue`) |
| row policies | 9,216 | `PoliciesAgree` |
| document pages | 115,596 | `ToldAsStored`, `ListsShowRowsUnlessOutdated` |
| downloads | 6,478 | a URL is given only if recorded (`GivenIsLogged`) |
| requests | 3,750 | an accountant is told of his own decision only (`ToldOfRequests`) |
| direct threads | 29,704 | `ThreadsAsTold` |
| panels | 10,387 | `PanelsShowRow` |
| document requests | 47,189 | the list of the editor is what is asked for (`EditorShowsRequests`), a request told to be added was, and its notice was tried (`AddedAsTold`) |
| new engagement | 62,100 | what the form says of the engagements that there are is so (`FormTellsWhatIs`) |

### The three parts of `documents`

The bytes multiply the states of everything else, so `MCDocuments` has three parts as
well; the theorems are about `Documents` without any.

| Part | States | Bounds |
|---|---|---|
| versions | 23,095 | one document, three versions, no deletion, one PUT to each key |
| tombstones | 39,125 | one document, two versions, deletion and recovery, one PUT to each key |
| bytes | 249,559 | two versions, no deletion; keys are PUT over, so that bytes change between validation, scan and verdict and after it; a second document, uploaded once and never scanned itself, whose key is named for the first |

### Bounds, and why they are enough

* **One engagement, one document, one request, one hold.** No handler writes
  two engagements, or two documents, in a way that one depends on the other.
  `completeUpload` may read the bytes of a document other
  than the one it writes, whence the second one in the part `bytes`; a third would be
  another key that is not the document's. Only a hold on a client concerns several
  engagements, and the model has a client. Holds, requests and documents meet only
  through quantifiers over one engagement. The theorems are for any number.
* **Handlers.** Two race; the lifecycle has a third, which may die
  (`Faulty`), so that two handlers race over what a dead one left behind. In
  onboarding two portal handlers and one accountant; in documents and retention
  two handlers of which one may die.
* **`MaxYear`** (years of clock): 2 in the lifecycle, so that a second
  completion in a later year would move the clock; 1 in retention, with a window
  of 1, so that both sides of the boundary occur; 0 in onboarding, where no
  property reads the clock.
* **`MaxReopens`** 1: a reopening and a second completion. 0 in
  onboarding, which is over once the engagement has left New.
* **`MaxVersion`**: 3 in documents (2 in two of its parts), so that a replacement meets
  one that is half done and one that is done; 2 in retention, where a replacement runs beside
  the purge. **`MaxDeletes`** 1: a deletion and a recovery.

* **`practice`**: three requests, one decided before, by two handlers; a fourth
  would repeat. `MaxAttempts` 2 lets the limiter admit one mail and refuse the next.
  Two messages and one attachment of two clients and an accountant; three digests over
  two days, so that one may begin before midnight and end after it.
* **`office`**: two tabs, commands or viewers wherever two can meet; one where they
  cannot (the composer's writer, the badge's recipient, the form of a new engagement,
  whose two calls cross each other). Two values of a kind where an old one may
  overwrite a new one (`ServiceText`, `SettingValue`, `Folder`), one otherwise.
  `MaxSends`, `MaxCalls`, `MaxSaves`, `MaxCreations`, `MaxNotes`, `MaxArrivals`,
  `MaxEvents` 2: the first is what the second finds outdated. A folder is there from the
  start (`SeededFolder`), so that one tab may move what the other renames;
  `MaxWrites` 3 in one tab, 1 in two (`FoldersPart`; two tabs with two writes each,
  178,331 states, pass as well and take a minute more). Direct threads likewise: two
  tabs and one client, or one tab and two (`GeneralThreadsPart`).
  `MaxEngineRuns` 2 and `MaxTime` 2 with intervals of 1 and 2 days of two parts: a run
  sooner than the cadence, and one across midnight (with `MaxTime` 3 it passes as
  well); `MaxDeployments` 3: a death, a repetition and an overlap. `MaxEntries` 4 in a
  log: a rejection and a second review. `MaxDay` 1: a request falls due.
  `MaxReopenings` 1, `MaxHeld` 3 versions.

### Fairness

Weak fairness on the next statement of each handler invocation outside `Faulty`
(`PostCommit`, `Continue`, `Resume`, `Step`, and in `practice` `IntakeContinue`,
`SendContinue`, `DispatchContinue`), nothing else. A server
action is one asynchronous function: once it has been called, the runtime runs its
awaited statements to the end unless the process or a statement fails. Nothing is
assumed of users: nobody need start an action, upload, or lift a hold; the clock need
not advance; invocations in `Faulty` may stop for good at any statement.

## 4. Abstract specifications

`EngagementLedger` is what the audit trail promises (ADR-019): the rows
alone are an event source. `Place` and `Stands` compute the status and the
confirmations from counts, and the machine may only append a row that its
counts allow. The refinement mapping takes the lifecycle's `audit` without the
stamp row, which is not about the status: with it the lifecycle's atomic
transactions map to one step each and everything after a commit to stutters.

`Onboarding` implements `EngagementLifecycle` (`LifecycleSpec`, the identity
mapping): the completion engine, however it is interleaved, never does to an
engagement what an accountant's handler could not.

## 5. What is proved

By TLAPS, for all values of the constants, from the modules' own named
assumptions only (`LifecycleAssumption`, `DocumentsAssumption`, ... one or two per
module: sorts, finite sets and bounds, and that `NULL` is none of the values it stands
beside, `NoPageAssumption`, `NoRunAssumption`, ...; TLC evaluates each). Any number of
handlers, tabs and commands may run and die. Every safety invariant that a passing run
checks is a theorem.

* **`EngagementLifecycleProofs`** - `TypeCorrect`, `AuditTrailSound`,
  `CompletionConfirmed`, `ClockAfterCompletion`, `StampOnce`, `ClockFireOnce`,
  `NoticesFollowCommits`, `LedgerImplemented`. Three inductive invariants. `TrailInv` is types, audit
  counts against the row, and confirmations at completion; the last two need
  each other, since a completion uses up confirmations only as the trail counts them.
  `ClockInv` speaks of handlers in flight: who is at the stamp has a
  completion behind it (`CompletedBeforeStamp`); who owes the audit row of the
  stamp found the clock set and no row yet (`AuditOwed`); and two handlers cannot
  owe it (`OneStamper`), without which "at most one row" is not inductive.
  `NoticeInv` counts: notices sent, and handlers that have still to send one, are together
  no more than the audit rows of their changes. A handler joins those who have still to
  tell in the step that appends the row, and leaves them with its notice or by its
  death. That those handlers are finitely many is part of the invariant, since no bound on
  `Proc` is assumed. The ledger
  step is proved action by action: the four transactions map to the four
  ledger actions, with the guard of each recovered from `TrailInv`.
* **`OnboardingProofs`** - `OnboardingTypeCorrect`, `OnboardingImplementsLifecycle`,
  `NotifiedOnce`, `StartJustified`. Every step of the composition is shown to
  be a lifecycle step or to leave it alone, which also carries the invariants of
  the lifecycle over. That stale reads do no harm to `StartJustified` rests on
  the letter and the questionnaire being set once and never cleared: the invariant
  says that what a handler saw still holds.
* **`DocumentsProofs`** - `DocumentsTypeCorrect`, `HistoryContiguous`,
  `VerdictFits`, `VerdictFinal`, `ReplacementsAllCounted`. `DocumentsInv` adds to what is
  promised what rows and handlers look like in between (`RowOK`, `HandlerOK`) and
  that one handler at most stands between inserting a version and moving the
  pointer (`OneSwitches`): that is what the unique key gives, and what makes a
  crash in between leave the pointer one behind and never more. `VerdictFits` goes through
  the steps that touch a status, a key or bytes. It needs of the invariant what a handler
  with a verdict has seen (`JudgeOf`): if it was one kind of bytes only, a promotion saw
  clean ones and a quarantine malware; and that a row still at its first version has
  the first key or none. Which exceptions the theorem has, and why the code has them, is
  in section 7. `CountInv` weighs the
  audit rows of replacements, and the handlers that owe one, against the versions: the
  step that moves the pointer gives each handler a version of its own.
* **`RetentionProofs`** - `RetentionTypeCorrect`, `DestroyedLate`, `BytesGoLast`,
  `LaterPurgeStopped`, `LiftedOnce`. `RetentionInv` says that a purge under way
  has an engagement past its window and no active hold among those it saw, and one
  that is erasing has its rows gone and its audit row in (`PurgeOK`); that a
  document without a row has no version row that could bring it back (`RowOK`);
  that a lifter owes one audit row of a hold that is lifted, and only one owes it
  (`LiftOK`, `LifterOK`, `OneLifts`). `Lasting` collects what no step undoes
  (stamps, liftings, purges, the clock's direction): the lemma that keeps the proof
  of other handlers' steps short.
* **`IntakeProofs`** - `IntakeTypeCorrect`, `DecidedOnceForAll`,
  `MailFollowsDecision`, `DuplicatesBounded`. `DecisionInv` adds to the two
  properties what handlers in flight know: one past its commit holds the decision
  that the row has (`FlightsHold`), no two are past the commit of one request
  (`FlightsApart`, from the guard of the UPDATE), and the invitation was created before
  there was a decision to mail (`InvitedFirst`). `DuplicateInv` bounds the
  engagements that slipped past the look for duplicates by the handlers that have looked
  and not yet created, plus those made: each step moves one handler from the first
  count to the second, which takes lemmas about cardinalities.
* **`PracticeProofs`** - `MessagesTypeCorrect`, `ThreadStaysConfined`,
  `DigestTypeCorrect`, `OneDigestADay`, `WatermarkHasMail`, `WatermarkSound`,
  `PracticeTypeCorrect`. `SendInv`: the recipients that a handler has still to tell are
  recipients of its message. `ScannedInv`: a verdict is of the bytes that are stored. A
  mail precedes its watermark (`DispatchInv`); while no two dispatches have
  overlapped, whoever is still to be mailed has an older watermark, and a mail of a day has
  its watermark or a dispatch that is about to write it (`AloneInv`).
* **`PagesProofs`**: one inductive invariant for each page with a state of its own,
  init and step, from which `OfficeProofs` takes its properties.
  - *Thread read*: while a page that has listed is open every message was shown to its
    viewer or excused, and a marker hides one that was neither only while a page is still
    to list it (`ViewerOK`).
  - *Badge*: a notice is still to be published or on its way to a tab, never both,
    so that each step moves one from one number to the other.
  - *Folders*: what a tab has still to do to its copy is what its own action did
    to the rows (`InStep`); events lag behind writes by the actions between the two.
  - *Document pages*: a document has one control at most (`OneOwner`); a live control's
    document is pending; what a checklist shows as provided was promoted.
  - *Panels*: what a handler is about to show is what its action has stored (`PanelOK`).
  - *Document requests*: every row was announced, failed to be, or has its call under way;
    the editor whose call is under way was told nothing meanwhile.
  - *Reminders*: of two runs at one time both are counted as crossing, so that one that
    crosses none is alone; the watermark of an untainted item is when it was last raised,
    unless a run is about to write it (`Marking`).
  - *Request pages*: a decided row stays as it was decided; a request that there is has an
    unread notice or was fetched.
  - *Composer*: the call that the form waits for is the last one and carries its draft; no
    later call repeats a draft told to be sent (`SentOK`).
  - *New engagement*: until the choice is changed during a call, every call carries the
    choice that is shown (`Straight`), and an override one that was warned of.
  - *Direct threads*: every row was inserted by a call of its own (`RowsCalled`); counting
    is by injections, no bound on calls or clients being assumed.
* **`OfficeProofs`** - `StubsParticipate`, `ParticipantsNeverAudited`, and of the
  composition `StubsParticipateInOffice`, `RowsStayWholeAlways`, `RecordsAlwaysTellHistory`,
  `PagesAlwaysShowRows`, `PeopleAlwaysTold`, `OfficeTypeCorrect`. `OfficeInv` is the
  conjunction of the components' invariants; a step of the office is a step of at most
  one component and leaves the others alone (`StepsOfComponents`), so that each
  invariant is proved of its component only. Those that are proved here:
  - *Participants*: a User that is a client stays one, so what the SELECT found still holds
    at the INSERT (`InviteInv`). The second transaction of `inviteParticipant`, which the code makes
    for the audit row, finds its participant there already and writes none (section 7).
  - *Task files*: commands look at the status alone, and that is enough for logs to
    be legal since the log of every file, in either directory or in the hands of a
    command, ends in its status (`GoodFile`, `EditOK`). That a task is in one place
    holds until a file of it is replaced by one made from an older.
  - *State store*: for a key that did not go astray at most one command has written a change
    that no event tells yet; its change is the state, otherwise the events are.
  - *Migrations*: files are recorded in order, and before runs overlap only the file
    behind the last recorded one can be half executed (`OneRun`).
  - *Questionnaires*: an editor past loading holds questions of the service that its
    picker shows, until a load is refused. *Downloads*: a key is logged before it is
    answered. *Services*: what a page shows, or sends, are rows of the catalogue.

## 6. What is only model-checked

* Liveness, which the prover has no rules for (nor for ENABLED, which fairness
  is defined by): `CompletionTakesEffect`, `LastStepStartsWork`, `ReplacementTakesEffect`,
  `PurgeErasesWhatItCollected`, `DecidedProspectHears`, `OtherPartyTold`,
  `SelectedIsMailed`.
* The counterexamples of section 7.

## 7. Where the code does other than it says

Each of these is a run that expects a violation of one property, which states what
the quoted line says.

| Run | The property, and the line it is from | What happens |
|---|---|---|
| `onboarding_lost` | `CompleteOnboardingStartsWork`; `onboarding-completion.ts:8-9` "transitions New -> In Progress on completion", "without manual accountant action" | the accountant uploads or recovers the last document: onboarding is complete, no client step is left, nobody evaluates, and the engagement stays New for ever, with no failure at all |
| `onboarding_deleted` | `ChecklistMirrorsClientView`; `onboarding-completion.ts:31-32` "mirrors resolveChecklist semantics" | a soft-deleted document stays 'active' and is counted as provided, while the client's checklist shows its request as outstanding |
| `scan_race` | `ActiveServesCleanBytes`; `document.ts:544-545` "the exclusive gate between 'pending' and 'active'" | the verdict on the bytes of one version is written after a replacement has moved the key: the row is active with bytes nobody scanned. It is one of four ways, listed below; `VerdictFitsBytes` says that there is no fifth, and is proved |
| `version_lost` | `EveryPriorVersionRetained`; `document.ts:1029` "Every prior version retained" | the first version never gets a `DocumentVersion` row, so after a replacement it cannot be listed or downloaded. `VersionHistoryContiguous` is the part that holds, and is proved |
| `delete_unaudited` | `DeletionAudited`; `document.ts:732` "deletion audit event emitted in the same transaction" | the tombstone commits on the pool; a failure before the audit row leaves it unaudited |
| `hold_at_commit` | `HoldAtCommitBlocksPurge`; `purge.ts:216-217` "a hold placed after the read but before the commit is observed" | the holds are read once in a READ COMMITTED transaction; one inserted later is not seen. `HoldStopsLaterPurge` is the part that holds, and is proved |

The following came up while the other modules were written. Where a property is
weaker than one might expect, one of these is why; none has a run of its own.

* **Verdicts and bytes.** A row may be active with bytes that are not clean in four ways,
  which are the exceptions of `VerdictFitsBytes`. A replacement moves the key before
  the verdict is written. The key that is scanned is the caller's (portal
  `onboarding/actions.ts:1058-1063`, admin `documents/actions.ts:396-401`), is not compared
  with the row's, and may be of another document. The bytes are replaced under a URL
  that is still valid, between validation and scan, between scan and verdict, or
  afterwards (`azurite.ts:171`). And `insertPendingDocument` sets the first key by an
  UPDATE of its own without regard to the version (`document.ts:523-530`): after a
  replacement it puts the old key back. What holds is that nothing else does it: no
  replacement keeps the verdict on the version before, and a verdict on the key and
  bytes that are still those of the row is the right one.
* **Participants.** No `engagement.participant_added` audit row is ever written
  (`participants/actions.ts:354-371`, theorem `ParticipantsNeverAudited`).
* **Intake.** An acceptance that loses leaves an invitation at the provider. A
  handler that dies between commit and mail leaves a prospect who never hears. The
  engagement of a returning client is inserted without `clientUserId`
  (`requests/actions.ts:372-385`), so no notice for the client is sent of it. The
  limiter admits one attempt less than `maxAttempts`. The page of a request is
  rendered again by its own action, so that the accountant never sees whether the mail
  went out (`DecisionActions.tsx`).
* **Messages.** A failure to resolve the recipients is reported as a failure to send,
  though the message is there; sent again, it is there twice. Other clients of
  the engagement are not told. Attachments whose handler died stay pending for ever. An
  archived thread takes messages. Of the attach actions, those of the office do not
  check that the message belongs to the thread. The composers report an infected file
  as sent, and stay disabled after a call that throws.
* **Read markers.** A message that comes between list and stamp, or whose list failed, is
  marked as read unseen; of two pages the slower one decides, so a marker may go
  back. The marker is a MERGE without HOLDLOCK. All accountants share one read mark
  of a notification.
* **Digest, reminders.** Dispatches that overlap, and one that dies between mail and
  watermark, mail twice; one that runs over midnight goes on with the day
  it began on, and its watermark may go back.
* **New engagement.** "Create anyway" sends the choice that stands in the form, not
  the one that was warned about: `pendingPayload` is kept and never read
  (`InitiateEngagementForm.tsx:164`, `:183-185`), and fields are not disabled while the first call
  is under way. So one may be created with an override for a choice that nobody was
  warned of (`DuplicateWarning.tsx:10` has "warns ... before any second is created").
  The button stays enabled during its call, so two clicks create two; an error of
  that call is not shown while the warning is. `FormTellsWhatIs` says what holds.
* **Document requests.** A request that was just added is shown as not overdue ("cannot be
  overdue immediately", `DocumentRequestEditor.tsx:134`) also if its date is past.
  `defaultRequestDueDays` is read by the engine and set by nothing.
* **State store.** `migrate` calls itself idempotent (`state-store.ts:731`); of a tree with no
  brief it writes anew each time, and its event tells of no pull request.
* **Direct threads.** The list beside the form is not refreshed, and nothing makes
  threads unique: an accountant who does not see the new one makes another.
* **Engagement panels.** They do not take over what the page is rendered with
  again. A confirmation from a tab that was loaded before a reopening counts for
  the new round, also In Progress: the UPDATE asks for no status.
* **Documents pages.** A notice that fails after the promotion is an error for a file
  that was accepted; an action that throws leaves its control disabled.
* **Services.** The edit form, opened for another row while it is open, keeps the
  values of the row before (`EditServiceForm.tsx:33`; its line 7 says "Form pre-fills
  with the current service values"). Of two tabs the last edit wins.
* **Questionnaires.** An editor keeps the questions of the service before if those of
  the next are refused, and saves them there. `QuestionnaireAnswer.templateId` is said
  to capture the version that was answered, but templates change in place.
* **Folders.** Moves may make a cycle, which the flat list does not show. A write goes
  over the pool and stays when the transaction of its audit row fails.
* **Badge.** The transport keeps its subscribers in one server process, the
  applications are two; nothing is counted anew when a stream reconnects.
* **Migrations.** The policy files call themselves idempotent (`0011:58`, `0010:59`), but
  one executed again after a run that died before recording it fails, since its
  function is bound by the policy: the deployment is stuck. A slow run may put
  an older policy over a newer one that is recorded.
* **`scripts/task.ts`.** Of two commands one may overwrite what the other did, and
  recreate a file that was archived; a change may be taken back while its event stays
  (the comment at lines 2201-2204 has no ghost events).

## 8. What is not modelled, and why

* **Authorization** in the handlers: roles and assignments are taken as given; an
  action stands for a call by somebody who may make it. `RowPolicies` has what the
  policies show; how a connection of the pool gets its `SESSION_CONTEXT` is the doing of a
  driver outside this repository. A pool that is exhausted by handlers that each hold one
  connection and wait for another is a hazard without a property.
* **Storage adapters, email, e-signature**: I/O behind a port. A signed URL may be used
  any number of times and does not expire in the models, so what holds does so for
  any lifetime.
* **Duplicate holds**: two accountants may place a hold on one target at the same
  time (`Retention` has the two statements). One `HoldId` in the run: what a second
  hold adds is a purge that stays blocked.
* **A purge whose erasures fail**: a key that was not erased, or was never
  collected (inserted between collecting and deleting), stays in the store
  without a row. No document of the repository promises otherwise; the steps
  are modelled, the promise is not stated.
* **A thread opened late**: `getOrCreateEngagementThread` of a slow page may make an
  active thread for an engagement that is complete (an action of
  `EngagementLifecycle`); nothing promises that it does not.
* **Read-only parts**: the feed of notifications, the overview pages, the organisation
  of documents, checks and reports of `scripts/`. **Letter templates and global
  settings**: one row, written by one statement. **Layouts** and components that only
  render. **Seeds, one-time imports, Prisma's migrations**: run once.
* **Sign-in and sessions**: of the identity provider.
* **Values**: file names, sizes, texts, questionnaire contents. A time is a year.

## 9. Plan

Done, in the order of importance: lifecycle and ledger, onboarding in
composition with it, documents, retention and purge; intake, messages, digest;
participants and reminders; the pages with a state of their own; the stores of the
developers' tools, the policies and their deployment; document requests and the form of a
new engagement; the proofs of every safety property. Next:

1. **Abstract specifications** of a document's version history and of destruction
   (a document exists, is destroyed past its window, its bytes then vanish), which
   `Documents` and `Retention` implement; and of a read marker that only moves forward,
   which `ThreadRead` implements when no two pages overlap. Each with its refinement
   proved step by step, as `LedgerImplemented` is.
2. **Connection pool and session context**: statements on the pool inside a
   transaction that holds a connection; everyone waiting for one more.
