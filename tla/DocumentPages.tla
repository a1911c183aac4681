----------------------------- MODULE DocumentPages -----------------------------
(***************************************************************************)
(* The pages on which documents are uploaded: the checklist of the portal  *)
(* (onboarding/_components/DocumentUploadStep.tsx) and the documents page  *)
(* of the office (documents/_components/DocumentsClientPage.tsx and        *)
(* UploadControl.tsx), with the rows as their actions leave them.          *)
(*                                                                         *)
(* An upload is three calls from the browser: an action that inserts the   *)
(* row and signs a URL, a PUT to the store, and an action that scans and   *)
(* promotes.  What its user is told depends on how far it gets; what is    *)
(* stored is in the module Documents statement by statement.               *)
(*                                                                         *)
(* The office's page shows two lists that are read by two actions, which   *)
(* the browser sends one after the other.                                  *)
(***************************************************************************)
EXTENDS FiniteSets, Null

CONSTANTS
  Paper,         \* Document ids
  ChecklistItem, \* DocumentRequest ids of the engagement
  ChecklistTab,  \* browser tabs of the client
  OfficeTab      \* browser tabs of the accountant

ASSUME DocumentPagesAssumption == ChecklistTab \cap OfficeTab = {} /\ NULL \notin Paper

VARIABLES
  file,       \* per document its row, [item, state, deleted]
  checklist,  \* per tab of the client the items shown as fulfilled, NULL while closed
  lists,      \* per tab of the office its two lists, NULL while closed
  refresh,    \* per tab of the office what is to be read again: "no", "both" or "archive"
  fresh,      \* the first list of a refresh, read already
  control,    \* per upload control [status, doc, live]: live while its handler runs
  promoted,   \* history: documents that were promoted
  outdated    \* history: tabs of the office whose rows changed since they were read

documentPagesVars == <<file, checklist, lists, refresh, fresh, control, promoted, outdated>>

\* There is a control for each item of a checklist, and one on a page of the office.
Control == (ChecklistTab \X ChecklistItem) \cup (OfficeTab \X {NULL})

Idle == [status |-> "idle", doc |-> NULL, live |-> FALSE]
NoFile == [item |-> NULL, state |-> "none", deleted |-> FALSE]

Working == {d \in Paper : file[d].state # "none" /\ ~file[d].deleted}
Archive == {d \in Paper : file[d].deleted}

\* resolveChecklist: an item is fulfilled while it has an active document.
Fulfilled == {i \in ChecklistItem : \E d \in Working : file[d].item = i /\ file[d].state = "active"}

\* A write makes the lists of every other tab, or of every tab, out of date.
Outdate(tabs) == outdated' = outdated \cup tabs

DocumentPagesInit ==
  /\ file = [d \in Paper |-> NoFile]
  /\ checklist = [t \in ChecklistTab |-> NULL]
  /\ lists = [t \in OfficeTab |-> NULL]
  /\ refresh = [t \in OfficeTab |-> "no"]
  /\ fresh = [t \in OfficeTab |-> {}]
  /\ control = [c \in Control |-> Idle]
  /\ promoted = {}
  /\ outdated = {}

-----------------------------------------------------------------------------
(***************************************************************************)
(* The pages.                                                              *)
(***************************************************************************)
OpenChecklist(t) ==
  /\ checklist' = [checklist EXCEPT ![t] = Fulfilled]
  /\ control' = [c \in Control |-> IF c[1] = t THEN Idle ELSE control[c]]
  /\ UNCHANGED <<file, lists, refresh, fresh, promoted, outdated>>

\* Both lists are read while the page is rendered.
OpenDocumentsPage(t) ==
  /\ lists' = [lists EXCEPT ![t] = [working |-> Working, archive |-> Archive]]
  /\ refresh' = [refresh EXCEPT ![t] = "no"]
  /\ fresh' = [fresh EXCEPT ![t] = {}]
  /\ control' = [control EXCEPT ![<<t, NULL>>] = Idle]
  /\ outdated' = outdated \ {t}
  /\ UNCHANGED <<file, checklist, promoted>>

RefreshWorking(t) ==
  /\ refresh[t] = "both"
  /\ refresh' = [refresh EXCEPT ![t] = "archive"]
  /\ fresh' = [fresh EXCEPT ![t] = Working]
  /\ outdated' = outdated \ {t}
  /\ UNCHANGED <<file, checklist, lists, control, promoted>>

\* The lists are set together; each read may have failed, and then its list stays.
RefreshArchive(t) ==
  /\ refresh[t] = "archive"
  /\ \/ /\ lists' = [lists EXCEPT ![t] = [working |-> fresh[t], archive |-> Archive]]
        /\ UNCHANGED outdated
     \/ /\ \/ lists' = [lists EXCEPT ![t].working = fresh[t]]
           \/ lists' = [lists EXCEPT ![t].archive = Archive]
           \/ UNCHANGED lists
        /\ Outdate({t})
  /\ refresh' = [refresh EXCEPT ![t] = "no"]
  /\ fresh' = [fresh EXCEPT ![t] = {}]
  /\ UNCHANGED <<file, checklist, control, promoted>>

\* getChecklistAction, when a file was accepted; refused, it leaves the list.
RefreshChecklist(t) ==
  /\ checklist[t] # NULL
  /\ \E i \in ChecklistItem : control[<<t, i>>].status = "active"
  /\ checklist' = [checklist EXCEPT ![t] = Fulfilled]
  /\ UNCHANGED <<file, lists, refresh, fresh, control, promoted, outdated>>

-----------------------------------------------------------------------------
(***************************************************************************)
(* An upload.                                                              *)
(***************************************************************************)
Busy(c) == control[c].status \in {"uploading", "completing"}

\* What the user of a control is told last, when its handler ends.
Tell(c, status) == control' = [control EXCEPT ![c].status = status, ![c].live = FALSE]

PickFile(c) ==
  /\ ~Busy(c)
  /\ \/ c[1] \in ChecklistTab /\ checklist[c[1]] # NULL /\ c[2] \notin checklist[c[1]]
     \/ c[1] \in OfficeTab /\ lists[c[1]] # NULL
  /\ control' = [control EXCEPT ![c] = [status |-> "uploading", doc |-> NULL, live |-> TRUE]]
  /\ UNCHANGED <<file, checklist, lists, refresh, fresh, promoted, outdated>>

requestUploadUrl(c, d) ==
  /\ control[c].live
  /\ control[c].status = "uploading"
  /\ control[c].doc = NULL
  /\ file[d].state = "none"
  /\ file' = [file EXCEPT ![d] = [item |-> c[2], state |-> "pending", deleted |-> FALSE]]
  /\ control' = [control EXCEPT ![c].doc = d]
  /\ Outdate(OfficeTab)
  /\ UNCHANGED <<checklist, lists, refresh, fresh, promoted>>

PutFile(c) ==
  /\ control[c].live
  /\ control[c].status = "uploading"
  /\ control[c].doc # NULL
  /\ control' = [control EXCEPT ![c].status = "completing"]
  /\ UNCHANGED <<file, checklist, lists, refresh, fresh, promoted, outdated>>

(***************************************************************************)
(* Any of the calls may be refused or fail.  An action that throws leaves  *)
(* the portal's control as it is, for ever: only the PUT is in a try.      *)
(***************************************************************************)
UploadFails(c) ==
  /\ control[c].live
  /\ \/ Tell(c, "error")
     \/ c[1] \in ChecklistTab /\ Tell(c, control[c].status)
  /\ UNCHANGED <<file, checklist, lists, refresh, fresh, promoted, outdated>>

\* Mutant: a file that is still being scanned is reported as accepted.
TellPendingAsActive(c, verdict) == IF verdict = "pending" THEN Tell(c, "active")
                                   ELSE Tell(c, verdict)

\* The outcome of completeUpload, as the control shows it.
TellOutcome(c, verdict) == IF verdict = "pending" THEN Tell(c, "error")
                           ELSE Tell(c, verdict)

(***************************************************************************)
(* completeUploadAction.  Behind the promotion it tells the accountant and *)
(* looks whether onboarding is complete; what goes wrong there makes the   *)
(* action fail though the file is accepted.                                *)
(***************************************************************************)
completeUploadAction(c) ==
  /\ control[c].live
  /\ control[c].status = "completing"
  /\ LET d == control[c].doc
     IN  \E verdict \in {"active", "infected", "pending"} :
           /\ file' = [file EXCEPT ![d].state = verdict]
           /\ promoted' = IF verdict = "active" THEN promoted \cup {d} ELSE promoted
           /\ \/ TellOutcome(c, verdict)
              \/ verdict = "active" /\ Tell(c, "error")
  /\ refresh' = IF c[1] \in OfficeTab /\ control'[c].status = "active"
                THEN [refresh EXCEPT ![c[1]] = "both"] ELSE refresh
  /\ Outdate(OfficeTab)
  /\ UNCHANGED <<checklist, lists, fresh>>

-----------------------------------------------------------------------------
(***************************************************************************)
(* Deleting and recovering, from a row of the page of the office.  The     *)
(* actions of a tab wait for its refresh.                                  *)
(***************************************************************************)
SetDeleted(t, d, b) ==
  /\ file' = [file EXCEPT ![d].deleted = b]
  /\ refresh' = [refresh EXCEPT ![t] = "both"]
  /\ Outdate(OfficeTab)
  /\ UNCHANGED <<checklist, lists, fresh, control, promoted>>

\* The buttons are there for an active document.
deleteDocumentAction(t, d) ==
  /\ lists[t] # NULL
  /\ refresh[t] = "no"
  /\ d \in lists[t].working
  /\ file[d].state = "active"
  /\ ~file[d].deleted
  /\ SetDeleted(t, d, TRUE)

recoverDocumentAction(t, d) ==
  /\ lists[t] # NULL
  /\ refresh[t] = "no"
  /\ d \in lists[t].archive
  /\ file[d].deleted
  /\ SetDeleted(t, d, FALSE)

\* An accountant deletes or recovers a document from elsewhere.
ElsewhereDeleted(d) ==
  /\ file[d].state = "active"
  /\ file' = [file EXCEPT ![d].deleted = ~@]
  /\ Outdate(OfficeTab)
  /\ UNCHANGED <<checklist, lists, refresh, fresh, control, promoted>>

DocumentPagesNext ==
  \/ \E t \in ChecklistTab : OpenChecklist(t) \/ RefreshChecklist(t)
  \/ \E t \in OfficeTab :
       \/ OpenDocumentsPage(t)
       \/ RefreshWorking(t)
       \/ RefreshArchive(t)
       \/ \E d \in Paper : deleteDocumentAction(t, d) \/ recoverDocumentAction(t, d)
  \/ \E d \in Paper : ElsewhereDeleted(d)
  \/ \E c \in Control :
       \/ PickFile(c)
       \/ \E d \in Paper : requestUploadUrl(c, d)
       \/ PutFile(c)
       \/ UploadFails(c)
       \/ completeUploadAction(c)

-----------------------------------------------------------------------------
(***************************************************************************)
(* Properties.                                                             *)
(***************************************************************************)

\* The variables keep their types.
DocumentPagesTypeOK ==
  /\ file \in [Paper -> [item : ChecklistItem \cup {NULL},
                         state : {"none", "pending", "active", "infected"},
                         deleted : BOOLEAN]]
  /\ checklist \in [ChecklistTab -> (SUBSET ChecklistItem) \cup {NULL}]
  /\ lists \in [OfficeTab -> [working : SUBSET Paper, archive : SUBSET Paper] \cup {NULL}]
  /\ refresh \in [OfficeTab -> {"no", "both", "archive"}]
  /\ fresh \in [OfficeTab -> SUBSET Paper]
  /\ control \in [Control -> [status : {"idle", "uploading", "completing", "active",
                                        "infected", "error"},
                              doc : Paper \cup {NULL}, live : BOOLEAN]]
  /\ promoted \subseteq Paper
  /\ outdated \subseteq OfficeTab

(***************************************************************************)
(* What the user of an upload control was told is so: a file that was      *)
(* accepted has been promoted, one that was blocked never is, and an item  *)
(* is shown as provided only if a document of its own was accepted         *)
(* (DocumentUploadStep.tsx, UploadControl.tsx).                            *)
(***************************************************************************)
ToldAsStored ==
  /\ \A c \in Control :
       /\ control[c].status = "active" => control[c].doc \in promoted
       /\ control[c].status = "infected" => control[c].doc \notin promoted
  /\ \A t \in ChecklistTab : checklist[t] # NULL =>
       \A i \in checklist[t] : \E d \in promoted : file[d].item = i

(***************************************************************************)
(* The page of the office shows every document in the list it belongs to,  *)
(* unless something was written since the lists were read, or a read       *)
(* failed (DocumentsClientPage.tsx, refreshAll).                           *)
(***************************************************************************)
ListsShowRowsUnlessOutdated ==
  \A t \in OfficeTab :
    lists[t] # NULL /\ refresh[t] = "no" /\ t \notin outdated =>
      lists[t] = [working |-> Working, archive |-> Archive]
=============================================================================
