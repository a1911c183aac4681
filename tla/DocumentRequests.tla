--------------------------- MODULE DocumentRequests ---------------------------
(***************************************************************************)
(* The page on which an accountant asks a client for documents             *)
(* (apps/admin/src/app/engagements/[engagementId]/document-requests:       *)
(* page.tsx, DocumentRequestEditor.tsx and actions.ts), and the repository *)
(* document-request.ts.                                                    *)
(*                                                                         *)
(* The page brings the requests of the engagement once; from then on the   *)
(* editor keeps a list of its own, to which it adds what it has created.   *)
(* A request is inserted, and its client is notified of it by a second     *)
(* statement whose failure is swallowed.                                   *)
(*                                                                         *)
(* A request without a due date is never overdue: the number of days that  *)
(* would take its place (defaultRequestDueDays) is seeded NULL and has no  *)
(* setter.  Uploads are in Onboarding.tla and Documents.tla; here a        *)
(* request comes to be fulfilled, or no longer is, at any time.            *)
(***************************************************************************)
EXTENDS Naturals, Null

CONSTANTS
  Wanted,       \* DocumentRequest ids
  WantedTab,    \* tabs with the page
  WantedFaulty, \* those whose calls may throw, or be refused
  MaxDay        \* bound on the days that pass

ASSUME DocumentRequestsAssumption ==
  /\ WantedFaulty \subseteq WantedTab
  /\ MaxDay \in Nat
  /\ NULL \notin Wanted \cup Nat

VARIABLES
  wanted,      \* the DocumentRequest rows, [due, fulfilled], NULL before the INSERT
  today,
  hasLogin,    \* does the engagement have a clientUserId yet?
  announced,   \* requests that the client was notified of
  unheard,     \* history: requests whose notice was skipped or failed
  board,       \* a tab's editor, [items, told, last], NULL while it is not open
  adding,      \* a tab's createDocumentRequestAction, [due, step, id], or NULL
  dated        \* history: requests that a tab need not show as they are

documentRequestsVars == <<wanted, today, hasLogin, announced, unheard, board, adding, dated>>

Due == (0 .. MaxDay) \cup {NULL}

\* A row, how the editor shows it, the editor, and a call of its action.
RequestRow == [due : Due, fulfilled : BOOLEAN]
Shown == [due : Due, fulfilled : BOOLEAN, overdue : BOOLEAN]
Board == [items : [Wanted -> Shown \cup {NULL}], told : {"nothing", "added", "error"},
          last : Wanted \cup {NULL}]
Adding == [due : Due, step : {"insert", "notify", "answer"}, id : Wanted \cup {NULL}]

ASSUME NoRowAssumption == NULL \notin RequestRow /\ NULL \notin Shown /\ NULL \notin Adding

DocumentRequestsInit ==
  /\ wanted = [r \in Wanted |-> NULL]
  /\ today = 0
  /\ hasLogin \in BOOLEAN
  /\ announced = {}
  /\ unheard = {}
  /\ board = [t \in WantedTab |-> NULL]
  /\ adding = [t \in WantedTab |-> NULL]
  /\ dated = [t \in WantedTab |-> {}]

-----------------------------------------------------------------------------
\* Days are compared, not times.
computeIsOverdue(row) == ~row.fulfilled /\ row.due # NULL /\ row.due < today

\* What listDocumentRequestsForEngagementAdmin makes of a row.
ItemOf(r) ==
  IF wanted[r] = NULL THEN NULL
  ELSE [due |-> wanted[r].due, fulfilled |-> wanted[r].fulfilled,
        overdue |-> computeIsOverdue(wanted[r])]

\* Every open editor is behind on R.
Age(R) == dated' = [t \in WantedTab |-> IF board[t] = NULL THEN {} ELSE dated[t] \cup R]

LinkClientUser ==
  /\ ~hasLogin
  /\ hasLogin' = TRUE
  /\ UNCHANGED <<wanted, today, announced, unheard, board, adding, dated>>

\* A document is uploaded, or the last one is deleted.
ChangeFulfilment(r) ==
  /\ wanted[r] # NULL
  /\ wanted' = [wanted EXCEPT ![r].fulfilled = ~@]
  /\ Age({r})
  /\ UNCHANGED <<today, hasLogin, announced, unheard, board, adding>>

NextDay ==
  /\ today < MaxDay
  /\ today' = today + 1
  /\ Age({r \in Wanted : wanted[r] # NULL /\ wanted[r].due = today})
  /\ UNCHANGED <<wanted, hasLogin, announced, unheard, board, adding>>

-----------------------------------------------------------------------------
(***************************************************************************)
(* The page.  Its tab is not reloaded while a call is under way: that is   *)
(* another tab, and the first one closed.                                  *)
(***************************************************************************)
DocumentRequestsPage(t) ==
  /\ adding[t] = NULL
  /\ board' = [board EXCEPT ![t] =
                [items |-> [r \in Wanted |-> ItemOf(r)], told |-> "nothing", last |-> NULL]]
  /\ dated' = [dated EXCEPT ![t] = {}]
  /\ UNCHANGED <<wanted, today, hasLogin, announced, unheard, adding>>

CloseEditor(t) ==
  /\ board[t] # NULL
  /\ board' = [board EXCEPT ![t] = NULL]
  /\ dated' = [dated EXCEPT ![t] = {}]
  /\ UNCHANGED <<wanted, today, hasLogin, announced, unheard, adding>>

\* A label that is empty or too long is refused on the spot; any date may be chosen.
handleAdd(t) ==
  /\ board[t] # NULL
  /\ adding[t] = NULL
  /\ \/ /\ board' = [board EXCEPT ![t].told = "error", ![t].last = NULL]
        /\ UNCHANGED adding
     \/ \E d \in Due :
          /\ board' = [board EXCEPT ![t].told = "nothing", ![t].last = NULL]
          /\ adding' = [adding EXCEPT ![t] = [due |-> d, step |-> "insert", id |-> NULL]]
  /\ UNCHANGED <<wanted, today, hasLogin, announced, unheard, dated>>

\* The result is added to the list: "newly created - cannot be overdue immediately".
ShowAdded(t) ==
  /\ adding[t] # NULL
  /\ adding[t].step = "answer"
  /\ adding' = [adding EXCEPT ![t] = NULL]
  /\ LET r == adding[t].id
         d == adding[t].due
     IN  IF board[t] = NULL THEN UNCHANGED <<board, dated>>
         ELSE IF r = NULL
         THEN board' = [board EXCEPT ![t].told = "error"] /\ UNCHANGED dated
         ELSE /\ board' = [board EXCEPT ![t].told = "added", ![t].items[r] =
                            [due |-> d, fulfilled |-> FALSE, overdue |-> FALSE]]
              /\ dated' = IF d # NULL /\ d < today THEN [dated EXCEPT ![t] = @ \cup {r}]
                          ELSE dated
  /\ UNCHANGED <<wanted, today, hasLogin, announced, unheard>>

-----------------------------------------------------------------------------
(***************************************************************************)
(* The action.                                                             *)
(***************************************************************************)

\* The INSERT, unless the session has lapsed.  Others do not see the request.
createDocumentRequestAction(t) ==
  /\ adding[t] # NULL
  /\ adding[t].step = "insert"
  /\ \/ \E r \in Wanted :
          /\ wanted[r] = NULL
          /\ wanted' = [wanted EXCEPT ![r] = [due |-> adding[t].due, fulfilled |-> FALSE]]
          /\ adding' = [adding EXCEPT ![t].step = "notify", ![t].id = r]
          /\ board' = IF board[t] = NULL THEN board ELSE [board EXCEPT ![t].last = r]
          /\ dated' = [u \in WantedTab |->
                         IF u = t \/ board[u] = NULL THEN dated[u] ELSE dated[u] \cup {r}]
     \/ /\ t \in WantedFaulty
        /\ adding' = [adding EXCEPT ![t].step = "answer"]
        /\ UNCHANGED <<wanted, board, dated>>
  /\ UNCHANGED <<today, hasLogin, announced, unheard>>

\* Mutant: a notice that cannot be written makes the action fail.
FailUnlessNotified(t) ==
  /\ adding[t] # NULL
  /\ adding[t].step = "notify"
  /\ \/ /\ hasLogin
        /\ announced' = announced \cup {adding[t].id}
        /\ adding' = [adding EXCEPT ![t].step = "answer"]
        /\ UNCHANGED unheard
     \/ /\ ~hasLogin \/ t \in WantedFaulty
        /\ unheard' = unheard \cup {adding[t].id}
        /\ adding' = [adding EXCEPT ![t].step = "answer", ![t].id = NULL]
        /\ UNCHANGED announced
  /\ UNCHANGED <<wanted, today, hasLogin, board, dated>>

\* The client is looked up and notified; without a client, or on failure, no matter.
NotifyOfRequest(t) ==
  /\ adding[t] # NULL
  /\ adding[t].step = "notify"
  /\ \/ /\ hasLogin
        /\ announced' = announced \cup {adding[t].id}
        /\ UNCHANGED unheard
     \/ /\ ~hasLogin \/ t \in WantedFaulty
        /\ unheard' = unheard \cup {adding[t].id}
        /\ UNCHANGED announced
  /\ adding' = [adding EXCEPT ![t].step = "answer"]
  /\ UNCHANGED <<wanted, today, hasLogin, board, dated>>

\* The action throws or dies, or its answer is lost: nobody catches it, and the page is gone.
AddingFails(t) ==
  /\ t \in WantedFaulty
  /\ adding[t] # NULL
  /\ adding' = [adding EXCEPT ![t] = NULL]
  /\ board' = [board EXCEPT ![t] = NULL]
  /\ dated' = [dated EXCEPT ![t] = {}]
  /\ unheard' = IF adding[t].step = "notify" THEN unheard \cup {adding[t].id} ELSE unheard
  /\ UNCHANGED <<wanted, today, hasLogin, announced>>

DocumentRequestsNext ==
  \/ LinkClientUser
  \/ \E r \in Wanted : ChangeFulfilment(r)
  \/ NextDay
  \/ \E t \in WantedTab :
       \/ DocumentRequestsPage(t)
       \/ CloseEditor(t)
       \/ handleAdd(t)
       \/ createDocumentRequestAction(t)
       \/ NotifyOfRequest(t)
       \/ ShowAdded(t)
       \/ AddingFails(t)

-----------------------------------------------------------------------------
(***************************************************************************)
(* Properties.                                                             *)
(***************************************************************************)

\* The variables keep their types.
DocumentRequestsTypeOK ==
  /\ wanted \in [Wanted -> RequestRow \cup {NULL}]
  /\ today \in 0 .. MaxDay
  /\ hasLogin \in BOOLEAN
  /\ announced \subseteq Wanted
  /\ unheard \subseteq Wanted
  /\ board \in [WantedTab -> Board \cup {NULL}]
  /\ adding \in [WantedTab -> Adding \cup {NULL}]
  /\ dated \in [WantedTab -> SUBSET Wanted]

\* Is t still to be answered that r was added?
UnderWay(t, r) == adding[t] # NULL /\ adding[t].id = r

(***************************************************************************)
(* The editor lists no request that is not stored, and shows each with its *)
(* due date, as fulfilled or not and as overdue or not (AC-FILE-012-02).   *)
(* The exceptions are what happened to a request since the page was        *)
(* brought, and a request that was past its date when it was added.        *)
(***************************************************************************)
EditorShowsRequests ==
  \A t \in WantedTab : board[t] # NULL => \A r \in Wanted :
    LET item == board[t].items[r]
    IN  /\ item # NULL => wanted[r] # NULL /\ item.due = wanted[r].due
        /\ r \in dated[t] \/ UnderWay(t, r) \/ item = ItemOf(r)

(***************************************************************************)
(* An accountant who reads that a request was added finds it in the list,  *)
(* one who reads an error has added nothing, and the client was notified   *)
(* of every request (AC-MSG-014-02), but for those whose notice was        *)
(* skipped, for want of a login, or failed.                                *)
(***************************************************************************)
AddedAsTold ==
  /\ \A t \in WantedTab : board[t] # NULL =>
       /\ board[t].told = "added" => board[t].last # NULL /\ board[t].items[board[t].last] # NULL
       /\ board[t].told = "error" => board[t].last = NULL
  /\ \A r \in Wanted : wanted[r] # NULL =>
       r \in announced \/ r \in unheard \/ \E t \in WantedTab : UnderWay(t, r)
=============================================================================
