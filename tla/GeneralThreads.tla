---------------------------- MODULE GeneralThreads ----------------------------
(***************************************************************************)
(* Direct threads between the office and a client (apps/admin/src/app/     *)
(* messages: page.tsx, _components/StartGeneralThread.tsx, actions.ts, and *)
(* packages/db/src/repositories: thread.ts, client.ts).  An accountant     *)
(* opens a form, which fetches the clients to choose from, and creates a   *)
(* thread for one of them.  Nothing makes direct threads unique, and the   *)
(* list beside the form is not refreshed: the new thread is on the next    *)
(* page that is loaded.                                                    *)
(*                                                                         *)
(* The form fetches when it is opened and has no clients; that it fetches  *)
(* twice when it is closed and opened meanwhile is left out.               *)
(***************************************************************************)
EXTENDS Naturals, Sequences, FiniteSets, Null

CONSTANTS
  Correspondent,  \* users whose role is CLIENT
  StarterTab,     \* browser tabs of accountants
  MaxCreations    \* bound on the calls of the form's action

ASSUME GeneralThreadsAssumption ==
  /\ MaxCreations \in Nat
  /\ NULL \notin Nat \cup {"created", "refused"}

ThreadCall == 1 .. MaxCreations

\* What a tab shows, and a call: a thread that was created, with its row, and what was told of it.
StarterPage == [expanded : BOOLEAN, fetching : BOOLEAN, offers : SUBSET Correspondent,
                selected : Correspondent \cup {NULL}, waits : ThreadCall \cup {NULL}]
CreationRow == [client : Correspondent, row : 0 .. MaxCreations,
                step : {"validate", "insert", "created", "refused", "over"},
                told : {"created", "refused", NULL}]

ASSUME NoStarterAssumption == NULL \notin StarterPage /\ NULL \notin CreationRow

VARIABLES
  engaged,   \* users who are the client of an engagement
  direct,    \* the client of each Thread row of the kind 'general', oldest first
  starter,   \* what each tab shows, NULL while the page is not open
  creation   \* the calls, NULL when not made yet

generalThreadsVars == <<engaged, direct, starter, creation>>

listClients == engaged

GeneralThreadsInit ==
  /\ engaged = {}
  /\ direct = <<>>
  /\ starter = [t \in StarterTab |-> NULL]
  /\ creation = [i \in ThreadCall |-> NULL]

\* A client joins: an engagement names him as its client.
ClientJoins(c) ==
  /\ engaged' = engaged \cup {c}
  /\ UNCHANGED <<direct, starter, creation>>

-----------------------------------------------------------------------------
(***************************************************************************)
(* The page and the form.                                                  *)
(***************************************************************************)

\* The form is there whether or not the threads of the list could be loaded.
AdminMessagesPage(t) ==
  /\ starter' = [starter EXCEPT ![t] =
       [expanded |-> FALSE, fetching |-> FALSE, offers |-> {}, selected |-> NULL, waits |-> NULL]]
  /\ UNCHANGED <<engaged, direct, creation>>

ExpandForm(t) ==
  /\ starter[t] # NULL
  /\ ~starter[t].expanded
  /\ starter' = [starter EXCEPT ![t].expanded = TRUE, ![t].fetching = @ \/ starter[t].offers = {}]
  /\ UNCHANGED <<engaged, direct, creation>>

listClientsAction(t) ==
  /\ starter[t] # NULL
  /\ starter[t].fetching
  /\ \E offers \in {listClients, {}} :
       starter' = [starter EXCEPT ![t].fetching = FALSE, ![t].offers = offers]
  /\ UNCHANGED <<engaged, direct, creation>>

Enabled(t) ==
  /\ starter[t] # NULL
  /\ starter[t].expanded
  /\ starter[t].waits = NULL
  /\ ~starter[t].fetching

SelectClient(t, c) ==
  /\ Enabled(t)
  /\ c \in starter[t].offers
  /\ starter' = [starter EXCEPT ![t].selected = c]
  /\ UNCHANGED <<engaged, direct, creation>>

\* Also while the call is under way; its answer closes the form again.
CancelForm(t) ==
  /\ starter[t] # NULL
  /\ starter[t].expanded
  /\ starter' = [starter EXCEPT ![t].expanded = FALSE, ![t].selected = NULL]
  /\ UNCHANGED <<engaged, direct, creation>>

handleCreate(t) ==
  /\ Enabled(t)
  /\ starter[t].selected # NULL
  /\ \E i \in ThreadCall :
       /\ creation[i] = NULL
       /\ \A j \in 1 .. i - 1 : creation[j] # NULL
       /\ creation' = [creation EXCEPT ![i] =
            [client |-> starter[t].selected, step |-> "validate", row |-> 0, told |-> NULL]]
       /\ starter' = [starter EXCEPT ![t].waits = i]
  /\ UNCHANGED <<engaged, direct>>

-----------------------------------------------------------------------------
(***************************************************************************)
(* createGeneralThreadForClientAction.                                     *)
(***************************************************************************)
CreationAt(i, step) == creation[i] # NULL /\ creation[i].step = step

ValidateClient(i) ==
  /\ CreationAt(i, "validate")
  /\ \/ /\ creation[i].client \in listClients
        /\ creation' = [creation EXCEPT ![i].step = "insert"]
     \/ creation' = [creation EXCEPT ![i].step = "refused"]
  /\ UNCHANGED <<engaged, direct, starter>>

\* Mutant: something that may fail comes after the INSERT.
RefuseAfterInsert(i) ==
  /\ CreationAt(i, "insert")
  /\ direct' = Append(direct, creation[i].client)
  /\ \/ creation' = [creation EXCEPT ![i].step = "created", ![i].row = Len(direct')]
     \/ creation' = [creation EXCEPT ![i].step = "refused"]
  /\ UNCHANGED <<engaged, starter>>

\* An INSERT that fails is answered.
createGeneralThread(i) ==
  /\ CreationAt(i, "insert")
  /\ \/ /\ direct' = Append(direct, creation[i].client)
        /\ creation' = [creation EXCEPT ![i].step = "created", ![i].row = Len(direct')]
     \/ /\ creation' = [creation EXCEPT ![i].step = "refused"]
        /\ UNCHANGED direct
  /\ UNCHANGED <<engaged, starter>>

\* The tab that waits for the call: none once the page is loaded anew.
Waits(i) == {t \in StarterTab : starter[t] # NULL /\ starter[t].waits = i}

AnswerCreated(i) ==
  /\ CreationAt(i, "created")
  /\ creation' = [creation EXCEPT ![i].step = "over",
                                  ![i].told = IF Waits(i) = {} THEN NULL ELSE "created"]
  /\ starter' = [t \in StarterTab |->
       IF t \in Waits(i)
       THEN [starter[t] EXCEPT !.expanded = FALSE, !.selected = NULL, !.waits = NULL]
       ELSE starter[t]]
  /\ UNCHANGED <<engaged, direct>>

AnswerRefused(i) ==
  /\ CreationAt(i, "refused")
  /\ creation' = [creation EXCEPT ![i].step = "over",
                                  ![i].told = IF Waits(i) = {} THEN NULL ELSE "refused"]
  /\ starter' = [t \in StarterTab |->
       IF t \in Waits(i) THEN [starter[t] EXCEPT !.waits = NULL] ELSE starter[t]]
  /\ UNCHANGED <<engaged, direct>>

\* The call is rejected or its answer lost: the form stays disabled until the next page.
LoseAnswer(i) ==
  /\ creation[i] # NULL
  /\ creation[i].step # "over"
  /\ creation' = [creation EXCEPT ![i].step = "over"]
  /\ UNCHANGED <<engaged, direct, starter>>

GeneralThreadsNext ==
  \/ \E c \in Correspondent : ClientJoins(c)
  \/ \E t \in StarterTab :
       \/ AdminMessagesPage(t)
       \/ ExpandForm(t)
       \/ listClientsAction(t)
       \/ \E c \in Correspondent : SelectClient(t, c)
       \/ CancelForm(t)
       \/ handleCreate(t)
  \/ \E i \in ThreadCall :
       \/ ValidateClient(i)
       \/ createGeneralThread(i)
       \/ AnswerCreated(i)
       \/ AnswerRefused(i)
       \/ LoseAnswer(i)

-----------------------------------------------------------------------------
(***************************************************************************)
(* Properties.                                                             *)
(***************************************************************************)

\* Every variable of the direct threads keeps its type.
GeneralThreadsTypeOK ==
  /\ engaged \subseteq Correspondent
  /\ direct \in Seq(Correspondent)
  /\ Len(direct) <= MaxCreations
  /\ starter \in [StarterTab -> StarterPage \cup {NULL}]
  /\ creation \in [ThreadCall -> CreationRow \cup {NULL}]

CallsFor(c) == {i \in ThreadCall : creation[i] # NULL /\ creation[i].client = c}

(***************************************************************************)
(* What accountants are told of the threads they start is so: a client has *)
(* at least the threads that were told to be created, and at most those    *)
(* and one for each call that was told nothing.  Threads are with clients  *)
(* of an engagement, whom the form offered.  A tab waits for one call at a *)
(* time, and never for one that another tab made (StartGeneralThread.tsx). *)
(***************************************************************************)
ThreadsAsTold ==
  /\ \A c \in Correspondent :
       LET rows == {n \in DOMAIN direct : direct[n] = c}
       IN  /\ Cardinality({i \in CallsFor(c) : creation[i].told = "created"}) <= Cardinality(rows)
           /\ Cardinality(rows) <= Cardinality({i \in CallsFor(c) : creation[i].told # "refused"})
           /\ rows # {} => c \in listClients
  /\ \A i \in ThreadCall : Cardinality(Waits(i)) <= 1
=============================================================================
