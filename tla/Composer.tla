------------------------------ MODULE Composer ------------------------------
(***************************************************************************)
(* The composer below a thread (MessageComposer.tsx and, for a direct      *)
(* thread, GeneralMessageComposer.tsx), which sends a message and then the *)
(* file that goes with it, and the two actions it calls (the actions.ts of *)
(* the messages pages).  The form is the same on all four pages, the       *)
(* actions differ in what they make sure of first.  Messages.tla has what  *)
(* a send does to notices; this module has what its writer is told, and    *)
(* what becomes of the thread when the writer tries again.                 *)
(*                                                                         *)
(* One writer is enough: nobody else touches what a writer composes.  A    *)
(* page that is loaded anew forgets the composer, but the actions that the *)
(* earlier page called go on.  The writer types a draft again unless told  *)
(* that it was sent.                                                       *)
(***************************************************************************)
EXTENDS Naturals, FiniteSets, Null

CONSTANTS
  Draft,      \* what the writer has to say
  MaxSends    \* bound on the calls of sendMessageAction

ASSUME ComposerAssumption == MaxSends \in Nat /\ NULL \notin Nat

Try == 1 .. MaxSends

\* The page of an engagement's thread and that of a direct one, in each application.
ClientSurface == {"client, engagement", "client, direct"}
OfficeSurface == {"office, engagement", "office, direct"}
Surface == ClientSurface \cup OfficeSurface

VARIABLES
  surface,    \* the page the writer is on, the same throughout
  composer,   \* the form: NULL while the page is not open
  try,        \* the calls, each with the draft it carries and its next step
  thread,     \* tries whose Message row is in the thread
  filed,      \* tries whose MessageAttachment row is there, with its status
  told        \* history: tries whose writer was told of a success, or a failure

composerVars == <<surface, composer, try, thread, filed, told>>

\* The form, with the call it waits for, and a call.
Form == [draft : Draft \cup {NULL}, file : BOOLEAN, waits : Try \cup {NULL}]
TryRow == [draft : Draft,
           step : {"resolve", "insert", "tell", "verify", "store", "answer failure",
                   "answer success", "answer file", "answer no file", "over"}]

ASSUME NoTryAssumption == NULL \notin Form /\ NULL \notin TryRow

Empty == [draft |-> NULL, file |-> FALSE, waits |-> NULL]

\* Calls are numbered in their order; a call not made yet is NULL.
Unused == {i \in Try : try[i] = NULL}
At(i, step) == try[i] # NULL /\ try[i].step = step

ComposerInit ==
  /\ surface \in Surface
  /\ composer = NULL
  /\ try = [i \in Try |-> NULL]
  /\ thread = {}
  /\ filed = [i \in {} |-> "pending"]
  /\ told = [sent |-> {}, failed |-> {}]

-----------------------------------------------------------------------------
(***************************************************************************)
(* The page and its form.                                                  *)
(***************************************************************************)

\* When the thread or its messages cannot be loaded, there is no composer.
OpenMessagesPage ==
  /\ surface \in {"client, engagement", "office, engagement"}
  /\ composer' \in {NULL, Empty}
  /\ UNCHANGED <<surface, try, thread, filed, told>>

\* Nor when there is no thread of that id, or none for this reader.
OpenDirectThreadPage ==
  /\ surface \in {"client, direct", "office, direct"}
  /\ composer' \in {NULL, Empty}
  /\ UNCHANGED <<surface, try, thread, filed, told>>

WriteDraft(d, withFile) ==
  /\ composer = Empty
  /\ \A i \in told.sent : try[i].draft # d
  /\ composer' = [composer EXCEPT !.draft = d, !.file = withFile]
  /\ UNCHANGED <<surface, try, thread, filed, told>>

\* For a direct thread the office has nothing to look up.
FirstStep == IF surface = "office, direct" THEN "insert" ELSE "resolve"

\* Body, file and button are disabled from here to the answer.
handleSubmitMessage ==
  /\ composer # NULL
  /\ composer.draft # NULL
  /\ composer.waits = NULL
  /\ \E i \in Unused :
       /\ \A j \in Unused : i <= j
       /\ try' = [try EXCEPT ![i] = [draft |-> composer.draft, step |-> FirstStep]]
       /\ composer' = [composer EXCEPT !.waits = i]
  /\ UNCHANGED <<surface, thread, filed, told>>

-----------------------------------------------------------------------------
(***************************************************************************)
(* sendMessageAction.  What is thrown before its try block rejects the     *)
(* call; what appendMessage throws is answered with a failure, also when   *)
(* it is thrown after the INSERT.                                          *)
(***************************************************************************)

\* A client reads the thread of the engagement, through the policies; there may be none.
ResolveThread(i) ==
  /\ surface = "client, engagement"
  /\ At(i, "resolve")
  /\ \E s \in {"insert", "answer failure"} : try' = [try EXCEPT ![i].step = s]
  /\ UNCHANGED <<surface, composer, thread, filed, told>>

getThreadById(i) ==
  /\ surface = "client, direct"
  /\ At(i, "resolve")
  /\ \E s \in {"insert", "answer failure"} : try' = [try EXCEPT ![i].step = s]
  /\ UNCHANGED <<surface, composer, thread, filed, told>>

\* The office creates the thread where there is none; what this throws is answered.
getOrCreateEngagementThread(i) ==
  /\ surface = "office, engagement"
  /\ At(i, "resolve")
  /\ \E s \in {"insert", "answer failure"} : try' = [try EXCEPT ![i].step = s]
  /\ UNCHANGED <<surface, composer, thread, filed, told>>

InsertMessage(i) ==
  /\ At(i, "insert")
  /\ \/ /\ thread' = thread \cup {i}
        /\ try' = [try EXCEPT ![i].step = "tell"]
     \/ /\ try' = [try EXCEPT ![i].step = "answer failure"]
        /\ UNCHANGED thread
  /\ UNCHANGED <<surface, composer, filed, told>>

TellParticipants(i) ==
  /\ At(i, "tell")
  /\ \E a \in {"answer success", "answer failure"} : try' = [try EXCEPT ![i].step = a]
  /\ UNCHANGED <<surface, composer, thread, filed, told>>

-----------------------------------------------------------------------------
(***************************************************************************)
(* attachMessageAction, for the message that was sent just now.  Clients   *)
(* may attach only to a message that they find in the thread; the office   *)
(* is not asked which thread the message is in.                            *)
(***************************************************************************)
FirstOfFile == IF surface \in ClientSurface THEN "verify" ELSE "store"

verifyMessageInThread(i) ==
  /\ At(i, "verify")
  /\ try' = [try EXCEPT ![i].step = IF i \in thread THEN "store" ELSE "answer no file"]
  /\ UNCHANGED <<surface, composer, thread, filed, told>>

\* Too large a file fails before its row is there; storing or scanning it, after.
storeAttachment(i) ==
  /\ At(i, "store")
  /\ \/ \E s \in {"pending", "active", "infected"} :
          /\ filed' = [j \in DOMAIN filed \cup {i} |-> IF j = i THEN s ELSE filed[j]]
          /\ \/ try' = [try EXCEPT ![i].step = "answer file"]
             \/ s = "pending" /\ try' = [try EXCEPT ![i].step = "answer no file"]
     \/ /\ try' = [try EXCEPT ![i].step = "answer no file"]
        /\ UNCHANGED filed
  /\ UNCHANGED <<surface, composer, thread, told>>

-----------------------------------------------------------------------------
(***************************************************************************)
(* The answers.  Nobody hears them on a page that was loaded since.        *)
(***************************************************************************)
Heard(i) == composer # NULL /\ composer.waits = i

\* The draft stays in the form, to be submitted again.
AnswerFailure(i) ==
  /\ At(i, "answer failure")
  /\ try' = [try EXCEPT ![i].step = "over"]
  /\ IF Heard(i)
     THEN /\ composer' = [composer EXCEPT !.waits = NULL]
          /\ told' = [told EXCEPT !.failed = @ \cup {i}]
     ELSE UNCHANGED <<composer, told>>
  /\ UNCHANGED <<surface, thread, filed>>

AnswerSuccess(i) ==
  /\ At(i, "answer success")
  /\ IF Heard(i)
     THEN /\ told' = [told EXCEPT !.sent = @ \cup {i}]
          /\ IF composer.file
             THEN /\ try' = [try EXCEPT ![i].step = FirstOfFile]
                  /\ UNCHANGED composer
             ELSE /\ try' = [try EXCEPT ![i].step = "over"]
                  /\ composer' = Empty
     ELSE /\ try' = [try EXCEPT ![i].step = "over"]
          /\ UNCHANGED <<composer, told>>
  /\ UNCHANGED <<surface, thread, filed>>

\* Mutant: the draft stays in the form also when only its file has failed.
KeepDraftWithoutFile(i) ==
  /\ At(i, "answer file") \/ At(i, "answer no file")
  /\ try' = [try EXCEPT ![i].step = "over"]
  /\ composer' = IF ~Heard(i) THEN composer
                 ELSE IF At(i, "answer file") THEN Empty
                 ELSE [composer EXCEPT !.waits = NULL]
  /\ UNCHANGED <<surface, thread, filed, told>>

\* With or without its file the message was sent: the form is cleared.
AnswerFile(i) ==
  /\ At(i, "answer file") \/ At(i, "answer no file")
  /\ try' = [try EXCEPT ![i].step = "over"]
  /\ composer' = IF Heard(i) THEN Empty ELSE composer
  /\ UNCHANGED <<surface, thread, filed, told>>

\* A call is rejected, or its answer lost: the form stays disabled until the next page.
Reject(i) ==
  /\ try[i] # NULL
  /\ try[i].step # "over"
  /\ try' = [try EXCEPT ![i].step = "over"]
  /\ UNCHANGED <<surface, composer, thread, filed, told>>

ComposerNext ==
  \/ OpenMessagesPage
  \/ OpenDirectThreadPage
  \/ \E d \in Draft, withFile \in BOOLEAN : WriteDraft(d, withFile)
  \/ handleSubmitMessage
  \/ \E i \in Try :
       \/ ResolveThread(i)
       \/ getThreadById(i)
       \/ getOrCreateEngagementThread(i)
       \/ InsertMessage(i)
       \/ TellParticipants(i)
       \/ verifyMessageInThread(i)
       \/ storeAttachment(i)
       \/ AnswerFailure(i)
       \/ AnswerSuccess(i)
       \/ AnswerFile(i)
       \/ Reject(i)

-----------------------------------------------------------------------------
\* Every variable of the composer keeps its type.
ComposerTypeOK ==
  /\ surface \in Surface
  /\ composer \in Form \cup {NULL}
  /\ try \in [Try -> TryRow \cup {NULL}]
  /\ thread \subseteq Try
  /\ DOMAIN filed \subseteq Try
  /\ told \in [sent : SUBSET Try, failed : SUBSET Try]

(***************************************************************************)
(* The thread says what its writer was told: a message told to be sent is  *)
(* there and is not sent again, so that a draft is there twice only by a   *)
(* try whose writer was told that it failed, or was told nothing.  Files   *)
(* hang on messages that were told to be sent.                             *)
(***************************************************************************)
SentOnceIfTold ==
  /\ told.sent \subseteq thread
  /\ \A i \in told.sent, j \in Try :
       j > i /\ try[j] # NULL => try[j].draft # try[i].draft
  /\ DOMAIN filed \subseteq told.sent
=============================================================================
