------------------------------- MODULE Messages -------------------------------
(***************************************************************************)
(* Sending into one thread (packages/db/src/repositories/message.ts,       *)
(* notification.ts, message-attachment.ts and the message actions of both  *)
(* applications): a member appends a message, the other party is notified, *)
(* and files are attached to the message by further calls.                 *)
(*                                                                         *)
(* Threads share nothing, so one is enough.  No handler looks at its       *)
(* status: an archived thread takes messages like an active one, and the   *)
(* status is left out.  Who opens and archives threads is in               *)
(* EngagementLifecycle, who reads them in ThreadRead.                      *)
(***************************************************************************)
EXTENDS Naturals, Sequences, FiniteSets, Null

CONSTANTS
  ClientMember,  \* the client and the participants of the engagement
  Accountant,
  SendProc,      \* invocations of a send action
  SendFaulty,    \* those that may die, or a statement of which may fail
  Attachment,    \* MessageAttachment ids
  MaxMessages    \* bound on the messages appended

ASSUME MessagesAssumption ==
  /\ ClientMember \cap Accountant = {}
  /\ "ACCOUNTANT" \notin ClientMember
  /\ SendFaulty \subseteq SendProc
  /\ MaxMessages \in Nat

VARIABLES
  messages,    \* the sender of each message, in the order of createdAt
  notices,     \* 'new_message' rows: the recipient and the message
  send,        \* what a send invocation has still to do, NULL when idle
  unsent,      \* messages whose sender was told that sending failed
  attachment,  \* MessageAttachment.status
  content,     \* what was put under the key of an attachment
  minted       \* attachments for which a download URL was signed

sendVars == <<messages, notices, send, unsent>>
attachmentVars == <<attachment, content, minted>>
messagesVars == <<sendVars, attachmentVars>>

Recipient == ClientMember \cup {"ACCOUNTANT"}

Content == {"valid", "invalid", "malware"}

MessagesInit ==
  /\ messages = <<>>
  /\ notices = {}
  /\ send = [p \in SendProc |-> NULL]
  /\ unsent = {}
  /\ attachment = [a \in Attachment |-> "none"]
  /\ content = [a \in Attachment |-> "none"]
  /\ minted = {}

-----------------------------------------------------------------------------
(***************************************************************************)
(* Sending.                                                                *)
(***************************************************************************)

\* appendMessage: one INSERT, whatever the status of the thread.
appendMessage(p, v) ==
  /\ send[p] = NULL
  /\ Len(messages) < MaxMessages
  /\ messages' = Append(messages, v)
  /\ send' = [send EXCEPT ![p] = [message |-> Len(messages'), step |-> "resolve", to |-> {}]]
  /\ UNCHANGED <<notices, unsent, attachmentVars>>

\* Mutant: the sender is not looked for among the recipients.
recipientsOfAnyone(v) == ClientMember

(***************************************************************************)
(* A sender found among the clients of the thread is a client, and then    *)
(* one notice goes to the accountants; otherwise every client gets one.    *)
(***************************************************************************)
recipientsOf(v) == IF v \in ClientMember THEN {"ACCOUNTANT"} ELSE ClientMember

ResolveRecipients(p) ==
  /\ send[p] # NULL
  /\ send[p].step = "resolve"
  /\ send' = [send EXCEPT ![p].step = "emit",
                          ![p].to = recipientsOf(messages[send[p].message])]
  /\ UNCHANGED <<messages, notices, unsent, attachmentVars>>

\* Mutant: the first notice ends the handler.
EmitOnlyOne(p) ==
  /\ send[p] # NULL
  /\ send[p].step = "emit"
  /\ \E u \in send[p].to :
       /\ send' = [send EXCEPT ![p].to = {}]
       /\ \/ notices' = notices \cup {[to |-> u, message |-> send[p].message]}
          \/ p \in SendFaulty /\ UNCHANGED notices
  /\ UNCHANGED <<messages, unsent, attachmentVars>>

(***************************************************************************)
(* Promise.allSettled: the notices are emitted in any order; one that      *)
(* fails is logged and the others go on.                                   *)
(***************************************************************************)
EmitNotice(p) ==
  /\ send[p] # NULL
  /\ send[p].step = "emit"
  /\ \E u \in send[p].to :
       /\ send' = [send EXCEPT ![p].to = @ \ {u}]
       /\ \/ notices' = notices \cup {[to |-> u, message |-> send[p].message]}
          \/ p \in SendFaulty /\ UNCHANGED notices
  /\ UNCHANGED <<messages, unsent, attachmentVars>>

FinishSend(p) ==
  /\ send[p] # NULL
  /\ send[p].step = "emit"
  /\ send[p].to = {}
  /\ send' = [send EXCEPT ![p] = NULL]
  /\ UNCHANGED <<messages, notices, unsent, attachmentVars>>

(***************************************************************************)
(* The handler dies, or a query for the recipients throws.  Those queries  *)
(* are not guarded: the action reports a message that is in the thread as  *)
(* not sent.                                                               *)
(***************************************************************************)
SendFail(p) ==
  /\ p \in SendFaulty
  /\ send[p] # NULL
  /\ send' = [send EXCEPT ![p] = NULL]
  /\ unsent' = unsent \cup {send[p].message}
  /\ UNCHANGED <<messages, notices, attachmentVars>>

-----------------------------------------------------------------------------
(***************************************************************************)
(* Attachments.  storeAndScanAttachment stores the bytes itself: there is  *)
(* no URL to upload to.  A handler that dies, a verdict that is neither    *)
(* clean nor infected, and bytes that are clean but not of their declared  *)
(* type leave the attachment pending: nothing scans it again.              *)
(***************************************************************************)

\* The row, with its key set by a second statement.
InsertAttachment(a) ==
  /\ messages # <<>>
  /\ attachment[a] = "none"
  /\ attachment' = [attachment EXCEPT ![a] = "pending"]
  /\ UNCHANGED <<sendVars, content, minted>>

PutAttachment(a) ==
  /\ attachment[a] = "pending"
  /\ content[a] = "none"
  /\ \E c \in Content : content' = [content EXCEPT ![a] = c]
  /\ UNCHANGED <<sendVars, attachment, minted>>

\* Mutant: the status is the word of the scanner.
VerdictVerbatim(c) ==
  CASE c = "valid"   -> {"clean"}
    [] c = "malware" -> {"infected"}
    [] OTHER         -> {}

VerdictOn(c) ==
  CASE c = "valid"   -> {"active"}
    [] c = "malware" -> {"infected"}
    [] OTHER         -> {}

PromoteAttachment(a) ==
  /\ attachment[a] = "pending"
  /\ content[a] # "none"
  /\ \E s \in VerdictOn(content[a]) : attachment' = [attachment EXCEPT ![a] = s]
  /\ UNCHANGED <<sendVars, content, minted>>

authorizeThenSignAttachment(a) ==
  /\ attachment[a] = "active"
  /\ minted' = minted \cup {a}
  /\ UNCHANGED <<sendVars, attachment, content>>

-----------------------------------------------------------------------------
SendContinue(p) == ResolveRecipients(p) \/ EmitNotice(p) \/ FinishSend(p)

Attach(a) ==
  \/ InsertAttachment(a)
  \/ PutAttachment(a)
  \/ PromoteAttachment(a)
  \/ authorizeThenSignAttachment(a)

MessagesNext ==
  \/ \E p \in SendProc :
       \/ \E v \in ClientMember \cup Accountant : appendMessage(p, v)
       \/ SendContinue(p)
       \/ SendFail(p)
  \/ \E a \in Attachment : Attach(a)

MessagesSpec == MessagesInit /\ [][MessagesNext]_messagesVars

\* An invocation that cannot fail goes on: Node runs it to its end.
MessagesFairness == \A p \in SendProc \ SendFaulty : WF_messagesVars(SendContinue(p))

-----------------------------------------------------------------------------
(***************************************************************************)
(* Properties.                                                             *)
(***************************************************************************)

\* Every variable of a thread keeps its type.
MessagesTypeOK ==
  /\ messages \in Seq(ClientMember \cup Accountant)
  /\ notices \subseteq [to : Recipient, message : 1 .. MaxMessages]
  /\ send \in [SendProc -> [message : 1 .. MaxMessages, step : {"resolve", "emit"},
                            to : SUBSET Recipient] \cup {NULL}]
  /\ unsent \subseteq 1 .. MaxMessages
  /\ attachment \in [Attachment -> {"none", "pending", "active", "infected"}]
  /\ content \in [Attachment -> Content \cup {"none"}]
  /\ minted \subseteq Attachment

(***************************************************************************)
(* A notice crosses from one party to the other: a client's message is     *)
(* announced to the accountants only, an accountant's to clients only, and *)
(* nobody is notified of a message of his own or of one that is not there. *)
(***************************************************************************)
NoticeCrossesParties ==
  \A n \in notices :
    /\ n.message <= Len(messages)
    /\ (n.to = "ACCOUNTANT") <=> (messages[n.message] \in ClientMember)

(***************************************************************************)
(* Only bytes that are clean and of their declared type are ever offered,  *)
(* and an attachment that is offered stays as it was scanned.              *)
(***************************************************************************)
OfferedBytesScanned ==
  \A a \in minted : attachment[a] = "active" /\ content[a] = "valid"

\* What leaves a thread, a notice or a file, goes only to whom and as what it may.
ThreadConfined ==
  /\ NoticeCrossesParties
  /\ OfferedBytesScanned

(***************************************************************************)
(* A message whose handler survives is announced to every member of the    *)
(* other party, whatever other handlers do at the same time.               *)
(***************************************************************************)
OtherPartyTold ==
  \A p \in SendProc \ SendFaulty, i \in 1 .. MaxMessages :
    send[p] # NULL /\ send[p].message = i
      ~> i <= Len(messages) /\ \A u \in recipientsOf(messages[i]) :
                                 [to |-> u, message |-> i] \in notices
=============================================================================
