----------------------------- MODULE PracticeProofs -----------------------------
(***************************************************************************)
(* What the components of MCPractice guarantee for any number of threads,  *)
(* users and invocations, and any of them that may fail.  The messages:    *)
(* notices cross from one party to the other, and only scanned bytes are   *)
(* offered.  The digest: one mail a day, and no watermark without its      *)
(* mail.  And the composition: a step of the whole is, for each component, *)
(* one of its own or none, so that what each keeps, the whole keeps.       *)
(***************************************************************************)
EXTENDS MCPractice, IntakeProofs

(***************************************************************************)
(* Messages.                                                               *)
(***************************************************************************)
SendJob == [message : 1 .. MaxMessages, step : {"resolve", "emit"}, to : SUBSET Recipient]

(***************************************************************************)
(* What an invocation has still to notify was resolved from the sender of  *)
(* its message, and no message is ever replaced.                           *)
(***************************************************************************)
SendInv ==
  /\ Len(messages) <= MaxMessages
  /\ \A p \in SendProc : send[p] # NULL =>
       /\ send[p] \in SendJob
       /\ send[p].message \in 1 .. Len(messages)
       /\ send[p].to \subseteq recipientsOf(messages[send[p].message])

\* A scan has seen the bytes that are offered, and they are not stored again.
ScannedInv ==
  \A a \in Attachment : attachment[a] = "active" => content[a] = "valid"

MessagesInv ==
  /\ MessagesTypeOK
  /\ SendInv
  /\ NoticeCrossesParties
  /\ ScannedInv
  /\ OfferedBytesScanned

-----------------------------------------------------------------------------
\* Recipients of a message are members of the other party.
LEMMA RecipientsCross ==
  ASSUME NEW v \in ClientMember \cup Accountant
  PROVE  /\ recipientsOf(v) \subseteq Recipient
         /\ \A u \in recipientsOf(v) : u = "ACCOUNTANT" <=> v \in ClientMember
BY MessagesAssumption DEF recipientsOf, Recipient

LEMMA MessagesInitInv == MessagesInit => MessagesInv
<1> SUFFICES ASSUME MessagesInit PROVE MessagesInv
  OBVIOUS
<1>1. MessagesTypeOK
  BY MessagesAssumption DEF MessagesInit, MessagesTypeOK
<1>2. SendInv
  BY MessagesAssumption DEF MessagesInit, SendInv
<1>3. NoticeCrossesParties /\ ScannedInv /\ OfferedBytesScanned
  BY DEF MessagesInit, NoticeCrossesParties, ScannedInv, OfferedBytesScanned
<1> QED
  BY <1>1, <1>2, <1>3 DEF MessagesInv

(***************************************************************************)
(* The handlers that send.                                                 *)
(***************************************************************************)
LEMMA SendersStep ==
  ASSUME MessagesInv, NEW p \in SendProc, SendContinue(p) \/ SendFail(p)
  PROVE  MessagesInv'
<1>0. /\ MessagesTypeOK /\ SendInv /\ NoticeCrossesParties /\ ScannedInv
      /\ OfferedBytesScanned
  BY DEF MessagesInv
<1>1. /\ send[p] # NULL /\ send[p] \in SendJob
      /\ send[p].message \in 1 .. Len(messages)
      /\ send[p].to \subseteq recipientsOf(messages[send[p].message])
      /\ messages[send[p].message] \in ClientMember \cup Accountant
      /\ send[p].message \in 1 .. MaxMessages
  <2>1. send[p] # NULL
    BY DEF SendContinue, ResolveRecipients, EmitNotice, FinishSend, SendFail
  <2> QED
    BY <1>0, <2>1 DEF SendInv, MessagesTypeOK, SendJob
<1>2. UNCHANGED <<messages, attachmentVars>>
  BY DEF SendContinue, ResolveRecipients, EmitNotice, FinishSend, SendFail
<1>3. ScannedInv' /\ OfferedBytesScanned'
  BY <1>0, <1>2 DEF attachmentVars, ScannedInv, OfferedBytesScanned
<1> DEFINE Others == \A q \in SendProc \ {p} : send'[q] = send[q]
           Mine   == \/ send'[p] = NULL
                     \/ /\ send'[p] \in SendJob
                        /\ send'[p].message = send[p].message
                        /\ send'[p].to \subseteq recipientsOf(messages[send[p].message])
<1>4. /\ send' \in [SendProc -> SendJob \cup {NULL}] /\ Others /\ Mine
  <2>1. CASE ResolveRecipients(p)
    <3>1. send' = [send EXCEPT ![p] = [send[p] EXCEPT !.step = "emit",
                                       !.to = recipientsOf(messages[send[p].message])]]
      BY <2>1 DEF ResolveRecipients
    <3>2. recipientsOf(messages[send[p].message]) \subseteq Recipient
      BY <1>1, RecipientsCross
    <3> QED
      BY <1>0, <1>1, <3>1, <3>2 DEF MessagesTypeOK, SendJob
  <2>2. CASE EmitNotice(p)
    BY <1>0, <1>1, <2>2 DEF EmitNotice, MessagesTypeOK, SendJob
  <2>3. CASE FinishSend(p) \/ SendFail(p)
    BY <1>0, <2>3 DEF FinishSend, SendFail, MessagesTypeOK, SendJob
  <2> QED
    BY <2>1, <2>2, <2>3 DEF SendContinue
<1>5. /\ unsent' \subseteq 1 .. MaxMessages
      /\ \/ UNCHANGED notices
         \/ \E u \in send[p].to : notices' = notices \cup {[to |-> u, message |-> send[p].message]}
  <2>1. unsent' = unsent \/ unsent' = unsent \cup {send[p].message}
    BY DEF SendContinue, ResolveRecipients, EmitNotice, FinishSend, SendFail
  <2>2. \/ UNCHANGED notices
        \/ \E u \in send[p].to : notices' = notices \cup {[to |-> u, message |-> send[p].message]}
    BY DEF SendContinue, ResolveRecipients, EmitNotice, FinishSend, SendFail
  <2> QED
    BY <1>0, <1>1, <2>1, <2>2 DEF MessagesTypeOK
<1>6. /\ notices' \subseteq [to : Recipient, message : 1 .. MaxMessages]
      /\ NoticeCrossesParties'
  <2>1. CASE UNCHANGED notices
    BY <1>0, <1>2, <2>1 DEF MessagesTypeOK, NoticeCrossesParties
  <2>2. ASSUME NEW u \in send[p].to,
               notices' = notices \cup {[to |-> u, message |-> send[p].message]}
        PROVE  /\ notices' \subseteq [to : Recipient, message : 1 .. MaxMessages]
               /\ NoticeCrossesParties'
    <3>1. /\ u \in Recipient
          /\ u = "ACCOUNTANT" <=> messages[send[p].message] \in ClientMember
      BY <1>1, RecipientsCross
    <3>2. send[p].message <= Len(messages)
      BY <1>1
    <3> QED
      BY <1>0, <1>1, <1>2, <2>2, <3>1, <3>2 DEF MessagesTypeOK, NoticeCrossesParties
  <2> QED
    BY <1>5, <2>1, <2>2
<1>7. MessagesTypeOK'
  BY <1>0, <1>2, <1>4, <1>5, <1>6 DEF MessagesTypeOK, attachmentVars, SendJob
<1>8. SendInv'
  BY <1>0, <1>1, <1>2, <1>4 DEF SendInv
<1> QED
  BY <1>3, <1>6, <1>7, <1>8 DEF MessagesInv

(***************************************************************************)
(* A new message is behind all others, and belongs to its handler alone.   *)
(***************************************************************************)
LEMMA AppendStep ==
  ASSUME MessagesInv, NEW p \in SendProc, NEW v \in ClientMember \cup Accountant,
         appendMessage(p, v)
  PROVE  MessagesInv'
<1>0. /\ MessagesTypeOK /\ SendInv /\ NoticeCrossesParties /\ ScannedInv
      /\ OfferedBytesScanned /\ MaxMessages \in Nat
  BY MessagesAssumption DEF MessagesInv
<1>1. /\ messages' = Append(messages, v)
      /\ messages' \in Seq(ClientMember \cup Accountant)
      /\ Len(messages') = Len(messages) + 1
      /\ Len(messages) \in Nat
      /\ Len(messages') <= MaxMessages
      /\ \A i \in 1 .. Len(messages) : messages'[i] = messages[i]
  BY <1>0 DEF appendMessage, MessagesTypeOK
<1>2. /\ send'[p] = [message |-> Len(messages'), step |-> "resolve", to |-> {}]
      /\ send'[p] \in SendJob
      /\ send' \in [SendProc -> SendJob \cup {NULL}]
      /\ \A q \in SendProc \ {p} : send'[q] = send[q]
  BY <1>0, <1>1 DEF appendMessage, MessagesTypeOK, SendJob
<1>3. UNCHANGED <<notices, unsent, attachmentVars>>
  BY DEF appendMessage
<1>4. MessagesTypeOK'
  BY <1>0, <1>1, <1>2, <1>3 DEF MessagesTypeOK, attachmentVars, SendJob
<1>5. SendInv'
  <2> SUFFICES ASSUME NEW q \in SendProc, send'[q] # NULL
               PROVE  /\ send'[q] \in SendJob
                      /\ send'[q].message \in 1 .. Len(messages')
                      /\ send'[q].to \subseteq recipientsOf(messages'[send'[q].message])
    BY <1>1 DEF SendInv
  <2>1. CASE q = p
    BY <1>1, <1>2, <2>1
  <2>2. CASE q # p
    BY <1>0, <1>1, <1>2, <2>2 DEF SendInv
  <2> QED
    BY <2>1, <2>2
<1>6. NoticeCrossesParties'
  BY <1>0, <1>1, <1>3 DEF NoticeCrossesParties, MessagesTypeOK
<1>7. ScannedInv' /\ OfferedBytesScanned'
  BY <1>0, <1>3 DEF attachmentVars, ScannedInv, OfferedBytesScanned
<1> QED
  BY <1>4, <1>5, <1>6, <1>7 DEF MessagesInv

-----------------------------------------------------------------------------
(***************************************************************************)
(* The handlers that attach.                                               *)
(***************************************************************************)
LEMMA AttachStep ==
  ASSUME MessagesInv, NEW a \in Attachment, Attach(a)
  PROVE  MessagesInv'
<1>0. /\ MessagesTypeOK /\ SendInv /\ NoticeCrossesParties /\ ScannedInv
      /\ OfferedBytesScanned
  BY DEF MessagesInv
<1>1. UNCHANGED sendVars
  BY DEF Attach, InsertAttachment, PutAttachment, PromoteAttachment,
         authorizeThenSignAttachment
<1>2. SendInv' /\ NoticeCrossesParties'
  BY <1>0, <1>1 DEF sendVars, SendInv, NoticeCrossesParties
<1> DEFINE FileTypes == /\ attachment \in [Attachment -> {"none", "pending", "active", "infected"}]
                        /\ content \in [Attachment -> Content \cup {"none"}]
                        /\ minted \subseteq Attachment
<1>3. FileTypes' /\ ScannedInv' /\ OfferedBytesScanned'
  <2>0. FileTypes
    BY <1>0 DEF MessagesTypeOK
  <2>1. CASE InsertAttachment(a)
    BY <1>0, <2>0, <2>1 DEF InsertAttachment, ScannedInv, OfferedBytesScanned
  <2>2. CASE PutAttachment(a)
    BY <1>0, <2>0, <2>2 DEF PutAttachment, ScannedInv, OfferedBytesScanned
  <2>3. CASE PromoteAttachment(a)
    <3>1. PICK s \in VerdictOn(content[a]) : attachment' = [attachment EXCEPT ![a] = s]
      BY <2>3 DEF PromoteAttachment
    <3>2. s \in {"active", "infected"} /\ (s = "active" => content[a] = "valid")
      BY <3>1 DEF VerdictOn
    <3>3. UNCHANGED <<content, minted>> /\ attachment[a] = "pending"
      BY <2>3 DEF PromoteAttachment
    <3> QED
      BY <1>0, <2>0, <3>1, <3>2, <3>3 DEF ScannedInv, OfferedBytesScanned
  <2>4. CASE authorizeThenSignAttachment(a)
    BY <1>0, <2>0, <2>4 DEF authorizeThenSignAttachment, ScannedInv, OfferedBytesScanned
  <2> QED
    BY <2>1, <2>2, <2>3, <2>4 DEF Attach
<1>4. MessagesTypeOK'
  BY <1>0, <1>1, <1>3 DEF MessagesTypeOK, sendVars
<1> QED
  BY <1>2, <1>3, <1>4 DEF MessagesInv

-----------------------------------------------------------------------------
LEMMA MessagesStep == MessagesInv /\ [MessagesNext]_messagesVars => MessagesInv'
<1> SUFFICES ASSUME MessagesInv, [MessagesNext]_messagesVars PROVE MessagesInv'
  OBVIOUS
<1>1. CASE MessagesNext
  BY <1>1, SendersStep, AppendStep, AttachStep DEF MessagesNext
<1>2. CASE UNCHANGED messagesVars
  BY <1>2 DEF messagesVars, sendVars, attachmentVars, MessagesInv, MessagesTypeOK, SendInv,
     NoticeCrossesParties, ScannedInv, OfferedBytesScanned
<1> QED
  BY <1>1, <1>2

LEMMA MessagesInvariant == MessagesSpec => []MessagesInv
BY MessagesInitInv, MessagesStep, PTL DEF MessagesSpec

\* Type correctness of the messages, for every bound.
THEOREM MessagesTypeCorrect == MessagesSpec => []MessagesTypeOK
<1>1. MessagesInv => MessagesTypeOK
  BY DEF MessagesInv
<1> QED
  BY <1>1, MessagesInvariant, PTL

(***************************************************************************)
(* However the sends of a thread interleave and fail, a message is         *)
(* announced to the other party only; and whatever order the calls about   *)
(* an attachment come in, what is offered for download passed its scan.    *)
(***************************************************************************)
THEOREM ThreadStaysConfined == MessagesSpec => []ThreadConfined
<1>1. MessagesInv => ThreadConfined
  BY DEF MessagesInv, ThreadConfined
<1> QED
  BY <1>1, MessagesInvariant, PTL

-----------------------------------------------------------------------------
(***************************************************************************)
(* The digest.                                                             *)
(***************************************************************************)
(***************************************************************************)
(* A dispatch is of a day that has come; it is about to stamp the user it  *)
(* has just mailed, whom it will not come back to.                         *)
(***************************************************************************)
DispatchInv ==
  \A p \in Dispatch : Running(p) =>
    /\ run[p].now <= today
    /\ run[p].step = "stamp" =>
         /\ run[p].recipient \in User \ run[p].todo
         /\ mailed[run[p].recipient][run[p].now] > 0
    /\ run[p].step # "stamp" => run[p].recipient = NULL

Stamping(p, u, d) ==
  Running(p) /\ run[p].step = "stamp" /\ run[p].recipient = u /\ run[p].now = d

(***************************************************************************)
(* While no two dispatches have overlapped: the one that runs is not older *)
(* than any watermark, and newer than those of the users it has still to   *)
(* mail; and every mail that kept its watermark is one of its day, on      *)
(* record in the watermark or about to be.                                 *)
(***************************************************************************)
AloneInv ==
  /\ \A p, q \in Dispatch : Running(p) /\ Running(q) => p = q
  /\ \A u \in User :
       /\ lastNudgeSentAt[u] <= today
       /\ \A p \in Dispatch : Running(p) =>
            /\ lastNudgeSentAt[u] <= run[p].now
            /\ u \in run[p].todo => lastNudgeSentAt[u] < run[p].now
  /\ \A u \in User \ unstamped, d \in Day :
       /\ mailed[u][d] <= 1
       /\ mailed[u][d] > 0 => \/ d <= lastNudgeSentAt[u]
                              \/ \E p \in Dispatch : Stamping(p, u, d)

DigestInv ==
  /\ DigestTypeOK
  /\ DispatchInv
  /\ StampedOnlyIfMailed
  /\ ~overlapped => AloneInv

-----------------------------------------------------------------------------
LEMMA DigestInitInv == DigestInit => DigestInv
<1> SUFFICES ASSUME DigestInit PROVE DigestInv
  OBVIOUS
<1>1. DigestTypeOK
  <2>1. 1 \in Day /\ 0 \in 0 .. MaxDay /\ 0 \in 0 .. MaxRuns
    BY DigestAssumption DEF Day
  <2> QED
    BY <2>1 DEF DigestInit, DigestTypeOK
<1>2. DispatchInv /\ StampedOnlyIfMailed
  BY DEF DigestInit, DispatchInv, StampedOnlyIfMailed, Running
<1>3. AloneInv
  <2>1. \A p \in Dispatch : ~Running(p)
    BY DEF DigestInit, Running
  <2>2. \A u \in User : lastNudgeSentAt[u] <= today
    BY DEF DigestInit
  <2>3. \A u \in User, d \in Day : mailed[u][d] = 0
    BY DEF DigestInit
  <2> QED
    BY <2>1, <2>2, <2>3 DEF AloneInv
<1> QED
  BY <1>1, <1>2, <1>3 DEF DigestInv

(***************************************************************************)
(* Steps of the users and of the calendar.                                 *)
(***************************************************************************)
LEMMA OutsideStep ==
  ASSUME DigestInv,
         \/ \E u \in User : NewNotification(u) \/ markNotificationsRead(u)
                            \/ setEmailNudgePreference(u)
         \/ NextDay
  PROVE  DigestInv'
<1>0. DigestTypeOK /\ DispatchInv /\ StampedOnlyIfMailed /\ (~overlapped => AloneInv)
  BY DEF DigestInv
<1>1. UNCHANGED <<lastNudgeSentAt, mailed, run, started, unstamped, overlapped>>
  BY DEF NewNotification, markNotificationsRead, setEmailNudgePreference, NextDay
<1>2. today \in Nat /\ today' \in Day /\ today <= today'
  BY <1>0, DigestAssumption
     DEF NewNotification, markNotificationsRead, setEmailNudgePreference, NextDay,
         DigestTypeOK, Day
<1>3. unread' \subseteq User /\ emailNudgeEnabled' \subseteq User
  BY <1>0
     DEF NewNotification, markNotificationsRead, setEmailNudgePreference, NextDay,
         DigestTypeOK
<1>4. DigestTypeOK'
  BY <1>0, <1>1, <1>2, <1>3 DEF DigestTypeOK
<1>5. DispatchInv' /\ StampedOnlyIfMailed'
  BY <1>0, <1>1, <1>2
     DEF DispatchInv, StampedOnlyIfMailed, DigestTypeOK, Running, Run, Day
<1>6. ~overlapped' => AloneInv'
  BY <1>0, <1>1, <1>2 DEF AloneInv, DigestTypeOK, Running, Stamping, Day
<1> QED
  BY <1>4, <1>5, <1>6 DEF DigestInv

-----------------------------------------------------------------------------
\* A dispatch that starts beside another leaves nothing more to show.
LEMMA StartStep ==
  ASSUME DigestInv, NEW p \in Dispatch, StartDispatch(p)
  PROVE  DigestInv'
<1>0. DigestTypeOK /\ DispatchInv /\ StampedOnlyIfMailed /\ (~overlapped => AloneInv)
  BY DEF DigestInv
<1>1. /\ run'[p] = [now |-> today, step |-> "select", todo |-> {}, recipient |-> NULL]
      /\ run'[p] \in Run
      /\ \A q \in Dispatch \ {p} : run'[q] = run[q]
      /\ run' \in [Dispatch -> Run \cup {NULL}]
  BY <1>0 DEF StartDispatch, DigestTypeOK, Run
<1>2. UNCHANGED <<today, unread, emailNudgeEnabled, lastNudgeSentAt, mailed, unstamped>>
  BY DEF StartDispatch
<1>3. DigestTypeOK'
  <2>1. started' \in 0 .. MaxRuns
    BY <1>0, DigestAssumption DEF StartDispatch, DigestTypeOK
  <2>2. overlapped' \in BOOLEAN
    BY <1>0 DEF StartDispatch, DigestTypeOK
  <2> QED
    BY <1>0, <1>1, <1>2, <2>1, <2>2 DEF DigestTypeOK
<1>4. DispatchInv'
  <2> SUFFICES ASSUME NEW q \in Dispatch, Running(q)'
               PROVE  /\ run'[q].now <= today
                      /\ run'[q].step = "stamp" =>
                           /\ run'[q].recipient \in User \ run'[q].todo
                           /\ mailed[run'[q].recipient][run'[q].now] > 0
                      /\ run'[q].step # "stamp" => run'[q].recipient = NULL
    BY <1>2 DEF DispatchInv
  <2>1. CASE q = p
    BY <1>0, <1>1, <2>1 DEF DigestTypeOK, Day
  <2>2. CASE q # p
    BY <1>0, <1>1, <2>2 DEF DispatchInv, Running
  <2> QED
    BY <2>1, <2>2
<1>5. StampedOnlyIfMailed'
  BY <1>0, <1>2 DEF StampedOnlyIfMailed
<1>6. ASSUME ~overlapped' PROVE AloneInv'
  <2>1. ~overlapped /\ \A q \in Dispatch : ~Running(q)
    BY <1>0, <1>6 DEF StartDispatch, DigestTypeOK
  <2>2. AloneInv
    BY <1>0, <2>1
  <2>3. \A q \in Dispatch : Running(q)' => q = p
    BY <1>1, <2>1 DEF Running
  <2> QED
    BY <1>1, <1>2, <2>1, <2>2, <2>3 DEF AloneInv, Stamping
<1> QED
  BY <1>3, <1>4, <1>5, <1>6 DEF DigestInv

-----------------------------------------------------------------------------
(***************************************************************************)
(* A step of a dispatch, seen from the others: only its own job, a mail    *)
(* and a watermark of its own day may change.                              *)
(***************************************************************************)
LEMMA SelectStep ==
  ASSUME DigestInv, NEW p \in Dispatch, SelectRecipients(p)
  PROVE  DigestInv'
<1>0. DigestTypeOK /\ DispatchInv /\ StampedOnlyIfMailed /\ (~overlapped => AloneInv)
  BY DEF DigestInv
<1>1. /\ run[p] \in Run /\ Running(p) /\ run[p].step = "select"
      /\ UNCHANGED <<today, unread, emailNudgeEnabled, lastNudgeSentAt, mailed, started,
                     unstamped, overlapped>>
  BY <1>0 DEF SelectRecipients, DigestTypeOK, Running
<1>2. /\ run'[p] \in Run /\ run'[p].now = run[p].now /\ run'[p].step = "send"
      /\ run'[p].recipient = run[p].recipient
      /\ run'[p].todo = getDigestRecipients(run[p].now)
      /\ \A q \in Dispatch \ {p} : run'[q] = run[q]
      /\ run' \in [Dispatch -> Run \cup {NULL}]
  <2>1. getDigestRecipients(run[p].now) \subseteq User
    BY <1>0 DEF getDigestRecipients, DigestTypeOK
  <2>2. run' = [run EXCEPT ![p] = [run[p] EXCEPT !.step = "send",
                                   !.todo = getDigestRecipients(run[p].now)]]
    BY DEF SelectRecipients
  <2> QED
    BY <1>0, <1>1, <2>1, <2>2 DEF DigestTypeOK, Run
<1>3. DigestTypeOK'
  BY <1>0, <1>1, <1>2 DEF DigestTypeOK
<1>4. DispatchInv'
  <2> SUFFICES ASSUME NEW q \in Dispatch, Running(q)'
               PROVE  /\ run'[q].now <= today
                      /\ run'[q].step = "stamp" =>
                           /\ run'[q].recipient \in User \ run'[q].todo
                           /\ mailed[run'[q].recipient][run'[q].now] > 0
                      /\ run'[q].step # "stamp" => run'[q].recipient = NULL
    BY <1>1 DEF DispatchInv
  <2>1. CASE q = p
    BY <1>0, <1>1, <1>2, <2>1 DEF DispatchInv
  <2>2. CASE q # p
    BY <1>0, <1>2, <2>2 DEF DispatchInv, Running
  <2> QED
    BY <2>1, <2>2
<1>5. StampedOnlyIfMailed'
  BY <1>0, <1>1 DEF StampedOnlyIfMailed
<1>6. ASSUME ~overlapped' PROVE AloneInv'
  <2>1. AloneInv
    BY <1>0, <1>1, <1>6
  <2>2. \A q \in Dispatch : Running(q)' => q = p
    BY <1>1, <1>2, <2>1 DEF AloneInv, Running
  <2>3. \A u \in getDigestRecipients(run[p].now) : lastNudgeSentAt[u] < run[p].now
    BY DEF getDigestRecipients
  <2>4. \A u \in User, d \in Day : \A q \in Dispatch : ~Stamping(q, u, d)
    BY <1>1, <2>1 DEF AloneInv, Stamping
  <2> QED
    BY <1>1, <1>2, <2>1, <2>2, <2>3, <2>4 DEF AloneInv
<1> QED
  BY <1>3, <1>4, <1>5, <1>6 DEF DigestInv

\* A user that a dispatch has still to mail has no mail of its day, and gets one.
LEMMA MailStep ==
  ASSUME DigestInv, NEW p \in Dispatch, SendDigest(p)
  PROVE  DigestInv'
<1>0. DigestTypeOK /\ DispatchInv /\ StampedOnlyIfMailed /\ (~overlapped => AloneInv)
  BY DEF DigestInv
<1>1. /\ run[p] \in Run /\ Running(p) /\ run[p].step = "send" /\ run[p].recipient = NULL
      /\ run[p].now \in Day /\ run[p].todo \subseteq User
      /\ UNCHANGED <<today, unread, emailNudgeEnabled, lastNudgeSentAt, started,
                     unstamped, overlapped>>
  BY <1>0 DEF SendDigest, DigestTypeOK, DispatchInv, Running, Run
<1>2. PICK u \in run[p].todo :
        IF u \in Unreachable
        THEN run' = [run EXCEPT ![p].todo = @ \ {u}] /\ UNCHANGED mailed
        ELSE /\ run' = [run EXCEPT ![p].step = "stamp", ![p].todo = @ \ {u},
                                  ![p].recipient = u]
             /\ mailed' = [mailed EXCEPT ![u][run[p].now] = @ + 1]
  BY DEF SendDigest
<1>3. /\ u \in User
      /\ run'[p] \in Run /\ run'[p].now = run[p].now
      /\ run'[p].todo = run[p].todo \ {u}
      /\ \/ run'[p].step = "send" /\ run'[p].recipient = NULL /\ u \in Unreachable
         \/ run'[p].step = "stamp" /\ run'[p].recipient = u /\ u \notin Unreachable
      /\ \A q \in Dispatch \ {p} : run'[q] = run[q]
      /\ run' \in [Dispatch -> Run \cup {NULL}]
  <2>1. CASE u \in Unreachable
    <3>1. run' = [run EXCEPT ![p].todo = @ \ {u}]
      BY <1>2, <2>1
    <3> QED
      BY <1>0, <1>1, <2>1, <3>1 DEF DigestTypeOK, Run
  <2>2. CASE u \notin Unreachable
    <3>1. run' = [run EXCEPT ![p].step = "stamp", ![p].todo = @ \ {u}, ![p].recipient = u]
      BY <1>2, <2>2
    <3> QED
      BY <1>0, <1>1, <2>2, <3>1 DEF DigestTypeOK, Run
  <2> QED
    BY <2>1, <2>2
<1>4. /\ mailed' \in [User -> [Day -> Nat]]
      /\ \A v \in User, d \in Day : mailed[v][d] <= mailed'[v][d]
      /\ \A v \in User, d \in Day : v # u \/ d # run[p].now => mailed'[v][d] = mailed[v][d]
      /\ mailed'[u][run[p].now] <= mailed[u][run[p].now] + 1
      /\ u \notin Unreachable => mailed'[u][run[p].now] > 0
      /\ u \in Unreachable => UNCHANGED mailed
  <2>1. mailed \in [User -> [Day -> Nat]]
    BY <1>0 DEF DigestTypeOK
  <2>2. CASE u \in Unreachable
    BY <1>1, <1>2, <1>3, <2>1, <2>2
  <2>3. CASE u \notin Unreachable
    <3>1. mailed' = [mailed EXCEPT ![u][run[p].now] = @ + 1]
      BY <1>2, <2>3
    <3> QED
      BY <1>1, <1>3, <2>1, <2>3, <3>1
  <2> QED
    BY <2>2, <2>3
<1>5. \/ run'[p].step = "send" /\ run'[p].recipient = NULL /\ UNCHANGED mailed
      \/ run'[p].step = "stamp" /\ run'[p].recipient = u /\ mailed'[u][run[p].now] > 0
  BY <1>3, <1>4
<1>6. DigestTypeOK'
  BY <1>0, <1>1, <1>3, <1>4 DEF DigestTypeOK
<1>7. DispatchInv'
  <2> SUFFICES ASSUME NEW q \in Dispatch, Running(q)'
               PROVE  /\ run'[q].now <= today
                      /\ run'[q].step = "stamp" =>
                           /\ run'[q].recipient \in User \ run'[q].todo
                           /\ mailed'[run'[q].recipient][run'[q].now] > 0
                      /\ run'[q].step # "stamp" => run'[q].recipient = NULL
    BY <1>1 DEF DispatchInv
  <2>1. CASE q = p
    BY <1>0, <1>1, <1>3, <1>5, <2>1 DEF DispatchInv
  <2>2. CASE q # p
    <3>1. run'[q] = run[q] /\ Running(q) /\ run[q] \in Run
      BY <1>0, <1>3, <2>2 DEF Running, DigestTypeOK
    <3> QED
      BY <1>0, <1>4, <3>1 DEF DispatchInv, Run, DigestTypeOK
  <2> QED
    BY <2>1, <2>2
<1>8. StampedOnlyIfMailed'
  <2> SUFFICES ASSUME NEW v \in User, lastNudgeSentAt[v] # 0
               PROVE  mailed'[v][lastNudgeSentAt[v]] > 0
    BY <1>1 DEF StampedOnlyIfMailed
  <2>1. lastNudgeSentAt[v] \in Day
    BY <1>0, DigestAssumption DEF DigestTypeOK, Day
  <2> QED
    BY <1>0, <1>4, <2>1 DEF StampedOnlyIfMailed, DigestTypeOK
<1>9. ASSUME ~overlapped' PROVE AloneInv'
  <2>1. AloneInv /\ \A q \in Dispatch : Running(q) => q = p
    BY <1>0, <1>1, <1>9 DEF AloneInv
  <2>2. \A q \in Dispatch : Running(q)' => q = p
    BY <1>3, <2>1 DEF Running
  <2>3. ASSUME NEW v \in User \ unstamped, NEW d \in Day
        PROVE  /\ mailed'[v][d] <= 1
               /\ mailed'[v][d] > 0 => \/ d <= lastNudgeSentAt[v]
                                       \/ \E q \in Dispatch : Stamping(q, v, d)'
    <3>1. mailed[v][d] <= 1 /\ (mailed[v][d] > 0 => d <= lastNudgeSentAt[v])
      BY <1>1, <2>1 DEF AloneInv, Stamping
    <3>2. CASE v # u \/ d # run[p].now
      BY <1>4, <3>1, <3>2
    <3>3. CASE v = u /\ d = run[p].now
      <4>1. mailed[v][d] = 0
        BY <1>0, <1>1, <1>2, <2>1, <3>1, <3>3, DigestAssumption
           DEF AloneInv, DigestTypeOK, Day
      <4>2. mailed'[v][d] \in Nat /\ mailed'[v][d] <= 1
        BY <1>4, <3>3, <4>1
      <4>3. mailed'[v][d] > 0 => Stamping(p, v, d)'
        BY <1>3, <1>5, <3>3, <4>1, DigestAssumption DEF Stamping, Running
      <4> QED
        BY <4>2, <4>3
    <3> QED
      BY <3>2, <3>3
  <2>4. \A v \in User :
          /\ lastNudgeSentAt[v] <= today
          /\ lastNudgeSentAt[v] <= run'[p].now
          /\ v \in run'[p].todo => lastNudgeSentAt[v] < run'[p].now
    BY <1>1, <1>3, <2>1 DEF AloneInv
  <2> QED
    BY <1>1, <2>2, <2>3, <2>4 DEF AloneInv
<1> QED
  BY <1>6, <1>7, <1>8, <1>9 DEF DigestInv

(***************************************************************************)
(* The watermark becomes the day of a mail that was sent, or is lost, and  *)
(* then its user counts as one that was not stamped.                       *)
(***************************************************************************)
LEMMA StampStep ==
  ASSUME DigestInv, NEW p \in Dispatch, recordNudgeSent(p)
  PROVE  DigestInv'
<1>0. DigestTypeOK /\ DispatchInv /\ StampedOnlyIfMailed /\ (~overlapped => AloneInv)
  BY DEF DigestInv
<1> DEFINE u == run[p].recipient
           d == run[p].now
<1>1. /\ run[p] \in Run /\ Running(p) /\ run[p].step = "stamp"
      /\ u \in User \ run[p].todo /\ d \in Day /\ d <= today /\ mailed[u][d] > 0
      /\ UNCHANGED <<today, unread, emailNudgeEnabled, mailed, started, overlapped>>
  BY <1>0 DEF recordNudgeSent, DigestTypeOK, DispatchInv, Running, Run
<1>2. /\ run'[p] \in Run /\ run'[p].now = d /\ run'[p].step = "send"
      /\ run'[p].recipient = NULL /\ run'[p].todo = run[p].todo
      /\ \A q \in Dispatch \ {p} : run'[q] = run[q]
      /\ run' \in [Dispatch -> Run \cup {NULL}]
  <2>1. run' = [run EXCEPT ![p].step = "send", ![p].recipient = NULL]
    BY DEF recordNudgeSent
  <2> QED
    BY <1>0, <1>1, <2>1 DEF DigestTypeOK, Run
<1>3. \/ lastNudgeSentAt' = [lastNudgeSentAt EXCEPT ![u] = d] /\ UNCHANGED unstamped
      \/ unstamped' = unstamped \cup {u} /\ UNCHANGED lastNudgeSentAt
  BY DEF recordNudgeSent
<1>4. /\ lastNudgeSentAt' \in [User -> 0 .. MaxDay]
      /\ \A v \in User \ {u} : lastNudgeSentAt'[v] = lastNudgeSentAt[v]
      /\ lastNudgeSentAt'[u] \in {d, lastNudgeSentAt[u]}
      /\ u \notin unstamped' => lastNudgeSentAt'[u] = d
      /\ unstamped \subseteq unstamped' /\ unstamped' \subseteq User
  BY <1>0, <1>1, <1>3 DEF DigestTypeOK, Day
<1>5. DigestTypeOK'
  BY <1>0, <1>1, <1>2, <1>4 DEF DigestTypeOK
<1>6. DispatchInv'
  <2> SUFFICES ASSUME NEW q \in Dispatch, Running(q)'
               PROVE  /\ run'[q].now <= today
                      /\ run'[q].step = "stamp" =>
                           /\ run'[q].recipient \in User \ run'[q].todo
                           /\ mailed[run'[q].recipient][run'[q].now] > 0
                      /\ run'[q].step # "stamp" => run'[q].recipient = NULL
    BY <1>1 DEF DispatchInv
  <2>1. CASE q = p
    BY <1>1, <1>2, <2>1
  <2>2. CASE q # p
    BY <1>0, <1>2, <2>2 DEF DispatchInv, Running
  <2> QED
    BY <2>1, <2>2
<1>7. StampedOnlyIfMailed'
  BY <1>0, <1>1, <1>4 DEF StampedOnlyIfMailed
<1>8. ASSUME ~overlapped' PROVE AloneInv'
  <2>1. AloneInv /\ \A q \in Dispatch : Running(q) => q = p
    BY <1>0, <1>1, <1>8 DEF AloneInv
  <2>2. \A q \in Dispatch : Running(q)' => q = p
    BY <1>2, <2>1 DEF Running
  <2>3. lastNudgeSentAt[u] <= d
    BY <1>1, <2>1 DEF AloneInv
  <2>4. ASSUME NEW v \in User
        PROVE  /\ lastNudgeSentAt'[v] <= today
               /\ lastNudgeSentAt'[v] <= run'[p].now
               /\ v \in run'[p].todo => lastNudgeSentAt'[v] < run'[p].now
    <3>1. CASE v = u
      <4>1. d <= d
        BY <1>1 DEF Day
      <4> QED
        BY <1>1, <1>2, <1>4, <2>1, <2>3, <3>1, <4>1 DEF AloneInv
    <3>2. CASE v # u
      BY <1>1, <1>2, <1>4, <2>1, <3>2 DEF AloneInv
    <3> QED
      BY <3>1, <3>2
  <2>5. ASSUME NEW v \in User \ unstamped', NEW e \in Day
        PROVE  /\ mailed'[v][e] <= 1
               /\ mailed'[v][e] > 0 => e <= lastNudgeSentAt'[v]
    <3>1. /\ mailed[v][e] <= 1
          /\ mailed[v][e] > 0 => \/ e <= lastNudgeSentAt[v]
                                 \/ v = u /\ e = d
      BY <1>1, <1>4, <2>1 DEF AloneInv, Stamping
    <3>2. CASE v = u
      <4>1. lastNudgeSentAt'[v] = d
        BY <1>4, <3>2
      <4>2. e \in Nat /\ d \in Nat /\ lastNudgeSentAt[u] \in Nat
        BY <1>0, <1>1, <3>2 DEF DigestTypeOK, Day
      <4> QED
        BY <1>1, <2>3, <3>1, <3>2, <4>1, <4>2
    <3>3. CASE v # u
      BY <1>1, <1>4, <3>1, <3>3
    <3> QED
      BY <3>2, <3>3
  <2> QED
    BY <1>1, <2>2, <2>4, <2>5 DEF AloneInv
<1> QED
  BY <1>5, <1>6, <1>7, <1>8 DEF DigestInv

\* A dispatch ends, or dies; a mail it did not stamp is one that was not stamped.
LEMMA EndStep ==
  ASSUME DigestInv, NEW p \in Dispatch, FinishDispatch(p) \/ DispatchFail(p)
  PROVE  DigestInv'
<1>0. DigestTypeOK /\ DispatchInv /\ StampedOnlyIfMailed /\ (~overlapped => AloneInv)
  BY DEF DigestInv
<1>1. /\ Running(p) /\ run[p] \in Run
      /\ UNCHANGED <<today, unread, emailNudgeEnabled, lastNudgeSentAt, mailed, started,
                     overlapped>>
      /\ run' = [run EXCEPT ![p] = NULL]
  BY <1>0 DEF FinishDispatch, DispatchFail, DigestTypeOK, Running
<1>2. /\ run' \in [Dispatch -> Run \cup {NULL}]
      /\ run'[p] = NULL
      /\ \A q \in Dispatch \ {p} : run'[q] = run[q]
  BY <1>0, <1>1 DEF DigestTypeOK
<1>3. /\ unstamped \subseteq unstamped' /\ unstamped' \subseteq User
      /\ run[p].step = "stamp" => run[p].recipient \in unstamped'
  <2>1. CASE FinishDispatch(p)
    BY <1>0, <2>1 DEF FinishDispatch, DigestTypeOK
  <2>2. CASE DispatchFail(p)
    <3>1. run[p].recipient \in User \cup {NULL}
      BY <1>1 DEF Run
    <3>2. run[p].step = "stamp" => run[p].recipient # NULL
      BY <1>0, <1>1, DigestAssumption DEF DispatchInv
    <3>3. unstamped' = unstamped \cup ({run[p].recipient} \ {NULL})
      BY <2>2 DEF DispatchFail
    <3>4. unstamped \subseteq User
      BY <1>0 DEF DigestTypeOK
    <3> QED
      BY <3>1, <3>2, <3>3, <3>4
  <2> QED
    BY <2>1, <2>2
<1>4. DigestTypeOK'
  BY <1>0, <1>1, <1>2, <1>3 DEF DigestTypeOK
<1>5. DispatchInv' /\ StampedOnlyIfMailed'
  <2>1. \A q \in Dispatch : Running(q)' => Running(q) /\ run'[q] = run[q]
    BY <1>2 DEF Running
  <2> QED
    BY <1>0, <1>1, <2>1 DEF DispatchInv, StampedOnlyIfMailed
<1>6. ASSUME ~overlapped' PROVE AloneInv'
  <2>1. AloneInv
    BY <1>0, <1>1, <1>6
  <2>2. \A q \in Dispatch : ~Running(q)'
    BY <1>1, <1>2, <2>1 DEF AloneInv, Running
  <2>3. ASSUME NEW v \in User \ unstamped', NEW e \in Day
        PROVE  /\ mailed[v][e] <= 1
               /\ mailed[v][e] > 0 => e <= lastNudgeSentAt[v]
    BY <1>1, <1>3, <2>1 DEF AloneInv, Stamping
  <2> QED
    BY <1>1, <2>1, <2>2, <2>3 DEF AloneInv
<1> QED
  BY <1>4, <1>5, <1>6 DEF DigestInv

-----------------------------------------------------------------------------
LEMMA DigestStep == DigestInv /\ [DigestNext]_digestVars => DigestInv'
<1> SUFFICES ASSUME DigestInv, [DigestNext]_digestVars PROVE DigestInv'
  OBVIOUS
<1>1. CASE DigestNext
  BY <1>1, OutsideStep, StartStep, SelectStep, MailStep, StampStep, EndStep
     DEF DigestNext, DispatchContinue
<1>2. CASE UNCHANGED digestVars
  BY <1>2 DEF digestVars, DigestInv, DigestTypeOK, DispatchInv, StampedOnlyIfMailed, AloneInv,
     Stamping, Running
<1> QED
  BY <1>1, <1>2

LEMMA DigestInvariant == DigestSpec => []DigestInv
BY DigestInitInv, DigestStep, PTL DEF DigestSpec

\* Type correctness of the digest, for every bound.
THEOREM DigestTypeCorrect == DigestSpec => []DigestTypeOK
<1>1. DigestInv => DigestTypeOK
  BY DEF DigestInv
<1> QED
  BY <1>1, DigestInvariant, PTL

(***************************************************************************)
(* However often the digest is dispatched and whatever fails, a user is    *)
(* mailed twice on a day only when two dispatches overlapped or when the   *)
(* watermark of the first mail was lost.                                   *)
(***************************************************************************)
THEOREM OneDigestADay == DigestSpec => []AtMostOneDigestADay
<1>1. DigestInv => AtMostOneDigestADay
  <2> SUFFICES ASSUME DigestInv, NEW u \in User, NEW d \in Day,
                      mailed[u][d] > 1, ~overlapped
               PROVE  u \in unstamped
    BY DEF AtMostOneDigestADay
  <2>1. u \notin unstamped => mailed[u][d] <= 1
    BY DEF DigestInv, AloneInv
  <2>2. mailed[u][d] \in Nat
    BY DEF DigestInv, DigestTypeOK
  <2> QED
    BY <2>1, <2>2
<1> QED
  BY <1>1, DigestInvariant, PTL

(***************************************************************************)
(* No failure and no overlap leaves a watermark for a day on which the     *)
(* user was not mailed: nobody's mail is suppressed by one never sent.     *)
(***************************************************************************)
THEOREM WatermarkHasMail == DigestSpec => []StampedOnlyIfMailed
<1>1. DigestInv => StampedOnlyIfMailed
  BY DEF DigestInv
<1> QED
  BY <1>1, DigestInvariant, PTL

(***************************************************************************)
(* Both together, of the watermark of dispatchDailyDigest.                 *)
(***************************************************************************)
THEOREM WatermarkSound == DigestSpec => []WatermarkExact
  BY OneDigestADay, WatermarkHasMail, PTL DEF WatermarkExact

-----------------------------------------------------------------------------
(***************************************************************************)
(* All components together.                                                *)
(***************************************************************************)
PracticeInv ==
  /\ IntakeTypeInv
  /\ MessagesInv
  /\ DigestInv
  /\ part \in Parts

LEMMA PracticeInit == Init => PracticeInv
BY IntakeTypeInit, MessagesInitInv, DigestInitInv DEF Init, PracticeInv

\* Whatever part is taken, a component makes a step of its own or none.
LEMMA PracticeParts ==
  ASSUME [Next]_vars
  PROVE  /\ [IntakeNext]_intakeVars
         /\ [MessagesNext]_messagesVars
         /\ [DigestNext]_digestVars
         /\ UNCHANGED part
BY Zenon DEF Next, IntakePart, MessagesPart, DigestPart, vars

LEMMA PracticeStep == PracticeInv /\ [Next]_vars => PracticeInv'
BY PracticeParts, IntakeTypeStep, MessagesStep, DigestStep, Zenon DEF PracticeInv

(***************************************************************************)
(* The variables of every component keep their types, in every             *)
(* interleaving, for any number of requests, threads, users and handlers.  *)
(***************************************************************************)
THEOREM PracticeTypeCorrect == Spec => []TypeOK
<1>1. PracticeInv => TypeOK
  BY DEF PracticeInv, IntakeTypeInv, MessagesInv, DigestInv, TypeOK
<1>2. Spec => Init /\ [][Next]_vars
  BY DEF Spec
<1> QED
  BY <1>1, <1>2, PracticeInit, PracticeStep, PTL
=============================================================================
