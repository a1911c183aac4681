-------------------------------- MODULE Digest --------------------------------
(***************************************************************************)
(* The daily e-mail nudge (packages/db/src/repositories/email-digest.ts):  *)
(* a dispatch selects the users that have an unread notification, want     *)
(* mail and have not been mailed today, and for one after the other sends  *)
(* the mail and then writes User.lastNudgeSentAt.  Nothing keeps two       *)
(* dispatches from overlapping; the route that starts one and a scheduler  *)
(* do not know of each other.                                              *)
(*                                                                         *)
(* Time is the calendar day of SQL Server's CAST(... AS DATE).  A dispatch *)
(* keeps the `now` it began with.                                          *)
(***************************************************************************)
EXTENDS Naturals, FiniteSets, Null

CONSTANTS
  User,
  Unreachable,    \* users whose mail the provider refuses
  Dispatch,       \* invocations of dispatchDailyDigest
  DispatchFaulty, \* those that may die, or a watermark of which may fail
  MaxDay,         \* bound on the days
  MaxRuns         \* bound on the dispatches

Day == 1 .. MaxDay

Run == [now : Day, step : {"select", "send", "stamp"}, todo : SUBSET User,
        recipient : User \cup {NULL}]

ASSUME DigestAssumption ==
  /\ Unreachable \subseteq User
  /\ DispatchFaulty \subseteq Dispatch
  /\ MaxDay \in Nat \ {0}
  /\ MaxRuns \in Nat
  /\ NULL \notin User \cup Run

VARIABLES
  today,
  unread,            \* users with an unread notification
  emailNudgeEnabled, \* users that want mail
  lastNudgeSentAt,   \* the watermark of each user, 0 for NULL
  mailed,            \* mails to each user, by the `now` of the dispatch
  run,               \* what a dispatch has still to do, NULL when it does not run
  started,           \* dispatches so far
  unstamped,         \* history: users mailed without a watermark
  overlapped         \* history: did two dispatches run at a time?

digestVars == <<today, unread, emailNudgeEnabled, lastNudgeSentAt, mailed, run, started,
                unstamped, overlapped>>

DigestInit ==
  /\ today = 1
  /\ unread = {}
  /\ emailNudgeEnabled = User
  /\ lastNudgeSentAt = [u \in User |-> 0]
  /\ mailed = [u \in User |-> [d \in Day |-> 0]]
  /\ run = [p \in Dispatch |-> NULL]
  /\ started = 0
  /\ unstamped = {}
  /\ overlapped = FALSE

-----------------------------------------------------------------------------
(***************************************************************************)
(* The users: notifications come and are read, mail is switched on and     *)
(* off.                                                                    *)
(***************************************************************************)

NewNotification(u) ==
  /\ unread' = unread \cup {u}
  /\ UNCHANGED <<today, emailNudgeEnabled, lastNudgeSentAt, mailed, run, started,
                 unstamped, overlapped>>

markNotificationsRead(u) ==
  /\ unread' = unread \ {u}
  /\ UNCHANGED <<today, emailNudgeEnabled, lastNudgeSentAt, mailed, run, started,
                 unstamped, overlapped>>

setEmailNudgePreference(u) ==
  /\ \/ emailNudgeEnabled' = emailNudgeEnabled \cup {u}
     \/ emailNudgeEnabled' = emailNudgeEnabled \ {u}
  /\ UNCHANGED <<today, unread, lastNudgeSentAt, mailed, run, started, unstamped,
                 overlapped>>

NextDay ==
  /\ today < MaxDay
  /\ today' = today + 1
  /\ UNCHANGED <<unread, emailNudgeEnabled, lastNudgeSentAt, mailed, run, started,
                 unstamped, overlapped>>

-----------------------------------------------------------------------------
(***************************************************************************)
(* dispatchDailyDigest.                                                    *)
(***************************************************************************)

Running(p) == run[p] # NULL

StartDispatch(p) ==
  /\ ~Running(p)
  /\ started < MaxRuns
  /\ started' = started + 1
  /\ run' = [run EXCEPT ![p] = [now |-> today, step |-> "select", todo |-> {},
                                recipient |-> NULL]]
  /\ overlapped' = (overlapped \/ \E q \in Dispatch : Running(q))
  /\ UNCHANGED <<today, unread, emailNudgeEnabled, lastNudgeSentAt, mailed, unstamped>>

\* Mutant: not later than today, instead of before today.
DigestRecipientsToday(now) ==
  {u \in unread \cap emailNudgeEnabled : lastNudgeSentAt[u] <= now}

getDigestRecipients(now) ==
  {u \in unread \cap emailNudgeEnabled : lastNudgeSentAt[u] < now}

SelectRecipients(p) ==
  /\ Running(p)
  /\ run[p].step = "select"
  /\ run' = [run EXCEPT ![p].step = "send", ![p].todo = getDigestRecipients(run[p].now)]
  /\ UNCHANGED <<today, unread, emailNudgeEnabled, lastNudgeSentAt, mailed, started,
                 unstamped, overlapped>>

\* Mutant: a send that fails ends the loop.
SendOrStop(p) ==
  /\ Running(p)
  /\ run[p].step = "send"
  /\ \E u \in run[p].todo :
       IF u \in Unreachable
       THEN /\ run' = [run EXCEPT ![p].todo = {}]
            /\ UNCHANGED mailed
       ELSE /\ run' = [run EXCEPT ![p].step = "stamp", ![p].todo = @ \ {u},
                                  ![p].recipient = u]
            /\ mailed' = [mailed EXCEPT ![u][run[p].now] = @ + 1]
  /\ UNCHANGED <<today, unread, emailNudgeEnabled, lastNudgeSentAt, started, unstamped,
                 overlapped>>

\* Mutant: a send that fails is stamped all the same.
SendAndStamp(p) ==
  /\ Running(p)
  /\ run[p].step = "send"
  /\ \E u \in run[p].todo :
       /\ run' = [run EXCEPT ![p].step = "stamp", ![p].todo = @ \ {u}, ![p].recipient = u]
       /\ mailed' = IF u \in Unreachable THEN mailed
                    ELSE [mailed EXCEPT ![u][run[p].now] = @ + 1]
  /\ UNCHANGED <<today, unread, emailNudgeEnabled, lastNudgeSentAt, started, unstamped,
                 overlapped>>

(***************************************************************************)
(* The next recipient.  Neither the preference nor the notifications are   *)
(* looked at again.  A send that fails is logged and the loop goes on.     *)
(***************************************************************************)
SendDigest(p) ==
  /\ Running(p)
  /\ run[p].step = "send"
  /\ \E u \in run[p].todo :
       IF u \in Unreachable
       THEN /\ run' = [run EXCEPT ![p].todo = @ \ {u}]
            /\ UNCHANGED mailed
       ELSE /\ run' = [run EXCEPT ![p].step = "stamp", ![p].todo = @ \ {u},
                                  ![p].recipient = u]
            /\ mailed' = [mailed EXCEPT ![u][run[p].now] = @ + 1]
  /\ UNCHANGED <<today, unread, emailNudgeEnabled, lastNudgeSentAt, started, unstamped,
                 overlapped>>

(***************************************************************************)
(* recordNudgeSent writes the `now` of the dispatch, whatever is there.  A *)
(* failure is logged, and the recipient stays eligible.                    *)
(***************************************************************************)
recordNudgeSent(p) ==
  /\ Running(p)
  /\ run[p].step = "stamp"
  /\ LET u == run[p].recipient
     IN  \/ /\ lastNudgeSentAt' = [lastNudgeSentAt EXCEPT ![u] = run[p].now]
            /\ UNCHANGED unstamped
         \/ /\ p \in DispatchFaulty
            /\ unstamped' = unstamped \cup {u}
            /\ UNCHANGED lastNudgeSentAt
  /\ run' = [run EXCEPT ![p].step = "send", ![p].recipient = NULL]
  /\ UNCHANGED <<today, unread, emailNudgeEnabled, mailed, started, overlapped>>

FinishDispatch(p) ==
  /\ Running(p)
  /\ run[p].step = "send"
  /\ run[p].todo = {}
  /\ run' = [run EXCEPT ![p] = NULL]
  /\ UNCHANGED <<today, unread, emailNudgeEnabled, lastNudgeSentAt, mailed, started,
                 unstamped, overlapped>>

\* The process dies: what is left of the run is left to the next one.
DispatchFail(p) ==
  /\ p \in DispatchFaulty
  /\ Running(p)
  /\ run' = [run EXCEPT ![p] = NULL]
  /\ unstamped' = unstamped \cup ({run[p].recipient} \ {NULL})
  /\ UNCHANGED <<today, unread, emailNudgeEnabled, lastNudgeSentAt, mailed, started,
                 overlapped>>

DispatchContinue(p) ==
  \/ SelectRecipients(p)
  \/ SendDigest(p)
  \/ recordNudgeSent(p)
  \/ FinishDispatch(p)

DigestNext ==
  \/ \E u \in User : \/ NewNotification(u)
                     \/ markNotificationsRead(u)
                     \/ setEmailNudgePreference(u)
  \/ NextDay
  \/ \E p \in Dispatch : StartDispatch(p) \/ DispatchContinue(p) \/ DispatchFail(p)

DigestSpec == DigestInit /\ [][DigestNext]_digestVars

(***************************************************************************)
(* A dispatch that cannot die goes on.  That one is started is nobody's    *)
(* duty in this code.                                                      *)
(***************************************************************************)
DigestFairness ==
  \A p \in Dispatch \ DispatchFaulty : WF_digestVars(DispatchContinue(p))

-----------------------------------------------------------------------------
(***************************************************************************)
(* Properties.                                                             *)
(***************************************************************************)

\* Every variable of the digest keeps its type.
DigestTypeOK ==
  /\ today \in Day
  /\ unread \subseteq User
  /\ emailNudgeEnabled \subseteq User
  /\ lastNudgeSentAt \in [User -> 0 .. MaxDay]
  /\ mailed \in [User -> [Day -> Nat]]
  /\ run \in [Dispatch -> Run \cup {NULL}]
  /\ started \in 0 .. MaxRuns
  /\ unstamped \subseteq User
  /\ overlapped \in BOOLEAN

(***************************************************************************)
(* At most one nudge a day (REQ-MSG-009), whatever happens meanwhile to    *)
(* the notifications and preferences, also when some of the sends fail and *)
(* a dispatch is repeated: a second one takes a dispatch that overlapped   *)
(* another, or a watermark that was lost after its mail.                   *)
(***************************************************************************)
AtMostOneDigestADay ==
  \A u \in User, d \in Day : mailed[u][d] > 1 => overlapped \/ u \in unstamped

(***************************************************************************)
(* A user whom the watermark keeps from being mailed on a day was mailed   *)
(* by a dispatch of that day.                                              *)
(***************************************************************************)
StampedOnlyIfMailed ==
  \A u \in User : lastNudgeSentAt[u] # 0 => mailed[u][lastNudgeSentAt[u]] > 0

(***************************************************************************)
(* Both: the watermark of dispatchDailyDigest neither lets a second mail   *)
(* through nor keeps a first one back.                                     *)
(***************************************************************************)
WatermarkExact == AtMostOneDigestADay /\ StampedOnlyIfMailed

(***************************************************************************)
(* Whoever a surviving dispatch selects is mailed, also behind recipients  *)
(* whose mail fails.                                                       *)
(***************************************************************************)
SelectedIsMailed ==
  \A p \in Dispatch \ DispatchFaulty, u \in User \ Unreachable, d \in Day :
    Running(p) /\ run[p].now = d /\ u \in run[p].todo ~> mailed[u][d] > 0
=============================================================================
