----------------------- MODULE EngagementLifecycle -----------------------
(***************************************************************************)
(* The life of an engagement on the accountant's side                      *)
(* (packages/db/src/repositories/engagement.ts, retention.ts, thread.ts).  *)
(*                                                                         *)
(* Every function of engagement.ts modelled here opens one database        *)
(* transaction whose FIRST statement is a guarded UPDATE of the Engagement *)
(* row, takes the row's lock there, and adds the AuditEvent row before it  *)
(* commits: nobody sees a state between the two, so the transaction is one *)
(* action (a rollback changes nothing).  What runs after the commit is     *)
(* not part of it: stamping the retention clock, its audit row, archiving  *)
(* the thread and telling the client are database round trips of their     *)
(* own, between which any other handler may run and the server may fail.   *)
(* A handler invocation that has such steps left is a process p \in Proc.  *)
(***************************************************************************)
EXTENDS Integers, FiniteSets

CONSTANTS
  Engagement,   \* Engagement.id values
  WithClient,   \* the engagements whose clientUserId is not NULL
  Proc,         \* handler invocations of the admin application
  Faulty,       \* the invocations that may die between two steps
  NULL,         \* SQL NULL
  MaxYear,      \* bound: years of wall-clock time explored
  MaxReopens    \* bound: reopenings per engagement

ASSUME LifecycleAssumption ==
  /\ WithClient \subseteq Engagement
  /\ Faulty \subseteq Proc
  /\ MaxYear \in Nat
  /\ MaxReopens \in Nat
  /\ NULL \notin Nat

VARIABLES
  now,                  \* SYSDATETIMEOFFSET(), in years
  status,               \* Engagement.status
  deliveryConfirmedAt,  \* is the column non-NULL? (its value is never read)
  filingConfirmedAt,
  completedAt,          \* NULL, or the year of the retention-clock stamp
  thread,               \* the engagement's Thread row: "none" before it exists
  audit,                \* AuditEvent rows of each action, counted
  notices,              \* CLIENT Notification rows of each type, counted
  pc,                   \* the next step of each handler invocation
  eng                   \* the engagement it works on, NULL when idle

rowVars  == <<status, deliveryConfirmedAt, filingConfirmedAt>>
postVars == <<completedAt, thread, notices>>
procVars == <<pc, eng>>
lifecycleVars == <<now, rowVars, postVars, audit, procVars>>

\* EngagementStatus; the code writes 'In Progress'
Status == {"New", "InProgress", "Review", "Complete"}

AuditAction == {"engagement.transition", "engagement.reopen",
                "engagement.confirm_delivery", "engagement.confirm_filing",
                "engagement.completed_stamped"}

ClientNotice == {"engagement_status_changed", "deliverable_ready"}

Step == {"idle", "stamp", "stampAudit", "archive", "notifyStatus", "notifyDelivery"}

LIFECYCLE_ALLOWED_TRANSITIONS ==
  { <<"New", "InProgress">>, <<"InProgress", "Review">>, <<"Review", "Complete">> }

(***************************************************************************)
(* INSERT of one AuditEvent row about engagement e.                        *)
(***************************************************************************)
Record(e, action) == audit' = [audit EXCEPT ![e][action] = @ + 1]

(***************************************************************************)
(* Handler invocation p goes on with the given step for engagement e.      *)
(***************************************************************************)
GoTo(p, e, step) ==
  /\ pc' = [pc EXCEPT ![p] = step]
  /\ eng' = [eng EXCEPT ![p] = IF step = "idle" THEN NULL ELSE e]

LifecycleInit ==
  /\ now = 0
  /\ status = [e \in Engagement |-> "New"]
  /\ deliveryConfirmedAt = [e \in Engagement |-> FALSE]
  /\ filingConfirmedAt = [e \in Engagement |-> FALSE]
  /\ completedAt = [e \in Engagement |-> NULL]
  /\ thread = [e \in Engagement |-> "none"]
  /\ audit = [e \in Engagement |-> [a \in AuditAction |-> 0]]
  /\ notices = [e \in Engagement |-> [n \in ClientNotice |-> 0]]
  /\ pc = [p \in Proc |-> "idle"]
  /\ eng = [p \in Proc |-> NULL]

-----------------------------------------------------------------------------
(***************************************************************************)
(* Transactions.                                                           *)
(***************************************************************************)

\* Mutant: the UPDATE is not guarded by the status the caller saw.
transitionUnguarded(p, e, from, to) ==
  /\ pc[p] = "idle"
  /\ <<from, to>> \in LIFECYCLE_ALLOWED_TRANSITIONS
  /\ to = "Complete" => deliveryConfirmedAt[e] /\ filingConfirmedAt[e]
  /\ status' = [status EXCEPT ![e] = to]
  /\ Record(e, "engagement.transition")
  /\ GoTo(p, e, IF to = "Complete" THEN "stamp" ELSE "notifyStatus")
  /\ UNCHANGED <<now, deliveryConfirmedAt, filingConfirmedAt, postVars>>

\* Mutant: the retention clock is stamped when Review is reached.
transitionStampsReview(p, e, from, to) ==
  /\ pc[p] = "idle"
  /\ <<from, to>> \in LIFECYCLE_ALLOWED_TRANSITIONS
  /\ status[e] = from
  /\ to = "Complete" => deliveryConfirmedAt[e] /\ filingConfirmedAt[e]
  /\ status' = [status EXCEPT ![e] = to]
  /\ Record(e, "engagement.transition")
  /\ GoTo(p, e, IF to \in {"Review", "Complete"} THEN "stamp" ELSE "notifyStatus")
  /\ UNCHANGED <<now, deliveryConfirmedAt, filingConfirmedAt, postVars>>

(***************************************************************************)
(* transitionEngagementStatus, up to its commit.  advanceStatusAction      *)
(* passes the from and to of the page the accountant looked at,            *)
(* completeEngagementAction the status it has just read: either way the    *)
(* UPDATE is guarded by the status the row has now.                        *)
(***************************************************************************)
transitionEngagementStatus(p, e, from, to) ==
  /\ pc[p] = "idle"
  /\ <<from, to>> \in LIFECYCLE_ALLOWED_TRANSITIONS
  /\ status[e] = from
  /\ to = "Complete" => deliveryConfirmedAt[e] /\ filingConfirmedAt[e]
  /\ status' = [status EXCEPT ![e] = to]
  /\ Record(e, "engagement.transition")
  /\ GoTo(p, e, IF to = "Complete" THEN "stamp" ELSE "notifyStatus")
  /\ UNCHANGED <<now, deliveryConfirmedAt, filingConfirmedAt, postVars>>

(***************************************************************************)
(* The transaction of processOnboardingCompletion: the system, not the     *)
(* accountant, starts the work.  Onboarding says when it does.             *)
(***************************************************************************)
StartByOnboarding(e) ==
  /\ status[e] = "New"
  /\ status' = [status EXCEPT ![e] = "InProgress"]
  /\ Record(e, "engagement.transition")
  /\ UNCHANGED <<now, deliveryConfirmedAt, filingConfirmedAt, postVars, procVars>>

\* Mutant: a second confirmation goes through.
confirmDeliveryAgain(p, e) ==
  /\ pc[p] = "idle"
  /\ audit[e]["engagement.confirm_delivery"] < 3
  /\ deliveryConfirmedAt' = [deliveryConfirmedAt EXCEPT ![e] = TRUE]
  /\ Record(e, "engagement.confirm_delivery")
  /\ GoTo(p, e, "notifyDelivery")
  /\ UNCHANGED <<now, status, filingConfirmedAt, postVars>>

confirmDelivery(p, e) ==
  /\ pc[p] = "idle"
  /\ ~deliveryConfirmedAt[e]
  /\ deliveryConfirmedAt' = [deliveryConfirmedAt EXCEPT ![e] = TRUE]
  /\ Record(e, "engagement.confirm_delivery")
  /\ GoTo(p, e, "notifyDelivery")
  /\ UNCHANGED <<now, status, filingConfirmedAt, postVars>>

confirmFiling(e) ==
  /\ ~filingConfirmedAt[e]
  /\ filingConfirmedAt' = [filingConfirmedAt EXCEPT ![e] = TRUE]
  /\ Record(e, "engagement.confirm_filing")
  /\ UNCHANGED <<now, status, deliveryConfirmedAt, postVars, procVars>>

\* Mutant: the confirmations survive the reopening.
reopenKeepsConfirmations(e) ==
  /\ audit[e]["engagement.reopen"] < MaxReopens
  /\ status[e] = "Complete"
  /\ status' = [status EXCEPT ![e] = "InProgress"]
  /\ Record(e, "engagement.reopen")
  /\ UNCHANGED <<now, deliveryConfirmedAt, filingConfirmedAt, postVars, procVars>>

(***************************************************************************)
(* Clears both confirmations; leaves completedAt and the thread alone.     *)
(***************************************************************************)
reopenEngagement(e) ==
  /\ audit[e]["engagement.reopen"] < MaxReopens
  /\ status[e] = "Complete"
  /\ status' = [status EXCEPT ![e] = "InProgress"]
  /\ deliveryConfirmedAt' = [deliveryConfirmedAt EXCEPT ![e] = FALSE]
  /\ filingConfirmedAt' = [filingConfirmedAt EXCEPT ![e] = FALSE]
  /\ Record(e, "engagement.reopen")
  /\ UNCHANGED <<now, postVars, procVars>>

-----------------------------------------------------------------------------
(***************************************************************************)
(* After the commit.                                                       *)
(***************************************************************************)

\* Mutant: no WHERE completedAt IS NULL.
StampAgain(p) ==
  /\ pc[p] = "stamp"
  /\ completedAt' = [completedAt EXCEPT ![eng[p]] = now]
  /\ GoTo(p, eng[p], "stampAudit")
  /\ UNCHANGED <<now, rowVars, thread, notices, audit>>

\* Mutant: the number of rows the UPDATE touched is not looked at.
StampAuditsAlways(p) ==
  /\ pc[p] = "stamp"
  /\ completedAt' = [completedAt EXCEPT ![eng[p]] = IF @ = NULL THEN now ELSE @]
  /\ GoTo(p, eng[p], "stampAudit")
  /\ UNCHANGED <<now, rowVars, thread, notices, audit>>

(***************************************************************************)
(* setEngagementCompleted, first round trip.  The UPDATE goes through the  *)
(* pool and not through the open transaction: it commits by itself.        *)
(***************************************************************************)
StampCompletion(p) ==
  /\ pc[p] = "stamp"
  /\ IF completedAt[eng[p]] = NULL
     THEN /\ completedAt' = [completedAt EXCEPT ![eng[p]] = now]
          /\ GoTo(p, eng[p], "stampAudit")
     ELSE /\ UNCHANGED completedAt
          /\ GoTo(p, eng[p], "archive")
  /\ UNCHANGED <<now, rowVars, thread, notices, audit>>

(***************************************************************************)
(* setEngagementCompleted, second round trip: the audit row, on the        *)
(* transaction, which then commits.                                        *)
(***************************************************************************)
AuditStamp(p) ==
  /\ pc[p] = "stampAudit"
  /\ Record(eng[p], "engagement.completed_stamped")
  /\ GoTo(p, eng[p], "archive")
  /\ UNCHANGED <<now, rowVars, postVars>>

\* Mutant: a status the Thread table does not know.
archiveAsClosed(p) ==
  /\ pc[p] = "archive"
  /\ thread' = [thread EXCEPT ![eng[p]] = IF @ = "active" THEN "closed" ELSE @]
  /\ GoTo(p, eng[p], "notifyStatus")
  /\ UNCHANGED <<now, rowVars, completedAt, notices, audit>>

\* Mutant: archives only while the engagement still is Complete.
archiveWhileComplete(p) ==
  /\ pc[p] = "archive"
  /\ thread' = [thread EXCEPT ![eng[p]] =
                  IF @ = "active" /\ status[eng[p]] = "Complete" THEN "archived" ELSE @]
  /\ GoTo(p, eng[p], "notifyStatus")
  /\ UNCHANGED <<now, rowVars, completedAt, notices, audit>>

archiveEngagementThread(p) ==
  /\ pc[p] = "archive"
  /\ thread' = [thread EXCEPT ![eng[p]] = IF @ = "active" THEN "archived" ELSE @]
  /\ GoTo(p, eng[p], "notifyStatus")
  /\ UNCHANGED <<now, rowVars, completedAt, notices, audit>>

\* Mutant: the notification is sent again when the handler is retried.
NotifyClientRetried(p) ==
  \E notice \in ClientNotice :
    /\ \/ pc[p] = "notifyStatus" /\ notice = "engagement_status_changed"
       \/ pc[p] = "notifyDelivery" /\ notice = "deliverable_ready"
    /\ notices' = [notices EXCEPT ![eng[p]][notice] =
                     IF eng[p] \in WithClient THEN @ + 1 ELSE @]
    /\ UNCHANGED <<now, rowVars, completedAt, thread, audit, procVars>>

(***************************************************************************)
(* resolveEngagementClientUserId and the INSERT of the notification: none  *)
(* for an engagement that has no client.                                   *)
(***************************************************************************)
NotifyClient(p) ==
  \E notice \in ClientNotice :
    /\ \/ pc[p] = "notifyStatus" /\ notice = "engagement_status_changed"
       \/ pc[p] = "notifyDelivery" /\ notice = "deliverable_ready"
    /\ notices' = [notices EXCEPT ![eng[p]][notice] =
                     IF eng[p] \in WithClient THEN @ + 1 ELSE @]
    /\ GoTo(p, eng[p], "idle")
    /\ UNCHANGED <<now, rowVars, completedAt, thread, audit>>

(***************************************************************************)
(* getOrCreateEngagementThread, called from the engagement's message pages *)
(***************************************************************************)
getOrCreateEngagementThread(e) ==
  /\ thread[e] = "none"
  /\ thread' = [thread EXCEPT ![e] = "active"]
  /\ UNCHANGED <<now, rowVars, completedAt, notices, audit, procVars>>

-----------------------------------------------------------------------------
(***************************************************************************)
(* A statement throws, or the server process dies: the rest of the handler *)
(* never runs.  Nothing resumes it: there is no job that looks for         *)
(* half-finished completions.                                              *)
(***************************************************************************)
Fail(p) ==
  /\ p \in Faulty
  /\ pc[p] # "idle"
  /\ GoTo(p, eng[p], "idle")
  /\ UNCHANGED <<now, rowVars, postVars, audit>>

Tick ==
  /\ now < MaxYear
  /\ now' = now + 1
  /\ UNCHANGED <<rowVars, postVars, audit, procVars>>

(***************************************************************************)
(* What an invocation that has committed does next.                        *)
(***************************************************************************)
PostCommit(p) ==
  \/ StampCompletion(p)
  \/ AuditStamp(p)
  \/ archiveEngagementThread(p)
  \/ NotifyClient(p)

Accountant(p, e) ==
  \/ \E from, to \in Status : transitionEngagementStatus(p, e, from, to)
  \/ confirmDelivery(p, e)

(***************************************************************************)
(* Everything but the start of the work by the onboarding of the client.   *)
(***************************************************************************)
AccountantSide ==
  \/ Tick
  \/ \E e \in Engagement :
       \/ confirmFiling(e)
       \/ reopenEngagement(e)
       \/ getOrCreateEngagementThread(e)
  \/ \E p \in Proc, e \in Engagement : Accountant(p, e)
  \/ \E p \in Proc : PostCommit(p) \/ Fail(p)

LifecycleNext == AccountantSide \/ \E e \in Engagement : StartByOnboarding(e)

LifecycleSpec == LifecycleInit /\ [][LifecycleNext]_lifecycleVars

(***************************************************************************)
(* Node.js resumes a handler whose database call has returned, and the     *)
(* pool's timeouts make every call return: an invocation that cannot fail  *)
(* goes on.  Nothing obliges the accountant to do anything.                *)
(***************************************************************************)
LifecycleFairSpec == LifecycleSpec /\ \A p \in Proc \ Faulty : WF_lifecycleVars(PostCommit(p))

-----------------------------------------------------------------------------
(***************************************************************************)
(* Properties.                                                             *)
(***************************************************************************)

\* Every variable keeps its type.
LifecycleTypeOK ==
  /\ now \in Nat
  /\ status \in [Engagement -> Status]
  /\ deliveryConfirmedAt \in [Engagement -> BOOLEAN]
  /\ filingConfirmedAt \in [Engagement -> BOOLEAN]
  /\ completedAt \in [Engagement -> Nat \cup {NULL}]
  /\ thread \in [Engagement -> {"none", "active", "archived"}]
  /\ audit \in [Engagement -> [AuditAction -> Nat]]
  /\ notices \in [Engagement -> [ClientNotice -> Nat]]
  /\ pc \in [Proc -> Step]
  /\ eng \in [Proc -> Engagement \cup {NULL}]
  /\ \A p \in Proc : pc[p] # "idle" => eng[p] \in Engagement

\* How many of a condition there are: none or one.
Standing(confirmed) == IF confirmed THEN 1 ELSE 0

\* How many forward steps lie between New and a status.
Rank(s) == IF s = "New" THEN 0
           ELSE IF s = "InProgress" THEN 1
           ELSE IF s = "Review" THEN 2 ELSE 3

\* What the audit rows of e add up to.
TrailMatchesRow(e) ==
  LET reopened == audit[e]["engagement.reopen"]
  IN  /\ audit[e]["engagement.transition"] = Rank(status[e]) + 2 * reopened
      /\ audit[e]["engagement.confirm_delivery"] = reopened + Standing(deliveryConfirmedAt[e])
      /\ audit[e]["engagement.confirm_filing"] = reopened + Standing(filingConfirmedAt[e])

(***************************************************************************)
(* The audit trail accounts for the row (ADR-019): from the number of      *)
(* audit rows alone one computes the status and both confirmations, after  *)
(* any interleaving of transitions, confirmations, reopenings and failed   *)
(* handlers.  A change without its audit row, or an audit row for a change *)
(* that lost its race, breaks one of the equations for good.               *)
(***************************************************************************)
AuditAccountsForStatus == \A e \in Engagement : TrailMatchesRow(e)

(***************************************************************************)
(* A Complete engagement is confirmed (AC-LIFE-005-03), and confirmed      *)
(* afresh: each completion, the ones after a reopening included, has used  *)
(* up one delivery and one filing confirmation of its own.                 *)
(***************************************************************************)
CompleteNeedsFreshConfirmations ==
  \A e \in Engagement :
    LET completions == audit[e]["engagement.reopen"]
                         + (IF status[e] = "Complete" THEN 1 ELSE 0)
    IN  /\ status[e] = "Complete" => deliveryConfirmedAt[e] /\ filingConfirmedAt[e]
        /\ completions <= audit[e]["engagement.confirm_delivery"]
        /\ completions <= audit[e]["engagement.confirm_filing"]

(***************************************************************************)
(* The retention clock runs only for an engagement that was completed at   *)
(* least once, even when the stamp comes late (the engagement may have     *)
(* been reopened before its handler got to setEngagementCompleted).        *)
(***************************************************************************)
ClockOnlyAfterCompletion ==
  \A e \in Engagement :
    completedAt[e] # NULL =>
      /\ audit[e]["engagement.transition"] >= 3
      /\ completedAt[e] <= now

(***************************************************************************)
(* setEngagementCompleted is fire-once: however many handlers are stamping *)
(* the same engagement, at most one 'engagement.completed_stamped' row is  *)
(* ever written, and only for a clock that is set.                         *)
(***************************************************************************)
StampAuditedOnce ==
  \A e \in Engagement :
    /\ audit[e]["engagement.completed_stamped"] <= 1
    /\ audit[e]["engagement.completed_stamped"] = 1 => completedAt[e] # NULL

(***************************************************************************)
(* Both, of the clock that decides when a document may be destroyed        *)
(* (setEngagementCompleted): it runs only after a completion, and its      *)
(* start is on record once.                                                *)
(***************************************************************************)
RetentionClockSound == ClockOnlyAfterCompletion /\ StampAuditedOnce

(***************************************************************************)
(* The client is told of a status change at most once per change, and only *)
(* of changes that were committed: notifications sent, and those the       *)
(* handlers in flight have still to send, never exceed the transitions.    *)
(***************************************************************************)
NoPhantomNotice ==
  \A e \in Engagement :
    LET Pending(steps) == Cardinality({p \in Proc : pc[p] \in steps /\ eng[p] = e})
    IN  /\ notices[e]["engagement_status_changed"]
             + Pending({"stamp", "stampAudit", "archive", "notifyStatus"})
             <= audit[e]["engagement.transition"]
        /\ notices[e]["deliverable_ready"] + Pending({"notifyDelivery"})
             <= audit[e]["engagement.confirm_delivery"]

(***************************************************************************)
(* The retention clock starts once: no step moves or clears a completedAt  *)
(* that is set, not even a second completion after a reopening (ADR-018).  *)
(***************************************************************************)
RetentionClockFireOnce ==
  [][\A e \in Engagement :
       completedAt[e] # NULL => completedAt'[e] = completedAt[e]]_lifecycleVars

(***************************************************************************)
(* The audit rows of the engagement are a history of EngagementLedger.     *)
(***************************************************************************)
Ledger == INSTANCE EngagementLedger WITH
  ledger <- [e \in Engagement |-> [a \in AuditAction \ {"engagement.completed_stamped"} |->
                                     audit[e][a]]]

ImplementsLedger == Ledger!LedgerSpec

(***************************************************************************)
(* A completion whose handler survives starts the retention clock and      *)
(* archives an open thread, whatever the other handlers do meanwhile:      *)
(* reopening the engagement, completing it again, dying half-way.          *)
(***************************************************************************)
CompletionTakesEffect ==
  \A p \in Proc \ Faulty, e \in Engagement :
    /\ (pc[p] = "stamp" /\ eng[p] = e) ~> completedAt[e] # NULL
    /\ (pc[p] = "stamp" /\ eng[p] = e /\ thread[e] = "active") ~> thread[e] = "archived"
=============================================================================
