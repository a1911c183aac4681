------------------------------- MODULE Reminders -------------------------------
(***************************************************************************)
(* The reminder engine (packages/db/src/repositories/reminder-engine.ts    *)
(* and reminder-cadence.ts): a run reads the default cadence, queries the  *)
(* overdue document requests, and raises a notification to the accountants *)
(* for those whose last reminder is at least the interval ago; then it     *)
(* does the same, once a calendar day, for the engagements whose due date  *)
(* approaches.  A notification is emitted first and its watermark written  *)
(* after it; nothing keeps two runs from overlapping.                      *)
(*                                                                         *)
(* Time is counted in parts of a day, because one watermark is compared by *)
(* elapsed time and the other by calendar day.  That a request is overdue, *)
(* or that a due date approaches, is decided elsewhere: when documents     *)
(* come, are deleted, and with time.                                       *)
(***************************************************************************)
EXTENDS Integers, FiniteSets, Null

CONSTANTS
  DocumentRequest,
  DueEngagement,  \* engagements with a due date
  Interval,       \* cadences, in days
  DefaultDays,    \* the seeded ReminderSetting.reminderFrequencyDays
  PartsOfDay,
  MaxTime,        \* bound on the time, in parts of a day
  Engine,         \* invocations of runReminderEngine
  EngineFaulty,   \* those that may die, or a watermark of which may fail
  MaxEngineRuns   \* bound on the runs that start

ASSUME RemindersAssumption ==
  /\ DocumentRequest \cap DueEngagement = {}
  /\ Interval \subseteq Nat
  /\ DefaultDays \in Interval
  /\ PartsOfDay \in Nat \ {0}
  /\ MaxTime \in Nat
  /\ EngineFaulty \subseteq Engine
  /\ MaxEngineRuns \in Nat
  /\ NULL \notin Interval \cup DocumentRequest \cup DueEngagement \cup Nat

VARIABLES
  time,
  frequency,    \* ReminderSetting.reminderFrequencyDays
  override,     \* Engagement.reminderFrequencyDaysOverride of each request
  watermark,    \* lastReminderSentAt, lastApproachingDueNotifiedAt
  engine,       \* what a run has still to do, NULL when it does not run
  engineStarts, \* the runs that were started
  raisedAt,     \* history: the `now` of the last notification of each item
  crossing,     \* history: runs that overlapped with another
  tainted       \* history: items raised by one of those, or left without a watermark

remindersVars == <<time, frequency, override, watermark, engine, engineStarts, raisedAt,
                   crossing, tainted>>

Item == DocumentRequest \cup DueEngagement
Time == 0 .. MaxTime
DayOf(t) == t \div PartsOfDay

\* A reminder that a run has decided on, with the cadence it was decided by, and a run.
ToRaise == [item : Item, days : Interval \cup {NULL}]
EngineRun == [now : Time, default : Interval \cup {NULL},
              step : {"requests", "engagements", "emit", "mark"}, todo : SUBSET ToRaise,
              item : Item \cup {NULL}]

ASSUME NoRunAssumption == NULL \notin EngineRun

RemindersInit ==
  /\ time = 0
  /\ frequency = DefaultDays
  /\ override = [i \in DocumentRequest |-> NULL]
  /\ watermark = [i \in Item |-> NULL]
  /\ engine = [p \in Engine |-> NULL]
  /\ engineStarts = 0
  /\ raisedAt = [i \in Item |-> NULL]
  /\ crossing = {}
  /\ tainted = {}

-----------------------------------------------------------------------------
Tick ==
  /\ time < MaxTime
  /\ time' = time + 1
  /\ UNCHANGED <<frequency, override, watermark, engine, engineStarts, raisedAt, crossing,
                 tainted>>

setGlobalDefaultCadence(n) ==
  /\ frequency' = n
  /\ UNCHANGED <<time, override, watermark, engine, engineStarts, raisedAt, crossing, tainted>>

setEngagementCadenceOverride(i, n) ==
  /\ override' = [override EXCEPT ![i] = n]
  /\ UNCHANGED <<time, frequency, watermark, engine, engineStarts, raisedAt, crossing, tainted>>

-----------------------------------------------------------------------------
(***************************************************************************)
(* runReminderEngine.                                                      *)
(***************************************************************************)

EngineRuns(p) == engine[p] # NULL

\* `now` and the default are read once, before the first query.
StartEngine(p) ==
  LET others == {q \in Engine : EngineRuns(q)}
  IN  /\ ~EngineRuns(p)
      /\ engineStarts < MaxEngineRuns
      /\ engineStarts' = engineStarts + 1
      /\ engine' = [engine EXCEPT ![p] = [now |-> time, default |-> frequency,
                                          step |-> "requests", todo |-> {}, item |-> NULL]]
      /\ crossing' = IF others = {} THEN crossing ELSE crossing \cup others \cup {p}
      /\ UNCHANGED <<time, frequency, override, watermark, raisedAt, tainted>>

resolveReminderCadence(i, default) == IF override[i] = NULL THEN default ELSE override[i]

\* Mutant: compared by calendar day, like the other watermark.
RaiseByCalendarDay(now, last, days) ==
  last = NULL \/ DayOf(now) - DayOf(last) >= days

shouldRaiseReminder(now, last, days) ==
  last = NULL \/ now - last >= days * PartsOfDay

(***************************************************************************)
(* The query returns the watermark and the override with every row, and    *)
(* the loop works on what it returned: so the decision is part of the      *)
(* query.  The rows are those of any overdue requests.                     *)
(***************************************************************************)
SelectOverdue(p) ==
  /\ EngineRuns(p)
  /\ engine[p].step = "requests"
  /\ LET now == engine[p].now
         Cadence(i) == resolveReminderCadence(i, engine[p].default)
     IN  \E overdue \in SUBSET DocumentRequest :
           engine' = [engine EXCEPT
             ![p].step = "emit",
             ![p].todo = {[item |-> i, days |-> Cadence(i)] :
                            i \in {j \in overdue :
                                     shouldRaiseReminder(now, watermark[j], Cadence(j))}}]
  /\ UNCHANGED <<time, frequency, override, watermark, engineStarts, raisedAt, crossing, tainted>>

\* The query itself asks for a watermark of an earlier day.
SelectApproaching(p) ==
  /\ EngineRuns(p)
  /\ engine[p].step = "engagements"
  /\ LET now == engine[p].now
     IN  \E near \in SUBSET DueEngagement :
           engine' = [engine EXCEPT
             ![p].step = "emit",
             ![p].default = NULL,
             ![p].todo = {[item |-> e, days |-> NULL] :
                            e \in {g \in near : \/ watermark[g] = NULL
                                                \/ DayOf(watermark[g]) < DayOf(now)}}]
  /\ UNCHANGED <<time, frequency, override, watermark, engineStarts, raisedAt, crossing, tainted>>

\* emitNotification: one item of the list.  When it fails the next one follows.
EmitReminder(p) ==
  /\ EngineRuns(p)
  /\ engine[p].step = "emit"
  /\ \E x \in engine[p].todo :
       \/ /\ engine' = [engine EXCEPT ![p].step = "mark", ![p].todo = @ \ {x},
                                      ![p].item = x.item]
          /\ raisedAt' = [raisedAt EXCEPT ![x.item] = engine[p].now]
          /\ tainted' = IF p \in crossing THEN tainted \cup {x.item}
                                          ELSE tainted \ {x.item}
       \/ /\ p \in EngineFaulty
          /\ engine' = [engine EXCEPT ![p].todo = @ \ {x}]
          /\ UNCHANGED <<raisedAt, tainted>>
  /\ UNCHANGED <<time, frequency, override, watermark, engineStarts, crossing>>

\* A failure of the watermark is logged and the loop goes on.
MarkReminded(p) ==
  /\ EngineRuns(p)
  /\ engine[p].step = "mark"
  /\ LET i == engine[p].item
     IN  \/ /\ watermark' = [watermark EXCEPT ![i] = engine[p].now]
            /\ tainted' = IF p \in crossing THEN tainted \cup {i} ELSE tainted
         \/ /\ p \in EngineFaulty
            /\ tainted' = tainted \cup {i}
            /\ UNCHANGED watermark
  /\ engine' = [engine EXCEPT ![p].step = "emit", ![p].item = NULL]
  /\ UNCHANGED <<time, frequency, override, engineStarts, raisedAt, crossing>>

EndRun(p) ==
  /\ engine' = [engine EXCEPT ![p] = NULL]
  /\ crossing' = crossing \ {p}

\* The first list is done: the second query; the second: the run is over.
FinishList(p) ==
  /\ EngineRuns(p)
  /\ engine[p].step = "emit"
  /\ engine[p].todo = {}
  /\ IF engine[p].default = NULL
     THEN EndRun(p)
     ELSE /\ engine' = [engine EXCEPT ![p].step = "engagements"]
          /\ UNCHANGED crossing
  /\ UNCHANGED <<time, frequency, override, watermark, engineStarts, raisedAt, tainted>>

EngineFail(p) ==
  /\ p \in EngineFaulty
  /\ EngineRuns(p)
  /\ EndRun(p)
  /\ tainted' = tainted \cup ({engine[p].item} \ {NULL})
  /\ UNCHANGED <<time, frequency, override, watermark, engineStarts, raisedAt>>

EngineStep(p) ==
  \/ StartEngine(p)
  \/ SelectOverdue(p)
  \/ SelectApproaching(p)
  \/ EmitReminder(p)
  \/ MarkReminded(p)
  \/ FinishList(p)
  \/ EngineFail(p)

RemindersNext ==
  \/ Tick
  \/ \E n \in Interval : setGlobalDefaultCadence(n)
  \/ \E i \in DocumentRequest, n \in Interval \cup {NULL} : setEngagementCadenceOverride(i, n)
  \/ \E p \in Engine : EngineStep(p)

RemindersSpec == RemindersInit /\ [][RemindersNext]_remindersVars

-----------------------------------------------------------------------------
(***************************************************************************)
(* Properties.                                                             *)
(***************************************************************************)

\* Every variable of the reminders keeps its type.
RemindersTypeOK ==
  /\ time \in Time
  /\ frequency \in Interval
  /\ override \in [DocumentRequest -> Interval \cup {NULL}]
  /\ watermark \in [Item -> Time \cup {NULL}]
  /\ engine \in [Engine -> EngineRun \cup {NULL}]
  /\ engineStarts \in 0 .. MaxEngineRuns
  /\ raisedAt \in [Item -> Time \cup {NULL}]
  /\ crossing \subseteq Engine
  /\ tainted \subseteq Item

(***************************************************************************)
(* Not more often than the cadence (AC-MSG-018-03): a run that overlaps    *)
(* with no other raises a reminder no sooner after the last one than the   *)
(* cadence it resolved for the request, though cadences change between and *)
(* during the runs; and it raises at most one notice of an engagement a    *)
(* day.  Only an item that an overlapping run raised, or whose watermark   *)
(* was lost after its notice, may be raised too soon, once.                *)
(***************************************************************************)
SpacedFrom(last, now, days) ==
  \/ last = NULL
  \/ days # NULL /\ now - last >= days * PartsOfDay
  \/ days = NULL /\ DayOf(now) > DayOf(last)

RemindersSpaced ==
  \A p \in Engine : EngineRuns(p) /\ p \notin crossing =>
    \A x \in engine[p].todo :
      x.item \notin tainted => SpacedFrom(raisedAt[x.item], engine[p].now, x.days)
=============================================================================
