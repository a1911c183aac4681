--------------------------- MODULE EngagementPanels ---------------------------
(***************************************************************************)
(* The panels on the page of an engagement (apps/admin/src/app/            *)
(* engagements/[engagementId]: page.tsx and in _components                 *)
(* EngagementStatusPanel.tsx, EngagementAttributesPanel.tsx and            *)
(* ReminderOverridePanel.tsx), with the actions they call and the writes   *)
(* of packages/db/src/repositories/engagement.ts and reminder-cadence.ts.  *)
(*                                                                         *)
(* A panel keeps what it was first rendered with in a state of its own: an *)
(* action that succeeds makes the page be rendered again, but what changes *)
(* in the panel is only what its handler sets.  What an accountant sees    *)
(* and acts on may be older than what another accountant did.              *)
(*                                                                         *)
(* The panels write different columns of the row, so that a behaviour has  *)
(* one of them, `area`.  A transition is one step here; what follows its   *)
(* commit is in EngagementLifecycle.tla.                                   *)
(***************************************************************************)
EXTENDS Naturals, FiniteSets, Null

CONSTANTS
  PanelTab,      \* browser tabs of accountants
  SettingValue,  \* due dates, and frequencies of reminders
  MaxNotes,      \* bound on the notes
  MaxReopenings  \* bound on the calls that reopen

ASSUME EngagementPanelsAssumption ==
  /\ MaxNotes \in Nat /\ MaxReopenings \in Nat
  /\ NULL \notin {"done", "refused"}

VARIABLES
  area,     \* the panel, or part of one, the same throughout
  stored,    \* what the area shows of the engagement's row
  panel,    \* per tab what is shown and the call under way, NULL without a page
  overtaken, \* history: tabs that have not seen what another tab, or the client, did
  reopened  \* history: how often the engagement was reopened

engagementPanelsVars == <<area, stored, panel, overtaken, reopened>>

Area == {"status", "dueDate", "isPriority", "notes", "override"}

Stage == {"New", "In Progress", "Review", "Complete"}
Progress == [stage : Stage, delivered : BOOLEAN, filed : BOOLEAN]

\* The values that the area may have.
Values ==
  [status |-> Progress,
   dueDate |-> SettingValue \cup {NULL},
   override |-> SettingValue \cup {NULL},
   isPriority |-> BOOLEAN,
   notes |-> SUBSET (1 .. MaxNotes)]

PanelOp == {"advance", "confirm delivery", "confirm filing", "complete", "reopen", "set",
            "record note"}
CallRow(a) ==
  [op : PanelOp, sets : Values[a] \cup {NULL}, answer : {"done", "refused", NULL}]

ASSUME NoCallAssumption == \A a \in Area : NULL \notin CallRow(a)

\* What a new engagement has.
NewRow ==
  [status |-> [stage |-> "New", delivered |-> FALSE, filed |-> FALSE],
   dueDate |-> NULL,
   override |-> NULL,
   isPriority |-> FALSE,
   notes |-> {}]

EngagementPanelsInit ==
  /\ area \in Area
  /\ stored = NewRow[area]
  /\ panel = [t \in PanelTab |-> NULL]
  /\ overtaken = {}
  /\ reopened = 0

\* The page is rendered from the row.  A tab that is loaded anew while a call is under
\* way, which goes on, counts as another tab.
EngagementDetailPage(t) ==
  /\ panel[t] # NULL => panel[t].call = NULL
  /\ panel' = [panel EXCEPT ![t] = [shows |-> stored, call |-> NULL]]
  /\ overtaken' = overtaken \ {t}
  /\ UNCHANGED <<area, stored, reopened>>

\* The controls of a panel are disabled while a call is under way.
Settled(t) == panel[t] # NULL /\ panel[t].call = NULL

\* The tab calls an action; `sets` is what the panel will show when it succeeds.
Invoke(t, op, sets) ==
  /\ Settled(t)
  /\ panel' = [panel EXCEPT ![t].call = [op |-> op, sets |-> sets, answer |-> NULL]]
  /\ UNCHANGED <<area, stored, overtaken, reopened>>

-----------------------------------------------------------------------------
(***************************************************************************)
(* The status panel.  Each button is there at its stage, as it is shown.   *)
(***************************************************************************)
AtStage(t, stage) == area = "status" /\ Settled(t) /\ panel[t].shows.stage = stage

handleAdvance(t) ==
  \/ AtStage(t, "New") /\ Invoke(t, "advance", [panel[t].shows EXCEPT !.stage = "In Progress"])
  \/ AtStage(t, "In Progress") /\ Invoke(t, "advance", [panel[t].shows EXCEPT !.stage = "Review"])

handleConfirmDelivery(t) ==
  /\ AtStage(t, "Review")
  /\ ~panel[t].shows.delivered
  /\ Invoke(t, "confirm delivery", [panel[t].shows EXCEPT !.delivered = TRUE])

handleConfirmFiling(t) ==
  /\ AtStage(t, "Review")
  /\ ~panel[t].shows.filed
  /\ Invoke(t, "confirm filing", [panel[t].shows EXCEPT !.filed = TRUE])

handleComplete(t) ==
  /\ AtStage(t, "Review")
  /\ panel[t].shows.delivered /\ panel[t].shows.filed
  /\ Invoke(t, "complete", [panel[t].shows EXCEPT !.stage = "Complete"])

\* Mutant: only the status is set in the panel.
ReopenStatusOnly(t) ==
  /\ AtStage(t, "Complete")
  /\ Invoke(t, "reopen", [panel[t].shows EXCEPT !.stage = "In Progress"])

handleReopen(t) ==
  /\ AtStage(t, "Complete")
  /\ Invoke(t, "reopen", [stage |-> "In Progress", delivered |-> FALSE, filed |-> FALSE])

-----------------------------------------------------------------------------
(***************************************************************************)
(* The other panels.  A note is shown from what was typed.                 *)
(***************************************************************************)
handleSetDueDate(t, v) == area = "dueDate" /\ Invoke(t, "set", v)

handleSetOverride(t, v) == area = "override" /\ v # NULL /\ Invoke(t, "set", v)
handleClearOverride(t) ==
  /\ area = "override"
  /\ panel[t] # NULL
  /\ panel[t].shows # NULL
  /\ Invoke(t, "set", NULL)

handleTogglePriority(t) ==
  /\ area = "isPriority"
  /\ panel[t] # NULL
  /\ Invoke(t, "set", ~panel[t].shows)

\* The ids of notes are given by the INSERT.
handleRecordNote(t) == area = "notes" /\ Invoke(t, "record note", NULL)

-----------------------------------------------------------------------------
(***************************************************************************)
(* The actions: a write in a transaction with its audit event, and the     *)
(* answer.  Every one of them may also refuse, or throw.                   *)
(***************************************************************************)
Called(t, op) ==
  panel[t] # NULL /\ panel[t].call # NULL /\ panel[t].call.op = op /\ panel[t].call.answer = NULL

Reply(t, answer) == panel' = [panel EXCEPT ![t].call.answer = answer]

\* Everybody else is behind; so may be the caller, of what the handler does not set.
Write(t, value, SetsAll) ==
  /\ stored' = value
  /\ overtaken' = PanelTab \ (IF SetsAll \/ t \notin overtaken THEN {t} ELSE {})
  /\ UNCHANGED area

\* The status must be the one that the panel showed.
advanceStatus(t) ==
  /\ Called(t, "advance")
  /\ stored.stage = panel[t].shows.stage
  /\ Write(t, [stored EXCEPT !.stage = panel[t].call.sets.stage], FALSE)
  /\ Reply(t, "done")
  /\ UNCHANGED reopened

\* A confirmation asks for no status: of a page from before a reopening it counts too.
confirm(t) ==
  /\ \/ /\ Called(t, "confirm delivery")
        /\ ~stored.delivered
        /\ Write(t, [stored EXCEPT !.delivered = TRUE], FALSE)
     \/ /\ Called(t, "confirm filing")
        /\ ~stored.filed
        /\ Write(t, [stored EXCEPT !.filed = TRUE], FALSE)
  /\ Reply(t, "done")
  /\ UNCHANGED reopened

\* Completing asks for what is stored, not for what the panel showed.
completeEngagement(t) ==
  /\ Called(t, "complete")
  /\ stored = [stage |-> "Review", delivered |-> TRUE, filed |-> TRUE]
  /\ Write(t, [stored EXCEPT !.stage = "Complete"], TRUE)
  /\ Reply(t, "done")
  /\ UNCHANGED reopened

reopen(t) ==
  /\ Called(t, "reopen")
  /\ stored.stage = "Complete"
  /\ reopened < MaxReopenings
  /\ reopened' = reopened + 1
  /\ Write(t, [stage |-> "In Progress", delivered |-> FALSE, filed |-> FALSE], TRUE)
  /\ Reply(t, "done")

\* setEngagementDueDate, setEngagementPriority, setEngagementCadenceOverride.
setAttribute(t) ==
  /\ Called(t, "set")
  /\ Write(t, panel[t].call.sets, TRUE)
  /\ Reply(t, "done")
  /\ UNCHANGED reopened

recordEngagementNote(t) ==
  /\ Called(t, "record note")
  /\ \E n \in 1 .. MaxNotes :
       /\ n \notin stored
       /\ Write(t, stored \cup {n}, FALSE)
       /\ panel' = [panel EXCEPT ![t].call.sets = panel[t].shows \cup {n},
                                 ![t].call.answer = "done"]
  /\ UNCHANGED reopened

Refuse(t) ==
  /\ panel[t] # NULL
  /\ panel[t].call # NULL
  /\ panel[t].call.answer = NULL
  /\ Reply(t, "refused")
  /\ UNCHANGED <<area, stored, overtaken, reopened>>

\* The onboarding of the client is complete.
StartByClient ==
  /\ area = "status"
  /\ stored.stage = "New"
  /\ stored' = [stored EXCEPT !.stage = "In Progress"]
  /\ overtaken' = PanelTab
  /\ UNCHANGED <<area, panel, reopened>>

\* The handler goes on: an error is shown and nothing changes, or the panel is set.
ShowAnswer(t) ==
  /\ panel[t] # NULL
  /\ panel[t].call # NULL
  /\ panel[t].call.answer # NULL
  /\ panel' = [panel EXCEPT ![t].call = NULL,
                            ![t].shows = IF panel[t].call.answer = "done"
                                         THEN panel[t].call.sets ELSE @]
  /\ UNCHANGED <<area, stored, overtaken, reopened>>

\* What an action throws takes the page away.
ShowError(t) ==
  /\ panel[t] # NULL
  /\ panel[t].call # NULL
  /\ panel' = [panel EXCEPT ![t] = NULL]
  /\ UNCHANGED <<area, stored, overtaken, reopened>>

EngagementPanelsNext ==
  \/ StartByClient
  \/ \E t \in PanelTab :
       \/ EngagementDetailPage(t)
       \/ handleAdvance(t)
       \/ handleConfirmDelivery(t)
       \/ handleConfirmFiling(t)
       \/ handleComplete(t)
       \/ handleReopen(t)
       \/ \E v \in SettingValue \cup {NULL} : handleSetDueDate(t, v) \/ handleSetOverride(t, v)
       \/ handleClearOverride(t)
       \/ handleTogglePriority(t)
       \/ handleRecordNote(t)
       \/ advanceStatus(t)
       \/ confirm(t)
       \/ completeEngagement(t)
       \/ reopen(t)
       \/ setAttribute(t)
       \/ recordEngagementNote(t)
       \/ Refuse(t)
       \/ ShowAnswer(t)
       \/ ShowError(t)

-----------------------------------------------------------------------------
(***************************************************************************)
(* Properties.                                                             *)
(***************************************************************************)

\* The panels keep their types.
EngagementPanelsTypeOK ==
  /\ area \in Area
  /\ stored \in Values[area]
  /\ \A t \in PanelTab : panel[t] # NULL =>
       /\ panel[t].shows \in Values[area]
       /\ panel[t].call \in CallRow(area) \cup {NULL}
  /\ overtaken \subseteq PanelTab
  /\ reopened \in 0 .. MaxReopenings

(***************************************************************************)
(* A panel without a call under way shows what is stored, unless another   *)
(* tab or the client has written since it was rendered; the notes it shows *)
(* are stored even then.  A panel that shows Complete has seen both        *)
(* confirmations, and what is stored as Complete has both                  *)
(* (EngagementStatusPanel.tsx, EngagementAttributesPanel.tsx).             *)
(***************************************************************************)
PanelsShowRow ==
  /\ \A t \in PanelTab \ overtaken : Settled(t) => panel[t].shows = stored
  /\ area = "notes" => \A t \in PanelTab : panel[t] # NULL => panel[t].shows \subseteq stored
  /\ area = "status" =>
       /\ stored.stage = "Complete" => stored.delivered /\ stored.filed
       /\ \A t \in PanelTab :
            panel[t] # NULL /\ panel[t].shows.stage = "Complete"
              => panel[t].shows.delivered /\ panel[t].shows.filed
=============================================================================
