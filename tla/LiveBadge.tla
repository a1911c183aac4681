------------------------------ MODULE LiveBadge ------------------------------
(***************************************************************************)
(* The unread badge in the navigation of both applications: rendered with  *)
(* a count by the server (NotificationBadgeServer.tsx), then incremented   *)
(* by each event of the tab's event stream (NotificationBadgeClient.tsx,   *)
(* api/notifications/stream/route.ts, packages/realtime/src/bindings).     *)
(* packages/db/src/repositories/notification.ts inserts a row and then     *)
(* publishes an event of it.                                               *)
(*                                                                         *)
(* One recipient is enough: the events of others go over other channels.   *)
(* The transport that works today keeps its subscribers in the memory of   *)
(* one server process, and each application is a process of its own; the   *)
(* other one throws on every call.                                         *)
(***************************************************************************)
EXTENDS Naturals, FiniteSets, Null

CONSTANTS
  Notice,      \* Notification ids
  Foreign,     \* those published in the process of the other application
  EmitFaulty,  \* those whose handler may die, or whose publication may throw
  Tab

ASSUME LiveBadgeAssumption ==
  /\ IsFiniteSet(Notice)
  /\ Foreign \cup EmitFaulty \subseteq Notice
  /\ NULL \notin Nat

VARIABLES
  row,        \* "none", or whether Notification.readAt is set: "unread", "read"
  emitting,   \* rows whose event is not published yet
  badge,      \* unreadCount of a tab, NULL while it is not open
  stream,     \* tabs whose EventSource is subscribed on the server
  wire,       \* events on their way to a tab, by their Notification
  disturbed   \* history: tabs with a reason to be wrong

liveBadgeVars == <<row, emitting, badge, stream, wire, disturbed>>

UnreadRows == {n \in Notice : row[n] = "unread"}

LiveBadgeInit ==
  /\ row = [n \in Notice |-> "none"]
  /\ emitting = {}
  /\ badge = [t \in Tab |-> NULL]
  /\ stream = {}
  /\ wire = [t \in Tab |-> {}]
  /\ disturbed = {}

-----------------------------------------------------------------------------
(***************************************************************************)
(* The server.                                                             *)
(***************************************************************************)

emitNotification(n) ==
  /\ row[n] = "none"
  /\ row' = [row EXCEPT ![n] = "unread"]
  /\ emitting' = emitting \cup {n}
  /\ UNCHANGED <<badge, stream, wire, disturbed>>

(***************************************************************************)
(* publish calls the subscribers of this process, synchronously.  A tab    *)
(* without a subscription misses the event for good, and so do all tabs    *)
(* when the event is published elsewhere or not at all.                    *)
(***************************************************************************)
publish(n) ==
  /\ n \in emitting
  /\ emitting' = emitting \ {n}
  /\ \/ /\ n \notin Foreign
        /\ wire' = [t \in Tab |-> IF t \in stream THEN wire[t] \cup {n} ELSE wire[t]]
        /\ disturbed' = disturbed \cup (Tab \ stream)
     \/ /\ n \in Foreign \cup EmitFaulty
        /\ disturbed' = Tab
        /\ UNCHANGED wire
  /\ UNCHANGED <<row, badge, stream>>

\* A page that shows the linked item marks its notices read; no event tells of it.
markNotificationsReadByLinkedItem ==
  /\ \E N \in SUBSET UnreadRows \ {{}} :
       row' = [n \in Notice |-> IF n \in N THEN "read" ELSE row[n]]
  /\ disturbed' = Tab
  /\ UNCHANGED <<emitting, badge, stream, wire>>

-----------------------------------------------------------------------------
(***************************************************************************)
(* A tab.  The links of both layouts load the page anew, and with it the   *)
(* badge; the count may include rows whose event is still to come.         *)
(***************************************************************************)
NotificationBadgeServer(t) ==
  /\ badge' = [badge EXCEPT ![t] = Cardinality(UnreadRows)]
  /\ stream' = stream \ {t}
  /\ wire' = [wire EXCEPT ![t] = {}]
  /\ disturbed' = IF emitting = {} THEN disturbed \ {t} ELSE disturbed \cup {t}
  /\ UNCHANGED <<row, emitting>>

\* The effect opens the EventSource, which the browser opens again when it is lost.
subscribe(t) ==
  /\ badge[t] # NULL
  /\ t \notin stream
  /\ stream' = stream \cup {t}
  /\ UNCHANGED <<row, emitting, badge, wire, disturbed>>

handleEvent(t) ==
  /\ \E n \in wire[t] : wire' = [wire EXCEPT ![t] = @ \ {n}]
  /\ badge' = [badge EXCEPT ![t] = @ + 1]
  /\ UNCHANGED <<row, emitting, stream, disturbed>>

\* Mutant: what was lost with the connection is sent again.
ReplayOnAbort(t) ==
  /\ t \in stream
  /\ stream' = stream \ {t}
  /\ wire' = [wire EXCEPT ![t] = @ \cup UnreadRows]
  /\ UNCHANGED <<row, emitting, badge, disturbed>>

(***************************************************************************)
(* The request is aborted: the route unsubscribes.  Events that were       *)
(* written and not read are lost, and nothing counts anew on reconnecting. *)
(***************************************************************************)
Abort(t) ==
  /\ t \in stream
  /\ stream' = stream \ {t}
  /\ wire' = [wire EXCEPT ![t] = {}]
  /\ disturbed' = IF wire[t] = {} THEN disturbed ELSE disturbed \cup {t}
  /\ UNCHANGED <<row, emitting, badge>>

LiveBadgeNext ==
  \/ \E n \in Notice : emitNotification(n) \/ publish(n)
  \/ markNotificationsReadByLinkedItem
  \/ \E t \in Tab :
       \/ NotificationBadgeServer(t)
       \/ subscribe(t)
       \/ handleEvent(t)
       \/ Abort(t)

-----------------------------------------------------------------------------
\* Every variable of the badge keeps its type.
LiveBadgeTypeOK ==
  /\ row \in [Notice -> {"none", "unread", "read"}]
  /\ emitting \subseteq Notice
  /\ badge \in [Tab -> Nat \cup {NULL}]
  /\ stream \subseteq Tab
  /\ wire \in [Tab -> SUBSET Notice]
  /\ disturbed \subseteq Tab

(***************************************************************************)
(* A badge shows the unread rows, but for events on their way and yet to   *)
(* be published: also after a stream that was lost between two events.     *)
(* It goes wrong, until the next page, only when an event was published    *)
(* while the tab had no stream or in another process, was lost in flight   *)
(* or not published, when its row was counted and published after it, or   *)
(* when a row was read.                                                    *)
(***************************************************************************)
BadgeExactUnlessDisturbed ==
  \A t \in Tab :
    badge[t] # NULL /\ t \notin disturbed =>
      badge[t] + Cardinality(wire[t]) + Cardinality(emitting) = Cardinality(UnreadRows)
=============================================================================
