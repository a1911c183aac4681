------------------------------ MODULE RequestPages ------------------------------
(***************************************************************************)
(* The pages on which accountants see and decide requests (apps/admin/src/ *)
(* app/requests: page.tsx, [id]/page.tsx, _components/DecisionActions.tsx, *)
(* RequestList.tsx, RequestDetail.tsx and NotificationsIndicator.tsx).     *)
(*                                                                         *)
(* The list is rendered from two reads that run side by side, of the       *)
(* requests and of the notices.  The page of a request reads the row,      *)
(* stamps its notices as read, and shows it, with the decision buttons as  *)
(* long as the row that was read is undecided.  What became of a decision  *)
(* is told from the answer of its action, which is one step here and in    *)
(* the module Intake statement by statement.                               *)
(***************************************************************************)
EXTENDS FiniteSets, Null

CONSTANTS
  Ask,         \* EngagementRequest ids
  DecisionTab  \* browser tabs of accountants

ASSUME RequestPagesAssumption ==
  NULL \notin DecisionTab \cup {"accepted", "declined", "recorded", "recorded, no mail",
                               "already_decided", "refused"}

VARIABLES
  asks,     \* per request its status, and the tab that decided it
  unseen,   \* requests whose 'new_request' notice has no readAt
  fetched,  \* history: requests whose row some request page has read
  screen    \* what each tab shows, NULL when it shows none of these pages

requestPagesVars == <<asks, unseen, fetched, screen>>

Verdict == {"accepted", "declined"}

\* isDecidable: nothing writes the status 'awaiting_review'.
Decidable(status) == status = "pending"
Waiting == {r \in Ask : Decidable(asks[r].status)}

\* Reading: one read of the list is back.  Listing: both are.
Reading == [on : {"reading"}, first : {"rows", "notices"}, read : SUBSET Ask]
Listing == [on : {"list"}, first : {"rows", "notices"}, rows : SUBSET Ask, notices : SUBSET Ask]
Rendering == [on : {"rendering"}, ask : Ask, shown : Verdict \cup {"pending"}]

\* The view of DecisionActions, the decision of its last call and what that call answered.
Deciding == [on : {"request"}, ask : Ask, shown : Verdict \cup {"pending"},
             view : {"idle", "decline-form", "sent", "result"},
             decision : Verdict \cup {NULL},
             answer : {"recorded", "recorded, no mail", "already_decided", "refused", NULL}]

Screen == Reading \cup Listing \cup Rendering \cup Deciding

ASSUME NoScreenAssumption == NULL \notin Screen

RequestPagesInit ==
  /\ asks = [r \in Ask |-> [status |-> "none", by |-> NULL]]
  /\ unseen = {}
  /\ fetched = {}
  /\ screen = [t \in DecisionTab |-> NULL]

Showing(t, what) == screen[t] # NULL /\ screen[t].on = what
Show(t, what) == screen' = [screen EXCEPT ![t] = what]

-----------------------------------------------------------------------------
\* createEngagementRequest: the row and the notice, in one transaction.
SubmitAsk(r) ==
  /\ asks[r].status = "none"
  /\ asks' = [asks EXCEPT ![r].status = "pending"]
  /\ unseen' = unseen \cup {r}
  /\ UNCHANGED <<fetched, screen>>

-----------------------------------------------------------------------------
(***************************************************************************)
(* The list.                                                               *)
(***************************************************************************)
OpenRequestsPage(t) ==
  /\ \/ Show(t, [on |-> "reading", first |-> "rows", read |-> Waiting])
     \/ Show(t, [on |-> "reading", first |-> "notices", read |-> unseen])
  /\ UNCHANGED <<asks, unseen, fetched>>

\* If a read fails the page shows neither list.
RequestList(t) ==
  /\ Showing(t, "reading")
  /\ LET s == screen[t]
     IN  \/ s.first = "rows" /\ Show(t, [on |-> "list", first |-> "rows",
                                         rows |-> s.read, notices |-> unseen])
         \/ s.first = "notices" /\ Show(t, [on |-> "list", first |-> "notices",
                                            rows |-> Waiting, notices |-> s.read])
         \/ Show(t, NULL)
  /\ UNCHANGED <<asks, unseen, fetched>>

-----------------------------------------------------------------------------
(***************************************************************************)
(* The page of a request.                                                  *)
(***************************************************************************)

\* A row that is not found, or not read, leaves nothing to show and stamps nothing.
FetchRequest(t, r) ==
  /\ asks[r].status # "none"
  /\ Show(t, [on |-> "rendering", ask |-> r, shown |-> asks[r].status])
  /\ fetched' = fetched \cup {r}
  /\ UNCHANGED <<asks, unseen>>

\* markNotificationOnViewAction; when it fails the page is shown all the same.
MarkOnView(t) ==
  /\ Showing(t, "rendering")
  /\ LET r == screen[t].ask
     IN  /\ unseen' \in {unseen \ {r}, unseen}
         /\ Show(t, [on |-> "request", ask |-> r, shown |-> screen[t].shown, view |-> "idle",
                     decision |-> NULL, answer |-> NULL])
  /\ UNCHANGED <<asks, fetched>>

LeavePage(t) ==
  /\ screen[t] # NULL
  /\ Show(t, NULL)
  /\ UNCHANGED <<asks, unseen, fetched>>

\* Whatever the view is: once the status shown is a decision, there is none.
HasButtons(t) == Showing(t, "request") /\ Decidable(screen[t].shown)

OpenDeclineForm(t) ==
  /\ HasButtons(t)
  /\ screen[t].view = "idle"
  /\ Show(t, [screen[t] EXCEPT !.view = "decline-form"])
  /\ UNCHANGED <<asks, unseen, fetched>>

CancelDecline(t) ==
  /\ HasButtons(t)
  /\ screen[t].view = "decline-form"
  /\ Show(t, [screen[t] EXCEPT !.view = "idle"])
  /\ UNCHANGED <<asks, unseen, fetched>>

\* While the call is under way every button is disabled.
ClickDecision(t, d) ==
  /\ HasButtons(t)
  /\ screen[t].view = IF d = "accepted" THEN "idle" ELSE "decline-form"
  /\ Show(t, [screen[t] EXCEPT !.view = "sent", !.decision = d])
  /\ UNCHANGED <<asks, unseen, fetched>>

\* What the browser is answered, NULL while it waits; an action that throws shows no page.
AnswerIs(t, answer) == Show(t, [screen[t] EXCEPT !.answer = answer])

\* Mutant: the answer does not depend on whether the UPDATE found the request undecided.
DecideUnguarded(t) ==
  /\ Showing(t, "request")
  /\ screen[t].view = "sent"
  /\ screen[t].answer = NULL
  /\ asks' = [asks EXCEPT ![screen[t].ask] = [status |-> screen[t].decision, by |-> t]]
  /\ AnswerIs(t, "recorded")
  /\ UNCHANGED <<unseen, fetched>>

DecideOnServer(t) ==
  /\ Showing(t, "request")
  /\ screen[t].view = "sent"
  /\ screen[t].answer = NULL
  /\ LET r == screen[t].ask
     IN  \/ /\ Decidable(asks[r].status)
            /\ asks' = [asks EXCEPT ![r] = [status |-> screen[t].decision, by |-> t]]
            /\ AnswerIs(t, "recorded") \/ AnswerIs(t, "recorded, no mail") \/ Show(t, NULL)
         \/ /\ ~Decidable(asks[r].status)
            /\ UNCHANGED asks
            /\ AnswerIs(t, "already_decided")
         \/ /\ UNCHANGED asks
            /\ AnswerIs(t, "refused") \/ Show(t, NULL)
  /\ UNCHANGED <<unseen, fetched>>

(***************************************************************************)
(* A recorded decision has revalidated the path: the answer brings the     *)
(* page as it is now, which has no place for the result.  Of a mail that   *)
(* did not go out the accountant is shown nothing.                         *)
(***************************************************************************)
ShowResult(t) ==
  /\ Showing(t, "request")
  /\ screen[t].view = "sent"
  /\ screen[t].answer # NULL
  /\ Show(t, [screen[t] EXCEPT !.view = "result",
       !.shown = IF screen[t].answer \in {"recorded", "recorded, no mail"}
                 THEN asks[screen[t].ask].status ELSE @])
  /\ UNCHANGED <<asks, unseen, fetched>>

\* The button beside "already decided"; the answer "refused" offers none.
RefreshRequest(t) ==
  /\ HasButtons(t)
  /\ screen[t].view = "result"
  /\ screen[t].answer = "already_decided"
  /\ Show(t, [screen[t] EXCEPT !.shown = asks[screen[t].ask].status])
  /\ UNCHANGED <<asks, unseen, fetched>>

RequestPagesNext ==
  \/ \E r \in Ask : SubmitAsk(r)
  \/ \E t \in DecisionTab :
       \/ OpenRequestsPage(t)
       \/ RequestList(t)
       \/ \E r \in Ask : FetchRequest(t, r)
       \/ MarkOnView(t)
       \/ LeavePage(t)
       \/ OpenDeclineForm(t)
       \/ CancelDecline(t)
       \/ \E d \in Verdict : ClickDecision(t, d)
       \/ DecideOnServer(t)
       \/ ShowResult(t)
       \/ RefreshRequest(t)

-----------------------------------------------------------------------------
(***************************************************************************)
(* Properties.                                                             *)
(***************************************************************************)

\* The variables keep their types.
RequestPagesTypeOK ==
  /\ asks \in [Ask -> [status : Verdict \cup {"none", "pending"}, by : DecisionTab \cup {NULL}]]
  /\ unseen \subseteq Ask
  /\ fetched \subseteq Ask
  /\ screen \in [DecisionTab -> Screen \cup {NULL}]

(***************************************************************************)
(* What an accountant is told of a decision is so: recorded is the one he  *)
(* made himself, and already decided is a request that somebody decided    *)
(* (DecisionActions.tsx).  A request that is shown as waiting, and of      *)
(* which no notice is unread, has been looked at, unless it came after the *)
(* notices were read (page.tsx, [id]/page.tsx).                            *)
(***************************************************************************)
ToldOfRequests ==
  \A t \in DecisionTab :
    /\ Showing(t, "request") =>
         LET s == screen[t]
         IN  /\ s.answer \in {"recorded", "recorded, no mail"} =>
                  asks[s.ask] = [status |-> s.decision, by |-> t]
             /\ s.answer = "already_decided" => asks[s.ask].by # NULL
    /\ Showing(t, "list") =>
         \/ screen[t].rows \subseteq screen[t].notices \cup fetched
         \/ screen[t].first = "notices"
=============================================================================
