------------------------------ MODULE ThreadRead ------------------------------
(***************************************************************************)
(* Reading one thread (packages/db/src/repositories/thread-read.ts and     *)
(* thread.ts, the messages pages of both applications): a member opens the *)
(* thread, is shown its messages, and has it marked as read by an action   *)
(* that the page starts and does not wait for.                             *)
(*                                                                         *)
(* A point of time is the number of messages appended before it: a marker  *)
(* at n has the first n messages read.  The clock of the application,      *)
(* which stamps the marker, and the one of the database, which stamps the  *)
(* messages, are taken as one.                                             *)
(***************************************************************************)
EXTENDS Naturals, Sequences, FiniteSets, Null

CONSTANTS
  Sender,      \* whoever appends messages
  Viewer,      \* those of them who open the thread
  PageProc,    \* renderings of a thread page
  PageFaulty,  \* those that may die, or a query of which may fail
  MaxArrivals  \* bound on the messages

ASSUME ThreadReadAssumption ==
  /\ Viewer \subseteq Sender
  /\ PageFaulty \subseteq PageProc
  /\ MaxArrivals \in Nat

VARIABLES
  arrived,     \* the sender of each message, in the order of createdAt
  lastReadAt,  \* ThreadReadState of each viewer, 0 without a row
  page,        \* a page being rendered, NULL when there is none
  shown,       \* how many messages each viewer has been shown
  excused      \* history: messages that arrived, or failed to be listed, while
               \* the viewer had a page under way

threadReadVars == <<arrived, lastReadAt, page, shown, excused>>

PageRow == [viewer : Viewer, mark : {"resolve", "stamp", "merge", "done"},
            at : 0 .. MaxArrivals, listed : BOOLEAN]

ASSUME NoPageAssumption == NULL \notin PageRow

ThreadReadInit ==
  /\ arrived = <<>>
  /\ lastReadAt = [v \in Sender |-> 0]
  /\ page = [p \in PageProc |-> NULL]
  /\ shown = [v \in Sender |-> 0]
  /\ excused = [v \in Sender |-> {}]

HasPage(v) == \E p \in PageProc : page[p] # NULL /\ page[p].viewer = v

NotShown(v) == shown[v] + 1 .. Len(arrived)

\* The INSERT of appendMessage.
MessageArrives(v) ==
  /\ Len(arrived) < MaxArrivals
  /\ arrived' = Append(arrived, v)
  /\ excused' = [u \in Sender |->
                   IF HasPage(u) THEN excused[u] \cup {Len(arrived')} ELSE excused[u]]
  /\ UNCHANGED <<lastReadAt, page, shown>>

\* A page and the action that it starts, which begins with the step `mark`.
StartPage(p, v, mark) ==
  /\ page[p] = NULL
  /\ page' = [page EXCEPT ![p] = [viewer |-> v, mark |-> mark, at |-> 0, listed |-> FALSE]]
  /\ UNCHANGED <<arrived, lastReadAt, shown, excused>>

\* A direct thread is looked up before its page starts the action.
OpenThread(p, v) == StartPage(p, v, "stamp")

\* The thread of an engagement is looked up, or created, by the action itself ...
OpenEngagementThread(p, v) == StartPage(p, v, "resolve")

\* ... which may fail to, and answers so to nobody.
markThreadReadAction(p) ==
  /\ page[p] # NULL
  /\ page[p].mark = "resolve"
  /\ \/ page' = [page EXCEPT ![p].mark = "stamp"]
     \/ p \in PageFaulty /\ page' = [page EXCEPT ![p].mark = "done"]
  /\ UNCHANGED <<arrived, lastReadAt, shown, excused>>

\* markThreadRead takes the time of the application ...
StampMarker(p) ==
  /\ page[p] # NULL
  /\ page[p].mark = "stamp"
  /\ page' = [page EXCEPT ![p].mark = "merge", ![p].at = Len(arrived)]
  /\ UNCHANGED <<arrived, lastReadAt, shown, excused>>

\* Mutant: the MERGE matches the rows of the thread, whoever's they are.
MergeEveryMarker(p) ==
  /\ page[p] # NULL
  /\ page[p].mark = "merge"
  /\ lastReadAt' = [v \in Sender |-> page[p].at]
  /\ page' = [page EXCEPT ![p].mark = "done"]
  /\ UNCHANGED <<arrived, shown, excused>>

(***************************************************************************)
(* ... and merges it into the row of the viewer, whatever is there: of two *)
(* pages the slower one decides, and the marker may move back.             *)
(***************************************************************************)
MergeMarker(p) ==
  /\ page[p] # NULL
  /\ page[p].mark = "merge"
  /\ lastReadAt' = [lastReadAt EXCEPT ![page[p].viewer] = page[p].at]
  /\ page' = [page EXCEPT ![p].mark = "done"]
  /\ UNCHANGED <<arrived, shown, excused>>

\* The messages are shown, or an error is in their place.
listThreadMessages(p) ==
  /\ page[p] # NULL
  /\ ~page[p].listed
  /\ page' = [page EXCEPT ![p].listed = TRUE]
  /\ LET v == page[p].viewer
     IN  \/ /\ shown' = [shown EXCEPT ![v] = Len(arrived)]
            /\ excused' = [excused EXCEPT ![v] = {}]
         \/ /\ p \in PageFaulty
            /\ excused' = [excused EXCEPT ![v] = NotShown(v)]
            /\ UNCHANGED shown
  /\ UNCHANGED <<arrived, lastReadAt>>

ClosePage(p) ==
  /\ page[p] # NULL
  /\ page[p].mark = "done"
  /\ page[p].listed
  /\ page' = [page EXCEPT ![p] = NULL]
  /\ UNCHANGED <<arrived, lastReadAt, shown, excused>>

\* The rendering dies, with or without the action it started.
PageFail(p) ==
  /\ p \in PageFaulty
  /\ page[p] # NULL
  /\ page' = [page EXCEPT ![p] = NULL]
  /\ excused' = [excused EXCEPT ![page[p].viewer] = NotShown(page[p].viewer)]
  /\ UNCHANGED <<arrived, lastReadAt, shown>>

\* Counted for the badge: the messages of others after the marker.
listThreadsWithUnread(v) == {i \in lastReadAt[v] + 1 .. Len(arrived) : arrived[i] # v}

PageContinue(p) ==
  \/ markThreadReadAction(p)
  \/ StampMarker(p)
  \/ MergeMarker(p)
  \/ listThreadMessages(p)
  \/ ClosePage(p)

ThreadReadNext ==
  \/ \E v \in Sender : MessageArrives(v)
  \/ \E p \in PageProc :
       \/ \E v \in Viewer : OpenThread(p, v) \/ OpenEngagementThread(p, v)
       \/ PageContinue(p)
       \/ PageFail(p)

ThreadReadSpec == ThreadReadInit /\ [][ThreadReadNext]_threadReadVars

-----------------------------------------------------------------------------
(***************************************************************************)
(* Properties.                                                             *)
(***************************************************************************)

\* Every variable of reading keeps its type.
ThreadReadTypeOK ==
  /\ arrived \in Seq(Sender)
  /\ lastReadAt \in [Sender -> 0 .. MaxArrivals]
  /\ page \in [PageProc -> PageRow \cup {NULL}]
  /\ shown \in [Sender -> 0 .. MaxArrivals]
  /\ excused \in [Sender -> SUBSET (1 .. MaxArrivals)]

(***************************************************************************)
(* A message that others sent and that a viewer does not find unread       *)
(* (AC-MSG-005-04, per viewer: AC-MSG-005-03) was shown to that viewer or  *)
(* is being shown.  The only exceptions are messages that came, or a list  *)
(* that failed, while the viewer had the thread open: the marker does not  *)
(* wait for the list.                                                      *)
(***************************************************************************)
ReadOnlyIfShownOrRaced ==
  \A v \in Sender :
    HasPage(v) \/ \A i \in 1 .. Len(arrived) :
                    \/ arrived[i] = v
                    \/ i \in listThreadsWithUnread(v)
                    \/ i <= shown[v]
                    \/ i \in excused[v]
=============================================================================
