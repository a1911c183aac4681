----------------------------- MODULE PagesProofs ------------------------------
(***************************************************************************)
(* What pages show of the rows and what people are told of them, for every *)
(* value of the constants: one section per component, which ends with the  *)
(* lemma that its steps keep its invariant.  OfficeProofs puts them        *)
(* together with those of the other components of the office.              *)
(***************************************************************************)
EXTENDS ThreadRead, LiveBadge, Folders, DocumentPages, EngagementPanels, DocumentRequests,
        Reminders, RequestPages, Composer, InitiateForm, GeneralThreads,
        FiniteSetTheorems, TLAPS

-----------------------------------------------------------------------------
(***************************************************************************)
(* Reading a thread.  A page that has listed the messages, or failed to,   *)
(* leaves none that was neither shown nor excused, and none appears while  *)
(* it is open; so a marker hides a message only while a page of its viewer *)
(* is still to list it.                                                    *)
(***************************************************************************)
Opened(v, listed) == \E p \in PageProc : page[p] # NULL /\ page[p].viewer = v /\ page[p].listed = listed
AllCovered(v) == \A i \in 1 .. Len(arrived) : i <= shown[v] \/ i \in excused[v]
NoneHidden(v) ==
  \A i \in 1 .. Len(arrived) :
    arrived[i] = v \/ i > lastReadAt[v] \/ i <= shown[v] \/ i \in excused[v]

ViewerOK(v) ==
  /\ NoneHidden(v) \/ Opened(v, FALSE)
  /\ Opened(v, TRUE) => AllCovered(v)

ThreadReadInv ==
  /\ ThreadReadTypeOK
  /\ Len(arrived) <= MaxArrivals
  /\ \A v \in Sender : lastReadAt[v] <= Len(arrived) /\ shown[v] <= Len(arrived)
  /\ \A p \in PageProc : page[p] # NULL => page[p] \in PageRow /\ page[p].at <= Len(arrived)
  /\ \A v \in Sender : ViewerOK(v)

LEMMA ThreadReadInitInv == ThreadReadInit => ThreadReadInv
<1> SUFFICES ASSUME ThreadReadInit PROVE ThreadReadInv
  OBVIOUS
<1>1. ThreadReadTypeOK
  BY ThreadReadAssumption DEF ThreadReadInit, ThreadReadTypeOK
<1>2. \A v \in Sender : ViewerOK(v)
  BY DEF ThreadReadInit, ViewerOK, Opened, NoneHidden
<1> QED
  BY <1>1, <1>2, ThreadReadAssumption DEF ThreadReadInit, ThreadReadInv

\* A step of one page that lists nothing.
LEMMA PageMoves ==
  ASSUME ThreadReadInv, NEW p \in PageProc, NEW pg \in PageRow, pg.at <= Len(arrived),
         page[p] # NULL => pg.viewer = page[p].viewer /\ pg.listed = page[p].listed,
         page[p] = NULL => ~pg.listed,
         page' = [page EXCEPT ![p] = pg], UNCHANGED <<arrived, shown, excused>>,
         \/ UNCHANGED lastReadAt
         \/ page[p] # NULL /\ lastReadAt' = [lastReadAt EXCEPT ![pg.viewer] = pg.at]
  PROVE  ThreadReadInv'
<1>1. /\ arrived' = arrived /\ shown' = shown /\ excused' = excused
      /\ arrived \in Seq(Sender) /\ Len(arrived) \in Nat /\ Len(arrived) <= MaxArrivals
      /\ lastReadAt \in [Sender -> 0 .. MaxArrivals]
      /\ shown \in [Sender -> 0 .. MaxArrivals]
      /\ \A v \in Sender : lastReadAt[v] <= Len(arrived) /\ shown[v] <= Len(arrived)
      /\ \A v \in Sender : ViewerOK(v)
      /\ pg.viewer \in Sender /\ pg.at \in 0 .. MaxArrivals
  BY ThreadReadAssumption DEF ThreadReadInv, ThreadReadTypeOK, PageRow
<1>2. /\ page' \in [PageProc -> PageRow \cup {NULL}] /\ page'[p] = pg
      /\ \A q \in PageProc \ {p} : page'[q] = page[q]
  BY DEF ThreadReadInv, ThreadReadTypeOK, PageRow
<1>3. \A q \in PageProc : page'[q] # NULL => page'[q] \in PageRow /\ page'[q].at <= Len(arrived)
  BY <1>2 DEF ThreadReadInv
<1>4. /\ lastReadAt' \in [Sender -> 0 .. MaxArrivals]
      /\ \A v \in Sender : lastReadAt'[v] <= Len(arrived)
      /\ \A v \in Sender : (lastReadAt'[v] = lastReadAt[v] \/ (page[p] # NULL /\ v = pg.viewer))
  <2>1. CASE lastReadAt' = lastReadAt
    BY <1>1, <2>1
  <2>2. CASE page[p] # NULL /\ lastReadAt' = [lastReadAt EXCEPT ![pg.viewer] = pg.at]
    BY <1>1, <2>2
  <2> QED
    BY <2>1, <2>2
<1>5. \A v \in Sender, b \in BOOLEAN : Opened(v, b) => Opened(v, b)'
  BY <1>2, NoPageAssumption DEF Opened
<1>6. ASSUME NEW v \in Sender, Opened(v, TRUE)'
      PROVE  Opened(v, TRUE)
  BY <1>2, <1>6 DEF Opened, PageRow, ThreadReadInv
<1>7. ASSUME NEW v \in Sender
      PROVE  ViewerOK(v)'
  <2>1. AllCovered(v)' = AllCovered(v)
    BY <1>1 DEF AllCovered
  <2>2. Opened(v, TRUE)' => AllCovered(v)'
    BY <1>1, <1>6, <2>1 DEF ViewerOK
  <2>3. NoneHidden(v)' \/ Opened(v, FALSE)'
    <3>1. CASE lastReadAt'[v] = lastReadAt[v]
      BY <1>1, <1>5, <3>1 DEF ViewerOK, NoneHidden
    <3>2. CASE page[p] # NULL /\ v = pg.viewer
      <4>1. page[p].viewer = v /\ page[p] \in PageRow /\ page[p].listed \in BOOLEAN
        BY <3>2 DEF ThreadReadInv, PageRow
      <4>2. CASE page[p].listed = TRUE
        <5>1. AllCovered(v)
          BY <1>1, <3>2, <4>1, <4>2 DEF ViewerOK, Opened
        <5> QED
          BY <1>1, <5>1 DEF AllCovered, NoneHidden
      <4>3. CASE page[p].listed = FALSE
        BY <1>5, <3>2, <4>1, <4>3 DEF Opened
      <4> QED
        BY <4>1, <4>2, <4>3
    <3> QED
      BY <1>4, <3>1, <3>2
  <2> QED
    BY <2>2, <2>3 DEF ViewerOK
<1>8. ThreadReadTypeOK'
  BY <1>1, <1>2, <1>4 DEF ThreadReadTypeOK, PageRow, ThreadReadInv
<1> QED
  BY <1>1, <1>3, <1>4, <1>7, <1>8 DEF ThreadReadInv

\* A page that listed, failed to, died or was closed leaves its viewer covered.
LEMMA PageCovers ==
  ASSUME ThreadReadInv, NEW p \in PageProc, page[p] # NULL,
         NEW pg \in PageRow \cup {NULL},
         pg # NULL => pg.viewer = page[p].viewer /\ pg.at = page[p].at,
         page' = [page EXCEPT ![p] = pg], UNCHANGED <<arrived, lastReadAt>>,
         \/ /\ shown' = [shown EXCEPT ![page[p].viewer] = Len(arrived)]
            /\ excused' = [excused EXCEPT ![page[p].viewer] = {}]
         \/ /\ excused' = [excused EXCEPT ![page[p].viewer] = NotShown(page[p].viewer)]
            /\ UNCHANGED shown
         \/ AllCovered(page[p].viewer) /\ UNCHANGED <<shown, excused>>
  PROVE  ThreadReadInv'
<1>1. /\ arrived' = arrived /\ lastReadAt' = lastReadAt
      /\ arrived \in Seq(Sender) /\ Len(arrived) \in Nat /\ Len(arrived) <= MaxArrivals
      /\ lastReadAt \in [Sender -> 0 .. MaxArrivals]
      /\ shown \in [Sender -> 0 .. MaxArrivals]
      /\ excused \in [Sender -> SUBSET (1 .. MaxArrivals)]
      /\ \A v \in Sender : lastReadAt[v] <= Len(arrived) /\ shown[v] <= Len(arrived)
      /\ \A v \in Sender : ViewerOK(v)
      /\ page[p].viewer \in Sender /\ page[p] \in PageRow /\ MaxArrivals \in Nat
  BY ThreadReadAssumption DEF ThreadReadInv, ThreadReadTypeOK, PageRow
<1>2. /\ page' \in [PageProc -> PageRow \cup {NULL}] /\ page'[p] = pg
      /\ \A q \in PageProc \ {p} : page'[q] = page[q]
  BY DEF ThreadReadInv, ThreadReadTypeOK, PageRow
<1>3. \A q \in PageProc : page'[q] # NULL => page'[q] \in PageRow /\ page'[q].at <= Len(arrived)
  BY <1>2 DEF ThreadReadInv
<1>u. PICK u \in Sender : u = page[p].viewer
  BY <1>1
<1>4. /\ shown' \in [Sender -> 0 .. MaxArrivals]
      /\ \A v \in Sender : shown'[v] <= Len(arrived)
      /\ \A v \in Sender \ {u} : shown'[v] = shown[v]
  <2>1. CASE shown' = [shown EXCEPT ![u] = Len(arrived)]
    BY <1>1, <2>1
  <2>2. CASE shown' = shown
    BY <1>1, <2>2
  <2> QED
    BY <1>u, <2>1, <2>2
<1>5. /\ excused' \in [Sender -> SUBSET (1 .. MaxArrivals)]
      /\ \A v \in Sender \ {u} : excused'[v] = excused[v]
  <2>1. NotShown(u) \in SUBSET (1 .. MaxArrivals)
    BY <1>1 DEF NotShown
  <2> QED
    BY <1>1, <1>u, <2>1
<1>6. AllCovered(u)'
  <2>1. AllCovered(u)' <=> (\A i \in 1 .. Len(arrived) : i <= shown'[u] \/ i \in excused'[u])
    BY <1>1 DEF AllCovered
  <2>2. CASE shown' = [shown EXCEPT ![u] = Len(arrived)]
    BY <1>1, <2>1, <2>2
  <2>3. CASE excused' = [excused EXCEPT ![u] = NotShown(u)] /\ shown' = shown
    BY <1>1, <2>1, <2>3 DEF NotShown
  <2>4. CASE AllCovered(u) /\ shown' = shown /\ excused' = excused
    BY <2>1, <2>4 DEF AllCovered
  <2> QED
    BY <1>u, <2>2, <2>3, <2>4
<1>7. ASSUME NEW v \in Sender
      PROVE  ViewerOK(v)'
  <2>1. CASE v = u
    <3>1. AllCovered(v)'
      BY <1>6, <2>1
    <3>2. NoneHidden(v)'
      BY <3>1 DEF NoneHidden, AllCovered
    <3> QED
      BY <3>1, <3>2 DEF ViewerOK
  <2>2. CASE v # u
    <3>1. \A b \in BOOLEAN : Opened(v, b)' = Opened(v, b)
      BY <1>2, <1>u, <2>2 DEF Opened
    <3>2. shown'[v] = shown[v] /\ excused'[v] = excused[v]
      BY <1>4, <1>5, <2>2
    <3>3. NoneHidden(v)' = NoneHidden(v) /\ AllCovered(v)' = AllCovered(v)
      BY <1>1, <3>2 DEF NoneHidden, AllCovered
    <3> QED
      BY <1>1, <3>1, <3>3 DEF ViewerOK
  <2> QED
    BY <2>1, <2>2
<1>8. ThreadReadTypeOK'
  BY <1>1, <1>2, <1>4, <1>5 DEF ThreadReadTypeOK, PageRow
<1> QED
  BY <1>1, <1>3, <1>4, <1>7, <1>8 DEF ThreadReadInv

LEMMA ArrivalKeeps ==
  ASSUME ThreadReadInv, NEW w \in Sender, MessageArrives(w)
  PROVE  ThreadReadInv'
<1>1. /\ arrived' = Append(arrived, w) /\ lastReadAt' = lastReadAt /\ page' = page /\ shown' = shown
      /\ arrived \in Seq(Sender) /\ Len(arrived) \in Nat /\ Len(arrived) + 1 <= MaxArrivals
      /\ lastReadAt \in [Sender -> 0 .. MaxArrivals]
      /\ shown \in [Sender -> 0 .. MaxArrivals]
      /\ excused \in [Sender -> SUBSET (1 .. MaxArrivals)]
      /\ \A v \in Sender : lastReadAt[v] <= Len(arrived) /\ shown[v] <= Len(arrived)
      /\ \A v \in Sender : ViewerOK(v)
      /\ MaxArrivals \in Nat
  BY ThreadReadAssumption DEF ThreadReadInv, ThreadReadTypeOK, MessageArrives
<1>2. PICK n \in Nat : n = Len(arrived)
  BY <1>1
<1>3. /\ arrived' \in Seq(Sender) /\ Len(arrived') = n + 1 /\ n + 1 \in 1 .. MaxArrivals
      /\ \A i \in 1 .. n : arrived'[i] = arrived[i]
  BY <1>1, <1>2
<1>4. excused' = [u \in Sender |-> IF HasPage(u) THEN excused[u] \cup {n + 1} ELSE excused[u]]
  BY <1>3 DEF MessageArrives
<1>5. /\ excused' \in [Sender -> SUBSET (1 .. MaxArrivals)]
      /\ \A v \in Sender : /\ excused[v] \subseteq excused'[v]
                           /\ HasPage(v) => n + 1 \in excused'[v]
  BY <1>1, <1>3, <1>4
<1>6. ASSUME NEW v \in Sender
      PROVE  ViewerOK(v)'
  <2>1. \A b \in BOOLEAN : (Opened(v, b)' <=> Opened(v, b)) /\ (Opened(v, b) => HasPage(v))
    BY <1>1 DEF Opened, HasPage
  <2>2. ASSUME AllCovered(v), HasPage(v) PROVE AllCovered(v)'
    BY <1>1, <1>2, <1>3, <1>5, <2>2 DEF AllCovered
  <2>3. ASSUME NoneHidden(v) PROVE NoneHidden(v)'
    BY <1>1, <1>2, <1>3, <1>5, <2>3 DEF NoneHidden
  <2> QED
    BY <1>1, <2>1, <2>2, <2>3 DEF ViewerOK
<1>7. ThreadReadTypeOK'
  BY <1>1, <1>3, <1>5 DEF ThreadReadTypeOK, ThreadReadInv
<1>8. \A v \in Sender : lastReadAt'[v] <= Len(arrived') /\ shown'[v] <= Len(arrived')
  BY <1>1, <1>2, <1>3
<1>9. \A p \in PageProc : page'[p] # NULL => page'[p] \in PageRow /\ page'[p].at <= Len(arrived')
  BY <1>1, <1>2, <1>3 DEF ThreadReadInv, PageRow
<1> QED
  BY <1>3, <1>6, <1>7, <1>8, <1>9 DEF ThreadReadInv

LEMMA ThreadReadStep == ThreadReadInv /\ [ThreadReadNext]_threadReadVars => ThreadReadInv'
<1> SUFFICES ASSUME ThreadReadInv, [ThreadReadNext]_threadReadVars PROVE ThreadReadInv'
  OBVIOUS
<1>0. /\ Len(arrived) \in Nat /\ MaxArrivals \in Nat /\ Len(arrived) <= MaxArrivals
      /\ Viewer \subseteq Sender
      /\ \A p \in PageProc : page[p] # NULL => page[p] \in PageRow /\ page[p].at <= Len(arrived)
  BY ThreadReadAssumption DEF ThreadReadInv, ThreadReadTypeOK
<1>1. ASSUME NEW p \in PageProc, NEW v \in Viewer, OpenThread(p, v) \/ OpenEngagementThread(p, v)
      PROVE  ThreadReadInv'
  <2>1. PICK m \in {"stamp", "resolve"} : StartPage(p, v, m)
    BY <1>1 DEF OpenThread, OpenEngagementThread
  <2> DEFINE pg == [viewer |-> v, mark |-> m, at |-> 0, listed |-> FALSE]
  <2>2. /\ pg \in PageRow /\ pg.at <= Len(arrived) /\ ~pg.listed
        /\ page[p] = NULL /\ page' = [page EXCEPT ![p] = pg]
        /\ UNCHANGED <<arrived, lastReadAt, shown, excused>>
    BY <1>0, <2>1 DEF StartPage, PageRow
  <2> QED
    BY <2>2, PageMoves
<1>2. ASSUME NEW p \in PageProc, markThreadReadAction(p) \/ StampMarker(p) \/ MergeMarker(p)
      PROVE  ThreadReadInv'
  <2>1. page[p] # NULL /\ page[p] \in PageRow /\ page[p].at <= Len(arrived)
    BY <1>0, <1>2 DEF markThreadReadAction, StampMarker, MergeMarker
  <2>2. PICK h \in PageRow : h = page[p]
    BY <2>1
  <2>3. ASSUME NEW pg \in PageRow, page' = [page EXCEPT ![p] = pg], pg.viewer = h.viewer,
               pg.listed = h.listed, pg.at <= Len(arrived), UNCHANGED <<arrived, shown, excused>>,
               UNCHANGED lastReadAt \/ lastReadAt' = [lastReadAt EXCEPT ![pg.viewer] = pg.at]
        PROVE  ThreadReadInv'
    <3>1. /\ page[p] # NULL => pg.viewer = page[p].viewer /\ pg.listed = page[p].listed
          /\ page[p] = NULL => ~pg.listed
      BY <2>1, <2>2, <2>3, Zenon
    <3>2. \/ UNCHANGED lastReadAt
          \/ page[p] # NULL /\ lastReadAt' = [lastReadAt EXCEPT ![pg.viewer] = pg.at]
      BY <2>1, <2>3, Zenon
    <3> QED
      BY <2>3, <3>1, <3>2, PageMoves, Zenon
  <2>4. ASSUME NEW m \in {"resolve", "stamp", "merge", "done"},
               page' = [page EXCEPT ![p].mark = m], UNCHANGED <<arrived, shown, excused>>,
               \/ UNCHANGED lastReadAt
               \/ lastReadAt' = [lastReadAt EXCEPT ![page[p].viewer] = page[p].at]
        PROVE  ThreadReadInv'
    <3>1. PICK pg \in PageRow :
            /\ pg = [h EXCEPT !.mark = m]
            /\ pg.viewer = h.viewer /\ pg.listed = h.listed /\ pg.at = h.at
      <4>1. [h EXCEPT !.mark = m] \in PageRow
        BY DEF PageRow
      <4> QED
        BY <4>1 DEF PageRow
    <3>2. page' = [page EXCEPT ![p] = pg]
      BY <2>2, <2>4, <3>1
    <3>3. pg.at <= Len(arrived)
      BY <2>1, <2>2, <3>1
    <3>4. UNCHANGED lastReadAt \/ lastReadAt' = [lastReadAt EXCEPT ![pg.viewer] = pg.at]
      BY <2>2, <2>4, <3>1, Zenon
    <3> QED
      BY <2>3, <2>4, <3>1, <3>2, <3>3, <3>4, Zenon
  <2>5. CASE StampMarker(p)
    <3>1. PICK n \in 0 .. MaxArrivals : n = Len(arrived)
      BY <1>0
    <3>2. PICK pg \in PageRow :
            /\ pg = [h EXCEPT !.mark = "merge", !.at = n]
            /\ pg.viewer = h.viewer /\ pg.listed = h.listed /\ pg.at = n
      <4>1. [h EXCEPT !.mark = "merge", !.at = n] \in PageRow
        BY DEF PageRow
      <4> QED
        BY <4>1 DEF PageRow
    <3>3. page' = [page EXCEPT ![p] = [page[p] EXCEPT !.mark = "merge", !.at = Len(arrived)]]
      BY <2>5 DEF StampMarker
    <3>4. page' = [page EXCEPT ![p] = pg]
      BY <2>2, <3>1, <3>2, <3>3, Zenon
    <3>5. pg.at <= Len(arrived)
      BY <1>0, <3>1, <3>2
    <3>6. UNCHANGED <<arrived, shown, excused>> /\ UNCHANGED lastReadAt
      BY <2>5 DEF StampMarker
    <3> QED
      BY <2>3, <3>2, <3>4, <3>5, <3>6, Zenon
  <2>6. CASE markThreadReadAction(p)
    <3>1. PICK m \in {"resolve", "stamp", "merge", "done"} : page' = [page EXCEPT ![p].mark = m]
      BY <2>6 DEF markThreadReadAction
    <3>2. UNCHANGED <<arrived, shown, excused>> /\ UNCHANGED lastReadAt
      BY <2>6 DEF markThreadReadAction
    <3> QED
      BY <2>4, <3>1, <3>2, Zenon
  <2>7. CASE MergeMarker(p)
    BY <2>4, <2>7 DEF MergeMarker
  <2> QED
    BY <1>2, <2>5, <2>6, <2>7
<1>3. ASSUME NEW p \in PageProc, listThreadMessages(p)
      PROVE  ThreadReadInv'
  <2>1. page[p] # NULL /\ page[p] \in PageRow
    BY <1>0, <1>3 DEF listThreadMessages
  <2>2. ASSUME NEW h \in PageRow
        PROVE  /\ [h EXCEPT !.listed = TRUE] \in PageRow
               /\ [h EXCEPT !.listed = TRUE].viewer = h.viewer
               /\ [h EXCEPT !.listed = TRUE].at = h.at
    BY DEF PageRow
  <2>3. page' = [page EXCEPT ![p] = [page[p] EXCEPT !.listed = TRUE]]
    BY <1>3 DEF listThreadMessages
  <2> QED
    BY <1>3, <2>1, <2>2, <2>3, PageCovers DEF listThreadMessages
<1>4. ASSUME NEW p \in PageProc, ClosePage(p)
      PROVE  ThreadReadInv'
  <2>1. page[p] # NULL /\ page[p] \in PageRow /\ page[p].listed = TRUE /\ page[p].viewer \in Sender
    BY <1>0, <1>4 DEF ClosePage, PageRow
  <2>2. AllCovered(page[p].viewer)
    BY <2>1 DEF ThreadReadInv, ViewerOK, Opened
  <2> QED
    BY <1>4, <2>1, <2>2, PageCovers DEF ClosePage
<1>5. ASSUME NEW p \in PageProc, PageFail(p)
      PROVE  ThreadReadInv'
  BY <1>5, PageCovers DEF PageFail
<1>6. CASE UNCHANGED threadReadVars
  <2>1. UNCHANGED <<arrived, lastReadAt, page, shown, excused>>
    BY <1>6 DEF threadReadVars
  <2>2. \A v \in Sender : ViewerOK(v)' = ViewerOK(v)
    BY <2>1 DEF ViewerOK, Opened, NoneHidden, AllCovered
  <2> QED
    BY <2>1, <2>2 DEF ThreadReadInv, ThreadReadTypeOK
<1> QED
  BY <1>1, <1>2, <1>3, <1>4, <1>5, <1>6, ArrivalKeeps DEF ThreadReadNext, PageContinue

LEMMA ReadIfShown == ThreadReadInv => ReadOnlyIfShownOrRaced
<1> SUFFICES ASSUME ThreadReadInv, NEW v \in Sender, ~HasPage(v),
                    NEW i \in 1 .. Len(arrived), arrived[i] # v
             PROVE  \/ i \in listThreadsWithUnread(v) \/ i <= shown[v] \/ i \in excused[v]
  BY DEF ReadOnlyIfShownOrRaced
<1>1. NoneHidden(v) /\ lastReadAt[v] \in Nat /\ Len(arrived) \in Nat
  BY DEF ThreadReadInv, ThreadReadTypeOK, ViewerOK, Opened, HasPage
<1> QED
  BY <1>1 DEF NoneHidden, listThreadsWithUnread

-----------------------------------------------------------------------------
(***************************************************************************)
(* The badge.  An event is either still to be published or on its way,     *)
(* never both, and only to a tab with a stream; so that each step of an    *)
(* event on its way to the count moves one from one number to the next.    *)
(***************************************************************************)
LiveBadgeInv ==
  /\ LiveBadgeTypeOK
  /\ \A n \in Notice : row[n] = "none" => n \notin emitting /\ \A t \in Tab : n \notin wire[t]
  /\ \A t \in Tab : /\ wire[t] \cap emitting = {}
                    /\ t \in stream => badge[t] \in Nat
                    /\ t \notin stream => wire[t] = {}
  /\ BadgeExactUnlessDisturbed

LEMMA LiveBadgeInitInv == LiveBadgeInit => LiveBadgeInv
<1> SUFFICES ASSUME LiveBadgeInit PROVE LiveBadgeInv
  OBVIOUS
<1> QED
  BY DEF LiveBadgeInit, LiveBadgeInv, LiveBadgeTypeOK, BadgeExactUnlessDisturbed

\* What is counted is finite.
LEMMA Counted ==
  ASSUME NEW S \in SUBSET Notice
  PROVE  /\ Cardinality(S) \in Nat
         /\ \A n : n \in S => Cardinality(S \ {n}) = Cardinality(S) - 1
         /\ \A n : n \notin S => Cardinality(S \cup {n}) = Cardinality(S) + 1
<1>1. IsFiniteSet(S)
  BY LiveBadgeAssumption, FS_Subset
<1> QED
  BY <1>1, FS_CardinalityType, FS_RemoveElement, FS_AddElement

LEMMA EmitKeeps ==
  ASSUME LiveBadgeInv, NEW n \in Notice, emitNotification(n)
  PROVE  LiveBadgeInv'
<1>1. /\ row \in [Notice -> {"none", "unread", "read"}] /\ row[n] = "none"
      /\ row' = [row EXCEPT ![n] = "unread"] /\ emitting' = emitting \cup {n}
      /\ badge' = badge /\ stream' = stream /\ wire' = wire /\ disturbed' = disturbed
      /\ emitting \subseteq Notice /\ badge \in [Tab -> Nat \cup {NULL}]
      /\ wire \in [Tab -> SUBSET Notice]
      /\ n \notin emitting /\ \A t \in Tab : n \notin wire[t]
  BY DEF LiveBadgeInv, LiveBadgeTypeOK, emitNotification
<1>2. LiveBadgeTypeOK'
  BY <1>1 DEF LiveBadgeInv, LiveBadgeTypeOK
<1>3. \A m \in Notice : row'[m] = "none" => m \notin emitting' /\ \A t \in Tab : m \notin wire'[t]
  BY <1>1 DEF LiveBadgeInv
<1>4. \A t \in Tab : /\ wire'[t] \cap emitting' = {}
                     /\ t \in stream' => badge'[t] \in Nat
                     /\ t \notin stream' => wire'[t] = {}
  BY <1>1 DEF LiveBadgeInv
<1>5. UnreadRows' = UnreadRows \cup {n} /\ n \notin UnreadRows /\ UnreadRows \in SUBSET Notice
  BY <1>1 DEF UnreadRows
<1>6. /\ Cardinality(UnreadRows') = Cardinality(UnreadRows) + 1
      /\ Cardinality(emitting') = Cardinality(emitting) + 1
      /\ Cardinality(UnreadRows) \in Nat /\ Cardinality(emitting) \in Nat
  BY <1>1, <1>5, Counted
<1>7. \A t \in Tab : Cardinality(wire[t]) \in Nat
  BY <1>1, Counted
<1>8. BadgeExactUnlessDisturbed'
  <2> SUFFICES ASSUME NEW t \in Tab, badge[t] # NULL, t \notin disturbed
               PROVE  badge[t] + Cardinality(wire[t]) + Cardinality(emitting') =
                        Cardinality(UnreadRows')
    BY <1>1 DEF BadgeExactUnlessDisturbed
  <2>1. badge[t] + Cardinality(wire[t]) + Cardinality(emitting) = Cardinality(UnreadRows)
    BY DEF LiveBadgeInv, BadgeExactUnlessDisturbed
  <2>2. badge[t] \in Nat
    BY <1>1
  <2> QED
    BY <1>6, <1>7, <2>1, <2>2
<1> QED
  BY <1>2, <1>3, <1>4, <1>8 DEF LiveBadgeInv

LEMMA PublishKeeps ==
  ASSUME LiveBadgeInv, NEW n \in Notice, publish(n)
  PROVE  LiveBadgeInv'
<1>1. /\ row' = row /\ emitting' = emitting \ {n} /\ badge' = badge /\ stream' = stream
      /\ row \in [Notice -> {"none", "unread", "read"}] /\ row[n] # "none"
      /\ n \in emitting /\ emitting \subseteq Notice /\ badge \in [Tab -> Nat \cup {NULL}]
      /\ wire \in [Tab -> SUBSET Notice] /\ disturbed \subseteq Tab
      /\ \A t \in Tab : n \notin wire[t]
  BY DEF LiveBadgeInv, LiveBadgeTypeOK, publish
<1>2. /\ Cardinality(emitting') = Cardinality(emitting) - 1
      /\ Cardinality(emitting) \in Nat /\ Cardinality(UnreadRows) \in Nat
  BY <1>1, Counted DEF UnreadRows
<1>3. CASE /\ wire' = [t \in Tab |-> IF t \in stream THEN wire[t] \cup {n} ELSE wire[t]]
           /\ disturbed' = disturbed \cup (Tab \ stream)
  <2>1. LiveBadgeTypeOK'
    BY <1>1, <1>3 DEF LiveBadgeInv, LiveBadgeTypeOK
  <2>2. \A m \in Notice : row'[m] = "none" => m \notin emitting' /\ \A t \in Tab : m \notin wire'[t]
    BY <1>1, <1>3 DEF LiveBadgeInv
  <2>3. \A t \in Tab : /\ wire'[t] \cap emitting' = {}
                       /\ t \in stream' => badge'[t] \in Nat
                       /\ t \notin stream' => wire'[t] = {}
    BY <1>1, <1>3 DEF LiveBadgeInv
  <2>4. BadgeExactUnlessDisturbed'
    <3> SUFFICES ASSUME NEW t \in Tab, badge[t] # NULL, t \notin disturbed'
                 PROVE  badge[t] + Cardinality(wire'[t]) + Cardinality(emitting') =
                          Cardinality(UnreadRows)
      BY <1>1 DEF BadgeExactUnlessDisturbed, UnreadRows
    <3>1. t \in stream /\ t \notin disturbed /\ badge[t] \in Nat
      BY <1>1, <1>3
    <3>2. badge[t] + Cardinality(wire[t]) + Cardinality(emitting) = Cardinality(UnreadRows)
      BY <3>1 DEF LiveBadgeInv, BadgeExactUnlessDisturbed
    <3>3. wire'[t] = wire[t] \cup {n} /\ n \notin wire[t] /\ wire[t] \in SUBSET Notice
      BY <1>1, <1>3, <3>1
    <3>4. Cardinality(wire'[t]) = Cardinality(wire[t]) + 1 /\ Cardinality(wire[t]) \in Nat
      BY <3>3, Counted
    <3> QED
      BY <1>2, <3>1, <3>2, <3>4
  <2> QED
    BY <2>1, <2>2, <2>3, <2>4 DEF LiveBadgeInv
<1>4. CASE disturbed' = Tab /\ wire' = wire
  <2>1. LiveBadgeTypeOK'
    BY <1>1, <1>4 DEF LiveBadgeInv, LiveBadgeTypeOK
  <2> QED
    BY <1>1, <1>4, <2>1 DEF LiveBadgeInv, BadgeExactUnlessDisturbed
<1> QED
  BY <1>3, <1>4 DEF publish

LEMMA NoticesReadKeep ==
  ASSUME LiveBadgeInv, markNotificationsReadByLinkedItem
  PROVE  LiveBadgeInv'
<1>1. PICK N \in SUBSET UnreadRows : row' = [n \in Notice |-> IF n \in N THEN "read" ELSE row[n]]
  BY DEF markNotificationsReadByLinkedItem
<1>2. /\ disturbed' = Tab /\ emitting' = emitting /\ badge' = badge /\ stream' = stream
      /\ wire' = wire
  BY DEF markNotificationsReadByLinkedItem
<1>3. /\ row' \in [Notice -> {"none", "unread", "read"}]
      /\ \A n \in Notice : row'[n] = "none" => row[n] = "none"
  BY <1>1 DEF LiveBadgeInv, LiveBadgeTypeOK
<1>4. LiveBadgeTypeOK'
  BY <1>2, <1>3 DEF LiveBadgeInv, LiveBadgeTypeOK
<1> QED
  BY <1>2, <1>3, <1>4 DEF LiveBadgeInv, BadgeExactUnlessDisturbed

LEMMA TabKeeps ==
  ASSUME LiveBadgeInv, NEW t \in Tab,
         NotificationBadgeServer(t) \/ subscribe(t) \/ handleEvent(t) \/ Abort(t)
  PROVE  LiveBadgeInv'
<1>1. /\ row' = row /\ emitting' = emitting /\ emitting \subseteq Notice
      /\ badge \in [Tab -> Nat \cup {NULL}] /\ wire \in [Tab -> SUBSET Notice]
      /\ stream \subseteq Tab /\ disturbed \subseteq Tab
      /\ row \in [Notice -> {"none", "unread", "read"}]
  BY DEF LiveBadgeInv, LiveBadgeTypeOK, NotificationBadgeServer, subscribe, handleEvent, Abort
<1>2. UnreadRows' = UnreadRows /\ Cardinality(UnreadRows) \in Nat /\ Cardinality(emitting) \in Nat
  BY <1>1, Counted DEF UnreadRows
<1>3. \* Of the other tabs nothing changes, and nothing new is on its way to this one.
      /\ badge' \in [Tab -> Nat \cup {NULL}] /\ wire' \in [Tab -> SUBSET Notice]
      /\ stream' \subseteq Tab /\ disturbed' \subseteq Tab
      /\ wire'[t] \subseteq wire[t]
      /\ t \in stream' => badge'[t] \in Nat
      /\ t \notin stream' => wire'[t] = {}
      /\ \A u \in Tab \ {t} : /\ badge'[u] = badge[u] /\ wire'[u] = wire[u]
                              /\ u \in stream' <=> u \in stream
                              /\ u \in disturbed' <=> u \in disturbed
  <2>1. CASE NotificationBadgeServer(t)
    BY <1>1, <1>2, <2>1 DEF NotificationBadgeServer
  <2>2. CASE subscribe(t)
    BY <1>1, <2>2 DEF subscribe, LiveBadgeInv
  <2>3. CASE handleEvent(t)
    <3>1. badge[t] \in Nat /\ t \in stream
      BY <2>3 DEF handleEvent, LiveBadgeInv
    <3> QED
      BY <1>1, <2>3, <3>1 DEF handleEvent
  <2>4. CASE Abort(t)
    BY <1>1, <2>4 DEF Abort
  <2> QED
    BY <2>1, <2>2, <2>3, <2>4
<1>4. badge'[t] # NULL /\ t \notin disturbed' =>
        badge'[t] + Cardinality(wire'[t]) + Cardinality(emitting) = Cardinality(UnreadRows)
  <2> SUFFICES ASSUME badge'[t] # NULL, t \notin disturbed'
               PROVE  badge'[t] + Cardinality(wire'[t]) + Cardinality(emitting) =
                        Cardinality(UnreadRows)
    OBVIOUS
  <2>0. Cardinality({}) = 0
    BY FS_EmptySet
  <2>1. CASE NotificationBadgeServer(t)
    <3>1. badge'[t] = Cardinality(UnreadRows) /\ wire'[t] = {} /\ emitting = {}
      BY <1>1, <2>1 DEF NotificationBadgeServer
    <3> QED
      BY <1>2, <2>0, <3>1
  <2>2. CASE subscribe(t) \/ Abort(t)
    <3>1. badge'[t] = badge[t] /\ wire'[t] = wire[t] /\ t \notin disturbed
      BY <1>1, <2>2 DEF subscribe, Abort
    <3> QED
      BY <3>1 DEF LiveBadgeInv, BadgeExactUnlessDisturbed
  <2>3. CASE handleEvent(t)
    <3>1. PICK n \in wire[t] : wire' = [wire EXCEPT ![t] = wire[t] \ {n}]
      BY <2>3 DEF handleEvent
    <3>2. badge[t] \in Nat /\ badge'[t] = badge[t] + 1 /\ wire'[t] = wire[t] \ {n}
      BY <1>1, <2>3, <3>1 DEF handleEvent, LiveBadgeInv
    <3>3. Cardinality(wire'[t]) = Cardinality(wire[t]) - 1 /\ Cardinality(wire[t]) \in Nat
      BY <1>1, <3>1, <3>2, Counted
    <3>4. badge[t] # NULL /\ t \notin disturbed
      BY <2>3, <3>2, LiveBadgeAssumption DEF handleEvent
    <3>5. badge[t] + Cardinality(wire[t]) + Cardinality(emitting) = Cardinality(UnreadRows)
      BY <3>4 DEF LiveBadgeInv, BadgeExactUnlessDisturbed
    <3> QED
      BY <1>2, <3>2, <3>3, <3>5
  <2> QED
    BY <2>1, <2>2, <2>3
<1>5. LiveBadgeTypeOK'
  BY <1>1, <1>3 DEF LiveBadgeTypeOK
<1>6. BadgeExactUnlessDisturbed'
  BY <1>1, <1>2, <1>3, <1>4 DEF LiveBadgeInv, BadgeExactUnlessDisturbed
<1> QED
  BY <1>1, <1>3, <1>5, <1>6 DEF LiveBadgeInv

LEMMA LiveBadgeStep == LiveBadgeInv /\ [LiveBadgeNext]_liveBadgeVars => LiveBadgeInv'
<1> SUFFICES ASSUME LiveBadgeInv, [LiveBadgeNext]_liveBadgeVars PROVE LiveBadgeInv'
  OBVIOUS
<1>1. CASE UNCHANGED liveBadgeVars
  BY <1>1
     DEF liveBadgeVars, LiveBadgeInv, LiveBadgeTypeOK, BadgeExactUnlessDisturbed, UnreadRows
<1> QED
  BY <1>1, EmitKeeps, PublishKeeps, NoticesReadKeep, TabKeeps DEF LiveBadgeNext

-----------------------------------------------------------------------------
(***************************************************************************)
(* The folders.  What a tab still has to do to its copy is what its own    *)
(* action did to the rows, and of every write of another it is told        *)
(* nothing.  The events that are written lag behind the writes by the      *)
(* actions that are between the two.                                       *)
(***************************************************************************)
Recording == {t \in TreeTab : pending[t] # NULL /\ pending[t].step = "audit"}

\* What the copy of a tab is when nothing came in between.
InStep(T, view, action) ==
  IF action # NULL /\ action.heard /\ action.step # "write"
  THEN T = Apply(view, action.op, action.folder)
  ELSE view = T

ViewOK(t, T, view, action, stale) ==
  /\ action # NULL => view \in Trees /\ (action.step # "write" => action.folder \in Folder)
  /\ view \in Trees /\ t \notin stale => InStep(T, view, action)

FoldersInv ==
  /\ FoldersTypeOK
  /\ \A t \in TreeTab : ViewOK(t, tree, treeView[t], pending[t], treeStale)
  /\ treeAudit + Cardinality(Recording) <= treeWrites

LEMMA RecordingCounted ==
  ASSUME NEW S \in SUBSET TreeTab
  PROVE  /\ Cardinality(S) \in Nat
         /\ \A t : t \in S => Cardinality(S \ {t}) = Cardinality(S) - 1
         /\ \A t : t \notin S => Cardinality(S \cup {t}) = Cardinality(S) + 1
<1>1. IsFiniteSet(S)
  BY FoldersAssumption, FS_Subset
<1> QED
  BY <1>1, FS_CardinalityType, FS_RemoveElement, FS_AddElement

LEMMA FoldersInitInv == FoldersInit => FoldersInv
<1> SUFFICES ASSUME FoldersInit PROVE FoldersInv
  OBVIOUS
<1>1. tree \in Trees
  <2>1. tree \in [SeededFolder -> Row]
    BY DEF FoldersInit, Row
  <2> QED
    BY <2>1, FoldersAssumption DEF Trees
<1>2. Recording = {} /\ Cardinality({}) = 0
  BY FS_EmptySet DEF FoldersInit, Recording
<1>3. FoldersTypeOK
  BY <1>1, FoldersAssumption DEF FoldersInit, FoldersTypeOK
<1>4. treeAudit + Cardinality(Recording) <= treeWrites
  BY <1>2 DEF FoldersInit
<1>5. \A t \in TreeTab : ViewOK(t, tree, treeView[t], pending[t], treeStale)
  BY NoActionAssumption DEF FoldersInit, ViewOK
<1> QED
  BY <1>3, <1>4, <1>5 DEF FoldersInv

\* Whatever is done to a tree makes a tree.
LEMMA ApplyTyped ==
  ASSUME NEW T \in Trees, NEW a \in FolderAction, NEW f \in Folder
  PROVE  Apply(T, a.op, f) \in Trees
<1>1. PICK op \in Creation \cup Renaming \cup Moving \cup Placing : op = a.op
  BY DEF FolderAction
<1>2. PICK F \in SUBSET Folder : T \in [F -> Row]
  BY DEF Trees
<1>3. CASE op \in Creation
  <2>1. op.kind = "create" /\ op.name \in FolderName /\ op.parent \in Folder \cup {NULL}
    BY <1>3 DEF Creation
  <2>2. Apply(T, op, f) = [g \in DOMAIN T \cup {f} |->
                             IF g = f THEN [name |-> op.name, parent |-> op.parent] ELSE T[g]]
    BY <2>1, Zenon DEF Apply
  <2>3. Apply(T, op, f) \in [F \cup {f} -> Row]
    BY <1>2, <2>1, <2>2 DEF Row
  <2> QED
    BY <1>1, <2>3 DEF Trees
<1>4. CASE op \in Renaming
  <2>1. op.kind = "rename" /\ op.name \in FolderName
    BY <1>4 DEF Renaming
  <2>2. Apply(T, op, f) = [T EXCEPT ![f].name = op.name]
    BY <2>1, Zenon DEF Apply
  <2>3. Apply(T, op, f) \in [F -> Row]
    BY <1>2, <2>1, <2>2 DEF Row
  <2> QED
    BY <1>1, <2>3 DEF Trees
<1>5. CASE op \in Moving
  <2>1. op.kind = "move" /\ op.parent \in Folder \cup {NULL}
    BY <1>5 DEF Moving
  <2>2. Apply(T, op, f) = [T EXCEPT ![f].parent = op.parent]
    BY <2>1, Zenon DEF Apply
  <2>3. Apply(T, op, f) \in [F -> Row]
    BY <1>2, <2>1, <2>2 DEF Row
  <2> QED
    BY <1>1, <2>3 DEF Trees
<1>6. CASE op \in Placing
  <2>1. op.kind = "place"
    BY <1>6 DEF Placing
  <2>2. Apply(T, op, f) = T
    BY <2>1, Zenon DEF Apply
  <2> QED
    BY <1>1, <2>2
<1> QED
  BY <1>1, <1>3, <1>4, <1>5, <1>6

\* A step of one tab that changes its copy or its action and no row.
LEMMA TabMoves ==
  ASSUME FoldersInv, NEW t \in TreeTab, NEW v \in Trees \cup {NULL},
         NEW a \in FolderAction \cup {NULL},
         treeView' = [treeView EXCEPT ![t] = v], pending' = [pending EXCEPT ![t] = a],
         treeStale' \subseteq TreeTab, \A u \in TreeTab \ {t} : u \in treeStale' <=> u \in treeStale,
         UNCHANGED <<tree, placed, treeWrites>>, treeAudit' \in Nat,
         treeAudit' + Cardinality(Recording') <= treeAudit + Cardinality(Recording),
         ViewOK(t, tree, v, a, treeStale')
  PROVE  FoldersInv'
<1>1. Recording' \in SUBSET TreeTab
  BY DEF Recording
<1>2. Cardinality(Recording') \in Nat
  BY <1>1, RecordingCounted
<1>3. Cardinality(Recording) \in Nat
  BY RecordingCounted DEF Recording
<1>4. treeAudit \in Nat /\ treeWrites \in Nat /\ MaxWrites \in Nat /\ treeWrites <= MaxWrites
      /\ treeWrites' = treeWrites /\ treeAudit + Cardinality(Recording) <= treeWrites
  BY FoldersAssumption DEF FoldersInv, FoldersTypeOK
<1>5. treeAudit' + Cardinality(Recording') <= treeWrites' /\ treeAudit' <= MaxWrites
  BY <1>2, <1>3, <1>4
<1>6. /\ treeView' \in [TreeTab -> Trees \cup {NULL}] /\ treeView'[t] = v
      /\ pending' \in [TreeTab -> FolderAction \cup {NULL}] /\ pending'[t] = a
      /\ \A u \in TreeTab \ {t} : treeView'[u] = treeView[u] /\ pending'[u] = pending[u]
      /\ \A u \in TreeTab \ {t} : u \in treeStale' <=> u \in treeStale
      /\ treeStale' \subseteq TreeTab
  BY DEF FoldersInv, FoldersTypeOK
<1>7. FoldersTypeOK'
  BY <1>4, <1>5, <1>6 DEF FoldersInv, FoldersTypeOK
<1>8. ASSUME NEW u \in TreeTab
      PROVE  ViewOK(u, tree', treeView'[u], pending'[u], treeStale')
  <2>1. CASE u = t
    BY <1>6, <2>1
  <2>2. CASE u # t
    <3>1. ViewOK(u, tree, treeView[u], pending[u], treeStale)
      BY DEF FoldersInv
    <3>2. /\ treeView'[u] = treeView[u] /\ pending'[u] = pending[u] /\ tree' = tree
          /\ u \in treeStale' <=> u \in treeStale
      BY <1>6, <2>2
    <3> QED
      BY <3>1, <3>2 DEF ViewOK
  <2> QED
    BY <2>1, <2>2
<1> QED
  BY <1>5, <1>7, <1>8 DEF FoldersInv

LEMMA RecordingIs ==
  ASSUME FoldersInv, NEW t \in TreeTab, NEW a \in FolderAction \cup {NULL},
         pending' = [pending EXCEPT ![t] = a]
  PROVE  Recording' = IF a # NULL /\ a.step = "audit" THEN Recording \cup {t} ELSE Recording \ {t}
<1>1. /\ pending'[t] = a
      /\ \A u \in TreeTab \ {t} : pending'[u] = pending[u]
  BY DEF FoldersInv, FoldersTypeOK
<1> QED
  BY <1>1 DEF Recording

\* One tab less than before is between a write and its event, or as many.
LEMMA NoMoreRecording ==
  ASSUME FoldersInv, NEW t \in TreeTab, NEW a \in FolderAction \cup {NULL},
         pending' = [pending EXCEPT ![t] = a], a # NULL => a.step # "audit" \/ t \in Recording
  PROVE  /\ Cardinality(Recording') \in Nat /\ Cardinality(Recording) \in Nat
         /\ Cardinality(Recording') <= Cardinality(Recording)
         /\ t \in Recording /\ a # NULL /\ a.step # "audit" =>
              Cardinality(Recording') = Cardinality(Recording) - 1
<1>0. Recording \in SUBSET TreeTab
  BY DEF Recording
<1>1. Recording' = Recording \/ (t \in Recording /\ Recording' = Recording \ {t})
  <2>1. CASE a # NULL /\ a.step = "audit"
    <3>1. t \in Recording /\ Recording' = Recording \cup {t}
      BY <2>1, RecordingIs
    <3>2. Recording \cup {t} = Recording
      BY <3>1
    <3> QED
      BY <3>1, <3>2
  <2>2. CASE ~(a # NULL /\ a.step = "audit")
    <3>1. Recording' = Recording \ {t}
      BY <2>2, RecordingIs
    <3>2. t \notin Recording => Recording \ {t} = Recording
      OBVIOUS
    <3> QED
      BY <3>1, <3>2
  <2> QED
    BY <2>1, <2>2
<1>2. t \in Recording /\ a # NULL /\ a.step # "audit" => Recording' = Recording \ {t}
  BY RecordingIs
<1>3. /\ Cardinality(Recording) \in Nat /\ Cardinality(Recording \ {t}) \in Nat
      /\ t \in Recording => Cardinality(Recording \ {t}) = Cardinality(Recording) - 1
  BY <1>0, RecordingCounted
<1>4. CASE Recording' = Recording
  BY <1>2, <1>3, <1>4
<1>5. CASE t \in Recording /\ Recording' = Recording \ {t}
  BY <1>3, <1>5
<1> QED
  BY <1>1, <1>4, <1>5, Zenon

LEMMA PageLoaded ==
  ASSUME FoldersInv, NEW t \in TreeTab, listEngagementFolders(t)
  PROVE  FoldersInv'
<1>0. /\ pending \in [TreeTab -> FolderAction \cup {NULL}] /\ tree \in Trees
      /\ treeStale \subseteq TreeTab /\ treeAudit \in Nat
      /\ ViewOK(t, tree, treeView[t], pending[t], treeStale)
  BY DEF FoldersInv, FoldersTypeOK
<1>1. PICK a \in FolderAction \cup {NULL} :
        /\ pending' = [pending EXCEPT ![t] = a]
        /\ a = NULL <=> pending[t] = NULL
        /\ a # NULL => ~a.heard /\ a.step = pending[t].step /\ a.folder = pending[t].folder
  <2>1. CASE pending[t] = NULL
    <3>1. pending' = [pending EXCEPT ![t] = NULL]
      BY <1>0, <2>1 DEF listEngagementFolders
    <3> QED
      BY <2>1, <3>1
  <2>2. CASE pending[t] # NULL
    <3>1. PICK h \in FolderAction : h = pending[t]
      BY <1>0, <2>2
    <3>2. PICK a \in FolderAction : a = [h EXCEPT !.heard = FALSE]
      <4>1. [h EXCEPT !.heard = FALSE] \in FolderAction
        BY DEF FolderAction
      <4> QED
        BY <4>1
    <3>3. ~a.heard /\ a.step = h.step /\ a.folder = h.folder
      BY <3>2 DEF FolderAction
    <3>4. pending' = [pending EXCEPT ![t] = a]
      BY <2>2, <3>1, <3>2, Zenon DEF listEngagementFolders
    <3> QED
      BY <2>2, <3>1, <3>3, <3>4, NoActionAssumption
  <2> QED
    BY <2>1, <2>2
<1>2. /\ treeView' = [treeView EXCEPT ![t] = tree] /\ treeStale' = treeStale \ {t}
      /\ UNCHANGED <<tree, placed, treeWrites>> /\ treeAudit' = treeAudit
  BY DEF listEngagementFolders
<1>3. a # NULL => a.step # "audit" \/ t \in Recording
  BY <1>1 DEF Recording
<1>4. Cardinality(Recording') <= Cardinality(Recording) /\ Cardinality(Recording) \in Nat
      /\ Cardinality(Recording') \in Nat
  BY <1>1, <1>3, NoMoreRecording
<1>6. ViewOK(t, tree, tree, a, treeStale')
  BY <1>0, <1>1 DEF ViewOK, InStep
<1>7. treeAudit' \in Nat /\
      treeAudit' + Cardinality(Recording') <= treeAudit + Cardinality(Recording)
  BY <1>0, <1>2, <1>4
<1>8. treeStale' \subseteq TreeTab /\ \A u \in TreeTab \ {t} : u \in treeStale' <=> u \in treeStale
  BY <1>0, <1>2
<1> QED
  BY <1>0, <1>1, <1>2, <1>6, <1>7, <1>8, TabMoves

LEMMA SubmitKeeps ==
  ASSUME FoldersInv, NEW t \in TreeTab, Submit(t)
  PROVE  FoldersInv'
<1>0. /\ treeView[t] \in Trees /\ pending[t] = NULL /\ treeAudit \in Nat
      /\ treeView \in [TreeTab -> Trees \cup {NULL}]
      /\ ViewOK(t, tree, treeView[t], NULL, treeStale) /\ treeStale \subseteq TreeTab
  BY DEF FoldersInv, FoldersTypeOK, Submit
<1>1. PICK op \in Offered(t) :
        pending' = [pending EXCEPT ![t] = [op |-> op, step |-> "write", folder |-> NULL,
                                           ok |-> TRUE, heard |-> TRUE]]
  BY DEF Submit
<1>2. op \in Creation \cup Renaming \cup Moving \cup Placing
  <2>1. DOMAIN treeView[t] \subseteq Folder
    BY <1>0 DEF Trees
  <2> QED
    BY <2>1, <1>1 DEF Offered, Creation, Renaming, Moving, Placing
<1>3. PICK a \in FolderAction : a = [op |-> op, step |-> "write", folder |-> NULL,
                                    ok |-> TRUE, heard |-> TRUE]
  BY <1>2 DEF FolderAction
<1>4. a.step = "write" /\ pending' = [pending EXCEPT ![t] = a]
  BY <1>1, <1>3
<1>5. /\ treeView' = [treeView EXCEPT ![t] = treeView[t]]
      /\ UNCHANGED <<tree, placed, treeWrites>> /\ treeAudit' = treeAudit /\ treeStale' = treeStale
  BY <1>0 DEF Submit
<1>6. /\ Cardinality(Recording') <= Cardinality(Recording) /\ Cardinality(Recording) \in Nat
      /\ Cardinality(Recording') \in Nat
  BY <1>4, NoMoreRecording
<1>7. ViewOK(t, tree, treeView[t], a, treeStale')
  BY <1>0, <1>4, <1>5 DEF ViewOK, InStep
<1>8. treeAudit' \in Nat
      /\ treeAudit' + Cardinality(Recording') <= treeAudit + Cardinality(Recording)
  BY <1>0, <1>5, <1>6
<1> QED
  BY <1>0, <1>4, <1>5, <1>7, <1>8, TabMoves

LEMMA RecordKeepsTrees ==
  ASSUME FoldersInv, NEW t \in TreeTab, RecordFolderEvent(t)
  PROVE  FoldersInv'
<1>0. /\ pending[t] \in FolderAction /\ pending[t].step = "audit" /\ pending[t] # NULL
      /\ treeAudit \in Nat
      /\ treeView \in [TreeTab -> Trees \cup {NULL}] /\ treeView[t] \in Trees
      /\ ViewOK(t, tree, treeView[t], pending[t], treeStale) /\ treeStale \subseteq TreeTab
  BY DEF FoldersInv, FoldersTypeOK, RecordFolderEvent, ViewOK
<1>1. PICK h \in FolderAction : h = pending[t]
  BY <1>0
<1>2. PICK ok \in BOOLEAN :
        /\ pending' = [pending EXCEPT ![t] = [h EXCEPT !.step = "answer", !.ok = ok]]
        /\ treeAudit' = treeAudit \/ treeAudit' = treeAudit + 1
  <2>1. CASE treeAudit' = treeAudit + 1 /\ pending' = [pending EXCEPT ![t].step = "answer"]
    <3>1. [h EXCEPT !.step = "answer"] = [h EXCEPT !.step = "answer", !.ok = h.ok]
      BY DEF FolderAction
    <3>2. h.ok \in BOOLEAN
      BY DEF FolderAction
    <3>3. pending' = [pending EXCEPT ![t] = [h EXCEPT !.step = "answer"]]
      BY <1>1, <2>1
    <3> QED
      BY <2>1, <3>1, <3>2, <3>3, Zenon
  <2>2. CASE /\ treeAudit' = treeAudit
             /\ pending' = [pending EXCEPT ![t].step = "answer", ![t].ok = FALSE]
    <3>1. pending' = [pending EXCEPT ![t] = [h EXCEPT !.step = "answer", !.ok = FALSE]]
      BY <1>1, <2>2
    <3> QED
      BY <2>2, <3>1, Zenon
  <2> QED
    BY <2>1, <2>2 DEF RecordFolderEvent
<1>3. PICK a \in FolderAction : a = [h EXCEPT !.step = "answer", !.ok = ok]
  <2>1. [h EXCEPT !.step = "answer", !.ok = ok] \in FolderAction
    BY DEF FolderAction
  <2> QED
    BY <2>1
<1>4. /\ a.step = "answer" /\ a.op = h.op /\ a.folder = h.folder /\ a.heard = h.heard
      /\ h.step = "audit" /\ h # NULL /\ a # NULL
  <2>1. /\ h.step = "audit" /\ h # NULL /\ a # NULL
    BY <1>0, <1>1, <1>3, NoActionAssumption
  <2>2. a.step = "answer" /\ a.op = h.op /\ a.folder = h.folder /\ a.heard = h.heard
    <3>1. PICK g \in FolderAction : g = [h EXCEPT !.step = "answer"]
      <4>1. [h EXCEPT !.step = "answer"] \in FolderAction
        BY DEF FolderAction
      <4> QED
        BY <4>1
    <3>2. g.step = "answer" /\ g.op = h.op /\ g.folder = h.folder /\ g.heard = h.heard
      BY <3>1 DEF FolderAction
    <3>3. a = [g EXCEPT !.ok = ok]
      BY <1>3, <3>1, Zenon
    <3> QED
      BY <3>2, <3>3 DEF FolderAction
  <2> QED
    BY <2>1, <2>2
<1>5. pending' = [pending EXCEPT ![t] = a]
  BY <1>2, <1>3, Zenon
<1>6. /\ treeView' = [treeView EXCEPT ![t] = treeView[t]]
      /\ UNCHANGED <<tree, placed, treeWrites>> /\ treeStale' = treeStale
  BY <1>0 DEF RecordFolderEvent
<1>7. t \in Recording
  BY <1>0 DEF Recording
<1>8. /\ Cardinality(Recording') = Cardinality(Recording) - 1 /\ Cardinality(Recording) \in Nat
      /\ Cardinality(Recording') \in Nat
  BY <1>4, <1>5, <1>7, NoMoreRecording
<1>9. ViewOK(t, tree, treeView[t], a, treeStale')
  <2>1. ViewOK(t, tree, treeView[t], h, treeStale)
    BY <1>0, <1>1
  <2>2. InStep(tree, treeView[t], h) => InStep(tree, treeView[t], a)
    BY <1>4 DEF InStep
  <2> QED
    BY <1>4, <1>6, <2>1, <2>2 DEF ViewOK
<1>10. treeAudit' \in Nat
       /\ treeAudit' + Cardinality(Recording') <= treeAudit + Cardinality(Recording)
  BY <1>0, <1>2, <1>8
<1> QED
  BY <1>0, <1>5, <1>6, <1>9, <1>10, TabMoves

LEMMA AnswerKeeps ==
  ASSUME FoldersInv, NEW t \in TreeTab, Answer(t)
  PROVE  FoldersInv'
<1>0. /\ pending[t] \in FolderAction /\ pending[t].step = "answer" /\ pending[t] # NULL
      /\ treeAudit \in Nat /\ pending[t].folder \in Folder
      /\ treeView \in [TreeTab -> Trees \cup {NULL}] /\ treeView[t] \in Trees
      /\ ViewOK(t, tree, treeView[t], pending[t], treeStale) /\ treeStale \subseteq TreeTab
      /\ NULL \in FolderAction \cup {NULL}
  BY DEF FoldersInv, FoldersTypeOK, Answer, ViewOK
<1>1. PICK h \in FolderAction : h = pending[t]
  BY <1>0
<1>2. /\ pending' = [pending EXCEPT ![t] = NULL] /\ treeAudit' = treeAudit
      /\ UNCHANGED <<tree, placed, treeWrites>>
  BY DEF Answer
<1>3. /\ Cardinality(Recording') <= Cardinality(Recording) /\ Cardinality(Recording) \in Nat
      /\ Cardinality(Recording') \in Nat
  BY <1>0, <1>2, NoMoreRecording
<1>4. treeAudit' \in Nat
      /\ treeAudit' + Cardinality(Recording') <= treeAudit + Cardinality(Recording)
  BY <1>0, <1>2, <1>3
<1>5. CASE h.heard /\ h.ok
  <2>1. PICK T \in Trees : T = Apply(treeView[t], h.op, h.folder)
    BY <1>0, <1>1, ApplyTyped
  <2>2. treeView' = [treeView EXCEPT ![t] = T] /\ treeStale' = treeStale
    BY <1>1, <1>5, <2>1 DEF Answer
  <2>3. treeStale' \subseteq TreeTab /\ \A u \in TreeTab \ {t} : u \in treeStale' <=> u \in treeStale
    BY <1>0, <2>2
  <2>4. ViewOK(t, tree, T, NULL, treeStale')
    BY <1>0, <1>1, <1>5, <2>1, <2>2 DEF ViewOK, InStep
  <2> QED
    BY <1>0, <1>2, <1>4, <2>2, <2>3, <2>4, TabMoves
<1>6. CASE ~(h.heard /\ h.ok)
  <2>1. /\ treeView' = treeView
        /\ treeStale' = IF h.heard THEN treeStale \cup {t} ELSE treeStale
    BY <1>1, <1>6 DEF Answer
  <2>2. treeView' = [treeView EXCEPT ![t] = treeView[t]]
    BY <1>0, <2>1
  <2>3. treeStale' \subseteq TreeTab /\ \A u \in TreeTab \ {t} : u \in treeStale' <=> u \in treeStale
    BY <1>0, <2>1
  <2>4. ViewOK(t, tree, treeView[t], NULL, treeStale')
    BY <1>0, <1>1, <1>6, <2>1 DEF ViewOK, InStep
  <2> QED
    BY <1>0, <1>2, <1>4, <2>2, <2>3, <2>4, TabMoves
<1> QED
  BY <1>5, <1>6

\* A write: the tab is told of it when its action answers, the others never.
LEMMA WriteFolderKeeps ==
  ASSUME FoldersInv, NEW t \in TreeTab, WriteFolder(t)
  PROVE  FoldersInv'
<1>0. /\ pending[t] \in FolderAction /\ pending[t].step = "write" /\ pending[t] # NULL
      /\ treeAudit \in Nat /\ treeWrites \in Nat /\ MaxWrites \in Nat
      /\ tree \in Trees /\ placed \in [PlacedDoc -> Folder \cup {NULL}]
      /\ treeView \in [TreeTab -> Trees \cup {NULL}] /\ treeView[t] \in Trees
      /\ pending \in [TreeTab -> FolderAction \cup {NULL}]
      /\ ViewOK(t, tree, treeView[t], pending[t], treeStale) /\ treeStale \subseteq TreeTab
      /\ treeAudit + Cardinality(Recording) <= treeWrites
  BY FoldersAssumption DEF FoldersInv, FoldersTypeOK, WriteFolder, ViewOK
<1>1. PICK h \in FolderAction : h = pending[t]
  BY <1>0
<1>2. PICK f \in Folder :
        /\ f \in Target(h.op) /\ tree' = Apply(tree, h.op, f)
        /\ placed' = IF h.op.kind = "place" THEN [placed EXCEPT ![h.op.doc] = f] ELSE placed
        /\ pending' = [pending EXCEPT ![t].step = "audit", ![t].folder = f]
  <2>1. Target(h.op) \subseteq Folder
    <3>1. DOMAIN tree \subseteq Folder
      BY <1>0 DEF Trees
    <3> QED
      BY <3>1 DEF Target
  <2> QED
    BY <1>1, <2>1, Zenon DEF WriteFolder
<1>3. /\ treeWrites' = treeWrites + 1 /\ treeWrites < MaxWrites /\ treeAudit' = treeAudit
      /\ treeView' = treeView
      /\ treeStale' = treeStale \cup (TreeTab \ {t}) \cup (IF h.heard THEN {} ELSE {t})
  BY <1>1 DEF WriteFolder
<1>4. PICK a \in FolderAction : a = [h EXCEPT !.step = "audit", !.folder = f]
  <2>1. [h EXCEPT !.step = "audit", !.folder = f] \in FolderAction
    BY DEF FolderAction
  <2> QED
    BY <2>1
<1>5. a.step = "audit" /\ a.op = h.op /\ a.folder = f /\ a.heard = h.heard /\ a # NULL
  <2>1. PICK g \in FolderAction : g = [h EXCEPT !.step = "audit"]
    <3>1. [h EXCEPT !.step = "audit"] \in FolderAction
      BY DEF FolderAction
    <3> QED
      BY <3>1
  <2>2. g.step = "audit" /\ g.op = h.op /\ g.heard = h.heard
    BY <2>1 DEF FolderAction
  <2>3. a = [g EXCEPT !.folder = f]
    BY <1>4, <2>1, Zenon
  <2>4. a.step = "audit" /\ a.op = h.op /\ a.folder = f /\ a.heard = h.heard
    BY <2>2, <2>3 DEF FolderAction
  <2> QED
    BY <2>4, NoActionAssumption
<1>6. pending' = [pending EXCEPT ![t] = a]
  <2>1. pending' = [pending EXCEPT ![t] = [pending[t] EXCEPT !.step = "audit", !.folder = f]]
    BY <1>2
  <2> QED
    BY <1>1, <1>4, <2>1, Zenon
<1>7. /\ pending' \in [TreeTab -> FolderAction \cup {NULL}] /\ pending'[t] = a
      /\ \A u \in TreeTab \ {t} : pending'[u] = pending[u]
  BY <1>0, <1>6
<1>8. tree' \in Trees
  BY <1>0, <1>2, ApplyTyped
<1>9. /\ Cardinality(Recording') \in Nat
      /\ treeAudit' + Cardinality(Recording') <= treeWrites'
      /\ Cardinality(Recording) \in Nat
  <2>1. Recording' = Recording \cup {t}
    BY <1>5, <1>6, RecordingIs
  <2>2. t \notin Recording /\ Recording \in SUBSET TreeTab
    BY <1>0 DEF Recording
  <2>3. /\ Cardinality(Recording') = Cardinality(Recording) + 1 /\ Cardinality(Recording) \in Nat
    BY <2>1, <2>2, RecordingCounted
  <2> QED
    BY <1>0, <1>3, <2>3
<1>10. FoldersTypeOK'
  <2>1. placed' \in [PlacedDoc -> Folder \cup {NULL}]
    <3>1. CASE h.op.kind = "place"
      <4>1. placed' = [placed EXCEPT ![h.op.doc] = f]
        BY <1>2, <3>1
      <4> QED
        BY <1>0, <4>1
    <3>2. CASE h.op.kind # "place"
      BY <1>0, <1>2, <3>2
    <3> QED
      BY <3>1, <3>2
  <2>2. treeAudit' \in 0 .. MaxWrites /\ treeWrites' \in 0 .. MaxWrites
    BY <1>0, <1>3, <1>9
  <2>3. treeView' \in [TreeTab -> Trees \cup {NULL}] /\ treeStale' \subseteq TreeTab
    BY <1>0, <1>3
  <2> QED
    BY <1>7, <1>8, <2>1, <2>2, <2>3 DEF FoldersTypeOK
<1>11. ASSUME NEW u \in TreeTab
       PROVE  ViewOK(u, tree', treeView'[u], pending'[u], treeStale')
  <2>1. CASE u = t
    <3>1. treeView[t] \in Trees /\ t \notin treeStale' => h.heard /\ t \notin treeStale
      BY <1>3
    <3>2. t \notin treeStale => treeView[t] = tree
      BY <1>0, <1>1 DEF ViewOK, InStep
    <3>3. ViewOK(t, tree', treeView[t], a, treeStale')
      BY <1>0, <1>2, <1>5, <3>1, <3>2 DEF ViewOK, InStep
    <3> QED
      BY <1>3, <1>7, <2>1, <3>3
  <2>2. CASE u # t
    <3>1. u \in treeStale' /\ pending'[u] = pending[u] /\ treeView'[u] = treeView[u]
      BY <1>3, <1>7, <2>2
    <3>2. ViewOK(u, tree, treeView[u], pending[u], treeStale)
      BY DEF FoldersInv
    <3> QED
      BY <3>1, <3>2 DEF ViewOK
  <2> QED
    BY <2>1, <2>2
<1> QED
  BY <1>9, <1>10, <1>11 DEF FoldersInv

LEMMA FoldersStep == FoldersInv /\ [FoldersNext]_foldersVars => FoldersInv'
<1> SUFFICES ASSUME FoldersInv, [FoldersNext]_foldersVars PROVE FoldersInv'
  OBVIOUS
<1>1. CASE UNCHANGED foldersVars
  <2>1. /\ tree' = tree /\ placed' = placed /\ treeAudit' = treeAudit /\ treeWrites' = treeWrites
        /\ treeView' = treeView /\ pending' = pending /\ treeStale' = treeStale
    BY <1>1 DEF foldersVars
  <2>2. Recording' = Recording /\ FoldersTypeOK'
    BY <2>1 DEF Recording, FoldersInv, FoldersTypeOK
  <2> QED
    BY <2>1, <2>2 DEF FoldersInv
<1> QED
  BY <1>1, PageLoaded, SubmitKeeps, WriteFolderKeeps, RecordKeepsTrees, AnswerKeeps DEF FoldersNext

LEMMA TreeShown == FoldersInv => TreeShowsRowsUnlessStale
<1> SUFFICES ASSUME FoldersInv, NEW t \in TreeTab, treeView[t] # NULL, pending[t] = NULL,
                    t \notin treeStale
             PROVE  treeView[t] = tree
  BY DEF TreeShowsRowsUnlessStale
<1>1. treeView[t] \in Trees /\ ViewOK(t, tree, treeView[t], pending[t], treeStale)
  BY DEF FoldersInv, FoldersTypeOK
<1> QED
  BY <1>1 DEF ViewOK, InStep

-----------------------------------------------------------------------------
(***************************************************************************)
(* The document pages.  A document belongs to the one control that         *)
(* inserted its row, so that no other handler can change what its user is  *)
(* told of it; a list that was read stays right until a write, which makes *)
(* every list outdated.                                                    *)
(***************************************************************************)
FileRow == [item : ChecklistItem \cup {NULL}, state : {"none", "pending", "active", "infected"},
            deleted : BOOLEAN]
ControlRow == [status : {"idle", "uploading", "completing", "active", "infected", "error"},
               doc : Paper \cup {NULL}, live : BOOLEAN]
TwoLists == [working : SUBSET Paper, archive : SUBSET Paper]

PapersOK(F, P) == \A d \in Paper : d \in P <=> F[d].state = "active"

\* A document has one control at most.
OneOwner(C) ==
  \A b, c \in Control : b # c /\ C[c].doc # NULL => C[b].doc # C[c].doc

ControlOK(c, F, x, P, L) ==
  /\ x.doc # NULL => F[x.doc].state # "none"
  /\ x.live => /\ x.status \in {"uploading", "completing"}
               /\ x.status = "completing" => x.doc # NULL
               /\ x.doc # NULL => F[x.doc].state = "pending"
               /\ c[1] \in OfficeTab => L[c[1]] \in TwoLists
  /\ x.status = "active" => x.doc \in P
  /\ x.status = "infected" => x.doc \notin P

\* The items that a checklist shows as provided.
PapersListed(F, P, items) == \A i \in items : \E d \in P : F[d].item = i

ListsOK(t) ==
  /\ refresh[t] # "no" => lists[t] \in TwoLists
  /\ refresh[t] = "archive" /\ t \notin outdated => fresh[t] = Working
  /\ lists[t] # NULL /\ refresh[t] = "no" /\ t \notin outdated =>
       lists[t] = [working |-> Working, archive |-> Archive]

DocumentPagesInv ==
  /\ file \in [Paper -> FileRow]
  /\ checklist \in [ChecklistTab -> (SUBSET ChecklistItem) \cup {NULL}]
  /\ lists \in [OfficeTab -> TwoLists \cup {NULL}]
  /\ refresh \in [OfficeTab -> {"no", "both", "archive"}]
  /\ fresh \in [OfficeTab -> SUBSET Paper]
  /\ control \in [Control -> ControlRow]
  /\ promoted \subseteq Paper
  /\ outdated \subseteq OfficeTab
  /\ PapersOK(file, promoted)
  /\ OneOwner(control)
  /\ \A c \in Control : ControlOK(c, file, control[c], promoted, lists)
  /\ \A t \in ChecklistTab : checklist[t] # NULL => PapersListed(file, promoted, checklist[t])
  /\ \A t \in OfficeTab : ListsOK(t)

LEMMA DocumentPagesInitInv == DocumentPagesInit => DocumentPagesInv
<1> SUFFICES ASSUME DocumentPagesInit PROVE DocumentPagesInv
  OBVIOUS
<1>1. NoFile \in FileRow /\ NoFile.state = "none" /\ Idle \in ControlRow /\ Idle.doc = NULL
      /\ Idle.live = FALSE /\ Idle.status = "idle"
  BY DEF NoFile, FileRow, Idle, ControlRow
<1>2. /\ file = [d \in Paper |-> NoFile] /\ control = [c \in Control |-> Idle]
      /\ promoted = {} /\ outdated = {}
      /\ checklist = [t \in ChecklistTab |-> NULL] /\ lists = [t \in OfficeTab |-> NULL]
      /\ refresh = [t \in OfficeTab |-> "no"] /\ fresh = [t \in OfficeTab |-> {}]
  BY DEF DocumentPagesInit
<1>3. PapersOK(file, promoted)
  BY <1>1, <1>2 DEF PapersOK
<1>4. OneOwner(control)
  BY <1>1, <1>2 DEF OneOwner
<1>5. \A c \in Control : ControlOK(c, file, control[c], promoted, lists)
  <2>1. \A c \in Control : ControlOK(c, file, Idle, promoted, lists)
    BY <1>1 DEF ControlOK
  <2> QED
    BY <1>2, <2>1
<1>6. \A t \in OfficeTab : ListsOK(t)
  BY <1>2 DEF ListsOK
<1> QED
  BY <1>1, <1>2, <1>3, <1>4, <1>5, <1>6 DEF DocumentPagesInv

LEMMA DocumentPagesTyped == DocumentPagesInv => DocumentPagesTypeOK
BY DEF DocumentPagesInv, DocumentPagesTypeOK, FileRow, ControlRow, TwoLists

LEMMA UploadsToldAsStored == DocumentPagesInv => ToldAsStored
BY DEF DocumentPagesInv, ToldAsStored, ControlOK, PapersListed

LEMMA ListsShown == DocumentPagesInv => ListsShowRowsUnlessOutdated
BY DEF DocumentPagesInv, ListsShowRowsUnlessOutdated, ListsOK

\* What is shown of an engagement's items was accepted.
LEMMA FulfilledAccepted ==
  ASSUME DocumentPagesInv
  PROVE  Fulfilled \in SUBSET ChecklistItem /\ PapersListed(file, promoted, Fulfilled)
BY DEF DocumentPagesInv, Fulfilled, Working, PapersOK, PapersListed

\* A page of the client.
LEMMA ChecklistShown ==
  ASSUME DocumentPagesInv, NEW t \in ChecklistTab, OpenChecklist(t) \/ RefreshChecklist(t)
  PROVE  DocumentPagesInv'
<1>1. /\ checklist' = [checklist EXCEPT ![t] = Fulfilled]
      /\ file' = file /\ lists' = lists /\ refresh' = refresh /\ fresh' = fresh
      /\ promoted' = promoted /\ outdated' = outdated
  BY DEF OpenChecklist, RefreshChecklist
<1>2. \A c \in Control : control'[c] = control[c] \/ control'[c] = Idle
  BY DEF OpenChecklist, RefreshChecklist
<1>3. Idle \in ControlRow /\ Idle.doc = NULL /\ Idle.live = FALSE /\ Idle.status = "idle"
  BY DEF Idle, ControlRow
<1>4. control' \in [Control -> ControlRow]
  BY <1>3 DEF OpenChecklist, RefreshChecklist, DocumentPagesInv
<1>5. OneOwner(control')
  BY <1>2, <1>3 DEF OneOwner, DocumentPagesInv
<1>6. \A c \in Control : ControlOK(c, file, control'[c], promoted, lists)
  <2>1. \A c \in Control : ControlOK(c, file, Idle, promoted, lists)
    BY <1>3 DEF ControlOK
  <2>2. \A c \in Control : ControlOK(c, file, control[c], promoted, lists)
    BY DEF DocumentPagesInv
  <2> QED
    BY <1>2, <2>1, <2>2
<1>7. /\ checklist' \in [ChecklistTab -> (SUBSET ChecklistItem) \cup {NULL}]
      /\ \A u \in ChecklistTab : checklist'[u] # NULL => PapersListed(file, promoted, checklist'[u])
  BY <1>1, FulfilledAccepted DEF DocumentPagesInv
<1>8. \A u \in OfficeTab : ListsOK(u)'
  BY <1>1 DEF DocumentPagesInv, ListsOK, Working, Archive
<1> QED
  BY <1>1, <1>4, <1>5, <1>6, <1>7, <1>8 DEF DocumentPagesInv

\* A page of the office: it is opened, or its lists are read again.
LEMMA OfficePageShown ==
  ASSUME DocumentPagesInv, NEW t \in OfficeTab,
         OpenDocumentsPage(t) \/ RefreshWorking(t) \/ RefreshArchive(t)
  PROVE  DocumentPagesInv'
<1>1. file' = file /\ checklist' = checklist /\ promoted' = promoted
  BY DEF OpenDocumentsPage, RefreshWorking, RefreshArchive
<1>2. Working \in SUBSET Paper /\ Archive \in SUBSET Paper
  BY DEF Working, Archive
<1>3. Working' = Working /\ Archive' = Archive
  BY <1>1 DEF Working, Archive
<1>4. /\ lists \in [OfficeTab -> TwoLists \cup {NULL}]
      /\ refresh \in [OfficeTab -> {"no", "both", "archive"}]
      /\ fresh \in [OfficeTab -> SUBSET Paper] /\ outdated \subseteq OfficeTab
      /\ \A u \in OfficeTab : ListsOK(u)
  BY DEF DocumentPagesInv
<1>5. refresh[t] # "no" => lists[t] \in TwoLists
  BY <1>4 DEF ListsOK
<1>6. /\ lists' \in [OfficeTab -> TwoLists \cup {NULL}]
      /\ \A u \in OfficeTab : lists[u] \in TwoLists => lists'[u] \in TwoLists
      /\ \A u \in OfficeTab \ {t} : lists'[u] = lists[u]
  <2>1. CASE OpenDocumentsPage(t)
    <3>1. PICK x \in TwoLists : x = [working |-> Working, archive |-> Archive]
      BY <1>2 DEF TwoLists
    <3>2. lists' = [lists EXCEPT ![t] = x]
      BY <2>1, <3>1 DEF OpenDocumentsPage
    <3> QED
      BY <1>4, <3>2
  <2>2. CASE RefreshWorking(t)
    BY <1>4, <2>2 DEF RefreshWorking
  <2>3. CASE RefreshArchive(t)
    <3>1. lists[t] \in TwoLists /\ fresh[t] \in SUBSET Paper
      BY <1>4, <1>5, <2>3 DEF RefreshArchive
    <3>2. PICK x \in TwoLists : lists' = [lists EXCEPT ![t] = x]
      <4>1. CASE lists' = [lists EXCEPT ![t] = [working |-> fresh[t], archive |-> Archive]]
        <5>1. [working |-> fresh[t], archive |-> Archive] \in TwoLists
          BY <1>2, <3>1 DEF TwoLists
        <5> QED
          BY <4>1, <5>1
      <4>2. CASE lists' = [lists EXCEPT ![t].working = fresh[t]]
        <5>1. [lists[t] EXCEPT !.working = fresh[t]] \in TwoLists
          BY <3>1 DEF TwoLists
        <5> QED
          BY <4>2, <5>1
      <4>3. CASE lists' = [lists EXCEPT ![t].archive = Archive]
        <5>1. [lists[t] EXCEPT !.archive = Archive] \in TwoLists
          BY <1>2, <3>1 DEF TwoLists
        <5> QED
          BY <4>3, <5>1
      <4>4. CASE lists' = lists
        BY <1>4, <3>1, <4>4
      <4> QED
        BY <2>3, <4>1, <4>2, <4>3, <4>4 DEF RefreshArchive
    <3> QED
      BY <1>4, <3>2
  <2> QED
    BY <2>1, <2>2, <2>3
<1>7. /\ refresh' \in [OfficeTab -> {"no", "both", "archive"}]
      /\ fresh' \in [OfficeTab -> SUBSET Paper] /\ outdated' \subseteq OfficeTab
      /\ \A u \in OfficeTab \ {t} : /\ refresh'[u] = refresh[u] /\ fresh'[u] = fresh[u]
                                    /\ u \in outdated' <=> u \in outdated
  BY <1>2, <1>4 DEF OpenDocumentsPage, RefreshWorking, RefreshArchive, Outdate
<1>8. ListsOK(t)'
  <2>1. CASE OpenDocumentsPage(t)
    <3>1. lists'[t] = [working |-> Working, archive |-> Archive] /\ refresh'[t] = "no"
      BY <1>4, <2>1 DEF OpenDocumentsPage
    <3> QED
      BY <1>3, <3>1 DEF ListsOK
  <2>2. CASE RefreshWorking(t)
    <3>1. refresh'[t] = "archive" /\ fresh'[t] = Working /\ lists'[t] \in TwoLists
      BY <1>4, <1>5, <2>2 DEF RefreshWorking
    <3> QED
      BY <1>3, <3>1 DEF ListsOK
  <2>3. CASE RefreshArchive(t)
    <3>1. refresh'[t] = "no" /\ refresh[t] = "archive"
      BY <1>4, <2>3 DEF RefreshArchive
    <3>2. t \in outdated' \/ lists'[t] = [working |-> fresh[t], archive |-> Archive]
      BY <1>4, <2>3 DEF RefreshArchive, Outdate
    <3>3. t \notin outdated' => t \notin outdated
      BY <2>3 DEF RefreshArchive, Outdate
    <3>4. t \notin outdated' => fresh[t] = Working
      BY <1>4, <3>1, <3>3 DEF ListsOK
    <3> QED
      BY <1>3, <3>1, <3>2, <3>4 DEF ListsOK
  <2> QED
    BY <2>1, <2>2, <2>3
<1>9. \A u \in OfficeTab : ListsOK(u)'
  <2> SUFFICES ASSUME NEW u \in OfficeTab, u # t PROVE ListsOK(u)'
    BY <1>8
  <2>1. /\ lists'[u] = lists[u] /\ refresh'[u] = refresh[u] /\ fresh'[u] = fresh[u]
        /\ u \in outdated' <=> u \in outdated
    BY <1>6, <1>7
  <2> QED
    BY <1>3, <1>4, <2>1 DEF ListsOK
<1>10. Idle \in ControlRow /\ Idle.doc = NULL /\ Idle.live = FALSE /\ Idle.status = "idle"
  BY DEF Idle, ControlRow
<1>11. /\ control' \in [Control -> ControlRow]
       /\ \A c \in Control : control'[c] = control[c] \/ control'[c] = Idle
  BY <1>10 DEF OpenDocumentsPage, RefreshWorking, RefreshArchive, DocumentPagesInv
<1>12. OneOwner(control')
  BY <1>10, <1>11 DEF OneOwner, DocumentPagesInv
<1>13. ASSUME NEW c \in Control
       PROVE  ControlOK(c, file, control'[c], promoted, lists')
  <2>1. ControlOK(c, file, Idle, promoted, lists')
    BY <1>10 DEF ControlOK
  <2>2. ControlOK(c, file, control[c], promoted, lists)
    BY DEF DocumentPagesInv
  <2>3. ControlOK(c, file, control[c], promoted, lists')
    BY <1>6, <2>2 DEF ControlOK
  <2> QED
    BY <1>11, <2>1, <2>3
<1> QED
  BY <1>1, <1>6, <1>7, <1>9, <1>11, <1>12, <1>13 DEF DocumentPagesInv

\* A step of one control: it changes the document of its own, if it has one.
LEMMA ControlMoves ==
  ASSUME DocumentPagesInv, NEW c \in Control, NEW x \in ControlRow,
         control' = [control EXCEPT ![c] = x],
         x.doc = control[c].doc \/ (\A b \in Control : x.doc = NULL \/ control[b].doc # x.doc),
         file' \in [Paper -> FileRow], \A d \in Paper : d # x.doc => file'[d] = file[d],
         \A d \in promoted : file'[d].item = file[d].item,
         promoted \subseteq promoted', promoted' \subseteq promoted \cup {x.doc},
         promoted' \subseteq Paper, PapersOK(file', promoted'),
         ControlOK(c, file', x, promoted', lists),
         UNCHANGED <<checklist, lists, fresh>>, outdated' \subseteq OfficeTab,
         refresh' \in [OfficeTab -> {"no", "both", "archive"}],
         \A t \in OfficeTab : ListsOK(t)'
  PROVE  DocumentPagesInv'
<1>1. /\ control \in [Control -> ControlRow] /\ OneOwner(control)
      /\ \A b \in Control : ControlOK(b, file, control[b], promoted, lists)
      /\ promoted \subseteq Paper /\ NULL \notin Paper
  BY DocumentPagesAssumption DEF DocumentPagesInv
<1>2. /\ control' \in [Control -> ControlRow] /\ control'[c] = x
      /\ \A b \in Control \ {c} : control'[b] = control[b]
  BY <1>1
<1>3. OneOwner(control')
  <2> SUFFICES ASSUME NEW a \in Control, NEW b \in Control, a # b, control'[b].doc # NULL,
                      control'[a].doc = control'[b].doc
               PROVE  FALSE
    BY DEF OneOwner
  <2>1. a # c => control'[a] = control[a]
    BY <1>2
  <2>2. b # c => control'[b] = control[b]
    BY <1>2
  <2>3. CASE a # c /\ b # c
    BY <1>1, <2>1, <2>2, <2>3 DEF OneOwner
  <2>4. CASE a = c
    BY <1>1, <1>2, <2>2, <2>4 DEF OneOwner
  <2>5. CASE b = c
    BY <1>1, <1>2, <2>1, <2>5 DEF OneOwner
  <2> QED
    BY <2>3, <2>4, <2>5
<1>4. ASSUME NEW b \in Control
      PROVE  ControlOK(b, file', control'[b], promoted', lists)
  <2>1. CASE b = c
    BY <1>2, <2>1
  <2>2. CASE b # c
    <3>1. PICK y \in ControlRow : y = control[b] /\ y = control'[b]
      BY <1>1, <1>2, <2>2
    <3>2. ControlOK(b, file, y, promoted, lists) /\ y.doc \in Paper \cup {NULL}
      <4>1. y.doc \in Paper \cup {NULL}
        BY DEF ControlRow
      <4> QED
        BY <1>1, <3>1, <4>1, Zenon
    <3>3. y.doc # NULL => y.doc # x.doc
      BY <1>1, <2>2, <3>1 DEF OneOwner
    <3>4. y.doc # NULL => file'[y.doc] = file[y.doc]
      BY <3>2, <3>3
    <3>5. y.doc \in promoted' <=> y.doc \in promoted
      BY <1>1, <3>2, <3>3
    <3>6. ControlOK(b, file', y, promoted', lists)
      <4>1. /\ y.doc # NULL => file'[y.doc].state # "none"
            /\ y.status = "active" => y.doc \in promoted'
            /\ y.status = "infected" => y.doc \notin promoted'
        BY <3>2, <3>4, <3>5 DEF ControlOK
      <4>2. y.live => /\ y.status \in {"uploading", "completing"}
                      /\ y.status = "completing" => y.doc # NULL
                      /\ y.doc # NULL => file'[y.doc].state = "pending"
                      /\ b[1] \in OfficeTab => lists[b[1]] \in TwoLists
        BY <3>2, <3>4 DEF ControlOK
      <4> QED
        BY <4>1, <4>2 DEF ControlOK
    <3> QED
      BY <3>1, <3>6
  <2> QED
    BY <2>1, <2>2
<1>5. ASSUME NEW t \in ChecklistTab, checklist[t] # NULL
      PROVE  PapersListed(file', promoted', checklist[t])
  BY <1>5 DEF DocumentPagesInv, PapersListed
<1>6. checklist' = checklist /\ lists' = lists /\ fresh' = fresh
  OBVIOUS
<1>7. /\ checklist \in [ChecklistTab -> (SUBSET ChecklistItem) \cup {NULL}]
      /\ lists \in [OfficeTab -> TwoLists \cup {NULL}] /\ fresh \in [OfficeTab -> SUBSET Paper]
  BY DEF DocumentPagesInv
<1> QED
  BY <1>2, <1>3, <1>4, <1>5, <1>6, <1>7 DEF DocumentPagesInv

\* A step of one control that changes no row.
LEMMA ControlTells ==
  ASSUME DocumentPagesInv, NEW c \in Control, NEW x \in ControlRow,
         control' = [control EXCEPT ![c] = x], x.doc = control[c].doc \/ x.doc = NULL,
         ControlOK(c, file, x, promoted, lists),
         UNCHANGED <<file, checklist, lists, refresh, fresh, promoted, outdated>>
  PROVE  DocumentPagesInv'
<1>1. /\ file \in [Paper -> FileRow] /\ promoted \subseteq Paper /\ PapersOK(file, promoted)
      /\ outdated \subseteq OfficeTab /\ refresh \in [OfficeTab -> {"no", "both", "archive"}]
      /\ \A t \in OfficeTab : ListsOK(t)
  BY DEF DocumentPagesInv
<1>2. \A t \in OfficeTab : ListsOK(t)'
  BY <1>1 DEF ListsOK, Working, Archive
<1> QED
  BY <1>1, <1>2, ControlMoves

LEMMA PickKeeps ==
  ASSUME DocumentPagesInv, NEW c \in Control, PickFile(c)
  PROVE  DocumentPagesInv'
<1>1. PICK x \in ControlRow : x = [status |-> "uploading", doc |-> NULL, live |-> TRUE]
  BY DEF ControlRow
<1>2. x.status = "uploading" /\ x.doc = NULL
  BY <1>1
<1>3. /\ control' = [control EXCEPT ![c] = x]
      /\ UNCHANGED <<file, checklist, lists, refresh, fresh, promoted, outdated>>
  BY <1>1 DEF PickFile
<1>4. c[1] \in OfficeTab => lists[c[1]] \in TwoLists
  BY DocumentPagesAssumption DEF PickFile, DocumentPagesInv
<1>5. ControlOK(c, file, x, promoted, lists)
  BY <1>2, <1>4 DEF ControlOK
<1> QED
  BY <1>2, <1>3, <1>5, ControlTells

LEMMA PutKeeps ==
  ASSUME DocumentPagesInv, NEW c \in Control, PutFile(c)
  PROVE  DocumentPagesInv'
<1>1. PICK y \in ControlRow : y = control[c]
  BY DEF DocumentPagesInv
<1>2. /\ y.live /\ y.status = "uploading" /\ y.doc # NULL
      /\ ControlOK(c, file, y, promoted, lists)
  BY <1>1 DEF PutFile, DocumentPagesInv
<1>3. PICK x \in ControlRow : x = [y EXCEPT !.status = "completing"]
  <2>1. [y EXCEPT !.status = "completing"] \in ControlRow
    BY DEF ControlRow
  <2> QED
    BY <2>1
<1>4. x.status = "completing" /\ x.doc = y.doc /\ x.live = y.live
  BY <1>3 DEF ControlRow
<1>5. control' = [control EXCEPT ![c] = x]
  BY <1>1, <1>3, Zenon DEF PutFile
<1>6. UNCHANGED <<file, checklist, lists, refresh, fresh, promoted, outdated>>
  BY DEF PutFile
<1>7. ControlOK(c, file, x, promoted, lists)
  BY <1>2, <1>4 DEF ControlOK
<1> QED
  BY <1>1, <1>4, <1>5, <1>6, <1>7, ControlTells

\* What the row of a control is when its user was told an outcome.
LEMMA Told ==
  ASSUME DocumentPagesInv, NEW c \in Control,
         NEW s \in {"idle", "uploading", "completing", "active", "infected", "error"}, Tell(c, s)
  PROVE  \E x \in ControlRow :
           /\ control' = [control EXCEPT ![c] = x]
           /\ x.status = s /\ x.doc = control[c].doc /\ x.live = FALSE
<1>1. PICK y \in ControlRow : y = control[c]
  BY DEF DocumentPagesInv
<1>2. PICK z \in ControlRow : z = [y EXCEPT !.status = s]
  <2>1. [y EXCEPT !.status = s] \in ControlRow
    BY DEF ControlRow
  <2> QED
    BY <2>1
<1>3. z.status = s /\ z.doc = y.doc
  BY <1>2 DEF ControlRow
<1>4. PICK x \in ControlRow : x = [z EXCEPT !.live = FALSE]
  <2>1. [z EXCEPT !.live = FALSE] \in ControlRow
    BY DEF ControlRow
  <2> QED
    BY <2>1
<1>5. x.status = z.status /\ x.doc = z.doc /\ x.live = FALSE
  BY <1>4 DEF ControlRow
<1>6. control' = [control EXCEPT ![c] = [[control[c] EXCEPT !.status = s] EXCEPT !.live = FALSE]]
  BY DEF Tell
<1>7. control' = [control EXCEPT ![c] = x]
  BY <1>1, <1>2, <1>4, <1>6, Zenon
<1> QED
  BY <1>1, <1>3, <1>5, <1>7

LEMMA FailKeeps ==
  ASSUME DocumentPagesInv, NEW c \in Control, UploadFails(c)
  PROVE  DocumentPagesInv'
<1>1. PICK s \in {"uploading", "completing", "error"} : Tell(c, s)
  <2>1. control[c].status \in {"uploading", "completing"}
    BY DEF UploadFails, DocumentPagesInv, ControlOK
  <2> QED
    BY <2>1 DEF UploadFails
<1>2. PICK x \in ControlRow :
        /\ control' = [control EXCEPT ![c] = x]
        /\ x.status = s /\ x.doc = control[c].doc /\ x.live = FALSE
  <2>1. s \in {"idle", "uploading", "completing", "active", "infected", "error"}
    OBVIOUS
  <2> QED
    BY <1>1, <2>1, Told, Zenon
<1>3. UNCHANGED <<file, checklist, lists, refresh, fresh, promoted, outdated>>
  BY DEF UploadFails
<1>4. ControlOK(c, file, control[c], promoted, lists)
  BY DEF DocumentPagesInv
<1>5. ControlOK(c, file, x, promoted, lists)
  BY <1>2, <1>4 DEF ControlOK
<1> QED
  BY <1>2, <1>3, <1>5, ControlTells

\* Any write makes the lists of all tabs outdated.
LEMMA AllOutdated ==
  ASSUME DocumentPagesInv, NEW r \in [OfficeTab -> {"no", "both", "archive"}],
         \A t \in OfficeTab : r[t] = refresh[t] \/ lists[t] \in TwoLists,
         refresh' = r, UNCHANGED <<lists, fresh>>, outdated' = outdated \cup OfficeTab
  PROVE  /\ outdated' \subseteq OfficeTab
         /\ refresh' \in [OfficeTab -> {"no", "both", "archive"}]
         /\ \A t \in OfficeTab : ListsOK(t)'
<1>1. \A t \in OfficeTab : refresh[t] # "no" => lists[t] \in TwoLists
  BY DEF DocumentPagesInv, ListsOK
<1> QED
  BY <1>1 DEF DocumentPagesInv, ListsOK

LEMMA DocumentInserted ==
  ASSUME DocumentPagesInv, NEW c \in Control, NEW d \in Paper, requestUploadUrl(c, d)
  PROVE  DocumentPagesInv'
<1>0. /\ file \in [Paper -> FileRow] /\ promoted \subseteq Paper /\ PapersOK(file, promoted)
      /\ control \in [Control -> ControlRow] /\ file[d].state = "none"
      /\ \A b \in Control : ControlOK(b, file, control[b], promoted, lists)
      /\ refresh \in [OfficeTab -> {"no", "both", "archive"}] /\ d # NULL
  BY DocumentPagesAssumption DEF DocumentPagesInv, requestUploadUrl
<1>1. PICK y \in ControlRow : y = control[c]
  BY <1>0
<1>2. y.live /\ y.status = "uploading" /\ ControlOK(c, file, y, promoted, lists)
  BY <1>0, <1>1 DEF requestUploadUrl
<1>3. PICK x \in ControlRow : x = [y EXCEPT !.doc = d]
  <2>1. [y EXCEPT !.doc = d] \in ControlRow
    BY DEF ControlRow
  <2> QED
    BY <2>1
<1>4. x.status = "uploading" /\ x.doc = d /\ x.live = y.live
  BY <1>2, <1>3 DEF ControlRow
<1>5. control' = [control EXCEPT ![c] = x]
  BY <1>1, <1>3, Zenon DEF requestUploadUrl
<1>6. PICK f \in FileRow : file' = [file EXCEPT ![d] = f] /\ f.state = "pending"
  <2>1. c[2] \in ChecklistItem \cup {NULL}
    BY DEF Control
  <2>2. PICK f \in FileRow : f = [item |-> c[2], state |-> "pending", deleted |-> FALSE]
    BY <2>1 DEF FileRow
  <2> QED
    BY <2>2 DEF requestUploadUrl
<1>7. /\ file' \in [Paper -> FileRow] /\ file'[d].state = "pending"
      /\ \A e \in Paper : e # d => file'[e] = file[e]
  BY <1>0, <1>6
<1>8. d \notin promoted /\ promoted' = promoted /\ refresh' = refresh
      /\ UNCHANGED <<checklist, lists, fresh>> /\ outdated' = outdated \cup OfficeTab
  BY <1>0 DEF PapersOK, requestUploadUrl, Outdate
<1>9. \A e \in promoted : file'[e].item = file[e].item
  BY <1>0, <1>7, <1>8
<1>10. PapersOK(file', promoted')
  BY <1>0, <1>7, <1>8 DEF PapersOK
<1>11. \A b \in Control : control[b].doc # d
  BY <1>0 DEF ControlOK
<1>12. ControlOK(c, file', x, promoted', lists)
  BY <1>2, <1>4, <1>7 DEF ControlOK
<1>13. /\ outdated' \subseteq OfficeTab
       /\ refresh' \in [OfficeTab -> {"no", "both", "archive"}]
       /\ \A t \in OfficeTab : ListsOK(t)'
  BY <1>0, <1>8, AllOutdated
<1>14. promoted \subseteq promoted' /\ promoted' \subseteq promoted \cup {x.doc} /\ promoted' \subseteq Paper
  BY <1>0, <1>8
<1>15. \A b \in Control : x.doc = NULL \/ control[b].doc # x.doc
  BY <1>4, <1>11
<1>16. \A e \in Paper : e # x.doc => file'[e] = file[e]
  BY <1>4, <1>7
<1> QED
  BY <1>5, <1>7, <1>8, <1>9, <1>10, <1>12, <1>13, <1>14, <1>15, <1>16, ControlMoves

LEMMA UploadCompletes ==
  ASSUME DocumentPagesInv, NEW c \in Control, completeUploadAction(c)
  PROVE  DocumentPagesInv'
<1>0. /\ file \in [Paper -> FileRow] /\ promoted \subseteq Paper /\ PapersOK(file, promoted)
      /\ control \in [Control -> ControlRow]
      /\ \A b \in Control : ControlOK(b, file, control[b], promoted, lists)
      /\ refresh \in [OfficeTab -> {"no", "both", "archive"}]
  BY DEF DocumentPagesInv
<1>1. /\ control[c].live /\ control[c].status = "completing"
      /\ ControlOK(c, file, control[c], promoted, lists)
  BY <1>0 DEF completeUploadAction
<1>2. PICK d \in Paper : d = control[c].doc
  BY <1>0, <1>1 DEF ControlOK, ControlRow
<1>3. file[d].state = "pending" /\ d \in Paper /\ (c[1] \in OfficeTab => lists[c[1]] \in TwoLists)
      /\ d # NULL
  BY <1>1, <1>2, DocumentPagesAssumption DEF ControlOK
<1>4. PICK verdict \in {"active", "infected", "pending"} :
        /\ file' = [file EXCEPT ![d].state = verdict]
        /\ promoted' = IF verdict = "active" THEN promoted \cup {d} ELSE promoted
        /\ TellOutcome(c, verdict) \/ (verdict = "active" /\ Tell(c, "error"))
  BY <1>2, Zenon DEF completeUploadAction
<1>5. PICK s \in {"active", "infected", "error"} :
        /\ Tell(c, s) /\ (s = "active" => verdict = "active")
        /\ s = "infected" => verdict = "infected"
  BY <1>4 DEF TellOutcome
<1>6. PICK x \in ControlRow :
        /\ control' = [control EXCEPT ![c] = x]
        /\ x.status = s /\ x.doc = d /\ x.live = FALSE
  <2>1. s \in {"idle", "uploading", "completing", "active", "infected", "error"}
    OBVIOUS
  <2>2. \E x \in ControlRow :
          /\ control' = [control EXCEPT ![c] = x]
          /\ x.status = s /\ x.doc = control[c].doc /\ x.live = FALSE
    BY <1>5, <2>1, Told, Zenon
  <2> QED
    BY <1>2, <2>2, Zenon
<1>7. PICK f \in FileRow :
        /\ file' = [file EXCEPT ![d] = f] /\ f.state = verdict
        /\ f.item = file[d].item
  <2>1. PICK g \in FileRow : g = file[d]
    BY <1>0
  <2>2. PICK f \in FileRow : f = [g EXCEPT !.state = verdict]
    <3>1. [g EXCEPT !.state = verdict] \in FileRow
      BY DEF FileRow
    <3> QED
      BY <3>1
  <2>3. f.state = verdict /\ f.item = g.item
    BY <2>2 DEF FileRow
  <2>4. file' = [file EXCEPT ![d] = [file[d] EXCEPT !.state = verdict]]
    BY <1>4
  <2> QED
    BY <2>1, <2>2, <2>3, <2>4, Zenon
<1>8. /\ file' \in [Paper -> FileRow] /\ file'[d].state = verdict /\ file'[d].item = file[d].item
      /\ \A e \in Paper : e # d => file'[e] = file[e]
  BY <1>0, <1>7
<1>9. d \notin promoted
  BY <1>0, <1>3 DEF PapersOK
<1>10. /\ promoted \subseteq promoted' /\ promoted' \subseteq promoted \cup {d}
       /\ promoted' \subseteq Paper
       /\ d \in promoted' <=> verdict = "active"
  BY <1>0, <1>4, <1>9
<1>11. PapersOK(file', promoted')
  <2> SUFFICES ASSUME NEW e \in Paper
               PROVE  e \in promoted' <=> file'[e].state = "active"
    BY DEF PapersOK
  <2>1. CASE e = d
    BY <1>8, <1>10, <2>1
  <2>2. CASE e # d
    BY <1>0, <1>4, <1>8, <2>2 DEF PapersOK
  <2> QED
    BY <2>1, <2>2
<1>12. \A e \in promoted : file'[e].item = file[e].item
  BY <1>0, <1>8
<1>13. ControlOK(c, file', x, promoted', lists)
  BY <1>3, <1>5, <1>6, <1>8, <1>10 DEF ControlOK
<1>14. UNCHANGED <<checklist, lists, fresh>> /\ outdated' = outdated \cup OfficeTab
  BY DEF completeUploadAction, Outdate
<1>15. PICK r \in [OfficeTab -> {"no", "both", "archive"}] :
         /\ refresh' = r
         /\ \A t \in OfficeTab : r[t] = refresh[t] \/ lists[t] \in TwoLists
  <2>1. CASE refresh' = refresh
    BY <1>0, <2>1
  <2>2. CASE c[1] \in OfficeTab /\ refresh' = [refresh EXCEPT ![c[1]] = "both"]
    BY <1>0, <1>3, <2>2
  <2> QED
    BY <2>1, <2>2 DEF completeUploadAction
<1>16. /\ outdated' \subseteq OfficeTab
       /\ refresh' \in [OfficeTab -> {"no", "both", "archive"}]
       /\ \A t \in OfficeTab : ListsOK(t)'
  BY <1>14, <1>15, AllOutdated
<1>17. \A e \in Paper : e # x.doc => file'[e] = file[e]
  BY <1>6, <1>8
<1>18. promoted' \subseteq promoted \cup {x.doc} /\ x.doc = control[c].doc
  BY <1>2, <1>6, <1>10
<1>19. /\ control' = [control EXCEPT ![c] = x]
       /\ \/ x.doc = control[c].doc
          \/ \A b \in Control : x.doc = NULL \/ control[b].doc # x.doc
       /\ UNCHANGED <<checklist, lists, fresh>>
       /\ promoted' \subseteq Paper /\ promoted \subseteq promoted'
  BY <1>6, <1>10, <1>14, <1>18
<1> QED
  BY <1>8, <1>11, <1>12, <1>13, <1>16, <1>17, <1>18, <1>19, ControlMoves

\* A document that is deleted or recovered stays what it was.
LEMMA DeletionKeeps ==
  ASSUME DocumentPagesInv, NEW d \in Paper, NEW b \in BOOLEAN,
         file' = [file EXCEPT ![d].deleted = b],
         NEW r \in [OfficeTab -> {"no", "both", "archive"}],
         \A t \in OfficeTab : r[t] = refresh[t] \/ lists[t] \in TwoLists,
         refresh' = r, outdated' = outdated \cup OfficeTab,
         UNCHANGED <<checklist, lists, fresh, control, promoted>>
  PROVE  DocumentPagesInv'
<1>0. /\ file \in [Paper -> FileRow] /\ promoted \subseteq Paper /\ PapersOK(file, promoted)
      /\ control \in [Control -> ControlRow]
      /\ \A c \in Control : ControlOK(c, file, control[c], promoted, lists)
  BY DEF DocumentPagesInv
<1>1. PICK f \in FileRow :
        /\ file' = [file EXCEPT ![d] = f] /\ f.state = file[d].state
        /\ f.item = file[d].item
  <2>1. PICK g \in FileRow : g = file[d]
    BY <1>0
  <2>2. PICK f \in FileRow : f = [g EXCEPT !.deleted = b]
    <3>1. [g EXCEPT !.deleted = b] \in FileRow
      BY DEF FileRow
    <3> QED
      BY <3>1
  <2>3. f.state = g.state /\ f.item = g.item
    BY <2>2 DEF FileRow
  <2>4. file' = [file EXCEPT ![d] = [file[d] EXCEPT !.deleted = b]]
    OBVIOUS
  <2> QED
    BY <2>1, <2>2, <2>3, <2>4, Zenon
<1>2. /\ file' \in [Paper -> FileRow]
      /\ \A e \in Paper : file'[e].state = file[e].state /\ file'[e].item = file[e].item
  BY <1>0, <1>1
<1>3. PapersOK(file', promoted)
  BY <1>0, <1>2 DEF PapersOK
<1>4. ASSUME NEW c \in Control
      PROVE  ControlOK(c, file', control[c], promoted, lists)
  <2>1. PICK y \in ControlRow : y = control[c]
    BY <1>0
  <2>2. ControlOK(c, file, y, promoted, lists)
    BY <1>0, <2>1, Zenon
  <2>3. y.doc # NULL => file'[y.doc].state = file[y.doc].state
    BY <1>2 DEF ControlRow
  <2>4. ControlOK(c, file', y, promoted, lists)
    BY <2>2, <2>3 DEF ControlOK
  <2> QED
    BY <2>1, <2>4
<1>5. ASSUME NEW t \in ChecklistTab, checklist[t] # NULL
      PROVE  PapersListed(file', promoted, checklist[t])
  BY <1>0, <1>2, <1>5 DEF DocumentPagesInv, PapersListed
<1>6. /\ outdated' \subseteq OfficeTab
      /\ refresh' \in [OfficeTab -> {"no", "both", "archive"}]
      /\ \A t \in OfficeTab : ListsOK(t)'
  BY AllOutdated
<1>7. checklist' = checklist /\ lists' = lists /\ fresh' = fresh /\ control' = control
      /\ promoted' = promoted
  OBVIOUS
<1>8. /\ checklist \in [ChecklistTab -> (SUBSET ChecklistItem) \cup {NULL}]
      /\ lists \in [OfficeTab -> TwoLists \cup {NULL}] /\ fresh \in [OfficeTab -> SUBSET Paper]
      /\ OneOwner(control)
  BY DEF DocumentPagesInv
<1> QED
  BY <1>0, <1>2, <1>3, <1>4, <1>5, <1>6, <1>7, <1>8 DEF DocumentPagesInv

LEMMA DocumentPagesStep ==
  DocumentPagesInv /\ [DocumentPagesNext]_documentPagesVars => DocumentPagesInv'
<1> SUFFICES ASSUME DocumentPagesInv, [DocumentPagesNext]_documentPagesVars
             PROVE  DocumentPagesInv'
  OBVIOUS
<1>1. ASSUME NEW t \in OfficeTab, NEW d \in Paper,
             deleteDocumentAction(t, d) \/ recoverDocumentAction(t, d)
      PROVE  DocumentPagesInv'
  <2>1. PICK b \in BOOLEAN : SetDeleted(t, d, b)
    BY <1>1 DEF deleteDocumentAction, recoverDocumentAction
  <2>2. lists[t] \in TwoLists /\ refresh \in [OfficeTab -> {"no", "both", "archive"}]
    BY <1>1 DEF deleteDocumentAction, recoverDocumentAction, DocumentPagesInv
  <2>3. PICK r \in [OfficeTab -> {"no", "both", "archive"}] : r = [refresh EXCEPT ![t] = "both"]
    BY <2>2
  <2>4. \A u \in OfficeTab : r[u] = refresh[u] \/ lists[u] \in TwoLists
    BY <2>2, <2>3
  <2> QED
    BY <2>1, <2>3, <2>4, DeletionKeeps DEF SetDeleted, Outdate
<1>2. ASSUME NEW d \in Paper, ElsewhereDeleted(d)
      PROVE  DocumentPagesInv'
  <2>1. PICK b \in BOOLEAN : file' = [file EXCEPT ![d].deleted = b]
    <3>1. (~file[d].deleted) \in BOOLEAN
      OBVIOUS
    <3> QED
      BY <1>2, <3>1, Zenon DEF ElsewhereDeleted
  <2>2. refresh \in [OfficeTab -> {"no", "both", "archive"}]
    BY DEF DocumentPagesInv
  <2> QED
    BY <1>2, <2>1, <2>2, DeletionKeeps DEF ElsewhereDeleted, Outdate
<1>3. CASE UNCHANGED documentPagesVars
  <2>1. /\ file' = file /\ checklist' = checklist /\ lists' = lists /\ refresh' = refresh
        /\ fresh' = fresh /\ control' = control /\ promoted' = promoted /\ outdated' = outdated
    BY <1>3 DEF documentPagesVars
  <2>2. \A t \in OfficeTab : ListsOK(t)'
    BY <2>1 DEF DocumentPagesInv, ListsOK, Working, Archive
  <2> QED
    BY <2>1, <2>2 DEF DocumentPagesInv
<1> QED
  BY <1>1, <1>2, <1>3, ChecklistShown, OfficePageShown, PickKeeps, PutKeeps, FailKeeps, DocumentInserted,
     UploadCompletes DEF DocumentPagesNext

-----------------------------------------------------------------------------
(***************************************************************************)
(* The panels.  A tab that nobody has overtaken shows what is stored until *)
(* its call is answered, and from then on what its handler will set is     *)
(* what is stored: the handler sets what the action has written.           *)
(***************************************************************************)
PanelRow(a) == [shows : Values[a], call : CallRow(a) \cup {NULL}]

\* What a call asks for is made of what its panel showed.
PanelCallOK(a, shows, c) ==
  /\ c.op \in PanelOp \ {"set", "record note"} => a = "status"
  /\ c.op = "set" => a \in {"dueDate", "override", "isPriority"}
  /\ c.op = "record note" => a = "notes"
  /\ c.op # "record note" \/ c.answer = "done" => c.sets \in Values[a]
  /\ c.op = "advance" => /\ c.sets = [shows EXCEPT !.stage = c.sets.stage]
                         /\ c.sets.stage # "Complete"
  /\ c.op = "confirm delivery" => /\ c.sets = [shows EXCEPT !.delivered = TRUE]
                                  /\ c.sets.stage # "Complete"
  /\ c.op = "confirm filing" => /\ c.sets = [shows EXCEPT !.filed = TRUE]
                                /\ c.sets.stage # "Complete"
  /\ c.op = "complete" => c.sets = [stage |-> "Complete", delivered |-> TRUE, filed |-> TRUE]
  /\ c.op = "reopen" => c.sets = [stage |-> "In Progress", delivered |-> FALSE, filed |-> FALSE]

StageOK(v) == v.stage = "Complete" => v.delivered /\ v.filed

Answered(p) == p.call # NULL /\ p.call.answer = "done"

\* A page of tab t, where st is stored and the tabs of O are overtaken.
PanelOK(a, st, O, t, p) ==
  /\ p.call # NULL => PanelCallOK(a, p.shows, p.call)
  /\ t \notin O /\ Answered(p) => p.call.sets = st
  /\ t \notin O /\ ~Answered(p) => p.shows = st
  /\ a = "notes" => p.shows \subseteq st /\ (Answered(p) => p.call.sets \subseteq st)
  /\ a = "status" => StageOK(p.shows)

EngagementPanelsInv ==
  /\ area \in Area
  /\ stored \in Values[area]
  /\ panel \in [PanelTab -> PanelRow(area) \cup {NULL}]
  /\ overtaken \subseteq PanelTab
  /\ reopened \in 0 .. MaxReopenings
  /\ area = "status" => StageOK(stored)
  /\ \A t \in PanelTab : panel[t] # NULL => PanelOK(area, stored, overtaken, t, panel[t])

LEMMA ValuesOfAreas ==
  /\ Values["status"] = Progress
  /\ Values["dueDate"] = SettingValue \cup {NULL}
  /\ Values["override"] = SettingValue \cup {NULL}
  /\ Values["isPriority"] = BOOLEAN
  /\ Values["notes"] = SUBSET (1 .. MaxNotes)
BY DEF Values

LEMMA EngagementPanelsInitInv == EngagementPanelsInit => EngagementPanelsInv
<1> SUFFICES ASSUME EngagementPanelsInit PROVE EngagementPanelsInv
  OBVIOUS
<1>1. /\ area \in Area /\ panel = [t \in PanelTab |-> NULL] /\ overtaken = {} /\ reopened = 0
      /\ reopened \in 0 .. MaxReopenings
  BY EngagementPanelsAssumption DEF EngagementPanelsInit
<1>2. \A a \in Area : NewRow[a] \in Values[a] /\ (a = "status" => StageOK(NewRow[a]))
  <2>1. /\ NewRow["status"] = [stage |-> "New", delivered |-> FALSE, filed |-> FALSE]
        /\ NewRow["dueDate"] = NULL /\ NewRow["override"] = NULL /\ NewRow["isPriority"] = FALSE
        /\ NewRow["notes"] = {}
    BY DEF NewRow
  <2>2. NewRow["status"] \in Progress /\ StageOK(NewRow["status"])
    BY <2>1 DEF Progress, Stage, StageOK
  <2> QED
    BY <2>1, <2>2, ValuesOfAreas DEF Area
<1> QED
  BY <1>1, <1>2 DEF EngagementPanelsInv, EngagementPanelsInit

LEMMA EngagementPanelsTyped == EngagementPanelsInv => EngagementPanelsTypeOK
<1> SUFFICES ASSUME EngagementPanelsInv PROVE EngagementPanelsTypeOK
  OBVIOUS
<1>1. ASSUME NEW t \in PanelTab, panel[t] # NULL
      PROVE  /\ panel[t].shows \in Values[area]
             /\ panel[t].call \in CallRow(area) \cup {NULL}
  <2>1. panel[t] \in PanelRow(area)
    BY <1>1 DEF EngagementPanelsInv
  <2> QED
    BY <2>1 DEF PanelRow
<1> QED
  BY <1>1 DEF EngagementPanelsInv, EngagementPanelsTypeOK

LEMMA PanelsShow == EngagementPanelsInv => PanelsShowRow
<1> SUFFICES ASSUME EngagementPanelsInv PROVE PanelsShowRow
  OBVIOUS
<1>1. \A t \in PanelTab : panel[t] # NULL => PanelOK(area, stored, overtaken, t, panel[t])
  BY DEF EngagementPanelsInv
<1>2. \A t \in PanelTab \ overtaken : Settled(t) => panel[t].shows = stored
  BY <1>1 DEF Settled, PanelOK, Answered
<1>3. area = "notes" => \A t \in PanelTab : panel[t] # NULL => panel[t].shows \subseteq stored
  BY <1>1 DEF PanelOK
<1>4. area = "status" =>
        /\ stored.stage = "Complete" => stored.delivered /\ stored.filed
        /\ \A t \in PanelTab :
             panel[t] # NULL /\ panel[t].shows.stage = "Complete"
               => panel[t].shows.delivered /\ panel[t].shows.filed
  BY <1>1 DEF PanelOK, StageOK, EngagementPanelsInv
<1> QED
  BY <1>2, <1>3, <1>4 DEF PanelsShowRow

-----------------------------------------------------------------------------
\* A step of one tab that writes nothing.
LEMMA TabShows ==
  ASSUME EngagementPanelsInv, NEW t \in PanelTab, NEW p \in PanelRow(area) \cup {NULL},
         panel' = [panel EXCEPT ![t] = p], UNCHANGED <<area, stored, reopened>>,
         overtaken' = overtaken \/ overtaken' = overtaken \ {t},
         p # NULL => PanelOK(area, stored, overtaken', t, p)
  PROVE  EngagementPanelsInv'
<1>1. /\ panel \in [PanelTab -> PanelRow(area) \cup {NULL}] /\ overtaken \subseteq PanelTab
      /\ \A u \in PanelTab : panel[u] # NULL => PanelOK(area, stored, overtaken, u, panel[u])
  BY DEF EngagementPanelsInv
<1>2. panel' \in [PanelTab -> PanelRow(area) \cup {NULL}] /\ overtaken' \subseteq PanelTab
  BY <1>1
<1>3. ASSUME NEW u \in PanelTab, panel'[u] # NULL
      PROVE  PanelOK(area, stored, overtaken', u, panel'[u])
  <2>1. CASE u = t
    BY <1>1, <1>3, <2>1
  <2>2. CASE u # t
    <3>1. panel'[u] = panel[u] /\ (u \in overtaken' <=> u \in overtaken)
      BY <1>1, <2>2
    <3>2. PanelOK(area, stored, overtaken, u, panel[u])
      BY <1>1, <1>3, <3>1
    <3> QED
      BY <3>1, <3>2 DEF PanelOK
  <2> QED
    BY <2>1, <2>2
<1>4. area' = area /\ stored' = stored /\ reopened' = reopened
  OBVIOUS
<1> QED
  BY <1>2, <1>3, <1>4 DEF EngagementPanelsInv

\* A write of one tab: all the others are overtaken.
LEMMA TabWrites ==
  ASSUME EngagementPanelsInv, NEW t \in PanelTab, NEW p \in PanelRow(area),
         panel' = [panel EXCEPT ![t] = p], area' = area, reopened' \in 0 .. MaxReopenings,
         NEW O \in SUBSET PanelTab, overtaken' = O, PanelTab \ {t} \subseteq O,
         NEW s \in Values[area], stored' = s,
         area = "status" => StageOK(s), area = "notes" => stored \subseteq s,
         PanelOK(area, s, O, t, p)
  PROVE  EngagementPanelsInv'
<1>1. /\ panel \in [PanelTab -> PanelRow(area) \cup {NULL}]
      /\ \A u \in PanelTab : panel[u] # NULL => PanelOK(area, stored, overtaken, u, panel[u])
  BY DEF EngagementPanelsInv
<1>2. panel' \in [PanelTab -> PanelRow(area) \cup {NULL}]
  BY <1>1
<1>3. ASSUME NEW u \in PanelTab, panel'[u] # NULL
      PROVE  PanelOK(area, s, O, u, panel'[u])
  <2>1. CASE u = t
    BY <1>1, <2>1
  <2>2. CASE u # t
    <3>1. panel'[u] = panel[u] /\ u \in O
      BY <1>1, <2>2
    <3>2. PanelOK(area, stored, overtaken, u, panel[u])
      BY <1>1, <1>3, <3>1
    <3>3. /\ panel[u].call # NULL => PanelCallOK(area, panel[u].shows, panel[u].call)
          /\ area = "status" => StageOK(panel[u].shows)
      BY <3>2 DEF PanelOK
    <3>4. area = "notes" =>
            /\ panel[u].shows \subseteq s
            /\ Answered(panel[u]) => panel[u].call.sets \subseteq s
      BY <3>2 DEF PanelOK
    <3> QED
      BY <3>1, <3>3, <3>4 DEF PanelOK
  <2> QED
    BY <2>1, <2>2
<1>4. area \in Area
  BY DEF EngagementPanelsInv
<1> QED
  BY <1>2, <1>3, <1>4 DEF EngagementPanelsInv

\* A call of a tab whose panel is as it shows.
LEMMA InvokeKeeps ==
  ASSUME EngagementPanelsInv, NEW t \in PanelTab, NEW op \in PanelOp,
         NEW sets \in Values[area] \cup {NULL}, Invoke(t, op, sets),
         PanelCallOK(area, panel[t].shows, [op |-> op, sets |-> sets, answer |-> NULL])
  PROVE  EngagementPanelsInv'
<1>1. PICK p \in PanelRow(area) : p = panel[t] /\ p.call = NULL
  BY DEF EngagementPanelsInv, Invoke, Settled
<1>2. PanelOK(area, stored, overtaken, t, p)
  BY <1>1 DEF EngagementPanelsInv, Invoke, Settled
<1>3. PICK c \in CallRow(area) : c = [op |-> op, sets |-> sets, answer |-> NULL]
  BY DEF CallRow
<1>4. PICK q \in PanelRow(area) : q = [p EXCEPT !.call = c]
  <2>1. [p EXCEPT !.call = c] \in PanelRow(area)
    BY DEF PanelRow
  <2> QED
    BY <2>1
<1>5. q.shows = p.shows /\ q.call = c
  BY <1>4 DEF PanelRow
<1>6. panel' = [panel EXCEPT ![t] = q]
  BY <1>1, <1>3, <1>4, Zenon DEF Invoke
<1>7. area' = area /\ stored' = stored /\ overtaken' = overtaken /\ reopened' = reopened
  BY DEF Invoke
<1>8. ~Answered(q) /\ ~Answered(p)
  BY <1>1, <1>3, <1>5, EngagementPanelsAssumption DEF Answered
<1>9. PanelCallOK(area, q.shows, q.call)
  BY <1>1, <1>3, <1>5, Zenon
<1>10. PanelOK(area, stored, overtaken, t, q)
  BY <1>2, <1>5, <1>8, <1>9 DEF PanelOK
<1> QED
  BY <1>6, <1>7, <1>10, TabShows

\* What a call asks for does not change when it is answered.
LEMMA CallKept ==
  ASSUME NEW a, NEW shows, NEW c, NEW d, PanelCallOK(a, shows, c), d.op = c.op, d.sets = c.sets,
         c.op # "record note" \/ d.answer # "done"
  PROVE  PanelCallOK(a, shows, d)
BY DEF PanelCallOK

\* The page of a tab whose call was answered.
LEMMA Replied ==
  ASSUME EngagementPanelsInv, NEW t \in PanelTab, panel[t] # NULL, panel[t].call # NULL,
         NEW answer \in {"done", "refused"}, Reply(t, answer)
  PROVE  \E q \in PanelRow(area) :
           /\ panel' = [panel EXCEPT ![t] = q]
           /\ q.shows = panel[t].shows
           /\ q.call.op = panel[t].call.op /\ q.call.sets = panel[t].call.sets
           /\ q.call # NULL /\ q.call.answer = answer
<1>1. PICK p \in PanelRow(area) : p = panel[t]
  BY DEF EngagementPanelsInv
<1>2. PICK c \in CallRow(area) : c = p.call
  BY <1>1 DEF PanelRow
<1>3. PICK d \in CallRow(area) : d = [c EXCEPT !.answer = answer]
  <2>1. [c EXCEPT !.answer = answer] \in CallRow(area)
    BY DEF CallRow
  <2> QED
    BY <2>1
<1>4. d.op = c.op /\ d.sets = c.sets /\ d.answer = answer
  BY <1>3 DEF CallRow
<1>5. PICK q \in PanelRow(area) : q = [p EXCEPT !.call = d]
  <2>1. [p EXCEPT !.call = d] \in PanelRow(area)
    BY DEF PanelRow
  <2> QED
    BY <2>1
<1>6. q.shows = p.shows /\ q.call = d
  BY <1>5 DEF PanelRow
<1>7. panel' = [panel EXCEPT ![t] = [panel[t] EXCEPT !.call = [panel[t].call EXCEPT !.answer = answer]]]
  BY DEF Reply
<1>8. panel' = [panel EXCEPT ![t] = q]
  BY <1>1, <1>2, <1>3, <1>5, <1>7, Zenon
<1>9. d # NULL
  BY NoCallAssumption DEF EngagementPanelsInv
<1> QED
  BY <1>1, <1>2, <1>4, <1>6, <1>8, <1>9

\* An action that writes what the panel is to show.
LEMMA PanelWriteKeeps ==
  ASSUME EngagementPanelsInv, NEW t \in PanelTab, NEW op \in PanelOp \ {"record note"},
         Called(t, op), Reply(t, "done"), NEW s \in Values[area], NEW all \in BOOLEAN,
         Write(t, s, all), reopened' \in 0 .. MaxReopenings, area = "status" => StageOK(s),
         all \/ t \notin overtaken => panel[t].call.sets = s
  PROVE  EngagementPanelsInv'
<1>1. panel[t] # NULL /\ panel[t].call # NULL /\ panel[t].call.op = op
  BY DEF Called
<1>2. PICK q \in PanelRow(area) :
        /\ panel' = [panel EXCEPT ![t] = q]
        /\ q.shows = panel[t].shows
        /\ q.call.op = panel[t].call.op /\ q.call.sets = panel[t].call.sets
        /\ q.call # NULL /\ q.call.answer = "done"
  BY <1>1, Replied
<1>3. PanelOK(area, stored, overtaken, t, panel[t])
  BY <1>1 DEF EngagementPanelsInv
<1>4. PanelCallOK(area, panel[t].shows, panel[t].call)
  BY <1>1, <1>3 DEF PanelOK
<1>5. PanelCallOK(area, q.shows, q.call)
  BY <1>1, <1>2, <1>4, CallKept
<1>6. area # "notes"
  BY <1>1, <1>4 DEF PanelCallOK, PanelOp
<1>7. PICK O \in SUBSET PanelTab :
        /\ overtaken' = O /\ PanelTab \ {t} \subseteq O
        /\ t \notin O => all \/ t \notin overtaken
  BY DEF Write
<1>8. t \notin O => q.call.sets = s
  BY <1>2, <1>7
<1>9. Answered(q)
  BY <1>2 DEF Answered
<1>10. area = "status" => StageOK(q.shows)
  BY <1>2, <1>3 DEF PanelOK
<1>12. PanelOK(area, s, O, t, q)
  BY <1>5, <1>6, <1>8, <1>9, <1>10 DEF PanelOK
<1>13. area' = area /\ stored' = s
  BY DEF Write
<1> QED
  BY <1>2, <1>6, <1>7, <1>12, <1>13, TabWrites

LEMMA AdvanceKeeps ==
  ASSUME EngagementPanelsInv, NEW t \in PanelTab, advanceStatus(t)
  PROVE  EngagementPanelsInv'
<1>1. /\ Called(t, "advance") /\ Reply(t, "done") /\ reopened' = reopened
      /\ Write(t, [stored EXCEPT !.stage = panel[t].call.sets.stage], FALSE)
  BY DEF advanceStatus
<1>2. PanelCallOK(area, panel[t].shows, panel[t].call) /\ panel[t].call.op = "advance"
      /\ (t \notin overtaken => panel[t].shows = stored)
  BY <1>1, EngagementPanelsAssumption DEF EngagementPanelsInv, PanelOK, Called, Answered
<1>3. /\ area = "status" /\ panel[t].call.sets \in Values[area]
      /\ panel[t].call.sets = [panel[t].shows EXCEPT !.stage = panel[t].call.sets.stage]
      /\ panel[t].call.sets.stage # "Complete"
  BY <1>2 DEF PanelCallOK, PanelOp
<1>4. stored \in Progress /\ panel[t].call.sets \in Progress
  BY <1>3, ValuesOfAreas DEF EngagementPanelsInv
<1>5. PICK g \in Stage : g = panel[t].call.sets.stage
  BY <1>4 DEF Progress
<1>6. PICK s \in Progress : s = [stored EXCEPT !.stage = g]
  <2>1. [stored EXCEPT !.stage = g] \in Progress
    BY <1>4 DEF Progress
  <2> QED
    BY <2>1
<1>7. s.stage = g
  BY <1>4, <1>6 DEF Progress
<1>8. s \in Values[area] /\ StageOK(s)
  BY <1>3, <1>5, <1>7, ValuesOfAreas DEF StageOK
<1>9. t \notin overtaken => panel[t].call.sets = s
  BY <1>2, <1>3, <1>5, <1>6, Zenon
<1>10. Write(t, s, FALSE)
  BY <1>1, <1>5, <1>6, Zenon
<1>11. reopened' \in 0 .. MaxReopenings
  BY <1>1 DEF EngagementPanelsInv
<1>12. "advance" \in PanelOp \ {"record note"}
  BY DEF PanelOp
<1> QED
  BY <1>1, <1>8, <1>9, <1>10, <1>11, <1>12, PanelWriteKeeps

LEMMA ConfirmKeeps ==
  ASSUME EngagementPanelsInv, NEW t \in PanelTab, confirm(t)
  PROVE  EngagementPanelsInv'
<1>0. reopened' \in 0 .. MaxReopenings /\ Reply(t, "done")
  BY DEF confirm, EngagementPanelsInv
<1>1. ASSUME Called(t, "confirm delivery"), Write(t, [stored EXCEPT !.delivered = TRUE], FALSE)
      PROVE  EngagementPanelsInv'
  <2>1. PanelCallOK(area, panel[t].shows, panel[t].call) /\ panel[t].call.op = "confirm delivery"
        /\ (t \notin overtaken => panel[t].shows = stored)
    BY <1>1, EngagementPanelsAssumption DEF EngagementPanelsInv, PanelOK, Called, Answered
  <2>2. area = "status" /\ panel[t].call.sets = [panel[t].shows EXCEPT !.delivered = TRUE]
    BY <2>1 DEF PanelCallOK, PanelOp
  <2>3. stored \in Progress /\ StageOK(stored)
    BY <2>2, ValuesOfAreas DEF EngagementPanelsInv
  <2>4. PICK s \in Progress : s = [stored EXCEPT !.delivered = TRUE]
    <3>1. [stored EXCEPT !.delivered = TRUE] \in Progress
      BY <2>3 DEF Progress
    <3> QED
      BY <3>1
  <2>5. s.stage = stored.stage /\ s.delivered /\ (stored.filed => s.filed)
    BY <2>3, <2>4 DEF Progress
  <2>6. s \in Values[area] /\ StageOK(s)
    BY <2>2, <2>3, <2>5, ValuesOfAreas DEF StageOK
  <2>7. t \notin overtaken => panel[t].call.sets = s
    BY <2>1, <2>2, <2>4, Zenon
  <2>8. Write(t, s, FALSE)
    BY <1>1, <2>4, Zenon
  <2>9. "confirm delivery" \in PanelOp \ {"record note"}
    BY DEF PanelOp
  <2> QED
    BY <1>0, <1>1, <2>6, <2>7, <2>8, <2>9, PanelWriteKeeps
<1>2. ASSUME Called(t, "confirm filing"), Write(t, [stored EXCEPT !.filed = TRUE], FALSE)
      PROVE  EngagementPanelsInv'
  <2>1. PanelCallOK(area, panel[t].shows, panel[t].call) /\ panel[t].call.op = "confirm filing"
        /\ (t \notin overtaken => panel[t].shows = stored)
    BY <1>2, EngagementPanelsAssumption DEF EngagementPanelsInv, PanelOK, Called, Answered
  <2>2. area = "status" /\ panel[t].call.sets = [panel[t].shows EXCEPT !.filed = TRUE]
    BY <2>1 DEF PanelCallOK, PanelOp
  <2>3. stored \in Progress /\ StageOK(stored)
    BY <2>2, ValuesOfAreas DEF EngagementPanelsInv
  <2>4. PICK s \in Progress : s = [stored EXCEPT !.filed = TRUE]
    <3>1. [stored EXCEPT !.filed = TRUE] \in Progress
      BY <2>3 DEF Progress
    <3> QED
      BY <3>1
  <2>5. s.stage = stored.stage /\ s.filed /\ (stored.delivered => s.delivered)
    BY <2>3, <2>4 DEF Progress
  <2>6. s \in Values[area] /\ StageOK(s)
    BY <2>2, <2>3, <2>5, ValuesOfAreas DEF StageOK
  <2>7. t \notin overtaken => panel[t].call.sets = s
    BY <2>1, <2>2, <2>4, Zenon
  <2>8. Write(t, s, FALSE)
    BY <1>2, <2>4, Zenon
  <2>9. "confirm filing" \in PanelOp \ {"record note"}
    BY DEF PanelOp
  <2> QED
    BY <1>0, <1>2, <2>6, <2>7, <2>8, <2>9, PanelWriteKeeps
<1> QED
  BY <1>1, <1>2 DEF confirm

\* What is confirmed twice and completed.
LEMMA Completed ==
  ASSUME NEW v \in Progress, v.delivered, v.filed
  PROVE  [stage |-> "Complete", delivered |-> TRUE, filed |-> TRUE] = [v EXCEPT !.stage = "Complete"]
<1>1. PICK x \in Progress : x = [v EXCEPT !.stage = "Complete"]
  <2>1. [v EXCEPT !.stage = "Complete"] \in Progress
    BY DEF Progress, Stage
  <2> QED
    BY <2>1
<1>2. x.stage = "Complete" /\ x.delivered /\ x.filed
  BY <1>1 DEF Progress
<1>3. x.delivered = TRUE /\ x.filed = TRUE
  <2>1. x.delivered \in BOOLEAN /\ x.filed \in BOOLEAN
    BY DEF Progress
  <2> QED
    BY <1>2, <2>1
<1>4. x = [stage |-> x.stage, delivered |-> x.delivered, filed |-> x.filed]
  BY DEF Progress
<1> QED
  BY <1>1, <1>2, <1>3, <1>4, Zenon

LEMMA CompletionKeeps ==
  ASSUME EngagementPanelsInv, NEW t \in PanelTab, completeEngagement(t)
  PROVE  EngagementPanelsInv'
<1>1. /\ Called(t, "complete") /\ Reply(t, "done") /\ reopened' \in 0 .. MaxReopenings
      /\ Write(t, [stored EXCEPT !.stage = "Complete"], TRUE)
      /\ stored = [stage |-> "Review", delivered |-> TRUE, filed |-> TRUE]
  BY DEF completeEngagement, EngagementPanelsInv
<1>2. PanelCallOK(area, panel[t].shows, panel[t].call) /\ panel[t].call.op = "complete"
  BY <1>1 DEF EngagementPanelsInv, PanelOK, Called
<1>3. /\ area = "status"
      /\ panel[t].call.sets = [stage |-> "Complete", delivered |-> TRUE, filed |-> TRUE]
  BY <1>2 DEF PanelCallOK, PanelOp
<1>4. PICK s \in Progress : s = [stage |-> "Complete", delivered |-> TRUE, filed |-> TRUE]
  BY DEF Progress, Stage
<1>5. s = [stored EXCEPT !.stage = "Complete"]
  <2>1. stored \in Progress
    BY <1>3, ValuesOfAreas DEF EngagementPanelsInv
  <2> QED
    BY <1>1, <1>4, <2>1, Completed
<1>6. s \in Values[area] /\ StageOK(s)
  BY <1>3, <1>4, ValuesOfAreas DEF StageOK
<1>7. "complete" \in PanelOp \ {"record note"} /\ TRUE \in BOOLEAN
  BY DEF PanelOp
<1>8. Write(t, s, TRUE) /\ panel[t].call.sets = s
  BY <1>1, <1>3, <1>4, <1>5, Zenon
<1> QED
  BY <1>1, <1>6, <1>7, <1>8, PanelWriteKeeps

LEMMA ReopenKeeps ==
  ASSUME EngagementPanelsInv, NEW t \in PanelTab, reopen(t)
  PROVE  EngagementPanelsInv'
<1>1. /\ Called(t, "reopen") /\ Reply(t, "done")
      /\ Write(t, [stage |-> "In Progress", delivered |-> FALSE, filed |-> FALSE], TRUE)
  BY DEF reopen
<1>2. reopened' \in 0 .. MaxReopenings
  <2>1. reopened \in 0 .. MaxReopenings /\ reopened < MaxReopenings /\ reopened' = reopened + 1
    BY DEF reopen, EngagementPanelsInv
  <2> QED
    BY <2>1, EngagementPanelsAssumption
<1>3. PanelCallOK(area, panel[t].shows, panel[t].call) /\ panel[t].call.op = "reopen"
  BY <1>1 DEF EngagementPanelsInv, PanelOK, Called
<1>4. /\ area = "status"
      /\ panel[t].call.sets = [stage |-> "In Progress", delivered |-> FALSE, filed |-> FALSE]
  BY <1>3 DEF PanelCallOK, PanelOp
<1>5. PICK s \in Progress : s = [stage |-> "In Progress", delivered |-> FALSE, filed |-> FALSE]
  BY DEF Progress, Stage
<1>6. s \in Values[area] /\ StageOK(s)
  BY <1>4, <1>5, ValuesOfAreas DEF StageOK
<1>7. "reopen" \in PanelOp \ {"record note"} /\ TRUE \in BOOLEAN
  BY DEF PanelOp
<1>8. Write(t, s, TRUE) /\ panel[t].call.sets = s
  BY <1>1, <1>4, <1>5, Zenon
<1> QED
  BY <1>1, <1>2, <1>6, <1>7, <1>8, PanelWriteKeeps

LEMMA SetKeeps ==
  ASSUME EngagementPanelsInv, NEW t \in PanelTab, setAttribute(t)
  PROVE  EngagementPanelsInv'
<1>1. /\ Called(t, "set") /\ Reply(t, "done") /\ Write(t, panel[t].call.sets, TRUE)
      /\ reopened' \in 0 .. MaxReopenings
  BY DEF setAttribute, EngagementPanelsInv
<1>2. PanelCallOK(area, panel[t].shows, panel[t].call) /\ panel[t].call.op = "set"
  BY <1>1 DEF EngagementPanelsInv, PanelOK, Called
<1>3. panel[t].call.sets \in Values[area] /\ area # "status"
  BY <1>2 DEF PanelCallOK
<1>4. PICK s \in Values[area] : s = panel[t].call.sets
  BY <1>3
<1>5. "set" \in PanelOp \ {"record note"} /\ TRUE \in BOOLEAN
  BY DEF PanelOp
<1>6. Write(t, s, TRUE)
  BY <1>1, <1>4, Zenon
<1> QED
  BY <1>1, <1>3, <1>4, <1>5, <1>6, PanelWriteKeeps

LEMMA NoteKeeps ==
  ASSUME EngagementPanelsInv, NEW t \in PanelTab, recordEngagementNote(t)
  PROVE  EngagementPanelsInv'
<1>1. /\ panel[t] # NULL /\ panel[t].call # NULL /\ panel[t].call.op = "record note"
      /\ panel[t].call.answer = NULL
  BY DEF recordEngagementNote, Called
<1>2. PanelOK(area, stored, overtaken, t, panel[t])
  BY <1>1 DEF EngagementPanelsInv
<1>3. PanelCallOK(area, panel[t].shows, panel[t].call) /\ ~Answered(panel[t])
  BY <1>1, <1>2, EngagementPanelsAssumption DEF PanelOK, Answered
<1>4. area = "notes"
  BY <1>1, <1>3 DEF PanelCallOK
<1>5. Values[area] = SUBSET (1 .. MaxNotes)
  BY <1>4, ValuesOfAreas
<1>6. PICK p \in PanelRow(area) : p = panel[t]
  BY <1>1 DEF EngagementPanelsInv
<1>7. PICK c \in CallRow(area) : c = p.call
  BY <1>1, <1>6 DEF PanelRow
<1>8. p.shows \in Values[area] /\ c.op = "record note"
      /\ (t \notin overtaken => p.shows = stored) /\ p.shows \subseteq stored
      /\ stored \in Values[area]
  BY <1>1, <1>2, <1>3, <1>4, <1>6, <1>7 DEF PanelRow, PanelOK, EngagementPanelsInv
<1>9. PICK n \in 1 .. MaxNotes :
        /\ Write(t, stored \cup {n}, FALSE)
        /\ panel' = [panel EXCEPT ![t].call.sets = panel[t].shows \cup {n},
                                  ![t].call.answer = "done"]
  BY DEF recordEngagementNote
<1>10. PICK sets \in Values[area] : sets = p.shows \cup {n}
  BY <1>5, <1>8
<1>11. PICK d \in CallRow(area) : d = [[c EXCEPT !.sets = sets] EXCEPT !.answer = "done"]
  <2>1. [[c EXCEPT !.sets = sets] EXCEPT !.answer = "done"] \in CallRow(area)
    BY DEF CallRow
  <2> QED
    BY <2>1
<1>12. d.op = "record note" /\ d.sets = sets /\ d.answer = "done" /\ d # NULL
  <2>1. d # NULL
    BY NoCallAssumption DEF EngagementPanelsInv
  <2> QED
    BY <1>8, <1>11, <2>1 DEF CallRow
<1>13. PICK q \in PanelRow(area) : q = [[p EXCEPT !.call = [c EXCEPT !.sets = sets]] EXCEPT !.call = d]
  <2>1. [[p EXCEPT !.call = [c EXCEPT !.sets = sets]] EXCEPT !.call = d] \in PanelRow(area)
    BY DEF PanelRow
  <2> QED
    BY <2>1
<1>14. q.shows = p.shows /\ q.call = d
  BY <1>13 DEF PanelRow
<1>15. panel' = [panel EXCEPT ![t] = q]
  <2>1. panel \in [PanelTab -> PanelRow(area) \cup {NULL}]
    BY DEF EngagementPanelsInv
  <2>2. PICK p1 \in PanelRow(area) : p1 = [p EXCEPT !.call = [c EXCEPT !.sets = sets]]
    <3>1. [c EXCEPT !.sets = sets] \in CallRow(area)
      BY DEF CallRow
    <3>2. [p EXCEPT !.call = [c EXCEPT !.sets = sets]] \in PanelRow(area)
      BY <3>1 DEF PanelRow
    <3> QED
      BY <3>2
  <2>3. p1.call = [c EXCEPT !.sets = sets] /\ p1.shows = p.shows
    BY <2>2 DEF PanelRow
  <2>4. PICK P : P = [panel EXCEPT ![t].call.sets = panel[t].shows \cup {n}]
    OBVIOUS
  <2>5. P = [panel EXCEPT ![t] = p1]
    BY <1>6, <1>7, <1>10, <2>2, <2>4, Zenon
  <2>6. P[t] = p1
    BY <2>1, <2>5
  <2>7. panel' = [P EXCEPT ![t].call.answer = "done"]
    BY <1>9, <2>4
  <2>8. [p1 EXCEPT !.call = d] = q
    BY <1>13, <2>2
  <2>9. d = [p1.call EXCEPT !.answer = "done"]
    BY <1>11, <2>3, Zenon
  <2>10. panel' = [P EXCEPT ![t] = q]
    BY <2>6, <2>7, <2>8, <2>9, Zenon
  <2> QED
    BY <2>1, <2>5, <2>10
<1>16. PICK s \in Values[area] : s = stored \cup {n}
  BY <1>5, <1>8
<1>17. PICK O \in SUBSET PanelTab :
         /\ overtaken' = O /\ PanelTab \ {t} \subseteq O
         /\ t \notin O => t \notin overtaken
  BY <1>9 DEF Write
<1>18. PanelCallOK(area, q.shows, q.call) /\ Answered(q)
  BY <1>4, <1>12, <1>14 DEF PanelCallOK, Answered, PanelOp
<1>19. /\ q.shows \subseteq s /\ q.call.sets \subseteq s
       /\ t \notin O => q.call.sets = s
  BY <1>8, <1>10, <1>12, <1>14, <1>16, <1>17
<1>20. PanelOK(area, s, O, t, q)
  BY <1>4, <1>18, <1>19 DEF PanelOK
<1>21. area' = area /\ stored' = s /\ stored \subseteq s /\ reopened' \in 0 .. MaxReopenings
  BY <1>9, <1>16 DEF Write, recordEngagementNote, EngagementPanelsInv
<1> QED
  BY <1>4, <1>15, <1>17, <1>20, <1>21, TabWrites

\* The handlers that call an action.
LEMMA HandlersKeep ==
  ASSUME EngagementPanelsInv, NEW t \in PanelTab, NEW v \in SettingValue \cup {NULL},
         \/ handleAdvance(t) \/ handleConfirmDelivery(t) \/ handleConfirmFiling(t)
         \/ handleComplete(t) \/ handleReopen(t) \/ handleSetDueDate(t, v)
         \/ handleSetOverride(t, v) \/ handleClearOverride(t) \/ handleTogglePriority(t)
         \/ handleRecordNote(t)
  PROVE  EngagementPanelsInv'
<1>1. panel[t] # NULL
  BY DEF handleAdvance, handleConfirmDelivery, handleConfirmFiling, handleComplete, handleReopen,
         handleSetDueDate, handleSetOverride, handleClearOverride, handleTogglePriority,
         handleRecordNote, AtStage, Invoke, Settled
<1>2. PICK p \in PanelRow(area) : p = panel[t]
  BY <1>1 DEF EngagementPanelsInv
<1>3. p.shows \in Values[area]
  BY DEF PanelRow
<1>4. ASSUME area = "status", NEW op \in PanelOp \ {"set", "record note"}, NEW g \in Progress,
             Invoke(t, op, g),
             /\ op = "advance" => g = [p.shows EXCEPT !.stage = g.stage] /\ g.stage # "Complete"
             /\ op = "confirm delivery" => /\ g = [p.shows EXCEPT !.delivered = TRUE]
                                           /\ g.stage # "Complete"
             /\ op = "confirm filing" => /\ g = [p.shows EXCEPT !.filed = TRUE]
                                         /\ g.stage # "Complete"
             /\ op = "complete" => g = [stage |-> "Complete", delivered |-> TRUE, filed |-> TRUE]
             /\ op = "reopen" =>
                  g = [stage |-> "In Progress", delivered |-> FALSE, filed |-> FALSE]
      PROVE  EngagementPanelsInv'
  <2>1. g \in Values[area]
    BY <1>4, ValuesOfAreas
  <2>2. PICK c : c = [op |-> op, sets |-> g, answer |-> NULL]
    OBVIOUS
  <2>3. c.op = op /\ c.sets = g
    BY <2>2
  <2>4. PanelCallOK(area, p.shows, c)
    BY <1>4, <2>1, <2>3 DEF PanelCallOK
  <2>5. PanelCallOK(area, panel[t].shows, [op |-> op, sets |-> g, answer |-> NULL])
    BY <1>2, <2>2, <2>4, Zenon
  <2> QED
    BY <1>4, <2>1, <2>5, InvokeKeeps DEF PanelOp
<1>5. ASSUME area \in {"dueDate", "override", "isPriority"}, NEW w \in Values[area],
             Invoke(t, "set", w)
      PROVE  EngagementPanelsInv'
  <2>1. PICK c : c = [op |-> "set", sets |-> w, answer |-> NULL]
    OBVIOUS
  <2>2. c.op = "set" /\ c.sets = w
    BY <2>1
  <2>3. PanelCallOK(area, p.shows, c)
    BY <1>5, <2>2 DEF PanelCallOK
  <2>4. PanelCallOK(area, panel[t].shows, [op |-> "set", sets |-> w, answer |-> NULL])
    BY <1>2, <2>1, <2>3, Zenon
  <2> QED
    BY <1>5, <2>4, InvokeKeeps DEF PanelOp
<1>6. ASSUME AtStage(t, p.shows.stage)
      PROVE  area = "status" /\ p.shows \in Progress
  BY <1>3, <1>6, ValuesOfAreas DEF AtStage
<1>7. CASE handleAdvance(t)
  <2>1. PICK u \in {"In Progress", "Review"} :
          /\ AtStage(t, p.shows.stage)
          /\ Invoke(t, "advance", [p.shows EXCEPT !.stage = u])
    <3>1. CASE AtStage(t, "New") /\ Invoke(t, "advance", [panel[t].shows EXCEPT !.stage = "In Progress"])
      <4>1. p.shows.stage = "New"
        BY <1>2, <3>1 DEF AtStage
      <4>2. Invoke(t, "advance", [p.shows EXCEPT !.stage = "In Progress"])
        BY <1>2, <3>1
      <4> QED
        BY <3>1, <4>1, <4>2
    <3>2. CASE AtStage(t, "In Progress") /\ Invoke(t, "advance", [panel[t].shows EXCEPT !.stage = "Review"])
      <4>1. p.shows.stage = "In Progress"
        BY <1>2, <3>2 DEF AtStage
      <4>2. Invoke(t, "advance", [p.shows EXCEPT !.stage = "Review"])
        BY <1>2, <3>2
      <4> QED
        BY <3>2, <4>1, <4>2
    <3> QED
      BY <1>7, <3>1, <3>2 DEF handleAdvance
  <2>2. PICK g \in Progress : g = [p.shows EXCEPT !.stage = u]
    <3>1. [p.shows EXCEPT !.stage = u] \in Progress
      BY <1>6, <2>1 DEF Progress, Stage
    <3> QED
      BY <3>1
  <2>3. g.stage = u /\ u # "Complete"
    BY <1>6, <2>1, <2>2 DEF Progress
  <2>4. Invoke(t, "advance", g) /\ g = [p.shows EXCEPT !.stage = g.stage]
    BY <2>1, <2>2, <2>3, Zenon
  <2> QED
    BY <1>4, <1>6, <2>1, <2>3, <2>4 DEF PanelOp
<1>8. CASE handleConfirmDelivery(t)
  <2>1. PICK g \in Progress : g = [p.shows EXCEPT !.delivered = TRUE] /\ area = "status"
    <3>1. area = "status" /\ p.shows \in Progress
      BY <1>3, <1>8, ValuesOfAreas DEF handleConfirmDelivery, AtStage
    <3>2. [p.shows EXCEPT !.delivered = TRUE] \in Progress
      BY <3>1 DEF Progress
    <3> QED
      BY <3>1, <3>2
  <2>2. g.stage = p.shows.stage /\ p.shows.stage = "Review"
    <3>1. p.shows.stage = "Review" /\ p.shows \in Progress
      BY <1>2, <1>3, <1>8, ValuesOfAreas DEF handleConfirmDelivery, AtStage
    <3> QED
      BY <2>1, <3>1 DEF Progress
  <2>3. Invoke(t, "confirm delivery", g)
    BY <1>2, <1>8, <2>1, Zenon DEF handleConfirmDelivery
  <2> QED
    BY <1>4, <2>1, <2>2, <2>3 DEF PanelOp
<1>9. CASE handleConfirmFiling(t)
  <2>1. PICK g \in Progress : g = [p.shows EXCEPT !.filed = TRUE] /\ area = "status"
    <3>1. area = "status" /\ p.shows \in Progress
      BY <1>3, <1>9, ValuesOfAreas DEF handleConfirmFiling, AtStage
    <3>2. [p.shows EXCEPT !.filed = TRUE] \in Progress
      BY <3>1 DEF Progress
    <3> QED
      BY <3>1, <3>2
  <2>2. g.stage = p.shows.stage /\ p.shows.stage = "Review"
    <3>1. p.shows.stage = "Review" /\ p.shows \in Progress
      BY <1>2, <1>3, <1>9, ValuesOfAreas DEF handleConfirmFiling, AtStage
    <3> QED
      BY <2>1, <3>1 DEF Progress
  <2>3. Invoke(t, "confirm filing", g)
    BY <1>2, <1>9, <2>1, Zenon DEF handleConfirmFiling
  <2> QED
    BY <1>4, <2>1, <2>2, <2>3 DEF PanelOp
<1>10. CASE handleComplete(t)
  <2>1. /\ area = "status" /\ p.shows \in Progress /\ p.shows.stage = "Review"
        /\ p.shows.delivered /\ p.shows.filed
    BY <1>2, <1>3, <1>10, ValuesOfAreas DEF handleComplete, AtStage
  <2>2. PICK g \in Progress : g = [stage |-> "Complete", delivered |-> TRUE, filed |-> TRUE]
    BY DEF Progress, Stage
  <2>3. g = [p.shows EXCEPT !.stage = "Complete"]
    BY <2>1, <2>2, Completed
  <2>4. Invoke(t, "complete", g)
    BY <1>2, <1>10, <2>3, Zenon DEF handleComplete
  <2> QED
    BY <1>4, <2>1, <2>2, <2>4 DEF PanelOp
<1>11. CASE handleReopen(t)
  <2>1. PICK g \in Progress : g = [stage |-> "In Progress", delivered |-> FALSE, filed |-> FALSE]
    BY DEF Progress, Stage
  <2>2. Invoke(t, "reopen", g) /\ area = "status"
    BY <1>11, <2>1, Zenon DEF handleReopen, AtStage
  <2> QED
    BY <1>4, <2>1, <2>2 DEF PanelOp
<1>12. CASE handleSetDueDate(t, v) \/ handleSetOverride(t, v)
  BY <1>5, <1>12, ValuesOfAreas DEF handleSetDueDate, handleSetOverride
<1>13. CASE handleClearOverride(t)
  BY <1>5, <1>13, ValuesOfAreas DEF handleClearOverride
<1>14. CASE handleTogglePriority(t)
  <2>1. area = "isPriority" /\ Invoke(t, "set", ~panel[t].shows)
    BY <1>14 DEF handleTogglePriority
  <2>2. (~panel[t].shows) \in Values[area]
    <3>1. (~panel[t].shows) \in BOOLEAN
      OBVIOUS
    <3> QED
      BY <2>1, <3>1, ValuesOfAreas, Zenon
  <2>3. PICK w \in Values[area] : Invoke(t, "set", w)
    BY <2>1, <2>2, Zenon
  <2> QED
    BY <1>5, <2>1, <2>3
<1>15. CASE handleRecordNote(t)
  <2>1. area = "notes" /\ Invoke(t, "record note", NULL)
    BY <1>15 DEF handleRecordNote
  <2>2. PICK c : c = [op |-> "record note", sets |-> NULL, answer |-> NULL]
    OBVIOUS
  <2>3. c.op = "record note" /\ c.answer = NULL
    BY <2>2
  <2>4. PanelCallOK(area, p.shows, c)
    BY <2>1, <2>3, EngagementPanelsAssumption DEF PanelCallOK, PanelOp
  <2>5. PanelCallOK(area, panel[t].shows, [op |-> "record note", sets |-> NULL, answer |-> NULL])
    BY <1>2, <2>2, <2>4, Zenon
  <2> QED
    BY <2>1, <2>5, InvokeKeeps DEF PanelOp
<1> QED
  BY <1>7, <1>8, <1>9, <1>10, <1>11, <1>12, <1>13, <1>14, <1>15

LEMMA PanelPageKeeps ==
  ASSUME EngagementPanelsInv, NEW t \in PanelTab, EngagementDetailPage(t)
  PROVE  EngagementPanelsInv'
<1>1. PICK q \in PanelRow(area) : q = [shows |-> stored, call |-> NULL]
  BY DEF PanelRow, EngagementPanelsInv
<1>2. q.shows = stored /\ q.call = NULL
  BY <1>1
<1>3. panel' = [panel EXCEPT ![t] = q] /\ overtaken' = overtaken \ {t}
      /\ UNCHANGED <<area, stored, reopened>>
  BY <1>1 DEF EngagementDetailPage
<1>4. area = "status" => StageOK(stored)
  BY DEF EngagementPanelsInv
<1>5. area = "notes" => q.shows \subseteq stored
  BY <1>2
<1>6. PanelOK(area, stored, overtaken', t, q)
  BY <1>2, <1>4, <1>5 DEF PanelOK, Answered
<1> QED
  BY <1>3, <1>6, TabShows

LEMMA AnswersKeep ==
  ASSUME EngagementPanelsInv, NEW t \in PanelTab, Refuse(t) \/ ShowAnswer(t) \/ ShowError(t)
  PROVE  EngagementPanelsInv'
<1>1. /\ panel[t] # NULL /\ panel[t].call # NULL /\ area' = area /\ stored' = stored
      /\ overtaken' = overtaken /\ reopened' = reopened
  BY DEF Refuse, ShowAnswer, ShowError
<1>2. PICK p \in PanelRow(area) : p = panel[t]
  BY <1>1 DEF EngagementPanelsInv
<1>3. PanelOK(area, stored, overtaken, t, p) /\ PanelCallOK(area, p.shows, p.call)
  BY <1>1, <1>2 DEF EngagementPanelsInv, PanelOK
<1>4. CASE Refuse(t)
  <2>1. Reply(t, "refused") /\ panel[t].call.answer = NULL
    BY <1>4 DEF Refuse
  <2>2. PICK q \in PanelRow(area) :
          /\ panel' = [panel EXCEPT ![t] = q]
          /\ q.shows = panel[t].shows
          /\ q.call.op = panel[t].call.op /\ q.call.sets = panel[t].call.sets
          /\ q.call # NULL /\ q.call.answer = "refused"
    BY <1>1, <2>1, Replied
  <2>3. PanelCallOK(area, q.shows, q.call)
    BY <1>2, <1>3, <2>2, CallKept
  <2>4. ~Answered(q) /\ ~Answered(p)
    BY <1>2, <2>1, <2>2, EngagementPanelsAssumption DEF Answered
  <2>5. PanelOK(area, stored, overtaken, t, q)
    BY <1>2, <1>3, <2>2, <2>3, <2>4 DEF PanelOK
  <2> QED
    BY <1>1, <2>2, <2>5, TabShows
<1>5. CASE ShowAnswer(t)
  <2>1. p.shows \in Values[area] /\ (p.call.answer = "done" => p.call.sets \in Values[area])
    BY <1>3 DEF PanelRow, PanelCallOK
  <2>2. PICK w \in Values[area] : w = IF p.call.answer = "done" THEN p.call.sets ELSE p.shows
    BY <2>1
  <2>3. PICK q \in PanelRow(area) : q = [[p EXCEPT !.call = NULL] EXCEPT !.shows = w]
    <3>1. [[p EXCEPT !.call = NULL] EXCEPT !.shows = w] \in PanelRow(area)
      BY DEF PanelRow
    <3> QED
      BY <3>1
  <2>4. q.call = NULL /\ q.shows = w
    BY <2>3 DEF PanelRow
  <2>5. panel' = [panel EXCEPT ![t] = q]
    <3>1. panel' = [panel EXCEPT ![t].call = NULL,
                                 ![t].shows = IF panel[t].call.answer = "done"
                                              THEN panel[t].call.sets ELSE @]
      BY <1>5 DEF ShowAnswer
    <3>2. panel \in [PanelTab -> PanelRow(area) \cup {NULL}]
      BY DEF EngagementPanelsInv
    <3>3. PICK r \in PanelRow(area) : r = [p EXCEPT !.call = NULL]
      <4>1. [p EXCEPT !.call = NULL] \in PanelRow(area)
        BY DEF PanelRow
      <4> QED
        BY <4>1
    <3>4. r.shows = p.shows
      BY <3>3 DEF PanelRow
    <3>5. PICK P : P = [panel EXCEPT ![t].call = NULL]
      OBVIOUS
    <3>6. P = [panel EXCEPT ![t] = r]
      BY <1>2, <3>3, <3>5, Zenon
    <3>7. P[t] = r
      BY <3>2, <3>6
    <3>8. panel' = [P EXCEPT ![t].shows = IF panel[t].call.answer = "done"
                                          THEN panel[t].call.sets ELSE @]
      BY <3>1, <3>5
    <3>9. panel' = [P EXCEPT ![t] = [P[t] EXCEPT !.shows = IF panel[t].call.answer = "done"
                                          THEN panel[t].call.sets ELSE P[t].shows]]
      BY <3>8
    <3>10. panel' = [P EXCEPT ![t] = [r EXCEPT !.shows = w]]
      BY <1>2, <2>2, <3>4, <3>7, <3>9, Zenon
    <3>11. panel' = [P EXCEPT ![t] = q]
      BY <2>3, <3>3, <3>10, Zenon
    <3> QED
      BY <3>2, <3>6, <3>11
  <2>6. Answered(p) <=> p.call.answer = "done"
    BY <1>1, <1>2 DEF Answered
  <2>7. t \notin overtaken => w = stored
    BY <1>3, <2>2, <2>6 DEF PanelOK
  <2>8. area = "notes" => w \subseteq stored
    BY <1>3, <2>2, <2>6 DEF PanelOK
  <2>9. area = "status" => StageOK(w)
    <3> SUFFICES ASSUME area = "status" PROVE StageOK(w)
      OBVIOUS
    <3>1. StageOK(p.shows)
      BY <1>3 DEF PanelOK
    <3>2. CASE p.call.op \in {"advance", "confirm delivery", "confirm filing"}
      <4>1. p.call.sets.stage # "Complete"
        BY <1>3, <3>2 DEF PanelCallOK
      <4> QED
        BY <2>2, <3>1, <4>1 DEF StageOK
    <3>3. CASE p.call.op \in {"complete", "reopen"}
      <4>1. StageOK(p.call.sets)
        <5>1. CASE p.call.op = "complete"
          <6>1. p.call.sets = [stage |-> "Complete", delivered |-> TRUE, filed |-> TRUE]
            BY <1>3, <5>1 DEF PanelCallOK
          <6> QED
            BY <6>1 DEF StageOK
        <5>2. CASE p.call.op = "reopen"
          <6>1. p.call.sets = [stage |-> "In Progress", delivered |-> FALSE, filed |-> FALSE]
            BY <1>3, <5>2 DEF PanelCallOK
          <6>2. PICK v : v = [stage |-> "In Progress", delivered |-> FALSE, filed |-> FALSE]
            OBVIOUS
          <6>3. StageOK(v)
            BY <6>2 DEF StageOK
          <6> QED
            BY <6>1, <6>2, <6>3, Zenon
        <5> QED
          BY <3>3, <5>1, <5>2
      <4> QED
        BY <2>2, <3>1, <4>1
    <3>4. CASE p.call.op \in {"set", "record note"}
      BY <1>3, <3>4 DEF PanelCallOK
    <3>5. p.call.op \in PanelOp
      BY <1>1, <1>2 DEF PanelRow, CallRow
    <3> QED
      BY <3>2, <3>3, <3>4, <3>5 DEF PanelOp
  <2>10. PanelOK(area, stored, overtaken, t, q)
    BY <2>4, <2>7, <2>8, <2>9 DEF PanelOK, Answered
  <2> QED
    BY <1>1, <2>5, <2>10, TabShows
<1>6. CASE ShowError(t)
  <2>1. panel' = [panel EXCEPT ![t] = NULL]
    BY <1>6 DEF ShowError
  <2> QED
    BY <1>1, <2>1, TabShows
<1> QED
  BY <1>4, <1>5, <1>6

LEMMA ClientStarts ==
  ASSUME EngagementPanelsInv, StartByClient
  PROVE  EngagementPanelsInv'
<1>1. /\ area = "status" /\ stored' = [stored EXCEPT !.stage = "In Progress"]
      /\ overtaken' = PanelTab /\ area' = area /\ panel' = panel /\ reopened' = reopened
  BY DEF StartByClient
<1>2. stored \in Progress
  BY <1>1, ValuesOfAreas DEF EngagementPanelsInv
<1>3. PICK s \in Progress : s = [stored EXCEPT !.stage = "In Progress"]
  <2>1. [stored EXCEPT !.stage = "In Progress"] \in Progress
    BY <1>2 DEF Progress, Stage
  <2> QED
    BY <2>1
<1>4. s.stage = "In Progress" /\ s \in Values[area]
  BY <1>1, <1>2, <1>3, ValuesOfAreas DEF Progress
<1>5. StageOK(s)
  BY <1>4 DEF StageOK
<1>6. ASSUME NEW t \in PanelTab, panel[t] # NULL
      PROVE  PanelOK(area, s, PanelTab, t, panel[t])
  <2>1. PanelOK(area, stored, overtaken, t, panel[t])
    BY <1>6 DEF EngagementPanelsInv
  <2> QED
    BY <1>1, <2>1 DEF PanelOK
<1> QED
  BY <1>1, <1>3, <1>4, <1>5, <1>6 DEF EngagementPanelsInv

LEMMA EngagementPanelsStep ==
  EngagementPanelsInv /\ [EngagementPanelsNext]_engagementPanelsVars => EngagementPanelsInv'
<1> SUFFICES ASSUME EngagementPanelsInv, [EngagementPanelsNext]_engagementPanelsVars
             PROVE  EngagementPanelsInv'
  OBVIOUS
<1>1. CASE UNCHANGED engagementPanelsVars
  <2>1. /\ area' = area /\ stored' = stored /\ panel' = panel /\ overtaken' = overtaken
        /\ reopened' = reopened
    BY <1>1 DEF engagementPanelsVars
  <2> QED
    BY <2>1, Zenon DEF EngagementPanelsInv
<1>2. ASSUME NEW t \in PanelTab, NEW v \in SettingValue \cup {NULL},
             \/ handleAdvance(t) \/ handleConfirmDelivery(t) \/ handleConfirmFiling(t)
             \/ handleComplete(t) \/ handleReopen(t) \/ handleSetDueDate(t, v)
             \/ handleSetOverride(t, v) \/ handleClearOverride(t) \/ handleTogglePriority(t)
             \/ handleRecordNote(t)
      PROVE  EngagementPanelsInv'
  BY <1>2, HandlersKeep, Zenon
<1>3. NULL \in SettingValue \cup {NULL}
  OBVIOUS
<1> QED
  BY <1>1, <1>2, <1>3, PanelPageKeeps, AnswersKeep, ClientStarts, AdvanceKeeps, ConfirmKeeps,
     CompletionKeeps, ReopenKeeps, SetKeeps, NoteKeeps, Zenon DEF EngagementPanelsNext

-----------------------------------------------------------------------------
(***************************************************************************)
(* The requests for documents.  The editor whose call is under way cannot  *)
(* be opened anew, so that what the call answers is about the request that *)
(* the editor has submitted.                                               *)
(***************************************************************************)

\* How a request is listed, where W are the rows and day is today.
Overdue(w, day) == ~w.fulfilled /\ w.due # NULL /\ w.due < day
ItemIn(W, day, r) ==
  IF W[r] = NULL THEN NULL
  ELSE [due |-> W[r].due, fulfilled |-> W[r].fulfilled, overdue |-> Overdue(W[r], day)]

\* A call, with N the requests whose notice was written or not, its editor, and what has
\* changed since the editor was brought.
AskCallOK(W, N, b, a, D) ==
  a # NULL =>
    /\ a.step = "insert" => a.id = NULL
    /\ a.step = "notify" => a.id # NULL
    /\ a.id # NULL => W[a.id] # NULL /\ W[a.id].due = a.due
    /\ a.step = "answer" /\ a.id # NULL => a.id \in N
    /\ b # NULL => b.told = "nothing" /\ b.last = a.id
    /\ b # NULL /\ a.id # NULL /\ a.id \notin D => ~W[a.id].fulfilled

RowsTold(W, day, b, a, D) ==
  b # NULL => \A r \in Wanted :
    /\ b.items[r] # NULL => W[r] # NULL /\ b.items[r].due = W[r].due
    /\ r \in D \/ (a # NULL /\ a.id = r) \/ b.items[r] = ItemIn(W, day, r)

ToldOK(b) ==
  b # NULL => /\ b.told = "added" => b.last # NULL /\ b.items[b.last] # NULL
              /\ b.told = "error" => b.last = NULL

DocumentRequestsInv ==
  /\ DocumentRequestsTypeOK
  /\ \A t \in WantedTab :
       /\ AskCallOK(wanted, announced \cup unheard, board[t], adding[t], dated[t])
       /\ RowsTold(wanted, today, board[t], adding[t], dated[t])
       /\ ToldOK(board[t])
  /\ \A r \in Wanted : wanted[r] # NULL =>
       r \in announced \/ r \in unheard \/ \E t \in WantedTab : UnderWay(t, r)

LEMMA ItemOfIn == \A r \in Wanted : ItemOf(r) = ItemIn(wanted, today, r)
BY DEF ItemOf, ItemIn, Overdue, computeIsOverdue

LEMMA DocumentRequestsInitInv == DocumentRequestsInit => DocumentRequestsInv
<1> SUFFICES ASSUME DocumentRequestsInit PROVE DocumentRequestsInv
  OBVIOUS
<1>1. /\ wanted = [r \in Wanted |-> NULL] /\ board = [t \in WantedTab |-> NULL]
      /\ adding = [t \in WantedTab |-> NULL] /\ dated = [t \in WantedTab |-> {}]
      /\ today = 0 /\ announced = {} /\ unheard = {} /\ hasLogin \in BOOLEAN
  BY DEF DocumentRequestsInit
<1>2. DocumentRequestsTypeOK
  BY <1>1, DocumentRequestsAssumption DEF DocumentRequestsTypeOK
<1> QED
  BY <1>1, <1>2 DEF DocumentRequestsInv, AskCallOK, RowsTold, ToldOK

LEMMA EditorsShow == DocumentRequestsInv => EditorShowsRequests /\ AddedAsTold
<1> SUFFICES ASSUME DocumentRequestsInv PROVE EditorShowsRequests /\ AddedAsTold
  OBVIOUS
<1>1. EditorShowsRequests
  <2>1. ASSUME NEW t \in WantedTab, board[t] # NULL, NEW r \in Wanted
        PROVE  LET item == board[t].items[r]
               IN  /\ item # NULL => wanted[r] # NULL /\ item.due = wanted[r].due
                   /\ r \in dated[t] \/ UnderWay(t, r) \/ item = ItemOf(r)
    <3>1. RowsTold(wanted, today, board[t], adding[t], dated[t])
      BY DEF DocumentRequestsInv
    <3> QED
      BY <2>1, <3>1, ItemOfIn DEF RowsTold, UnderWay
  <2> QED
    BY <2>1 DEF EditorShowsRequests
<1>2. AddedAsTold
  BY DEF DocumentRequestsInv, AddedAsTold, ToldOK
<1> QED
  BY <1>1, <1>2

-----------------------------------------------------------------------------
\* A step of one tab that writes no request.
LEMMA EditorMoves ==
  ASSUME DocumentRequestsInv, NEW t \in WantedTab, UNCHANGED <<wanted, today, hasLogin>>,
         NEW b \in Board \cup {NULL}, board' = [board EXCEPT ![t] = b],
         NEW a \in Adding \cup {NULL}, adding' = [adding EXCEPT ![t] = a],
         NEW D \in SUBSET Wanted, dated' = [dated EXCEPT ![t] = D],
         announced' \subseteq Wanted, unheard' \subseteq Wanted,
         announced \cup unheard \subseteq announced' \cup unheard',
         AskCallOK(wanted, announced' \cup unheard', b, a, D),
         RowsTold(wanted, today, b, a, D), ToldOK(b),
         \/ adding[t] = NULL \/ adding[t].id = NULL \/ adding[t].id \in announced' \cup unheard'
         \/ a # NULL /\ a.id = adding[t].id
  PROVE  DocumentRequestsInv'
<1>1. /\ wanted \in [Wanted -> RequestRow \cup {NULL}] /\ today \in 0 .. MaxDay /\ hasLogin \in BOOLEAN
      /\ board \in [WantedTab -> Board \cup {NULL}] /\ adding \in [WantedTab -> Adding \cup {NULL}]
      /\ dated \in [WantedTab -> SUBSET Wanted]
  BY DEF DocumentRequestsInv, DocumentRequestsTypeOK
<1>2. wanted' = wanted /\ today' = today /\ hasLogin' = hasLogin
  OBVIOUS
<1>3. DocumentRequestsTypeOK'
  BY <1>1, <1>2 DEF DocumentRequestsTypeOK
<1>4. /\ board'[t] = b /\ adding'[t] = a /\ dated'[t] = D
      /\ \A u \in WantedTab : u # t =>
           board'[u] = board[u] /\ adding'[u] = adding[u] /\ dated'[u] = dated[u]
  BY <1>1
<1>5. ASSUME NEW u \in WantedTab
      PROVE  /\ AskCallOK(wanted, announced' \cup unheard', board'[u], adding'[u], dated'[u])
             /\ RowsTold(wanted, today, board'[u], adding'[u], dated'[u])
             /\ ToldOK(board'[u])
  <2>1. CASE u = t
    BY <1>4, <2>1
  <2>2. CASE u # t
    <3>1. /\ AskCallOK(wanted, announced \cup unheard, board[u], adding[u], dated[u])
          /\ RowsTold(wanted, today, board[u], adding[u], dated[u]) /\ ToldOK(board[u])
      BY DEF DocumentRequestsInv
    <3>2. AskCallOK(wanted, announced' \cup unheard', board[u], adding[u], dated[u])
      BY <3>1 DEF AskCallOK
    <3> QED
      BY <1>4, <2>2, <3>1, <3>2
  <2> QED
    BY <2>1, <2>2
<1>6. ASSUME NEW r \in Wanted, wanted[r] # NULL, r \notin announced', r \notin unheard'
      PROVE  \E u \in WantedTab : adding'[u] # NULL /\ adding'[u].id = r
  <2>1. PICK u \in WantedTab : adding[u] # NULL /\ adding[u].id = r
    BY <1>6 DEF DocumentRequestsInv, UnderWay
  <2>2. CASE u = t
    <3>1. r # NULL
      BY DocumentRequestsAssumption
    <3>2. a # NULL /\ a.id = r
      BY <1>6, <2>1, <2>2, <3>1
    <3> QED
      BY <1>4, <3>2
  <2> QED
    BY <1>4, <2>1, <2>2
<1> QED
  BY <1>2, <1>3, <1>5, <1>6 DEF DocumentRequestsInv, UnderWay

LEMMA EditorPageKeeps ==
  ASSUME DocumentRequestsInv, NEW t \in WantedTab, DocumentRequestsPage(t) \/ CloseEditor(t)
  PROVE  DocumentRequestsInv'
<1>0. /\ wanted \in [Wanted -> RequestRow \cup {NULL}] /\ today \in 0 .. MaxDay
      /\ adding \in [WantedTab -> Adding \cup {NULL}] /\ announced \subseteq Wanted
      /\ unheard \subseteq Wanted
  BY DEF DocumentRequestsInv, DocumentRequestsTypeOK
<1>1. /\ wanted' = wanted /\ today' = today /\ hasLogin' = hasLogin /\ announced' = announced
      /\ unheard' = unheard /\ adding' = adding /\ dated' = [dated EXCEPT ![t] = {}]
  BY DEF DocumentRequestsPage, CloseEditor
<1>2. PICK a \in Adding \cup {NULL} : a = adding[t] /\ adding' = [adding EXCEPT ![t] = a]
  BY <1>0, <1>1
<1>. DEFINE N == announced \cup unheard
<1>5. /\ announced' \subseteq Wanted /\ unheard' \subseteq Wanted
      /\ announced \cup unheard \subseteq announced' \cup unheard'
      /\ announced' \cup unheard' = N
      /\ UNCHANGED <<wanted, today, hasLogin>>
  BY <1>0, <1>1
<1>6. {} \in SUBSET Wanted /\ NULL \in Board \cup {NULL}
  OBVIOUS
<1>. HIDE DEF N
<1>3. CASE DocumentRequestsPage(t)
  <2>1. a = NULL
    BY <1>2, <1>3 DEF DocumentRequestsPage
  <2>2. \A r \in Wanted : ItemIn(wanted, today, r) \in Shown \cup {NULL}
    <3>1. ASSUME NEW r \in Wanted, wanted[r] # NULL
          PROVE  ItemIn(wanted, today, r) \in Shown
      <4>1. wanted[r].due \in Due /\ wanted[r].fulfilled \in BOOLEAN
        BY <1>0, <3>1 DEF RequestRow
      <4>2. Overdue(wanted[r], today) \in BOOLEAN
        BY DEF Overdue
      <4> QED
        BY <3>1, <4>1, <4>2 DEF ItemIn, Shown
    <3>2. ASSUME NEW r \in Wanted, wanted[r] = NULL
          PROVE  ItemIn(wanted, today, r) = NULL
      BY <3>2 DEF ItemIn
    <3> QED
      BY <3>1, <3>2
  <2>3. PICK I \in [Wanted -> Shown \cup {NULL}] : I = [r \in Wanted |-> ItemOf(r)]
    BY <2>2, ItemOfIn
  <2>4. \A r \in Wanted : I[r] = ItemIn(wanted, today, r)
    BY <2>3, ItemOfIn
  <2>5. PICK b \in Board : b = [items |-> I, told |-> "nothing", last |-> NULL]
    BY DEF Board
  <2>6. b.items = I /\ b.told = "nothing"
    BY <2>5
  <2>7. board' = [board EXCEPT ![t] = b]
    BY <1>3, <2>3, <2>5 DEF DocumentRequestsPage
  <2>8. AskCallOK(wanted, N, b, a, {}) /\ ToldOK(b)
    BY <2>1, <2>6 DEF AskCallOK, ToldOK
  <2>9. ASSUME NEW r \in Wanted, I[r] # NULL
        PROVE  wanted[r] # NULL /\ I[r].due = wanted[r].due
    BY <2>4, <2>9 DEF ItemIn
  <2>10. RowsTold(wanted, today, b, a, {})
    BY <2>4, <2>6, <2>9 DEF RowsTold
  <2> QED
    BY <1>1, <1>2, <1>5, <1>6, <2>1, <2>7, <2>8, <2>10, EditorMoves
<1>4. CASE CloseEditor(t)
  <2>1. board' = [board EXCEPT ![t] = NULL]
    BY <1>4 DEF CloseEditor
  <2>2. AskCallOK(wanted, N, board[t], a, dated[t])
    BY <1>2 DEF DocumentRequestsInv, N
  <2>3. AskCallOK(wanted, N, NULL, a, {})
    BY <2>2 DEF AskCallOK
  <2>4. RowsTold(wanted, today, NULL, a, {}) /\ ToldOK(NULL)
    BY DEF RowsTold, ToldOK
  <2>5. adding[t] = NULL \/ (a # NULL /\ a.id = adding[t].id)
    BY <1>2
  <2> QED
    BY <1>1, <1>2, <1>5, <1>6, <2>1, <2>3, <2>4, <2>5, EditorMoves
<1> QED
  BY <1>3, <1>4

LEMMA AddKeeps ==
  ASSUME DocumentRequestsInv, NEW t \in WantedTab, handleAdd(t)
  PROVE  DocumentRequestsInv'
<1>0. /\ board \in [WantedTab -> Board \cup {NULL}] /\ adding \in [WantedTab -> Adding \cup {NULL}]
      /\ dated \in [WantedTab -> SUBSET Wanted] /\ announced \subseteq Wanted
      /\ unheard \subseteq Wanted
  BY DEF DocumentRequestsInv, DocumentRequestsTypeOK
<1>1. /\ wanted' = wanted /\ today' = today /\ hasLogin' = hasLogin /\ announced' = announced
      /\ unheard' = unheard /\ dated' = dated /\ board[t] # NULL /\ adding[t] = NULL
  BY DEF handleAdd
<1>2. PICK b \in Board : b = board[t]
  BY <1>0, <1>1
<1>3. PICK D \in SUBSET Wanted : D = dated[t] /\ dated' = [dated EXCEPT ![t] = D]
  BY <1>0, <1>1
<1>4. RowsTold(wanted, today, b, NULL, D)
  BY <1>1, <1>2, <1>3 DEF DocumentRequestsInv
<1>5. /\ announced' \subseteq Wanted /\ unheard' \subseteq Wanted
      /\ announced \cup unheard \subseteq announced' \cup unheard'
      /\ UNCHANGED <<wanted, today, hasLogin>>
  BY <1>0, <1>1
<1>6. ASSUME NEW tell \in {"nothing", "error"},
             board' = [board EXCEPT ![t].told = tell, ![t].last = NULL],
             NEW a \in Adding \cup {NULL}, adding' = [adding EXCEPT ![t] = a],
             a # NULL => tell = "nothing" /\ a.step = "insert" /\ a.id = NULL
      PROVE  DocumentRequestsInv'
  <2>1. PICK g \in Board : g = [b EXCEPT !.told = tell]
    <3>1. [b EXCEPT !.told = tell] \in Board
      BY DEF Board
    <3> QED
      BY <3>1
  <2>2. PICK c \in Board : c = [g EXCEPT !.last = NULL]
    <3>1. [g EXCEPT !.last = NULL] \in Board
      BY DEF Board
    <3> QED
      BY <3>1
  <2>3. c.told = tell /\ c.last = NULL /\ c.items = b.items
    BY <2>1, <2>2 DEF Board
  <2>4. board' = [board EXCEPT ![t] = c]
    <3>1. PICK B : B = [board EXCEPT ![t].told = tell]
      OBVIOUS
    <3>2. B = [board EXCEPT ![t] = g]
      BY <1>2, <2>1, <3>1, Zenon
    <3>3. B[t] = g
      BY <1>0, <3>2
    <3>4. board' = [B EXCEPT ![t].last = NULL]
      BY <1>6, <3>1
    <3>5. board' = [B EXCEPT ![t] = c]
      BY <2>2, <3>3, <3>4, Zenon
    <3> QED
      BY <1>0, <3>2, <3>5
  <2>5. ToldOK(c)
    BY <1>6, <2>3 DEF ToldOK
  <2>6. AskCallOK(wanted, announced' \cup unheard', c, a, D)
    BY <1>6, <2>3 DEF AskCallOK
  <2>8. b # NULL
    BY <1>1, <1>2
  <2>9. RowsTold(wanted, today, c, a, D)
    BY <1>4, <2>3, <2>8 DEF RowsTold
  <2> QED
    BY <1>1, <1>3, <1>5, <1>6, <2>4, <2>5, <2>6, <2>9, EditorMoves
<1>7. CASE board' = [board EXCEPT ![t].told = "error", ![t].last = NULL] /\ adding' = adding
  <2>1. adding' = [adding EXCEPT ![t] = NULL]
    BY <1>0, <1>1, <1>7
  <2> QED
    BY <1>6, <1>7, <2>1
<1>8. ASSUME NEW d \in Due,
             board' = [board EXCEPT ![t].told = "nothing", ![t].last = NULL],
             adding' = [adding EXCEPT ![t] = [due |-> d, step |-> "insert", id |-> NULL]]
      PROVE  DocumentRequestsInv'
  <2>1. PICK a \in Adding : a = [due |-> d, step |-> "insert", id |-> NULL]
    BY DEF Adding
  <2>2. a.step = "insert" /\ a.id = NULL
    BY <2>1
  <2>3. adding' = [adding EXCEPT ![t] = a]
    BY <1>8, <2>1
  <2> QED
    BY <1>6, <1>8, <2>2, <2>3
<1> QED
  BY <1>7, <1>8 DEF handleAdd

LEMMA NotifyKeeps ==
  ASSUME DocumentRequestsInv, NEW t \in WantedTab, NotifyOfRequest(t)
  PROVE  DocumentRequestsInv'
<1>0. /\ board \in [WantedTab -> Board \cup {NULL}] /\ adding \in [WantedTab -> Adding \cup {NULL}]
      /\ dated \in [WantedTab -> SUBSET Wanted] /\ announced \subseteq Wanted
      /\ unheard \subseteq Wanted
  BY DEF DocumentRequestsInv, DocumentRequestsTypeOK
<1>1. /\ wanted' = wanted /\ today' = today /\ hasLogin' = hasLogin /\ board' = board
      /\ dated' = dated /\ adding[t] # NULL /\ adding[t].step = "notify"
      /\ adding' = [adding EXCEPT ![t].step = "answer"]
  BY DEF NotifyOfRequest
<1>2. PICK a \in Adding : a = adding[t]
  BY <1>0, <1>1
<1>3. PICK c \in Adding : c = [a EXCEPT !.step = "answer"]
  <2>1. [a EXCEPT !.step = "answer"] \in Adding
    BY DEF Adding
  <2> QED
    BY <2>1
<1>4. c.step = "answer" /\ c.id = a.id /\ c.due = a.due
  BY <1>3 DEF Adding
<1>5. adding' = [adding EXCEPT ![t] = c]
  BY <1>1, <1>2, <1>3, Zenon
<1>6. PICK b \in Board \cup {NULL} : b = board[t] /\ board' = [board EXCEPT ![t] = b]
  BY <1>0, <1>1
<1>7. PICK D \in SUBSET Wanted : D = dated[t] /\ dated' = [dated EXCEPT ![t] = D]
  BY <1>0, <1>1
<1>8. /\ AskCallOK(wanted, announced \cup unheard, b, a, D) /\ RowsTold(wanted, today, b, a, D)
      /\ ToldOK(b) /\ a # NULL /\ a.step = "notify"
  BY <1>1, <1>2, <1>6, <1>7 DEF DocumentRequestsInv
<1>9. a.id \in Wanted
  BY <1>8 DEF AskCallOK, Adding
<1>10. /\ announced' \subseteq Wanted /\ unheard' \subseteq Wanted
       /\ announced \cup unheard \subseteq announced' \cup unheard'
       /\ a.id \in announced' \cup unheard'
       /\ UNCHANGED <<wanted, today, hasLogin>>
  BY <1>0, <1>1, <1>2, <1>9 DEF NotifyOfRequest
<1>11. PICK N : N = announced' \cup unheard' /\ a.id \in N
  BY <1>10
<1>12. AskCallOK(wanted, N, b, c, D)
  BY <1>4, <1>8, <1>11 DEF AskCallOK
<1>13. c # NULL
  BY NoRowAssumption
<1>14. RowsTold(wanted, today, b, c, D)
  BY <1>4, <1>8, <1>13 DEF RowsTold
<1>15. adding[t].id \in announced' \cup unheard'
  BY <1>2, <1>10
<1>16. AskCallOK(wanted, announced' \cup unheard', b, c, D)
  BY <1>11, <1>12, Zenon
<1> QED
  BY <1>5, <1>6, <1>7, <1>8, <1>10, <1>14, <1>15, <1>16, EditorMoves

LEMMA FailsKeep ==
  ASSUME DocumentRequestsInv, NEW t \in WantedTab, AddingFails(t)
  PROVE  DocumentRequestsInv'
<1>0. /\ adding \in [WantedTab -> Adding \cup {NULL}] /\ announced \subseteq Wanted
      /\ unheard \subseteq Wanted
  BY DEF DocumentRequestsInv, DocumentRequestsTypeOK
<1>1. /\ wanted' = wanted /\ today' = today /\ hasLogin' = hasLogin /\ announced' = announced
      /\ adding[t] # NULL /\ adding' = [adding EXCEPT ![t] = NULL]
      /\ board' = [board EXCEPT ![t] = NULL] /\ dated' = [dated EXCEPT ![t] = {}]
      /\ unheard' = IF adding[t].step = "notify" THEN unheard \cup {adding[t].id} ELSE unheard
  BY DEF AddingFails
<1>2. PICK a \in Adding : a = adding[t]
  BY <1>0, <1>1
<1>3. AskCallOK(wanted, announced \cup unheard, board[t], a, dated[t]) /\ a # NULL
  BY <1>1, <1>2 DEF DocumentRequestsInv
<1>4. /\ a.step = "insert" => a.id = NULL
      /\ a.step = "notify" => a.id \in Wanted
      /\ a.step = "answer" /\ a.id # NULL => a.id \in announced \cup unheard
      /\ a.step \in {"insert", "notify", "answer"}
  BY <1>3 DEF AskCallOK, Adding
<1>5. /\ announced' \subseteq Wanted /\ unheard' \subseteq Wanted
      /\ announced \cup unheard \subseteq announced' \cup unheard'
      /\ a.id = NULL \/ a.id \in announced' \cup unheard'
      /\ UNCHANGED <<wanted, today, hasLogin>>
  BY <1>0, <1>1, <1>2, <1>4
<1>6. /\ AskCallOK(wanted, announced' \cup unheard', NULL, NULL, {})
      /\ RowsTold(wanted, today, NULL, NULL, {}) /\ ToldOK(NULL)
  BY DEF AskCallOK, RowsTold, ToldOK
<1>7. {} \in SUBSET Wanted /\ NULL \in Board \cup {NULL} /\ NULL \in Adding \cup {NULL}
  OBVIOUS
<1>8. adding[t].id = NULL \/ adding[t].id \in announced' \cup unheard'
  BY <1>2, <1>5
<1> QED
  BY <1>1, <1>5, <1>6, <1>7, <1>8, EditorMoves

LEMMA ShowKeeps ==
  ASSUME DocumentRequestsInv, NEW t \in WantedTab, ShowAdded(t)
  PROVE  DocumentRequestsInv'
<1>0. /\ wanted \in [Wanted -> RequestRow \cup {NULL}] /\ today \in 0 .. MaxDay
      /\ board \in [WantedTab -> Board \cup {NULL}] /\ adding \in [WantedTab -> Adding \cup {NULL}]
      /\ dated \in [WantedTab -> SUBSET Wanted] /\ announced \subseteq Wanted
      /\ unheard \subseteq Wanted
  BY DEF DocumentRequestsInv, DocumentRequestsTypeOK
<1>1. /\ wanted' = wanted /\ today' = today /\ hasLogin' = hasLogin /\ announced' = announced
      /\ unheard' = unheard /\ adding[t] # NULL /\ adding[t].step = "answer"
      /\ adding' = [adding EXCEPT ![t] = NULL]
  BY DEF ShowAdded
<1>2. PICK a \in Adding : a = adding[t]
  BY <1>0, <1>1
<1>3. PICK D \in SUBSET Wanted : D = dated[t]
  BY <1>0
<1>4. PICK b \in Board \cup {NULL} : b = board[t]
  BY <1>0
<1>5. /\ AskCallOK(wanted, announced \cup unheard, b, a, D) /\ RowsTold(wanted, today, b, a, D)
      /\ ToldOK(b) /\ a # NULL /\ a.step = "answer"
  BY <1>1, <1>2, <1>3, <1>4 DEF DocumentRequestsInv
<1>6. /\ announced' \subseteq Wanted /\ unheard' \subseteq Wanted
      /\ announced \cup unheard \subseteq announced' \cup unheard'
      /\ UNCHANGED <<wanted, today, hasLogin>>
      /\ adding[t].id = NULL \/ adding[t].id \in announced' \cup unheard'
  <2>1. a.id = NULL \/ a.id \in announced \cup unheard
    BY <1>5 DEF AskCallOK
  <2> QED
    BY <1>0, <1>1, <1>2, <2>1
<1>7. NULL \in Adding \cup {NULL}
  OBVIOUS
<1>8. CASE b = NULL
  <2>1. board' = [board EXCEPT ![t] = NULL] /\ dated' = [dated EXCEPT ![t] = D]
    BY <1>0, <1>3, <1>4, <1>8 DEF ShowAdded
  <2>2. /\ AskCallOK(wanted, announced' \cup unheard', NULL, NULL, D)
        /\ RowsTold(wanted, today, NULL, NULL, D) /\ ToldOK(NULL)
    BY DEF AskCallOK, RowsTold, ToldOK
  <2>3. NULL \in Board \cup {NULL}
    OBVIOUS
  <2> QED
    BY <1>1, <1>6, <1>7, <2>1, <2>2, <2>3, EditorMoves
<1>9. CASE b # NULL /\ a.id = NULL
  <2>0. b \in Board
    BY <1>9
  <2>1. PICK c \in Board : c = [b EXCEPT !.told = "error"]
    <3>1. [b EXCEPT !.told = "error"] \in Board
      BY <2>0 DEF Board
    <3> QED
      BY <3>1
  <2>2. c.told = "error" /\ c.last = b.last /\ c.items = b.items
    BY <2>0, <2>1 DEF Board
  <2>3. dated' = [dated EXCEPT ![t] = D]
    BY <1>0, <1>2, <1>3, <1>4, <1>9 DEF ShowAdded
  <2>4. board' = [board EXCEPT ![t].told = "error"]
    BY <1>2, <1>4, <1>9 DEF ShowAdded
  <2>5. board' = [board EXCEPT ![t] = c]
    BY <1>4, <2>1, <2>4, Zenon
  <2>6. b.last = NULL
    BY <1>5, <1>9 DEF AskCallOK
  <2>7. AskCallOK(wanted, announced' \cup unheard', c, NULL, D) /\ ToldOK(c)
    BY <2>2, <2>6 DEF AskCallOK, ToldOK
  <2>8. RowsTold(wanted, today, c, NULL, D)
    BY <1>5, <1>9, <2>2, DocumentRequestsAssumption DEF RowsTold
  <2> QED
    BY <1>1, <1>6, <1>7, <2>3, <2>5, <2>7, <2>8, EditorMoves
<1>10. CASE b # NULL /\ a.id # NULL
  <2>0. b \in Board
    BY <1>10
  <2>1. PICK r \in Wanted : r = a.id
    BY <1>10 DEF Adding
  <2>2. PICK d \in Due : d = a.due
    BY DEF Adding
  <2>3. /\ wanted[r] # NULL /\ wanted[r].due = d /\ b.last = r
        /\ r \notin D => ~wanted[r].fulfilled
    BY <1>5, <1>10, <2>1, <2>2 DEF AskCallOK
  <2>4. PICK i \in Shown : i = [due |-> d, fulfilled |-> FALSE, overdue |-> FALSE]
    BY DEF Shown
  <2>5. i.due = d /\ i.fulfilled = FALSE /\ i.overdue = FALSE /\ i # NULL
    BY <2>4, NoRowAssumption
  <2>6. PICK g \in Board : g = [b EXCEPT !.told = "added"]
    <3>1. [b EXCEPT !.told = "added"] \in Board
      BY <2>0 DEF Board
    <3> QED
      BY <3>1
  <2>7. g.told = "added" /\ g.last = b.last /\ g.items = b.items
    BY <2>0, <2>6 DEF Board
  <2>8. PICK I \in [Wanted -> Shown \cup {NULL}] : I = [b.items EXCEPT ![r] = i]
    <3>1. b.items \in [Wanted -> Shown \cup {NULL}]
      BY <2>0 DEF Board
    <3> QED
      BY <3>1
  <2>9. I[r] = i /\ \A q \in Wanted : q # r => I[q] = b.items[q]
    <3>1. b.items \in [Wanted -> Shown \cup {NULL}]
      BY <2>0 DEF Board
    <3> QED
      BY <2>8, <3>1
  <2>10. PICK c \in Board : c = [g EXCEPT !.items = I]
    <3>1. [g EXCEPT !.items = I] \in Board
      BY DEF Board
    <3> QED
      BY <3>1
  <2>11. c.items = I /\ c.told = "added" /\ c.last = r
    BY <2>3, <2>7, <2>10 DEF Board
  <2>12. /\ board' = [board EXCEPT ![t].told = "added", ![t].items[r] = i]
         /\ dated' = IF d # NULL /\ d < today THEN [dated EXCEPT ![t] = @ \cup {r}] ELSE dated
    BY <1>2, <1>4, <1>10, <2>1, <2>2, <2>4, Zenon DEF ShowAdded
  <2>13. board' = [board EXCEPT ![t] = c]
    <3>1. PICK B : B = [board EXCEPT ![t].told = "added"]
      OBVIOUS
    <3>2. B = [board EXCEPT ![t] = g]
      BY <1>4, <2>6, <3>1, Zenon
    <3>3. B[t] = g
      BY <1>0, <3>2
    <3>4. board' = [B EXCEPT ![t].items[r] = i]
      BY <2>12, <3>1
    <3>5. board' = [B EXCEPT ![t] = [g EXCEPT !.items = [g.items EXCEPT ![r] = i]]]
      BY <3>3, <3>4
    <3>6. board' = [B EXCEPT ![t] = c]
      BY <2>7, <2>8, <2>10, <3>5, Zenon
    <3> QED
      BY <1>0, <3>2, <3>6
  <2>14. PICK E \in SUBSET Wanted :
           /\ dated' = [dated EXCEPT ![t] = E]
           /\ D \subseteq E
           /\ r \notin E => ~(d # NULL /\ d < today)
    <3>1. CASE d # NULL /\ d < today
      <4>1. PICK E \in SUBSET Wanted : E = D \cup {r}
        OBVIOUS
      <4>2. dated' = [dated EXCEPT ![t] = E]
        BY <1>3, <2>12, <3>1, <4>1, Zenon
      <4> QED
        BY <4>1, <4>2
    <3>2. CASE ~(d # NULL /\ d < today)
      <4>1. dated' = dated
        BY <2>12, <3>2, Zenon
      <4>2. dated' = [dated EXCEPT ![t] = D]
        BY <1>0, <1>3, <4>1
      <4> QED
        BY <3>2, <4>2
    <3> QED
      BY <3>1, <3>2
  <2>15. AskCallOK(wanted, announced' \cup unheard', c, NULL, E) /\ ToldOK(c)
    BY <1>10, <2>1, <2>5, <2>9, <2>11 DEF AskCallOK, ToldOK
  <2>16. ASSUME NEW q \in Wanted
         PROVE  /\ c.items[q] # NULL => wanted[q] # NULL /\ c.items[q].due = wanted[q].due
                /\ q \in E \/ c.items[q] = ItemIn(wanted, today, q)
    <3>1. CASE q = r
      <4>1. c.items[q] = i
        BY <2>9, <2>11, <3>1
      <4>2. r \notin E => ~wanted[r].fulfilled /\ ~Overdue(wanted[r], today)
        BY <2>3, <2>14 DEF Overdue
      <4>3. wanted[r].fulfilled \in BOOLEAN /\ Overdue(wanted[r], today) \in BOOLEAN
        BY <1>0, <2>3 DEF RequestRow, Overdue
      <4>4. r \notin E => wanted[r].fulfilled = FALSE /\ Overdue(wanted[r], today) = FALSE
        BY <4>2, <4>3
      <4>5. r \notin E => i = ItemIn(wanted, today, r)
        BY <2>3, <2>4, <4>4, Zenon DEF ItemIn
      <4> QED
        BY <2>3, <2>5, <3>1, <4>1, <4>5
    <3>2. CASE q # r
      <4>1. c.items[q] = b.items[q] /\ a.id # q
        BY <2>1, <2>9, <2>11, <3>2
      <4> QED
        BY <1>5, <1>10, <2>14, <4>1 DEF RowsTold
    <3> QED
      BY <3>1, <3>2
  <2>17. RowsTold(wanted, today, c, NULL, E)
    BY <2>16 DEF RowsTold
  <2> QED
    BY <1>1, <1>6, <1>7, <2>13, <2>14, <2>15, <2>17, EditorMoves
<1> QED
  BY <1>8, <1>9, <1>10

\* A request is inserted: the editors of the others do not have it.
LEMMA RequestInserted ==
  ASSUME DocumentRequestsInv, NEW t \in WantedTab, adding[t] # NULL, adding[t].step = "insert",
         NEW r \in Wanted, wanted[r] = NULL,
         wanted' = [wanted EXCEPT ![r] = [due |-> adding[t].due, fulfilled |-> FALSE]],
         adding' = [adding EXCEPT ![t].step = "notify", ![t].id = r],
         board' = IF board[t] = NULL THEN board ELSE [board EXCEPT ![t].last = r],
         dated' = [u \in WantedTab |->
                     IF u = t \/ board[u] = NULL THEN dated[u] ELSE dated[u] \cup {r}],
         UNCHANGED <<today, hasLogin, announced, unheard>>
  PROVE  DocumentRequestsInv'
<1>0. /\ wanted \in [Wanted -> RequestRow \cup {NULL}] /\ today \in 0 .. MaxDay
      /\ board \in [WantedTab -> Board \cup {NULL}] /\ adding \in [WantedTab -> Adding \cup {NULL}]
      /\ dated \in [WantedTab -> SUBSET Wanted] /\ announced \subseteq Wanted
      /\ unheard \subseteq Wanted /\ hasLogin \in BOOLEAN
  BY DEF DocumentRequestsInv, DocumentRequestsTypeOK
<1>1. PICK a \in Adding : a = adding[t]
  BY <1>0
<1>2. PICK b \in Board \cup {NULL} : b = board[t]
  BY <1>0
<1>3. PICK D \in SUBSET Wanted : D = dated[t]
  BY <1>0
<1>4. PICK N : N = announced \cup unheard
  OBVIOUS
<1>5. /\ AskCallOK(wanted, N, b, a, D) /\ RowsTold(wanted, today, b, a, D) /\ ToldOK(b)
      /\ a # NULL /\ a.step = "insert"
  BY <1>1, <1>2, <1>3, <1>4 DEF DocumentRequestsInv
<1>6. a.id = NULL
  BY <1>5 DEF AskCallOK
<1>7. PICK w \in RequestRow : w = [due |-> a.due, fulfilled |-> FALSE]
  <2>1. a.due \in Due
    BY DEF Adding
  <2> QED
    BY <2>1 DEF RequestRow
<1>8. w.due = a.due /\ w.fulfilled = FALSE /\ w # NULL
  BY <1>7, NoRowAssumption
<1>9. PICK W \in [Wanted -> RequestRow \cup {NULL}] : W = wanted'
  BY <1>0, <1>1, <1>7
<1>10. W[r] = w /\ \A q \in Wanted : q # r => W[q] = wanted[q]
  BY <1>0, <1>1, <1>7, <1>9
<1>11. PICK g \in Adding : g = [a EXCEPT !.step = "notify"]
  <2>1. [a EXCEPT !.step = "notify"] \in Adding
    BY DEF Adding
  <2> QED
    BY <2>1
<1>12. PICK c \in Adding : c = [g EXCEPT !.id = r]
  <2>1. [g EXCEPT !.id = r] \in Adding
    BY DEF Adding
  <2> QED
    BY <2>1
<1>13. c.step = "notify" /\ c.id = r /\ c.due = a.due /\ c # NULL
  BY <1>11, <1>12, NoRowAssumption DEF Adding
<1>14. adding' = [adding EXCEPT ![t] = c]
  <2>1. PICK A : A = [adding EXCEPT ![t].step = "notify"]
    OBVIOUS
  <2>2. A = [adding EXCEPT ![t] = g]
    BY <1>1, <1>11, <2>1, Zenon
  <2>3. A[t] = g
    BY <1>0, <2>2
  <2>4. adding' = [A EXCEPT ![t].id = r]
    BY <2>1
  <2>5. adding' = [A EXCEPT ![t] = c]
    BY <1>12, <2>3, <2>4, Zenon
  <2> QED
    BY <1>0, <2>2, <2>5
<1>15. PICK e \in Board \cup {NULL} :
         /\ board' = [board EXCEPT ![t] = e]
         /\ b = NULL => e = NULL
         /\ b # NULL => e.items = b.items /\ e.told = b.told /\ e.last = r
  <2>1. CASE b = NULL
    BY <1>0, <1>2, <2>1
  <2>2. CASE b # NULL
    <3>1. b \in Board
      BY <2>2
    <3>2. PICK e \in Board : e = [b EXCEPT !.last = r]
      <4>1. [b EXCEPT !.last = r] \in Board
        BY <3>1 DEF Board
      <4> QED
        BY <4>1
    <3>3. e.items = b.items /\ e.told = b.told /\ e.last = r
      BY <3>1, <3>2 DEF Board
    <3>4. board' = [board EXCEPT ![t].last = r]
      BY <1>2, <2>2
    <3>5. board' = [board EXCEPT ![t] = e]
      BY <1>2, <3>2, <3>4, Zenon
    <3> QED
      BY <2>2, <3>3, <3>5
  <2> QED
    BY <2>1, <2>2
<1>16. /\ dated' \in [WantedTab -> SUBSET Wanted] /\ dated'[t] = D
       /\ \A u \in WantedTab : /\ dated[u] \subseteq dated'[u]
                               /\ u # t /\ board[u] # NULL => r \in dated'[u]
  BY <1>0, <1>3
<1>17. DocumentRequestsTypeOK'
  <2>1. board' \in [WantedTab -> Board \cup {NULL}] /\ adding' \in [WantedTab -> Adding \cup {NULL}]
    <3>1. board' = [board EXCEPT ![t] = e]
      BY <1>15, Zenon
    <3>2. board' \in [WantedTab -> Board \cup {NULL}]
      BY <1>0, <3>1
    <3>3. adding' \in [WantedTab -> Adding \cup {NULL}]
      BY <1>0, <1>14
    <3> QED
      BY <3>2, <3>3
  <2>2. wanted' \in [Wanted -> RequestRow \cup {NULL}]
    BY <1>9
  <2>3. today' = today /\ announced' = announced /\ unheard' = unheard /\ hasLogin' = hasLogin
    OBVIOUS
  <2>4. dated' \in [WantedTab -> SUBSET Wanted]
    BY <1>16
  <2> QED
    BY <1>0, <2>1, <2>2, <2>3, <2>4, Zenon DEF DocumentRequestsTypeOK
<1>18. AskCallOK(W, N, e, c, D) /\ ToldOK(e)
  <2>1. e # NULL => b # NULL /\ e.told = "nothing" /\ e.last = r
    BY <1>5, <1>15 DEF AskCallOK
  <2> QED
    BY <1>8, <1>10, <1>13, <2>1, DocumentRequestsAssumption DEF AskCallOK, ToldOK
<1>19. RowsTold(W, today, e, c, D)
  <2> SUFFICES ASSUME e # NULL, NEW q \in Wanted
               PROVE  /\ e.items[q] # NULL => W[q] # NULL /\ e.items[q].due = W[q].due
                      /\ q \in D \/ (c # NULL /\ c.id = q) \/ e.items[q] = ItemIn(W, today, q)
    BY DEF RowsTold
  <2>1. b # NULL /\ e.items = b.items /\ q # NULL
    BY <1>15, DocumentRequestsAssumption
  <2>2. /\ b.items[q] # NULL => wanted[q] # NULL /\ b.items[q].due = wanted[q].due
        /\ q \in D \/ b.items[q] = ItemIn(wanted, today, q)
    BY <1>5, <1>6, <2>1 DEF RowsTold
  <2>3. CASE q = r
    BY <1>13, <2>1, <2>2, <2>3
  <2>4. CASE q # r
    <3>1. W[q] = wanted[q]
      BY <1>10, <2>4
    <3>2. ItemIn(W, today, q) = ItemIn(wanted, today, q)
      BY <3>1, Zenon DEF ItemIn
    <3> QED
      BY <2>1, <2>2, <3>1, <3>2
  <2> QED
    BY <2>3, <2>4
<1>20. ASSUME NEW u \in WantedTab, u # t
       PROVE  /\ AskCallOK(W, N, board[u], adding[u], dated'[u])
              /\ RowsTold(W, today, board[u], adding[u], dated'[u])
              /\ ToldOK(board[u])
  <2>1. PICK z \in Adding \cup {NULL}, y \in Board \cup {NULL}, E \in SUBSET Wanted, F \in SUBSET Wanted :
          z = adding[u] /\ y = board[u] /\ E = dated[u] /\ F = dated'[u]
    BY <1>0, <1>16
  <2>2. /\ AskCallOK(wanted, N, y, z, E) /\ RowsTold(wanted, today, y, z, E) /\ ToldOK(y)
        /\ E \subseteq F /\ (y # NULL => r \in F)
    BY <1>4, <1>16, <1>20, <2>1 DEF DocumentRequestsInv
  <2>3. z # NULL /\ z.id # NULL => z.id \in Wanted /\ z.id # r
    <3>1. z # NULL /\ z.id # NULL => wanted[z.id] # NULL
      BY <2>2 DEF AskCallOK
    <3> QED
      BY <3>1 DEF Adding
  <2>4. AskCallOK(W, N, y, z, F)
    BY <1>10, <2>2, <2>3 DEF AskCallOK
  <2>5. RowsTold(W, today, y, z, F)
    <3> SUFFICES ASSUME y # NULL, NEW q \in Wanted
                 PROVE  /\ y.items[q] # NULL => W[q] # NULL /\ y.items[q].due = W[q].due
                        /\ q \in F \/ (z # NULL /\ z.id = q) \/ y.items[q] = ItemIn(W, today, q)
      BY DEF RowsTold
    <3>1. /\ y.items[q] # NULL => wanted[q] # NULL /\ y.items[q].due = wanted[q].due
          /\ q \in E \/ (z # NULL /\ z.id = q) \/ y.items[q] = ItemIn(wanted, today, q)
      BY <2>2 DEF RowsTold
    <3>2. CASE q = r
      BY <2>2, <3>1, <3>2
    <3>3. CASE q # r
      <4>1. W[q] = wanted[q]
        BY <1>10, <3>3
      <4>2. ItemIn(W, today, q) = ItemIn(wanted, today, q)
        BY <4>1, Zenon DEF ItemIn
      <4> QED
        BY <2>2, <3>1, <4>1, <4>2
    <3> QED
      BY <3>2, <3>3
  <2> QED
    BY <2>1, <2>2, <2>4, <2>5
<1>21. /\ board'[t] = e /\ adding'[t] = c
       /\ \A u \in WantedTab : u # t => board'[u] = board[u] /\ adding'[u] = adding[u]
  BY <1>0, <1>14, <1>15
<1>22. ASSUME NEW u \in WantedTab
       PROVE  /\ AskCallOK(W, N, board'[u], adding'[u], dated'[u])
              /\ RowsTold(W, today, board'[u], adding'[u], dated'[u])
              /\ ToldOK(board'[u])
  <2>1. CASE u = t
    BY <1>16, <1>18, <1>19, <1>21, <2>1
  <2>2. CASE u # t
    BY <1>20, <1>21, <2>2
  <2> QED
    BY <2>1, <2>2
<1>23. ASSUME NEW q \in Wanted, W[q] # NULL, q \notin announced, q \notin unheard
       PROVE  \E u \in WantedTab : adding'[u] # NULL /\ adding'[u].id = q
  <2>1. CASE q = r
    BY <1>13, <1>21, <2>1
  <2>2. CASE q # r
    <3>1. PICK u \in WantedTab : adding[u] # NULL /\ adding[u].id = q
      BY <1>10, <1>23, <2>2 DEF DocumentRequestsInv, UnderWay
    <3>2. u # t
      BY <1>1, <1>6, <3>1, DocumentRequestsAssumption
    <3> QED
      BY <1>21, <3>1, <3>2
  <2> QED
    BY <2>1, <2>2
<1>24. today' = today /\ announced' = announced /\ unheard' = unheard
  OBVIOUS
<1>25. N = announced' \cup unheard' /\ W = wanted'
  BY <1>4, <1>9, <1>24
<1>26. \A u \in WantedTab :
         /\ AskCallOK(wanted', announced' \cup unheard', board'[u], adding'[u], dated'[u])
         /\ RowsTold(wanted', today', board'[u], adding'[u], dated'[u])
         /\ ToldOK(board'[u])
  BY <1>22, <1>24, <1>25, Zenon
<1>27. \A q \in Wanted : wanted'[q] # NULL =>
         q \in announced' \/ q \in unheard' \/ \E u \in WantedTab : adding'[u] # NULL /\ adding'[u].id = q
  BY <1>23, <1>24, <1>25
<1> QED
  BY <1>17, <1>26, <1>27 DEF DocumentRequestsInv, UnderWay

\* The INSERT is refused, or throws.
LEMMA RefusedKeeps ==
  ASSUME DocumentRequestsInv, NEW t \in WantedTab, adding[t] # NULL, adding[t].step = "insert",
         adding' = [adding EXCEPT ![t].step = "answer"],
         UNCHANGED <<wanted, today, hasLogin, announced, unheard, board, dated>>
  PROVE  DocumentRequestsInv'
<1>0. /\ board \in [WantedTab -> Board \cup {NULL}] /\ adding \in [WantedTab -> Adding \cup {NULL}]
      /\ dated \in [WantedTab -> SUBSET Wanted] /\ announced \subseteq Wanted
      /\ unheard \subseteq Wanted
  BY DEF DocumentRequestsInv, DocumentRequestsTypeOK
<1>1. PICK a \in Adding : a = adding[t]
  BY <1>0
<1>2. PICK c \in Adding : c = [a EXCEPT !.step = "answer"]
  <2>1. [a EXCEPT !.step = "answer"] \in Adding
    BY DEF Adding
  <2> QED
    BY <2>1
<1>3. c.step = "answer" /\ c.id = a.id /\ c.due = a.due
  BY <1>2 DEF Adding
<1>4. adding' = [adding EXCEPT ![t] = c]
  BY <1>1, <1>2, Zenon
<1>5. PICK b \in Board \cup {NULL} : b = board[t] /\ board' = [board EXCEPT ![t] = b]
  BY <1>0
<1>6. PICK D \in SUBSET Wanted : D = dated[t] /\ dated' = [dated EXCEPT ![t] = D]
  BY <1>0
<1>7. /\ AskCallOK(wanted, announced \cup unheard, b, a, D) /\ RowsTold(wanted, today, b, a, D)
      /\ ToldOK(b) /\ a # NULL /\ a.step = "insert"
  BY <1>1, <1>5, <1>6 DEF DocumentRequestsInv
<1>8. a.id = NULL
  BY <1>7 DEF AskCallOK
<1>9. AskCallOK(wanted, announced' \cup unheard', b, c, D)
  BY <1>3, <1>7, <1>8 DEF AskCallOK
<1>10. RowsTold(wanted, today, b, c, D)
  BY <1>3, <1>7, <1>8, DocumentRequestsAssumption DEF RowsTold
<1>11. /\ announced' \subseteq Wanted /\ unheard' \subseteq Wanted
       /\ announced \cup unheard \subseteq announced' \cup unheard'
       /\ UNCHANGED <<wanted, today, hasLogin>> /\ adding[t].id = NULL
  BY <1>0, <1>1, <1>8
<1> QED
  BY <1>4, <1>5, <1>6, <1>7, <1>9, <1>10, <1>11, EditorMoves

\* Something happens to the requests of R: an open editor is behind on them.
LEMMA AgeKeeps ==
  ASSUME DocumentRequestsInv, NEW R \in SUBSET Wanted, Age(R),
         UNCHANGED <<hasLogin, announced, unheard, board, adding>>, today' \in 0 .. MaxDay,
         NEW W \in [Wanted -> RequestRow \cup {NULL}], wanted' = W,
         \A r \in Wanted : wanted[r] = NULL <=> W[r] = NULL,
         \A r \in Wanted : wanted[r] # NULL => W[r].due = wanted[r].due,
         \A r \in Wanted \ R :
           W[r] = wanted[r] /\ ItemIn(W, today', r) = ItemIn(wanted, today, r)
  PROVE  DocumentRequestsInv'
<1>0. /\ board \in [WantedTab -> Board \cup {NULL}] /\ adding \in [WantedTab -> Adding \cup {NULL}]
      /\ dated \in [WantedTab -> SUBSET Wanted] /\ announced \subseteq Wanted
      /\ unheard \subseteq Wanted /\ hasLogin \in BOOLEAN
  BY DEF DocumentRequestsInv, DocumentRequestsTypeOK
<1>1. /\ dated' \in [WantedTab -> SUBSET Wanted]
      /\ \A u \in WantedTab : board[u] # NULL => dated'[u] = dated[u] \cup R
  BY <1>0 DEF Age
<1>2. /\ board' = board /\ adding' = adding /\ announced' = announced /\ unheard' = unheard
      /\ hasLogin' = hasLogin
  OBVIOUS
<1>3. DocumentRequestsTypeOK'
  BY <1>0, <1>1, <1>2 DEF DocumentRequestsTypeOK
<1>4. PICK N : N = announced \cup unheard
  OBVIOUS
<1>5. ASSUME NEW u \in WantedTab
      PROVE  /\ AskCallOK(W, N, board[u], adding[u], dated'[u])
             /\ RowsTold(W, today', board[u], adding[u], dated'[u])
             /\ ToldOK(board[u])
  <2>1. PICK z \in Adding \cup {NULL}, y \in Board \cup {NULL}, E \in SUBSET Wanted, F \in SUBSET Wanted :
          z = adding[u] /\ y = board[u] /\ E = dated[u] /\ F = dated'[u]
    BY <1>0, <1>1
  <2>2. /\ AskCallOK(wanted, N, y, z, E) /\ RowsTold(wanted, today, y, z, E) /\ ToldOK(y)
        /\ y # NULL => F = E \cup R
    BY <1>1, <1>4, <2>1 DEF DocumentRequestsInv
  <2>3. z # NULL /\ z.id # NULL => z.id \in Wanted
    BY DEF Adding
  <2>4. AskCallOK(W, N, y, z, F)
    <3> SUFFICES ASSUME z # NULL
                 PROVE  /\ z.step = "insert" => z.id = NULL
                        /\ z.step = "notify" => z.id # NULL
                        /\ z.id # NULL => W[z.id] # NULL /\ W[z.id].due = z.due
                        /\ z.step = "answer" /\ z.id # NULL => z.id \in N
                        /\ y # NULL => y.told = "nothing" /\ y.last = z.id
                        /\ y # NULL /\ z.id # NULL /\ z.id \notin F => ~W[z.id].fulfilled
      BY DEF AskCallOK
    <3>1. /\ z.step = "insert" => z.id = NULL
          /\ z.step = "notify" => z.id # NULL
          /\ z.id # NULL => wanted[z.id] # NULL /\ wanted[z.id].due = z.due
          /\ z.step = "answer" /\ z.id # NULL => z.id \in N
          /\ y # NULL => y.told = "nothing" /\ y.last = z.id
          /\ y # NULL /\ z.id # NULL /\ z.id \notin E => ~wanted[z.id].fulfilled
      BY <2>2 DEF AskCallOK
    <3>2. z.id # NULL => W[z.id] # NULL /\ W[z.id].due = z.due
      BY <2>3, <3>1
    <3>3. y # NULL /\ z.id # NULL /\ z.id \notin F => ~W[z.id].fulfilled
      BY <2>2, <2>3, <3>1
    <3> QED
      BY <3>1, <3>2, <3>3
  <2>5. RowsTold(W, today', y, z, F)
    <3> SUFFICES ASSUME y # NULL, NEW q \in Wanted
                 PROVE  /\ y.items[q] # NULL => W[q] # NULL /\ y.items[q].due = W[q].due
                        /\ q \in F \/ (z # NULL /\ z.id = q) \/ y.items[q] = ItemIn(W, today', q)
      BY DEF RowsTold
    <3>1. /\ y.items[q] # NULL => wanted[q] # NULL /\ y.items[q].due = wanted[q].due
          /\ q \in E \/ (z # NULL /\ z.id = q) \/ y.items[q] = ItemIn(wanted, today, q)
      BY <2>2 DEF RowsTold
    <3> QED
      BY <2>2, <3>1
  <2> QED
    BY <2>1, <2>2, <2>4, <2>5
<1>6. \A r \in Wanted : W[r] # NULL => r \in announced \/ r \in unheard \/ \E t \in WantedTab : UnderWay(t, r)
  BY DEF DocumentRequestsInv
<1> QED
  BY <1>2, <1>3, <1>4, <1>5, <1>6 DEF DocumentRequestsInv, UnderWay

LEMMA FulfilmentKeeps ==
  ASSUME DocumentRequestsInv, NEW r \in Wanted, ChangeFulfilment(r)
  PROVE  DocumentRequestsInv'
<1>0. wanted \in [Wanted -> RequestRow \cup {NULL}] /\ today \in 0 .. MaxDay
  BY DEF DocumentRequestsInv, DocumentRequestsTypeOK
<1>1. /\ wanted[r] # NULL /\ wanted' = [wanted EXCEPT ![r].fulfilled = ~@] /\ Age({r})
      /\ UNCHANGED <<hasLogin, announced, unheard, board, adding>> /\ today' = today
  BY DEF ChangeFulfilment
<1>2. PICK v \in RequestRow : v = wanted[r]
  BY <1>0, <1>1
<1>3. PICK f \in BOOLEAN : f = ~v.fulfilled
  OBVIOUS
<1>4. PICK w \in RequestRow : w = [v EXCEPT !.fulfilled = f]
  <2>1. [v EXCEPT !.fulfilled = f] \in RequestRow
    BY DEF RequestRow
  <2> QED
    BY <2>1
<1>5. w.due = v.due /\ w # NULL
  BY <1>4, NoRowAssumption DEF RequestRow
<1>6. wanted' = [wanted EXCEPT ![r] = w]
  BY <1>1, <1>2, <1>3, <1>4, Zenon
<1>7. PICK W \in [Wanted -> RequestRow \cup {NULL}] : W = [wanted EXCEPT ![r] = w]
  BY <1>0
<1>8. W[r] = w /\ \A q \in Wanted : q # r => W[q] = wanted[q]
  BY <1>0, <1>7
<1>9. \A q \in Wanted \ {r} : ItemIn(W, today, q) = ItemIn(wanted, today, q)
  BY <1>8 DEF ItemIn
<1>10. wanted' = W /\ today' \in 0 .. MaxDay /\ {r} \in SUBSET Wanted
  BY <1>0, <1>1, <1>6, <1>7
<1>11. /\ \A q \in Wanted : wanted[q] = NULL <=> W[q] = NULL
       /\ \A q \in Wanted : wanted[q] # NULL => W[q].due = wanted[q].due
       /\ \A q \in Wanted \ {r} :
            W[q] = wanted[q] /\ ItemIn(W, today', q) = ItemIn(wanted, today, q)
  BY <1>1, <1>2, <1>5, <1>8, <1>9
<1> QED
  BY <1>1, <1>10, <1>11, AgeKeeps

LEMMA DayKeeps ==
  ASSUME DocumentRequestsInv, NextDay
  PROVE  DocumentRequestsInv'
<1>0. wanted \in [Wanted -> RequestRow \cup {NULL}] /\ today \in 0 .. MaxDay
  BY DEF DocumentRequestsInv, DocumentRequestsTypeOK
<1>1. /\ today < MaxDay /\ today' = today + 1 /\ wanted' = wanted
      /\ Age({r \in Wanted : wanted[r] # NULL /\ wanted[r].due = today})
      /\ UNCHANGED <<hasLogin, announced, unheard, board, adding>>
  BY DEF NextDay
<1>2. PICK R \in SUBSET Wanted : R = {r \in Wanted : wanted[r] # NULL /\ wanted[r].due = today}
  OBVIOUS
<1>3. today' \in 0 .. MaxDay
  BY <1>0, <1>1, DocumentRequestsAssumption
<1>4. ASSUME NEW r \in Wanted \ R
      PROVE  ItemIn(wanted, today', r) = ItemIn(wanted, today, r)
  <2>1. CASE wanted[r] = NULL
    BY <2>1 DEF ItemIn
  <2>2. CASE wanted[r] # NULL
    <3>1. wanted[r].due # today /\ wanted[r].due \in Due
      BY <1>0, <1>2, <2>2 DEF RequestRow
    <3>2. wanted[r].due # NULL => (wanted[r].due < today + 1 <=> wanted[r].due < today)
      BY <1>0, <3>1 DEF Due
    <3>3. Overdue(wanted[r], today') = Overdue(wanted[r], today)
      BY <1>1, <3>2 DEF Overdue
    <3> QED
      BY <2>2, <3>3, Zenon DEF ItemIn
  <2> QED
    BY <2>1, <2>2
<1>5. Age(R)
  BY <1>1, <1>2, Zenon
<1> QED
  BY <1>0, <1>1, <1>3, <1>4, <1>5, AgeKeeps

LEMMA DocumentRequestsStep ==
  DocumentRequestsInv /\ [DocumentRequestsNext]_documentRequestsVars => DocumentRequestsInv'
<1> SUFFICES ASSUME DocumentRequestsInv, [DocumentRequestsNext]_documentRequestsVars
             PROVE  DocumentRequestsInv'
  OBVIOUS
<1>1. CASE LinkClientUser \/ UNCHANGED documentRequestsVars
  <2>1. /\ wanted' = wanted /\ today' = today /\ announced' = announced /\ unheard' = unheard
        /\ board' = board /\ adding' = adding /\ dated' = dated
        /\ hasLogin' = hasLogin \/ hasLogin' = TRUE
    BY <1>1 DEF LinkClientUser, documentRequestsVars
  <2>2. DocumentRequestsTypeOK'
    BY <2>1 DEF DocumentRequestsInv, DocumentRequestsTypeOK
  <2> QED
    BY <2>1, <2>2 DEF DocumentRequestsInv, UnderWay
<1>2. ASSUME NEW t \in WantedTab, createDocumentRequestAction(t)
      PROVE  DocumentRequestsInv'
  <2>1. /\ adding[t] # NULL /\ adding[t].step = "insert"
        /\ UNCHANGED <<today, hasLogin, announced, unheard>>
    BY <1>2 DEF createDocumentRequestAction
  <2>2. CASE /\ adding' = [adding EXCEPT ![t].step = "answer"]
             /\ UNCHANGED <<wanted, board, dated>>
    BY <2>1, <2>2, RefusedKeeps
  <2>3. ASSUME NEW r \in Wanted, wanted[r] = NULL,
               wanted' = [wanted EXCEPT ![r] = [due |-> adding[t].due, fulfilled |-> FALSE]],
               adding' = [adding EXCEPT ![t].step = "notify", ![t].id = r],
               board' = IF board[t] = NULL THEN board ELSE [board EXCEPT ![t].last = r],
               dated' = [u \in WantedTab |->
                           IF u = t \/ board[u] = NULL THEN dated[u] ELSE dated[u] \cup {r}]
        PROVE  DocumentRequestsInv'
    BY <2>1, <2>3, RequestInserted
  <2> QED
    BY <1>2, <2>2, <2>3 DEF createDocumentRequestAction
<1> QED
  BY <1>1, <1>2, FulfilmentKeeps, DayKeeps, EditorPageKeeps, AddKeeps, NotifyKeeps, ShowKeeps, FailsKeep,
     Zenon DEF DocumentRequestsNext

-----------------------------------------------------------------------------
(***************************************************************************)
(* The reminders.  A run that crosses no other is alone, so that what it   *)
(* has read of the watermarks is still so; and the watermark of an item is *)
(* when it was last raised, except while the run that has raised it is     *)
(* about to write it.                                                      *)
(***************************************************************************)
Marking(i) == \E p \in Engine : engine[p] # NULL /\ engine[p].step = "mark" /\ engine[p].item = i

ListOK(r) ==
  /\ \A x \in r.todo, y \in r.todo : x.item = y.item => x = y
  /\ r.step = "mark" => r.item # NULL
  /\ r.step \in {"requests", "engagements"} => r.todo = {}
  /\ r.step = "requests" => r.default # NULL

\* What a run is about to mark it has raised itself.
JustRaised ==
  \A p \in Engine : engine[p] # NULL /\ engine[p].step = "mark" /\ p \notin crossing =>
    raisedAt[engine[p].item] = engine[p].now

RemindersInv ==
  /\ RemindersTypeOK
  /\ \A p \in Engine : engine[p] # NULL => ListOK(engine[p])
  /\ \A p \in Engine, q \in Engine :
       engine[p] # NULL /\ engine[q] # NULL /\ p # q => p \in crossing
  /\ \A i \in Item : i \in tainted \/ watermark[i] = raisedAt[i] \/ Marking(i)
  /\ JustRaised
  /\ RemindersSpaced

LEMMA RemindersInitInv == RemindersInit => RemindersInv
<1> SUFFICES ASSUME RemindersInit PROVE RemindersInv
  OBVIOUS
<1>1. /\ time = 0 /\ frequency = DefaultDays /\ override = [i \in DocumentRequest |-> NULL]
      /\ watermark = [i \in Item |-> NULL] /\ engine = [p \in Engine |-> NULL]
      /\ engineStarts = 0 /\ raisedAt = [i \in Item |-> NULL] /\ crossing = {} /\ tainted = {}
  BY DEF RemindersInit
<1>2. RemindersTypeOK
  BY <1>1, RemindersAssumption DEF RemindersTypeOK, Time
<1> QED
  BY <1>1, <1>2 DEF RemindersInv, RemindersSpaced, JustRaised, EngineRuns

\* A step that leaves the runs alone, and what they have raised.
LEMMA SettingsKeep ==
  ASSUME RemindersInv, RemindersTypeOK',
         UNCHANGED <<watermark, engine, raisedAt, crossing, tainted>>
  PROVE  RemindersInv'
BY Zenon DEF RemindersInv, RemindersSpaced, JustRaised, Marking, EngineRuns

\* A run that is alone on its list, or that crosses another.
LEMMA RunMoves ==
  ASSUME RemindersInv, RemindersTypeOK', NEW p \in Engine, NEW r \in EngineRun,
         engine[p] # NULL, engine' = [engine EXCEPT ![p] = r], ListOK(r), crossing' = crossing,
         \A i \in Item : i \in tainted' \/ watermark'[i] = raisedAt'[i]
                         
                         \/ (r.step = "mark" /\ r.item = i)
                         \/ (Marking(i) /\ ~(engine[p].step = "mark" /\ engine[p].item = i)),
         p \notin crossing /\ r.step = "mark" => raisedAt'[r.item] = r.now,
         p \notin crossing => \A x \in r.todo :
           x.item \notin tainted' => SpacedFrom(raisedAt'[x.item], r.now, x.days)
  PROVE  RemindersInv'
<1>1. /\ engine' \in [Engine -> EngineRun \cup {NULL}] /\ engine'[p] = r /\ r # NULL
      /\ \A q \in Engine \ {p} : engine'[q] = engine[q]
  BY NoRunAssumption DEF RemindersInv, RemindersTypeOK
<1>2. \A q \in Engine : engine'[q] # NULL => ListOK(engine'[q])
  BY <1>1, Zenon DEF RemindersInv
<1>3. \A q \in Engine, s \in Engine :
        engine'[q] # NULL /\ engine'[s] # NULL /\ q # s => q \in crossing'
  BY <1>1, Zenon DEF RemindersInv
<1>4. ASSUME NEW i \in Item PROVE i \in tainted' \/ watermark'[i] = raisedAt'[i] \/ Marking(i)'
  <2>1. CASE r.step = "mark" /\ r.item = i
    BY <1>1, <2>1, Zenon DEF Marking
  <2>2. CASE Marking(i) /\ ~(engine[p].step = "mark" /\ engine[p].item = i)
    <3>1. PICK q \in Engine : engine[q] # NULL /\ engine[q].step = "mark" /\ engine[q].item = i
      BY <2>2, Zenon DEF Marking
    <3>2. q # p
      BY <2>2, <3>1
    <3> QED
      BY <1>1, <3>1, <3>2, Zenon DEF Marking
  <2> QED
    BY <2>1, <2>2, Zenon
<1>5. RemindersSpaced'
  <2> SUFFICES ASSUME NEW q \in Engine, engine'[q] # NULL, q \notin crossing, NEW x \in engine'[q].todo,
                      x.item \notin tainted'
               PROVE  SpacedFrom(raisedAt'[x.item], engine'[q].now, x.days)
    BY Zenon DEF RemindersSpaced, EngineRuns
  <2>1. q = p
    BY <1>1, Zenon DEF RemindersInv
  <2> QED
    BY <1>1, <2>1, Zenon
<1>6. JustRaised'
  <2> SUFFICES ASSUME NEW q \in Engine, engine'[q] # NULL, engine'[q].step = "mark", q \notin crossing
               PROVE  raisedAt'[engine'[q].item] = engine'[q].now
    BY Zenon DEF JustRaised
  <2>1. q = p
    BY <1>1, Zenon DEF RemindersInv
  <2> QED
    BY <1>1, <2>1, Zenon
<1> QED
  BY <1>2, <1>3, <1>4, <1>5, <1>6, Zenon DEF RemindersInv

\* A run ends, and what it has raised without a watermark is tainted.
LEMMA RunEnds ==
  ASSUME RemindersInv, NEW p \in Engine, EngineRuns(p), EndRun(p), tainted \subseteq tainted',
         tainted' \subseteq Item,
         \A i \in Item : engine[p].step = "mark" /\ engine[p].item = i => i \in tainted',
         UNCHANGED <<time, frequency, override, watermark, engineStarts, raisedAt>>
  PROVE  RemindersInv'
<1>1. /\ engine' \in [Engine -> EngineRun \cup {NULL}] /\ engine'[p] = NULL
      /\ \A q \in Engine \ {p} : engine'[q] = engine[q]
      /\ crossing' = crossing \ {p}
  BY DEF RemindersInv, RemindersTypeOK, EndRun
<1>2. RemindersTypeOK'
  BY <1>1, Zenon DEF RemindersInv, RemindersTypeOK
<1>3. ASSUME NEW i \in Item PROVE i \in tainted' \/ watermark'[i] = raisedAt'[i] \/ Marking(i)'
  <2>1. CASE Marking(i)
    <3>1. PICK q \in Engine : engine[q] # NULL /\ engine[q].step = "mark" /\ engine[q].item = i
      BY <2>1, Zenon DEF Marking
    <3> QED
      BY <1>1, <3>1, Zenon DEF Marking
  <2> QED
    BY <2>1 DEF RemindersInv
<1>4. RemindersSpaced'
  <2> SUFFICES ASSUME NEW q \in Engine, engine'[q] # NULL, q \notin crossing', NEW x \in engine'[q].todo,
                      x.item \notin tainted'
               PROVE  SpacedFrom(raisedAt'[x.item], engine'[q].now, x.days)
    BY Zenon DEF RemindersSpaced, EngineRuns
  <2>1. q # p /\ engine'[q] = engine[q] /\ q \notin crossing
    BY <1>1
  <2>2. SpacedFrom(raisedAt[x.item], engine[q].now, x.days)
    BY <2>1, Zenon DEF RemindersInv, RemindersSpaced, EngineRuns
  <2>3. raisedAt' = raisedAt
    OBVIOUS
  <2> QED
    BY <2>1, <2>2, <2>3, Zenon
<1>5. JustRaised'
  <2> SUFFICES ASSUME NEW q \in Engine, engine'[q] # NULL, engine'[q].step = "mark", q \notin crossing'
               PROVE  raisedAt'[engine'[q].item] = engine'[q].now
    BY Zenon DEF JustRaised
  <2>1. q # p /\ engine'[q] = engine[q] /\ q \notin crossing
    BY <1>1
  <2>2. raisedAt[engine[q].item] = engine[q].now
    BY <2>1, Zenon DEF RemindersInv, JustRaised
  <2>3. raisedAt' = raisedAt
    OBVIOUS
  <2> QED
    BY <2>1, <2>2, <2>3, Zenon
<1> QED
  BY <1>1, <1>2, <1>3, <1>4, <1>5, Zenon DEF RemindersInv

LEMMA StartKeeps ==
  ASSUME RemindersInv, NEW p \in Engine, StartEngine(p)
  PROVE  RemindersInv'
<1>0. /\ engine[p] = NULL
      /\ engineStarts' = engineStarts + 1 /\ engineStarts < MaxEngineRuns
      /\ engine' = [engine EXCEPT ![p] = [now |-> time, default |-> frequency,
                                          step |-> "requests", todo |-> {}, item |-> NULL]]
      /\ crossing' = IF \A q \in Engine : engine[q] = NULL THEN crossing
                     ELSE crossing \cup {q \in Engine : engine[q] # NULL} \cup {p}
      /\ UNCHANGED <<time, frequency, override, watermark, raisedAt, tainted>>
  BY DEF StartEngine, EngineRuns
<1>1. PICK r \in EngineRun : r = [now |-> time, default |-> frequency, step |-> "requests",
                                  todo |-> {}, item |-> NULL]
  BY DEF RemindersInv, RemindersTypeOK, EngineRun
<1>2. /\ engine' \in [Engine -> EngineRun \cup {NULL}] /\ engine'[p] = r /\ r # NULL
      /\ \A q \in Engine \ {p} : engine'[q] = engine[q]
  BY <1>0, <1>1, NoRunAssumption DEF RemindersInv, RemindersTypeOK
<1>3. r.todo = {} /\ r.step = "requests" /\ r.default # NULL
  BY <1>1, RemindersAssumption DEF RemindersInv, RemindersTypeOK
<1>4. RemindersTypeOK'
  <2>1. engineStarts' \in 0 .. MaxEngineRuns
    BY <1>0, RemindersAssumption DEF RemindersInv, RemindersTypeOK
  <2>2. crossing' \subseteq Engine
    BY <1>0 DEF RemindersInv, RemindersTypeOK
  <2> QED
    BY <1>0, <1>2, <2>1, <2>2, Zenon DEF RemindersInv, RemindersTypeOK
<1>5. ListOK(r)
  BY <1>3 DEF ListOK
<1>6. \A q \in Engine : engine'[q] # NULL => ListOK(engine'[q])
  BY <1>2, <1>5, Zenon DEF RemindersInv
<1>7. \A q \in Engine, s \in Engine :
        engine'[q] # NULL /\ engine'[s] # NULL /\ q # s => q \in crossing'
  BY <1>0, <1>2 DEF RemindersInv
<1>8. ASSUME NEW i \in Item PROVE i \in tainted' \/ watermark'[i] = raisedAt'[i] \/ Marking(i)'
  <2>1. CASE Marking(i)
    <3>1. PICK q \in Engine : engine[q] # NULL /\ engine[q].step = "mark" /\ engine[q].item = i
      BY <2>1, Zenon DEF Marking
    <3>2. q # p
      BY <1>0, <3>1
    <3> QED
      BY <1>2, <3>1, <3>2, Zenon DEF Marking
  <2> QED
    BY <1>0, <2>1 DEF RemindersInv
<1>9. RemindersSpaced'
  <2> SUFFICES ASSUME NEW q \in Engine, engine'[q] # NULL, q \notin crossing', NEW x \in engine'[q].todo,
                      x.item \notin tainted'
               PROVE  SpacedFrom(raisedAt'[x.item], engine'[q].now, x.days)
    BY Zenon DEF RemindersSpaced, EngineRuns
  <2>1. q # p
    BY <1>2, <1>3
  <2>2. q \in crossing'
    BY <1>2, <1>7, <2>1
  <2> QED
    BY <2>2
<1>10. JustRaised'
  <2> SUFFICES ASSUME NEW q \in Engine, engine'[q] # NULL, engine'[q].step = "mark", q \notin crossing'
               PROVE  FALSE
    BY Zenon DEF JustRaised
  <2>1. q # p
    BY <1>2, <1>3
  <2> QED
    BY <1>2, <1>7, <2>1
<1> QED
  BY <1>4, <1>6, <1>7, <1>8, <1>9, <1>10, Zenon DEF RemindersInv

LEMMA SelectOverdueKeeps ==
  ASSUME RemindersInv, NEW p \in Engine, SelectOverdue(p)
  PROVE  RemindersInv'
<1>0. /\ engine[p] # NULL /\ engine[p].step = "requests"
      /\ UNCHANGED <<time, frequency, override, watermark, engineStarts, raisedAt, crossing, tainted>>
  BY DEF SelectOverdue, EngineRuns
<1>1. PICK h \in EngineRun : h = engine[p]
  BY <1>0 DEF RemindersInv, RemindersTypeOK
<1>2. PICK S \in SUBSET DocumentRequest : engine' = [engine EXCEPT
             ![p].step = "emit",
             ![p].todo = {[item |-> i, days |-> resolveReminderCadence(i, engine[p].default)] :
                            i \in {j \in S : shouldRaiseReminder(engine[p].now, watermark[j],
                                     resolveReminderCadence(j, engine[p].default))}}]
  BY DEF SelectOverdue
<1>3. PICK T : T = {[item |-> i, days |-> resolveReminderCadence(i, h.default)] :
                     i \in {j \in S : shouldRaiseReminder(h.now, watermark[j],
                                     resolveReminderCadence(j, h.default))}}
  OBVIOUS
<1>4. \A x \in T : /\ x \in ToRaise /\ x.item \in DocumentRequest
                   /\ x = [item |-> x.item, days |-> resolveReminderCadence(x.item, h.default)]
                   /\ shouldRaiseReminder(h.now, watermark[x.item], x.days)
  <2> SUFFICES ASSUME NEW i \in S,
                      shouldRaiseReminder(h.now, watermark[i], resolveReminderCadence(i, h.default)),
                      NEW x, x = [item |-> i, days |-> resolveReminderCadence(i, h.default)]
               PROVE  /\ x \in ToRaise /\ x.item \in DocumentRequest
                      /\ x = [item |-> x.item, days |-> resolveReminderCadence(x.item, h.default)]
                      /\ shouldRaiseReminder(h.now, watermark[x.item], x.days)
    BY <1>3
  <2>1. i \in Item /\ i \in DocumentRequest
    BY DEF Item
  <2>2. resolveReminderCadence(i, h.default) \in Interval \cup {NULL}
    BY <1>1, <2>1 DEF resolveReminderCadence, EngineRun, RemindersInv, RemindersTypeOK
  <2>3. x.item = i /\ x.days = resolveReminderCadence(i, h.default)
    OBVIOUS
  <2> QED
    BY <2>1, <2>2, <2>3 DEF ToRaise
<1>5. h.default \in Interval /\ h.step = "requests"
  BY <1>0, <1>1 DEF RemindersInv, ListOK, EngineRun
<1>6. \A x \in T : x.days # NULL
  <2> SUFFICES ASSUME NEW x \in T PROVE x.days # NULL
    OBVIOUS
  <2>1. x.days = resolveReminderCadence(x.item, h.default) /\ x.item \in DocumentRequest
    BY <1>4
  <2>2. h.default # NULL
    BY <1>5, RemindersAssumption
  <2> QED
    BY <2>1, <2>2 DEF resolveReminderCadence
<1>7. PICK r \in EngineRun : r = [h EXCEPT !.step = "emit", !.todo = T]
  <2>1. T \in SUBSET ToRaise
    BY <1>4
  <2> QED
    BY <2>1 DEF EngineRun
<1>8. r.step = "emit" /\ r.todo = T /\ r.now = h.now
  BY <1>7 DEF EngineRun
<1>9. engine' = [engine EXCEPT ![p] = r]
  <2>1. engine' = [engine EXCEPT ![p].step = "emit", ![p].todo = T]
    BY <1>1, <1>2, <1>3, Zenon
  <2>2. PICK B : B = [engine EXCEPT ![p].step = "emit"]
    OBVIOUS
  <2>3. PICK g \in EngineRun : g = [h EXCEPT !.step = "emit"]
    BY DEF EngineRun
  <2>4. B = [engine EXCEPT ![p] = g]
    BY <1>1, <2>2, <2>3, Zenon
  <2>5. B[p] = g
    BY <2>4 DEF RemindersInv, RemindersTypeOK
  <2>6. engine' = [B EXCEPT ![p].todo = T]
    BY <2>1, <2>2, Zenon
  <2>7. [g EXCEPT !.todo = T] = r
    BY <1>7, <2>3 DEF EngineRun
  <2>8. engine' = [B EXCEPT ![p] = r]
    BY <2>5, <2>6, <2>7, Zenon
  <2> QED
    BY <2>4, <2>8 DEF RemindersInv, RemindersTypeOK
<1>10. ListOK(r)
  <2>1. \A x \in T, y \in T : x.item = y.item => x = y
    BY <1>4, Zenon
  <2> QED
    BY <1>8, <2>1 DEF ListOK
<1>11. RemindersTypeOK'
  <2>1. engine' \in [Engine -> EngineRun \cup {NULL}]
    BY <1>9 DEF RemindersInv, RemindersTypeOK
  <2> QED
    BY <1>0, <2>1, Zenon DEF RemindersInv, RemindersTypeOK
<1>12. ASSUME NEW i \in Item
       PROVE  \/ i \in tainted' \/ watermark'[i] = raisedAt'[i]
              \/ r.step = "mark" /\ r.item = i
              \/ Marking(i) /\ ~(engine[p].step = "mark" /\ engine[p].item = i)
  BY <1>0 DEF RemindersInv
<1>13. ASSUME p \notin crossing, NEW x \in r.todo, x.item \notin tainted'
       PROVE  SpacedFrom(raisedAt'[x.item], r.now, x.days)
  <2>1. x.item \in Item /\ x \in T
    BY <1>4, <1>8, <1>13 DEF Item
  <2>2. ~Marking(x.item)
    BY <1>0, <1>13 DEF Marking, RemindersInv
  <2>3. watermark[x.item] = raisedAt'[x.item]
    BY <1>0, <1>13, <2>1, <2>2, Zenon DEF RemindersInv
  <2>4. shouldRaiseReminder(h.now, watermark[x.item], x.days) /\ x.days # NULL
    BY <1>4, <1>6, <2>1
  <2> QED
    BY <1>8, <2>3, <2>4 DEF shouldRaiseReminder, SpacedFrom
<1> QED
  BY <1>0, <1>8, <1>9, <1>10, <1>11, <1>12, <1>13, RunMoves

LEMMA SelectApproachingKeeps ==
  ASSUME RemindersInv, NEW p \in Engine, SelectApproaching(p)
  PROVE  RemindersInv'
<1>0. /\ engine[p] # NULL /\ engine[p].step = "engagements"
      /\ UNCHANGED <<time, frequency, override, watermark, engineStarts, raisedAt, crossing, tainted>>
  BY DEF SelectApproaching, EngineRuns
<1>1. PICK h \in EngineRun : h = engine[p]
  BY <1>0 DEF RemindersInv, RemindersTypeOK
<1>2. PICK S \in SUBSET DueEngagement : engine' = [engine EXCEPT
             ![p].step = "emit",
             ![p].default = NULL,
             ![p].todo = {[item |-> e, days |-> NULL] :
                            e \in {g \in S : \/ watermark[g] = NULL
                                             \/ DayOf(watermark[g]) < DayOf(engine[p].now)}}]
  BY DEF SelectApproaching
<1>3. PICK T : T = {[item |-> e, days |-> NULL] :
                     e \in {g \in S : \/ watermark[g] = NULL
                                      \/ DayOf(watermark[g]) < DayOf(h.now)}}
  OBVIOUS
<1>4. \A x \in T : /\ x \in ToRaise
                   /\ x = [item |-> x.item, days |-> NULL]
                   /\ x.days = NULL
                   /\ \/ watermark[x.item] = NULL
                      \/ DayOf(watermark[x.item]) < DayOf(h.now)
  <2> SUFFICES ASSUME NEW e \in S, watermark[e] = NULL \/ DayOf(watermark[e]) < DayOf(h.now),
                      NEW x, x = [item |-> e, days |-> NULL]
               PROVE  /\ x \in ToRaise
                      /\ x = [item |-> x.item, days |-> NULL]
                      /\ x.days = NULL
                      /\ \/ watermark[x.item] = NULL
                         \/ DayOf(watermark[x.item]) < DayOf(h.now)
    BY <1>3
  <2>1. e \in Item /\ NULL \in Interval \cup {NULL}
    BY DEF Item
  <2>2. x.item = e /\ x.days = NULL
    OBVIOUS
  <2> QED
    BY <2>1, <2>2 DEF ToRaise
<1>7. PICK r \in EngineRun : r = [h EXCEPT !.step = "emit", !.default = NULL, !.todo = T]
  <2>1. T \in SUBSET ToRaise
    BY <1>4
  <2> QED
    BY <2>1 DEF EngineRun
<1>8. r.step = "emit" /\ r.todo = T /\ r.now = h.now
  BY <1>7 DEF EngineRun
<1>9. engine' = [engine EXCEPT ![p] = r]
  <2>1. engine' = [engine EXCEPT ![p].step = "emit", ![p].default = NULL, ![p].todo = T]
    BY <1>1, <1>2, <1>3, Zenon
  <2>2. PICK B : B = [engine EXCEPT ![p].step = "emit"]
    OBVIOUS
  <2>3. PICK g \in EngineRun : g = [h EXCEPT !.step = "emit"]
    BY DEF EngineRun
  <2>4. B = [engine EXCEPT ![p] = g] /\ B[p] = g
    <3>1. B = [engine EXCEPT ![p] = g]
      BY <1>1, <2>2, <2>3, Zenon
    <3> QED
      BY <3>1 DEF RemindersInv, RemindersTypeOK
  <2>5. PICK C : C = [B EXCEPT ![p].default = NULL]
    OBVIOUS
  <2>6. PICK k \in EngineRun : k = [g EXCEPT !.default = NULL]
    <3>1. NULL \in Interval \cup {NULL}
      OBVIOUS
    <3> QED
      BY <3>1 DEF EngineRun
  <2>7. C = [B EXCEPT ![p] = k]
    BY <2>4, <2>5, <2>6, Zenon
  <2>8. C = [engine EXCEPT ![p] = k] /\ C[p] = k
    BY <2>4, <2>7 DEF RemindersInv, RemindersTypeOK
  <2>9. engine' = [C EXCEPT ![p].todo = T]
    BY <2>1, <2>2, <2>5, Zenon
  <2>10. [k EXCEPT !.todo = T] = r
    BY <1>7, <2>3, <2>6 DEF EngineRun
  <2>11. engine' = [C EXCEPT ![p] = r]
    BY <2>8, <2>9, <2>10, Zenon
  <2> QED
    BY <2>8, <2>11 DEF RemindersInv, RemindersTypeOK
<1>10. ListOK(r)
  <2>1. \A x \in T, y \in T : x.item = y.item => x = y
    BY <1>4, Zenon
  <2> QED
    BY <1>8, <2>1 DEF ListOK
<1>11. RemindersTypeOK'
  <2>1. engine' \in [Engine -> EngineRun \cup {NULL}]
    BY <1>9 DEF RemindersInv, RemindersTypeOK
  <2> QED
    BY <1>0, <2>1, Zenon DEF RemindersInv, RemindersTypeOK
<1>12. ASSUME NEW i \in Item
       PROVE  \/ i \in tainted' \/ watermark'[i] = raisedAt'[i]
              \/ r.step = "mark" /\ r.item = i
              \/ Marking(i) /\ ~(engine[p].step = "mark" /\ engine[p].item = i)
  BY <1>0 DEF RemindersInv
<1>13. ASSUME p \notin crossing, NEW x \in r.todo, x.item \notin tainted'
       PROVE  SpacedFrom(raisedAt'[x.item], r.now, x.days)
  <2>1. x.item \in Item /\ x \in T
    BY <1>4, <1>8, <1>13 DEF ToRaise
  <2>2. ~Marking(x.item)
    BY <1>0, <1>13 DEF Marking, RemindersInv
  <2>3. watermark[x.item] = raisedAt'[x.item] /\ watermark[x.item] \in Time \cup {NULL}
    BY <1>0, <1>13, <2>1, <2>2 DEF RemindersInv, RemindersTypeOK
  <2>4. x.days = NULL /\ (watermark[x.item] = NULL \/ DayOf(watermark[x.item]) < DayOf(h.now))
    BY <1>4, <2>1
  <2>5. h.now \in Time
    BY DEF EngineRun
  <2>6. \A a \in Time : DayOf(a) \in Int
    BY RemindersAssumption DEF DayOf, Time
  <2>7. watermark[x.item] = NULL \/ DayOf(h.now) > DayOf(watermark[x.item])
    BY <2>3, <2>4, <2>5, <2>6
  <2> QED
    BY <1>8, <2>3, <2>4, <2>7 DEF SpacedFrom
<1> QED
  BY <1>0, <1>8, <1>9, <1>10, <1>11, <1>12, <1>13, RunMoves

\* A reminder that cannot be raised leaves the list.
LEMMA SkipKeeps ==
  ASSUME RemindersInv, NEW p \in Engine, engine[p] # NULL, engine[p].step = "emit",
         NEW x \in engine[p].todo, engine' = [engine EXCEPT ![p].todo = @ \ {x}],
         UNCHANGED <<time, frequency, override, watermark, engineStarts, raisedAt, crossing, tainted>>
  PROVE  RemindersInv'
<1>1. PICK h \in EngineRun : h = engine[p]
  BY DEF RemindersInv, RemindersTypeOK
<1>2. PICK r \in EngineRun : r = [h EXCEPT !.todo = @ \ {x}]
  BY DEF EngineRun
<1>3. r.step = "emit" /\ r.todo = h.todo \ {x} /\ r.now = h.now
  BY <1>1, <1>2 DEF EngineRun
<1>4. engine' = [engine EXCEPT ![p] = r]
  BY <1>1, <1>2, Zenon
<1>5. ListOK(r)
  BY <1>1, <1>3 DEF RemindersInv, ListOK
<1>6. RemindersTypeOK'
  <2>1. engine' \in [Engine -> EngineRun \cup {NULL}]
    BY <1>4 DEF RemindersInv, RemindersTypeOK
  <2> QED
    BY <2>1, Zenon DEF RemindersInv, RemindersTypeOK
<1>7. ASSUME NEW i \in Item
      PROVE  \/ i \in tainted' \/ watermark'[i] = raisedAt'[i]
             \/ r.step = "mark" /\ r.item = i
             \/ Marking(i) /\ ~(engine[p].step = "mark" /\ engine[p].item = i)
  BY DEF RemindersInv
<1>8. ASSUME p \notin crossing, NEW y \in r.todo, y.item \notin tainted'
      PROVE  SpacedFrom(raisedAt'[y.item], r.now, y.days)
  <2>1. SpacedFrom(raisedAt[y.item], h.now, y.days)
    BY <1>1, <1>3, <1>8 DEF RemindersInv, RemindersSpaced, EngineRuns
  <2>2. raisedAt' = raisedAt
    OBVIOUS
  <2> QED
    BY <1>3, <2>1, <2>2, Zenon
<1> QED
  BY <1>3, <1>4, <1>5, <1>6, <1>7, <1>8, RunMoves

LEMMA RaiseKeeps ==
  ASSUME RemindersInv, NEW p \in Engine, engine[p] # NULL, engine[p].step = "emit",
         NEW x \in engine[p].todo,
         engine' = [engine EXCEPT ![p].step = "mark", ![p].todo = @ \ {x}, ![p].item = x.item],
         raisedAt' = [raisedAt EXCEPT ![x.item] = engine[p].now],
         tainted' = IF p \in crossing THEN tainted \cup {x.item} ELSE tainted \ {x.item},
         UNCHANGED <<time, frequency, override, watermark, engineStarts, crossing>>
  PROVE  RemindersInv'
<1>1. PICK h \in EngineRun : h = engine[p]
  BY DEF RemindersInv, RemindersTypeOK
<1>2. PICK g \in EngineRun : g = [h EXCEPT !.step = "mark"]
  BY DEF EngineRun
<1>3. PICK k \in EngineRun : k = [g EXCEPT !.todo = @ \ {x}]
  BY DEF EngineRun
<1>4. x \in ToRaise /\ x.item \in Item
  BY <1>1 DEF EngineRun, ToRaise
<1>5. PICK r \in EngineRun : r = [k EXCEPT !.item = x.item]
  BY <1>4 DEF EngineRun
<1>6. r.step = "mark" /\ r.todo = h.todo \ {x} /\ r.now = h.now /\ r.item = x.item
  BY <1>2, <1>3, <1>5 DEF EngineRun
<1>7. engine' = [engine EXCEPT ![p] = r]
  <2>1. PICK B : B = [engine EXCEPT ![p].step = "mark"]
    OBVIOUS
  <2>2. B = [engine EXCEPT ![p] = g]
    BY <1>1, <1>2, <2>1, Zenon
  <2>3. B[p] = g
    BY <2>2 DEF RemindersInv, RemindersTypeOK
  <2>4. PICK C : C = [B EXCEPT ![p].todo = @ \ {x}]
    OBVIOUS
  <2>5. C = [B EXCEPT ![p] = k]
    BY <1>3, <2>3, <2>4, Zenon
  <2>6. C = [engine EXCEPT ![p] = k] /\ C[p] = k
    BY <2>2, <2>5 DEF RemindersInv, RemindersTypeOK
  <2>7. engine' = [C EXCEPT ![p].item = x.item]
    BY <2>1, <2>4, Zenon
  <2>8. engine' = [C EXCEPT ![p] = r]
    BY <1>5, <2>6, <2>7, Zenon
  <2> QED
    BY <2>6, <2>8 DEF RemindersInv, RemindersTypeOK
<1>8. ListOK(r)
  <2>1. x.item # NULL
    BY <1>4, RemindersAssumption DEF Item
  <2> QED
    BY <1>1, <1>6, <2>1 DEF RemindersInv, ListOK
<1>9. /\ raisedAt' \in [Item -> Time \cup {NULL}]
      /\ \A i \in Item : i # x.item => raisedAt'[i] = raisedAt[i]
  BY <1>1, <1>4 DEF RemindersInv, RemindersTypeOK, EngineRun
<1>10. RemindersTypeOK'
  <2>1. engine' \in [Engine -> EngineRun \cup {NULL}]
    BY <1>7 DEF RemindersInv, RemindersTypeOK
  <2>2. tainted' \subseteq Item
    BY <1>4 DEF RemindersInv, RemindersTypeOK
  <2> QED
    BY <1>9, <2>1, <2>2, Zenon DEF RemindersInv, RemindersTypeOK
<1>11. ASSUME NEW i \in Item
       PROVE  \/ i \in tainted' \/ watermark'[i] = raisedAt'[i]
              \/ r.step = "mark" /\ r.item = i
              \/ Marking(i) /\ ~(engine[p].step = "mark" /\ engine[p].item = i)
  <2>1. CASE i = x.item
    BY <1>6, <2>1
  <2>2. CASE i # x.item
    <3>1. i \in tainted => i \in tainted'
      BY <2>2
    <3> QED
      BY <1>9, <2>2, <3>1 DEF RemindersInv
  <2> QED
    BY <2>1, <2>2
<1>12. ASSUME p \notin crossing, NEW y \in r.todo, y.item \notin tainted'
       PROVE  SpacedFrom(raisedAt'[y.item], r.now, y.days)
  <2>1. y \in h.todo /\ y.item # x.item /\ y.item \in Item
    BY <1>1, <1>6 DEF RemindersInv, ListOK, EngineRun, ToRaise
  <2>2. y.item \notin tainted
    BY <1>12, <2>1
  <2>3. SpacedFrom(raisedAt[y.item], h.now, y.days)
    BY <1>1, <1>12, <2>1, <2>2 DEF RemindersInv, RemindersSpaced, EngineRuns
  <2>4. raisedAt'[y.item] = raisedAt[y.item]
    BY <1>9, <2>1
  <2> QED
    BY <1>6, <2>3, <2>4, Zenon
<1>13. raisedAt'[x.item] = h.now
  BY <1>1, <1>4 DEF RemindersInv, RemindersTypeOK
<1> QED
  BY <1>6, <1>7, <1>8, <1>10, <1>11, <1>12, <1>13, RunMoves

LEMMA MarkKeeps ==
  ASSUME RemindersInv, NEW p \in Engine, MarkReminded(p)
  PROVE  RemindersInv'
<1>0. /\ engine[p] # NULL /\ engine[p].step = "mark"
      /\ engine' = [engine EXCEPT ![p].step = "emit", ![p].item = NULL]
      /\ UNCHANGED <<time, frequency, override, engineStarts, raisedAt, crossing>>
  BY DEF MarkReminded, EngineRuns
<1>1. PICK h \in EngineRun : h = engine[p]
  BY <1>0 DEF RemindersInv, RemindersTypeOK
<1>2. PICK g \in EngineRun : g = [h EXCEPT !.step = "emit"]
  BY DEF EngineRun
<1>3. PICK r \in EngineRun : r = [g EXCEPT !.item = NULL]
  <2>1. NULL \in Item \cup {NULL}
    OBVIOUS
  <2> QED
    BY <2>1 DEF EngineRun
<1>4. r.step = "emit" /\ r.todo = h.todo /\ r.now = h.now
  BY <1>2, <1>3 DEF EngineRun
<1>5. engine' = [engine EXCEPT ![p] = r]
  <2>1. PICK B : B = [engine EXCEPT ![p].step = "emit"]
    OBVIOUS
  <2>2. B = [engine EXCEPT ![p] = g]
    BY <1>1, <1>2, <2>1, Zenon
  <2>3. B[p] = g
    BY <2>2 DEF RemindersInv, RemindersTypeOK
  <2>4. engine' = [B EXCEPT ![p].item = NULL]
    BY <1>0, <2>1, Zenon
  <2>5. engine' = [B EXCEPT ![p] = r]
    BY <1>3, <2>3, <2>4, Zenon
  <2> QED
    BY <2>2, <2>5 DEF RemindersInv, RemindersTypeOK
<1>6. ListOK(r)
  BY <1>0, <1>1, <1>4 DEF RemindersInv, ListOK
<1>7. PICK i \in Item : i = h.item
  BY <1>0, <1>1 DEF RemindersInv, ListOK, EngineRun
<1>8. /\ watermark' \in [Item -> Time \cup {NULL}] /\ tainted' \subseteq Item
      /\ tainted \subseteq tainted'
      /\ \A j \in Item \ {i} : watermark'[j] = watermark[j]
      /\ i \in tainted' \/ (p \notin crossing /\ watermark'[i] = h.now)
  BY <1>1, <1>7 DEF MarkReminded, RemindersInv, RemindersTypeOK, EngineRun
<1>9. RemindersTypeOK'
  <2>1. engine' \in [Engine -> EngineRun \cup {NULL}]
    BY <1>5 DEF RemindersInv, RemindersTypeOK
  <2> QED
    BY <1>0, <1>8, <2>1, Zenon DEF RemindersInv, RemindersTypeOK
<1>10. ASSUME NEW j \in Item
       PROVE  \/ j \in tainted' \/ watermark'[j] = raisedAt'[j]
              \/ r.step = "mark" /\ r.item = j
              \/ Marking(j) /\ ~(engine[p].step = "mark" /\ engine[p].item = j)
  <2>1. CASE j = i
    <3>1. p \notin crossing => raisedAt[i] = h.now
      BY <1>0, <1>1, <1>7 DEF RemindersInv, JustRaised
    <3> QED
      BY <1>0, <1>8, <2>1, <3>1
  <2>2. CASE j # i
    BY <1>0, <1>1, <1>7, <1>8, <2>2 DEF RemindersInv
  <2> QED
    BY <2>1, <2>2
<1>11. ASSUME p \notin crossing, NEW y \in r.todo, y.item \notin tainted'
       PROVE  SpacedFrom(raisedAt'[y.item], r.now, y.days)
  <2>1. SpacedFrom(raisedAt[y.item], h.now, y.days)
    BY <1>0, <1>1, <1>4, <1>8, <1>11 DEF RemindersInv, RemindersSpaced, EngineRuns
  <2>2. raisedAt' = raisedAt
    BY <1>0
  <2> QED
    BY <1>4, <2>1, <2>2, Zenon
<1> QED
  BY <1>0, <1>4, <1>5, <1>6, <1>9, <1>10, <1>11, RunMoves

LEMMA FinishKeeps ==
  ASSUME RemindersInv, NEW p \in Engine, FinishList(p)
  PROVE  RemindersInv'
<1>0. /\ engine[p] # NULL /\ engine[p].step = "emit" /\ engine[p].todo = {}
      /\ UNCHANGED <<time, frequency, override, watermark, engineStarts, raisedAt, tainted>>
  BY DEF FinishList, EngineRuns
<1>1. CASE EndRun(p)
  <2>1. tainted \subseteq tainted' /\ tainted' \subseteq Item
    BY <1>0 DEF RemindersInv, RemindersTypeOK
  <2>2. EngineRuns(p)
    BY <1>0 DEF EngineRuns
  <2> QED
    BY <1>0, <1>1, <2>1, <2>2, RunEnds
<1>2. CASE /\ engine[p].default # NULL
           /\ engine' = [engine EXCEPT ![p].step = "engagements"]
           /\ UNCHANGED crossing
  <2>1. PICK h \in EngineRun : h = engine[p]
    BY <1>0 DEF RemindersInv, RemindersTypeOK
  <2>2. PICK r \in EngineRun : r = [h EXCEPT !.step = "engagements"]
    BY DEF EngineRun
  <2>3. r.step = "engagements" /\ r.todo = {}
    BY <1>0, <2>1, <2>2 DEF EngineRun
  <2>4. engine' = [engine EXCEPT ![p] = r]
    BY <1>2, <2>1, <2>2, Zenon
  <2>5. ListOK(r)
    BY <2>3 DEF ListOK
  <2>6. RemindersTypeOK'
    <3>1. engine' \in [Engine -> EngineRun \cup {NULL}]
      BY <2>4 DEF RemindersInv, RemindersTypeOK
    <3> QED
      BY <1>0, <1>2, <3>1, Zenon DEF RemindersInv, RemindersTypeOK
  <2>7. ASSUME NEW i \in Item
        PROVE  \/ i \in tainted' \/ watermark'[i] = raisedAt'[i]
               \/ r.step = "mark" /\ r.item = i
               \/ Marking(i) /\ ~(engine[p].step = "mark" /\ engine[p].item = i)
    BY <1>0 DEF RemindersInv
  <2> QED
    BY <1>0, <1>2, <2>3, <2>4, <2>5, <2>6, <2>7, RunMoves
<1> QED
  BY <1>1, <1>2 DEF FinishList

LEMMA FailKeepsSpaced ==
  ASSUME RemindersInv, NEW p \in Engine, EngineFail(p)
  PROVE  RemindersInv'
<1>1. /\ EngineRuns(p) /\ EndRun(p) /\ tainted' = tainted \cup ({engine[p].item} \ {NULL})
      /\ UNCHANGED <<time, frequency, override, watermark, engineStarts, raisedAt>>
  BY DEF EngineFail
<1>2. engine[p].item \in Item \cup {NULL}
  BY <1>1 DEF EngineRuns, RemindersInv, RemindersTypeOK, EngineRun
<1>3. tainted \subseteq tainted' /\ tainted' \subseteq Item
  BY <1>1, <1>2 DEF RemindersInv, RemindersTypeOK
<1>4. ASSUME NEW i \in Item, engine[p].step = "mark", engine[p].item = i PROVE i \in tainted'
  BY <1>1, <1>4, RemindersAssumption DEF Item
<1> QED
  BY <1>1, <1>3, <1>4, RunEnds

LEMMA EmitReminderKeeps ==
  ASSUME RemindersInv, NEW p \in Engine, EmitReminder(p)
  PROVE  RemindersInv'
<1>1. /\ engine[p] # NULL /\ engine[p].step = "emit"
      /\ UNCHANGED <<time, frequency, override, watermark, engineStarts, crossing>>
  BY DEF EmitReminder, EngineRuns
<1>2. PICK x \in engine[p].todo :
        \/ /\ engine' = [engine EXCEPT ![p].step = "mark", ![p].todo = @ \ {x}, ![p].item = x.item]
           /\ raisedAt' = [raisedAt EXCEPT ![x.item] = engine[p].now]
           /\ tainted' = IF p \in crossing THEN tainted \cup {x.item} ELSE tainted \ {x.item}
        \/ /\ engine' = [engine EXCEPT ![p].todo = @ \ {x}]
           /\ UNCHANGED <<raisedAt, tainted>>
  BY Zenon DEF EmitReminder
<1> QED
  BY <1>1, <1>2, RaiseKeeps, SkipKeeps

LEMMA RemindersStep == RemindersInv /\ [RemindersNext]_remindersVars => RemindersInv'
<1> SUFFICES ASSUME RemindersInv, [RemindersNext]_remindersVars PROVE RemindersInv'
  OBVIOUS
<1>1. CASE UNCHANGED remindersVars
  <2>1. UNCHANGED <<time, frequency, override, watermark, engine, engineStarts, raisedAt, crossing,
                    tainted>>
    BY <1>1, Zenon DEF remindersVars
  <2>2. RemindersTypeOK'
    BY <2>1, Zenon DEF RemindersInv, RemindersTypeOK
  <2> QED
    BY <2>1, <2>2, SettingsKeep
<1>2. CASE Tick
  <2>1. RemindersTypeOK'
    BY <1>2, RemindersAssumption DEF Tick, RemindersInv, RemindersTypeOK, Time
  <2> QED
    BY <1>2, <2>1, SettingsKeep DEF Tick
<1>3. CASE \E n \in Interval : setGlobalDefaultCadence(n)
  <2>1. RemindersTypeOK'
    BY <1>3 DEF setGlobalDefaultCadence, RemindersInv, RemindersTypeOK
  <2> QED
    BY <1>3, <2>1, SettingsKeep DEF setGlobalDefaultCadence
<1>4. CASE \E i \in DocumentRequest, n \in Interval \cup {NULL} : setEngagementCadenceOverride(i, n)
  <2>1. RemindersTypeOK'
    BY <1>4 DEF setEngagementCadenceOverride, RemindersInv, RemindersTypeOK
  <2> QED
    BY <1>4, <2>1, SettingsKeep DEF setEngagementCadenceOverride
<1>5. ASSUME NEW p \in Engine, EngineStep(p) PROVE RemindersInv'
  BY <1>5, StartKeeps, SelectOverdueKeeps, SelectApproachingKeeps, EmitReminderKeeps, MarkKeeps,
     FinishKeeps, FailKeepsSpaced DEF EngineStep
<1> QED
  BY <1>1, <1>2, <1>3, <1>4, <1>5 DEF RemindersNext

-----------------------------------------------------------------------------
(***************************************************************************)
(* The pages of the requests.  A request that there is has an unread       *)
(* notice or was fetched; one that is decided stays as it was decided.     *)
(***************************************************************************)
AskRow == [status : Verdict \cup {"none", "pending"}, by : DecisionTab \cup {NULL}]

ScreenOK(A, U, F, t, s) ==
  s # NULL =>
    /\ s.on = "reading" /\ s.first = "rows" => s.read \subseteq U \cup F
    /\ s.on = "list" => s.rows \subseteq s.notices \cup F \/ s.first = "notices"
    /\ s.on \in {"rendering", "request"} => s.ask \in F /\ A[s.ask].status # "none"
    /\ s.on = "request" =>
         /\ s.view \in {"sent", "result"} => s.decision # NULL
         /\ s.answer # NULL => s.view \in {"sent", "result"}
         /\ s.answer \in {"recorded", "recorded, no mail"} =>
              A[s.ask] = [status |-> s.decision, by |-> t]
         /\ s.answer = "already_decided" => A[s.ask].by # NULL

AskOK(A, U, F) ==
  \A r \in Ask : /\ A[r].by # NULL <=> A[r].status \in Verdict
                 /\ A[r].status # "none" => r \in U \cup F

RequestPagesInv ==
  /\ RequestPagesTypeOK
  /\ AskOK(asks, unseen, fetched)
  /\ \A t \in DecisionTab : ScreenOK(asks, unseen, fetched, t, screen[t])

LEMMA RequestPagesInitInv == RequestPagesInit => RequestPagesInv
<1> SUFFICES ASSUME RequestPagesInit PROVE RequestPagesInv
  OBVIOUS
<1>1. /\ asks = [r \in Ask |-> [status |-> "none", by |-> NULL]] /\ unseen = {} /\ fetched = {}
      /\ screen = [t \in DecisionTab |-> NULL]
  BY DEF RequestPagesInit
<1>2. RequestPagesTypeOK
  BY <1>1 DEF RequestPagesTypeOK
<1> QED
  BY <1>1, <1>2 DEF RequestPagesInv, AskOK, ScreenOK, Verdict

LEMMA ToldOfAsks == RequestPagesInv => ToldOfRequests
<1> SUFFICES ASSUME RequestPagesInv, NEW t \in DecisionTab, screen[t] # NULL
             PROVE  /\ screen[t].on = "request" =>
                         /\ screen[t].answer \in {"recorded", "recorded, no mail"} =>
                              asks[screen[t].ask] = [status |-> screen[t].decision, by |-> t]
                         /\ screen[t].answer = "already_decided" => asks[screen[t].ask].by # NULL
                    /\ screen[t].on = "list" =>
                         \/ screen[t].rows \subseteq screen[t].notices \cup fetched
                         \/ screen[t].first = "notices"
  BY DEF ToldOfRequests, Showing
<1> QED
  BY DEF RequestPagesInv, ScreenOK

\* What a page says stays so.
LEMMA ScreenStays ==
  ASSUME NEW A \in [Ask -> AskRow], NEW B \in [Ask -> AskRow], NEW U, NEW V, NEW F, NEW G,
         NEW t \in DecisionTab, NEW s \in Screen \cup {NULL}, ScreenOK(A, U, F, t, s),
         F \subseteq G, U \cup F \subseteq V \cup G,
         \A r \in Ask : /\ A[r].by # NULL => B[r] = A[r]
                        /\ A[r].status # "none" => B[r].status # "none"
  PROVE  ScreenOK(B, V, G, t, s)
<1> SUFFICES ASSUME s # NULL PROVE ScreenOK(B, V, G, t, s)
  BY DEF ScreenOK
<1>1. CASE s \in Reading \/ s \in Listing
  BY <1>1 DEF ScreenOK, Reading, Listing
<1>2. CASE s \in Rendering
  BY <1>2 DEF ScreenOK, Rendering
<1>3. CASE s \in Deciding
  <2>1. s.ask \in Ask /\ s.on = "request"
    BY <1>3 DEF Deciding
  <2>2. s.answer \in {"recorded", "recorded, no mail"} => B[s.ask] = A[s.ask]
    <3>1. [status |-> s.decision, by |-> t].by = t /\ t # NULL
      BY RequestPagesAssumption
    <3> QED
      BY <2>1, <3>1 DEF ScreenOK
  <2>3. s.answer = "already_decided" => B[s.ask] = A[s.ask]
    BY <2>1 DEF ScreenOK
  <2> QED
    BY <2>1, <2>2, <2>3 DEF ScreenOK
<1> QED
  BY <1>1, <1>2, <1>3 DEF Screen

LEMMA PageShows ==
  ASSUME RequestPagesInv, NEW t \in DecisionTab, NEW s \in Screen \cup {NULL}, Show(t, s),
         asks' \in [Ask -> AskRow], unseen' \subseteq Ask, fetched' \subseteq Ask,
         AskOK(asks', unseen', fetched'), ScreenOK(asks', unseen', fetched', t, s),
         fetched \subseteq fetched', unseen \cup fetched \subseteq unseen' \cup fetched',
         \A r \in Ask : /\ asks[r].by # NULL => asks'[r] = asks[r]
                        /\ asks[r].status # "none" => asks'[r].status # "none"
  PROVE  RequestPagesInv'
<1>1. /\ screen' \in [DecisionTab -> Screen \cup {NULL}] /\ screen'[t] = s
      /\ \A q \in DecisionTab \ {t} : screen'[q] = screen[q]
  BY DEF Show, RequestPagesInv, RequestPagesTypeOK
<1>2. RequestPagesTypeOK'
  BY <1>1 DEF RequestPagesTypeOK, AskRow
<1>3. ASSUME NEW q \in DecisionTab PROVE ScreenOK(asks', unseen', fetched', q, screen'[q])
  <2>1. CASE q = t
    BY <1>1, <2>1, Zenon
  <2>2. CASE q # t
    <3>1. screen'[q] = screen[q] /\ screen[q] \in Screen \cup {NULL}
      BY <1>1, <2>2 DEF RequestPagesInv, RequestPagesTypeOK
    <3>2. asks \in [Ask -> AskRow] /\ ScreenOK(asks, unseen, fetched, q, screen[q])
      BY DEF RequestPagesInv, RequestPagesTypeOK, AskRow
    <3>3. ScreenOK(asks', unseen', fetched', q, screen[q])
      BY <3>1, <3>2, ScreenStays
    <3> QED
      BY <3>1, <3>3, Zenon
  <2> QED
    BY <2>1, <2>2
<1> QED
  BY <1>2, <1>3, Zenon DEF RequestPagesInv

\* A page that shows something else, where no row changes.
LEMMA PageTurns ==
  ASSUME RequestPagesInv, NEW t \in DecisionTab, NEW s \in Screen \cup {NULL}, Show(t, s),
         UNCHANGED <<asks, unseen>>, fetched' \subseteq Ask, fetched \subseteq fetched',
         ScreenOK(asks, unseen, fetched', t, s)
  PROVE  RequestPagesInv'
<1>1. asks' \in [Ask -> AskRow] /\ unseen' \subseteq Ask /\ asks' = asks /\ unseen' = unseen
  BY DEF RequestPagesInv, RequestPagesTypeOK, AskRow
<1>2. AskOK(asks', unseen', fetched')
  BY <1>1 DEF RequestPagesInv, AskOK
<1>3. ScreenOK(asks', unseen', fetched', t, s)
  BY <1>1, Zenon
<1> QED
  BY <1>1, <1>2, <1>3, PageShows

LEMMA SubmitAskKeeps ==
  ASSUME RequestPagesInv, NEW r \in Ask, SubmitAsk(r)
  PROVE  RequestPagesInv'
<1>1. PICK a \in AskRow : a = [asks[r] EXCEPT !.status = "pending"]
  <2>1. asks[r] \in AskRow
    BY DEF RequestPagesInv, RequestPagesTypeOK, AskRow
  <2> QED
    BY <2>1 DEF AskRow
<1>2. a.status = "pending" /\ a.by = asks[r].by /\ asks[r].status = "none" /\ asks[r].by = NULL
  <2>1. asks[r] \in AskRow /\ asks[r].status = "none"
    BY DEF SubmitAsk, RequestPagesInv, RequestPagesTypeOK, AskRow
  <2>2. asks[r].by = NULL
    BY <2>1 DEF RequestPagesInv, AskOK, Verdict
  <2> QED
    BY <1>1, <2>1, <2>2 DEF AskRow
<1>3. asks' = [asks EXCEPT ![r] = a]
  BY <1>1, Zenon DEF SubmitAsk
<1>4. /\ asks' \in [Ask -> AskRow] /\ asks'[r] = a
      /\ \A q \in Ask \ {r} : asks'[q] = asks[q]
  BY <1>3 DEF RequestPagesInv, RequestPagesTypeOK, AskRow
<1>5. unseen' = unseen \cup {r} /\ fetched' = fetched /\ screen' = screen
  BY DEF SubmitAsk
<1>6. RequestPagesTypeOK'
  BY <1>4, <1>5 DEF RequestPagesInv, RequestPagesTypeOK, AskRow
<1>7. AskOK(asks', unseen', fetched')
  BY <1>2, <1>4, <1>5 DEF RequestPagesInv, AskOK, Verdict
<1>8. ASSUME NEW t \in DecisionTab PROVE ScreenOK(asks', unseen', fetched', t, screen'[t])
  <2>1. screen[t] \in Screen \cup {NULL} /\ asks \in [Ask -> AskRow]
    BY DEF RequestPagesInv, RequestPagesTypeOK, AskRow
  <2>2. \A q \in Ask : /\ asks[q].by # NULL => asks'[q] = asks[q]
                       /\ asks[q].status # "none" => asks'[q].status # "none"
    BY <1>2, <1>4
  <2>3. ScreenOK(asks, unseen, fetched, t, screen[t])
    BY DEF RequestPagesInv
  <2>4. fetched \subseteq fetched' /\ unseen \cup fetched \subseteq unseen' \cup fetched'
    BY <1>5
  <2>5. ScreenOK(asks', unseen', fetched', t, screen[t])
    BY <1>4, <2>1, <2>2, <2>3, <2>4, ScreenStays
  <2> QED
    BY <1>5, <2>5, Zenon
<1> QED
  BY <1>6, <1>7, <1>8, Zenon DEF RequestPagesInv

LEMMA ListReads ==
  ASSUME RequestPagesInv, NEW t \in DecisionTab, OpenRequestsPage(t)
  PROVE  RequestPagesInv'
<1>1. Waiting \subseteq Ask /\ Waiting \subseteq unseen \cup fetched /\ unseen \subseteq Ask
  BY DEF Waiting, Decidable, RequestPagesInv, RequestPagesTypeOK, AskOK
<1>2. UNCHANGED <<asks, unseen, fetched>> /\ fetched' \subseteq Ask
  BY DEF OpenRequestsPage, RequestPagesInv, RequestPagesTypeOK
<1>3. CASE Show(t, [on |-> "reading", first |-> "rows", read |-> Waiting])
  <2>1. PICK s \in Reading : s = [on |-> "reading", first |-> "rows", read |-> Waiting]
    BY <1>1 DEF Reading
  <2>2. ScreenOK(asks, unseen, fetched', t, s)
    BY <1>1, <1>2, <2>1 DEF ScreenOK
  <2>3. s \in Screen \cup {NULL} /\ Show(t, s)
    BY <1>3, <2>1 DEF Screen
  <2> QED
    BY <1>2, <2>2, <2>3, PageTurns
<1>4. CASE Show(t, [on |-> "reading", first |-> "notices", read |-> unseen])
  <2>1. PICK s \in Reading : s = [on |-> "reading", first |-> "notices", read |-> unseen]
    BY <1>1 DEF Reading
  <2>2. ScreenOK(asks, unseen, fetched', t, s)
    BY <2>1 DEF ScreenOK
  <2>3. s \in Screen \cup {NULL} /\ Show(t, s)
    BY <1>4, <2>1 DEF Screen
  <2> QED
    BY <1>2, <2>2, <2>3, PageTurns
<1> QED
  BY <1>3, <1>4 DEF OpenRequestsPage

LEMMA ShowsNone ==
  ASSUME RequestPagesInv, NEW t \in DecisionTab, Show(t, NULL), UNCHANGED <<asks, unseen, fetched>>
  PROVE  RequestPagesInv'
<1>1. fetched' \subseteq Ask /\ fetched \subseteq fetched'
  BY DEF RequestPagesInv, RequestPagesTypeOK
<1>2. ScreenOK(asks, unseen, fetched', t, NULL) /\ NULL \in Screen \cup {NULL}
  BY DEF ScreenOK
<1> QED
  BY <1>1, <1>2, PageTurns

LEMMA ListShows ==
  ASSUME RequestPagesInv, NEW t \in DecisionTab, RequestList(t)
  PROVE  RequestPagesInv'
<1>0. UNCHANGED <<asks, unseen, fetched>> /\ fetched' \subseteq Ask
  BY DEF RequestList, RequestPagesInv, RequestPagesTypeOK
<1>1. PICK h \in Reading : h = screen[t]
  BY DEF RequestList, Showing, RequestPagesInv, RequestPagesTypeOK, Screen, Listing, Rendering,
         Deciding
<1>2. Waiting \subseteq Ask /\ unseen \subseteq Ask
  BY DEF Waiting, RequestPagesInv, RequestPagesTypeOK
<1>3. CASE h.first = "rows" /\ Show(t, [on |-> "list", first |-> "rows", rows |-> h.read,
                                        notices |-> unseen])
  <2>1. PICK s \in Listing : s = [on |-> "list", first |-> "rows", rows |-> h.read, notices |-> unseen]
    BY <1>2 DEF Listing, Reading
  <2>2. h.read \subseteq unseen \cup fetched
    <3>1. h.on = "reading" /\ h # NULL
      BY <1>1 DEF Reading, RequestList, Showing
    <3> QED
      BY <1>1, <1>3, <3>1 DEF RequestPagesInv, ScreenOK
  <2>3. ScreenOK(asks, unseen, fetched', t, s)
    BY <1>0, <2>1, <2>2 DEF ScreenOK
  <2>4. s \in Screen \cup {NULL} /\ Show(t, s)
    BY <1>3, <2>1 DEF Screen
  <2> QED
    BY <1>0, <2>3, <2>4, PageTurns
<1>4. CASE Show(t, [on |-> "list", first |-> "notices", rows |-> Waiting, notices |-> h.read])
  <2>1. PICK s \in Listing : s = [on |-> "list", first |-> "notices", rows |-> Waiting,
                                  notices |-> h.read]
    BY <1>2 DEF Listing, Reading
  <2>2. ScreenOK(asks, unseen, fetched', t, s)
    BY <2>1 DEF ScreenOK
  <2>3. s \in Screen \cup {NULL} /\ Show(t, s)
    BY <1>4, <2>1 DEF Screen
  <2> QED
    BY <1>0, <2>2, <2>3, PageTurns
<1>5. CASE Show(t, NULL)
  BY <1>0, <1>5, ShowsNone
<1> QED
  BY <1>1, <1>3, <1>4, <1>5 DEF RequestList

LEMMA FetchKeeps ==
  ASSUME RequestPagesInv, NEW t \in DecisionTab, NEW r \in Ask, FetchRequest(t, r)
  PROVE  RequestPagesInv'
<1>1. /\ UNCHANGED <<asks, unseen>> /\ fetched' = fetched \cup {r} /\ asks[r].status # "none"
      /\ Show(t, [on |-> "rendering", ask |-> r, shown |-> asks[r].status])
  BY DEF FetchRequest
<1>2. PICK s \in Rendering : s = [on |-> "rendering", ask |-> r, shown |-> asks[r].status]
  <2>1. asks[r].status \in Verdict \cup {"pending"}
    BY <1>1 DEF RequestPagesInv, RequestPagesTypeOK
  <2> QED
    BY <2>1 DEF Rendering
<1>3. ScreenOK(asks, unseen, fetched', t, s)
  BY <1>1, <1>2 DEF ScreenOK
<1>4. s \in Screen \cup {NULL} /\ Show(t, s) /\ fetched' \subseteq Ask /\ fetched \subseteq fetched'
  BY <1>1, <1>2 DEF Screen, RequestPagesInv, RequestPagesTypeOK
<1> QED
  BY <1>1, <1>3, <1>4, PageTurns

LEMMA MarkOnViewKeeps ==
  ASSUME RequestPagesInv, NEW t \in DecisionTab, MarkOnView(t)
  PROVE  RequestPagesInv'
<1>1. PICK h \in Rendering : h = screen[t]
  BY DEF MarkOnView, Showing, RequestPagesInv, RequestPagesTypeOK, Screen, Listing, Reading,
         Deciding
<1>2. /\ h.ask \in Ask /\ h.ask \in fetched /\ asks[h.ask].status # "none"
      /\ h.shown \in Verdict \cup {"pending"}
  <2>1. h.on = "rendering" /\ h # NULL
    BY <1>1 DEF Rendering, MarkOnView, Showing
  <2> QED
    BY <1>1, <2>1 DEF RequestPagesInv, ScreenOK, Rendering
<1>3. PICK s \in Deciding : s = [on |-> "request", ask |-> h.ask, shown |-> h.shown, view |-> "idle",
                                 decision |-> NULL, answer |-> NULL]
  <2>1. NULL \in Verdict \cup {NULL}
        /\ NULL \in {"recorded", "recorded, no mail", "already_decided", "refused", NULL}
    OBVIOUS
  <2> QED
    BY <1>2, <2>1 DEF Deciding
<1>4. /\ UNCHANGED <<asks, fetched>> /\ unseen' \in {unseen \ {h.ask}, unseen} /\ Show(t, s)
  BY <1>1, <1>3 DEF MarkOnView
<1>5. /\ asks' \in [Ask -> AskRow] /\ unseen' \subseteq Ask /\ fetched' \subseteq Ask
      /\ unseen \cup fetched \subseteq unseen' \cup fetched'
      /\ asks' = asks /\ fetched' = fetched
  BY <1>2, <1>4 DEF RequestPagesInv, RequestPagesTypeOK, AskRow
<1>6. AskOK(asks', unseen', fetched')
  BY <1>5 DEF RequestPagesInv, AskOK
<1>7. ScreenOK(asks', unseen', fetched', t, s)
  <2>1. ScreenOK(asks, unseen', fetched, t, s)
    BY <1>2, <1>3, RequestPagesAssumption DEF ScreenOK
  <2> QED
    BY <1>5, <2>1, Zenon
<1>8. s \in Screen \cup {NULL}
  BY DEF Screen
<1> QED
  BY <1>4, <1>5, <1>6, <1>7, <1>8, PageShows

\* The page of a request, as the browser has it.
LEMMA RequestShown ==
  ASSUME RequestPagesInv, NEW t \in DecisionTab, Showing(t, "request")
  PROVE  /\ screen[t] \in Deciding /\ screen[t] # NULL
         /\ ScreenOK(asks, unseen, fetched, t, screen[t])
         /\ asks[screen[t].ask] \in AskRow
BY DEF Showing, RequestPagesInv, RequestPagesTypeOK, Screen, Listing, Reading, Rendering, Deciding,
       AskRow

\* A button or an answer leaves the rows alone.
LEMMA ViewKeeps ==
  ASSUME RequestPagesInv, NEW t \in DecisionTab, Showing(t, "request"), NEW s \in Deciding, Show(t, s),
         UNCHANGED <<asks, unseen, fetched>>, s.ask = screen[t].ask,
         s.view \in {"sent", "result"} => s.decision # NULL,
         s.answer # NULL => s.view \in {"sent", "result"},
         s.answer \in {"recorded", "recorded, no mail"} =>
           asks[s.ask] = [status |-> s.decision, by |-> t],
         s.answer = "already_decided" => asks[s.ask].by # NULL
  PROVE  RequestPagesInv'
<1>1. PICK h \in Deciding : h = screen[t]
  BY RequestShown
<1>2. h.ask \in fetched /\ asks[h.ask].status # "none" /\ h # NULL
  BY <1>1, RequestShown DEF ScreenOK, Deciding
<1>3. ScreenOK(asks, unseen, fetched, t, s)
  <2>1. s.on = "request"
    BY DEF Deciding
  <2> QED
    BY <1>1, <1>2, <2>1 DEF ScreenOK
<1>4. s \in Screen \cup {NULL} /\ fetched' = fetched /\ fetched' \subseteq Ask /\ fetched \subseteq fetched'
  BY DEF Screen, RequestPagesInv, RequestPagesTypeOK
<1>5. ScreenOK(asks, unseen, fetched', t, s)
  BY <1>3, <1>4, Zenon
<1> QED
  BY <1>4, <1>5, PageTurns

LEMMA ButtonsKeep ==
  ASSUME RequestPagesInv, NEW t \in DecisionTab,
         OpenDeclineForm(t) \/ CancelDecline(t) \/ \E d \in Verdict : ClickDecision(t, d)
  PROVE  RequestPagesInv'
<1>0. Showing(t, "request") /\ UNCHANGED <<asks, unseen, fetched>>
  BY DEF OpenDeclineForm, CancelDecline, ClickDecision, HasButtons
<1>1. PICK h \in Deciding : h = screen[t]
  BY <1>0, RequestShown
<1>2. h.view \in {"idle", "decline-form"} /\ h # NULL
  BY <1>1, <1>0 DEF OpenDeclineForm, CancelDecline, ClickDecision, Showing
<1>3. h.answer = NULL
  BY <1>0, <1>1, <1>2, RequestShown DEF ScreenOK, Deciding
<1>4. CASE \E v \in {"idle", "decline-form"} : Show(t, [screen[t] EXCEPT !.view = v])
  <2>1. PICK v \in {"idle", "decline-form"} : Show(t, [screen[t] EXCEPT !.view = v])
    BY <1>4
  <2>2. PICK s \in Deciding : s = [h EXCEPT !.view = v]
    BY DEF Deciding
  <2>3. s.ask = h.ask /\ s.view = v /\ s.answer = NULL
    BY <1>3, <2>2 DEF Deciding
  <2>4. Show(t, s)
    BY <1>1, <2>1, <2>2, Zenon
  <2> QED
    BY <1>0, <1>1, <2>3, <2>4, ViewKeeps, RequestPagesAssumption
<1>5. CASE \E d \in Verdict : ClickDecision(t, d)
  <2>1. PICK d \in Verdict : Show(t, [screen[t] EXCEPT !.view = "sent", !.decision = d])
    BY <1>5 DEF ClickDecision
  <2>2. PICK s \in Deciding : s = [h EXCEPT !.view = "sent", !.decision = d]
    BY DEF Deciding
  <2>3. s.ask = h.ask /\ s.view = "sent" /\ s.answer = NULL /\ s.decision = d /\ d # NULL
    BY <1>3, <2>2, RequestPagesAssumption DEF Deciding, Verdict
  <2>4. Show(t, s)
    BY <1>1, <2>1, <2>2, Zenon
  <2> QED
    BY <1>0, <1>1, <2>3, <2>4, ViewKeeps, RequestPagesAssumption
<1> QED
  BY <1>4, <1>5 DEF OpenDeclineForm, CancelDecline

LEMMA ResultKeeps ==
  ASSUME RequestPagesInv, NEW t \in DecisionTab, ShowResult(t) \/ RefreshRequest(t)
  PROVE  RequestPagesInv'
<1>0. Showing(t, "request") /\ UNCHANGED <<asks, unseen, fetched>>
  BY DEF ShowResult, RefreshRequest, HasButtons
<1>1. PICK h \in Deciding : h = screen[t]
  BY <1>0, RequestShown
<1>2. /\ h.view \in {"sent", "result"} => h.decision # NULL
      /\ h.answer \in {"recorded", "recorded, no mail"} =>
           asks[h.ask] = [status |-> h.decision, by |-> t]
      /\ h.answer = "already_decided" => asks[h.ask].by # NULL
  BY <1>0, <1>1, RequestShown DEF ScreenOK, Deciding
<1>3. asks[h.ask].status \in Verdict \cup {"pending"}
  <2>1. h # NULL /\ h.on = "request"
    BY <1>1, <1>0 DEF Showing
  <2> QED
    BY <1>0, <1>1, <2>1, RequestShown DEF ScreenOK, AskRow
<1>4. CASE ShowResult(t)
  <2>1. PICK w \in Verdict \cup {"pending"} :
          w = IF h.answer \in {"recorded", "recorded, no mail"} THEN asks[h.ask].status ELSE h.shown
    BY <1>3 DEF Deciding
  <2>2. PICK s \in Deciding : s = [h EXCEPT !.view = "result", !.shown = w]
    BY DEF Deciding
  <2>3. s.ask = h.ask /\ s.view = "result" /\ s.answer = h.answer /\ s.decision = h.decision
    BY <2>2 DEF Deciding
  <2>4. Show(t, [h EXCEPT !.view = "result",
         !.shown = IF h.answer \in {"recorded", "recorded, no mail"}
                   THEN asks[h.ask].status ELSE @])
    BY <1>1, <1>4, Zenon DEF ShowResult
  <2>5. s = [h EXCEPT !.view = "result",
         !.shown = IF h.answer \in {"recorded", "recorded, no mail"}
                   THEN asks[h.ask].status ELSE @]
    BY <2>1, <2>2 DEF Deciding
  <2>6. Show(t, s) /\ h.view = "sent"
    BY <1>1, <1>4, <2>4, <2>5, Zenon DEF ShowResult
  <2> QED
    BY <1>0, <1>1, <1>2, <2>3, <2>6, ViewKeeps
<1>5. CASE RefreshRequest(t)
  <2>1. PICK w \in Verdict \cup {"pending"} : w = asks[h.ask].status
    BY <1>3
  <2>2. PICK s \in Deciding : s = [h EXCEPT !.shown = w]
    BY DEF Deciding
  <2>3. s.ask = h.ask /\ s.view = h.view /\ s.answer = h.answer /\ s.decision = h.decision
    BY <2>2 DEF Deciding
  <2>4. Show(t, s) /\ h.view = "result"
    BY <1>1, <1>5, <2>1, <2>2, Zenon DEF RefreshRequest
  <2> QED
    BY <1>0, <1>1, <1>2, <2>3, <2>4, ViewKeeps
<1> QED
  BY <1>4, <1>5

LEMMA DecideKeeps ==
  ASSUME RequestPagesInv, NEW t \in DecisionTab, DecideOnServer(t)
  PROVE  RequestPagesInv'
<1>0. /\ Showing(t, "request") /\ UNCHANGED <<unseen, fetched>>
      /\ screen[t].view = "sent" /\ screen[t].answer = NULL
  BY DEF DecideOnServer
<1>1. PICK h \in Deciding : h = screen[t]
  BY <1>0, RequestShown
<1>2. /\ h.ask \in Ask /\ h.view = "sent" /\ h.decision \in Verdict /\ asks[h.ask].status # "none"
      /\ h.ask \in fetched /\ asks[h.ask] \in AskRow
  BY <1>0, <1>1, RequestShown DEF ScreenOK, Deciding
<1>3. ASSUME NEW x \in {"recorded", "recorded, no mail", "already_decided", "refused"}
      PROVE  \E s \in Deciding : /\ s = [h EXCEPT !.answer = x] /\ s.ask = h.ask /\ s.view = "sent"
                                 /\ s.decision = h.decision /\ s.answer = x
  <2>1. PICK s \in Deciding : s = [h EXCEPT !.answer = x]
    BY DEF Deciding
  <2> QED
    BY <1>2, <2>1 DEF Deciding
<1>4. CASE /\ Decidable(asks[h.ask].status)
           /\ asks' = [asks EXCEPT ![h.ask] = [status |-> h.decision, by |-> t]]
           /\ AnswerIs(t, "recorded") \/ AnswerIs(t, "recorded, no mail") \/ Show(t, NULL)
  <2>1. PICK a \in AskRow : a = [status |-> h.decision, by |-> t]
    BY <1>2 DEF AskRow
  <2>2. a.status = h.decision /\ a.by = t /\ t # NULL
    BY <2>1, RequestPagesAssumption
  <2>3. /\ asks' \in [Ask -> AskRow] /\ asks'[h.ask] = a
        /\ \A r \in Ask \ {h.ask} : asks'[r] = asks[r]
    BY <1>2, <1>4, <2>1 DEF RequestPagesInv, RequestPagesTypeOK, AskRow
  <2>4. asks[h.ask].by = NULL
    BY <1>2, <1>4 DEF RequestPagesInv, AskOK, Decidable, Verdict
  <2>5. \A r \in Ask : /\ asks[r].by # NULL => asks'[r] = asks[r]
                       /\ asks[r].status # "none" => asks'[r].status # "none"
    BY <1>2, <2>2, <2>3, <2>4 DEF Verdict
  <2>6. AskOK(asks', unseen', fetched')
    BY <1>0, <1>2, <2>2, <2>3 DEF RequestPagesInv, AskOK
  <2>7. /\ unseen' = unseen /\ fetched' = fetched /\ unseen' \subseteq Ask /\ fetched' \subseteq Ask
        /\ fetched \subseteq fetched' /\ unseen \cup fetched \subseteq unseen' \cup fetched'
    BY <1>0 DEF RequestPagesInv, RequestPagesTypeOK
  <2>8. CASE Show(t, NULL)
    <3>1. ScreenOK(asks', unseen', fetched', t, NULL) /\ NULL \in Screen \cup {NULL}
      BY DEF ScreenOK
    <3> QED
      BY <2>3, <2>5, <2>6, <2>7, <2>8, <3>1, PageShows
  <2>9. CASE AnswerIs(t, "recorded") \/ AnswerIs(t, "recorded, no mail")
    <3>1. PICK x \in {"recorded", "recorded, no mail"} : AnswerIs(t, x)
      BY <2>9
    <3>2. PICK s \in Deciding : /\ s = [h EXCEPT !.answer = x] /\ s.ask = h.ask /\ s.view = "sent"
                                /\ s.decision = h.decision /\ s.answer = x
      <4>1. x \in {"recorded", "recorded, no mail", "already_decided", "refused"}
        OBVIOUS
      <4> QED
        BY <1>3, <4>1, Zenon
    <3>3. Show(t, s)
      BY <1>1, <3>1, <3>2, Zenon DEF AnswerIs
    <3>4. s.on = "request" /\ h.decision # NULL
      BY <1>2, RequestPagesAssumption DEF Deciding, Verdict
    <3>5. ScreenOK(asks', unseen', fetched', t, s)
      BY <1>2, <2>1, <2>3, <2>5, <2>7, <3>2, <3>4 DEF ScreenOK
    <3>6. s \in Screen \cup {NULL}
      BY DEF Screen
    <3> QED
      BY <2>3, <2>5, <2>6, <2>7, <3>3, <3>5, <3>6, PageShows
  <2> QED
    BY <1>4, <2>8, <2>9
<1>5. ASSUME UNCHANGED asks, NEW x \in {"already_decided", "refused"}, AnswerIs(t, x),
             x = "already_decided" => asks[h.ask].by # NULL
      PROVE  RequestPagesInv'
  <2>1. PICK s \in Deciding : /\ s = [h EXCEPT !.answer = x] /\ s.ask = h.ask /\ s.view = "sent"
                              /\ s.decision = h.decision /\ s.answer = x
    <3>1. x \in {"recorded", "recorded, no mail", "already_decided", "refused"}
      OBVIOUS
    <3> QED
      BY <1>3, <3>1, Zenon
  <2>2. Show(t, s)
    BY <1>1, <1>5, <2>1, Zenon DEF AnswerIs
  <2>3. h.decision # NULL
    BY <1>2, RequestPagesAssumption DEF Verdict
  <2> QED
    BY <1>0, <1>1, <1>5, <2>1, <2>2, <2>3, ViewKeeps
<1>6. CASE UNCHANGED asks /\ Show(t, NULL)
  BY <1>0, <1>6, ShowsNone
<1>7. ~Decidable(asks[h.ask].status) => asks[h.ask].by # NULL
  BY <1>2 DEF Decidable, RequestPagesInv, AskOK, AskRow
<1> QED
  BY <1>1, <1>4, <1>5, <1>6, <1>7 DEF DecideOnServer

LEMMA RequestPagesStep == RequestPagesInv /\ [RequestPagesNext]_requestPagesVars => RequestPagesInv'
<1> SUFFICES ASSUME RequestPagesInv, [RequestPagesNext]_requestPagesVars PROVE RequestPagesInv'
  OBVIOUS
<1>1. CASE UNCHANGED requestPagesVars
  BY <1>1, Zenon DEF requestPagesVars, RequestPagesInv, RequestPagesTypeOK
<1>2. ASSUME NEW t \in DecisionTab, LeavePage(t) PROVE RequestPagesInv'
  BY <1>2, ShowsNone DEF LeavePage
<1> QED
  BY <1>1, <1>2, SubmitAskKeeps, ListReads, ListShows, FetchKeeps, MarkOnViewKeeps, ButtonsKeep,
     ResultKeeps, DecideKeeps, Zenon DEF RequestPagesNext

-----------------------------------------------------------------------------
(***************************************************************************)
(* The composer.  The call that the form waits for is the last one and     *)
(* carries its draft; so a draft that failed is not one of those that were *)
(* told to be sent.                                                        *)
(***************************************************************************)
StepOK(i, a, T, S) ==
  a # NULL =>
    /\ a.step \in {"tell", "answer success", "verify", "store", "answer file", "answer no file"} =>
         i \in T
    /\ a.step \in {"resolve", "insert", "tell", "answer failure", "answer success"} => i \notin S
    /\ a.step \in {"verify", "store", "answer file", "answer no file"} => i \in S

FormOK(C, R, S) ==
  C # NULL =>
    /\ C.waits = NULL /\ C.draft # NULL => \A i \in S : R[i].draft # C.draft
    /\ C.waits # NULL => /\ R[C.waits] # NULL /\ R[C.waits].draft = C.draft
                         /\ \A j \in Try : j > C.waits => R[j] = NULL

SentOK(R, T, S) ==
  /\ S \subseteq T
  /\ \A i \in S : R[i] # NULL
  /\ \A i \in S, j \in Try : j > i /\ R[j] # NULL => R[j].draft # R[i].draft

ComposerInv ==
  /\ ComposerTypeOK
  /\ \A i \in Try : StepOK(i, try[i], thread, told.sent)
  /\ \A i \in Try, j \in Try : j > i /\ try[i] = NULL => try[j] = NULL
  /\ FormOK(composer, try, told.sent)
  /\ SentOK(try, thread, told.sent)
  /\ DOMAIN filed \subseteq told.sent

LEMMA ComposerInitInv == ComposerInit => ComposerInv
<1> SUFFICES ASSUME ComposerInit PROVE ComposerInv
  OBVIOUS
<1>1. /\ surface \in Surface /\ composer = NULL /\ try = [i \in Try |-> NULL] /\ thread = {}
      /\ DOMAIN filed = {} /\ told = [sent |-> {}, failed |-> {}]
  BY DEF ComposerInit
<1>2. told.sent = {} /\ told \in [sent : SUBSET Try, failed : SUBSET Try]
  BY <1>1
<1>3. ComposerTypeOK
  BY <1>1, <1>2 DEF ComposerTypeOK
<1> QED
  BY <1>1, <1>2, <1>3 DEF ComposerInv, StepOK, FormOK, SentOK

LEMMA SentIfTold == ComposerInv => SentOnceIfTold
BY DEF ComposerInv, SentOK, SentOnceIfTold

\* The page, the form.
LEMMA FormKeeps ==
  ASSUME ComposerInv, composer' \in Form \cup {NULL}, FormOK(composer', try, told.sent),
         UNCHANGED <<surface, try, thread, filed, told>>
  PROVE  ComposerInv'
<1>1. ComposerTypeOK'
  BY DEF ComposerInv, ComposerTypeOK
<1>2. FormOK(composer', try', told.sent')
  BY Zenon
<1> QED
  BY <1>1, <1>2, Zenon DEF ComposerInv

LEMMA EmptyOK == Empty \in Form /\ \A R, S : FormOK(Empty, R, S)
<1>1. Empty \in Form /\ Empty.draft = NULL /\ Empty.waits = NULL
  <2>1. NULL \in Draft \cup {NULL} /\ NULL \in Try \cup {NULL} /\ FALSE \in BOOLEAN
    OBVIOUS
  <2> QED
    BY <2>1 DEF Empty, Form
<1> QED
  BY <1>1 DEF FormOK

LEMMA OpenKeeps ==
  ASSUME ComposerInv, OpenMessagesPage \/ OpenDirectThreadPage
  PROVE  ComposerInv'
<1>1. composer' \in {NULL, Empty} /\ UNCHANGED <<surface, try, thread, filed, told>>
  BY DEF OpenMessagesPage, OpenDirectThreadPage
<1>2. FormOK(composer', try, told.sent)
  BY <1>1, EmptyOK DEF FormOK
<1> QED
  BY <1>1, <1>2, EmptyOK, FormKeeps

LEMMA WriteDraftKeeps ==
  ASSUME ComposerInv, NEW d \in Draft, NEW f \in BOOLEAN, WriteDraft(d, f)
  PROVE  ComposerInv'
<1>1. /\ composer = Empty /\ \A i \in told.sent : try[i].draft # d
      /\ composer' = [composer EXCEPT !.draft = d, !.file = f]
      /\ UNCHANGED <<surface, try, thread, filed, told>>
  BY DEF WriteDraft
<1>2. PICK c \in Form : c = [Empty EXCEPT !.draft = d, !.file = f]
  BY EmptyOK DEF Form
<1>3. c.draft = d /\ c.waits = NULL
  BY <1>2 DEF Empty
<1>4. composer' = c
  BY <1>1, <1>2, Zenon
<1>5. FormOK(c, try, told.sent)
  BY <1>1, <1>3 DEF FormOK
<1>6. composer' \in Form \cup {NULL} /\ FormOK(composer', try, told.sent)
  BY <1>4, <1>5
<1> QED
  BY <1>1, <1>6, FormKeeps

LEMMA SubmitKeepsSent ==
  ASSUME ComposerInv, handleSubmitMessage
  PROVE  ComposerInv'
<1>1. PICK i \in Unused :
        /\ \A j \in Unused : i <= j
        /\ try' = [try EXCEPT ![i] = [draft |-> composer.draft, step |-> FirstStep]]
        /\ composer' = [composer EXCEPT !.waits = i]
  BY Zenon DEF handleSubmitMessage
<1>2. /\ composer # NULL /\ composer.draft # NULL /\ composer.waits = NULL
      /\ UNCHANGED <<surface, thread, filed, told>>
  BY DEF handleSubmitMessage
<1>3. PICK h \in Form : h = composer
  BY <1>2 DEF ComposerInv, ComposerTypeOK
<1>4. i \in Try /\ try[i] = NULL /\ Try \subseteq Nat
  BY DEF Unused, Try
<1>5. PICK a \in TryRow : a = [draft |-> h.draft, step |-> FirstStep]
  <2>1. h.draft \in Draft
    BY <1>2, <1>3 DEF Form
  <2>2. FirstStep \in {"resolve", "insert", "tell", "verify", "store", "answer failure",
                      "answer success", "answer file", "answer no file", "over"}
    BY DEF FirstStep
  <2> QED
    BY <2>1, <2>2 DEF TryRow
<1>6. a.draft = h.draft /\ a.step \in {"resolve", "insert"} /\ a # NULL
  BY <1>5, NoTryAssumption DEF FirstStep
<1>7. PICK c \in Form : c = [h EXCEPT !.waits = i]
  BY <1>4 DEF Form
<1>8. c.draft = h.draft /\ c.waits = i /\ c.file = h.file
  BY <1>7 DEF Form
<1>9. composer' = c
  BY <1>1, <1>3, <1>7, Zenon
<1>10. /\ try' \in [Try -> TryRow \cup {NULL}] /\ try'[i] = a
       /\ \A j \in Try \ {i} : try'[j] = try[j]
  BY <1>1, <1>3, <1>4, <1>5 DEF ComposerInv, ComposerTypeOK
<1>11. ComposerTypeOK'
  BY <1>2, <1>9, <1>10 DEF ComposerInv, ComposerTypeOK
<1>12. i \notin told.sent
  BY <1>4 DEF ComposerInv, SentOK
<1>13. ASSUME NEW j \in Try PROVE StepOK(j, try'[j], thread', told.sent')
  <2>1. CASE j = i
    BY <1>2, <1>6, <1>10, <1>12, <2>1 DEF StepOK
  <2>2. CASE j # i
    <3>1. StepOK(j, try[j], thread, told.sent) /\ try'[j] = try[j] /\ thread' = thread /\ told' = told
      BY <1>2, <1>10, <2>2 DEF ComposerInv
    <3> QED
      BY <3>1, Zenon
  <2> QED
    BY <2>1, <2>2
<1>14. \A j \in Try : j > i => try[j] = NULL
  BY <1>4 DEF ComposerInv
<1>15. \A j \in Try, k \in Try : k > j /\ try'[j] = NULL => try'[k] = NULL
  <2> SUFFICES ASSUME NEW j \in Try, NEW k \in Try, k > j, try'[j] = NULL PROVE try'[k] = NULL
    OBVIOUS
  <2>1. j # i /\ try[j] = NULL
    BY <1>6, <1>10
  <2>2. j \in Unused
    BY <2>1 DEF Unused
  <2>3. i <= j
    BY <1>1, <2>2
  <2>4. k # i /\ k > i
    BY <1>4, <2>1, <2>3
  <2> QED
    BY <1>10, <1>14, <2>4
<1>16. FormOK(composer', try', told.sent')
  <2>1. \A j \in Try : j > i => try'[j] = NULL
    BY <1>4, <1>10, <1>14
  <2>2. c.waits # NULL
    BY <1>4, <1>8, ComposerAssumption
  <2>3. FormOK(c, try', told.sent')
    BY <1>6, <1>8, <1>10, <2>1, <2>2 DEF FormOK
  <2> QED
    BY <1>9, <2>3, Zenon
<1>17. SentOK(try', thread', told.sent')
  <2>1. told' = told /\ thread' = thread /\ told.sent \subseteq thread /\ thread \subseteq Try
    BY <1>2 DEF ComposerInv, SentOK, ComposerTypeOK
  <2>2. \A k \in told.sent : try'[k] = try[k] /\ try[k] # NULL
    BY <1>10, <1>12, <2>1 DEF ComposerInv, SentOK
  <2>3. \A k \in told.sent : try[k].draft # h.draft
    BY <1>2, <1>3 DEF ComposerInv, FormOK
  <2>4. ASSUME NEW k \in told.sent, NEW j \in Try, j > k, try'[j] # NULL
        PROVE  try'[j].draft # try'[k].draft
    <3>1. CASE j = i
      BY <1>6, <1>10, <2>2, <2>3, <3>1
    <3>2. CASE j # i
      BY <1>10, <2>2, <2>4, <3>2 DEF ComposerInv, SentOK
    <3> QED
      BY <3>1, <3>2
  <2> QED
    BY <2>1, <2>2, <2>4 DEF SentOK
<1> QED
  BY <1>2, <1>11, <1>13, <1>15, <1>16, <1>17 DEF ComposerInv

\* A call goes on; nobody else's draft changes.
LEMMA TryMoves ==
  ASSUME ComposerInv, NEW i \in Try, try[i] # NULL, NEW s, [try[i] EXCEPT !.step = s] \in TryRow,
         try' = [try EXCEPT ![i].step = s], UNCHANGED surface,
         composer' \in Form \cup {NULL}, FormOK(composer', try, told'.sent),
         thread \subseteq thread', thread' \subseteq Try,
         told' \in [sent : SUBSET Try, failed : SUBSET Try],
         told'.sent \in {told.sent, told.sent \cup {i}}, told'.sent \subseteq thread',
         i \in told'.sent => i \in told.sent \/ \A j \in Try : j > i => try[j] = NULL,
         StepOK(i, [try[i] EXCEPT !.step = s], thread', told'.sent),
         DOMAIN filed' \subseteq told'.sent
  PROVE  ComposerInv'
<1>1. PICK h \in TryRow : h = try[i]
  BY DEF ComposerInv, ComposerTypeOK
<1>2. PICK a \in TryRow : a = [h EXCEPT !.step = s]
  BY <1>1
<1>3. a.draft = h.draft /\ a # NULL
  BY <1>2, NoTryAssumption DEF TryRow
<1>4. try' = [try EXCEPT ![i] = a]
  BY <1>1, <1>2, Zenon
<1>5. /\ try' \in [Try -> TryRow \cup {NULL}] /\ try'[i] = a
      /\ \A j \in Try \ {i} : try'[j] = try[j]
  BY <1>4 DEF ComposerInv, ComposerTypeOK
<1>6. \A j \in Try : (try'[j] = NULL <=> try[j] = NULL) /\ try'[j].draft = try[j].draft
  BY <1>1, <1>3, <1>5
<1>7. ComposerTypeOK'
  BY <1>5 DEF ComposerInv, ComposerTypeOK
<1>8. ASSUME NEW j \in Try PROVE StepOK(j, try'[j], thread', told'.sent)
  <2>1. CASE j = i
    BY <1>1, <1>2, <1>5, <2>1, Zenon
  <2>2. CASE j # i
    <3>1. StepOK(j, try[j], thread, told.sent) /\ try'[j] = try[j]
      BY <1>5, <2>2 DEF ComposerInv
    <3>2. /\ j \in told.sent <=> j \in told'.sent
          /\ j \in thread => j \in thread'
      BY <2>2
    <3>3. StepOK(j, try[j], thread', told'.sent)
      BY <3>1, <3>2 DEF StepOK
    <3> QED
      BY <3>1, <3>3, Zenon
  <2> QED
    BY <2>1, <2>2
<1>9. \A j \in Try, k \in Try : k > j /\ try'[j] = NULL => try'[k] = NULL
  BY <1>6 DEF ComposerInv
<1>10. FormOK(composer', try', told'.sent)
  <2>1. CASE composer' = NULL
    BY <2>1 DEF FormOK
  <2>2. CASE composer' # NULL
    <3>1. PICK c \in Form : c = composer'
      BY <2>2
    <3>2. c.waits \in Try \cup {NULL} /\ told'.sent \subseteq Try /\ FormOK(c, try, told'.sent)
      BY <3>1 DEF Form
    <3>3. FormOK(c, try', told'.sent)
      BY <1>6, <3>2 DEF FormOK
    <3> QED
      BY <3>1, <3>3, Zenon
  <2> QED
    BY <2>1, <2>2
<1>11. SentOK(try', thread', told'.sent)
  <2>1. told.sent \subseteq Try /\ told'.sent \subseteq Try
    BY DEF ComposerInv, ComposerTypeOK
  <2>2. \A k \in told'.sent : try'[k] # NULL
    BY <1>6, <2>1 DEF ComposerInv, SentOK
  <2>3. ASSUME NEW k \in told'.sent, NEW j \in Try, j > k, try'[j] # NULL
        PROVE  try'[j].draft # try'[k].draft
    <3>1. try[j] # NULL /\ k \in Try
      BY <1>6, <2>1, <2>3
    <3>2. CASE k \in told.sent
      BY <1>6, <2>3, <3>1, <3>2 DEF ComposerInv, SentOK
    <3>3. CASE k \notin told.sent
      <4>1. k = i
        BY <3>3
      <4> QED
        BY <2>3, <3>1, <3>3, <4>1
    <3> QED
      BY <3>2, <3>3
  <2> QED
    BY <2>2, <2>3 DEF SentOK
<1> QED
  BY <1>7, <1>8, <1>9, <1>10, <1>11, Zenon DEF ComposerInv

\* The row of a call with its next step.
LEMMA StepTyped ==
  ASSUME ComposerInv, NEW i \in Try, try[i] # NULL,
         NEW s \in {"resolve", "insert", "tell", "verify", "store", "answer failure",
                    "answer success", "answer file", "answer no file", "over"}
  PROVE  [try[i] EXCEPT !.step = s] \in TryRow /\ [try[i] EXCEPT !.step = s].step = s
<1>1. PICK h \in TryRow : h = try[i]
  BY DEF ComposerInv, ComposerTypeOK
<1>2. PICK a \in TryRow : a = [h EXCEPT !.step = s]
  BY DEF TryRow
<1>3. a.step = s
  BY <1>2 DEF TryRow
<1> QED
  BY <1>1, <1>2, <1>3, Zenon

\* A step of an action on the server: the form does not know of it.
LEMMA ServerMoves ==
  ASSUME ComposerInv, NEW i \in Try, try[i] # NULL,
         NEW s \in {"resolve", "insert", "tell", "verify", "store", "answer failure",
                    "answer success", "answer file", "answer no file", "over"},
         try' = [try EXCEPT ![i].step = s], UNCHANGED <<surface, composer, told>>,
         thread \subseteq thread', thread' \subseteq Try,
         s \in {"tell", "answer success", "verify", "store", "answer file", "answer no file"} =>
           i \in thread',
         s \in {"resolve", "insert", "tell", "answer failure", "answer success"} =>
           i \notin told.sent,
         s \in {"verify", "store", "answer file", "answer no file"} => i \in told.sent,
         DOMAIN filed' \subseteq told.sent
  PROVE  ComposerInv'
<1>1. [try[i] EXCEPT !.step = s] \in TryRow /\ [try[i] EXCEPT !.step = s].step = s
  BY StepTyped
<1>2. /\ told \in [sent : SUBSET Try, failed : SUBSET Try] /\ told' = told
      /\ composer' \in Form \cup {NULL} /\ composer' = composer
      /\ FormOK(composer, try, told.sent) /\ told.sent \subseteq thread
  BY DEF ComposerInv, ComposerTypeOK, SentOK
<1>3. StepOK(i, [try[i] EXCEPT !.step = s], thread', told.sent)
  <2>1. PICK a : a = [try[i] EXCEPT !.step = s]
    OBVIOUS
  <2>2. StepOK(i, a, thread', told.sent)
    BY <1>1, <2>1 DEF StepOK
  <2> QED
    BY <2>1, <2>2, Zenon
<1>4. /\ told' \in [sent : SUBSET Try, failed : SUBSET Try] /\ told'.sent = told.sent
      /\ told'.sent \subseteq thread' /\ DOMAIN filed' \subseteq told'.sent
      /\ FormOK(composer', try, told'.sent)
      /\ StepOK(i, [try[i] EXCEPT !.step = s], thread', told'.sent)
  BY <1>2, <1>3
<1> QED
  BY <1>1, <1>2, <1>4, TryMoves

LEMMA ResolveKeeps ==
  ASSUME ComposerInv, NEW i \in Try,
         ResolveThread(i) \/ getThreadById(i) \/ getOrCreateEngagementThread(i)
  PROVE  ComposerInv'
<1>1. /\ At(i, "resolve") /\ UNCHANGED <<surface, composer, thread, filed, told>>
      /\ \E s \in {"insert", "answer failure"} : try' = [try EXCEPT ![i].step = s]
  BY DEF ResolveThread, getThreadById, getOrCreateEngagementThread
<1>2. PICK s \in {"insert", "answer failure"} : try' = [try EXCEPT ![i].step = s]
  BY <1>1
<1>3. try[i] # NULL /\ i \notin told.sent
  BY <1>1 DEF At, ComposerInv, StepOK
<1>4. thread' \subseteq Try /\ thread \subseteq thread' /\ DOMAIN filed' \subseteq told.sent
  BY <1>1 DEF ComposerInv, ComposerTypeOK
<1> QED
  BY <1>1, <1>2, <1>3, <1>4, ServerMoves

LEMMA InsertMessageKeeps ==
  ASSUME ComposerInv, NEW i \in Try, InsertMessage(i)
  PROVE  ComposerInv'
<1>1. At(i, "insert") /\ UNCHANGED <<surface, composer, filed, told>>
  BY DEF InsertMessage
<1>2. try[i] # NULL /\ i \notin told.sent
  BY <1>1 DEF At, ComposerInv, StepOK
<1>3. DOMAIN filed' \subseteq told.sent /\ thread \subseteq Try
  BY <1>1 DEF ComposerInv, ComposerTypeOK
<1>4. CASE thread' = thread \cup {i} /\ try' = [try EXCEPT ![i].step = "tell"]
  BY <1>1, <1>2, <1>3, <1>4, ServerMoves
<1>5. CASE UNCHANGED thread /\ try' = [try EXCEPT ![i].step = "answer failure"]
  BY <1>1, <1>2, <1>3, <1>5, ServerMoves
<1> QED
  BY <1>4, <1>5 DEF InsertMessage

LEMMA TellParticipantsKeeps ==
  ASSUME ComposerInv, NEW i \in Try, TellParticipants(i)
  PROVE  ComposerInv'
<1>1. At(i, "tell") /\ UNCHANGED <<surface, composer, thread, filed, told>>
  BY DEF TellParticipants
<1>2. PICK s \in {"answer success", "answer failure"} : try' = [try EXCEPT ![i].step = s]
  BY DEF TellParticipants
<1>3. try[i] # NULL /\ i \notin told.sent /\ i \in thread
  BY <1>1 DEF At, ComposerInv, StepOK
<1>4. DOMAIN filed' \subseteq told.sent /\ thread' \subseteq Try /\ thread \subseteq thread' /\ i \in thread'
  BY <1>1, <1>3 DEF ComposerInv, ComposerTypeOK
<1> QED
  BY <1>1, <1>2, <1>3, <1>4, ServerMoves

LEMMA VerifyKeeps ==
  ASSUME ComposerInv, NEW i \in Try, verifyMessageInThread(i)
  PROVE  ComposerInv'
<1>1. At(i, "verify") /\ UNCHANGED <<surface, composer, thread, filed, told>>
  BY DEF verifyMessageInThread
<1>2. PICK s \in {"store", "answer no file"} : try' = [try EXCEPT ![i].step = s]
  BY Zenon DEF verifyMessageInThread
<1>3. try[i] # NULL /\ i \in told.sent /\ i \in thread
  BY <1>1 DEF At, ComposerInv, StepOK
<1>4. DOMAIN filed' \subseteq told.sent /\ thread' \subseteq Try /\ thread \subseteq thread' /\ i \in thread'
  BY <1>1, <1>3 DEF ComposerInv, ComposerTypeOK
<1> QED
  BY <1>1, <1>2, <1>3, <1>4, ServerMoves

LEMMA StoreFileKeeps ==
  ASSUME ComposerInv, NEW i \in Try, storeAttachment(i)
  PROVE  ComposerInv'
<1>1. At(i, "store") /\ UNCHANGED <<surface, composer, thread, told>>
  BY DEF storeAttachment
<1>2. PICK s \in {"answer file", "answer no file"} : try' = [try EXCEPT ![i].step = s]
  BY DEF storeAttachment
<1>3. try[i] # NULL /\ i \in told.sent /\ i \in thread
  BY <1>1 DEF At, ComposerInv, StepOK
<1>4. DOMAIN filed' \subseteq DOMAIN filed \cup {i}
  BY DEF storeAttachment
<1>5. DOMAIN filed' \subseteq told.sent /\ thread' \subseteq Try /\ thread \subseteq thread' /\ i \in thread'
  BY <1>1, <1>3, <1>4 DEF ComposerInv, ComposerTypeOK
<1> QED
  BY <1>1, <1>2, <1>3, <1>5, ServerMoves

LEMMA RejectKeeps ==
  ASSUME ComposerInv, NEW i \in Try, Reject(i)
  PROVE  ComposerInv'
<1>1. /\ try[i] # NULL /\ try' = [try EXCEPT ![i].step = "over"]
      /\ UNCHANGED <<surface, composer, thread, filed, told>>
  BY DEF Reject
<1>2. DOMAIN filed' \subseteq told.sent /\ thread' \subseteq Try /\ thread \subseteq thread'
  BY <1>1 DEF ComposerInv, ComposerTypeOK
<1> QED
  BY <1>1, <1>2, ServerMoves

\* The form that hears an answer is about the call that is answered.
LEMMA HeardCall ==
  ASSUME ComposerInv, NEW i \in Try, Heard(i)
  PROVE  /\ composer \in Form /\ composer.waits = i /\ try[i] # NULL
         /\ try[i].draft = composer.draft
         /\ \A j \in Try : j > i => try[j] = NULL
<1>1. composer \in Form /\ composer # NULL /\ composer.waits = i /\ i # NULL
  BY ComposerAssumption DEF Heard, ComposerInv, ComposerTypeOK, Try
<1> QED
  BY <1>1 DEF ComposerInv, FormOK

LEMMA AnswerFailureKeeps ==
  ASSUME ComposerInv, NEW i \in Try, AnswerFailure(i)
  PROVE  ComposerInv'
<1>1. /\ At(i, "answer failure") /\ try' = [try EXCEPT ![i].step = "over"]
      /\ UNCHANGED <<surface, thread, filed>>
  BY DEF AnswerFailure
<1>2. try[i] # NULL /\ i \notin told.sent
  BY <1>1 DEF At, ComposerInv, StepOK
<1>3. DOMAIN filed' \subseteq told.sent /\ thread' \subseteq Try /\ thread \subseteq thread'
  BY <1>1 DEF ComposerInv, ComposerTypeOK
<1>4. CASE ~Heard(i)
  <2>1. UNCHANGED <<composer, told>>
    BY <1>4, Zenon DEF AnswerFailure
  <2> QED
    BY <1>1, <1>2, <1>3, <2>1, ServerMoves
<1>5. CASE Heard(i)
  <2>0. /\ composer' = [composer EXCEPT !.waits = NULL]
        /\ told' = [told EXCEPT !.failed = @ \cup {i}]
    BY <1>5, Zenon DEF AnswerFailure
  <2>1. told' \in [sent : SUBSET Try, failed : SUBSET Try] /\ told'.sent = told.sent
    BY <2>0 DEF ComposerInv, ComposerTypeOK
  <2>2. PICK h \in Form : h = composer
    BY <1>5, HeardCall
  <2>3. PICK c \in Form : c = [h EXCEPT !.waits = NULL]
    <3>1. NULL \in Try \cup {NULL}
      OBVIOUS
    <3> QED
      BY <3>1 DEF Form
  <2>4. c.waits = NULL /\ c.draft = h.draft
    BY <2>3 DEF Form
  <2>5. composer' = c
    BY <2>0, <2>2, <2>3, Zenon
  <2>6. \A k \in told.sent : try[k].draft # h.draft
    <3> SUFFICES ASSUME NEW k \in told.sent PROVE try[k].draft # h.draft
      OBVIOUS
    <3>1. k \in Try /\ try[k] # NULL /\ k # i
      BY <1>2 DEF ComposerInv, ComposerTypeOK, SentOK
    <3>2. ~(k > i)
      BY <1>5, <3>1, HeardCall
    <3>3. i > k
      BY <3>1, <3>2 DEF Try
    <3>4. try[i].draft = h.draft
      BY <1>5, <2>2, HeardCall
    <3> QED
      BY <1>2, <3>1, <3>3, <3>4 DEF ComposerInv, SentOK
  <2>7. FormOK(c, try, told.sent)
    BY <2>4, <2>6 DEF FormOK
  <2>8. FormOK(composer', try, told'.sent) /\ composer' \in Form \cup {NULL}
    BY <2>1, <2>5, <2>7, Zenon
  <2>9. [try[i] EXCEPT !.step = "over"] \in TryRow /\ [try[i] EXCEPT !.step = "over"].step = "over"
    BY <1>2, StepTyped
  <2>10. StepOK(i, [try[i] EXCEPT !.step = "over"], thread', told'.sent)
    <3>1. PICK a : a = [try[i] EXCEPT !.step = "over"]
      OBVIOUS
    <3>2. StepOK(i, a, thread', told'.sent)
      BY <2>9, <3>1 DEF StepOK
    <3> QED
      BY <3>1, <3>2, Zenon
  <2>11. /\ told'.sent \in {told.sent, told.sent \cup {i}} /\ told'.sent \subseteq thread'
         /\ DOMAIN filed' \subseteq told'.sent
         /\ i \in told'.sent => i \in told.sent \/ \A j \in Try : j > i => try[j] = NULL
    BY <1>1, <1>3, <2>1 DEF ComposerInv, SentOK
  <2> QED
    BY <1>1, <1>2, <1>3, <2>1, <2>8, <2>9, <2>10, <2>11, TryMoves
<1> QED
  BY <1>4, <1>5

LEMMA AnswerFileKeeps ==
  ASSUME ComposerInv, NEW i \in Try, AnswerFile(i)
  PROVE  ComposerInv'
<1>1. /\ At(i, "answer file") \/ At(i, "answer no file")
      /\ try' = [try EXCEPT ![i].step = "over"]
      /\ composer' = IF Heard(i) THEN Empty ELSE composer
      /\ UNCHANGED <<surface, thread, filed, told>>
  BY DEF AnswerFile
<1>2. try[i] # NULL
  BY <1>1 DEF At
<1>3. /\ DOMAIN filed' \subseteq told'.sent /\ thread' \subseteq Try /\ thread \subseteq thread'
      /\ told' \in [sent : SUBSET Try, failed : SUBSET Try] /\ told' = told
      /\ told'.sent \subseteq thread' /\ told'.sent = told.sent
  BY <1>1 DEF ComposerInv, ComposerTypeOK, SentOK
<1>4. composer' \in Form \cup {NULL} /\ FormOK(composer', try, told.sent)
  BY <1>1, EmptyOK DEF ComposerInv, ComposerTypeOK
<1>5. [try[i] EXCEPT !.step = "over"] \in TryRow /\ [try[i] EXCEPT !.step = "over"].step = "over"
  BY <1>2, StepTyped
<1>6. StepOK(i, [try[i] EXCEPT !.step = "over"], thread', told'.sent)
  <2>1. PICK a : a = [try[i] EXCEPT !.step = "over"]
    OBVIOUS
  <2>2. StepOK(i, a, thread', told'.sent)
    BY <1>5, <2>1 DEF StepOK
  <2> QED
    BY <2>1, <2>2, Zenon
<1>7. FormOK(composer', try, told'.sent)
  BY <1>3, <1>4, Zenon
<1> QED
  BY <1>1, <1>2, <1>3, <1>4, <1>5, <1>6, <1>7, TryMoves

LEMMA AnswerSuccessKeeps ==
  ASSUME ComposerInv, NEW i \in Try, AnswerSuccess(i)
  PROVE  ComposerInv'
<1>1. At(i, "answer success") /\ UNCHANGED <<surface, thread, filed>>
  BY DEF AnswerSuccess
<1>2. try[i] # NULL /\ i \notin told.sent /\ i \in thread
  BY <1>1 DEF At, ComposerInv, StepOK
<1>3. DOMAIN filed' \subseteq told.sent /\ thread' \subseteq Try /\ thread \subseteq thread'
  BY <1>1 DEF ComposerInv, ComposerTypeOK
<1>4. CASE ~Heard(i)
  <2>1. UNCHANGED <<composer, told>> /\ try' = [try EXCEPT ![i].step = "over"]
    BY <1>4, Zenon DEF AnswerSuccess
  <2> QED
    BY <1>1, <1>2, <1>3, <2>1, ServerMoves
<1>5. CASE Heard(i)
  <2>1. told' = [told EXCEPT !.sent = @ \cup {i}]
    BY <1>5, Zenon DEF AnswerSuccess
  <2>2. told' \in [sent : SUBSET Try, failed : SUBSET Try] /\ told'.sent = told.sent \cup {i}
    BY <2>1 DEF ComposerInv, ComposerTypeOK
  <2>3. /\ told'.sent \in {told.sent, told.sent \cup {i}} /\ told'.sent \subseteq thread'
        /\ DOMAIN filed' \subseteq told'.sent /\ i \in told'.sent
        /\ \A j \in Try : j > i => try[j] = NULL
    BY <1>1, <1>2, <1>3, <1>5, <2>2, HeardCall DEF ComposerInv, SentOK
  <2>4. PICK s \in {"verify", "store", "over"} :
          /\ try' = [try EXCEPT ![i].step = s]
          /\ composer' = composer \/ composer' = Empty
    BY <1>5 DEF AnswerSuccess, FirstOfFile
  <2>5. [try[i] EXCEPT !.step = s] \in TryRow /\ [try[i] EXCEPT !.step = s].step = s
    BY <1>2, StepTyped
  <2>6. StepOK(i, [try[i] EXCEPT !.step = s], thread', told'.sent)
    <3>1. PICK a : a = [try[i] EXCEPT !.step = s]
      OBVIOUS
    <3>2. StepOK(i, a, thread', told'.sent)
      BY <1>1, <1>2, <2>3, <2>5, <3>1 DEF StepOK
    <3> QED
      BY <3>1, <3>2, Zenon
  <2>7. composer' \in Form \cup {NULL} /\ FormOK(composer', try, told'.sent)
    <3>1. CASE composer' = Empty
      BY <3>1, EmptyOK
    <3>2. CASE composer' = composer
      <4>1. PICK h \in Form : h = composer
        BY <1>5, HeardCall
      <4>2. h.waits = i /\ i # NULL /\ FormOK(h, try, told.sent)
        BY <1>5, <4>1, HeardCall, ComposerAssumption DEF Try, ComposerInv
      <4>3. FormOK(h, try, told'.sent)
        BY <4>2 DEF FormOK
      <4> QED
        BY <3>2, <4>1, <4>3
    <3> QED
      BY <2>4, <3>1, <3>2
  <2> QED
    BY <1>1, <1>2, <1>3, <2>2, <2>3, <2>4, <2>5, <2>6, <2>7, TryMoves
<1> QED
  BY <1>4, <1>5

LEMMA ComposerStep == ComposerInv /\ [ComposerNext]_composerVars => ComposerInv'
<1> SUFFICES ASSUME ComposerInv, [ComposerNext]_composerVars PROVE ComposerInv'
  OBVIOUS
<1>1. CASE UNCHANGED composerVars
  BY <1>1, Zenon DEF composerVars, ComposerInv, ComposerTypeOK
<1> QED
  BY <1>1, OpenKeeps, WriteDraftKeeps, SubmitKeepsSent, ResolveKeeps, InsertMessageKeeps,
     TellParticipantsKeeps, VerifyKeeps, StoreFileKeeps, AnswerFailureKeeps, AnswerSuccessKeeps,
     AnswerFileKeeps, RejectKeeps, Zenon DEF ComposerNext

-----------------------------------------------------------------------------
(***************************************************************************)
(* The form of a new engagement.  While the choice stays, every call       *)
(* carries it, so that the warning that is shown is about it.              *)
(***************************************************************************)
IsThere(I, i, x) == I[i] # NULL /\ I[i].choice = x
IsMadeBy(I, i, t) == I[i] # NULL /\ I[i].by = t

CallTrue(I, t, q) ==
  q # NULL => /\ q.step = "warn" => /\ q.found # {}
                                    /\ \A i \in q.found : IsThere(I, i, q.choice)
              /\ q.step = "created" => \A i \in q.found : IsMadeBy(I, i, t)

SheetTrue(I, t, s) ==
  s # NULL => /\ s.phase = "duplicate_warning" => /\ s.matches # {}
                                                  /\ \A i \in s.matches : IsThere(I, i, s.pending)
              /\ s.phase = "success" => s.made # NULL /\ IsMadeBy(I, s.made, t)

\* What holds of a tab until its choice is changed during a call.
Straight(s, Q, W) ==
  /\ \A c \in NewCall : Q[c] # NULL /\ Q[c].override => Q[c].choice \in W
  /\ s # NULL /\ s.phase = "duplicate_warning" => s.choice \in W
  /\ s # NULL => \A c \in NewCall : Q[c] # NULL => Q[c].choice = s.choice

InitiateFormInv ==
  /\ InitiateFormTypeOK
  /\ \A t \in NewTab : /\ SheetTrue(initiated, t, sheet[t])
                       /\ \A c \in NewCall : CallTrue(initiated, t, sending[t][c])
                       /\ t \in strayed \/ Straight(sheet[t], sending[t], warned[t])

LEMMA InitiateFormInitInv == InitiateFormInit => InitiateFormInv
<1> SUFFICES ASSUME InitiateFormInit PROVE InitiateFormInv
  OBVIOUS
<1>1. /\ initiated = [i \in Initiated |-> NULL] /\ sheet = [t \in NewTab |-> NULL]
      /\ sending = [t \in NewTab |-> [c \in NewCall |-> NULL]] /\ warned = [t \in NewTab |-> {}]
      /\ strayed = {}
  BY DEF InitiateFormInit
<1>2. InitiateFormTypeOK
  BY <1>1 DEF InitiateFormTypeOK
<1> QED
  BY <1>1, <1>2 DEF InitiateFormInv, SheetTrue, CallTrue, Straight

LEMMA FormTells == InitiateFormInv => FormTellsWhatIs
BY DEF InitiateFormInv, FormTellsWhatIs, SheetTrue, Straight, IsThere, IsMadeBy

\* What is said of rows stays so, as rows that there are never change.
LEMMA StaysTrue ==
  ASSUME NEW I, NEW J, \A i \in Initiated : I[i] # NULL => J[i] = I[i], NEW t \in NewTab
  PROVE  /\ \A s \in Sheet \cup {NULL} : SheetTrue(I, t, s) => SheetTrue(J, t, s)
         /\ \A q \in Sending \cup {NULL} : CallTrue(I, t, q) => CallTrue(J, t, q)
<1>1. ASSUME NEW s \in Sheet, SheetTrue(I, t, s) PROVE SheetTrue(J, t, s)
  BY <1>1 DEF SheetTrue, Sheet, IsThere, IsMadeBy
<1>2. ASSUME NEW q \in Sending, CallTrue(I, t, q) PROVE CallTrue(J, t, q)
  BY <1>2 DEF CallTrue, Sending, IsThere, IsMadeBy
<1>3. SheetTrue(J, t, NULL) /\ CallTrue(J, t, NULL)
  BY DEF SheetTrue, CallTrue
<1> QED
  BY <1>1, <1>2, <1>3

LEMMA FormMoves ==
  ASSUME InitiateFormInv, NEW t \in NewTab, NEW s \in Sheet \cup {NULL},
         NEW Q \in [NewCall -> Sending \cup {NULL}], NEW W \in SUBSET Choice,
         sheet' = [sheet EXCEPT ![t] = s], sending' = [sending EXCEPT ![t] = Q],
         warned' = [warned EXCEPT ![t] = W], strayed' \subseteq NewTab,
         \A u \in NewTab \ {t} : u \in strayed => u \in strayed',
         initiated' \in [Initiated -> InitiatedRow \cup {NULL}],
         \A i \in Initiated : initiated[i] # NULL => initiated'[i] = initiated[i],
         SheetTrue(initiated', t, s), \A c \in NewCall : CallTrue(initiated', t, Q[c]),
         t \in strayed' \/ Straight(s, Q, W)
  PROVE  InitiateFormInv'
<1>1. /\ sheet' \in [NewTab -> Sheet \cup {NULL}] /\ sheet'[t] = s
      /\ sending' \in [NewTab -> [NewCall -> Sending \cup {NULL}]] /\ sending'[t] = Q
      /\ warned' \in [NewTab -> SUBSET Choice] /\ warned'[t] = W
      /\ \A u \in NewTab \ {t} : /\ sheet'[u] = sheet[u] /\ sending'[u] = sending[u]
                                 /\ warned'[u] = warned[u]
  BY DEF InitiateFormInv, InitiateFormTypeOK
<1>2. InitiateFormTypeOK'
  BY <1>1 DEF InitiateFormTypeOK
<1>3. ASSUME NEW u \in NewTab
      PROVE  /\ SheetTrue(initiated', u, sheet'[u])
             /\ \A c \in NewCall : CallTrue(initiated', u, sending'[u][c])
             /\ u \in strayed' \/ Straight(sheet'[u], sending'[u], warned'[u])
  <2>1. CASE u = t
    BY <1>1, <2>1, Zenon
  <2>2. CASE u # t
    <3>1. /\ sheet'[u] = sheet[u] /\ sending'[u] = sending[u] /\ warned'[u] = warned[u]
          /\ u \in strayed' \/ Straight(sheet[u], sending[u], warned[u])
      BY <1>1, <2>2 DEF InitiateFormInv
    <3>2. /\ sheet[u] \in Sheet \cup {NULL} /\ SheetTrue(initiated, u, sheet[u])
          /\ \A c \in NewCall : /\ sending[u][c] \in Sending \cup {NULL}
                                /\ CallTrue(initiated, u, sending[u][c])
      BY DEF InitiateFormInv, InitiateFormTypeOK
    <3>3. /\ SheetTrue(initiated', u, sheet[u])
          /\ \A c \in NewCall : CallTrue(initiated', u, sending[u][c])
      BY <3>2, StaysTrue
    <3> QED
      BY <3>1, <3>3, Zenon
  <2> QED
    BY <2>1, <2>2
<1> QED
  BY <1>2, <1>3, Zenon DEF InitiateFormInv

\* A variable that is left alone.
LEMMA LeftAlone ==
  ASSUME InitiateFormInv, NEW t \in NewTab
  PROVE  /\ sheet = [sheet EXCEPT ![t] = sheet[t]] /\ sheet[t] \in Sheet \cup {NULL}
         /\ sending = [sending EXCEPT ![t] = sending[t]]
         /\ sending[t] \in [NewCall -> Sending \cup {NULL}]
         /\ warned = [warned EXCEPT ![t] = warned[t]] /\ warned[t] \in SUBSET Choice
         /\ SheetTrue(initiated, t, sheet[t])
         /\ \A c \in NewCall : CallTrue(initiated, t, sending[t][c])
         /\ t \in strayed \/ Straight(sheet[t], sending[t], warned[t])
         /\ initiated \in [Initiated -> InitiatedRow \cup {NULL}]
         /\ strayed \subseteq NewTab
BY DEF InitiateFormInv, InitiateFormTypeOK

\* Where the calls, the rows and the warnings stay.
LEMMA SheetTurns ==
  ASSUME InitiateFormInv, NEW t \in NewTab, NEW s \in Sheet \cup {NULL},
         sheet' = [sheet EXCEPT ![t] = s], UNCHANGED <<initiated, sending, warned>>,
         strayed' \in {strayed, strayed \cup {t}}, SheetTrue(initiated, t, s),
         t \in strayed' \/ Straight(s, sending[t], warned[t])
  PROVE  InitiateFormInv'
<1>1. PICK Q \in [NewCall -> Sending \cup {NULL}] :
        Q = sending[t] /\ sending' = [sending EXCEPT ![t] = Q]
  BY LeftAlone
<1>2. PICK W \in SUBSET Choice : W = warned[t] /\ warned' = [warned EXCEPT ![t] = W]
  BY LeftAlone
<1>3. /\ initiated' \in [Initiated -> InitiatedRow \cup {NULL}] /\ initiated' = initiated
      /\ strayed' \subseteq NewTab /\ \A u \in NewTab \ {t} : u \in strayed => u \in strayed'
      /\ t \in strayed' \/ Straight(s, Q, W)
  BY <1>1, <1>2, LeftAlone
<1>4. SheetTrue(initiated', t, s) /\ \A c \in NewCall : CallTrue(initiated', t, Q[c])
  <2>1. \A c \in NewCall : CallTrue(initiated, t, Q[c])
    BY <1>1, LeftAlone
  <2> QED
    BY <1>3, <2>1, Zenon
<1> QED
  BY <1>1, <1>2, <1>3, <1>4, FormMoves

LEMMA NewPageKeeps ==
  ASSUME InitiateFormInv, NEW t \in NewTab, NewEngagementPage(t)
  PROVE  InitiateFormInv'
<1>1. PICK x \in Choice :
        sheet' = [sheet EXCEPT ![t] =
                  [phase |-> "form", choice |-> x, pending |-> NULL, matches |-> {},
                   made |-> NULL, submitting |-> FALSE, error |-> FALSE]]
  BY DEF NewEngagementPage
<1>2. /\ \A c \in NewCall : sending[t][c] = NULL
      /\ warned' = [warned EXCEPT ![t] = {}] /\ strayed' = strayed \ {t}
      /\ UNCHANGED <<initiated, sending>>
  BY DEF NewEngagementPage, Quiet
<1>3. PICK s \in Sheet : s = [phase |-> "form", choice |-> x, pending |-> NULL, matches |-> {},
                              made |-> NULL, submitting |-> FALSE, error |-> FALSE]
  BY DEF Sheet
<1>4. s.phase = "form" /\ sheet' = [sheet EXCEPT ![t] = s]
  BY <1>1, <1>3
<1>5. PICK Q \in [NewCall -> Sending \cup {NULL}] :
        Q = sending[t] /\ sending' = [sending EXCEPT ![t] = Q]
  BY <1>2, LeftAlone
<1>6. Straight(s, Q, {}) /\ SheetTrue(initiated', t, s) /\ \A c \in NewCall : CallTrue(initiated', t, Q[c])
  BY <1>2, <1>4, <1>5 DEF Straight, SheetTrue, CallTrue
<1>7. /\ initiated' \in [Initiated -> InitiatedRow \cup {NULL}] /\ initiated' = initiated
      /\ strayed' \subseteq NewTab /\ \A u \in NewTab \ {t} : u \in strayed => u \in strayed'
      /\ {} \in SUBSET Choice
  BY <1>2, LeftAlone
<1> QED
  BY <1>2, <1>4, <1>5, <1>6, <1>7, FormMoves

\* The page and its fields.
LEMMA FieldsKeep ==
  ASSUME InitiateFormInv, NEW t \in NewTab,
         LeaveForm(t) \/ ChangeChoice(t) \/ handleCancelOverride(t)
  PROVE  InitiateFormInv'
<1>0. UNCHANGED <<initiated, sending, warned>> /\ sheet[t] # NULL
  BY DEF LeaveForm, ChangeChoice, handleCancelOverride
<1>1. PICK h \in Sheet : h = sheet[t]
  BY <1>0, LeftAlone
<1>2. SheetTrue(initiated, t, h) /\ (t \in strayed \/ Straight(h, sending[t], warned[t])) /\ h # NULL
  BY <1>0, <1>1, LeftAlone
<1>3. CASE LeaveForm(t)
  <2>1. SheetTrue(initiated, t, NULL) /\ (t \in strayed \/ Straight(NULL, sending[t], warned[t]))
    BY <1>2 DEF SheetTrue, Straight
  <2>2. sheet' = [sheet EXCEPT ![t] = NULL] /\ strayed' = strayed
    BY <1>3 DEF LeaveForm
  <2> QED
    BY <1>0, <2>1, <2>2, SheetTurns
<1>4. CASE ChangeChoice(t)
  <2>1. PICK x \in Choice : sheet' = [sheet EXCEPT ![t].choice = x]
    BY <1>4 DEF ChangeChoice
  <2>2. PICK s \in Sheet : s = [h EXCEPT !.choice = x]
    BY DEF Sheet
  <2>3. s.phase = "form" /\ h.phase = "form"
    BY <1>1, <1>4, <2>2 DEF ChangeChoice, Sheet
  <2>4. sheet' = [sheet EXCEPT ![t] = s]
    BY <1>1, <2>1, <2>2, Zenon
  <2>5. SheetTrue(initiated, t, s)
    BY <2>3 DEF SheetTrue
  <2>6. /\ strayed' \in {strayed, strayed \cup {t}}
        /\ t \notin strayed' => t \notin strayed /\ \A c \in NewCall : sending[t][c] = NULL
    BY <1>4 DEF ChangeChoice, Quiet
  <2>7. t \in strayed' \/ Straight(s, sending[t], warned[t])
    BY <1>2, <2>3, <2>6 DEF Straight
  <2> QED
    BY <1>0, <2>4, <2>5, <2>6, <2>7, SheetTurns
<1>5. CASE handleCancelOverride(t)
  <2>1. PICK s \in Sheet : s = [h EXCEPT !.phase = "form", !.error = FALSE]
    BY DEF Sheet
  <2>2. s.phase = "form" /\ s.choice = h.choice
    BY <2>1 DEF Sheet
  <2>3. sheet' = [sheet EXCEPT ![t] = s]
    <3>1. sheet' = [sheet EXCEPT ![t].phase = "form", ![t].error = FALSE]
      BY <1>5 DEF handleCancelOverride
    <3>2. PICK B : B = [sheet EXCEPT ![t].phase = "form"]
      OBVIOUS
    <3>3. PICK g \in Sheet : g = [h EXCEPT !.phase = "form"]
      BY DEF Sheet
    <3>4. B = [sheet EXCEPT ![t] = g]
      BY <1>1, <3>2, <3>3, Zenon
    <3>5. B[t] = g
      BY <3>4 DEF InitiateFormInv, InitiateFormTypeOK
    <3>6. sheet' = [B EXCEPT ![t].error = FALSE]
      BY <3>1, <3>2, Zenon
    <3>7. [g EXCEPT !.error = FALSE] = s
      BY <2>1, <3>3 DEF Sheet
    <3>8. sheet' = [B EXCEPT ![t] = s]
      BY <3>5, <3>6, <3>7, Zenon
    <3> QED
      BY <3>4, <3>8 DEF InitiateFormInv, InitiateFormTypeOK
  <2>4. SheetTrue(initiated, t, s) /\ strayed' = strayed
    BY <1>5, <2>2 DEF SheetTrue, handleCancelOverride
  <2>5. t \in strayed' \/ Straight(s, sending[t], warned[t])
    BY <1>2, <2>2, <2>4 DEF Straight
  <2> QED
    BY <1>0, <2>3, <2>4, <2>5, SheetTurns
<1> QED
  BY <1>3, <1>4, <1>5

LEMMA SubmitFormKeeps ==
  ASSUME InitiateFormInv, NEW t \in NewTab, NEW v \in BOOLEAN, sheet[t] # NULL,
         v => sheet[t].phase = "duplicate_warning", handleSubmit(t, v)
  PROVE  InitiateFormInv'
<1>1. PICK h \in Sheet : h = sheet[t]
  BY LeftAlone
<1>2. PICK c \in NewCall :
        /\ sending[t][c] = NULL
        /\ sending' = [sending EXCEPT ![t][c] =
                        [choice |-> sheet[t].choice, override |-> v, step |-> "look", found |-> {}]]
  BY DEF handleSubmit
<1>3. /\ sheet' = [sheet EXCEPT ![t].submitting = TRUE, ![t].error = FALSE]
      /\ UNCHANGED <<initiated, warned, strayed>>
  BY DEF handleSubmit
<1>4. PICK q \in Sending : q = [choice |-> h.choice, override |-> v, step |-> "look", found |-> {}]
  BY DEF Sheet, Sending
<1>5. q.choice = h.choice /\ q.override = v /\ q.step = "look"
  BY <1>4
<1>6. PICK Q \in [NewCall -> Sending \cup {NULL}] : Q = [sending[t] EXCEPT ![c] = q]
  BY LeftAlone
<1>7. /\ Q[c] = q /\ \A d \in NewCall \ {c} : Q[d] = sending[t][d]
      /\ sending' = [sending EXCEPT ![t] = Q]
  <2>1. sending' = [sending EXCEPT ![t][c] = q]
    BY <1>1, <1>2, <1>4, Zenon
  <2>2. sending' = [sending EXCEPT ![t] = [sending[t] EXCEPT ![c] = q]]
    BY <2>1, Zenon
  <2> QED
    BY <1>6, <2>2, LeftAlone
<1>8. PICK s \in Sheet : s = [h EXCEPT !.submitting = TRUE, !.error = FALSE]
  BY DEF Sheet
<1>9. /\ s.phase = h.phase /\ s.choice = h.choice /\ s.matches = h.matches /\ s.pending = h.pending
      /\ s.made = h.made
  BY <1>8 DEF Sheet
<1>10. sheet' = [sheet EXCEPT ![t] = s]
  <2>2. PICK B : B = [sheet EXCEPT ![t].submitting = TRUE]
    OBVIOUS
  <2>3. PICK g \in Sheet : g = [h EXCEPT !.submitting = TRUE]
    BY DEF Sheet
  <2>4. B = [sheet EXCEPT ![t] = g]
    BY <1>1, <2>2, <2>3, Zenon
  <2>5. B[t] = g
    BY <2>4 DEF InitiateFormInv, InitiateFormTypeOK
  <2>6. sheet' = [B EXCEPT ![t].error = FALSE]
    BY <1>3, <2>2, Zenon
  <2>7. [g EXCEPT !.error = FALSE] = s
    BY <1>8, <2>3 DEF Sheet
  <2>8. sheet' = [B EXCEPT ![t] = s]
    BY <2>5, <2>6, <2>7, Zenon
  <2> QED
    BY <2>4, <2>8 DEF InitiateFormInv, InitiateFormTypeOK
<1>11. PICK W \in SUBSET Choice : W = warned[t] /\ warned' = [warned EXCEPT ![t] = W]
  BY <1>3, LeftAlone
<1>12. /\ initiated' \in [Initiated -> InitiatedRow \cup {NULL}] /\ initiated' = initiated
       /\ strayed' = strayed /\ strayed' \subseteq NewTab
  BY <1>3, LeftAlone
<1>13. SheetTrue(initiated, t, s)
  <2>1. SheetTrue(initiated, t, h) /\ h # NULL
    BY <1>1, LeftAlone
  <2> QED
    BY <1>9, <2>1 DEF SheetTrue
<1>14. \A d \in NewCall : CallTrue(initiated, t, Q[d])
  <2>1. CallTrue(initiated, t, q)
    BY <1>5 DEF CallTrue
  <2>2. \A d \in NewCall \ {c} : CallTrue(initiated, t, Q[d])
    BY <1>7, LeftAlone
  <2> QED
    BY <1>7, <2>1, <2>2
<1>15. t \in strayed \/ Straight(s, Q, W)
  <2> SUFFICES ASSUME t \notin strayed PROVE Straight(s, Q, W)
    OBVIOUS
  <2>1. Straight(h, sending[t], W) /\ h # NULL
    BY <1>1, <1>11, LeftAlone
  <2>2. v => h.choice \in W
    BY <1>1, <2>1 DEF Straight
  <2> QED
    BY <1>5, <1>7, <1>9, <2>1, <2>2 DEF Straight
<1>16. SheetTrue(initiated', t, s) /\ \A d \in NewCall : CallTrue(initiated', t, Q[d])
  BY <1>12, <1>13, <1>14, Zenon
<1> QED
  BY <1>7, <1>10, <1>11, <1>12, <1>15, <1>16, FormMoves

LEMMA SubmitInitiateKeeps ==
  ASSUME InitiateFormInv, NEW t \in NewTab, SubmitInitiate(t)
  PROVE  InitiateFormInv'
<1>0. sheet[t] # NULL
  BY DEF SubmitInitiate
<1>1. CASE handleSubmit(t, FALSE)
  BY <1>0, <1>1, SubmitFormKeeps
<1>2. CASE sheet' = [sheet EXCEPT ![t].error = TRUE] /\ UNCHANGED <<initiated, sending, warned, strayed>>
  <2>1. PICK h \in Sheet : h = sheet[t]
    BY <1>0, LeftAlone
  <2>2. PICK s \in Sheet : s = [h EXCEPT !.error = TRUE]
    BY DEF Sheet
  <2>3. /\ s.phase = h.phase /\ s.choice = h.choice /\ s.matches = h.matches /\ s.pending = h.pending
        /\ s.made = h.made
    BY <2>2 DEF Sheet
  <2>4. sheet' = [sheet EXCEPT ![t] = s]
    BY <1>2, <2>1, <2>2, Zenon
  <2>5. SheetTrue(initiated, t, h) /\ h # NULL /\ (t \in strayed \/ Straight(h, sending[t], warned[t]))
    BY <1>0, <2>1, LeftAlone
  <2>6. SheetTrue(initiated, t, s)
    BY <2>3, <2>5 DEF SheetTrue
  <2>7. t \in strayed' \/ Straight(s, sending[t], warned[t])
    BY <1>2, <2>3, <2>5 DEF Straight
  <2> QED
    BY <1>2, <2>4, <2>6, <2>7, SheetTurns
<1> QED
  BY <1>1, <1>2 DEF SubmitInitiate

\* A step of a call on the server: the form does not know of it.
LEMMA CallMoves ==
  ASSUME InitiateFormInv, NEW t \in NewTab, NEW c \in NewCall, sending[t][c] # NULL,
         NEW q \in Sending, sending' = [sending EXCEPT ![t][c] = q],
         q.choice = sending[t][c].choice, q.override = sending[t][c].override,
         UNCHANGED <<sheet, warned, strayed>>,
         initiated' \in [Initiated -> InitiatedRow \cup {NULL}],
         \A i \in Initiated : initiated[i] # NULL => initiated'[i] = initiated[i],
         CallTrue(initiated', t, q)
  PROVE  InitiateFormInv'
<1>1. PICK Q \in [NewCall -> Sending \cup {NULL}] : Q = [sending[t] EXCEPT ![c] = q]
  BY LeftAlone
<1>2. /\ Q[c] = q /\ \A d \in NewCall \ {c} : Q[d] = sending[t][d]
      /\ sending' = [sending EXCEPT ![t] = Q]
  <2>1. sending' = [sending EXCEPT ![t] = [sending[t] EXCEPT ![c] = q]]
    BY Zenon
  <2> QED
    BY <1>1, <2>1, LeftAlone
<1>3. PICK s \in Sheet \cup {NULL} : s = sheet[t] /\ sheet' = [sheet EXCEPT ![t] = s]
  BY LeftAlone
<1>4. PICK W \in SUBSET Choice : W = warned[t] /\ warned' = [warned EXCEPT ![t] = W]
  BY LeftAlone
<1>5. SheetTrue(initiated', t, s)
  <2>1. SheetTrue(initiated, t, s)
    BY <1>3, LeftAlone
  <2> QED
    BY <2>1, StaysTrue
<1>6. \A d \in NewCall : CallTrue(initiated', t, Q[d])
  <2>1. ASSUME NEW d \in NewCall \ {c} PROVE CallTrue(initiated', t, Q[d])
    <3>1. Q[d] \in Sending \cup {NULL} /\ CallTrue(initiated, t, Q[d])
      BY <1>2, LeftAlone
    <3> QED
      BY <3>1, StaysTrue
  <2> QED
    BY <1>2, <2>1
<1>7. t \in strayed' \/ Straight(s, Q, W)
  <2> SUFFICES ASSUME t \notin strayed PROVE Straight(s, Q, W)
    OBVIOUS
  <2>1. Straight(s, sending[t], W)
    BY <1>3, <1>4, LeftAlone
  <2> QED
    BY <1>2, <2>1 DEF Straight
<1>8. strayed' \subseteq NewTab /\ \A u \in NewTab \ {t} : u \in strayed => u \in strayed'
  BY LeftAlone
<1> QED
  BY <1>2, <1>3, <1>4, <1>5, <1>6, <1>7, <1>8, FormMoves

\* The row of a call that has gone on.
GoesOn(t, c, v, F) == sending' = [sending EXCEPT ![t][c].step = v, ![t][c].found = F]
Becomes(t, c, q) == sending' = [sending EXCEPT ![t][c] = q]

LEMMA CallGoesOn ==
  ASSUME InitiateFormInv, NEW t \in NewTab, NEW c \in NewCall, sending[t][c] # NULL,
         NEW v \in {"look", "warn", "create", "created"}, NEW F \in SUBSET Initiated,
         GoesOn(t, c, v, F)
  PROVE  \E q \in Sending : /\ Becomes(t, c, q)
                            /\ q.choice = sending[t][c].choice
                            /\ q.override = sending[t][c].override /\ q.step = v /\ q.found = F
<1>1. PICK h \in Sending : h = sending[t][c]
  BY LeftAlone
<1>2. PICK g \in Sending : g = [h EXCEPT !.step = v]
  BY DEF Sending
<1>3. PICK q \in Sending : q = [g EXCEPT !.found = F]
  BY DEF Sending
<1>4. /\ q.choice = sending[t][c].choice /\ q.override = sending[t][c].override
      /\ q.step = v /\ q.found = F
  BY <1>1, <1>2, <1>3 DEF Sending
<1>5. PICK B : B = [sending EXCEPT ![t][c].step = v]
  OBVIOUS
<1>6. B = [sending EXCEPT ![t][c] = g]
  BY <1>1, <1>2, <1>5, Zenon
<1>7. B[t][c] = g /\ B \in [NewTab -> [NewCall -> Sending \cup {NULL}]]
  BY <1>6, LeftAlone DEF InitiateFormInv, InitiateFormTypeOK
<1>8. sending' = [B EXCEPT ![t][c].found = F]
  BY <1>5, Zenon DEF GoesOn
<1>9. sending' = [B EXCEPT ![t][c] = q]
  BY <1>3, <1>7, <1>8, Zenon
<1>10. sending' = [sending EXCEPT ![t][c] = q]
  BY <1>6, <1>9 DEF InitiateFormInv, InitiateFormTypeOK
<1> QED
  BY <1>4, <1>10, Zenon DEF Becomes

LEMMA LookKeeps ==
  ASSUME InitiateFormInv, NEW t \in NewTab, NEW c \in NewCall, LookBeforeCreating(t, c)
  PROVE  InitiateFormInv'
<1>1. sending[t][c] # NULL /\ UNCHANGED <<initiated, sheet, warned, strayed>>
  BY DEF LookBeforeCreating, Sent
<1>2. PICK F \in SUBSET Initiated :
        F = IF sending[t][c].override THEN {} ELSE DuplicatesOf(sending[t][c].choice)
  BY DEF DuplicatesOf
<1>3. PICK v \in {"create", "warn"} : v = IF F = {} THEN "create" ELSE "warn"
  OBVIOUS
<1>4. GoesOn(t, c, v, F)
  BY <1>2, <1>3, Zenon DEF LookBeforeCreating, GoesOn
<1>5. PICK q \in Sending : /\ Becomes(t, c, q)
                           /\ q.choice = sending[t][c].choice
                           /\ q.override = sending[t][c].override /\ q.step = v /\ q.found = F
  <2>1. v \in {"look", "warn", "create", "created"}
    OBVIOUS
  <2> QED
    BY <1>1, <1>4, <2>1, CallGoesOn
<1>6. CallTrue(initiated', t, q)
  <2>1. \A i \in F : IsThere(initiated, i, q.choice)
    BY <1>2, <1>5 DEF DuplicatesOf, IsThere
  <2> QED
    BY <1>1, <1>3, <1>5, <2>1 DEF CallTrue
<1>7. initiated' \in [Initiated -> InitiatedRow \cup {NULL}] /\ initiated' = initiated
  BY <1>1, LeftAlone
<1> QED
  BY <1>1, <1>5, <1>6, <1>7, CallMoves DEF Becomes

LEMMA RowAdded ==
  ASSUME InitiateFormInv, NEW i \in Initiated, initiated[i] = NULL, NEW a \in InitiatedRow,
         initiated' = [initiated EXCEPT ![i] = a]
  PROVE  /\ initiated' \in [Initiated -> InitiatedRow \cup {NULL}] /\ initiated'[i] = a
         /\ \A j \in Initiated : initiated[j] # NULL => initiated'[j] = initiated[j]
BY DEF InitiateFormInv, InitiateFormTypeOK

LEMMA CreateKeeps ==
  ASSUME InitiateFormInv, NEW t \in NewTab, NEW c \in NewCall, CreateInitiated(t, c)
  PROVE  InitiateFormInv'
<1>1. sending[t][c] # NULL /\ UNCHANGED <<sheet, warned, strayed>>
  BY DEF CreateInitiated, Sent
<1>2. PICK i \in Initiated :
        /\ initiated[i] = NULL
        /\ initiated' = [initiated EXCEPT ![i] = [choice |-> sending[t][c].choice, by |-> t]]
        /\ GoesOn(t, c, "created", {i})
  BY Zenon DEF CreateInitiated, GoesOn
<1>3. PICK a \in InitiatedRow : a = [choice |-> sending[t][c].choice, by |-> t]
  <2>1. sending[t][c].choice \in Choice
    BY <1>1, LeftAlone DEF Sending
  <2> QED
    BY <2>1 DEF InitiatedRow
<1>4. a.by = t /\ a # NULL
  BY <1>3, NoSheetAssumption
<1>5. PICK q \in Sending : /\ Becomes(t, c, q)
                           /\ q.choice = sending[t][c].choice
                           /\ q.override = sending[t][c].override /\ q.step = "created"
                           /\ q.found = {i}
  <2>1. "created" \in {"look", "warn", "create", "created"} /\ {i} \in SUBSET Initiated
    OBVIOUS
  <2> QED
    BY <1>1, <1>2, <2>1, CallGoesOn
<1>6. /\ initiated' \in [Initiated -> InitiatedRow \cup {NULL}] /\ initiated'[i] = a
      /\ \A j \in Initiated : initiated[j] # NULL => initiated'[j] = initiated[j]
  BY <1>2, <1>3, RowAdded
<1>7. CallTrue(initiated', t, q)
  BY <1>4, <1>5, <1>6 DEF CallTrue, IsMadeBy
<1> QED
  BY <1>1, <1>5, <1>6, <1>7, CallMoves DEF Becomes

LEMMA AcceptedKeeps ==
  ASSUME InitiateFormInv, NEW x \in Choice, AcceptedElsewhere(x)
  PROVE  InitiateFormInv'
<1>1. PICK i \in Initiated :
        initiated[i] = NULL /\ initiated' = [initiated EXCEPT ![i] = [choice |-> x, by |-> NULL]]
  BY DEF AcceptedElsewhere
<1>2. UNCHANGED <<sheet, sending, warned, strayed>>
  BY DEF AcceptedElsewhere
<1>3. PICK a \in InitiatedRow : a = [choice |-> x, by |-> NULL]
  <2>1. NULL \in NewTab \cup {NULL}
    OBVIOUS
  <2> QED
    BY <2>1 DEF InitiatedRow
<1>4. /\ initiated' \in [Initiated -> InitiatedRow \cup {NULL}]
      /\ \A j \in Initiated : initiated[j] # NULL => initiated'[j] = initiated[j]
  BY <1>1, <1>3, RowAdded
<1>5. InitiateFormTypeOK'
  BY <1>2, <1>4 DEF InitiateFormInv, InitiateFormTypeOK
<1>6. ASSUME NEW t \in NewTab
      PROVE  /\ SheetTrue(initiated', t, sheet'[t])
             /\ \A c \in NewCall : CallTrue(initiated', t, sending'[t][c])
             /\ t \in strayed' \/ Straight(sheet'[t], sending'[t], warned'[t])
  <2>1. /\ sheet[t] \in Sheet \cup {NULL} /\ SheetTrue(initiated, t, sheet[t])
        /\ \A c \in NewCall : /\ sending[t][c] \in Sending \cup {NULL}
                              /\ CallTrue(initiated, t, sending[t][c])
        /\ t \in strayed \/ Straight(sheet[t], sending[t], warned[t])
    BY DEF InitiateFormInv, InitiateFormTypeOK
  <2>2. /\ SheetTrue(initiated', t, sheet[t])
        /\ \A c \in NewCall : CallTrue(initiated', t, sending[t][c])
    BY <1>4, <2>1, StaysTrue
  <2> QED
    BY <1>2, <2>1, <2>2, Zenon
<1> QED
  BY <1>5, <1>6, Zenon DEF InitiateFormInv

\* An answer that is shown, or that comes to a form that was left.
LEMMA AnswerKeepsForm ==
  ASSUME InitiateFormInv, NEW t \in NewTab, NEW c \in NewCall, sending[t][c] # NULL,
         NEW s, AnswerForm(t, c, s), NEW W \in SUBSET Choice,
         warned[t] \subseteq W, warned' = [warned EXCEPT ![t] = W],
         sheet[t] # NULL => /\ s \in Sheet /\ SheetTrue(initiated, t, s)
                            /\ s.choice = sheet[t].choice
                            /\ t \notin strayed /\ s.phase = "duplicate_warning" => s.choice \in W
  PROVE  InitiateFormInv'
<1>1. PICK Q \in [NewCall -> Sending \cup {NULL}] : Q = [sending[t] EXCEPT ![c] = NULL]
  BY LeftAlone
<1>2. /\ Q[c] = NULL /\ \A d \in NewCall \ {c} : Q[d] = sending[t][d]
      /\ sending' = [sending EXCEPT ![t] = Q]
  <2>1. sending' = [sending EXCEPT ![t] = [sending[t] EXCEPT ![c] = NULL]]
    BY Zenon DEF AnswerForm
  <2> QED
    BY <1>1, <2>1, LeftAlone
<1>3. \A d \in NewCall : CallTrue(initiated, t, Q[d])
  <2>1. CallTrue(initiated, t, NULL)
    BY DEF CallTrue
  <2> QED
    BY <1>2, <2>1, LeftAlone
<1>4. /\ initiated' \in [Initiated -> InitiatedRow \cup {NULL}] /\ initiated' = initiated
      /\ strayed' = strayed /\ strayed' \subseteq NewTab
  BY LeftAlone DEF AnswerForm
<1>5. \A d \in NewCall : CallTrue(initiated', t, Q[d])
  BY <1>3, <1>4, Zenon
<1>6. CASE sheet[t] = NULL
  <2>1. sheet' = [sheet EXCEPT ![t] = NULL]
    BY <1>6, LeftAlone DEF AnswerForm
  <2>2. SheetTrue(initiated', t, NULL)
    BY DEF SheetTrue
  <2>3. t \in strayed \/ Straight(NULL, Q, W)
    BY <1>2, <1>6, LeftAlone DEF Straight
  <2> QED
    BY <1>2, <1>4, <1>5, <2>1, <2>2, <2>3, FormMoves
<1>7. CASE sheet[t] # NULL
  <2>1. sheet' = [sheet EXCEPT ![t] = s]
    BY <1>7 DEF AnswerForm
  <2>2. SheetTrue(initiated', t, s)
    BY <1>4, <1>7, Zenon
  <2>3. t \in strayed \/ Straight(s, Q, W)
    <3> SUFFICES ASSUME t \notin strayed PROVE Straight(s, Q, W)
      OBVIOUS
    <3>1. Straight(sheet[t], sending[t], warned[t])
      BY LeftAlone
    <3> QED
      BY <1>2, <1>7, <3>1 DEF Straight
  <2> QED
    BY <1>2, <1>4, <1>5, <1>7, <2>1, <2>2, <2>3, FormMoves
<1> QED
  BY <1>6, <1>7

LEMMA WarningKeeps ==
  ASSUME InitiateFormInv, NEW t \in NewTab, NEW c \in NewCall, AnswerWarning(t, c)
  PROVE  InitiateFormInv'
<1>1. PICK q \in Sending : q = sending[t][c] /\ q # NULL /\ q.step = "warn"
  BY LeftAlone DEF AnswerWarning, Sent
<1>2. q.found \in SUBSET Initiated /\ q.choice \in Choice
  BY DEF Sending
<1>3. q.found # {} /\ \A i \in q.found : IsThere(initiated, i, q.choice)
  BY <1>1, LeftAlone DEF CallTrue
<1>4. PICK W \in SUBSET Choice : W = IF sheet[t] = NULL THEN warned[t] ELSE warned[t] \cup {q.choice}
  BY <1>2, LeftAlone
<1>5. warned' = [warned EXCEPT ![t] = W] /\ warned[t] \subseteq W
  <2>1. warned' = IF sheet[t] = NULL THEN warned ELSE [warned EXCEPT ![t] = @ \cup {q.choice}]
    BY <1>1 DEF AnswerWarning
  <2> QED
    BY <1>4, <2>1, LeftAlone
<1>6. PICK s : s = [sheet[t] EXCEPT !.phase = "duplicate_warning", !.submitting = FALSE,
                      !.matches = q.found, !.pending = q.choice]
  OBVIOUS
<1>7. AnswerForm(t, c, s)
  BY <1>1, <1>6, Zenon DEF AnswerWarning
<1>8. ASSUME sheet[t] # NULL
      PROVE  /\ s \in Sheet /\ SheetTrue(initiated, t, s) /\ s.choice = sheet[t].choice
             /\ t \notin strayed /\ s.phase = "duplicate_warning" => s.choice \in W
  <2>1. PICK h \in Sheet : h = sheet[t]
    BY <1>8, LeftAlone
  <2>2. PICK r \in Sheet : r = [h EXCEPT !.phase = "duplicate_warning", !.submitting = FALSE,
                                  !.matches = q.found, !.pending = q.choice]
    BY <1>2 DEF Sheet
  <2>3. /\ r.phase = "duplicate_warning" /\ r.matches = q.found /\ r.pending = q.choice
        /\ r.choice = h.choice
    BY <2>2 DEF Sheet
  <2>4. s = r
    BY <1>6, <2>1, <2>2, Zenon
  <2>5. SheetTrue(initiated, t, r)
    BY <1>3, <2>3 DEF SheetTrue
  <2>6. t \notin strayed => h.choice = q.choice
    BY <1>1, <1>8, <2>1, LeftAlone DEF Straight
  <2>7. q.choice \in W
    BY <1>4, <1>8
  <2> QED
    BY <2>1, <2>3, <2>4, <2>5, <2>6, <2>7
<1> QED
  BY <1>1, <1>5, <1>7, <1>8, AnswerKeepsForm

LEMMA InitiatedKeeps ==
  ASSUME InitiateFormInv, NEW t \in NewTab, NEW c \in NewCall, AnswerInitiated(t, c)
  PROVE  InitiateFormInv'
<1>1. PICK q \in Sending : q = sending[t][c] /\ q # NULL /\ q.step = "created"
  BY LeftAlone DEF AnswerInitiated, Sent
<1>2. PICK i \in q.found :
        AnswerForm(t, c, [sheet[t] EXCEPT !.phase = "success", !.submitting = FALSE, !.made = i])
  BY <1>1, Zenon DEF AnswerInitiated
<1>3. i \in Initiated /\ IsMadeBy(initiated, i, t)
  <2>1. CallTrue(initiated, t, q)
    BY <1>1, LeftAlone
  <2> QED
    BY <1>1, <1>2, <2>1 DEF CallTrue, Sending
<1>4. PICK s : s = [sheet[t] EXCEPT !.phase = "success", !.submitting = FALSE, !.made = i]
  OBVIOUS
<1>5. AnswerForm(t, c, s)
  BY <1>2, <1>4, Zenon
<1>6. PICK W \in SUBSET Choice : W = warned[t] /\ warned' = [warned EXCEPT ![t] = W]
  BY LeftAlone DEF AnswerInitiated
<1>7. ASSUME sheet[t] # NULL
      PROVE  /\ s \in Sheet /\ SheetTrue(initiated, t, s) /\ s.choice = sheet[t].choice
             /\ t \notin strayed /\ s.phase = "duplicate_warning" => s.choice \in W
  <2>1. PICK h \in Sheet : h = sheet[t]
    BY <1>7, LeftAlone
  <2>2. PICK r \in Sheet : r = [h EXCEPT !.phase = "success", !.submitting = FALSE, !.made = i]
    BY <1>3 DEF Sheet
  <2>3. r.phase = "success" /\ r.made = i /\ r.choice = h.choice
    BY <2>2 DEF Sheet
  <2>4. s = r
    BY <1>4, <2>1, <2>2, Zenon
  <2>5. SheetTrue(initiated, t, r)
    BY <1>3, <2>3, InitiateFormAssumption DEF SheetTrue
  <2> QED
    BY <2>1, <2>3, <2>4, <2>5
<1> QED
  BY <1>1, <1>5, <1>6, <1>7, AnswerKeepsForm

LEMMA FormFailsKeep ==
  ASSUME InitiateFormInv, NEW t \in NewTab, NEW c \in NewCall, InitiatingFails(t, c)
  PROVE  InitiateFormInv'
<1>1. sending[t][c] # NULL
  BY DEF InitiatingFails
<1>2. PICK s : s = [sheet[t] EXCEPT !.submitting = FALSE, !.error = TRUE]
  OBVIOUS
<1>3. AnswerForm(t, c, s)
  BY <1>2, Zenon DEF InitiatingFails
<1>4. PICK W \in SUBSET Choice : W = warned[t] /\ warned' = [warned EXCEPT ![t] = W]
  BY LeftAlone DEF InitiatingFails
<1>5. ASSUME sheet[t] # NULL
      PROVE  /\ s \in Sheet /\ SheetTrue(initiated, t, s) /\ s.choice = sheet[t].choice
             /\ t \notin strayed /\ s.phase = "duplicate_warning" => s.choice \in W
  <2>1. PICK h \in Sheet : h = sheet[t]
    BY <1>5, LeftAlone
  <2>2. PICK r \in Sheet : r = [h EXCEPT !.submitting = FALSE, !.error = TRUE]
    BY DEF Sheet
  <2>3. /\ r.phase = h.phase /\ r.choice = h.choice /\ r.matches = h.matches
        /\ r.pending = h.pending /\ r.made = h.made
    BY <2>2 DEF Sheet
  <2>4. s = r
    BY <1>2, <2>1, <2>2, Zenon
  <2>5. SheetTrue(initiated, t, h) /\ h # NULL /\ (t \in strayed \/ Straight(h, sending[t], W))
    BY <1>4, <1>5, <2>1, LeftAlone
  <2>6. SheetTrue(initiated, t, r)
    BY <2>3, <2>5 DEF SheetTrue
  <2>7. t \notin strayed /\ r.phase = "duplicate_warning" => r.choice \in W
    BY <2>3, <2>5 DEF Straight
  <2> QED
    BY <2>1, <2>3, <2>4, <2>6, <2>7
<1> QED
  BY <1>1, <1>3, <1>4, <1>5, AnswerKeepsForm

LEMMA InitiateFormStep == InitiateFormInv /\ [InitiateFormNext]_initiateFormVars => InitiateFormInv'
<1> SUFFICES ASSUME InitiateFormInv, [InitiateFormNext]_initiateFormVars PROVE InitiateFormInv'
  OBVIOUS
<1>1. CASE UNCHANGED initiateFormVars
  BY <1>1, Zenon DEF initiateFormVars, InitiateFormInv, InitiateFormTypeOK
<1>2. ASSUME NEW t \in NewTab, handleOverride(t) PROVE InitiateFormInv'
  BY <1>2, SubmitFormKeeps DEF handleOverride
<1> QED
  BY <1>1, <1>2, AcceptedKeeps, NewPageKeeps, FieldsKeep, SubmitInitiateKeeps, LookKeeps, CreateKeeps,
     WarningKeeps, InitiatedKeeps, FormFailsKeep, Zenon DEF InitiateFormNext

-----------------------------------------------------------------------------
(***************************************************************************)
(* Direct threads.  Every row was inserted by a call of its own, whose     *)
(* client is the row's; a call is told to have created one when it has,    *)
(* and to be refused when it has not.                                      *)
(***************************************************************************)
CreationOK(D, E, c) ==
  c # NULL => /\ c.row # 0 => c.row \in DOMAIN D /\ D[c.row] = c.client
              /\ c.step \in {"validate", "insert", "refused"} => c.row = 0
              /\ c.step = "created" => c.row # 0
              /\ c.step = "insert" => c.client \in E
              /\ c.told = "created" => c.row # 0
              /\ c.told = "refused" => c.row = 0
              /\ c.step # "over" => c.told = NULL

\* Every row has one call.
RowsCalled(D, C) ==
  /\ \A n \in DOMAIN D : \E i \in ThreadCall : C[i] # NULL /\ C[i].row = n
  /\ \A i, j \in ThreadCall :
       C[i] # NULL /\ C[j] # NULL /\ C[i].row # 0 /\ C[i].row = C[j].row => i = j

WaitsApart(S, C) ==
  /\ \A t \in StarterTab : S[t] # NULL /\ S[t].waits # NULL => C[S[t].waits] # NULL
  /\ \A t, u \in StarterTab :
       S[t] # NULL /\ S[u] # NULL /\ S[t].waits # NULL /\ S[t].waits = S[u].waits => t = u

GeneralThreadsInv ==
  /\ GeneralThreadsTypeOK
  /\ \A i \in ThreadCall : CreationOK(direct, engaged, creation[i])
  /\ \A n \in DOMAIN direct : direct[n] \in engaged
  /\ RowsCalled(direct, creation)
  /\ WaitsApart(starter, creation)

LEMMA GeneralThreadsInitInv == GeneralThreadsInit => GeneralThreadsInv
<1> SUFFICES ASSUME GeneralThreadsInit PROVE GeneralThreadsInv
  OBVIOUS
<1>1. /\ engaged = {} /\ direct = <<>> /\ starter = [t \in StarterTab |-> NULL]
      /\ creation = [i \in ThreadCall |-> NULL]
  BY DEF GeneralThreadsInit
<1>2. GeneralThreadsTypeOK
  BY <1>1, GeneralThreadsAssumption DEF GeneralThreadsTypeOK
<1> QED
  BY <1>1, <1>2 DEF GeneralThreadsInv, CreationOK, RowsCalled, WaitsApart

LEMMA CallsFinite ==
  ASSUME NEW S \in SUBSET ThreadCall
  PROVE  IsFiniteSet(S)
<1>1. MaxCreations \in Int /\ 1 \in Int
  BY GeneralThreadsAssumption
<1>2. IsFiniteSet(1 .. MaxCreations)
  BY <1>1, FS_Interval
<1> QED
  BY <1>2, FS_Subset DEF ThreadCall

\* A call that has inserted nothing leaves room for its row.
LEMMA RoomForOne ==
  ASSUME GeneralThreadsInv, NEW i \in ThreadCall, creation[i] # NULL, creation[i].row = 0
  PROVE  Len(direct) + 1 <= MaxCreations
<1>1. /\ Len(direct) \in Nat /\ DOMAIN direct = 1 .. Len(direct) /\ MaxCreations \in Nat
      /\ direct \in Seq(Correspondent)
  BY GeneralThreadsAssumption DEF GeneralThreadsInv, GeneralThreadsTypeOK
<1> DEFINE S == DOMAIN direct
           T == ThreadCall \ {i}
           f == [n \in S |-> CHOOSE j \in ThreadCall : creation[j] # NULL /\ creation[j].row = n]
<1>2. \A n \in S : /\ f[n] \in ThreadCall /\ creation[f[n]] # NULL
                   /\ creation[f[n]].row = n
  BY DEF GeneralThreadsInv, RowsCalled
<1>3. \A n \in S : f[n] # i
  BY <1>1, <1>2
<1>4. f \in [S -> T]
  BY <1>2, <1>3
<1>5. f \in Injection(S, T)
  BY <1>2, <1>4 DEF Injection, IsInjective
<1>6. IsFiniteSet(ThreadCall) /\ Cardinality(ThreadCall) = MaxCreations
  <2>1. 1 \in Int /\ MaxCreations \in Int
    BY <1>1
  <2>2. /\ IsFiniteSet(1 .. MaxCreations)
        /\ Cardinality(1 .. MaxCreations) =
             IF 1 > MaxCreations THEN 0 ELSE MaxCreations - 1 + 1
    BY <2>1, FS_Interval, Zenon
  <2> QED
    BY <1>1, <2>2 DEF ThreadCall
<1>7. IsFiniteSet(T) /\ Cardinality(T) = MaxCreations - 1
  BY <1>6, FS_RemoveElement
<1>8. Cardinality(S) <= Cardinality(T)
  BY <1>5, <1>7, FS_Injection
<1>9. Cardinality(S) = Len(direct)
  BY <1>1, FS_Interval
<1> QED
  BY <1>1, <1>7, <1>8, <1>9

LEMMA ThreadsTold == GeneralThreadsInv => ThreadsAsTold
<1> SUFFICES ASSUME GeneralThreadsInv PROVE ThreadsAsTold
  OBVIOUS
<1>1. ASSUME NEW c \in Correspondent
      PROVE  LET rows == {n \in DOMAIN direct : direct[n] = c}
             IN  /\ Cardinality({i \in CallsFor(c) : creation[i].told = "created"})
                      <= Cardinality(rows)
                 /\ Cardinality(rows)
                      <= Cardinality({i \in CallsFor(c) : creation[i].told # "refused"})
                 /\ rows # {} => c \in listClients
  <2> DEFINE rows == {n \in DOMAIN direct : direct[n] = c}
             made == {i \in CallsFor(c) : creation[i].told = "created"}
             quiet == {i \in CallsFor(c) : creation[i].told # "refused"}
             f == [i \in made |-> creation[i].row]
             g == [n \in rows |->
                     CHOOSE j \in ThreadCall : creation[j] # NULL /\ creation[j].row = n]
  <2>1. /\ direct \in Seq(Correspondent) /\ DOMAIN direct = 1 .. Len(direct)
        /\ Len(direct) \in Nat
    BY DEF GeneralThreadsInv, GeneralThreadsTypeOK
  <2>2. IsFiniteSet(rows) /\ IsFiniteSet(quiet)
    <3>1. IsFiniteSet(DOMAIN direct)
      BY <2>1, FS_Interval
    <3>2. IsFiniteSet(rows)
      BY <3>1, FS_Subset
    <3>3. IsFiniteSet(quiet)
      BY CallsFinite DEF CallsFor
    <3> QED
      BY <3>2, <3>3
  <2>3. \A i \in made : /\ i \in ThreadCall /\ creation[i] # NULL /\ creation[i].client = c
                        /\ creation[i].row # 0 /\ creation[i].row \in DOMAIN direct
                        /\ direct[creation[i].row] = c
    BY DEF CallsFor, GeneralThreadsInv, CreationOK
  <2>4. f \in Injection(made, rows)
    <3>1. f \in [made -> rows]
      BY <2>3
    <3>2. \A i, j \in made : f[i] = f[j] => i = j
      BY <2>3 DEF GeneralThreadsInv, RowsCalled
    <3> QED
      BY <3>1, <3>2 DEF Injection, IsInjective
  <2>5. \A n \in rows : /\ g[n] \in ThreadCall /\ creation[g[n]] # NULL
                        /\ creation[g[n]].row = n
    BY DEF GeneralThreadsInv, RowsCalled
  <2>6. \A n \in rows : n # 0 /\ direct[n] = c
    BY <2>1
  <2>7. \A n \in rows : g[n] \in quiet
    <3> SUFFICES ASSUME NEW n \in rows PROVE g[n] \in quiet
      OBVIOUS
    <3>1. PICK i \in ThreadCall : i = g[n] /\ creation[i] # NULL /\ creation[i].row = n
      BY <2>5
    <3>2. CreationOK(direct, engaged, creation[i])
      BY DEF GeneralThreadsInv
    <3>3. creation[i].client = c /\ creation[i].told # "refused"
      BY <2>6, <3>1, <3>2 DEF CreationOK
    <3> QED
      BY <3>1, <3>3 DEF CallsFor
  <2>8. g \in Injection(rows, quiet)
    <3>1. g \in [rows -> quiet]
      BY <2>7
    <3>2. \A m, n \in rows : g[m] = g[n] => m = n
      BY <2>5
    <3> QED
      BY <3>1, <3>2 DEF Injection, IsInjective
  <2>9. Cardinality(made) <= Cardinality(rows)
    BY <2>2, <2>4, FS_Injection
  <2>10. Cardinality(rows) <= Cardinality(quiet)
    BY <2>2, <2>8, FS_Injection
  <2>11. rows # {} => c \in listClients
    BY DEF GeneralThreadsInv, listClients
  <2> QED
    BY <2>9, <2>10, <2>11
<1>2. ASSUME NEW i \in ThreadCall PROVE Cardinality(Waits(i)) <= 1
  <2>1. i # NULL
    BY GeneralThreadsAssumption DEF ThreadCall
  <2>2. \A t, u \in Waits(i) : t = u
    BY <2>1 DEF Waits, GeneralThreadsInv, WaitsApart
  <2>3. CASE Waits(i) = {}
    BY <2>3, FS_EmptySet
  <2>4. CASE Waits(i) # {}
    <3>1. PICK t : Waits(i) = {t}
      BY <2>2, <2>4
    <3>2. Cardinality({t}) = 1
      BY FS_Singleton
    <3> QED
      BY <3>1, <3>2
  <2> QED
    BY <2>3, <2>4
<1> QED
  BY <1>1, <1>2, Zenon DEF ThreadsAsTold

-----------------------------------------------------------------------------
\* What a tab may come to show while the calls and the rows stay.
LEMMA StarterKeeps ==
  ASSUME GeneralThreadsInv, NEW t \in StarterTab, NEW p \in StarterPage \cup {NULL},
         starter' = [starter EXCEPT ![t] = p], UNCHANGED <<engaged, direct, creation>>,
         p # NULL /\ p.waits # NULL => starter[t] # NULL /\ starter[t].waits = p.waits
  PROVE  GeneralThreadsInv'
<1>1. starter' \in [StarterTab -> StarterPage \cup {NULL}]
  BY DEF GeneralThreadsInv, GeneralThreadsTypeOK
<1>2. GeneralThreadsTypeOK'
  BY <1>1 DEF GeneralThreadsInv, GeneralThreadsTypeOK
<1>3. \A u \in StarterTab : starter'[u] = IF u = t THEN p ELSE starter[u]
  BY DEF GeneralThreadsInv, GeneralThreadsTypeOK
<1>4. WaitsApart(starter', creation)
  BY <1>3 DEF GeneralThreadsInv, WaitsApart
<1> QED
  BY <1>2, <1>4 DEF GeneralThreadsInv

LEMMA ClientJoinsKeeps ==
  ASSUME GeneralThreadsInv, NEW c \in Correspondent, ClientJoins(c)
  PROVE  GeneralThreadsInv'
<1>1. engaged' = engaged \cup {c} /\ UNCHANGED <<direct, starter, creation>>
  BY DEF ClientJoins
<1>2. GeneralThreadsTypeOK'
  BY <1>1 DEF GeneralThreadsInv, GeneralThreadsTypeOK
<1>3. \A i \in ThreadCall : CreationOK(direct, engaged', creation[i])
  BY <1>1 DEF GeneralThreadsInv, CreationOK
<1> QED
  BY <1>1, <1>2, <1>3 DEF GeneralThreadsInv

LEMMA StarterStepKeeps ==
  ASSUME GeneralThreadsInv, NEW t \in StarterTab,
         \/ AdminMessagesPage(t) \/ ExpandForm(t) \/ listClientsAction(t)
         \/ (\E c \in Correspondent : SelectClient(t, c)) \/ CancelForm(t)
  PROVE  GeneralThreadsInv'
<1> DEFINE Goal == \E p \in StarterPage \cup {NULL} :
                     /\ starter' = [starter EXCEPT ![t] = p]
                     /\ UNCHANGED <<engaged, direct, creation>>
                     /\ p # NULL /\ p.waits # NULL =>
                          starter[t] # NULL /\ starter[t].waits = p.waits
<1>0. starter[t] \in StarterPage \cup {NULL} /\ engaged \in SUBSET Correspondent
  BY DEF GeneralThreadsInv, GeneralThreadsTypeOK
<1>1. ASSUME AdminMessagesPage(t) PROVE Goal
  <2>1. [expanded |-> FALSE, fetching |-> FALSE, offers |-> {}, selected |-> NULL,
         waits |-> NULL] \in StarterPage
    BY DEF StarterPage
  <2>2. PICK p \in StarterPage :
          p = [expanded |-> FALSE, fetching |-> FALSE, offers |-> {}, selected |-> NULL,
               waits |-> NULL]
    BY <2>1
  <2>3. starter' = [starter EXCEPT ![t] = p] /\ UNCHANGED <<engaged, direct, creation>>
    BY <1>1, <2>2, Zenon DEF AdminMessagesPage
  <2>4. p.waits = NULL
    BY <2>2
  <2> QED
    BY <2>3, <2>4
<1>2. ASSUME ExpandForm(t) PROVE Goal
  <2>1. PICK h \in StarterPage : h = starter[t]
    BY <1>0, <1>2 DEF ExpandForm
  <2>2. PICK p \in StarterPage :
          p = [h EXCEPT !.expanded = TRUE, !.fetching = @ \/ h.offers = {}]
    BY DEF StarterPage
  <2>3. p.waits = h.waits
    BY <2>2 DEF StarterPage
  <2>4. starter' = [starter EXCEPT ![t].expanded = TRUE, ![t].fetching = @ \/ h.offers = {}]
    BY <1>2, <2>1, Zenon DEF ExpandForm
  <2>5. starter' = [starter EXCEPT ![t] = p]
    BY <2>1, <2>2, <2>4
  <2> QED
    BY <1>2, <2>1, <2>3, <2>5 DEF ExpandForm
<1>3. ASSUME listClientsAction(t) PROVE Goal
  <2>1. PICK h \in StarterPage : h = starter[t]
    BY <1>0, <1>3 DEF listClientsAction
  <2>2. PICK o \in SUBSET Correspondent :
          starter' = [starter EXCEPT ![t].fetching = FALSE, ![t].offers = o]
    BY <1>0, <1>3 DEF listClientsAction, listClients
  <2>3. PICK p \in StarterPage : p = [h EXCEPT !.fetching = FALSE, !.offers = o]
    BY DEF StarterPage
  <2>4. p.waits = h.waits
    BY <2>3 DEF StarterPage
  <2>5. starter' = [starter EXCEPT ![t] = p]
    BY <2>1, <2>2, <2>3
  <2> QED
    BY <1>3, <2>1, <2>4, <2>5 DEF listClientsAction
<1>4. ASSUME NEW c \in Correspondent, SelectClient(t, c) PROVE Goal
  <2>1. PICK h \in StarterPage : h = starter[t]
    BY <1>0, <1>4 DEF SelectClient, Enabled
  <2>2. PICK p \in StarterPage : p = [h EXCEPT !.selected = c]
    BY DEF StarterPage
  <2>3. p.waits = h.waits
    BY <2>2 DEF StarterPage
  <2>4. starter' = [starter EXCEPT ![t] = p]
    BY <1>4, <2>1, <2>2 DEF SelectClient
  <2>5. UNCHANGED <<engaged, direct, creation>> /\ starter[t] # NULL
    BY <1>4 DEF SelectClient, Enabled
  <2> QED
    BY <2>1, <2>3, <2>4, <2>5
<1>5. ASSUME CancelForm(t) PROVE Goal
  <2>1. PICK h \in StarterPage : h = starter[t]
    BY <1>0, <1>5 DEF CancelForm
  <2>2. PICK p \in StarterPage : p = [h EXCEPT !.expanded = FALSE, !.selected = NULL]
    BY DEF StarterPage
  <2>3. p.waits = h.waits
    BY <2>2 DEF StarterPage
  <2>4. starter' = [starter EXCEPT ![t] = p]
    BY <1>5, <2>1, <2>2 DEF CancelForm
  <2> QED
    BY <1>5, <2>1, <2>3, <2>4 DEF CancelForm
<1>6. Goal
  BY <1>1, <1>2, <1>3, <1>4, <1>5
<1> QED
  BY <1>6, StarterKeeps

LEMMA HandleCreateKeeps ==
  ASSUME GeneralThreadsInv, NEW t \in StarterTab, handleCreate(t)
  PROVE  GeneralThreadsInv'
<1>1. starter[t] # NULL /\ starter[t].selected # NULL /\ UNCHANGED <<engaged, direct>>
  BY DEF handleCreate, Enabled
<1>2. PICK i \in ThreadCall :
        /\ creation[i] = NULL
        /\ creation' = [creation EXCEPT ![i] =
             [client |-> starter[t].selected, step |-> "validate", row |-> 0, told |-> NULL]]
        /\ starter' = [starter EXCEPT ![t].waits = i]
  BY DEF handleCreate
<1>3. PICK h \in StarterPage : h = starter[t]
  BY <1>1 DEF GeneralThreadsInv, GeneralThreadsTypeOK
<1>4. PICK p \in StarterPage : p = [h EXCEPT !.waits = i]
  BY DEF StarterPage
<1>5. starter' = [starter EXCEPT ![t] = p] /\ p.waits = i /\ p # NULL
  BY <1>2, <1>3, <1>4, NoStarterAssumption DEF StarterPage
<1>6. h.selected \in Correspondent
  BY <1>1, <1>3 DEF StarterPage
<1>7. PICK r \in CreationRow :
        r = [client |-> h.selected, step |-> "validate", row |-> 0, told |-> NULL]
  <2>1. 0 \in 0 .. MaxCreations
    BY GeneralThreadsAssumption
  <2>2. NULL \in {"created", "refused", NULL}
    OBVIOUS
  <2>3. "validate" \in {"validate", "insert", "created", "refused", "over"}
    OBVIOUS
  <2> QED
    BY <1>6, <2>1, <2>2, <2>3 DEF CreationRow
<1>8. creation' = [creation EXCEPT ![i] = r]
  BY <1>2, <1>3, <1>7
<1>9. /\ starter' \in [StarterTab -> StarterPage \cup {NULL}]
      /\ creation' \in [ThreadCall -> CreationRow \cup {NULL}]
      /\ \A u \in StarterTab : starter'[u] = IF u = t THEN p ELSE starter[u]
      /\ \A j \in ThreadCall : creation'[j] = IF j = i THEN r ELSE creation[j]
  BY <1>5, <1>8 DEF GeneralThreadsInv, GeneralThreadsTypeOK
<1>10. GeneralThreadsTypeOK'
  BY <1>1, <1>9 DEF GeneralThreadsInv, GeneralThreadsTypeOK
<1>11. r.row = 0 /\ r.step = "validate" /\ r.told = NULL /\ NULL \notin {"created", "refused"}
  BY <1>7, GeneralThreadsAssumption
<1>12. \A j \in ThreadCall : CreationOK(direct, engaged, creation'[j])
  BY <1>9, <1>11 DEF GeneralThreadsInv, CreationOK
<1>13. RowsCalled(direct, creation')
  <2>1. \A n \in DOMAIN direct : \E j \in ThreadCall : creation'[j] # NULL /\ creation'[j].row = n
    BY <1>2, <1>9 DEF GeneralThreadsInv, RowsCalled
  <2>2. ASSUME NEW j \in ThreadCall, NEW k \in ThreadCall, creation'[j] # NULL,
               creation'[k] # NULL, creation'[j].row # 0, creation'[j].row = creation'[k].row
        PROVE  j = k
    BY <1>9, <1>11, <2>2 DEF GeneralThreadsInv, RowsCalled
  <2> QED
    BY <2>1, <2>2 DEF RowsCalled
<1>14. WaitsApart(starter', creation')
  <2>1. i # NULL /\ r # NULL
    BY GeneralThreadsAssumption, NoStarterAssumption DEF ThreadCall
  <2>2. \A u \in StarterTab : starter[u] # NULL /\ starter[u].waits # NULL =>
            starter[u].waits # i /\ creation[starter[u].waits] # NULL
    BY <1>2 DEF GeneralThreadsInv, WaitsApart
  <2>3. \A u \in StarterTab : starter[u] # NULL => starter[u].waits \in ThreadCall \cup {NULL}
    BY DEF GeneralThreadsInv, GeneralThreadsTypeOK, StarterPage
  <2>4. \A u \in StarterTab : starter'[u] # NULL /\ starter'[u].waits # NULL =>
            creation'[starter'[u].waits] # NULL
    BY <1>5, <1>9, <2>1, <2>2, <2>3
  <2>5. ASSUME NEW u \in StarterTab, NEW v \in StarterTab, starter'[u] # NULL,
               starter'[v] # NULL, starter'[u].waits # NULL, starter'[u].waits = starter'[v].waits
        PROVE  u = v
    BY <1>5, <1>9, <2>2, <2>5 DEF GeneralThreadsInv, WaitsApart
  <2> QED
    BY <2>4, <2>5 DEF WaitsApart
<1> QED
  BY <1>1, <1>10, <1>12, <1>13, <1>14, Zenon DEF GeneralThreadsInv

-----------------------------------------------------------------------------
\* A call moves on while the rows stay, and a tab may stop to wait.
LEMMA CreationKeeps ==
  ASSUME GeneralThreadsInv, NEW i \in ThreadCall, NEW r \in CreationRow, creation[i] # NULL,
         creation' = [creation EXCEPT ![i] = r], UNCHANGED <<engaged, direct>>,
         r.row = creation[i].row, CreationOK(direct, engaged, r),
         starter' \in [StarterTab -> StarterPage \cup {NULL}],
         \A t \in StarterTab : starter'[t] # NULL /\ starter'[t].waits # NULL =>
            starter[t] # NULL /\ starter[t].waits = starter'[t].waits
  PROVE  GeneralThreadsInv'
<1>1. /\ creation' \in [ThreadCall -> CreationRow \cup {NULL}]
      /\ \A j \in ThreadCall : creation'[j] = IF j = i THEN r ELSE creation[j]
  BY DEF GeneralThreadsInv, GeneralThreadsTypeOK
<1>2. GeneralThreadsTypeOK'
  BY <1>1 DEF GeneralThreadsInv, GeneralThreadsTypeOK
<1>3. \A j \in ThreadCall : CreationOK(direct, engaged, creation'[j])
  BY <1>1, Zenon DEF GeneralThreadsInv
<1>4. r # NULL
  BY NoStarterAssumption
<1>5. RowsCalled(direct, creation')
  BY <1>1, <1>4 DEF GeneralThreadsInv, RowsCalled
<1>6. WaitsApart(starter', creation')
  <2>1. \A t \in StarterTab : starter'[t] # NULL /\ starter'[t].waits # NULL =>
            starter'[t].waits \in ThreadCall
    BY DEF StarterPage
  <2>2. \A t \in StarterTab : starter'[t] # NULL /\ starter'[t].waits # NULL =>
            creation[starter'[t].waits] # NULL
    BY DEF GeneralThreadsInv, WaitsApart
  <2>3. \A t \in StarterTab : starter'[t] # NULL /\ starter'[t].waits # NULL =>
            creation'[starter'[t].waits] # NULL
    BY <1>1, <1>4, <2>1, <2>2
  <2>4. ASSUME NEW u \in StarterTab, NEW v \in StarterTab, starter'[u] # NULL,
               starter'[v] # NULL, starter'[u].waits # NULL, starter'[u].waits = starter'[v].waits
        PROVE  u = v
    BY <2>4 DEF GeneralThreadsInv, WaitsApart
  <2> QED
    BY <2>3, <2>4 DEF WaitsApart
<1> QED
  BY <1>2, <1>3, <1>5, <1>6, Zenon DEF GeneralThreadsInv

LEMMA ValidateKeeps ==
  ASSUME GeneralThreadsInv, NEW i \in ThreadCall, ValidateClient(i)
  PROVE  GeneralThreadsInv'
<1>1. /\ creation[i] # NULL /\ creation[i].step = "validate"
      /\ UNCHANGED <<engaged, direct, starter>>
  BY DEF ValidateClient, CreationAt
<1>2. PICK h \in CreationRow : h = creation[i]
  BY <1>1 DEF GeneralThreadsInv, GeneralThreadsTypeOK
<1>3. CreationOK(direct, engaged, h)
  BY <1>2 DEF GeneralThreadsInv
<1>4. PICK s \in {"insert", "refused"} :
        /\ creation' = [creation EXCEPT ![i].step = s]
        /\ s = "insert" => h.client \in engaged
  BY <1>2 DEF ValidateClient, listClients
<1>5. PICK r \in CreationRow : r = [h EXCEPT !.step = s]
  BY DEF CreationRow
<1>6. r.row = h.row /\ r.told = h.told /\ r.client = h.client /\ r.step = s
  BY <1>5 DEF CreationRow
<1>7. creation' = [creation EXCEPT ![i] = r]
  BY <1>2, <1>4, <1>5
<1>8. CreationOK(direct, engaged, r)
  BY <1>1, <1>2, <1>3, <1>4, <1>6, NoStarterAssumption, GeneralThreadsAssumption DEF CreationOK
<1>9. starter' \in [StarterTab -> StarterPage \cup {NULL}]
  BY <1>1 DEF GeneralThreadsInv, GeneralThreadsTypeOK
<1> QED
  BY <1>1, <1>2, <1>6, <1>7, <1>8, <1>9, CreationKeeps

LEMMA InsertThreadKeeps ==
  ASSUME GeneralThreadsInv, NEW i \in ThreadCall, createGeneralThread(i)
  PROVE  GeneralThreadsInv'
<1>1. creation[i] # NULL /\ creation[i].step = "insert" /\ UNCHANGED <<engaged, starter>>
  BY DEF createGeneralThread, CreationAt
<1>2. PICK h \in CreationRow : h = creation[i]
  BY <1>1 DEF GeneralThreadsInv, GeneralThreadsTypeOK
<1>3. CreationOK(direct, engaged, h)
  BY <1>2 DEF GeneralThreadsInv
<1>4. h.row = 0 /\ h.told = NULL /\ h.client \in engaged /\ h.client \in Correspondent
  BY <1>1, <1>2, <1>3 DEF CreationOK, CreationRow
<1>5. CASE creation' = [creation EXCEPT ![i].step = "refused"] /\ UNCHANGED direct
  <2>1. PICK r \in CreationRow : r = [h EXCEPT !.step = "refused"]
    BY DEF CreationRow
  <2>2. r.row = h.row /\ r.told = h.told /\ r.client = h.client /\ r.step = "refused"
    BY <2>1 DEF CreationRow
  <2>3. creation' = [creation EXCEPT ![i] = r]
    BY <1>2, <1>5, <2>1
  <2>4. CreationOK(direct, engaged, r)
    BY <1>4, <2>2, GeneralThreadsAssumption DEF CreationOK
  <2>5. starter' \in [StarterTab -> StarterPage \cup {NULL}]
    BY <1>1 DEF GeneralThreadsInv, GeneralThreadsTypeOK
  <2> QED
    BY <1>1, <1>2, <1>5, <2>2, <2>3, <2>4, <2>5, CreationKeeps
<1>6. CASE /\ direct' = Append(direct, creation[i].client)
           /\ creation' = [creation EXCEPT ![i].step = "created", ![i].row = Len(direct')]
  <2>1. PICK n \in Nat : n = Len(direct) /\ DOMAIN direct = 1 .. n
    BY DEF GeneralThreadsInv, GeneralThreadsTypeOK
  <2>2. n + 1 <= MaxCreations /\ MaxCreations \in Nat
    BY <1>1, <1>2, <1>4, <2>1, RoomForOne, GeneralThreadsAssumption
  <2>3. PICK c \in Correspondent : c = h.client /\ c \in engaged
    BY <1>4
  <2>4. direct \in Seq(Correspondent)
    BY DEF GeneralThreadsInv, GeneralThreadsTypeOK
  <2>5. direct' = Append(direct, c)
    BY <1>2, <1>6, <2>3
  <2>6. /\ direct' \in Seq(Correspondent) /\ Len(direct') = n + 1
        /\ DOMAIN direct' = 1 .. n + 1 /\ direct'[n + 1] = c
        /\ \A m \in 1 .. n : direct'[m] = direct[m]
    BY <2>1, <2>4, <2>5
  <2>7. n + 1 \in 0 .. MaxCreations /\ n + 1 # 0
    BY <2>2
  <2>8. PICK r \in CreationRow : r = [h EXCEPT !.step = "created", !.row = n + 1]
    BY <2>7 DEF CreationRow
  <2>9. r.row = n + 1 /\ r.told = NULL /\ r.client = c /\ r.step = "created"
    BY <1>4, <2>3, <2>8 DEF CreationRow
  <2>10. creation' = [creation EXCEPT ![i].step = "created", ![i].row = n + 1]
    BY <1>6, <2>6, Zenon
  <2>11. creation' = [creation EXCEPT ![i] = r]
    BY <1>2, <2>8, <2>10
  <2>12. /\ creation' \in [ThreadCall -> CreationRow \cup {NULL}]
         /\ \A j \in ThreadCall : creation'[j] = IF j = i THEN r ELSE creation[j]
    BY <2>11 DEF GeneralThreadsInv, GeneralThreadsTypeOK
  <2>13. GeneralThreadsTypeOK'
    BY <1>1, <2>2, <2>6, <2>12 DEF GeneralThreadsInv, GeneralThreadsTypeOK
  <2>14. ASSUME NEW j \in ThreadCall PROVE CreationOK(direct', engaged, creation'[j])
    <3>1. CASE j = i
      <4>1. r.row \in DOMAIN direct' /\ direct'[r.row] = r.client
        BY <2>1, <2>6, <2>9
      <4>2. CreationOK(direct', engaged, r)
        BY <2>7, <2>9, <4>1, GeneralThreadsAssumption DEF CreationOK
      <4> QED
        BY <2>12, <3>1, <4>2, Zenon
    <3>2. CASE j # i
      <4>1. creation'[j] = creation[j] /\ CreationOK(direct, engaged, creation[j])
        BY <2>12, <3>2 DEF GeneralThreadsInv
      <4>2. PICK x : x = creation[j]
        OBVIOUS
      <4>3. CreationOK(direct', engaged, x)
        BY <2>1, <2>6, <4>1, <4>2 DEF CreationOK
      <4> QED
        BY <4>1, <4>2, <4>3, Zenon
    <3> QED
      BY <3>1, <3>2
  <2>15. \A m \in DOMAIN direct' : direct'[m] \in engaged
    BY <2>1, <2>3, <2>6 DEF GeneralThreadsInv
  <2>16. r # NULL
    BY NoStarterAssumption
  <2>17. \A j \in ThreadCall : creation[j] # NULL => creation[j].row # n + 1
    <3> SUFFICES ASSUME NEW j \in ThreadCall, creation[j] # NULL, creation[j].row = n + 1
                 PROVE  FALSE
      OBVIOUS
    <3>1. CreationOK(direct, engaged, creation[j])
      BY DEF GeneralThreadsInv
    <3>2. n + 1 \in DOMAIN direct
      BY <2>7, <3>1 DEF CreationOK
    <3> QED
      BY <2>1, <3>2
  <2>18. RowsCalled(direct', creation')
    <3>1. ASSUME NEW m \in DOMAIN direct'
          PROVE  \E j \in ThreadCall : creation'[j] # NULL /\ creation'[j].row = m
      <4>1. CASE m = n + 1
        BY <2>9, <2>12, <2>16, <4>1
      <4>2. CASE m # n + 1
        <5>1. m \in DOMAIN direct /\ m # 0
          BY <2>1, <2>6, <4>2
        <5>2. PICK j \in ThreadCall : creation[j] # NULL /\ creation[j].row = m
          BY <5>1 DEF GeneralThreadsInv, RowsCalled
        <5>3. j # i
          BY <1>2, <1>4, <5>1, <5>2
        <5> QED
          BY <2>12, <5>2, <5>3
      <4> QED
        BY <4>1, <4>2
    <3>2. ASSUME NEW j \in ThreadCall, NEW k \in ThreadCall, creation'[j] # NULL,
                 creation'[k] # NULL, creation'[j].row # 0,
                 creation'[j].row = creation'[k].row
          PROVE  j = k
      BY <2>9, <2>12, <2>17, <3>2 DEF GeneralThreadsInv, RowsCalled
    <3> QED
      BY <3>1, <3>2 DEF RowsCalled
  <2>19. WaitsApart(starter, creation')
    <3>1. \A t \in StarterTab : starter[t] # NULL /\ starter[t].waits # NULL =>
             starter[t].waits \in ThreadCall /\ creation[starter[t].waits] # NULL
      BY DEF GeneralThreadsInv, GeneralThreadsTypeOK, StarterPage, WaitsApart
    <3>2. \A t \in StarterTab : starter[t] # NULL /\ starter[t].waits # NULL =>
             creation'[starter[t].waits] # NULL
      BY <2>12, <2>16, <3>1
    <3> QED
      BY <3>2 DEF GeneralThreadsInv, WaitsApart
  <2> QED
    BY <1>1, <2>13, <2>14, <2>15, <2>18, <2>19, Zenon DEF GeneralThreadsInv
<1> QED
  BY <1>5, <1>6 DEF createGeneralThread

LEMMA AnswerThreadKeeps ==
  ASSUME GeneralThreadsInv, NEW i \in ThreadCall,
         AnswerCreated(i) \/ AnswerRefused(i) \/ LoseAnswer(i)
  PROVE  GeneralThreadsInv'
<1>1. creation[i] # NULL /\ creation[i].step # "over" /\ UNCHANGED <<engaged, direct>>
  BY DEF AnswerCreated, AnswerRefused, LoseAnswer, CreationAt
<1>2. PICK h \in CreationRow : h = creation[i]
  BY <1>1 DEF GeneralThreadsInv, GeneralThreadsTypeOK
<1>3. CreationOK(direct, engaged, h) /\ h.told = NULL
  BY <1>1, <1>2 DEF GeneralThreadsInv, CreationOK
<1>4. PICK a \in {"created", "refused", NULL} :
        /\ creation' = [creation EXCEPT ![i].step = "over", ![i].told = a]
        /\ a = "created" => h.row # 0
        /\ a = "refused" => h.row = 0
  <2>1. CASE AnswerCreated(i)
    <3>1. PICK a \in {"created", NULL} : a = IF Waits(i) = {} THEN NULL ELSE "created"
      OBVIOUS
    <3>2. creation' = [creation EXCEPT ![i].step = "over", ![i].told = a]
      BY <2>1, <3>1, Zenon DEF AnswerCreated
    <3>3. h.row # 0
      BY <1>2, <1>3, <1>1, <2>1 DEF AnswerCreated, CreationAt, CreationOK
    <3>4. a # "refused" /\ a \in {"created", "refused", NULL}
      BY <3>1, GeneralThreadsAssumption
    <3> QED
      BY <3>2, <3>3, <3>4
  <2>2. CASE AnswerRefused(i)
    <3>1. PICK a \in {"refused", NULL} : a = IF Waits(i) = {} THEN NULL ELSE "refused"
      OBVIOUS
    <3>2. creation' = [creation EXCEPT ![i].step = "over", ![i].told = a]
      BY <2>2, <3>1, Zenon DEF AnswerRefused
    <3>3. h.row = 0
      BY <1>2, <1>3, <1>1, <2>2 DEF AnswerRefused, CreationAt, CreationOK
    <3>4. a # "created" /\ a \in {"created", "refused", NULL}
      BY <3>1, GeneralThreadsAssumption
    <3> QED
      BY <3>2, <3>3, <3>4
  <2>3. CASE LoseAnswer(i)
    <3>1. creation' = [creation EXCEPT ![i].step = "over"]
      BY <2>3, Zenon DEF LoseAnswer
    <3>2. PICK B : B = [creation EXCEPT ![i].step = "over"]
      OBVIOUS
    <3>3. B = [creation EXCEPT ![i].step = "over", ![i].told = NULL]
      BY <1>2, <1>3, <3>2 DEF CreationRow, GeneralThreadsInv, GeneralThreadsTypeOK
    <3>4. NULL \notin {"created", "refused"}
      BY GeneralThreadsAssumption
    <3>5. creation' = [creation EXCEPT ![i].step = "over", ![i].told = NULL]
      BY <3>1, <3>2, <3>3, Zenon
    <3> QED
      BY <3>4, <3>5
  <2> QED
    BY <2>1, <2>2, <2>3
<1>5. PICK r \in CreationRow : r = [h EXCEPT !.step = "over", !.told = a]
  BY DEF CreationRow
<1>6. r.row = h.row /\ r.told = a /\ r.client = h.client /\ r.step = "over"
  BY <1>5 DEF CreationRow
<1>7. creation' = [creation EXCEPT ![i] = r]
  BY <1>2, <1>4, <1>5
<1>8. CreationOK(direct, engaged, r)
  BY <1>1, <1>2, <1>3, <1>4, <1>6, NoStarterAssumption DEF CreationOK
<1>9. /\ starter' \in [StarterTab -> StarterPage \cup {NULL}]
      /\ \A t \in StarterTab : starter'[t] # NULL /\ starter'[t].waits # NULL =>
           starter[t] # NULL /\ starter[t].waits = starter'[t].waits
  <2>1. CASE AnswerCreated(i)
    <3>1. starter' = [t \in StarterTab |->
             IF t \in Waits(i)
             THEN [starter[t] EXCEPT !.expanded = FALSE, !.selected = NULL, !.waits = NULL]
             ELSE starter[t]]
      BY <2>1 DEF AnswerCreated
    <3>2. ASSUME NEW t \in Waits(i)
          PROVE  /\ starter'[t] \in StarterPage
                 /\ starter'[t].waits = NULL /\ t \in StarterTab
      <4>1. PICK p \in StarterPage : p = starter[t] /\ t \in StarterTab
        BY DEF Waits, GeneralThreadsInv, GeneralThreadsTypeOK
      <4> QED
        BY <3>1, <4>1 DEF StarterPage
    <3>3. \A t \in StarterTab \ Waits(i) : starter'[t] = starter[t]
      BY <3>1
    <3>4. \A t \in StarterTab : starter'[t] \in StarterPage \cup {NULL}
      BY <3>2, <3>3 DEF GeneralThreadsInv, GeneralThreadsTypeOK
    <3>5. starter' \in [StarterTab -> StarterPage \cup {NULL}]
      BY <3>1, <3>4
    <3> QED
      BY <3>2, <3>3, <3>5
  <2>2. CASE AnswerRefused(i)
    <3>1. starter' = [t \in StarterTab |->
             IF t \in Waits(i) THEN [starter[t] EXCEPT !.waits = NULL] ELSE starter[t]]
      BY <2>2 DEF AnswerRefused
    <3>2. ASSUME NEW t \in Waits(i)
          PROVE  /\ starter'[t] \in StarterPage
                 /\ starter'[t].waits = NULL /\ t \in StarterTab
      <4>1. PICK p \in StarterPage : p = starter[t] /\ t \in StarterTab
        BY DEF Waits, GeneralThreadsInv, GeneralThreadsTypeOK
      <4> QED
        BY <3>1, <4>1 DEF StarterPage
    <3>3. \A t \in StarterTab \ Waits(i) : starter'[t] = starter[t]
      BY <3>1
    <3>4. \A t \in StarterTab : starter'[t] \in StarterPage \cup {NULL}
      BY <3>2, <3>3 DEF GeneralThreadsInv, GeneralThreadsTypeOK
    <3>5. starter' \in [StarterTab -> StarterPage \cup {NULL}]
      BY <3>1, <3>4
    <3> QED
      BY <3>2, <3>3, <3>5
  <2>3. CASE LoseAnswer(i)
    BY <2>3 DEF LoseAnswer, GeneralThreadsInv, GeneralThreadsTypeOK
  <2> QED
    BY <2>1, <2>2, <2>3
<1> QED
  BY <1>1, <1>2, <1>6, <1>7, <1>8, <1>9, CreationKeeps

LEMMA GeneralThreadsStep ==
  GeneralThreadsInv /\ [GeneralThreadsNext]_generalThreadsVars => GeneralThreadsInv'
<1> SUFFICES ASSUME GeneralThreadsInv, [GeneralThreadsNext]_generalThreadsVars
             PROVE  GeneralThreadsInv'
  OBVIOUS
<1>0. CASE UNCHANGED generalThreadsVars
  BY <1>0 DEF generalThreadsVars, GeneralThreadsInv, GeneralThreadsTypeOK, CreationOK,
              RowsCalled, WaitsApart
<1>1. CASE \E c \in Correspondent : ClientJoins(c)
  BY <1>1, ClientJoinsKeeps
<1>2. ASSUME NEW t \in StarterTab,
             \/ AdminMessagesPage(t) \/ ExpandForm(t) \/ listClientsAction(t)
             \/ (\E c \in Correspondent : SelectClient(t, c)) \/ CancelForm(t)
      PROVE  GeneralThreadsInv'
  BY <1>2, StarterStepKeeps
<1>3. ASSUME NEW t \in StarterTab, handleCreate(t) PROVE GeneralThreadsInv'
  BY <1>3, HandleCreateKeeps
<1>4. ASSUME NEW i \in ThreadCall, ValidateClient(i) PROVE GeneralThreadsInv'
  BY <1>4, ValidateKeeps
<1>5. ASSUME NEW i \in ThreadCall, createGeneralThread(i) PROVE GeneralThreadsInv'
  BY <1>5, InsertThreadKeeps
<1>6. ASSUME NEW i \in ThreadCall, AnswerCreated(i) \/ AnswerRefused(i) \/ LoseAnswer(i)
      PROVE  GeneralThreadsInv'
  BY <1>6, AnswerThreadKeeps
<1> QED
  BY <1>0, <1>1, <1>2, <1>3, <1>4, <1>5, <1>6 DEF GeneralThreadsNext

=============================================================================
