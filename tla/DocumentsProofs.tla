------------------------- MODULE DocumentsProofs -------------------------
(***************************************************************************)
(* Proofs about Documents.  All invariants rest on one inductive           *)
(* invariant, DocumentsInv.  Beside the properties themselves it says what *)
(* a handler may rely on between two of its statements (HandlerOK), what   *)
(* it has seen of the bytes before it writes a verdict (JudgeOf), and that *)
(* at most one handler is switching a document to its next version: the    *)
(* one whose INSERT of the DocumentVersion row went through.               *)
(***************************************************************************)
EXTENDS Documents, FiniteSetTheorems, TLAPS

RowOK(d) ==
  /\ status[d] = "none" <=> version[d] = 0
  /\ status[d] = "none" => ~deletedAt[d]
  /\ version[d] <= 1 => storageKey[d] \in {NULL, 1}

Replacing == {"insertVersion", "supersede", "point", "auditReplace"}

Switching == {"supersede", "point"}

HandlerOf(p, d, v) ==
  /\ d \in Doc
  /\ status[d] # "none"
  /\ pc[p] \in Replacing => v \in 1 .. version[d] /\ v < MaxVersion
  /\ pc[p] \in Switching => v = version[d] /\ v + 1 \in versions[d]
  /\ pc[p] = "point" => v = 1 \/ v \in superseded[d]
  /\ pc[p] = "auditReplace" => v < version[d]

\* Bytes that are all a promotion has seen are clean; a quarantine has seen malware.
JudgeOf(p, k, seen) ==
  /\ pc[p] = "scan" => k \in Key /\ blob[k[1]][k[2]] # NULL /\ seen # {}
  /\ pc[p] = "promote" => seen \notin {{}, {"malware"}, {"invalid"}}
  /\ pc[p] = "quarantine" => "malware" \in seen

HandlerOK(p) ==
  pc[p] # "idle" =>
    /\ HandlerOf(p, work[p].doc, work[p].version)
    /\ JudgeOf(p, work[p].key, work[p].seen)

OneSwitches ==
  \A p, q \in Proc :
    pc[p] \in Switching /\ pc[q] \in Switching /\ work[p].doc = work[q].doc => p = q

DocumentsInv ==
  /\ DocumentsTypeOK
  /\ \A d \in Doc : RowOK(d)
  /\ \A p \in Proc : HandlerOK(p)
  /\ OneSwitches
  /\ VersionHistoryContiguous

-----------------------------------------------------------------------------
LEMMA InvHoldsInitially == DocumentsInit => DocumentsInv
<1> SUFFICES ASSUME DocumentsInit PROVE DocumentsInv
  OBVIOUS
<1>1. DocumentsTypeOK
  BY DocumentsAssumption DEF DocumentsInit, DocumentsTypeOK, Statement, Nothing, Work,
     DocAction
<1>2. /\ \A d \in Doc : /\ status[d] = "none" /\ version[d] = 0
                        /\ versions[d] = {} /\ superseded[d] = {}
                        /\ storageKey[d] = NULL /\ ~deletedAt[d]
      /\ \A p \in Proc : pc[p] = "idle"
  BY Zenon DEF DocumentsInit
<1>3. \A d \in Doc : RowOK(d)
  BY <1>2 DEF RowOK
<1>4. (\A p \in Proc : HandlerOK(p)) /\ OneSwitches
  BY <1>2 DEF HandlerOK, OneSwitches, Switching
<1>5. VersionHistoryContiguous
  <2> SUFFICES ASSUME NEW d \in Doc PROVE HistoryOf(d)
    BY DEF VersionHistoryContiguous
  <2>1. 2 .. 0 = {} /\ 2 .. 0 - 1 = {}
    OBVIOUS
  <2>2. version[d] = 0 /\ versions[d] = {} /\ superseded[d] = {}
    BY <1>2
  <2> QED
    BY <2>1, <2>2, Zenon DEF HistoryOf
<1> QED
  BY <1>1, <1>3, <1>4, <1>5 DEF DocumentsInv

(***************************************************************************)
(* What a handler relies on survives the steps of the others: rows only    *)
(* grow, and only the handler that switches a document moves its pointer.  *)
(***************************************************************************)
OnlyGrows(p) ==
  \A d \in Doc :
    /\ status[d] # "none" => status'[d] # "none"
    /\ versions[d] \subseteq versions'[d]
    /\ superseded[d] \subseteq superseded'[d]
    /\ version[d] <= version'[d]
    /\ version[d] # version'[d] =>
         status[d] = "none" \/ (pc[p] \in Switching /\ work[p].doc = d)

OthersStay(p) == \A q \in Proc : q # p => pc'[q] = pc[q] /\ work'[q] = work[q]

LEMMA HandlersStayOK ==
  ASSUME DocumentsInv, DocumentsTypeOK', NEW p \in Proc,
         OthersStay(p), OnlyGrows(p), blob' = blob, HandlerOK(p)'
  PROVE  (\A q \in Proc : HandlerOK(q))'
<1> SUFFICES ASSUME NEW q \in Proc, q # p, pc[q] # "idle" PROVE HandlerOK(q)'
  BY DEF HandlerOK, OthersStay
<1>1. pc'[q] = pc[q] /\ work'[q] = work[q]
  BY DEF OthersStay
<1>2. HandlerOf(q, work[q].doc, work[q].version) /\ JudgeOf(q, work[q].key, work[q].seen)
  BY DEF DocumentsInv, HandlerOK
<1>3. PICK d \in Doc, v \in Version \cup {NULL} : work[q].doc = d /\ work[q].version = v
  BY <1>2 DEF HandlerOf, DocumentsInv, DocumentsTypeOK, Work
<1>4. HandlerOf(q, d, v) /\ status[d] # "none"
  BY <1>2, <1>3 DEF HandlerOf
<1>5. version[d] \in Nat /\ version'[d] \in Nat /\ version[d] <= version'[d]
  BY DEF OnlyGrows, DocumentsInv, DocumentsTypeOK
<1>6. pc[q] \in Switching => version'[d] = version[d]
  BY <1>3, <1>4 DEF OnlyGrows, DocumentsInv, OneSwitches
<1>7. /\ status'[d] # "none"
      /\ versions[d] \subseteq versions'[d] /\ superseded[d] \subseteq superseded'[d]
  BY <1>4 DEF OnlyGrows
<1>8. v \in 1 .. version[d] => v \in 1 .. version'[d]
  BY <1>5
<1>9. pc'[q] = "auditReplace" => v < version'[d]
  BY <1>1, <1>4, <1>5, DocumentsAssumption DEF HandlerOf, Replacing, Version
<1>10. work'[q].doc = d /\ work'[q].version = v
  BY <1>1, <1>3
<1>11. HandlerOf(q, d, v)'
  BY <1>1, <1>4, <1>6, <1>7, <1>8, <1>9 DEF HandlerOf
<1>12. JudgeOf(q, work[q].key, work[q].seen)'
  BY <1>1, <1>2 DEF JudgeOf
<1> QED
  BY <1>10, <1>11, <1>12 DEF HandlerOf, HandlerOK

LEMMA OneStillSwitches ==
  ASSUME DocumentsInv, NEW p \in Proc, OthersStay(p),
         \/ pc'[p] \notin Switching
         \/ pc[p] \in Switching /\ work'[p] = work[p]
  PROVE  OneSwitches'
BY DEF DocumentsInv, OneSwitches, OthersStay

(***************************************************************************)
(* A step that leaves the rows and the bytes alone.                        *)
(***************************************************************************)
LEMMA RowsUnchanged ==
  ASSUME DocumentsInv, DocumentsTypeOK', NEW p \in Proc, OthersStay(p),
         UNCHANGED <<status, version, storageKey, versions, superseded, blob>>,
         \A c \in Doc : deletedAt'[c] => status[c] # "none",
         HandlerOK(p)', pc'[p] \notin Switching
  PROVE  DocumentsInv'
<1>1. OnlyGrows(p)
  BY DEF OnlyGrows, DocumentsInv, DocumentsTypeOK
<1>2. (\A q \in Proc : HandlerOK(q))' /\ OneSwitches'
  BY <1>1, HandlersStayOK, OneStillSwitches
<1>3. (\A d \in Doc : RowOK(d))' /\ VersionHistoryContiguous'
  BY DEF DocumentsInv, RowOK, VersionHistoryContiguous, HistoryOf
<1> QED
  BY <1>2, <1>3 DEF DocumentsInv

-----------------------------------------------------------------------------
(***************************************************************************)
(* Requests.                                                               *)
(***************************************************************************)
LEMMA BeginsWithAlone ==
  ASSUME DocumentsTypeOK, NEW p \in Proc, NEW w \in Work, NEW statement \in Statement,
         BeginWith(p, w, statement)
  PROVE  /\ OthersStay(p)
         /\ pc[p] = "idle" /\ pc'[p] = statement /\ work'[p] = w
         /\ pc' \in [Proc -> Statement]
         /\ work' \in [Proc -> Work]
BY DEF BeginWith, OthersStay, DocumentsTypeOK

LEMMA BeginsAlone ==
  ASSUME DocumentsTypeOK, NEW p \in Proc, NEW d \in Doc,
         NEW v \in Version \cup {NULL}, NEW statement \in Statement,
         Begin(p, d, v, statement)
  PROVE  /\ OthersStay(p)
         /\ pc[p] = "idle" /\ pc'[p] = statement
         /\ work'[p].doc = d /\ work'[p].version = v
         /\ pc' \in [Proc -> Statement]
         /\ work' \in [Proc -> Work]
<1>1. [doc |-> d, version |-> v, key |-> NULL, seen |-> {}] \in Work
  BY DEF Work
<1> QED
  BY <1>1, BeginsWithAlone DEF Begin

LEMMA InsertKeepsInv ==
  ASSUME DocumentsInv, NEW p \in Proc, NEW d \in Doc, insertPendingDocument(p, d)
  PROVE  DocumentsInv'
<1> USE DocumentsAssumption DEF insertPendingDocument, rowsVars
<1>0. DocumentsTypeOK /\ 1 \in Version /\ "setKey" \in Statement
  BY DEF DocumentsInv, Version, Statement
<1>1. /\ OthersStay(p) /\ pc[p] = "idle" /\ pc'[p] = "setKey"
      /\ work'[p].doc = d
      /\ pc' \in [Proc -> Statement]
      /\ work' \in [Proc -> Work]
  BY <1>0, BeginsAlone
<1>2. DocumentsTypeOK'
  BY <1>0, <1>1 DEF DocumentsTypeOK, Version
<1>3. version[d] = 0 /\ versions[d] = {} /\ superseded[d] = {}
  <2>1. RowOK(d) /\ HistoryOf(d)
    BY DEF DocumentsInv, VersionHistoryContiguous
  <2>2. version[d] = 0
    BY <2>1 DEF RowOK
  <2>3. 2 .. 0 + 1 = {} /\ 2 .. 0 = {}
    OBVIOUS
  <2> QED
    BY <2>1, <2>2, <2>3 DEF RowOK, HistoryOf
<1>4. \A c \in Doc : /\ c = d => version'[c] = 1 /\ status'[c] = "pending"
                     /\ c # d => version'[c] = version[c] /\ status'[c] = status[c]
  BY <1>0 DEF DocumentsTypeOK
<1>5. (\A c \in Doc : RowOK(c))'
  BY <1>0, <1>3, <1>4 DEF DocumentsInv, RowOK, DocumentsTypeOK
<1>6. OnlyGrows(p)
  <2>1. \A c \in Doc : version[c] \in Nat
    BY <1>0 DEF DocumentsTypeOK
  <2>2. \A c \in Doc : version[c] <= version'[c]
    BY <2>1, <1>3, <1>4
  <2>3. UNCHANGED <<versions, superseded>> /\ status[d] = "none"
    OBVIOUS
  <2> HIDE DEF insertPendingDocument
  <2> QED
    <3> SUFFICES ASSUME NEW c \in Doc
        PROVE  /\ status[c] # "none" => status'[c] # "none"
               /\ version[c] # version'[c] => status[c] = "none"
      BY <2>2, <2>3 DEF OnlyGrows
    <3> QED
      BY <2>3, <1>4
<1>7. HandlerOK(p)'
  BY <1>1, <1>4 DEF HandlerOK, HandlerOf, JudgeOf, Replacing, Switching
<1>8. (\A q \in Proc : HandlerOK(q))' /\ OneSwitches'
  BY <1>1, <1>2, <1>6, <1>7, HandlersStayOK, OneStillSwitches DEF Switching
<1>9. VersionHistoryContiguous'
  BY <1>3, <1>4 DEF DocumentsInv, VersionHistoryContiguous, HistoryOf
<1> QED
  BY <1>2, <1>5, <1>8, <1>9 DEF DocumentsInv

LEMMA PutKeepsInv ==
  ASSUME DocumentsInv, NEW d \in Doc, NEW v \in Version, PutObject(d, v)
  PROVE  DocumentsInv'
<1> USE DocumentsAssumption DEF PutObject, rowsVars, rowVars
<1>1. DocumentsTypeOK'
  BY DEF DocumentsInv, DocumentsTypeOK
<1>2. \A c \in Doc, w \in Version : blob[c][w] # NULL => blob'[c][w] # NULL
  <2> PICK bytes \in Bytes : blob' = [blob EXCEPT ![d][v] = bytes]
    OBVIOUS
  <2> QED
    BY DEF DocumentsInv, DocumentsTypeOK, Bytes
<1>3. (\A c \in Doc : RowOK(c))'
  BY DEF DocumentsInv, RowOK
<1>4. (\A q \in Proc : HandlerOK(q))'
  <2> SUFFICES ASSUME NEW q \in Proc, pc[q] # "idle"
      PROVE  HandlerOK(q)'
    BY DEF DocumentsInv, HandlerOK
  <2>1. HandlerOf(q, work[q].doc, work[q].version) /\ JudgeOf(q, work[q].key, work[q].seen)
    BY DEF DocumentsInv, HandlerOK
  <2>2. HandlerOf(q, work[q].doc, work[q].version)'
    BY <2>1 DEF HandlerOf
  <2>3. JudgeOf(q, work[q].key, work[q].seen)'
    BY <2>1, <1>2 DEF JudgeOf, Key
  <2> QED
    BY <2>2, <2>3 DEF HandlerOK
<1>5. OneSwitches' /\ VersionHistoryContiguous'
  BY DEF DocumentsInv, OneSwitches, VersionHistoryContiguous, HistoryOf
<1> QED
  BY <1>1, <1>3, <1>4, <1>5 DEF DocumentsInv

(***************************************************************************)
(* A request that begins with a read or with the tombstone.                *)
(***************************************************************************)
LEMMA BeginKeepsInv ==
  ASSUME DocumentsInv, NEW p \in Proc, NEW d \in Doc,
         NEW v \in Version \cup {NULL},
         NEW statement \in {"insertVersion", "auditDelete", "auditRecover"},
         Begin(p, d, v, statement),
         UNCHANGED <<rowVars, rowsVars, issued, blob, docAudit>>,
         deletedAt' \in [Doc -> BOOLEAN],
         \A c \in Doc : deletedAt'[c] => status[c] # "none",
         HandlerOf(p, d, v)'
  PROVE  DocumentsInv'
<1>1. DocumentsTypeOK /\ statement \in Statement
  BY DEF DocumentsInv, Statement
<1>2. /\ OthersStay(p) /\ pc'[p] = statement
      /\ work'[p].doc = d /\ work'[p].version = v
      /\ pc' \in [Proc -> Statement]
      /\ work' \in [Proc -> Work]
  BY <1>1, BeginsAlone
<1>3. DocumentsTypeOK'
  BY <1>1, <1>2 DEF DocumentsTypeOK, rowVars, rowsVars
<1>4. HandlerOK(p)'
  BY <1>2 DEF HandlerOK, HandlerOf, JudgeOf
<1> QED
  BY <1>2, <1>3, <1>4, RowsUnchanged DEF rowVars, rowsVars, Switching

LEMMA CompleteKeepsInv ==
  ASSUME DocumentsInv, NEW p \in Proc, NEW d \in Doc, NEW k \in Key, completeUpload(p, d, k)
  PROVE  DocumentsInv'
<1>1. /\ DocumentsTypeOK /\ status[d] # "none" /\ blob[k[1]][k[2]] # NULL
      /\ UNCHANGED <<rowVars, deletedAt, rowsVars, issued, blob, docAudit>>
  BY DEF DocumentsInv, completeUpload
<1> DEFINE w == [doc |-> d, version |-> NULL, key |-> k, seen |-> {blob[k[1]][k[2]]}]
<1>2. blob[k[1]][k[2]] \in Bytes
  BY <1>1 DEF DocumentsTypeOK, Key
<1>3. w \in Work
  BY <1>2 DEF Work
<1>4. BeginWith(p, w, "scan")
  BY DEF completeUpload
<1> HIDE DEF w
<1>5. /\ OthersStay(p) /\ pc'[p] = "scan" /\ work'[p] = w
      /\ pc' \in [Proc -> Statement] /\ work' \in [Proc -> Work]
  BY <1>1, <1>3, <1>4, BeginsWithAlone DEF Statement
<1>6. DocumentsTypeOK'
  BY <1>1, <1>5 DEF DocumentsTypeOK, rowVars, rowsVars
<1>7. HandlerOK(p)'
  <2>1. work'[p].doc = d /\ work'[p].key = k /\ work'[p].seen # {}
    BY <1>5 DEF w
  <2> QED
    BY <2>1, <1>1, <1>5 DEF HandlerOK, HandlerOf, JudgeOf, Replacing, Switching, rowVars
<1>8. \A c \in Doc : deletedAt'[c] => status[c] # "none"
  BY <1>1 DEF DocumentsInv, RowOK
<1> QED
  BY <1>1, <1>5, <1>6, <1>7, <1>8, RowsUnchanged DEF rowVars, rowsVars, Switching

LEMMA ReplaceKeepsInv ==
  ASSUME DocumentsInv, NEW p \in Proc, NEW d \in Doc, replaceDocumentWithNewVersion(p, d)
  PROVE  DocumentsInv'
<1>1. /\ DocumentsTypeOK /\ status[d] # "none" /\ version[d] < MaxVersion
      /\ Begin(p, d, version[d], "insertVersion")
      /\ UNCHANGED <<rowVars, deletedAt, rowsVars, issued, blob, docAudit>>
  BY DEF DocumentsInv, replaceDocumentWithNewVersion
<1>2. version[d] \in Version /\ version[d] \in 1 .. version[d]
  BY <1>1, DocumentsAssumption DEF DocumentsInv, RowOK, DocumentsTypeOK, Version
<1>3. deletedAt' \in [Doc -> BOOLEAN] /\ \A c \in Doc : deletedAt'[c] => status[c] # "none"
  BY <1>1 DEF DocumentsTypeOK, DocumentsInv, RowOK
<1>4. PICK v \in Version : v = version[d]
  BY <1>2
<1>5. Begin(p, d, v, "insertVersion") /\ pc'[p] = "insertVersion"
  BY <1>1, <1>4, BeginsAlone DEF Statement
<1>6. HandlerOf(p, d, v)'
  BY <1>1, <1>2, <1>4, <1>5 DEF HandlerOf, Replacing, Switching, rowVars
<1> QED
  BY <1>1, <1>3, <1>5, <1>6, BeginKeepsInv

LEMMA TombstoneKeepsInv ==
  ASSUME DocumentsInv, NEW p \in Proc, NEW d \in Doc,
         softDeleteDocument(p, d) \/ recoverDocument(p, d)
  PROVE  DocumentsInv'
<1>1. PICK statement \in {"auditDelete", "auditRecover"} :
        /\ Begin(p, d, NULL, statement)
        /\ UNCHANGED <<rowVars, rowsVars, issued, blob, docAudit>>
  BY DEF softDeleteDocument, recoverDocument
<1>2. DocumentsTypeOK /\ status[d] # "none"
  BY DEF DocumentsInv, RowOK, softDeleteDocument, recoverDocument
<1>3. /\ deletedAt' \in [Doc -> BOOLEAN]
      /\ \A c \in Doc : c # d => deletedAt'[c] = deletedAt[c]
  BY <1>2 DEF softDeleteDocument, recoverDocument, DocumentsTypeOK
<1>4. \A c \in Doc : deletedAt'[c] => status[c] # "none"
  BY <1>2, <1>3 DEF DocumentsInv, RowOK
<1>5. statement \in Statement
  BY DEF Statement
<1>6. HandlerOf(p, d, NULL)'
  <2>1. pc'[p] = statement
    BY <1>1, <1>2, <1>5, BeginsAlone
  <2> QED
    BY <2>1, <1>1, <1>2 DEF HandlerOf, Replacing, Switching, rowVars
<1> QED
  BY <1>1, <1>3, <1>4, <1>6, BeginKeepsInv

-----------------------------------------------------------------------------
(***************************************************************************)
(* Statements after the first.                                             *)
(***************************************************************************)
LEMMA FinishesAlone ==
  ASSUME DocumentsTypeOK, NEW p \in Proc, Finish(p)
  PROVE  /\ OthersStay(p) /\ pc'[p] = "idle"
         /\ pc' \in [Proc -> Statement]
         /\ work' \in [Proc -> Work]
         /\ HandlerOK(p)' /\ pc'[p] \notin Switching
<1>1. Nothing \in Work
  BY DEF Nothing, Work
<1> QED
  BY <1>1 DEF Finish, OthersStay, DocumentsTypeOK, Statement, HandlerOK, Switching

LEMMA FailKeepsInv ==
  ASSUME DocumentsInv, NEW p \in Proc, Fail(p) \/ AuditTombstone(p)
  PROVE  DocumentsInv'
<1>1. DocumentsTypeOK /\ Finish(p) /\ UNCHANGED <<rowVars, deletedAt, rowsVars, issued, blob>>
  BY DEF DocumentsInv, Fail, AuditTombstone
<1>2. docAudit' \in [Doc -> [DocAction -> Nat]]
  <2>1. CASE Fail(p)
    BY <1>1, <2>1 DEF Fail, DocumentsTypeOK
  <2>2. CASE AuditTombstone(p)
    <3>1. PICK d \in Doc, a \in DocAction : docAudit' = [docAudit EXCEPT ![d][a] = @ + 1]
      BY <2>2 DEF AuditTombstone, RecordDoc, DocAction, DocumentsInv, HandlerOK, HandlerOf
    <3> QED
      BY <1>1, <3>1 DEF DocumentsTypeOK
  <2> QED
    BY <2>1, <2>2
<1>3. DocumentsTypeOK'
  BY <1>1, <1>2, FinishesAlone DEF DocumentsTypeOK, rowVars, rowsVars
<1>4. \A c \in Doc : deletedAt'[c] => status[c] # "none"
  BY <1>1 DEF DocumentsInv, RowOK
<1> QED
  BY <1>1, <1>3, <1>4, FinishesAlone, RowsUnchanged DEF rowVars, rowsVars

LEMMA SetKeyKeepsInv ==
  ASSUME DocumentsInv, NEW p \in Proc, SetStorageKey(p)
  PROVE  DocumentsInv'
<1>1. /\ DocumentsTypeOK /\ Finish(p)
      /\ UNCHANGED <<status, version, deletedAt, versions, superseded, blob, docAudit>>
  BY DEF DocumentsInv, SetStorageKey, rowsVars
<1>2. PICK d \in Doc : d = work[p].doc /\ status[d] # "none"
  BY DEF DocumentsInv, HandlerOK, HandlerOf, SetStorageKey
<1>3. 1 \in Version
  BY <1>1, <1>2, DocumentsAssumption DEF DocumentsInv, RowOK, DocumentsTypeOK, Version
<1>4. /\ storageKey' = [storageKey EXCEPT ![d] = 1]
      /\ issued' = [issued EXCEPT ![d] = @ \cup {1}]
  BY <1>2 DEF SetStorageKey
<1>5. DocumentsTypeOK'
  BY <1>1, <1>3, <1>4, FinishesAlone DEF DocumentsTypeOK
<1>6. \A c \in Doc : storageKey'[c] = IF c = d THEN 1 ELSE storageKey[c]
  BY <1>1, <1>4 DEF DocumentsTypeOK
<1>7. (\A c \in Doc : RowOK(c))'
  BY <1>1, <1>2, <1>6 DEF DocumentsInv, RowOK
<1>8. OnlyGrows(p)
  <2>1. \A c \in Doc : version[c] \in Nat
    BY <1>1 DEF DocumentsTypeOK
  <2>2. \A c \in Doc : version[c] <= version'[c]
    BY <1>1, <2>1
  <2> QED
    BY <1>1, <2>2 DEF OnlyGrows
<1>9. (\A q \in Proc : HandlerOK(q))' /\ OneSwitches'
  BY <1>1, <1>5, <1>8, FinishesAlone, HandlersStayOK, OneStillSwitches
<1>10. VersionHistoryContiguous'
  BY <1>1 DEF DocumentsInv, VersionHistoryContiguous, HistoryOf
<1> QED
  BY <1>5, <1>7, <1>9, <1>10 DEF DocumentsInv

(***************************************************************************)
(* The scan reads the bytes under the key once more, and there are some.   *)
(***************************************************************************)
LEMMA ScanKeepsInv ==
  ASSUME DocumentsInv, NEW p \in Proc, Scan(p)
  PROVE  DocumentsInv'
<1>1. /\ DocumentsTypeOK /\ pc[p] = "scan"
      /\ UNCHANGED <<rowVars, deletedAt, rowsVars, issued, blob, docAudit>>
  BY DEF DocumentsInv, Scan
<1>2. \A c \in Doc : deletedAt'[c] => status[c] # "none"
  BY <1>1 DEF DocumentsInv, RowOK
<1>3. CASE Finish(p)
  <2>1. DocumentsTypeOK'
    BY <1>1, <1>3, FinishesAlone DEF DocumentsTypeOK, rowVars, rowsVars
  <2> QED
    BY <1>1, <1>2, <1>3, <2>1, FinishesAlone, RowsUnchanged DEF rowVars, rowsVars
<1>4. CASE ~Finish(p)
  <2>1. PICK k \in Key, seen \in SUBSET Bytes, d \in Doc :
          /\ work[p].key = k /\ work[p].seen = seen /\ work[p].doc = d
          /\ status[d] # "none" /\ blob[k[1]][k[2]] # NULL /\ seen # {}
    BY <1>1 DEF DocumentsInv, DocumentsTypeOK, Work, HandlerOK, HandlerOf, JudgeOf
  <2>2. PICK found \in Bytes : found = blob[k[1]][k[2]]
    BY <1>1, <2>1 DEF DocumentsTypeOK, Key
  <2>3. PICK verdict \in {"promote", "quarantine"} :
          /\ found = "malware" \/ seen # {"invalid"}
          /\ verdict = IF found = "malware" THEN "quarantine" ELSE "promote"
          /\ pc' = [pc EXCEPT ![p] = verdict]
          /\ work' = [work EXCEPT ![p].seen = seen \cup {found}]
    BY <1>4, <2>1, <2>2 DEF Scan
  <2>4. work[p] \in Work
    BY <1>1 DEF DocumentsTypeOK
  <2>5. [work[p] EXCEPT !.seen = seen \cup {found}] \in Work
    BY <2>4 DEF Work
  <2>6. /\ OthersStay(p) /\ pc'[p] = verdict
        /\ work'[p] = [work[p] EXCEPT !.seen = seen \cup {found}]
        /\ pc' \in [Proc -> Statement] /\ work' \in [Proc -> Work]
    BY <1>1, <2>3, <2>5 DEF OthersStay, DocumentsTypeOK, Statement
  <2>7. DocumentsTypeOK'
    BY <1>1, <2>6 DEF DocumentsTypeOK, rowVars, rowsVars
  <2>8. work'[p].doc = d /\ work'[p].seen = seen \cup {found}
    BY <2>1, <2>4, <2>6 DEF Work
  <2>9. /\ verdict = "promote" => seen \cup {found} \notin {{}, {"malware"}, {"invalid"}}
        /\ verdict = "quarantine" => "malware" \in seen \cup {found}
    BY <2>1, <2>3 DEF Bytes
  <2>10. HandlerOK(p)'
    BY <1>1, <2>1, <2>6, <2>8, <2>9 DEF HandlerOK, HandlerOf, JudgeOf, Replacing, Switching,
       rowVars
  <2> QED
    BY <1>1, <1>2, <2>6, <2>7, <2>10, RowsUnchanged DEF rowVars, rowsVars, Switching
<1> QED
  BY <1>3, <1>4

LEMMA VerdictKeepsInv ==
  ASSUME DocumentsInv, NEW p \in Proc, promotePendingToActive(p) \/ promoteToInfected(p)
  PROVE  DocumentsInv'
<1>1. /\ DocumentsTypeOK /\ Finish(p)
      /\ UNCHANGED <<version, storageKey, deletedAt, versions, superseded, issued, blob,
                     docAudit>>
  BY DEF DocumentsInv, promotePendingToActive, promoteToInfected, ApplyVerdict, rowsVars
<1>2. PICK d \in Doc : d = work[p].doc /\ status[d] # "none"
  BY DEF DocumentsInv, HandlerOK, HandlerOf, promotePendingToActive, promoteToInfected,
     ApplyVerdict
<1>3. /\ status'[d] = IF status[d] = "pending"
                       THEN IF pc[p] = "promote" THEN "active" ELSE "infected"
                       ELSE status[d]
      /\ \A c \in Doc : c # d => status'[c] = status[c]
      /\ status' \in [Doc -> {"none", "pending", "active", "infected"}]
      /\ pc[p] \in {"promote", "quarantine"}
  BY <1>1, <1>2 DEF promotePendingToActive, promoteToInfected, ApplyVerdict, DocumentsTypeOK
<1>4. DocumentsTypeOK'
  BY <1>1, <1>3, FinishesAlone DEF DocumentsTypeOK
<1>5. (\A c \in Doc : RowOK(c))'
  BY <1>1, <1>2, <1>3 DEF DocumentsInv, RowOK
<1>6. OnlyGrows(p)
  BY <1>1, <1>2, <1>3 DEF OnlyGrows, DocumentsTypeOK
<1>7. (\A q \in Proc : HandlerOK(q))' /\ OneSwitches'
  BY <1>1, <1>4, <1>6, FinishesAlone, HandlersStayOK, OneStillSwitches
<1>8. VersionHistoryContiguous'
  BY <1>1 DEF DocumentsInv, VersionHistoryContiguous, HistoryOf
<1> QED
  BY <1>4, <1>5, <1>7, <1>8 DEF DocumentsInv

(***************************************************************************)
(* The replacement.  An INSERT that goes through is for the version after  *)
(* the current one: all earlier ones have their row.                       *)
(***************************************************************************)
LEMMA InsertVersionKeepsInv ==
  ASSUME DocumentsInv, NEW p \in Proc, InsertVersion(p)
  PROVE  DocumentsInv'
<1>1. /\ DocumentsTypeOK /\ pc[p] = "insertVersion"
      /\ UNCHANGED <<status, version, storageKey, deletedAt, superseded, issued, blob,
                     docAudit>>
  BY DEF DocumentsInv, InsertVersion, rowVars
<1>2. PICK d \in Doc, v \in Version :
        /\ work[p].doc = d /\ work[p].version = v /\ status[d] # "none"
        /\ v \in 1 .. version[d] /\ v < MaxVersion
  BY <1>1, DocumentsAssumption
     DEF DocumentsInv, HandlerOK, HandlerOf, Replacing, Version
<1>3. \A c \in Doc : deletedAt'[c] => status[c] # "none"
  BY <1>1 DEF DocumentsInv, RowOK
<1>4. CASE v + 1 \in versions[d]
  <2>1. Finish(p) /\ UNCHANGED versions
    BY <1>2, <1>4 DEF InsertVersion
  <2>2. DocumentsTypeOK'
    BY <1>1, <2>1, FinishesAlone DEF DocumentsTypeOK
  <2> QED
    BY <1>1, <1>3, <2>1, <2>2, FinishesAlone, RowsUnchanged
<1>5. CASE v + 1 \notin versions[d]
  <2>1. /\ versions' = [versions EXCEPT ![d] = @ \cup {v + 1}]
        /\ pc' = [pc EXCEPT ![p] = "supersede"] /\ work' = work
    BY <1>2, <1>5 DEF InsertVersion, Continue
  <2>2. OthersStay(p) /\ pc'[p] = "supersede"
    BY <1>1, <2>1 DEF OthersStay, DocumentsTypeOK
  <2>3. HistoryOf(d) /\ version[d] \in Nat
    BY <1>1 DEF DocumentsInv, VersionHistoryContiguous, DocumentsTypeOK
  <2>4. v = version[d]
    BY <1>2, <1>5, <2>3, DocumentsAssumption DEF HistoryOf, Version
  <2>5. v + 1 \in Version
    BY <1>2, DocumentsAssumption DEF Version
  <2>6. DocumentsTypeOK'
    BY <1>1, <2>1, <2>5 DEF DocumentsTypeOK, Statement
  <2>7. \A c \in Doc : /\ c # d => versions'[c] = versions[c]
                       /\ c = d => versions'[c] = versions[c] \cup {v + 1}
    BY <1>1, <2>1 DEF DocumentsTypeOK
  <2>8. OnlyGrows(p)
    <3>1. \A c \in Doc : version[c] \in Nat
      BY <1>1 DEF DocumentsTypeOK
    <3>2. \A c \in Doc : version[c] <= version'[c]
      BY <1>1, <3>1
    <3> QED
      BY <1>1, <2>7, <3>2 DEF OnlyGrows
  <2>9. HandlerOK(p)'
    BY <1>1, <1>2, <2>1, <2>2, <2>4, <2>7 DEF HandlerOK, HandlerOf, JudgeOf, Replacing,
       Switching
  <2>10. (\A q \in Proc : HandlerOK(q))'
    BY <1>1, <2>2, <2>6, <2>8, <2>9, HandlersStayOK
  <2>11. OneSwitches'
    <3>1. \A q \in Proc : pc[q] \in Switching => work[q].doc # d
      BY <1>5, <2>4 DEF DocumentsInv, HandlerOK, HandlerOf, Switching
    <3> QED
      BY <1>2, <2>1, <2>2, <3>1 DEF DocumentsInv, OneSwitches, OthersStay, Switching
  <2>12. VersionHistoryContiguous'
    <3> SUFFICES ASSUME NEW c \in Doc PROVE HistoryOf(c)'
      BY DEF VersionHistoryContiguous
    <3>1. HistoryOf(c)
      BY DEF DocumentsInv, VersionHistoryContiguous
    <3>2. CASE c # d
      BY <1>1, <2>7, <3>1, <3>2 DEF HistoryOf
    <3>3. CASE c = d
      BY <1>1, <2>3, <2>4, <1>2, <2>7, <3>3 DEF HistoryOf
    <3> QED
      BY <3>2, <3>3
  <2>13. (\A c \in Doc : RowOK(c))'
    BY <1>1 DEF DocumentsInv, RowOK
  <2> QED
    BY <2>6, <2>10, <2>11, <2>12, <2>13 DEF DocumentsInv
<1> QED
  BY <1>4, <1>5

LEMMA SupersedeKeepsInv ==
  ASSUME DocumentsInv, NEW p \in Proc, SupersedePrior(p)
  PROVE  DocumentsInv'
<1>1. /\ DocumentsTypeOK /\ pc[p] = "supersede"
      /\ UNCHANGED <<status, version, storageKey, deletedAt, versions, issued, blob,
                     docAudit>>
      /\ pc' = [pc EXCEPT ![p] = "point"] /\ work' = work
  BY DEF DocumentsInv, SupersedePrior, Continue, rowVars
<1>2. PICK d \in Doc, v \in Version :
        /\ work[p].doc = d /\ work[p].version = v /\ status[d] # "none"
        /\ v = version[d] /\ v + 1 \in versions[d] /\ v < MaxVersion /\ v >= 1
  BY <1>1, DocumentsAssumption
     DEF DocumentsInv, HandlerOK, HandlerOf, Replacing, Switching, Version
<1>3. superseded' = [superseded EXCEPT ![d] = @ \cup ({v} \cap versions[d])]
  BY <1>2 DEF SupersedePrior
<1>4. OthersStay(p) /\ pc'[p] = "point"
  BY <1>1 DEF OthersStay, DocumentsTypeOK
<1>5. DocumentsTypeOK'
  BY <1>1, <1>2, <1>3 DEF DocumentsTypeOK, Statement
<1>6. \A c \in Doc : /\ c # d => superseded'[c] = superseded[c]
                     /\ c = d => superseded'[c] = superseded[c] \cup ({v} \cap versions[d])
  BY <1>1, <1>3 DEF DocumentsTypeOK
<1>7. OnlyGrows(p)
  <2>1. \A c \in Doc : version[c] \in Nat
    BY <1>1 DEF DocumentsTypeOK
  <2>2. \A c \in Doc : version[c] <= version'[c]
    BY <1>1, <2>1
  <2> QED
    BY <1>1, <1>6, <2>2 DEF OnlyGrows
<1>8. HistoryOf(d)
  BY DEF DocumentsInv, VersionHistoryContiguous
<1>9. v = 1 \/ v \in superseded'[d]
  <2>1. v # 1 => v \in 2 .. version[d]
    BY <1>2, DocumentsAssumption DEF Version
  <2>2. v # 1 => v \in versions[d]
    BY <2>1, <1>8 DEF HistoryOf
  <2> QED
    BY <2>2, <1>6
<1>10. HandlerOK(p)'
  <2>1. v \in 1 .. version'[d]
    BY <1>1, <1>2, DocumentsAssumption DEF Version
  <2> QED
    BY <1>1, <1>2, <1>4, <1>9, <2>1 DEF HandlerOK, HandlerOf, JudgeOf, Replacing, Switching
<1>11. (\A q \in Proc : HandlerOK(q))' /\ OneSwitches'
  BY <1>1, <1>4, <1>5, <1>7, <1>10, HandlersStayOK, OneStillSwitches DEF Switching
<1>12. VersionHistoryContiguous'
  <2> SUFFICES ASSUME NEW c \in Doc PROVE HistoryOf(c)'
    BY DEF VersionHistoryContiguous
  <2>1. HistoryOf(c)
    BY DEF DocumentsInv, VersionHistoryContiguous
  <2>2. CASE c # d
    BY <1>1, <1>6, <2>1, <2>2 DEF HistoryOf
  <2>3. CASE c = d
    <3>1. {v} \cap versions[d] \subseteq 2 .. version[d]
      BY <1>2, <1>8, DocumentsAssumption DEF HistoryOf, Version
    <3> QED
      BY <1>1, <1>2, <1>6, <1>8, <2>3, <3>1 DEF HistoryOf
  <2> QED
    BY <2>2, <2>3
<1>13. (\A c \in Doc : RowOK(c))'
  BY <1>1 DEF DocumentsInv, RowOK
<1> QED
  BY <1>5, <1>11, <1>12, <1>13 DEF DocumentsInv

LEMMA MovePointerKeepsInv ==
  ASSUME DocumentsInv, NEW p \in Proc, MovePointer(p)
  PROVE  DocumentsInv'
<1>1. /\ DocumentsTypeOK /\ pc[p] = "point"
      /\ UNCHANGED <<deletedAt, versions, superseded, issued, blob, docAudit>>
      /\ pc' = [pc EXCEPT ![p] = "auditReplace"] /\ work' = work
  BY DEF DocumentsInv, MovePointer, Continue, rowsVars
<1>2. PICK d \in Doc, v \in Version :
        /\ work[p].doc = d /\ work[p].version = v /\ status[d] # "none"
        /\ v = version[d] /\ v + 1 \in versions[d] /\ v < MaxVersion /\ v >= 1
        /\ v = 1 \/ v \in superseded[d]
  BY <1>1, DocumentsAssumption
     DEF DocumentsInv, HandlerOK, HandlerOf, Replacing, Switching, Version
<1>3. /\ version' = [version EXCEPT ![d] = v + 1]
      /\ storageKey' = [storageKey EXCEPT ![d] = v + 1]
      /\ status' = [status EXCEPT ![d] = "pending"]
  BY <1>2 DEF MovePointer
<1>4. OthersStay(p) /\ pc'[p] = "auditReplace"
  BY <1>1 DEF OthersStay, DocumentsTypeOK
<1>5. v \in Nat /\ v + 1 \in Version
  BY <1>2, DocumentsAssumption DEF Version
<1>6. DocumentsTypeOK'
  <2>1. v + 1 \in 0 .. MaxVersion
    BY <1>5, DocumentsAssumption DEF Version
  <2> QED
    BY <1>1, <1>3, <1>5, <2>1 DEF DocumentsTypeOK, Statement
<1>7. \A c \in Doc :
        /\ c # d => /\ version'[c] = version[c] /\ storageKey'[c] = storageKey[c]
                    /\ status'[c] = status[c]
        /\ c = d => version'[c] = v + 1 /\ status'[c] = "pending"
  BY <1>1, <1>3 DEF DocumentsTypeOK
<1>8. OnlyGrows(p)
  <2>1. \A c \in Doc : version[c] \in Nat
    BY <1>1 DEF DocumentsTypeOK
  <2>2. \A c \in Doc : version[c] <= version'[c]
    BY <1>2, <1>5, <1>7, <2>1
  <2>3. \A c \in Doc : /\ status[c] # "none" => status'[c] # "none"
                       /\ version'[c] # version[c] => c = d
    BY <1>7
  <2> QED
    BY <1>1, <1>2, <2>2, <2>3 DEF OnlyGrows, Switching
<1>9. HandlerOK(p)'
  <2>1. v \in 1 .. version'[d] /\ v < version'[d]
    BY <1>2, <1>5, <1>7
  <2> QED
    BY <1>1, <1>2, <1>4, <1>7, <2>1 DEF HandlerOK, HandlerOf, JudgeOf, Replacing, Switching
<1>10. (\A q \in Proc : HandlerOK(q))' /\ OneSwitches'
  BY <1>1, <1>4, <1>6, <1>8, <1>9, HandlersStayOK, OneStillSwitches DEF Switching
<1>11. VersionHistoryContiguous'
  <2> SUFFICES ASSUME NEW c \in Doc PROVE HistoryOf(c)'
    BY DEF VersionHistoryContiguous
  <2>1. HistoryOf(c)
    BY DEF DocumentsInv, VersionHistoryContiguous
  <2>2. CASE c # d
    BY <1>1, <1>7, <2>1, <2>2 DEF HistoryOf
  <2>3. CASE c = d
    <3>1. version'[c] = v + 1 /\ version[c] = v
      BY <1>2, <1>7, <2>3
    <3>2. 2 .. v + 1 = (2 .. v) \cup {v + 1}
      BY <1>2, <1>5
    <3>3. 2 .. v + 1 \subseteq versions[c]
      BY <1>2, <2>1, <2>3, <3>1, <3>2 DEF HistoryOf
    <3>4. 2 .. (v + 1) - 1 \subseteq superseded[c]
      <4>1. \A w \in 2 .. (v + 1) - 1 : w \in 2 .. v - 1 \/ (w = v /\ v # 1)
        BY <1>5
      <4> QED
        BY <1>2, <2>1, <2>3, <3>1, <4>1 DEF HistoryOf
    <3>5. versions[c] \subseteq 2 .. (v + 1) + 1 /\ superseded[c] \subseteq 2 .. v + 1
      BY <1>5, <2>1, <3>1 DEF HistoryOf
    <3>6. v + 1 \notin superseded[c]
      BY <1>5, <2>1, <3>1 DEF HistoryOf
    <3> QED
      BY <1>1, <3>1, <3>3, <3>4, <3>5, <3>6 DEF HistoryOf
  <2> QED
    BY <2>2, <2>3
<1>12. (\A c \in Doc : RowOK(c))'
  BY <1>1, <1>2, <1>5, <1>7 DEF DocumentsInv, RowOK
<1> QED
  BY <1>6, <1>10, <1>11, <1>12 DEF DocumentsInv

LEMMA AuditReplacementKeepsInv ==
  ASSUME DocumentsInv, NEW p \in Proc, AuditReplacement(p)
  PROVE  DocumentsInv'
<1>1. /\ DocumentsTypeOK /\ pc[p] = "auditReplace" /\ Finish(p)
      /\ UNCHANGED <<status, version, storageKey, deletedAt, versions, superseded, blob>>
  BY DEF DocumentsInv, AuditReplacement, rowVars, rowsVars
<1>2. PICK d \in Doc, v \in Version :
        /\ work[p].doc = d /\ work[p].version = v /\ status[d] # "none"
        /\ v < MaxVersion /\ v >= 1 /\ v < version[d]
  BY <1>1, DocumentsAssumption
     DEF DocumentsInv, HandlerOK, HandlerOf, Replacing, Switching, Version
<1>3. /\ issued' = [issued EXCEPT ![d] = @ \cup {v + 1}]
      /\ docAudit' = [docAudit EXCEPT ![d]["document.version_replaced"] = @ + 1]
  BY <1>2 DEF AuditReplacement, RecordDoc
<1>4. v + 1 \in Version
  BY <1>2, DocumentsAssumption DEF Version
<1>5. docAudit' \in [Doc -> [DocAction -> Nat]]
  BY <1>1, <1>3 DEF DocumentsTypeOK, DocAction
<1>6. DocumentsTypeOK'
  BY <1>1, <1>3, <1>4, <1>5, FinishesAlone DEF DocumentsTypeOK
<1>7. OnlyGrows(p)
  <2>1. \A c \in Doc : version[c] \in Nat
    BY <1>1 DEF DocumentsTypeOK
  <2>2. \A c \in Doc : version[c] <= version'[c]
    BY <1>1, <2>1
  <2> QED
    BY <1>1, <2>2 DEF OnlyGrows
<1>8. (\A q \in Proc : HandlerOK(q))' /\ OneSwitches'
  BY <1>1, <1>6, <1>7, FinishesAlone, HandlersStayOK, OneStillSwitches
<1>9. VersionHistoryContiguous'
  BY <1>1 DEF DocumentsInv, VersionHistoryContiguous, HistoryOf
<1>10. (\A c \in Doc : RowOK(c))'
  BY <1>1 DEF DocumentsInv, RowOK
<1> QED
  BY <1>6, <1>8, <1>9, <1>10 DEF DocumentsInv

-----------------------------------------------------------------------------
LEMMA InvIsInductive == DocumentsInv /\ [DocumentsNext]_docVars => DocumentsInv'
<1> SUFFICES ASSUME DocumentsInv, [DocumentsNext]_docVars PROVE DocumentsInv'
  OBVIOUS
<1>1. ASSUME NEW p \in Proc, Resume(p) PROVE DocumentsInv'
  BY <1>1, SetKeyKeepsInv, ScanKeepsInv, VerdictKeepsInv, InsertVersionKeepsInv, SupersedeKeepsInv,
     MovePointerKeepsInv, AuditReplacementKeepsInv, FailKeepsInv DEF Resume
<1>2. ASSUME NEW p \in Proc, NEW d \in Doc, Request(p, d) PROVE DocumentsInv'
  BY <1>2, InsertKeepsInv, CompleteKeepsInv, ReplaceKeepsInv, TombstoneKeepsInv DEF Request
<1>3. CASE UNCHANGED docVars
  BY <1>3 DEF docVars, rowVars, rowsVars, DocumentsInv, DocumentsTypeOK, RowOK, HandlerOK,
     HandlerOf, JudgeOf, OneSwitches, VersionHistoryContiguous, HistoryOf
<1> QED
  BY <1>1, <1>2, <1>3, PutKeepsInv, FailKeepsInv DEF DocumentsNext

LEMMA InvAlways == DocumentsSpec => []DocumentsInv
BY InvHoldsInitially, InvIsInductive, PTL DEF DocumentsSpec

(***************************************************************************)
(* Every variable keeps its type, for any number of documents, handlers    *)
(* and versions.                                                           *)
(***************************************************************************)
THEOREM DocumentsTypeCorrect == DocumentsSpec => []DocumentsTypeOK
BY InvAlways, PTL DEF DocumentsInv

(***************************************************************************)
(* Racing and dying replacements leave no gap and no fork in the versions. *)
(***************************************************************************)
THEOREM HistoryContiguous == DocumentsSpec => []VersionHistoryContiguous
BY InvAlways, PTL DEF DocumentsInv

(***************************************************************************)
(* Scan before available, as far as it holds: only a PUT over judged       *)
(* bytes, a verdict that is overtaken or a first key that is set late      *)
(* leaves a document active with bytes that are not clean, or infected     *)
(* with bytes that are not malware.                                        *)
(***************************************************************************)
THEOREM VerdictFits == DocumentsSpec => VerdictFitsBytes
<1> DEFINE Excepted(d) ==
      \/ Misjudged(d)
      \/ UNCHANGED <<rowVars, pc>> /\ blob'[d] # blob[d]
      \/ \E p \in Proc : VerdictOvertaken(p, d) \/ FirstKeyLate(p, d)
<1>1. ASSUME DocumentsInv, [DocumentsNext]_docVars, NEW d \in Doc, Misjudged(d)'
      PROVE  Excepted(d)
  <2>1. DocumentsTypeOK /\ RowOK(d)
    BY <1>1 DEF DocumentsInv
  <2>2. CASE status'[d] = status[d] /\ storageKey'[d] = storageKey[d] /\ blob'[d] = blob[d]
    BY <1>1, <2>2 DEF Misjudged, Served
  <2>3. status'[d] \in {"active", "infected"} /\ Served(d)' # BytesOf(status'[d])
    BY <1>1 DEF Misjudged
  <2>4. ASSUME NEW p \in Proc, SetStorageKey(p) PROVE Excepted(d)
    <3>1. /\ pc[p] = "setKey" /\ UNCHANGED <<status, version, blob>>
          /\ storageKey' = [storageKey EXCEPT ![work[p].doc] = 1]
      BY <2>4 DEF SetStorageKey
    <3>2. CASE work[p].doc # d \/ storageKey[d] = 1
      BY <2>1, <2>2, <3>1, <3>2 DEF DocumentsTypeOK
    <3>3. CASE work[p].doc = d /\ version[d] > 1
      BY <2>1, <3>1, <3>3 DEF FirstKeyLate, DocumentsTypeOK
    <3>4. CASE work[p].doc = d /\ storageKey[d] = NULL
      <4>1. Served(d) = NULL /\ status[d] \in {"active", "infected"}
        BY <2>3, <3>1, <3>4 DEF Served
      <4> QED
        BY <4>1, DocumentsAssumption DEF Misjudged, BytesOf, Bytes
    <3> QED
      BY <2>1, <3>2, <3>3, <3>4, DocumentsAssumption DEF RowOK, DocumentsTypeOK
  <2>5. ASSUME NEW p \in Proc, promotePendingToActive(p) \/ promoteToInfected(p)
        PROVE  Excepted(d)
    <3>1. PICK verdict \in {"active", "infected"} :
            /\ pc[p] = IF verdict = "active" THEN "promote" ELSE "quarantine"
            /\ status' = [status EXCEPT ![work[p].doc] =
                            IF @ = "pending" THEN verdict ELSE @]
            /\ Finish(p) /\ UNCHANGED <<storageKey, blob>>
      BY <2>5 DEF promotePendingToActive, promoteToInfected, ApplyVerdict
    <3>2. CASE status'[d] = status[d]
      BY <2>2, <3>1, <3>2
    <3>3. CASE status'[d] # status[d] /\ ~StillServed(p, d)
      <4>1. work[p].doc = d
        BY <2>1, <3>1, <3>3 DEF DocumentsTypeOK
      <4> QED
        BY <2>1, <3>1, <3>3, <4>1, FinishesAlone DEF VerdictOvertaken
    <3>4. CASE status'[d] # status[d] /\ StillServed(p, d)
      <4>1. status'[d] = verdict
        BY <2>1, <3>1, <3>4 DEF DocumentsTypeOK
      <4>2. work[p].seen = {Served(d)} /\ JudgeOf(p, work[p].key, work[p].seen)
            /\ work[p].seen \subseteq Bytes
        BY <1>1, <2>1, <3>1, <3>4
           DEF StillServed, DocumentsInv, HandlerOK, DocumentsTypeOK, Work
      <4>3. Served(d) = BytesOf(verdict)
        BY <3>1, <4>2 DEF JudgeOf, BytesOf, Bytes
      <4>4. Served(d)' = Served(d)
        BY <3>1 DEF Served
      <4> QED
        BY <2>3, <4>1, <4>3, <4>4
    <3> QED
      BY <3>2, <3>3, <3>4
  <2>6. ASSUME NEW p \in Proc, MovePointer(p) PROVE Excepted(d)
    <3>1. /\ status' = [status EXCEPT ![work[p].doc] = "pending"]
          /\ storageKey' = [storageKey EXCEPT ![work[p].doc] = work[p].version + 1]
          /\ UNCHANGED blob
      BY <2>6 DEF MovePointer
    <3> QED
      BY <2>1, <2>2, <2>3, <3>1 DEF DocumentsTypeOK
  <2>7. ASSUME NEW p \in Proc, NEW c \in Doc, insertPendingDocument(p, c) PROVE Excepted(d)
    BY <2>1, <2>2, <2>3, <2>7 DEF insertPendingDocument, DocumentsTypeOK
  <2>8. ASSUME NEW c \in Doc, NEW v \in Version, PutObject(c, v) PROVE Excepted(d)
    BY <2>2, <2>8 DEF PutObject, rowVars
  <2>9. CASE UNCHANGED <<rowVars, blob>>
    BY <2>2, <2>9 DEF rowVars
  <2>10. ASSUME NEW p \in Proc, Resume(p) PROVE Excepted(d)
    <3>1. \/ UNCHANGED <<rowVars, blob>>
          \/ SetStorageKey(p) \/ promotePendingToActive(p) \/ promoteToInfected(p)
          \/ MovePointer(p)
      BY <2>10 DEF Resume, Scan, InsertVersion, SupersedePrior, AuditReplacement,
         AuditTombstone
    <3> QED
      BY <2>4, <2>5, <2>6, <2>9, <3>1
  <2>11. ASSUME NEW p \in Proc, NEW c \in Doc, Request(p, c) PROVE Excepted(d)
    <3>1. UNCHANGED <<rowVars, blob>> \/ insertPendingDocument(p, c)
      BY <2>11 DEF Request, completeUpload, replaceDocumentWithNewVersion,
         softDeleteDocument, recoverDocument
    <3> QED
      BY <2>7, <2>9, <3>1
  <2>12. CASE \E p \in Proc : Fail(p)
    BY <2>9, <2>12 DEF Fail
  <2>13. CASE UNCHANGED docVars
    BY <2>9, <2>13 DEF docVars
  <2> QED
    BY <1>1, <2>8, <2>10, <2>11, <2>12, <2>13 DEF DocumentsNext
<1>2. DocumentsInv /\ [DocumentsNext]_docVars =>
        \A d \in Doc : Misjudged(d)' => Excepted(d)
  BY <1>1
<1> QED
  BY <1>2, InvAlways, PTL DEF DocumentsSpec, VerdictFitsBytes

(***************************************************************************)
(* A verdict stands until the next version begins.                         *)
(***************************************************************************)
THEOREM VerdictFinal == DocumentsSpec => VerdictFinalPerVersion
<1> DEFINE VerdictStep ==
      \A d \in Doc :
        /\ status[d] \in {"active", "infected"} /\ status'[d] # status[d] =>
             status'[d] = "pending" /\ version'[d] = version[d] + 1
        /\ version'[d] # version[d] /\ status[d] # "none" =>
             version'[d] = version[d] + 1 /\ version'[d] \in versions[d]
<1>1. ASSUME DocumentsInv, [DocumentsNext]_docVars PROVE VerdictStep
  <2>1. CASE UNCHANGED <<status, version>>
    BY <2>1
  <2>2. ASSUME NEW p \in Proc, NEW d \in Doc, insertPendingDocument(p, d) PROVE VerdictStep
    BY <1>1, <2>2 DEF insertPendingDocument, DocumentsInv, DocumentsTypeOK
  <2>3. ASSUME NEW p \in Proc, promotePendingToActive(p) \/ promoteToInfected(p)
        PROVE  VerdictStep
    BY <1>1, <2>3 DEF promotePendingToActive, promoteToInfected, ApplyVerdict, DocumentsInv,
       DocumentsTypeOK
  <2>4. ASSUME NEW p \in Proc, MovePointer(p) PROVE VerdictStep
    <3>1. PICK d \in Doc :
            /\ status' = [status EXCEPT ![d] = "pending"]
            /\ version' = [version EXCEPT ![d] = version[d] + 1]
            /\ version[d] + 1 \in versions[d]
      BY <1>1, <2>4 DEF MovePointer, Continue, DocumentsInv, HandlerOK, HandlerOf, Switching
    <3> QED
      BY <1>1, <3>1 DEF DocumentsInv, DocumentsTypeOK
  <2>5. \/ UNCHANGED <<status, version>>
        \/ \E p \in Proc :
             \/ \E d \in Doc : insertPendingDocument(p, d)
             \/ promotePendingToActive(p) \/ promoteToInfected(p) \/ MovePointer(p)
    <3>1. ASSUME NEW p \in Proc, Resume(p)
          PROVE  \/ UNCHANGED <<status, version>>
                 \/ promotePendingToActive(p) \/ promoteToInfected(p) \/ MovePointer(p)
      BY <3>1 DEF Resume, SetStorageKey, Scan, InsertVersion, SupersedePrior, AuditReplacement,
         AuditTombstone, rowVars
    <3>2. ASSUME NEW p \in Proc, NEW d \in Doc, Request(p, d)
          PROVE  UNCHANGED <<status, version>> \/ insertPendingDocument(p, d)
      BY <3>2 DEF Request, completeUpload, replaceDocumentWithNewVersion, softDeleteDocument,
         recoverDocument, rowVars
    <3>3. CASE UNCHANGED docVars
      BY <3>3 DEF docVars, rowVars
    <3> QED
      BY <1>1, <3>1, <3>2, <3>3 DEF DocumentsNext, PutObject, Fail, rowVars
  <2> QED
    BY <2>1, <2>2, <2>3, <2>4, <2>5
<1> QED
  BY <1>1, InvAlways, PTL DEF DocumentsSpec, VerdictFinalPerVersion

-----------------------------------------------------------------------------
(***************************************************************************)
(* The replacements and their audit rows.  A handler joins those that have *)
(* a row to write with the version it made, and leaves them with the row,  *)
(* or dies.  That there are finitely many of them is part of the           *)
(* invariant, since nothing bounds Proc.                                   *)
(***************************************************************************)
Unaudited(d) == {p \in Proc : pc[p] = "auditReplace" /\ work[p].doc = d}

Replacements(d) == IF version[d] = 0 THEN 0 ELSE version[d] - 1

CountedOf(d) ==
  /\ IsFiniteSet(Unaudited(d))
  /\ docAudit[d]["document.version_replaced"] + Cardinality(Unaudited(d)) <= Replacements(d)

CountInv == DocumentsInv /\ \A d \in Doc : CountedOf(d)

\* The numbers the count is made of.
LEMMA CountsAreNumbers ==
  ASSUME DocumentsTypeOK, NEW d \in Doc
  PROVE  /\ docAudit[d]["document.version_replaced"] \in Nat
         /\ version[d] \in Nat /\ Replacements(d) \in Nat
<1>1. docAudit[d]["document.version_replaced"] \in Nat /\ version[d] \in 0 .. MaxVersion
  BY DEF DocumentsTypeOK, DocAction
<1> QED
  BY <1>1, DocumentsAssumption DEF Replacements

\* No more handlers have a row to write, none was written, and no version is lost.
LEMMA CountFrame ==
  ASSUME NEW d \in Doc, CountedOf(d), DocumentsTypeOK, DocumentsTypeOK',
         docAudit'[d]["document.version_replaced"] = docAudit[d]["document.version_replaced"],
         version'[d] = version[d] \/ (version[d] = 0 /\ version'[d] = 1),
         Unaudited(d)' \subseteq Unaudited(d)
  PROVE  CountedOf(d)'
<1>1. /\ IsFiniteSet(Unaudited(d)')
      /\ Cardinality(Unaudited(d)') <= Cardinality(Unaudited(d))
      /\ Cardinality(Unaudited(d)') \in Nat
      /\ Cardinality(Unaudited(d)) \in Nat
  BY FS_Subset, FS_CardinalityType DEF CountedOf
<1>2. Replacements(d)' = Replacements(d)
  BY DEF Replacements
<1> QED
  BY <1>1, <1>2, CountsAreNumbers DEF CountedOf

\* A handler has made a version.
LEMMA CountJoin ==
  ASSUME NEW d \in Doc, NEW p, CountedOf(d), DocumentsTypeOK, version[d] >= 1,
         docAudit'[d]["document.version_replaced"] = docAudit[d]["document.version_replaced"],
         version'[d] = version[d] + 1,
         Unaudited(d)' \subseteq Unaudited(d) \cup {p}
  PROVE  CountedOf(d)'
<1>1. /\ IsFiniteSet(Unaudited(d)')
      /\ Cardinality(Unaudited(d)') <= Cardinality(Unaudited(d)) + 1
      /\ Cardinality(Unaudited(d)') \in Nat
      /\ Cardinality(Unaudited(d)) \in Nat
  <2>1. /\ IsFiniteSet(Unaudited(d) \cup {p})
        /\ Cardinality(Unaudited(d) \cup {p}) =
             IF p \in Unaudited(d) THEN Cardinality(Unaudited(d))
                                   ELSE Cardinality(Unaudited(d)) + 1
    BY FS_AddElement DEF CountedOf
  <2>2. /\ IsFiniteSet(Unaudited(d)')
        /\ Cardinality(Unaudited(d)') <= Cardinality(Unaudited(d) \cup {p})
    BY <2>1, FS_Subset
  <2> QED
    BY <2>1, <2>2, FS_CardinalityType DEF CountedOf
<1>2. Replacements(d)' = Replacements(d) + 1
  BY CountsAreNumbers DEF Replacements
<1> QED
  BY <1>1, <1>2, CountsAreNumbers DEF CountedOf

\* A handler writes the row of its version.
LEMMA CountLeave ==
  ASSUME NEW d \in Doc, NEW p \in Unaudited(d), CountedOf(d), DocumentsTypeOK,
         docAudit'[d]["document.version_replaced"] =
           docAudit[d]["document.version_replaced"] + 1,
         version'[d] = version[d],
         Unaudited(d)' \subseteq Unaudited(d) \ {p}
  PROVE  CountedOf(d)'
<1>1. /\ IsFiniteSet(Unaudited(d)')
      /\ Cardinality(Unaudited(d)') + 1 <= Cardinality(Unaudited(d))
      /\ Cardinality(Unaudited(d)') \in Nat
      /\ Cardinality(Unaudited(d)) \in Nat
  <2>1. /\ IsFiniteSet(Unaudited(d) \ {p})
        /\ Cardinality(Unaudited(d) \ {p}) = Cardinality(Unaudited(d)) - 1
    BY FS_RemoveElement DEF CountedOf
  <2>2. /\ IsFiniteSet(Unaudited(d)')
        /\ Cardinality(Unaudited(d)') <= Cardinality(Unaudited(d) \ {p})
    BY <2>1, FS_Subset
  <2> QED
    BY <2>1, <2>2, FS_CardinalityType DEF CountedOf
<1>2. Replacements(d)' = Replacements(d)
  BY DEF Replacements
<1> QED
  BY <1>1, <1>2, CountsAreNumbers DEF CountedOf

LEMMA CountInit == DocumentsInit => CountInv
<1> SUFFICES ASSUME DocumentsInit, NEW d \in Doc PROVE CountedOf(d)
  BY InvHoldsInitially DEF CountInv
<1>1. Unaudited(d) = {}
  BY Zenon DEF DocumentsInit, Unaudited
<1>2. docAudit[d]["document.version_replaced"] = 0 /\ version[d] = 0
  BY DEF DocumentsInit, DocAction
<1> QED
  BY <1>1, <1>2, FS_EmptySet DEF CountedOf, Replacements

\* What one handler's step does to those that have a row to write.
LEMMA OthersStayUnaudited ==
  ASSUME NEW p \in Proc, OthersStay(p), NEW d \in Doc
  PROVE  /\ Unaudited(d)' \subseteq Unaudited(d) \cup {p}
         /\ pc'[p] # "auditReplace" \/ work'[p].doc # d =>
              Unaudited(d)' \subseteq Unaudited(d) \ {p}
BY DEF Unaudited, OthersStay

LEMMA CountStep == CountInv /\ [DocumentsNext]_docVars => CountInv'
<1> SUFFICES ASSUME CountInv, [DocumentsNext]_docVars, NEW d \in Doc PROVE CountedOf(d)'
  BY InvIsInductive DEF CountInv
<1>0. DocumentsInv /\ DocumentsTypeOK /\ DocumentsTypeOK' /\ CountedOf(d)
  BY InvIsInductive DEF CountInv, DocumentsInv
<1>a. docAudit[d]["document.version_replaced"] \in Nat
  BY <1>0, CountsAreNumbers
<1>1. ASSUME UNCHANGED <<version, docAudit, pc, work>> PROVE CountedOf(d)'
  BY <1>0, <1>1, CountFrame DEF Unaudited
\* a handler that writes no row and does not move the pointer
<1>2. ASSUME NEW p \in Proc, OthersStay(p), pc'[p] # "auditReplace",
             docAudit'[d]["document.version_replaced"] =
               docAudit[d]["document.version_replaced"],
             version'[d] = version[d] \/ (version[d] = 0 /\ version'[d] = 1)
      PROVE  CountedOf(d)'
  BY <1>0, <1>2, OthersStayUnaudited, CountFrame
<1>3. ASSUME NEW p \in Proc, NEW c \in Doc, insertPendingDocument(p, c) PROVE CountedOf(d)'
  <2>1. OthersStay(p) /\ pc'[p] = "setKey"
    BY <1>0, <1>3, BeginsAlone, DocumentsAssumption
       DEF insertPendingDocument, Version, Statement
  <2>2. version[c] = 0
    BY <1>0, <1>3 DEF insertPendingDocument, DocumentsInv, RowOK
  <2> QED
    BY <1>0, <1>2, <1>3, <2>1, <2>2 DEF insertPendingDocument, DocumentsTypeOK
<1>4. ASSUME NEW p \in Proc, NEW c \in Doc, Request(p, c), ~insertPendingDocument(p, c)
      PROVE  CountedOf(d)'
  <2>1. ASSUME NEW w, NEW statement \in Statement \ {"auditReplace"},
               BeginWith(p, w, statement)
        PROVE  OthersStay(p) /\ pc'[p] # "auditReplace"
    BY <1>0, <2>1 DEF BeginWith, OthersStay, DocumentsTypeOK
  <2>2. OthersStay(p) /\ pc'[p] # "auditReplace"
    <3>1. ASSUME NEW k \in Key, completeUpload(p, c, k)
          PROVE  OthersStay(p) /\ pc'[p] # "auditReplace"
      BY <2>1, <3>1 DEF completeUpload, Statement
    <3>2. CASE replaceDocumentWithNewVersion(p, c)
      BY <2>1, <3>2 DEF replaceDocumentWithNewVersion, Begin, Statement
    <3>3. CASE softDeleteDocument(p, c)
      BY <2>1, <3>3 DEF softDeleteDocument, Begin, Statement
    <3>4. CASE recoverDocument(p, c)
      BY <2>1, <3>4 DEF recoverDocument, Begin, Statement
    <3> QED
      BY <1>4, <3>1, <3>2, <3>3, <3>4 DEF Request
  <2>3. UNCHANGED <<version, docAudit>>
    BY <1>4 DEF Request, completeUpload, replaceDocumentWithNewVersion, softDeleteDocument,
       recoverDocument, rowVars
  <2> QED
    BY <1>2, <2>2, <2>3
<1>5. ASSUME NEW p \in Proc, Finish(p), UNCHANGED version,
             docAudit'[d]["document.version_replaced"] =
               docAudit[d]["document.version_replaced"]
      PROVE  CountedOf(d)'
  BY <1>0, <1>2, <1>5, FinishesAlone
<1>6. ASSUME NEW p \in Proc,
             \/ SetStorageKey(p) \/ promotePendingToActive(p) \/ promoteToInfected(p)
             \/ Fail(p)
      PROVE  CountedOf(d)'
  BY <1>5, <1>6 DEF SetStorageKey, promotePendingToActive, promoteToInfected, ApplyVerdict,
     Fail, rowVars
<1>7. ASSUME NEW p \in Proc, AuditTombstone(p) PROVE CountedOf(d)'
  <2>1. PICK c \in Doc, a \in {"document.deleted", "document.recovered"} :
          docAudit' = [docAudit EXCEPT ![c][a] = @ + 1]
    BY <1>0, <1>7 DEF AuditTombstone, RecordDoc, DocumentsInv, HandlerOK, HandlerOf
  <2>2. docAudit'[d]["document.version_replaced"] = docAudit[d]["document.version_replaced"]
    BY <1>0, <2>1 DEF DocumentsTypeOK, DocAction
  <2> QED
    BY <1>5, <1>7, <2>2 DEF AuditTombstone, rowVars
<1>8. ASSUME NEW p \in Proc, InsertVersion(p) \/ SupersedePrior(p) PROVE CountedOf(d)'
  <2>1. CASE Finish(p)
    BY <1>5, <1>8, <2>1 DEF InsertVersion, SupersedePrior, rowVars
  <2>2. CASE ~Finish(p)
    <3>1. OthersStay(p) /\ pc'[p] \in {"supersede", "point"}
      BY <1>0, <1>8, <2>2 DEF InsertVersion, SupersedePrior, Continue, OthersStay,
         DocumentsTypeOK
    <3> QED
      BY <1>2, <1>8, <3>1 DEF InsertVersion, SupersedePrior, rowVars
  <2> QED
    BY <2>1, <2>2
<1>9. ASSUME NEW p \in Proc, MovePointer(p) PROVE CountedOf(d)'
  <2>1. PICK c \in Doc, v \in Version :
          work[p].doc = c /\ work[p].version = v /\ v = version[c] /\ v >= 1
    BY <1>0, <1>9, DocumentsAssumption
       DEF MovePointer, Continue, DocumentsInv, HandlerOK, HandlerOf, Replacing, Switching,
           Version
  <2>2. /\ OthersStay(p) /\ pc'[p] = "auditReplace" /\ work'[p].doc = c
        /\ UNCHANGED docAudit
        /\ version' = [version EXCEPT ![c] = v + 1]
    BY <1>0, <1>9, <2>1 DEF MovePointer, Continue, OthersStay, DocumentsTypeOK
  <2>3. CASE c = d
    <3>1. version[d] >= 1 /\ version'[d] = version[d] + 1
      BY <1>0, <2>1, <2>2, <2>3 DEF DocumentsTypeOK, Version
    <3>2. Unaudited(d)' \subseteq Unaudited(d) \cup {p}
      BY <2>2, OthersStayUnaudited
    <3> QED
      BY <1>0, <2>2, <3>1, <3>2, CountJoin
  <2>4. CASE c # d
    <3>1. version'[d] = version[d]
      BY <1>0, <2>2, <2>4 DEF DocumentsTypeOK
    <3>2. Unaudited(d)' \subseteq Unaudited(d)
      BY <2>2, <2>4, OthersStayUnaudited
    <3> QED
      BY <1>0, <2>2, <3>1, <3>2, CountFrame
  <2> QED
    BY <2>3, <2>4
<1>10. ASSUME NEW p \in Proc, AuditReplacement(p) PROVE CountedOf(d)'
  <2>1. PICK c \in Doc : work[p].doc = c
    BY <1>0, <1>10 DEF AuditReplacement, DocumentsInv, HandlerOK, HandlerOf
  <2>2. /\ OthersStay(p) /\ pc'[p] = "idle" /\ pc[p] = "auditReplace" /\ UNCHANGED version
        /\ docAudit' = [docAudit EXCEPT ![c]["document.version_replaced"] = @ + 1]
    BY <1>0, <1>10, <2>1, FinishesAlone DEF AuditReplacement, RecordDoc, rowVars
  <2>3. Unaudited(d)' \subseteq Unaudited(d) \ {p}
    BY <2>2, OthersStayUnaudited
  <2>4. CASE c = d
    <3>1. p \in Unaudited(d)
      BY <2>1, <2>2, <2>4 DEF Unaudited
    <3>2. docAudit'[d]["document.version_replaced"] =
            docAudit[d]["document.version_replaced"] + 1
      BY <1>0, <2>2, <2>4 DEF DocumentsTypeOK, DocAction
    <3> QED
      BY <1>0, <2>2, <2>3, <3>1, <3>2, CountLeave
  <2>5. CASE c # d
    <3>1. docAudit'[d] = docAudit[d]
      BY <1>0, <2>2, <2>5 DEF DocumentsTypeOK
    <3> QED
      BY <1>0, <2>2, <2>3, <3>1, CountFrame
  <2> QED
    BY <2>4, <2>5
<1>11. ASSUME NEW p \in Proc, Scan(p) PROVE CountedOf(d)'
  <2>1. CASE Finish(p)
    BY <1>5, <1>11, <2>1 DEF Scan, rowVars
  <2>2. CASE ~Finish(p)
    <3>1. OthersStay(p) /\ pc'[p] \in {"promote", "quarantine"}
      BY <1>0, <1>11, <2>2 DEF Scan, OthersStay, DocumentsTypeOK
    <3> QED
      BY <1>2, <1>11, <3>1 DEF Scan, rowVars
  <2> QED
    BY <2>1, <2>2
<1>12. ASSUME NEW p \in Proc, Resume(p) PROVE CountedOf(d)'
  BY <1>6, <1>7, <1>8, <1>9, <1>10, <1>12, <1>11 DEF Resume
<1>13. CASE UNCHANGED docVars
  BY <1>1, <1>13 DEF docVars, rowVars
<1>14. ASSUME NEW c \in Doc, NEW v \in Version, PutObject(c, v) PROVE CountedOf(d)'
  BY <1>1, <1>14 DEF PutObject, rowVars
<1> QED
  BY <1>3, <1>4, <1>6, <1>12, <1>13, <1>14 DEF DocumentsNext

(***************************************************************************)
(* However many replacements of a document run at once, or die, no more    *)
(* are audited, or about to be, than versions were made.                   *)
(***************************************************************************)
THEOREM ReplacementsAllCounted == DocumentsSpec => []ReplacementsCounted
<1>1. CountInv => ReplacementsCounted
  BY CountsAreNumbers
     DEF CountInv, DocumentsInv, CountedOf, ReplacementsCounted, Replacements, Unaudited
<1> QED
  BY <1>1, CountInit, CountStep, PTL DEF DocumentsSpec
=============================================================================
