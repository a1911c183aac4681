---------------------------- MODULE Documents ----------------------------
(***************************************************************************)
(* The documents of an engagement                                          *)
(* (packages/db/src/repositories/document.ts): a Document row that points  *)
(* to the current version, DocumentVersion rows for the versions that      *)
(* replaced another, and the bytes in the blob store.                      *)
(*                                                                         *)
(* Every statement below is a round trip of its own.  Those of             *)
(* replaceDocumentWithNewVersion, softDeleteDocument and recoverDocument   *)
(* stand inside withAuditTransaction, but only the audit row is written on *)
(* that transaction: the others go through the pool and commit at once.    *)
(*                                                                         *)
(* A storage key is determined by its document and version, so the key of  *)
(* a row is the version number, and NULL the placeholder                   *)
(* '__pending_key__'; a key that a caller names is a document and a        *)
(* version, of any document.  Bytes are what the scanner and the           *)
(* validation make of them.  A signed URL may be used any number of times, *)
(* and never expires.  Authorization, rate limits, file names and sizes    *)
(* are left out.                                                           *)
(***************************************************************************)
EXTENDS Integers, FiniteSets

CONSTANTS
  Doc,         \* Document.id values
  Proc,        \* handler invocations
  Faulty,      \* the invocations that may die between two statements
  NULL,
  MaxVersion,  \* bound: versions per document
  MaxDeletes   \* bound: audited deletions and recoveries per document

\* What the scanner and validateUploadedBytes make of bytes.
Bytes == {"clean", "malware", "invalid"}

ASSUME DocumentsAssumption ==
  /\ Faulty \subseteq Proc
  /\ MaxVersion \in Nat
  /\ MaxDeletes \in Nat
  /\ NULL \notin Nat \cup Bytes

VARIABLES
  status,       \* Document.status, "none" before the row exists
  version,      \* Document.version, the current-version pointer
  storageKey,   \* Document.storageKey
  deletedAt,    \* is the column non-NULL?
  versions,     \* the versions that have a DocumentVersion row
  superseded,   \* those with supersededAt set
  issued,       \* the versions an upload URL was signed for
  blob,         \* the bytes under each key, NULL before the PUT
  docAudit,     \* AuditEvent rows of each action, counted
  pc,           \* the next statement of each invocation
  work          \* what it is about, and what it has read of the blob store

rowVars  == <<status, version, storageKey>>
rowsVars == <<versions, superseded>>
docVars  == <<rowVars, deletedAt, rowsVars, issued, blob, docAudit, pc, work>>

Version == 1 .. MaxVersion

DocAction == {"document.version_replaced", "document.deleted", "document.recovered"}

Statement == {"idle", "setKey", "scan", "promote", "quarantine", "insertVersion", "supersede",
              "point", "auditReplace", "auditDelete", "auditRecover"}

Key == Doc \X Version

\* The document and version of an invocation; of completeUpload, the key it was called with
\* and the bytes it has found there.
Work == [doc : Doc \cup {NULL}, version : Version \cup {NULL},
         key : Key \cup {NULL}, seen : SUBSET Bytes]

Nothing == [doc |-> NULL, version |-> NULL, key |-> NULL, seen |-> {}]

BeginWith(p, w, statement) ==
  /\ pc[p] = "idle"
  /\ pc' = [pc EXCEPT ![p] = statement]
  /\ work' = [work EXCEPT ![p] = w]

Begin(p, d, v, statement) ==
  BeginWith(p, [doc |-> d, version |-> v, key |-> NULL, seen |-> {}], statement)

Continue(p, from, to) ==
  /\ pc[p] = from
  /\ pc' = [pc EXCEPT ![p] = to]
  /\ UNCHANGED work

Finish(p) ==
  /\ pc' = [pc EXCEPT ![p] = "idle"]
  /\ work' = [work EXCEPT ![p] = Nothing]

RecordDoc(d, action) == docAudit' = [docAudit EXCEPT ![d][action] = @ + 1]

DocumentsInit ==
  /\ status = [d \in Doc |-> "none"]
  /\ version = [d \in Doc |-> 0]
  /\ storageKey = [d \in Doc |-> NULL]
  /\ deletedAt = [d \in Doc |-> FALSE]
  /\ versions = [d \in Doc |-> {}]
  /\ superseded = [d \in Doc |-> {}]
  /\ issued = [d \in Doc |-> {}]
  /\ blob = [d \in Doc |-> [v \in Version |-> NULL]]
  /\ docAudit = [d \in Doc |-> [a \in DocAction |-> 0]]
  /\ pc = [p \in Proc |-> "idle"]
  /\ work = [p \in Proc |-> Nothing]

-----------------------------------------------------------------------------
(***************************************************************************)
(* Upload.                                                                 *)
(***************************************************************************)

\* insertPendingDocument, the INSERT with the placeholder key
insertPendingDocument(p, d) ==
  /\ status[d] = "none"
  /\ MaxVersion >= 1
  /\ Begin(p, d, 1, "setKey")
  /\ status' = [status EXCEPT ![d] = "pending"]
  /\ version' = [version EXCEPT ![d] = 1]
  /\ UNCHANGED <<storageKey, deletedAt, rowsVars, issued, blob, docAudit>>

\* ... the UPDATE that sets the key, and the signed URL for it.
SetStorageKey(p) ==
  /\ pc[p] = "setKey"
  /\ storageKey' = [storageKey EXCEPT ![work[p].doc] = 1]
  /\ issued' = [issued EXCEPT ![work[p].doc] = @ \cup {1}]
  /\ Finish(p)
  /\ UNCHANGED <<status, version, deletedAt, rowsVars, blob, docAudit>>

\* The browser PUTs a file to a signed URL, over the one before if there is one.
PutObject(d, v) ==
  /\ v \in issued[d]
  /\ \E bytes \in Bytes : blob' = [blob EXCEPT ![d][v] = bytes]
  /\ UNCHANGED <<rowVars, deletedAt, rowsVars, issued, docAudit, pc, work>>

(***************************************************************************)
(* completeUpload.  The key is the caller's: neither the action nor the    *)
(* repository compares it with the row of the document.  stat() tells      *)
(* whether there is an object and validates its size and type; if there is *)
(* none nothing is written.                                                *)
(***************************************************************************)
completeUpload(p, d, k) ==
  /\ status[d] # "none"
  /\ blob[k[1]][k[2]] # NULL
  /\ BeginWith(p, [doc |-> d, version |-> NULL, key |-> k, seen |-> {blob[k[1]][k[2]]}], "scan")
  /\ UNCHANGED <<rowVars, deletedAt, rowsVars, issued, blob, docAudit>>

\* Mutant: what the scanner does not call infected is promoted, validated or not.
ScanFailsOpen(p) ==
  /\ pc[p] = "scan"
  /\ LET k == work[p].key
         found == blob[k[1]][k[2]]
     IN  /\ pc' = [pc EXCEPT ![p] = IF found = "malware" THEN "quarantine" ELSE "promote"]
         /\ work' = [work EXCEPT ![p].seen = @ \cup {found}]
  /\ UNCHANGED <<rowVars, deletedAt, rowsVars, issued, blob, docAudit>>

\* The scan reads the object again.  If it is indeterminate, or the validation did not pass,
\* nothing but a size is written.
Scan(p) ==
  /\ pc[p] = "scan"
  /\ LET k == work[p].key
         found == blob[k[1]][k[2]]
         verdict == IF found = "malware" THEN "quarantine" ELSE "promote"
     IN  \/ /\ found = "malware" \/ work[p].seen # {"invalid"}
            /\ pc' = [pc EXCEPT ![p] = verdict]
            /\ work' = [work EXCEPT ![p].seen = @ \cup {found}]
         \/ Finish(p)
  /\ UNCHANGED <<rowVars, deletedAt, rowsVars, issued, blob, docAudit>>

\* Guarded by status = 'pending', not by the key that was scanned, nor by its bytes.
ApplyVerdict(p, statement, verdict) ==
  /\ pc[p] = statement
  /\ status' = [status EXCEPT ![work[p].doc] = IF @ = "pending" THEN verdict ELSE @]
  /\ Finish(p)
  /\ UNCHANGED <<version, storageKey, deletedAt, rowsVars, issued, blob, docAudit>>

promotePendingToActive(p) == ApplyVerdict(p, "promote", "active")

\* Mutant: a status the CHECK constraint does not know.
promoteToQuarantined(p) == ApplyVerdict(p, "quarantine", "quarantined")

promoteToInfected(p) == ApplyVerdict(p, "quarantine", "infected")

-----------------------------------------------------------------------------
(***************************************************************************)
(* replaceDocumentWithNewVersion.  The version it works on is the prior    *)
(* one, which it reads first.                                              *)
(***************************************************************************)
replaceDocumentWithNewVersion(p, d) ==
  /\ status[d] # "none"
  /\ version[d] < MaxVersion
  /\ Begin(p, d, version[d], "insertVersion")
  /\ UNCHANGED <<rowVars, deletedAt, rowsVars, issued, blob, docAudit>>

\* Mutant: (documentId, version) is not UNIQUE.
InsertVersionTwice(p) ==
  /\ Continue(p, "insertVersion", "supersede")
  /\ versions' = [versions EXCEPT ![work[p].doc] = @ \cup {work[p].version + 1}]
  /\ UNCHANGED <<rowVars, deletedAt, superseded, issued, blob, docAudit>>

\* (documentId, version) is UNIQUE: a second INSERT of a version throws.
InsertVersion(p) ==
  /\ pc[p] = "insertVersion"
  /\ LET d == work[p].doc
         v == work[p].version + 1
     IN  IF v \in versions[d]
         THEN Finish(p) /\ UNCHANGED versions
         ELSE /\ versions' = [versions EXCEPT ![d] = @ \cup {v}]
              /\ Continue(p, "insertVersion", "supersede")
  /\ UNCHANGED <<rowVars, deletedAt, superseded, issued, blob, docAudit>>

\* Mutant: gives up when the prior version has no row.
SupersedeOrGiveUp(p) ==
  /\ pc[p] = "supersede"
  /\ IF work[p].version \in versions[work[p].doc]
     THEN Continue(p, "supersede", "point")
     ELSE Finish(p)
  /\ superseded' = [superseded EXCEPT ![work[p].doc] =
                      @ \cup ({work[p].version} \cap versions[work[p].doc])]
  /\ UNCHANGED <<rowVars, deletedAt, versions, issued, blob, docAudit>>

\* Mutant: supersedes the row it has just inserted.
SupersedeNew(p) ==
  /\ Continue(p, "supersede", "point")
  /\ superseded' = [superseded EXCEPT ![work[p].doc] = @ \cup {work[p].version + 1}]
  /\ UNCHANGED <<rowVars, deletedAt, versions, issued, blob, docAudit>>

\* Touches no row when the prior version has none.
SupersedePrior(p) ==
  /\ Continue(p, "supersede", "point")
  /\ superseded' = [superseded EXCEPT ![work[p].doc] =
                      @ \cup ({work[p].version} \cap versions[work[p].doc])]
  /\ UNCHANGED <<rowVars, deletedAt, versions, issued, blob, docAudit>>

\* Mutant: the pointer is not moved.
MoveKeyOnly(p) ==
  /\ Continue(p, "point", "auditReplace")
  /\ LET d == work[p].doc
     IN  /\ storageKey' = [storageKey EXCEPT ![d] = work[p].version + 1]
         /\ status' = [status EXCEPT ![d] = "pending"]
  /\ UNCHANGED <<version, deletedAt, rowsVars, issued, blob, docAudit>>

MovePointer(p) ==
  /\ Continue(p, "point", "auditReplace")
  /\ LET d == work[p].doc
         v == work[p].version + 1
     IN  /\ version' = [version EXCEPT ![d] = v]
         /\ storageKey' = [storageKey EXCEPT ![d] = v]
         /\ status' = [status EXCEPT ![d] = "pending"]
  /\ UNCHANGED <<deletedAt, rowsVars, issued, blob, docAudit>>

\* The audit row; the transaction commits, and the upload URL is signed.
AuditReplacement(p) ==
  /\ pc[p] = "auditReplace"
  /\ RecordDoc(work[p].doc, "document.version_replaced")
  /\ issued' = [issued EXCEPT ![work[p].doc] = @ \cup {work[p].version + 1}]
  /\ Finish(p)
  /\ UNCHANGED <<rowVars, deletedAt, rowsVars, blob>>

-----------------------------------------------------------------------------
(***************************************************************************)
(* Soft deletion.                                                          *)
(***************************************************************************)

softDeleteDocument(p, d) ==
  /\ docAudit[d]["document.deleted"] < MaxDeletes
  /\ status[d] # "none"
  /\ ~deletedAt[d]
  /\ Begin(p, d, NULL, "auditDelete")
  /\ deletedAt' = [deletedAt EXCEPT ![d] = TRUE]
  /\ UNCHANGED <<rowVars, rowsVars, issued, blob, docAudit>>

recoverDocument(p, d) ==
  /\ docAudit[d]["document.recovered"] < MaxDeletes
  /\ deletedAt[d]
  /\ Begin(p, d, NULL, "auditRecover")
  /\ deletedAt' = [deletedAt EXCEPT ![d] = FALSE]
  /\ UNCHANGED <<rowVars, rowsVars, issued, blob, docAudit>>

AuditTombstone(p) ==
  /\ \/ pc[p] = "auditDelete"  /\ RecordDoc(work[p].doc, "document.deleted")
     \/ pc[p] = "auditRecover" /\ RecordDoc(work[p].doc, "document.recovered")
  /\ Finish(p)
  /\ UNCHANGED <<rowVars, deletedAt, rowsVars, issued, blob>>

-----------------------------------------------------------------------------
\* A statement throws or the server dies.  What was committed stays.
Fail(p) ==
  /\ p \in Faulty
  /\ pc[p] # "idle"
  /\ Finish(p)
  /\ UNCHANGED <<rowVars, deletedAt, rowsVars, issued, blob, docAudit>>

Resume(p) ==
  \/ SetStorageKey(p)
  \/ Scan(p)
  \/ promotePendingToActive(p)
  \/ promoteToInfected(p)
  \/ InsertVersion(p)
  \/ SupersedePrior(p)
  \/ MovePointer(p)
  \/ AuditReplacement(p)
  \/ AuditTombstone(p)

Request(p, d) ==
  \/ insertPendingDocument(p, d)
  \/ \E k \in Key : completeUpload(p, d, k)
  \/ replaceDocumentWithNewVersion(p, d)
  \/ softDeleteDocument(p, d)
  \/ recoverDocument(p, d)

DocumentsNext ==
  \/ \E d \in Doc, v \in Version : PutObject(d, v)
  \/ \E p \in Proc : Resume(p) \/ Fail(p) \/ \E d \in Doc : Request(p, d)

DocumentsSpec == DocumentsInit /\ [][DocumentsNext]_docVars

(***************************************************************************)
(* Node.js resumes a handler whose database call has returned.             *)
(***************************************************************************)
DocumentsFairSpec == DocumentsSpec /\ \A p \in Proc \ Faulty : WF_docVars(Resume(p))

-----------------------------------------------------------------------------
(***************************************************************************)
(* Properties.                                                             *)
(***************************************************************************)

\* Every variable keeps its type.
DocumentsTypeOK ==
  /\ status \in [Doc -> {"none", "pending", "active", "infected"}]
  /\ version \in [Doc -> 0 .. MaxVersion]
  /\ storageKey \in [Doc -> Version \cup {NULL}]
  /\ deletedAt \in [Doc -> BOOLEAN]
  /\ versions \in [Doc -> SUBSET Version]
  /\ superseded \in [Doc -> SUBSET Version]
  /\ issued \in [Doc -> SUBSET Version]
  /\ blob \in [Doc -> [Version -> Bytes \cup {NULL}]]
  /\ docAudit \in [Doc -> [DocAction -> Nat]]
  /\ pc \in [Proc -> Statement]
  /\ work \in [Proc -> Work]

(***************************************************************************)
(* The version history has no gap and no fork, whatever replacements run   *)
(* at the same time or die half-way (AC-FILE-009-02, -03): every version   *)
(* since the second that the pointer went through has its row and all but  *)
(* the current one are superseded; at most the next version is ahead of    *)
(* the pointer, and the current one is superseded only for its sake.       *)
(***************************************************************************)
HistoryOf(d) ==
  /\ 2 .. version[d] \subseteq versions[d]
  /\ versions[d] \subseteq 2 .. version[d] + 1
  /\ 2 .. version[d] - 1 \subseteq superseded[d]
  /\ superseded[d] \subseteq 2 .. version[d]
  /\ version[d] \in superseded[d] => version[d] + 1 \in versions[d]

VersionHistoryContiguous == \A d \in Doc : HistoryOf(d)

\* The bytes a download of d is signed for, and those that its verdict is about.
Served(d) == IF storageKey[d] = NULL THEN NULL ELSE blob[d][storageKey[d]]
BytesOf(verdict) == IF verdict = "active" THEN "clean" ELSE "malware"
Misjudged(d) == status[d] \in {"active", "infected"} /\ Served(d) # BytesOf(status[d])

\* Is what p has seen still what d serves?
StillServed(p, d) ==
  work[p].key = <<d, storageKey[d]>> /\ work[p].seen = {Served(d)}

\* p writes its verdict on d, though it was given another key, a replacement moved the key,
\* or the bytes changed while they were validated and scanned.
VerdictOvertaken(p, d) ==
  /\ pc[p] \in {"promote", "quarantine"} /\ pc'[p] = "idle" /\ work[p].doc = d
  /\ ~StillServed(p, d)

\* p sets the first key of d, after a replacement has set the next.
FirstKeyLate(p, d) ==
  pc[p] = "setKey" /\ work[p].doc = d /\ version[d] > 1 /\ storageKey'[d] = 1

(***************************************************************************)
(* Scan before available (AC-NFR-009-01, -02), as far as it holds: no step *)
(* leaves a document active with bytes that are not clean under its key,   *)
(* or infected with bytes that are not malware, but for a PUT over the     *)
(* bytes that were judged, a verdict that is overtaken, and a first key    *)
(* that is set late.  In particular no replacement carries a verdict over. *)
(***************************************************************************)
VerdictFitsBytes ==
  [][\A d \in Doc :
       Misjudged(d)' =>
         \/ Misjudged(d)
         \/ UNCHANGED <<rowVars, pc>> /\ blob'[d] # blob[d]
         \/ \E p \in Proc : VerdictOvertaken(p, d) \/ FirstKeyLate(p, d)]_docVars

(***************************************************************************)
(* A verdict is final for its version (AC-NFR-009-02): a document leaves   *)
(* active or infected only for the pending state of the next version, so   *)
(* that no two verdicts race each other and no version number is given out *)
(* twice.                                                                  *)
(***************************************************************************)
VerdictFinalPerVersion ==
  [][\A d \in Doc :
       /\ status[d] \in {"active", "infected"} /\ status'[d] # status[d] =>
            status'[d] = "pending" /\ version'[d] = version[d] + 1
       /\ version'[d] # version[d] /\ status[d] # "none" =>
            version'[d] = version[d] + 1 /\ version'[d] \in versions[d]]_docVars

(***************************************************************************)
(* Every replacement that is audited, or about to be, made a version of    *)
(* its own: of several handlers that read the same version one at most     *)
(* goes through, and its audit row never runs ahead of the pointer.        *)
(***************************************************************************)
ReplacementsCounted ==
  \A d \in Doc :
    LET unaudited == Cardinality({p \in Proc : pc[p] = "auditReplace" /\ work[p].doc = d})
    IN  version[d] > 0 =>
          docAudit[d]["document.version_replaced"] + unaudited <= version[d] - 1

(***************************************************************************)
(* A surviving handler whose INSERT went through makes its version the     *)
(* current one, whatever other handlers do to the document, or leave       *)
(* undone, meanwhile.                                                      *)
(***************************************************************************)
ReplacementTakesEffect ==
  \A p \in Proc \ Faulty, d \in Doc, v \in Version :
    (pc[p] = "supersede" /\ work[p].doc = d /\ work[p].version = v) ~> version[d] = v + 1

(***************************************************************************)
(* The scan gate of ADR-021 as its comment states it: the bytes a download *)
(* of an active document is signed for were found clean.                   *)
(***************************************************************************)
ActiveServesCleanBytes ==
  \A d \in Doc :
    status[d] = "active" => storageKey[d] # NULL /\ blob[d][storageKey[d]] = "clean"

(***************************************************************************)
(* AC-FILE-009-03: every version before the current one has its            *)
(* DocumentVersion row, by which alone it can be downloaded.               *)
(***************************************************************************)
EveryPriorVersionRetained ==
  \A d \in Doc : \A v \in Version : v < version[d] => v \in versions[d]

(***************************************************************************)
(* ADR-019 fail-closed: a soft deletion and its audit row commit together, *)
(* so when no handler is between the two the audit rows tell whether the   *)
(* document is deleted.                                                    *)
(***************************************************************************)
DeletionAudited ==
  \A d \in Doc :
    (\A p \in Proc : work[p].doc = d => pc[p] \notin {"auditDelete", "auditRecover"})
      => docAudit[d]["document.deleted"] =
           docAudit[d]["document.recovered"] + (IF deletedAt[d] THEN 1 ELSE 0)
=============================================================================
