---------------------------- MODULE Retention ----------------------------
(***************************************************************************)
(* Destroying documents: the retention window, legal holds and the purge   *)
(* (packages/db/src/repositories/retention.ts, legal-hold.ts, purge.ts).   *)
(*                                                                         *)
(* purgeEngagement runs its statements on one READ COMMITTED transaction:  *)
(* each reads what is committed when it runs, its deletions show at the    *)
(* commit, and the bytes are erased after it.  The statements of           *)
(* placeLegalHold and liftLegalHold go through the pool and commit at once *)
(* beside the transaction that holds the audit row.                        *)
(*                                                                         *)
(* Of a document only what a purge can reach is kept: its row, its version *)
(* rows, the signed URLs and the bytes.  The handlers that make a version  *)
(* are two steps, the row and the URL; what happens in between is in       *)
(* Documents.  A storage key is a document and a version, version 0 being  *)
(* the placeholder.  Signed URLs do not expire.                            *)
(***************************************************************************)
EXTENDS Integers

CONSTANTS
  Engagement, Client,
  ClientOf,    \* Engagement.clientUserId, or NULL
  Doc,         \* Document.id values
  EngagementOf,
  HoldId,      \* LegalHold.id values
  Proc,        \* invocations of the accountant's three actions
  Faulty,      \* those that may die between two statements
  NULL,
  RETENTION_WINDOW_YEARS,
  MaxYear,     \* bound: the clock
  MaxVersion   \* bound: versions per document

ASSUME RetentionAssumption ==
  /\ ClientOf \in [Engagement -> Client \cup {NULL}]
  /\ EngagementOf \in [Doc -> Engagement]
  /\ Faulty \subseteq Proc
  /\ RETENTION_WINDOW_YEARS \in Nat \ {0}
  /\ MaxYear \in Nat /\ MaxVersion \in Nat
  /\ Engagement \cap Client = {}
  /\ NULL \notin Engagement \cup Client \cup Nat \cup HoldId

VARIABLES
  now,          \* the year
  completedAt,  \* Engagement.completedAt
  target,       \* what each hold is on, NULL before its row exists
  lifted,       \* the holds with liftedAt set
  version,      \* Document.version, 0 without a row
  storageKey,   \* Document.storageKey
  versions,     \* the DocumentVersion rows
  minting,      \* the versions whose handler has yet to sign the upload URL
  issued,       \* the versions an upload URL was signed for
  blob,         \* the versions that have bytes in the store
  purged,       \* has 'engagement.purged' been recorded?
  holdAudit,    \* AuditEvent rows of each hold, counted
  pc,           \* the next statement of each invocation
  subject,      \* the engagement, hold target or hold it is about
  seen,         \* the holds that existed when it read them (a history variable)
  keys,         \* the storage keys it collected
  doomed        \* the version rows its DELETE took

holdVars  == <<target, lifted, holdAudit>>
docVars   == <<version, storageKey, versions, minting, issued, blob>>
procVars  == <<pc, subject, seen, keys, doomed>>
vars      == <<now, completedAt, holdVars, docVars, purged, procVars>>

HoldTarget == Engagement \cup Client
Version    == 1 .. MaxVersion
Key        == Doc \X (0 .. MaxVersion)
DocsOf(e)  == {d \in Doc : EngagementOf[d] = e}

HoldAction == {"legal_hold.placed", "legal_hold.lifted"}

\* The steps of purgeEngagement on its transaction, after the eligibility.
InTransaction == {"versionKeys", "documentKeys", "deleteVersions", "commit"}

Statement == InTransaction \cup {"idle", "erase", "insertHold", "auditPlaced", "auditLifted"}

Begin(p, s, statement) ==
  /\ pc[p] = "idle"
  /\ pc' = [pc EXCEPT ![p] = statement]
  /\ subject' = [subject EXCEPT ![p] = s]

Continue(p, from, to) ==
  /\ pc[p] = from
  /\ pc' = [pc EXCEPT ![p] = to]
  /\ UNCHANGED subject

Finish(p) ==
  /\ pc' = [pc EXCEPT ![p] = "idle"]
  /\ subject' = [subject EXCEPT ![p] = NULL]
  /\ seen' = [seen EXCEPT ![p] = {}]
  /\ keys' = [keys EXCEPT ![p] = {}]
  /\ doomed' = [doomed EXCEPT ![p] = {}]

RetentionInit ==
  /\ now = 0
  /\ completedAt = [e \in Engagement |-> NULL]
  /\ target = [h \in HoldId |-> NULL]
  /\ lifted = {}
  /\ version = [d \in Doc |-> 0]
  /\ storageKey = [d \in Doc |-> 0]
  /\ versions = [d \in Doc |-> {}]
  /\ minting = [d \in Doc |-> {}]
  /\ issued = [d \in Doc |-> {}]
  /\ blob = [d \in Doc |-> {}]
  /\ purged = [e \in Engagement |-> FALSE]
  /\ holdAudit = [h \in HoldId |-> [a \in HoldAction |-> 0]]
  /\ pc = [p \in Proc |-> "idle"]
  /\ subject = [p \in Proc |-> NULL]
  /\ seen = [p \in Proc |-> {}]
  /\ keys = [p \in Proc |-> {}]
  /\ doomed = [p \in Proc |-> {}]

-----------------------------------------------------------------------------
(***************************************************************************)
(* The clock and the completion stamp.                                     *)
(***************************************************************************)
Tick ==
  /\ now < MaxYear
  /\ now' = now + 1
  /\ UNCHANGED <<completedAt, holdVars, docVars, purged, procVars>>

setEngagementCompleted(e) ==
  /\ completedAt[e] = NULL
  /\ completedAt' = [completedAt EXCEPT ![e] = now]
  /\ UNCHANGED <<now, holdVars, docVars, purged, procVars>>

(***************************************************************************)
(* Documents of the engagement, before and after it is complete.           *)
(***************************************************************************)
insertPendingDocument(d) ==
  /\ 1 \in Version
  /\ 1 \notin minting[d] \cup issued[d]
  /\ version' = [version EXCEPT ![d] = 1]
  /\ minting' = [minting EXCEPT ![d] = @ \cup {1}]
  /\ UNCHANGED <<now, completedAt, holdVars, storageKey, versions, issued, blob, purged,
                 procVars>>

\* The unique key on (documentId, version) refuses a second row.
replaceDocumentWithNewVersion(d) ==
  LET v == version[d] + 1
  IN  /\ version[d] > 0
      /\ v \in Version \ versions[d]
      /\ versions' = [versions EXCEPT ![d] = @ \cup {v}]
      /\ minting' = [minting EXCEPT ![d] = @ \cup {v}]
      /\ UNCHANGED <<now, completedAt, holdVars, version, storageKey, issued, blob, purged,
                     procVars>>

(***************************************************************************)
(* The handler points the row to the key, if there still is a row, and     *)
(* signs the URL in any case.  Only a replacement moves the version.       *)
(***************************************************************************)
SignUploadUrl(d, v) ==
  /\ v \in minting[d]
  /\ minting' = [minting EXCEPT ![d] = @ \ {v}]
  /\ issued' = [issued EXCEPT ![d] = @ \cup {v}]
  /\ \/ /\ version[d] > 0
        /\ storageKey' = [storageKey EXCEPT ![d] = v]
        /\ version' = [version EXCEPT ![d] = IF v = 1 THEN @ ELSE v]
     \/ version[d] = 0 /\ UNCHANGED <<storageKey, version>>
  /\ UNCHANGED <<now, completedAt, holdVars, versions, blob, purged, procVars>>

PutObject(d, v) ==
  /\ v \in issued[d]
  /\ blob' = [blob EXCEPT ![d] = @ \cup {v}]
  /\ UNCHANGED <<now, completedAt, holdVars, version, storageKey, versions, minting, issued,
                 purged, procVars>>

-----------------------------------------------------------------------------
(***************************************************************************)
(* Legal holds.  Covers is the WHERE clause that names the engagement or   *)
(* its client, whose every engagement a hold on the client covers.         *)
(***************************************************************************)
Active(h) == target[h] # NULL /\ h \notin lifted

Covers(h, e) == target[h] = e \/ (ClientOf[e] # NULL /\ target[h] = ClientOf[e])

\* Mutant: only holds on the engagement itself are looked for.
engagementHoldsFor(e) == {h \in HoldId : Active(h) /\ target[h] = e}

activeHoldsFor(e) == {h \in HoldId : Active(h) /\ Covers(h, e)}

\* The check for a hold that is there already, through the pool.
placeLegalHold(p, t) ==
  /\ \A h \in HoldId : Active(h) => target[h] # t
  /\ Begin(p, t, "insertHold")
  /\ UNCHANGED <<now, completedAt, holdVars, docVars, purged, seen, keys, doomed>>

\* Mutant: the audit row is made out to the target of the hold.
InsertHoldForTarget(p, h) ==
  /\ target[h] = NULL
  /\ target' = [target EXCEPT ![h] = subject[p]]
  /\ Continue(p, "insertHold", "auditPlaced")
  /\ UNCHANGED <<now, completedAt, lifted, holdAudit, docVars, purged, seen, keys, doomed>>

InsertHold(p, h) ==
  /\ pc[p] = "insertHold"
  /\ target[h] = NULL
  /\ target' = [target EXCEPT ![h] = subject[p]]
  /\ pc' = [pc EXCEPT ![p] = "auditPlaced"]
  /\ subject' = [subject EXCEPT ![p] = h]
  /\ UNCHANGED <<now, completedAt, lifted, holdAudit, docVars, purged, seen, keys, doomed>>

\* Mutant: the UPDATE does not ask for liftedAt IS NULL.
liftAgain(p, h) ==
  /\ target[h] # NULL
  /\ lifted' = lifted \cup {h}
  /\ Begin(p, h, "auditLifted")
  /\ UNCHANGED <<now, completedAt, target, holdAudit, docVars, purged, seen, keys, doomed>>

liftLegalHold(p, h) ==
  /\ Active(h)
  /\ lifted' = lifted \cup {h}
  /\ Begin(p, h, "auditLifted")
  /\ UNCHANGED <<now, completedAt, target, holdAudit, docVars, purged, seen, keys, doomed>>

AuditHold(p, statement, action) ==
  /\ pc[p] = statement
  /\ holdAudit' = [holdAudit EXCEPT ![subject[p]][action] = @ + 1]
  /\ Finish(p)
  /\ UNCHANGED <<now, completedAt, target, lifted, docVars, purged>>

-----------------------------------------------------------------------------
(***************************************************************************)
(* The purge.                                                              *)
(***************************************************************************)
\* Mutant: the window is taken to be over a year early.
deadlinePassedEarly(e) ==
  completedAt[e] # NULL /\ completedAt[e] + RETENTION_WINDOW_YEARS - 1 <= now

retentionDeadlinePassed(e) ==
  completedAt[e] # NULL /\ completedAt[e] + RETENTION_WINDOW_YEARS <= now

\* Confirmed by the accountant, and eligible as read on the transaction.
purgeEngagement(p, e) ==
  /\ retentionDeadlinePassed(e)
  /\ activeHoldsFor(e) = {}
  /\ Begin(p, e, "versionKeys")
  /\ seen' = [seen EXCEPT ![p] = {h \in HoldId : target[h] # NULL}]
  /\ UNCHANGED <<now, completedAt, holdVars, docVars, purged, keys, doomed>>

CollectVersionKeys(p) ==
  /\ Continue(p, "versionKeys", "documentKeys")
  /\ keys' = [keys EXCEPT ![p] = {k \in Key : k[1] \in DocsOf(subject[p]) /\ k[2] \in versions[k[1]]}]
  /\ UNCHANGED <<now, completedAt, holdVars, docVars, purged, seen, doomed>>

CollectDocumentKeys(p) ==
  /\ Continue(p, "documentKeys", "deleteVersions")
  /\ keys' = [keys EXCEPT ![p] = @ \cup {k \in Key : /\ k[1] \in DocsOf(subject[p])
                                                     /\ version[k[1]] > 0
                                                     /\ k[2] = storageKey[k[1]]}]
  /\ UNCHANGED <<now, completedAt, holdVars, docVars, purged, seen, doomed>>

\* The rows are locked from here on; others see them until the commit.
DeleteVersions(p) ==
  /\ Continue(p, "deleteVersions", "commit")
  /\ doomed' = [doomed EXCEPT ![p] = {k \in Key : k[1] \in DocsOf(subject[p])
                                                    /\ k[2] \in versions[k[1]]}]
  /\ UNCHANGED <<now, completedAt, holdVars, docVars, purged, seen, keys>>

\* Has a version been inserted since?  Its foreign key keeps the document.
NewVersions(p) ==
  \E d \in DocsOf(subject[p]) : \E v \in versions[d] : <<d, v>> \notin doomed[p]

\* The documents go, the audit row is written, and the transaction commits.
CommitPurge(p) ==
  LET gone == DocsOf(subject[p])
  IN  /\ Continue(p, "commit", "erase")
      /\ ~NewVersions(p)
      /\ version' = [d \in Doc |-> IF d \in gone THEN 0 ELSE version[d]]
      /\ storageKey' = [d \in Doc |-> IF d \in gone THEN 0 ELSE storageKey[d]]
      /\ versions' = [d \in Doc |-> IF d \in gone THEN {} ELSE versions[d]]
      /\ purged' = [purged EXCEPT ![subject[p]] = TRUE]
      /\ seen' = [seen EXCEPT ![p] = {}]
      /\ doomed' = [doomed EXCEPT ![p] = {}]
      /\ UNCHANGED <<now, completedAt, holdVars, minting, issued, blob, keys>>

\* Mutant: the bytes are erased although the transaction was rolled back.
RollBackAndErase(p) ==
  /\ NewVersions(p)
  /\ Continue(p, "commit", "erase")
  /\ UNCHANGED <<now, completedAt, holdVars, docVars, purged, seen, keys, doomed>>

\* The foreign key refuses the DELETE and the transaction rolls back.
RollBack(p) ==
  /\ pc[p] = "commit"
  /\ NewVersions(p)
  /\ Finish(p)
  /\ UNCHANGED <<now, completedAt, holdVars, docVars, purged>>

\* Mutant: the first key only.
EraseFirstKey(p) ==
  /\ pc[p] = "erase"
  /\ \E k \in keys[p] :
       /\ keys' = [keys EXCEPT ![p] = {}]
       /\ blob' = [blob EXCEPT ![k[1]] = @ \ {k[2]}]
  /\ UNCHANGED <<now, completedAt, holdVars, version, storageKey, versions, minting, issued,
                 purged, pc, subject, seen, doomed>>

\* storage.delete, key by key
EraseKey(p) ==
  /\ pc[p] = "erase"
  /\ \E k \in keys[p] :
       /\ keys' = [keys EXCEPT ![p] = @ \ {k}]
       /\ blob' = [blob EXCEPT ![k[1]] = @ \ {k[2]}]
  /\ UNCHANGED <<now, completedAt, holdVars, version, storageKey, versions, minting, issued,
                 purged, pc, subject, seen, doomed>>

Erased(p) ==
  /\ pc[p] = "erase"
  /\ keys[p] = {}
  /\ Finish(p)
  /\ UNCHANGED <<now, completedAt, holdVars, docVars, purged>>

\* Before the commit the transaction rolls back; nothing else is undone.
Fail(p) ==
  /\ p \in Faulty
  /\ pc[p] # "idle"
  /\ Finish(p)
  /\ UNCHANGED <<now, completedAt, holdVars, docVars, purged>>

-----------------------------------------------------------------------------
Step(p) ==
  \/ \E h \in HoldId : InsertHold(p, h)
  \/ AuditHold(p, "auditPlaced", "legal_hold.placed")
  \/ AuditHold(p, "auditLifted", "legal_hold.lifted")
  \/ CollectVersionKeys(p)
  \/ CollectDocumentKeys(p)
  \/ DeleteVersions(p)
  \/ CommitPurge(p)
  \/ RollBack(p)
  \/ EraseKey(p)
  \/ Erased(p)

Accountant(p) ==
  \/ \E t \in HoldTarget : placeLegalHold(p, t)
  \/ \E h \in HoldId : liftLegalHold(p, h)
  \/ \E e \in Engagement : purgeEngagement(p, e)

Documents(d) ==
  \/ insertPendingDocument(d)
  \/ replaceDocumentWithNewVersion(d)
  \/ \E v \in Version : SignUploadUrl(d, v) \/ PutObject(d, v)

RetentionNext ==
  \/ Tick
  \/ \E e \in Engagement : setEngagementCompleted(e)
  \/ \E d \in Doc : Documents(d)
  \/ \E p \in Proc : Accountant(p) \/ Step(p) \/ Fail(p)

RetentionSpec == RetentionInit /\ [][RetentionNext]_vars

\* A handler that survives runs to its end.
RetentionFairSpec == RetentionSpec /\ \A p \in Proc \ Faulty : WF_vars(Step(p))

-----------------------------------------------------------------------------
RetentionTypeOK ==
  /\ now \in 0 .. MaxYear
  /\ completedAt \in [Engagement -> (0 .. MaxYear) \cup {NULL}]
  /\ target \in [HoldId -> HoldTarget \cup {NULL}]
  /\ lifted \subseteq HoldId
  /\ version \in [Doc -> 0 .. MaxVersion]
  /\ storageKey \in [Doc -> 0 .. MaxVersion]
  /\ versions \in [Doc -> SUBSET Version]
  /\ minting \in [Doc -> SUBSET Version]
  /\ issued \in [Doc -> SUBSET Version]
  /\ blob \in [Doc -> SUBSET Version]
  /\ purged \in [Engagement -> BOOLEAN]
  /\ holdAudit \in [HoldId -> [HoldAction -> Nat]]
  /\ pc \in [Proc -> Statement]
  /\ subject \in [Proc -> HoldTarget \cup HoldId \cup {NULL}]
  /\ seen \in [Proc -> SUBSET HoldId]
  /\ keys \in [Proc -> SUBSET Key]
  /\ doomed \in [Proc -> SUBSET Key]
  /\ \A p \in Proc :
       /\ pc[p] \in InTransaction \cup {"erase"} => subject[p] \in Engagement
       /\ pc[p] = "insertHold" => subject[p] \in HoldTarget
       /\ pc[p] \in {"auditPlaced", "auditLifted"} => subject[p] \in HoldId

(***************************************************************************)
(* No document row and no byte is destroyed before the retention window of *)
(* its engagement is over (AC-FILE-015-01 and -02), although the purge     *)
(* destroys on an eligibility it read many statements earlier.             *)
(***************************************************************************)
DestroyedOnlyPastRetention ==
  [][\A d \in Doc :
       (version[d] > 0 /\ version'[d] = 0) \/ blob[d] \ blob'[d] # {}
         => LET e == EngagementOf[d]
            IN  completedAt[e] # NULL /\ now - completedAt[e] >= RETENTION_WINDOW_YEARS]_vars

(***************************************************************************)
(* Bytes go last (ADR-009): when bytes are erased the rows of their        *)
(* document are gone and the purge is on the audit ledger, whatever was    *)
(* uploaded or replaced between collecting the keys and erasing them.      *)
(***************************************************************************)
BytesOutliveRows ==
  [][\A d \in Doc :
       blob[d] \ blob'[d] # {} =>
         version[d] = 0 /\ versions[d] = {} /\ purged[EngagementOf[d]]]_vars

(***************************************************************************)
(* A hold stops every purge that starts after it (AC-FILE-014-03), on the  *)
(* engagement or on its client: no purge on its way to the commit has, at  *)
(* any time, an active hold that existed when it read them.                *)
(***************************************************************************)
HoldStopsLaterPurge ==
  \A p \in Proc :
    pc[p] \in InTransaction =>
      \A h \in seen[p] : ~(Active(h) /\ Covers(h, subject[p]))

(***************************************************************************)
(* Of several handlers that lift the same hold one writes the audit row    *)
(* (AC-FILE-014-07), and only of a hold that is and stays lifted.          *)
(***************************************************************************)
LiftAuditedOnce ==
  \A h \in HoldId :
    /\ holdAudit[h]["legal_hold.lifted"] <= 1
    /\ holdAudit[h]["legal_hold.lifted"] = 1 => target[h] # NULL /\ h \in lifted

(***************************************************************************)
(* Bytes whose key a surviving handler collected are erased after its      *)
(* commit, however many keys there are and whoever else fails.             *)
(***************************************************************************)
PurgeErasesWhatItCollected ==
  \A p \in Proc \ Faulty, d \in Doc, v \in Version :
    (pc[p] = "erase" /\ <<d, v>> \in keys[p] /\ v \in blob[d]) ~> v \notin blob[d]

(***************************************************************************)
(* The transaction of the purge as its comment states it: "a hold placed   *)
(* after the read but before the commit is observed", so no purge commits  *)
(* while a hold on its engagement is active.                               *)
(***************************************************************************)
HoldAtCommitBlocksPurge ==
  [][\A p \in Proc :
       pc[p] = "commit" /\ pc'[p] = "erase" => activeHoldsFor(subject[p]) = {}]_vars
=============================================================================
