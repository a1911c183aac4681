------------------------- MODULE RetentionProofs -------------------------
(***************************************************************************)
(* Proofs about Retention.  The inductive invariant, RetentionInv, says    *)
(* what a purge relies on from its eligibility to its last erased key      *)
(* (PurgeOK): that the window stays over, that its keys are of documents   *)
(* whose id was given out and that, once it committed, these have no row   *)
(* and never get one again.  No other step undoes any of this (Lasting).   *)
(***************************************************************************)
EXTENDS Retention, TLAPS

Purging == InTransaction \cup {"erase"}

KeyOK(p, d) ==
  /\ EngagementOf[d] = subject[p]
  /\ 1 \in minting[d] \cup issued[d]
  /\ pc[p] = "erase" => version[d] = 0

PurgeOK(p) ==
  pc[p] \in Purging =>
    /\ retentionDeadlinePassed(subject[p])
    /\ pc[p] # "versionKeys" => \A k \in keys[p] : KeyOK(p, k[1])
    /\ \A h \in seen[p] : target[h] # NULL /\ ~(Active(h) /\ Covers(h, subject[p]))
    /\ pc[p] = "erase" => purged[subject[p]]

RowOK(d) ==
  /\ version[d] = 0 => versions[d] = {}
  /\ version[d] # 0 => 1 \in minting[d] \cup issued[d]

LiftOK(h) ==
  /\ h \in lifted => target[h] # NULL
  /\ h \notin lifted => holdAudit[h]["legal_hold.lifted"] = 0
  /\ holdAudit[h]["legal_hold.lifted"] <= 1

LifterOK(p) ==
  pc[p] = "auditLifted" =>
    subject[p] \in lifted /\ holdAudit[subject[p]]["legal_hold.lifted"] = 0

OneLifts ==
  \A p, q \in Proc :
    pc[p] = "auditLifted" /\ pc[q] = "auditLifted" /\ subject[p] = subject[q] => p = q

RetentionInv ==
  /\ RetentionTypeOK
  /\ \A p \in Proc : PurgeOK(p)
  /\ \A d \in Doc : RowOK(d)
  /\ \A h \in HoldId : LiftOK(h)
  /\ \A p \in Proc : LifterOK(p)
  /\ OneLifts

-----------------------------------------------------------------------------
LEMMA InvHoldsInitially == RetentionInit => RetentionInv
<1> SUFFICES ASSUME RetentionInit PROVE RetentionInv
  OBVIOUS
<1>1. RetentionTypeOK
  BY RetentionAssumption DEF RetentionInit, RetentionTypeOK, Statement, InTransaction, HoldAction
<1>2. /\ \A p \in Proc : pc[p] = "idle"
      /\ \A d \in Doc : version[d] = 0 /\ versions[d] = {}
      /\ \A h \in HoldId : h \notin lifted /\ holdAudit[h]["legal_hold.lifted"] = 0
  BY DEF RetentionInit, HoldAction
<1> QED
  BY <1>1, <1>2 DEF RetentionInv, PurgeOK, Purging, InTransaction, RowOK, LiftOK, LifterOK,
                    OneLifts

-----------------------------------------------------------------------------
(***************************************************************************)
(* Type correctness.                                                       *)
(***************************************************************************)
LEMMA WorldTypes ==
  ASSUME RetentionTypeOK,
         Tick \/ (\E e \in Engagement : setEngagementCompleted(e)) \/ (\E d \in Doc : Documents(d))
  PROVE  RetentionTypeOK'
<1>1. CASE Tick
  BY <1>1, RetentionAssumption
     DEF Tick, RetentionTypeOK, holdVars, docVars, procVars
<1>2. ASSUME NEW e \in Engagement, setEngagementCompleted(e) PROVE RetentionTypeOK'
  BY <1>2 DEF setEngagementCompleted, RetentionTypeOK, holdVars, docVars, procVars
<1>3. ASSUME NEW d \in Doc, insertPendingDocument(d) PROVE RetentionTypeOK'
  BY <1>3, RetentionAssumption
     DEF insertPendingDocument, RetentionTypeOK, Version, holdVars, procVars
<1>4. ASSUME NEW d \in Doc, replaceDocumentWithNewVersion(d) PROVE RetentionTypeOK'
  BY <1>4, RetentionAssumption
     DEF replaceDocumentWithNewVersion, RetentionTypeOK, Version, holdVars, procVars
<1>5. ASSUME NEW d \in Doc, NEW v \in Version, SignUploadUrl(d, v) PROVE RetentionTypeOK'
  <2>1. v \in 0 .. MaxVersion
    BY RetentionAssumption DEF Version
  <2>2. CASE version[d] > 0
    BY <1>5, <2>1, <2>2, RetentionAssumption
       DEF SignUploadUrl, RetentionTypeOK, holdVars, procVars
  <2>3. CASE ~(version[d] > 0)
    BY <1>5, <2>3, RetentionAssumption DEF SignUploadUrl, RetentionTypeOK, holdVars, procVars
  <2> QED
    BY <2>2, <2>3
<1>6. ASSUME NEW d \in Doc, NEW v \in Version, PutObject(d, v) PROVE RetentionTypeOK'
  BY <1>6 DEF PutObject, RetentionTypeOK, holdVars, procVars
<1> QED
  BY <1>1, <1>2, <1>3, <1>4, <1>5, <1>6 DEF Documents

\* The invocation's own variables after one of its steps.
ProcTypes(p) ==
  /\ pc' \in [Proc -> Statement]
  /\ subject' \in [Proc -> HoldTarget \cup HoldId \cup {NULL}]
  /\ seen' \in [Proc -> SUBSET HoldId]
  /\ keys' \in [Proc -> SUBSET Key]
  /\ doomed' \in [Proc -> SUBSET Key]
  /\ pc'[p] \in Purging => subject'[p] \in Engagement
  /\ pc'[p] = "insertHold" => subject'[p] \in HoldTarget
  /\ pc'[p] \in {"auditPlaced", "auditLifted"} => subject'[p] \in HoldId
  /\ \A q \in Proc : q # p => pc'[q] = pc[q] /\ subject'[q] = subject[q]

LEMMA ProcTypesSuffice ==
  ASSUME RetentionTypeOK, NEW p \in Proc, ProcTypes(p)
  PROVE  \A q \in Proc :
           /\ pc'[q] \in InTransaction \cup {"erase"} => subject'[q] \in Engagement
           /\ pc'[q] = "insertHold" => subject'[q] \in HoldTarget
           /\ pc'[q] \in {"auditPlaced", "auditLifted"} => subject'[q] \in HoldId
BY DEF RetentionTypeOK, ProcTypes, Purging

LEMMA BeginTypes ==
  ASSUME RetentionTypeOK, NEW p \in Proc, NEW s, NEW statement \in Statement, Begin(p, s, statement),
         statement \in Purging => s \in Engagement,
         statement = "insertHold" => s \in HoldTarget,
         statement \in {"auditPlaced", "auditLifted"} => s \in HoldId,
         statement # "idle",
         seen' \in [Proc -> SUBSET HoldId], keys' = keys, doomed' = doomed
  PROVE  ProcTypes(p)
<1>1. s \in HoldTarget \cup HoldId
  BY DEF Statement, Purging, HoldTarget
<1> QED
  BY <1>1 DEF Begin, ProcTypes, RetentionTypeOK

LEMMA ContinueTypes ==
  ASSUME RetentionTypeOK, NEW p \in Proc, NEW from \in Purging, NEW to \in Purging,
         Continue(p, from, to),
         seen' \in [Proc -> SUBSET HoldId],
         keys' \in [Proc -> SUBSET Key], doomed' \in [Proc -> SUBSET Key]
  PROVE  ProcTypes(p)
<1>1. subject[p] \in Engagement /\ to \in Statement
  BY DEF Continue, RetentionTypeOK, Purging, Statement
<1>2. to \notin {"insertHold", "auditPlaced", "auditLifted"}
  BY DEF Purging, InTransaction
<1> QED
  BY <1>1, <1>2 DEF Continue, ProcTypes, RetentionTypeOK

LEMMA FinishTypes ==
  ASSUME RetentionTypeOK, NEW p \in Proc, Finish(p)
  PROVE  ProcTypes(p)
<1>1. "idle" \in Statement /\ "idle" \notin Purging
  BY DEF Statement, Purging, InTransaction
<1> QED
  BY <1>1 DEF Finish, ProcTypes, RetentionTypeOK

LEMMA HoldTypes ==
  ASSUME RetentionTypeOK, NEW p \in Proc,
         \/ \E t \in HoldTarget : placeLegalHold(p, t)
         \/ \E h \in HoldId : liftLegalHold(p, h) \/ InsertHold(p, h)
         \/ AuditHold(p, "auditPlaced", "legal_hold.placed")
         \/ AuditHold(p, "auditLifted", "legal_hold.lifted")
  PROVE  RetentionTypeOK' /\ ProcTypes(p)
<1> USE DEF docVars
<1>1. ASSUME NEW t \in HoldTarget, placeLegalHold(p, t) PROVE RetentionTypeOK' /\ ProcTypes(p)
  <2>1. ProcTypes(p)
    BY <1>1, BeginTypes DEF placeLegalHold, Statement, Purging, InTransaction, RetentionTypeOK
  <2> QED
    BY <1>1, <2>1, ProcTypesSuffice
       DEF placeLegalHold, holdVars, RetentionTypeOK, ProcTypes
<1>2. ASSUME NEW h \in HoldId, liftLegalHold(p, h) PROVE RetentionTypeOK' /\ ProcTypes(p)
  <2>1. ProcTypes(p)
    BY <1>2, BeginTypes DEF liftLegalHold, Statement, Purging, InTransaction, RetentionTypeOK
  <2> QED
    BY <1>2, <2>1, ProcTypesSuffice DEF liftLegalHold, RetentionTypeOK, ProcTypes
<1>3. ASSUME NEW h \in HoldId, InsertHold(p, h) PROVE RetentionTypeOK' /\ ProcTypes(p)
  <2>1. ProcTypes(p)
    BY <1>3 DEF InsertHold, ProcTypes, RetentionTypeOK, Statement, Purging, InTransaction
  <2>2. subject[p] \in HoldTarget
    BY <1>3 DEF InsertHold, RetentionTypeOK
  <2> QED
    BY <1>3, <2>1, <2>2, ProcTypesSuffice DEF InsertHold, RetentionTypeOK, ProcTypes
<1>4. ASSUME NEW a \in HoldAction, NEW s \in {"auditPlaced", "auditLifted"}, AuditHold(p, s, a)
      PROVE  RetentionTypeOK' /\ ProcTypes(p)
  <2>1. ProcTypes(p)
    BY <1>4, FinishTypes DEF AuditHold
  <2>2. subject[p] \in HoldId
    BY <1>4 DEF AuditHold, RetentionTypeOK
  <2>3. holdAudit' \in [HoldId -> [HoldAction -> Nat]]
    BY <1>4, <2>2 DEF AuditHold, RetentionTypeOK
  <2> QED
    BY <1>4, <2>1, <2>3, ProcTypesSuffice DEF AuditHold, RetentionTypeOK, ProcTypes
<1> QED
  BY <1>1, <1>2, <1>3, <1>4 DEF HoldAction

LEMMA PurgeTypes ==
  ASSUME RetentionTypeOK, NEW p \in Proc,
         \/ \E e \in Engagement : purgeEngagement(p, e)
         \/ CollectVersionKeys(p) \/ CollectDocumentKeys(p) \/ DeleteVersions(p)
         \/ CommitPurge(p) \/ RollBack(p) \/ EraseKey(p) \/ Erased(p) \/ Fail(p)
  PROVE  RetentionTypeOK' /\ ProcTypes(p)
<1> USE DEF holdVars
<1>0. "idle" \notin Purging /\ Purging = InTransaction \cup {"erase"}
  BY DEF Purging, InTransaction
<1>1. ASSUME NEW e \in Engagement, purgeEngagement(p, e) PROVE RetentionTypeOK' /\ ProcTypes(p)
  <2>1. seen' \in [Proc -> SUBSET HoldId] /\ keys' = keys /\ doomed' = doomed
    BY <1>1 DEF purgeEngagement, RetentionTypeOK
  <2>2. ProcTypes(p)
    BY <1>1, <2>1, BeginTypes DEF purgeEngagement, Statement, Purging, InTransaction
  <2> QED
    BY <1>1, <2>2, ProcTypesSuffice DEF purgeEngagement, docVars, RetentionTypeOK, ProcTypes
<1>2. ASSUME CollectVersionKeys(p) PROVE RetentionTypeOK' /\ ProcTypes(p)
  <2>1. keys' \in [Proc -> SUBSET Key] /\ seen' = seen /\ doomed' = doomed
    BY <1>2 DEF CollectVersionKeys, RetentionTypeOK
  <2>2. ProcTypes(p)
    BY <1>2, <2>1, ContinueTypes DEF CollectVersionKeys, Purging, InTransaction, RetentionTypeOK
  <2> QED
    BY <1>2, <2>2, ProcTypesSuffice DEF CollectVersionKeys, docVars, RetentionTypeOK, ProcTypes
<1>3. ASSUME CollectDocumentKeys(p) PROVE RetentionTypeOK' /\ ProcTypes(p)
  <2>1. keys' \in [Proc -> SUBSET Key] /\ seen' = seen /\ doomed' = doomed
    BY <1>3 DEF CollectDocumentKeys, RetentionTypeOK
  <2>2. ProcTypes(p)
    BY <1>3, <2>1, ContinueTypes DEF CollectDocumentKeys, Purging, InTransaction, RetentionTypeOK
  <2> QED
    BY <1>3, <2>2, ProcTypesSuffice DEF CollectDocumentKeys, docVars, RetentionTypeOK, ProcTypes
<1>4. ASSUME DeleteVersions(p) PROVE RetentionTypeOK' /\ ProcTypes(p)
  <2>1. doomed' \in [Proc -> SUBSET Key] /\ seen' = seen /\ keys' = keys
    BY <1>4 DEF DeleteVersions, RetentionTypeOK
  <2>2. ProcTypes(p)
    BY <1>4, <2>1, ContinueTypes DEF DeleteVersions, Purging, InTransaction, RetentionTypeOK
  <2> QED
    BY <1>4, <2>2, ProcTypesSuffice DEF DeleteVersions, docVars, RetentionTypeOK, ProcTypes
<1>5. ASSUME CommitPurge(p) PROVE RetentionTypeOK' /\ ProcTypes(p)
  <2>1. /\ doomed' \in [Proc -> SUBSET Key] /\ seen' \in [Proc -> SUBSET HoldId]
        /\ keys' = keys
    BY <1>5 DEF CommitPurge, RetentionTypeOK
  <2>2. ProcTypes(p)
    BY <1>5, <2>1, ContinueTypes DEF CommitPurge, Purging, InTransaction, RetentionTypeOK
  <2>3. /\ version' \in [Doc -> 0 .. MaxVersion] /\ storageKey' \in [Doc -> 0 .. MaxVersion]
        /\ versions' \in [Doc -> SUBSET Version]
    BY <1>5, RetentionAssumption DEF CommitPurge, RetentionTypeOK
  <2>4. purged' \in [Engagement -> BOOLEAN]
    BY <1>5 DEF CommitPurge, RetentionTypeOK
  <2> QED
    BY <1>5, <2>2, <2>3, <2>4, ProcTypesSuffice DEF CommitPurge, RetentionTypeOK, ProcTypes
<1>6. ASSUME RollBack(p) \/ Erased(p) \/ Fail(p) PROVE RetentionTypeOK' /\ ProcTypes(p)
  <2>1. ProcTypes(p)
    BY <1>6, FinishTypes DEF RollBack, Erased, Fail
  <2> QED
    BY <1>6, <2>1, ProcTypesSuffice
       DEF RollBack, Erased, Fail, docVars, RetentionTypeOK, ProcTypes
<1>7. ASSUME EraseKey(p) PROVE RetentionTypeOK' /\ ProcTypes(p)
  <2>1. PICK k \in keys[p] : /\ keys' = [keys EXCEPT ![p] = @ \ {k}]
                             /\ blob' = [blob EXCEPT ![k[1]] = @ \ {k[2]}]
    BY <1>7 DEF EraseKey
  <2>2. ProcTypes(p)
    BY <1>7, <2>1 DEF EraseKey, RetentionTypeOK, ProcTypes, Purging
  <2>3. blob' \in [Doc -> SUBSET Version]
    BY <2>1 DEF RetentionTypeOK
  <2> QED
    BY <1>7, <2>2, <2>3, ProcTypesSuffice DEF EraseKey, RetentionTypeOK, ProcTypes
<1> QED
  BY <1>1, <1>2, <1>3, <1>4, <1>5, <1>6, <1>7

LEMMA TypeStep ==
  ASSUME RetentionTypeOK, [RetentionNext]_vars
  PROVE  RetentionTypeOK'
<1>1. CASE UNCHANGED vars
  BY <1>1 DEF vars, holdVars, docVars, procVars, RetentionTypeOK
<1>2. ASSUME NEW p \in Proc, Accountant(p) \/ Step(p) \/ Fail(p) PROVE RetentionTypeOK'
  BY <1>2, HoldTypes, PurgeTypes DEF Accountant, Step
<1> QED
  BY <1>1, <1>2, WorldTypes DEF RetentionNext

-----------------------------------------------------------------------------
(***************************************************************************)
(* What no step undoes: the clock does not run back, a stamp, a hold, a    *)
(* lifting and an audited purge stay, and a document id that was given out *)
(* and has no row never has one again.                                     *)
(***************************************************************************)
Lasting ==
  /\ now <= now'
  /\ \A e \in Engagement : completedAt[e] # NULL => completedAt'[e] = completedAt[e]
  /\ \A e \in Engagement : purged[e] => purged'[e]
  /\ \A h \in HoldId : target[h] # NULL => target'[h] = target[h]
  /\ lifted \subseteq lifted'
  /\ \A d \in Doc :
       1 \in minting[d] \cup issued[d] =>
         1 \in minting'[d] \cup issued'[d] /\ (version[d] = 0 => version'[d] = 0)

PurgeStays(p) ==
  pc'[p] = pc[p] /\ subject'[p] = subject[p] /\ keys'[p] \subseteq keys[p] /\ seen'[p] = seen[p]

LEMMA PurgesStayOK ==
  ASSUME RetentionTypeOK, RetentionTypeOK', Lasting, NEW p \in Proc, PurgeOK(p), PurgeStays(p)
  PROVE  PurgeOK(p)'
<1> SUFFICES ASSUME pc[p] \in Purging PROVE PurgeOK(p)'
  BY DEF PurgeOK, PurgeStays
<1>1. subject[p] \in Engagement
  BY DEF RetentionTypeOK, Purging
<1>2. retentionDeadlinePassed(subject[p])'
  <2>1. /\ completedAt[subject[p]] # NULL /\ completedAt'[subject[p]] = completedAt[subject[p]]
        /\ completedAt[subject[p]] + RETENTION_WINDOW_YEARS <= now
    BY <1>1 DEF PurgeOK, Lasting, retentionDeadlinePassed
  <2>2. completedAt[subject[p]] \in Nat /\ now \in Nat /\ now' \in Nat
    BY <1>1, <2>1, RetentionAssumption DEF RetentionTypeOK
  <2> QED
    BY <2>1, <2>2, RetentionAssumption DEF PurgeStays, Lasting, retentionDeadlinePassed
<1>3. ASSUME pc[p] # "versionKeys", NEW k \in keys'[p] PROVE KeyOK(p, k[1])'
  <2>1. k \in keys[p] /\ k[1] \in Doc
    BY DEF PurgeStays, RetentionTypeOK, Key
  <2>2. KeyOK(p, k[1])
    BY <1>3, <2>1 DEF PurgeOK
  <2> QED
    BY <2>1, <2>2 DEF KeyOK, PurgeStays, Lasting
<1>4. ASSUME NEW h \in seen'[p]
      PROVE  target'[h] # NULL /\ ~(Active(h)' /\ Covers(h, subject[p])')
  <2>1. h \in HoldId /\ h \in seen[p]
    BY DEF PurgeStays, RetentionTypeOK
  <2>2. target[h] # NULL /\ ~(Active(h) /\ Covers(h, subject[p])) /\ target'[h] = target[h]
    BY <2>1 DEF PurgeOK, Lasting
  <2> QED
    BY <2>1, <2>2 DEF Active, Covers, Lasting, PurgeStays
<1>5. pc[p] = "erase" => purged'[subject[p]]
  BY <1>1 DEF PurgeOK, Lasting
<1> QED
  BY <1>2, <1>3, <1>4, <1>5 DEF PurgeOK, PurgeStays, Covers

\* A step that concerns neither liftings nor their audit rows.
LEMMA LiftsStayOK ==
  ASSUME RetentionInv, Lasting, UNCHANGED lifted,
         \A h \in HoldId :
           holdAudit'[h]["legal_hold.lifted"] = holdAudit[h]["legal_hold.lifted"],
         \A p \in Proc : pc'[p] = "auditLifted" =>
                            pc[p] = "auditLifted" /\ subject'[p] = subject[p]
  PROVE  /\ (\A h \in HoldId : LiftOK(h))'
         /\ (\A p \in Proc : LifterOK(p))'
         /\ OneLifts'
<1>1. (\A h \in HoldId : LiftOK(h))'
  BY DEF RetentionInv, LiftOK, Lasting
<1>2. ASSUME NEW p \in Proc, pc'[p] = "auditLifted" PROVE LifterOK(p)'
  <2>1. pc[p] = "auditLifted" /\ subject'[p] = subject[p] /\ subject[p] \in HoldId
    BY <1>2 DEF RetentionInv, RetentionTypeOK
  <2> QED
    BY <2>1 DEF RetentionInv, LifterOK
<1>3. OneLifts'
  BY DEF RetentionInv, OneLifts
<1> QED
  BY <1>1, <1>2, <1>3 DEF LifterOK

-----------------------------------------------------------------------------
(***************************************************************************)
(* One lemma for each kind of step.                                        *)
(***************************************************************************)
LEMMA WorldStep ==
  ASSUME RetentionInv, RetentionTypeOK', UNCHANGED <<holdVars, purged, procVars>>,
         Lasting, (\A d \in Doc : RowOK(d))'
  PROVE  RetentionInv'
<1>1. \A p \in Proc : PurgeStays(p)
  BY DEF PurgeStays, procVars
<1>2. (\A p \in Proc : PurgeOK(p))'
  BY <1>1, PurgesStayOK DEF RetentionInv
<1>3. /\ (\A h \in HoldId : LiftOK(h))'
      /\ (\A p \in Proc : LifterOK(p))'
      /\ OneLifts'
  BY LiftsStayOK DEF holdVars, procVars
<1> QED
  BY <1>2, <1>3 DEF RetentionInv

LEMMA DocumentSteps ==
  ASSUME RetentionInv, RetentionTypeOK', NEW d \in Doc, Documents(d)
  PROVE  RetentionInv'
<1> USE DEF RetentionInv
<1>1. CASE insertPendingDocument(d)
  <2>1. Lasting
    BY <1>1 DEF insertPendingDocument, Lasting, holdVars, RetentionTypeOK
  <2>2. (\A c \in Doc : RowOK(c))'
    BY <1>1 DEF insertPendingDocument, RowOK, RetentionTypeOK
  <2> QED
    BY <1>1, <2>1, <2>2, WorldStep DEF insertPendingDocument
<1>2. CASE replaceDocumentWithNewVersion(d)
  <2>1. Lasting
    BY <1>2 DEF replaceDocumentWithNewVersion, Lasting, holdVars, RetentionTypeOK
  <2>2. (\A c \in Doc : RowOK(c))'
    BY <1>2 DEF replaceDocumentWithNewVersion, RowOK, RetentionTypeOK
  <2> QED
    BY <1>2, <2>1, <2>2, WorldStep DEF replaceDocumentWithNewVersion
<1>3. ASSUME NEW v \in Version, SignUploadUrl(d, v) PROVE RetentionInv'
  <2>1. /\ \A c \in Doc : 1 \in minting[c] \cup issued[c] => 1 \in minting'[c] \cup issued'[c]
        /\ \A c \in Doc : version[c] = 0 <=> version'[c] = 0
    <3>1. v # 0 /\ version[d] \in Nat
      BY RetentionAssumption DEF Version, RetentionTypeOK
    <3>2. \A c \in Doc : version[c] = 0 <=> version'[c] = 0
      BY <1>3, <3>1 DEF SignUploadUrl, RetentionTypeOK
    <3> QED
      BY <1>3, <3>2 DEF SignUploadUrl, RetentionTypeOK
  <2>2. Lasting
    BY <1>3, <2>1 DEF SignUploadUrl, Lasting, holdVars, RetentionTypeOK
  <2>3. (\A c \in Doc : RowOK(c))'
    BY <1>3, <2>1 DEF SignUploadUrl, RowOK
  <2> QED
    BY <1>3, <2>2, <2>3, WorldStep DEF SignUploadUrl
<1>4. ASSUME NEW v \in Version, PutObject(d, v) PROVE RetentionInv'
  <2>1. Lasting /\ (\A c \in Doc : RowOK(c))'
    BY <1>4 DEF PutObject, Lasting, RowOK, holdVars, RetentionTypeOK
  <2> QED
    BY <1>4, <2>1, WorldStep DEF PutObject
<1> QED
  BY <1>1, <1>2, <1>3, <1>4 DEF Documents

LEMMA ClockSteps ==
  ASSUME RetentionInv, RetentionTypeOK', Tick \/ \E e \in Engagement : setEngagementCompleted(e)
  PROVE  RetentionInv'
<1>1. Lasting /\ (\A c \in Doc : RowOK(c))'
  BY DEF Tick, setEngagementCompleted, Lasting, RowOK, holdVars, docVars, RetentionInv,
         RetentionTypeOK
<1> QED
  BY <1>1, WorldStep DEF Tick, setEngagementCompleted

\* A step of one invocation: the others' purges stay, its own is shown to be right.
LEMMA ProcStep ==
  ASSUME RetentionInv, RetentionTypeOK', NEW p \in Proc, ProcTypes(p), Lasting,
         \A q \in Proc : q # p => keys'[q] = keys[q] /\ seen'[q] = seen[q],
         PurgeOK(p)'
  PROVE  (\A q \in Proc : PurgeOK(q))'
<1>1. \A q \in Proc : q # p => PurgeStays(q)
  BY DEF ProcTypes, PurgeStays
<1> QED
  BY <1>1, PurgesStayOK DEF RetentionInv

LEMMA PurgeSteps ==
  ASSUME RetentionInv, RetentionTypeOK', NEW p \in Proc, ProcTypes(p),
         \/ \E e \in Engagement : purgeEngagement(p, e)
         \/ CollectVersionKeys(p) \/ CollectDocumentKeys(p) \/ DeleteVersions(p)
         \/ CommitPurge(p) \/ RollBack(p) \/ EraseKey(p) \/ Erased(p) \/ Fail(p)
  PROVE  RetentionInv'
<1> USE DEF RetentionInv
<1> DEFINE Others == \A q \in Proc : q # p => keys'[q] = keys[q] /\ seen'[q] = seen[q]
<1>1. Lasting /\ (\A d \in Doc : RowOK(d))'
  <2>1. CASE CommitPurge(p)
    <3>1. \A d \in Doc : \/ version'[d] = 0 /\ versions'[d] = {}
                         \/ version'[d] = version[d] /\ versions'[d] = versions[d]
      BY <2>1 DEF CommitPurge, RetentionTypeOK
    <3>2. UNCHANGED <<now, completedAt, target, lifted, minting, issued>>
      BY <2>1 DEF CommitPurge, holdVars
    <3>3. \A e \in Engagement : purged[e] => purged'[e]
      BY <2>1 DEF CommitPurge, RetentionTypeOK
    <3>4. Lasting
      BY <3>1, <3>2, <3>3 DEF Lasting, RetentionTypeOK
    <3> QED
      BY <3>1, <3>2, <3>4 DEF RowOK
  <2>2. CASE ~CommitPurge(p)
    <3>1. UNCHANGED <<now, completedAt, holdVars, version, versions, minting, issued, purged>>
      BY <2>2 DEF purgeEngagement, CollectVersionKeys, CollectDocumentKeys, DeleteVersions,
                  RollBack, EraseKey, Erased, Fail, docVars
    <3> QED
      BY <3>1 DEF Lasting, RowOK, holdVars, RetentionTypeOK
  <2> QED
    BY <2>1, <2>2
<1>2. /\ (\A h \in HoldId : LiftOK(h))'
      /\ (\A q \in Proc : LifterOK(q))'
      /\ OneLifts'
  <2>1. UNCHANGED <<lifted, holdAudit>>
    BY DEF purgeEngagement, CollectVersionKeys, CollectDocumentKeys, DeleteVersions,
           CommitPurge, RollBack, EraseKey, Erased, Fail, holdVars
  <2>2. pc'[p] # "auditLifted"
    BY DEF purgeEngagement, CollectVersionKeys, CollectDocumentKeys, DeleteVersions,
           CommitPurge, RollBack, EraseKey, Erased, Fail, Begin, Continue, Finish,
           RetentionTypeOK
  <2> QED
    BY <1>1, <2>1, <2>2, LiftsStayOK DEF ProcTypes
<1>3. Others
  BY DEF purgeEngagement, CollectVersionKeys, CollectDocumentKeys, DeleteVersions,
         CommitPurge, RollBack, EraseKey, Erased, Fail, Finish, RetentionTypeOK
<1>4. PurgeOK(p)'
  <2>1. ASSUME NEW e \in Engagement, purgeEngagement(p, e) PROVE PurgeOK(p)'
    <3>1. /\ pc'[p] = "versionKeys" /\ subject'[p] = e
          /\ seen'[p] = {h \in HoldId : target[h] # NULL}
          /\ UNCHANGED <<now, completedAt, target, lifted>>
      BY <2>1 DEF purgeEngagement, Begin, holdVars, RetentionTypeOK
    <3>2. retentionDeadlinePassed(e) /\ activeHoldsFor(e) = {}
      BY <2>1 DEF purgeEngagement
    <3>3. \A h \in HoldId : ~(Active(h) /\ Covers(h, e))
      BY <3>2 DEF activeHoldsFor
    <3> QED
      BY <3>1, <3>2, <3>3 DEF PurgeOK, retentionDeadlinePassed, Active, Covers
  <2>2. ASSUME Finish(p) PROVE PurgeOK(p)'
    BY <2>2 DEF Finish, PurgeOK, Purging, InTransaction, RetentionTypeOK
  <2>3. ASSUME NEW from \in InTransaction, NEW to \in Purging, Continue(p, from, to),
               seen'[p] \subseteq seen[p],
               to = "erase" => purged'[subject[p]],
               \A k \in keys'[p] : KeyOK(p, k[1])'
        PROVE  PurgeOK(p)'
    <3>1. pc[p] \in Purging /\ subject[p] \in Engagement /\ subject'[p] = subject[p]
      BY <2>3 DEF Continue, Purging, RetentionTypeOK
    <3>2. PurgeOK(p)
      OBVIOUS
    <3>3. retentionDeadlinePassed(subject[p])'
      <4>1. retentionDeadlinePassed(subject[p]) /\ completedAt[subject[p]] # NULL
        BY <3>1, <3>2 DEF PurgeOK, retentionDeadlinePassed
      <4>2. completedAt[subject[p]] \in Nat /\ now \in Nat /\ now' \in Nat
        BY <3>1, <4>1, RetentionAssumption DEF RetentionTypeOK
      <4> QED
        BY <1>1, <3>1, <4>1, <4>2, RetentionAssumption DEF Lasting, retentionDeadlinePassed
    <3>4. ASSUME NEW h \in seen'[p]
          PROVE  target'[h] # NULL /\ ~(Active(h)' /\ Covers(h, subject[p])')
      <4>1. h \in HoldId /\ h \in seen[p]
        BY <2>3 DEF RetentionTypeOK
      <4>2. /\ target[h] # NULL /\ ~(Active(h) /\ Covers(h, subject[p]))
            /\ target'[h] = target[h] /\ lifted \subseteq lifted'
        BY <1>1, <3>1, <3>2, <4>1 DEF PurgeOK, Lasting
      <4> QED
        BY <3>1, <4>2 DEF Active, Covers
    <3>5. pc'[p] = "erase" => purged'[subject'[p]]
      BY <2>3, <3>1 DEF Continue, RetentionTypeOK
    <3> QED
      BY <2>3, <3>1, <3>3, <3>4, <3>5 DEF PurgeOK, Covers
  <2>4. ASSUME pc[p] \in InTransaction PROVE subject[p] \in Engagement /\ PurgeOK(p)
    BY <2>4 DEF RetentionTypeOK
  <2>5. CASE CollectVersionKeys(p)
    <3>1. ASSUME NEW k \in keys'[p] PROVE KeyOK(p, k[1])'
      <4>1. /\ k[1] \in Doc /\ EngagementOf[k[1]] = subject[p] /\ k[2] \in versions[k[1]]
            /\ subject'[p] = subject[p] /\ pc'[p] = "documentKeys"
        BY <2>5, <3>1 DEF CollectVersionKeys, Continue, DocsOf, RetentionTypeOK, Key
      <4>2. 1 \in minting[k[1]] \cup issued[k[1]]
        BY <4>1 DEF RowOK
      <4> QED
        BY <1>1, <4>1, <4>2 DEF KeyOK, Lasting
    <3> QED
      BY <2>5, <2>3, <3>1 DEF CollectVersionKeys, InTransaction, Purging
  <2>6. CASE CollectDocumentKeys(p)
    <3>1. ASSUME NEW k \in keys'[p] PROVE KeyOK(p, k[1])'
      <4>1. /\ subject'[p] = subject[p] /\ pc'[p] = "deleteVersions" /\ pc[p] = "documentKeys"
            /\ \/ k \in keys[p]
               \/ k[1] \in Doc /\ EngagementOf[k[1]] = subject[p] /\ version[k[1]] > 0
        BY <2>6, <3>1 DEF CollectDocumentKeys, Continue, DocsOf, RetentionTypeOK, Key
      <4>2. CASE k \in keys[p]
        <5>1. KeyOK(p, k[1]) /\ k[1] \in Doc
          BY <4>1, <4>2, <2>4 DEF PurgeOK, Purging, InTransaction, RetentionTypeOK, Key
        <5> QED
          BY <1>1, <4>1, <5>1 DEF KeyOK, Lasting
      <4>3. CASE k[1] \in Doc /\ EngagementOf[k[1]] = subject[p] /\ version[k[1]] > 0
        <5>1. 1 \in minting[k[1]] \cup issued[k[1]]
          BY <4>3 DEF RowOK
        <5> QED
          BY <1>1, <4>1, <4>3, <5>1 DEF KeyOK, Lasting
      <4> QED
        BY <4>1, <4>2, <4>3
    <3> QED
      BY <2>6, <2>3, <3>1 DEF CollectDocumentKeys, InTransaction, Purging
  <2>7. CASE DeleteVersions(p) \/ CommitPurge(p)
    <3>1. /\ pc[p] \in {"deleteVersions", "commit"} /\ subject'[p] = subject[p] /\ keys' = keys
          /\ pc'[p] = "erase" => CommitPurge(p)
      BY <2>7 DEF DeleteVersions, CommitPurge, Continue, RetentionTypeOK
    <3>2. ASSUME NEW k \in keys'[p] PROVE KeyOK(p, k[1])'
      <4>1. KeyOK(p, k[1]) /\ k[1] \in Doc
        BY <2>4, <3>1, <3>2 DEF PurgeOK, Purging, InTransaction, RetentionTypeOK, Key
      <4>2. CommitPurge(p) => version'[k[1]] = 0
        BY <4>1 DEF CommitPurge, DocsOf, KeyOK
      <4> QED
        BY <1>1, <3>1, <4>1, <4>2 DEF KeyOK, Lasting
    <3>3. CommitPurge(p) => purged'[subject[p]]
      BY <2>4, <3>1 DEF CommitPurge, InTransaction, RetentionTypeOK
    <3>4. seen'[p] \subseteq seen[p]
      BY <2>7 DEF DeleteVersions, CommitPurge, RetentionTypeOK
    <3>5. CASE DeleteVersions(p)
      BY <3>5, <2>3, <3>2, <3>4 DEF DeleteVersions, InTransaction, Purging
    <3>6. CASE CommitPurge(p)
      BY <3>6, <2>3, <3>2, <3>3, <3>4 DEF CommitPurge, InTransaction, Purging
    <3> QED
      BY <2>7, <3>5, <3>6
  <2>8. CASE EraseKey(p)
    <3>1. PurgeStays(p)
      BY <2>8 DEF EraseKey, PurgeStays, RetentionTypeOK
    <3> QED
      BY <1>1, <3>1, PurgesStayOK
  <2> QED
    BY <2>1, <2>2, <2>5, <2>6, <2>7, <2>8 DEF RollBack, Erased, Fail
<1> QED
  BY <1>1, <1>2, <1>3, <1>4, ProcStep

LEMMA HoldSteps ==
  ASSUME RetentionInv, RetentionTypeOK', NEW p \in Proc, ProcTypes(p),
         \/ \E t \in HoldTarget : placeLegalHold(p, t)
         \/ \E h \in HoldId : liftLegalHold(p, h) \/ InsertHold(p, h)
         \/ AuditHold(p, "auditPlaced", "legal_hold.placed")
         \/ AuditHold(p, "auditLifted", "legal_hold.lifted")
  PROVE  RetentionInv'
<1> USE DEF RetentionInv
<1>1. Lasting
  BY DEF placeLegalHold, liftLegalHold, InsertHold, AuditHold, Lasting, holdVars, docVars,
         RetentionTypeOK
<1>2. (\A d \in Doc : RowOK(d))'
  BY DEF placeLegalHold, liftLegalHold, InsertHold, AuditHold, RowOK, docVars
<1>3. \A q \in Proc : q # p => keys'[q] = keys[q] /\ seen'[q] = seen[q]
  BY DEF placeLegalHold, liftLegalHold, InsertHold, AuditHold, Finish, RetentionTypeOK
<1>4. pc'[p] \notin Purging
  BY DEF placeLegalHold, liftLegalHold, InsertHold, AuditHold, Begin, Finish, Purging,
         InTransaction, RetentionTypeOK
<1>5. (\A q \in Proc : PurgeOK(q))'
  BY <1>1, <1>3, <1>4, ProcStep DEF PurgeOK
<1>6. /\ (\A h \in HoldId : LiftOK(h))'
      /\ (\A q \in Proc : LifterOK(q))'
      /\ OneLifts'
  <2>1. CASE \E t \in HoldTarget : placeLegalHold(p, t)
    BY <1>1, <2>1, LiftsStayOK DEF placeLegalHold, Begin, holdVars, RetentionTypeOK
  <2>2. CASE \E h \in HoldId : InsertHold(p, h)
    BY <1>1, <2>2, LiftsStayOK DEF InsertHold, RetentionTypeOK
  <2>3. CASE AuditHold(p, "auditPlaced", "legal_hold.placed")
    <3>1. \A h \in HoldId :
            holdAudit'[h]["legal_hold.lifted"] = holdAudit[h]["legal_hold.lifted"]
      BY <2>3 DEF AuditHold, RetentionTypeOK, HoldAction
    <3> QED
      BY <1>1, <2>3, <3>1, LiftsStayOK DEF AuditHold, Finish, RetentionTypeOK
  <2>4. ASSUME NEW h \in HoldId, liftLegalHold(p, h)
        PROVE  /\ (\A g \in HoldId : LiftOK(g))'
               /\ (\A q \in Proc : LifterOK(q))'
               /\ OneLifts'
    <3>1. /\ target[h] # NULL /\ h \notin lifted /\ lifted' = lifted \cup {h}
          /\ pc'[p] = "auditLifted" /\ subject'[p] = h /\ UNCHANGED <<target, holdAudit>>
          /\ \A q \in Proc : q # p => pc'[q] = pc[q] /\ subject'[q] = subject[q]
      BY <2>4 DEF liftLegalHold, Begin, Active, RetentionTypeOK
    <3>2. (\A g \in HoldId : LiftOK(g))'
      BY <3>1 DEF LiftOK
    <3>3. (\A q \in Proc : LifterOK(q))'
      BY <3>1 DEF LifterOK, LiftOK
    <3>4. OneLifts'
      BY <3>1 DEF OneLifts, LifterOK
    <3> QED
      BY <3>2, <3>3, <3>4
  <2>5. CASE AuditHold(p, "auditLifted", "legal_hold.lifted")
    <3>1. /\ pc[p] = "auditLifted" /\ pc'[p] = "idle" /\ subject[p] \in HoldId
          /\ UNCHANGED <<target, lifted>>
          /\ \A q \in Proc : q # p => pc'[q] = pc[q] /\ subject'[q] = subject[q]
      BY <2>5 DEF AuditHold, Finish, RetentionTypeOK
    <3>2. \A h \in HoldId :
            holdAudit'[h]["legal_hold.lifted"] =
              holdAudit[h]["legal_hold.lifted"] + (IF h = subject[p] THEN 1 ELSE 0)
      BY <2>5, <3>1 DEF AuditHold, RetentionTypeOK, HoldAction
    <3>3. subject[p] \in lifted /\ holdAudit[subject[p]]["legal_hold.lifted"] = 0
      BY <3>1 DEF LifterOK
    <3>4. ASSUME NEW h \in HoldId PROVE LiftOK(h)'
      <4>1. LiftOK(h) /\ holdAudit[h]["legal_hold.lifted"] \in Nat
        BY DEF RetentionTypeOK, HoldAction
      <4>2. CASE h = subject[p]
        <5>1. holdAudit'[h]["legal_hold.lifted"] = 1
          BY <3>2, <3>3, <4>2
        <5> QED
          BY <3>1, <3>3, <4>1, <4>2, <5>1 DEF LiftOK
      <4>3. CASE h # subject[p]
        <5>1. holdAudit'[h]["legal_hold.lifted"] = holdAudit[h]["legal_hold.lifted"]
          BY <3>2, <4>1, <4>3
        <5> QED
          BY <3>1, <4>1, <5>1 DEF LiftOK
      <4> QED
        BY <4>2, <4>3
    <3>5. ASSUME NEW q \in Proc, pc'[q] = "auditLifted" PROVE LifterOK(q)'
      <4>1. q # p /\ pc[q] = "auditLifted" /\ subject'[q] = subject[q]
        BY <3>1, <3>5
      <4>2. subject[q] # subject[p] /\ subject[q] \in HoldId
        BY <3>1, <4>1 DEF OneLifts, RetentionTypeOK
      <4> QED
        BY <3>1, <3>2, <4>1, <4>2 DEF LifterOK, RetentionTypeOK, HoldAction
    <3>6. OneLifts'
      BY <3>1 DEF OneLifts
    <3> QED
      BY <3>4, <3>5, <3>6 DEF LifterOK
  <2> QED
    BY <2>1, <2>2, <2>3, <2>4, <2>5
<1> QED
  BY <1>2, <1>5, <1>6

LEMMA InvIsInductive ==
  ASSUME RetentionInv, [RetentionNext]_vars
  PROVE  RetentionInv'
<1>1. RetentionTypeOK'
  BY TypeStep DEF RetentionInv
<1>2. CASE UNCHANGED vars
  BY <1>2 DEF vars, holdVars, docVars, procVars, RetentionInv, RetentionTypeOK, PurgeOK, KeyOK,
              RowOK, LiftOK, LifterOK, OneLifts, retentionDeadlinePassed, Active, Covers
<1>3. CASE Tick \/ \E e \in Engagement : setEngagementCompleted(e)
  BY <1>1, <1>3, ClockSteps
<1>4. CASE \E d \in Doc : Documents(d)
  BY <1>1, <1>4, DocumentSteps
<1>5. ASSUME NEW p \in Proc, Accountant(p) \/ Step(p) \/ Fail(p) PROVE RetentionInv'
  BY <1>1, <1>5, HoldTypes, PurgeTypes, HoldSteps, PurgeSteps DEF Accountant, Step, RetentionInv
<1> QED
  BY <1>2, <1>3, <1>4, <1>5 DEF RetentionNext

LEMMA InvAlways == RetentionSpec => []RetentionInv
  BY InvHoldsInitially, InvIsInductive, PTL DEF RetentionSpec

-----------------------------------------------------------------------------
(***************************************************************************)
(* The properties.                                                         *)
(***************************************************************************)

\* Type correctness, for every set of handlers and any window.
THEOREM RetentionTypeCorrect == RetentionSpec => []RetentionTypeOK
<1>1. RetentionInv => RetentionTypeOK
  BY DEF RetentionInv
<1> QED
  BY <1>1, InvAlways, PTL

\* placeLegalHold stops every purgeEngagement that reads the holds after it.
THEOREM LaterPurgeStopped == RetentionSpec => []HoldStopsLaterPurge
<1>1. RetentionInv => HoldStopsLaterPurge
  BY DEF RetentionInv, PurgeOK, Purging, HoldStopsLaterPurge
<1> QED
  BY <1>1, InvAlways, PTL

\* liftLegalHold writes one audit row for a hold, whoever else lifts it.
THEOREM LiftedOnce == RetentionSpec => []LiftAuditedOnce
<1>1. RetentionInv => LiftAuditedOnce
  BY DEF RetentionInv, LiftOK, LiftAuditedOnce
<1> QED
  BY <1>1, InvAlways, PTL

(***************************************************************************)
(* Rows go in CommitPurge and bytes in EraseKey, and nowhere else.         *)
(***************************************************************************)
LEMMA RowsGoInCommit ==
  ASSUME RetentionInv, [RetentionNext]_vars, NEW d \in Doc, version[d] > 0, version'[d] = 0
  PROVE  \E p \in Proc : CommitPurge(p) /\ EngagementOf[d] = subject[p]
<1> USE DEF RetentionInv
<1>1. ASSUME NEW p \in Proc, CommitPurge(p) PROVE EngagementOf[d] = subject[p]
  <2>1. version'[d] = IF d \in DocsOf(subject[p]) THEN 0 ELSE version[d]
    BY <1>1 DEF CommitPurge
  <2>2. version[d] \in Nat
    BY RetentionAssumption DEF RetentionTypeOK
  <2> QED
    BY <2>1, <2>2 DEF DocsOf
<1>2. ASSUME NEW c \in Doc, NEW v \in Version, SignUploadUrl(c, v) PROVE FALSE
  <2>1. v # 0 /\ version[d] \in Nat
    BY RetentionAssumption DEF Version, RetentionTypeOK
  <2> QED
    BY <1>2, <2>1 DEF SignUploadUrl, RetentionTypeOK
<1>3. ASSUME version'[d] = version[d] PROVE FALSE
  BY <1>3 DEF RetentionTypeOK
<1>4. ASSUME NEW c \in Doc, insertPendingDocument(c) PROVE FALSE
  BY <1>4 DEF insertPendingDocument, RetentionTypeOK
<1>5. ASSUME NEW c \in Doc, NEW v \in Version, PutObject(c, v) PROVE FALSE
  BY <1>3, <1>5 DEF PutObject
<1>6. ASSUME NEW c \in Doc, replaceDocumentWithNewVersion(c) PROVE FALSE
  BY <1>3, <1>6 DEF replaceDocumentWithNewVersion
<1>7. ASSUME NEW p \in Proc, Accountant(p) \/ Step(p) \/ Fail(p), ~CommitPurge(p) PROVE FALSE
  <2>1. version' = version
    BY <1>7 DEF Accountant, Step, Fail, placeLegalHold, liftLegalHold, purgeEngagement,
                InsertHold, AuditHold, CollectVersionKeys, CollectDocumentKeys, DeleteVersions,
                RollBack, EraseKey, Erased, docVars
  <2> QED
    BY <1>3, <2>1
<1>8. ASSUME Tick \/ (\E e \in Engagement : setEngagementCompleted(e)) \/ UNCHANGED vars PROVE FALSE
  BY <1>3, <1>8 DEF Tick, setEngagementCompleted, docVars, vars
<1> QED
  BY <1>1, <1>2, <1>4, <1>5, <1>6, <1>7, <1>8 DEF RetentionNext, Documents

LEMMA BytesGoInErase ==
  ASSUME RetentionInv, [RetentionNext]_vars, NEW d \in Doc, blob[d] \ blob'[d] # {}
  PROVE  \E p \in Proc : pc[p] = "erase" /\ \E k \in keys[p] : k[1] = d
<1> USE DEF RetentionInv
<1>1. ASSUME NEW p \in Proc, EraseKey(p)
      PROVE  pc[p] = "erase" /\ \E k \in keys[p] : k[1] = d
  BY <1>1 DEF EraseKey, RetentionTypeOK
<1>2. ASSUME blob'[d] = blob[d] PROVE FALSE
  BY <1>2
<1>3. ASSUME NEW c \in Doc, Documents(c) PROVE FALSE
  <2>1. blob[d] \subseteq blob'[d]
    BY <1>3 DEF Documents, insertPendingDocument, replaceDocumentWithNewVersion, SignUploadUrl,
                PutObject, RetentionTypeOK
  <2> QED
    BY <2>1
<1>4. ASSUME NEW p \in Proc, Accountant(p) \/ Step(p) \/ Fail(p), ~EraseKey(p) PROVE FALSE
  <2>1. blob' = blob
    BY <1>4 DEF Accountant, Step, Fail, placeLegalHold, liftLegalHold, purgeEngagement,
                InsertHold, AuditHold, CollectVersionKeys, CollectDocumentKeys, DeleteVersions,
                RollBack, CommitPurge, Erased, docVars
  <2> QED
    BY <1>2, <2>1
<1>5. ASSUME Tick \/ (\E e \in Engagement : setEngagementCompleted(e)) \/ UNCHANGED vars PROVE FALSE
  BY <1>2, <1>5 DEF Tick, setEngagementCompleted, docVars, vars
<1> QED
  BY <1>1, <1>3, <1>4, <1>5 DEF RetentionNext

\* purgeEngagement destroys neither row nor byte inside the retention window.
THEOREM DestroyedLate == RetentionSpec => DestroyedOnlyPastRetention
<1> DEFINE Late ==
      \A d \in Doc :
        (version[d] > 0 /\ version'[d] = 0) \/ blob[d] \ blob'[d] # {}
          => LET e == EngagementOf[d]
             IN  completedAt[e] # NULL /\ now - completedAt[e] >= RETENTION_WINDOW_YEARS
<1>1. ASSUME RetentionInv, [RetentionNext]_vars, NEW d \in Doc,
             (version[d] > 0 /\ version'[d] = 0) \/ blob[d] \ blob'[d] # {}
      PROVE  LET e == EngagementOf[d]
             IN  completedAt[e] # NULL /\ now - completedAt[e] >= RETENTION_WINDOW_YEARS
  <2>1. PICK p \in Proc : /\ pc[p] \in {"commit", "erase"}
                          /\ EngagementOf[d] = subject[p]
    <3>1. CASE version[d] > 0 /\ version'[d] = 0
      BY <1>1, <3>1, RowsGoInCommit DEF CommitPurge, Continue
    <3>2. CASE blob[d] \ blob'[d] # {}
      <4>1. PICK p \in Proc : pc[p] = "erase" /\ \E k \in keys[p] : k[1] = d
        BY <1>1, <3>2, BytesGoInErase
      <4>2. EngagementOf[d] = subject[p]
        BY <1>1, <4>1 DEF RetentionInv, PurgeOK, KeyOK, Purging
      <4> QED
        BY <4>1, <4>2
    <3> QED
      BY <1>1, <3>1, <3>2
  <2>2. retentionDeadlinePassed(EngagementOf[d]) /\ EngagementOf[d] \in Engagement
    BY <1>1, <2>1, RetentionAssumption
       DEF RetentionInv, PurgeOK, Purging, InTransaction
  <2>3. /\ completedAt[EngagementOf[d]] \in Nat /\ now \in Nat
        /\ completedAt[EngagementOf[d]] # NULL
        /\ completedAt[EngagementOf[d]] + RETENTION_WINDOW_YEARS <= now
    BY <1>1, <2>2, RetentionAssumption
       DEF RetentionInv, RetentionTypeOK, retentionDeadlinePassed
  <2> QED
    BY <2>3, RetentionAssumption
<1>2. RetentionInv /\ [RetentionNext]_vars => Late
  BY <1>1
<1> QED
  BY <1>2, InvAlways, PTL DEF RetentionSpec, DestroyedOnlyPastRetention

\* storage.delete erases only what no row points to any more, after the audit row.
THEOREM BytesGoLast == RetentionSpec => BytesOutliveRows
<1> DEFINE Last ==
      \A d \in Doc :
        blob[d] \ blob'[d] # {} =>
          version[d] = 0 /\ versions[d] = {} /\ purged[EngagementOf[d]]
<1>1. ASSUME RetentionInv, [RetentionNext]_vars, NEW d \in Doc, blob[d] \ blob'[d] # {}
      PROVE  version[d] = 0 /\ versions[d] = {} /\ purged[EngagementOf[d]]
  <2>1. PICK p \in Proc : pc[p] = "erase" /\ \E k \in keys[p] : k[1] = d
    BY <1>1, BytesGoInErase
  <2>2. KeyOK(p, d) /\ purged[subject[p]]
    BY <1>1, <2>1 DEF RetentionInv, PurgeOK, Purging
  <2> QED
    BY <1>1, <2>1, <2>2 DEF KeyOK, RetentionInv, RowOK
<1>2. RetentionInv /\ [RetentionNext]_vars => Last
  BY <1>1
<1> QED
  BY <1>2, InvAlways, PTL DEF RetentionSpec, BytesOutliveRows
=============================================================================
