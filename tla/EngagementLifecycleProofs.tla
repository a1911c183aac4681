------------------- MODULE EngagementLifecycleProofs -------------------
(***************************************************************************)
(* What EngagementLifecycle guarantees for every set of engagements and of *)
(* handler invocations, any number of them dying, and every bound.         *)
(***************************************************************************)
EXTENDS EngagementLifecycle, FiniteSetTheorems, TLAPS

(***************************************************************************)
(* A step of the lifecycle is one of its actions, or changes nothing.      *)
(***************************************************************************)
LEMMA LifecycleStepCases ==
  ASSUME [LifecycleNext]_lifecycleVars
  PROVE  \/ Tick
         \/ \E e \in Engagement : \/ confirmFiling(e)
                                  \/ reopenEngagement(e)
                                  \/ getOrCreateEngagementThread(e)
                                  \/ StartByOnboarding(e)
         \/ \E p \in Proc, e \in Engagement :
              \/ \E from, to \in Status : transitionEngagementStatus(p, e, from, to)
              \/ confirmDelivery(p, e)
         \/ \E p \in Proc : \/ StampCompletion(p)
                            \/ AuditStamp(p)
                            \/ archiveEngagementThread(p)
                            \/ NotifyClient(p)
                            \/ Fail(p)
         \/ UNCHANGED lifecycleVars
BY DEF LifecycleNext, AccountantSide, Accountant, PostCommit

-----------------------------------------------------------------------------
(***************************************************************************)
(* GoTo and Record keep the types of what they assign.                     *)
(***************************************************************************)
LEMMA GoToType ==
  ASSUME LifecycleTypeOK, NEW p \in Proc, NEW e \in Engagement, NEW step \in Step,
         GoTo(p, e, step)
  PROVE  /\ pc' \in [Proc -> Step]
         /\ eng' \in [Proc -> Engagement \cup {NULL}]
         /\ \A q \in Proc : pc'[q] # "idle" => eng'[q] \in Engagement
BY DEF LifecycleTypeOK, GoTo

\* Record keeps the type of audit.
LEMMA RecordType ==
  ASSUME LifecycleTypeOK, NEW e \in Engagement, NEW a \in AuditAction, Record(e, a)
  PROVE  audit' \in [Engagement -> [AuditAction -> Nat]]
BY DEF LifecycleTypeOK, Record

(***************************************************************************)
(* Record adds one row of one action, and only to one engagement.          *)
(***************************************************************************)
Added(e, a) ==
  /\ audit'[e][a] = audit[e][a] + 1
  /\ \A b \in AuditAction \ {a} : audit'[e][b] = audit[e][b]
  /\ \A f \in Engagement \ {e} : audit'[f] = audit[f]

\* Record adds one row to one count.
LEMMA RecordAdds ==
  ASSUME LifecycleTypeOK, NEW e \in Engagement, NEW a \in AuditAction, Record(e, a)
  PROVE  Added(e, a)
BY DEF LifecycleTypeOK, Record, Added

\* The rows an engagement starts with have their types.
LEMMA TypeInit ==
  LifecycleInit => LifecycleTypeOK
BY DEF LifecycleInit, LifecycleTypeOK, Status, Step

\* Every action keeps the types.
LEMMA TypeStep ==
  LifecycleTypeOK /\ [LifecycleNext]_lifecycleVars => LifecycleTypeOK'
<1> SUFFICES ASSUME LifecycleTypeOK, [LifecycleNext]_lifecycleVars
             PROVE  LifecycleTypeOK'
  OBVIOUS
<1> USE DEF rowVars, postVars, procVars
<1>1. CASE Tick
  BY <1>1 DEF Tick, LifecycleTypeOK
<1>2. ASSUME NEW p \in Proc, NEW e \in Engagement, NEW from \in Status, NEW to \in Status,
             transitionEngagementStatus(p, e, from, to)
      PROVE  LifecycleTypeOK'
  <2>1. "engagement.transition" \in AuditAction /\ "stamp" \in Step /\ "notifyStatus" \in Step
    BY DEF AuditAction, Step
  <2>2. audit' \in [Engagement -> [AuditAction -> Nat]]
    BY <1>2, <2>1, RecordType DEF transitionEngagementStatus
  <2>3. /\ pc' \in [Proc -> Step]
        /\ eng' \in [Proc -> Engagement \cup {NULL}]
        /\ \A q \in Proc : pc'[q] # "idle" => eng'[q] \in Engagement
    BY <1>2, <2>1, GoToType DEF transitionEngagementStatus
  <2> QED
    BY <1>2, <2>2, <2>3 DEF transitionEngagementStatus, LifecycleTypeOK
<1>3. ASSUME NEW e \in Engagement, StartByOnboarding(e)
      PROVE  LifecycleTypeOK'
  <2>1. "engagement.transition" \in AuditAction /\ "InProgress" \in Status
    BY DEF AuditAction, Status
  <2>2. audit' \in [Engagement -> [AuditAction -> Nat]]
    BY <1>3, <2>1, RecordType DEF StartByOnboarding
  <2> QED
    BY <1>3, <2>1, <2>2 DEF StartByOnboarding, LifecycleTypeOK
<1>4. ASSUME NEW p \in Proc, NEW e \in Engagement, confirmDelivery(p, e)
      PROVE  LifecycleTypeOK'
  <2>1. "engagement.confirm_delivery" \in AuditAction /\ "notifyDelivery" \in Step
    BY DEF AuditAction, Step
  <2>2. audit' \in [Engagement -> [AuditAction -> Nat]]
    BY <1>4, <2>1, RecordType DEF confirmDelivery
  <2>3. /\ pc' \in [Proc -> Step]
        /\ eng' \in [Proc -> Engagement \cup {NULL}]
        /\ \A q \in Proc : pc'[q] # "idle" => eng'[q] \in Engagement
    BY <1>4, <2>1, GoToType DEF confirmDelivery
  <2> QED
    BY <1>4, <2>2, <2>3 DEF confirmDelivery, LifecycleTypeOK
<1>5. ASSUME NEW e \in Engagement, confirmFiling(e)
      PROVE  LifecycleTypeOK'
  <2>1. "engagement.confirm_filing" \in AuditAction
    BY DEF AuditAction
  <2>2. audit' \in [Engagement -> [AuditAction -> Nat]]
    BY <1>5, <2>1, RecordType DEF confirmFiling
  <2> QED
    BY <1>5, <2>2 DEF confirmFiling, LifecycleTypeOK
<1>6. ASSUME NEW e \in Engagement, reopenEngagement(e)
      PROVE  LifecycleTypeOK'
  <2>1. "engagement.reopen" \in AuditAction /\ "InProgress" \in Status
    BY DEF AuditAction, Status
  <2>2. audit' \in [Engagement -> [AuditAction -> Nat]]
    BY <1>6, <2>1, RecordType DEF reopenEngagement
  <2> QED
    BY <1>6, <2>1, <2>2 DEF reopenEngagement, LifecycleTypeOK
<1>7. ASSUME NEW p \in Proc, StampCompletion(p)
      PROVE  LifecycleTypeOK'
  <2>1. eng[p] \in Engagement /\ "stampAudit" \in Step /\ "archive" \in Step
    BY <1>7 DEF StampCompletion, LifecycleTypeOK, Step
  <2>2. completedAt' \in [Engagement -> Nat \cup {NULL}]
    BY <1>7, <2>1 DEF StampCompletion, LifecycleTypeOK
  <2>3. /\ pc' \in [Proc -> Step]
        /\ eng' \in [Proc -> Engagement \cup {NULL}]
        /\ \A q \in Proc : pc'[q] # "idle" => eng'[q] \in Engagement
    BY <1>7, <2>1, GoToType DEF StampCompletion
  <2> QED
    BY <1>7, <2>2, <2>3 DEF StampCompletion, LifecycleTypeOK
<1>8. ASSUME NEW p \in Proc, AuditStamp(p)
      PROVE  LifecycleTypeOK'
  <2>1. /\ eng[p] \in Engagement /\ "archive" \in Step
        /\ "engagement.completed_stamped" \in AuditAction
    BY <1>8 DEF AuditStamp, LifecycleTypeOK, Step, AuditAction
  <2>2. audit' \in [Engagement -> [AuditAction -> Nat]]
    BY <1>8, <2>1, RecordType DEF AuditStamp
  <2>3. /\ pc' \in [Proc -> Step]
        /\ eng' \in [Proc -> Engagement \cup {NULL}]
        /\ \A q \in Proc : pc'[q] # "idle" => eng'[q] \in Engagement
    BY <1>8, <2>1, GoToType DEF AuditStamp
  <2> QED
    BY <1>8, <2>2, <2>3 DEF AuditStamp, LifecycleTypeOK
<1>9. ASSUME NEW p \in Proc, archiveEngagementThread(p)
      PROVE  LifecycleTypeOK'
  <2>1. eng[p] \in Engagement /\ "notifyStatus" \in Step
    BY <1>9 DEF archiveEngagementThread, LifecycleTypeOK, Step
  <2>2. /\ pc' \in [Proc -> Step]
        /\ eng' \in [Proc -> Engagement \cup {NULL}]
        /\ \A q \in Proc : pc'[q] # "idle" => eng'[q] \in Engagement
    BY <1>9, <2>1, GoToType DEF archiveEngagementThread
  <2> QED
    BY <1>9, <2>2 DEF archiveEngagementThread, LifecycleTypeOK
<1>10. ASSUME NEW p \in Proc, NotifyClient(p)
       PROVE  LifecycleTypeOK'
  <2>1. eng[p] \in Engagement /\ "idle" \in Step
    BY <1>10 DEF NotifyClient, LifecycleTypeOK, Step
  <2>2. /\ pc' \in [Proc -> Step]
        /\ eng' \in [Proc -> Engagement \cup {NULL}]
        /\ \A q \in Proc : pc'[q] # "idle" => eng'[q] \in Engagement
    BY <1>10, <2>1, GoToType DEF NotifyClient
  <2>3. notices' \in [Engagement -> [ClientNotice -> Nat]]
    BY <1>10 DEF NotifyClient, LifecycleTypeOK
  <2> QED
    BY <1>10, <2>2, <2>3 DEF NotifyClient, LifecycleTypeOK
<1>11. ASSUME NEW e \in Engagement, getOrCreateEngagementThread(e)
       PROVE  LifecycleTypeOK'
  BY <1>11 DEF getOrCreateEngagementThread, LifecycleTypeOK
<1>12. ASSUME NEW p \in Proc, Fail(p)
       PROVE  LifecycleTypeOK'
  <2>1. eng[p] \in Engagement /\ "idle" \in Step
    BY <1>12 DEF Fail, LifecycleTypeOK, Step
  <2>2. /\ pc' \in [Proc -> Step]
        /\ eng' \in [Proc -> Engagement \cup {NULL}]
        /\ \A q \in Proc : pc'[q] # "idle" => eng'[q] \in Engagement
    BY <1>12, <2>1, GoToType DEF Fail
  <2> QED
    BY <1>12, <2>2 DEF Fail, LifecycleTypeOK
<1>13. CASE UNCHANGED lifecycleVars
  BY <1>13 DEF lifecycleVars, LifecycleTypeOK
<1> QED
  BY <1>1, <1>2, <1>3, <1>4, <1>5, <1>6, <1>7, <1>8, <1>9, <1>10, <1>11, <1>12, <1>13,
     LifecycleStepCases

(***************************************************************************)
(* Type correctness of the lifecycle.                                      *)
(***************************************************************************)
THEOREM TypeCorrect == LifecycleSpec => []LifecycleTypeOK
BY TypeInit, TypeStep, PTL DEF LifecycleSpec

-----------------------------------------------------------------------------
(***************************************************************************)
(* The audit trail.  The equations alone are not inductive: a reopening    *)
(* writes one row and clears two confirmations, so it keeps the equations  *)
(* of the confirmations only because a Complete engagement has both.       *)
(***************************************************************************)
ConfirmedWhenComplete ==
  \A e \in Engagement :
    status[e] = "Complete" => deliveryConfirmedAt[e] /\ filingConfirmedAt[e]

TrailInv == LifecycleTypeOK /\ ConfirmedWhenComplete /\ AuditAccountsForStatus

(***************************************************************************)
(* Steps that change neither the row nor the rows of the four actions the  *)
(* equations count.                                                        *)
(***************************************************************************)
LEMMA TrailFrame ==
  ASSUME TrailInv, UNCHANGED rowVars,
         \A e \in Engagement, a \in AuditAction \ {"engagement.completed_stamped"} :
           audit'[e][a] = audit[e][a]
  PROVE  ConfirmedWhenComplete' /\ AuditAccountsForStatus'
<1>1. {"engagement.transition", "engagement.reopen", "engagement.confirm_delivery",
       "engagement.confirm_filing"} \subseteq AuditAction \ {"engagement.completed_stamped"}
  BY DEF AuditAction
<1> QED
  BY <1>1 DEF TrailInv, ConfirmedWhenComplete, AuditAccountsForStatus, TrailMatchesRow, rowVars, Standing, Rank

\* The path of the forward steps.
LEMMA Ranks ==
  Rank("New") = 0 /\ Rank("InProgress") = 1 /\ Rank("Review") = 2 /\ Rank("Complete") = 3
BY DEF Rank

\* An allowed transition is one forward step, and only Review leads to Complete.
LEMMA AllowedTransition ==
  ASSUME NEW from \in Status, NEW to \in Status, <<from, to>> \in LIFECYCLE_ALLOWED_TRANSITIONS
  PROVE  /\ Rank(from) \in 0 .. 2
         /\ Rank(to) = Rank(from) + 1
         /\ from = "Review" <=> to = "Complete"
<1>1. \/ from = "New" /\ to = "InProgress"
      \/ from = "InProgress" /\ to = "Review"
      \/ from = "Review" /\ to = "Complete"
  BY Zenon DEF LIFECYCLE_ALLOWED_TRANSITIONS
<1> QED
  BY <1>1 DEF Rank

\* No rows, no changes.
LEMMA TrailInit ==
  LifecycleInit => ConfirmedWhenComplete /\ AuditAccountsForStatus
BY DEF LifecycleInit, ConfirmedWhenComplete, AuditAccountsForStatus, TrailMatchesRow,
   Rank, Standing, AuditAction

(***************************************************************************)
(* A transaction about engagement e leaves the others as they were.        *)
(***************************************************************************)
LEMMA TrailOthers ==
  ASSUME TrailInv, NEW e \in Engagement, NEW a \in AuditAction, Added(e, a),
         \A f \in Engagement \ {e} : /\ status'[f] = status[f]
                                      /\ deliveryConfirmedAt'[f] = deliveryConfirmedAt[f]
                                      /\ filingConfirmedAt'[f] = filingConfirmedAt[f],
         TrailMatchesRow(e)'
  PROVE  AuditAccountsForStatus'
<1> SUFFICES ASSUME NEW f \in Engagement, f # e
             PROVE  TrailMatchesRow(f)'
  BY DEF AuditAccountsForStatus
<1> QED
  BY DEF Added, TrailInv, AuditAccountsForStatus, TrailMatchesRow, Standing

\* Every action keeps the equations.
LEMMA TrailStep ==
  TrailInv /\ [LifecycleNext]_lifecycleVars => ConfirmedWhenComplete' /\ AuditAccountsForStatus'
<1> SUFFICES ASSUME TrailInv, [LifecycleNext]_lifecycleVars
             PROVE  ConfirmedWhenComplete' /\ AuditAccountsForStatus'
  OBVIOUS
<1> USE DEF TrailInv
<1>1. CASE Tick
  BY <1>1, TrailFrame DEF Tick
<1>2. ASSUME NEW p \in Proc, NEW e \in Engagement, NEW from \in Status, NEW to \in Status,
             transitionEngagementStatus(p, e, from, to)
      PROVE  ConfirmedWhenComplete' /\ AuditAccountsForStatus'
  <2>1. Added(e, "engagement.transition") /\ "engagement.transition" \in AuditAction
    BY <1>2, RecordAdds DEF transitionEngagementStatus, AuditAction
  <2>2. TrailMatchesRow(e) /\ audit[e] \in [AuditAction -> Nat]
    BY DEF AuditAccountsForStatus, LifecycleTypeOK
  <2>3. Rank(from) \in Nat /\ Rank(to) = Rank(from) + 1
    BY <1>2, AllowedTransition DEF transitionEngagementStatus
  <2>4. TrailMatchesRow(e)'
    <3>1. /\ status[e] = from /\ status'[e] = to
          /\ deliveryConfirmedAt'[e] = deliveryConfirmedAt[e] /\ filingConfirmedAt'[e] = filingConfirmedAt[e]
      BY <1>2 DEF transitionEngagementStatus, LifecycleTypeOK
    <3>2. \A a \in AuditAction : audit[e][a] \in Nat
      BY <2>2
    <3>3. /\ audit'[e]["engagement.transition"] = audit[e]["engagement.transition"] + 1
          /\ audit'[e]["engagement.reopen"] = audit[e]["engagement.reopen"]
          /\ audit'[e]["engagement.confirm_delivery"] = audit[e]["engagement.confirm_delivery"]
          /\ audit'[e]["engagement.confirm_filing"] = audit[e]["engagement.confirm_filing"]
      BY <2>1 DEF Added, AuditAction
    <3> HIDE DEF TrailInv
    <3> QED
      BY <2>3, <2>2, <3>1, <3>2, <3>3 DEF TrailMatchesRow, AuditAction, Standing
  <2>5. AuditAccountsForStatus'
    BY <1>2, <2>1, <2>4, TrailOthers DEF transitionEngagementStatus, LifecycleTypeOK
  <2>6. ConfirmedWhenComplete'
    BY <1>2 DEF transitionEngagementStatus, ConfirmedWhenComplete, LifecycleTypeOK
  <2> QED
    BY <2>5, <2>6
<1>3. ASSUME NEW e \in Engagement, StartByOnboarding(e)
      PROVE  ConfirmedWhenComplete' /\ AuditAccountsForStatus'
  <2>1. Added(e, "engagement.transition") /\ "engagement.transition" \in AuditAction
    BY <1>3, RecordAdds DEF StartByOnboarding, AuditAction
  <2>2. TrailMatchesRow(e) /\ audit[e] \in [AuditAction -> Nat]
    BY DEF AuditAccountsForStatus, LifecycleTypeOK
  <2>4. TrailMatchesRow(e)'
    <3>1. /\ status[e] = "New" /\ status'[e] = "InProgress"
          /\ deliveryConfirmedAt'[e] = deliveryConfirmedAt[e] /\ filingConfirmedAt'[e] = filingConfirmedAt[e]
      BY <1>3 DEF StartByOnboarding, LifecycleTypeOK
    <3>2. \A a \in AuditAction : audit[e][a] \in Nat
      BY <2>2
    <3>3. /\ audit'[e]["engagement.transition"] = audit[e]["engagement.transition"] + 1
          /\ audit'[e]["engagement.reopen"] = audit[e]["engagement.reopen"]
          /\ audit'[e]["engagement.confirm_delivery"] = audit[e]["engagement.confirm_delivery"]
          /\ audit'[e]["engagement.confirm_filing"] = audit[e]["engagement.confirm_filing"]
      BY <2>1 DEF Added, AuditAction
    <3> HIDE DEF TrailInv
    <3> QED
      BY Ranks, <2>2, <3>1, <3>2, <3>3 DEF TrailMatchesRow, AuditAction, Standing
  <2>5. AuditAccountsForStatus'
    BY <1>3, <2>1, <2>4, TrailOthers DEF StartByOnboarding, LifecycleTypeOK
  <2>6. ConfirmedWhenComplete'
    BY <1>3 DEF StartByOnboarding, ConfirmedWhenComplete, LifecycleTypeOK
  <2> QED
    BY <2>5, <2>6
<1>4. ASSUME NEW p \in Proc, NEW e \in Engagement, confirmDelivery(p, e)
      PROVE  ConfirmedWhenComplete' /\ AuditAccountsForStatus'
  <2>1. Added(e, "engagement.confirm_delivery") /\ "engagement.confirm_delivery" \in AuditAction
    BY <1>4, RecordAdds DEF confirmDelivery, AuditAction
  <2>2. TrailMatchesRow(e) /\ audit[e] \in [AuditAction -> Nat]
    BY DEF AuditAccountsForStatus, LifecycleTypeOK
  <2>4. TrailMatchesRow(e)'
    BY <1>4, <2>1, <2>2 DEF confirmDelivery, Added, TrailMatchesRow, LifecycleTypeOK,
       AuditAction, Standing
  <2>5. AuditAccountsForStatus'
    BY <1>4, <2>1, <2>4, TrailOthers DEF confirmDelivery, LifecycleTypeOK
  <2>6. ConfirmedWhenComplete'
    BY <1>4 DEF confirmDelivery, ConfirmedWhenComplete, LifecycleTypeOK
  <2> QED
    BY <2>5, <2>6
<1>5. ASSUME NEW e \in Engagement, confirmFiling(e)
      PROVE  ConfirmedWhenComplete' /\ AuditAccountsForStatus'
  <2>1. Added(e, "engagement.confirm_filing") /\ "engagement.confirm_filing" \in AuditAction
    BY <1>5, RecordAdds DEF confirmFiling, AuditAction
  <2>2. TrailMatchesRow(e) /\ audit[e] \in [AuditAction -> Nat]
    BY DEF AuditAccountsForStatus, LifecycleTypeOK
  <2>4. TrailMatchesRow(e)'
    BY <1>5, <2>1, <2>2 DEF confirmFiling, Added, TrailMatchesRow, LifecycleTypeOK,
       AuditAction, Standing
  <2>5. AuditAccountsForStatus'
    BY <1>5, <2>1, <2>4, TrailOthers DEF confirmFiling, LifecycleTypeOK
  <2>6. ConfirmedWhenComplete'
    BY <1>5 DEF confirmFiling, ConfirmedWhenComplete, LifecycleTypeOK
  <2> QED
    BY <2>5, <2>6
<1>6. ASSUME NEW e \in Engagement, reopenEngagement(e)
      PROVE  ConfirmedWhenComplete' /\ AuditAccountsForStatus'
  <2>1. Added(e, "engagement.reopen") /\ "engagement.reopen" \in AuditAction
    BY <1>6, RecordAdds DEF reopenEngagement, AuditAction
  <2>2. TrailMatchesRow(e) /\ audit[e] \in [AuditAction -> Nat]
    BY DEF AuditAccountsForStatus, LifecycleTypeOK
  <2>3. deliveryConfirmedAt[e] /\ filingConfirmedAt[e]
    BY <1>6 DEF reopenEngagement, ConfirmedWhenComplete
  <2>4. TrailMatchesRow(e)'
    <3>1. /\ status[e] = "Complete" /\ status'[e] = "InProgress"
          /\ ~deliveryConfirmedAt'[e] /\ ~filingConfirmedAt'[e]
      BY <1>6 DEF reopenEngagement, LifecycleTypeOK
    <3>2. \A a \in AuditAction : audit[e][a] \in Nat
      BY <2>2
    <3>3. /\ audit'[e]["engagement.transition"] = audit[e]["engagement.transition"]
          /\ audit'[e]["engagement.reopen"] = audit[e]["engagement.reopen"] + 1
          /\ audit'[e]["engagement.confirm_delivery"] = audit[e]["engagement.confirm_delivery"]
          /\ audit'[e]["engagement.confirm_filing"] = audit[e]["engagement.confirm_filing"]
      BY <2>1 DEF Added, AuditAction
    <3> HIDE DEF TrailInv
    <3> QED
      BY <2>3, Ranks, <2>2, <3>1, <3>2, <3>3 DEF TrailMatchesRow, AuditAction, Standing
  <2>5. AuditAccountsForStatus'
    BY <1>6, <2>1, <2>4, TrailOthers DEF reopenEngagement, LifecycleTypeOK
  <2>6. ConfirmedWhenComplete'
    BY <1>6 DEF reopenEngagement, ConfirmedWhenComplete, LifecycleTypeOK
  <2> QED
    BY <2>5, <2>6
<1>7. ASSUME NEW p \in Proc,
             StampCompletion(p) \/ archiveEngagementThread(p) \/ NotifyClient(p) \/ Fail(p)
      PROVE  ConfirmedWhenComplete' /\ AuditAccountsForStatus'
  BY <1>7, TrailFrame DEF StampCompletion, archiveEngagementThread, NotifyClient, Fail
<1>8. ASSUME NEW p \in Proc, AuditStamp(p)
      PROVE  ConfirmedWhenComplete' /\ AuditAccountsForStatus'
  BY <1>8, TrailFrame DEF AuditStamp, Record, LifecycleTypeOK
<1>9. ASSUME NEW e \in Engagement, getOrCreateEngagementThread(e)
      PROVE  ConfirmedWhenComplete' /\ AuditAccountsForStatus'
  BY <1>9, TrailFrame DEF getOrCreateEngagementThread
<1>10. CASE UNCHANGED lifecycleVars
  BY <1>10, TrailFrame DEF lifecycleVars
<1> QED
  BY <1>1, <1>2, <1>3, <1>4, <1>5, <1>6, <1>7, <1>8, <1>9, <1>10, LifecycleStepCases

\* The equations always hold.
LEMMA TrailInvariant == LifecycleSpec => []TrailInv
<1>1. LifecycleInit => TrailInv
  BY TypeInit, TrailInit DEF TrailInv
<1>2. TrailInv /\ [LifecycleNext]_lifecycleVars => TrailInv'
  BY TypeStep, TrailStep DEF TrailInv
<1> QED
  BY <1>1, <1>2, PTL DEF LifecycleSpec

(***************************************************************************)
(* The audit trail accounts for the status and the confirmations.          *)
(***************************************************************************)
THEOREM AuditTrailSound == LifecycleSpec => []AuditAccountsForStatus
<1>1. TrailInv => AuditAccountsForStatus
  BY DEF TrailInv
<1> QED
  BY <1>1, TrailInvariant, PTL

(***************************************************************************)
(* Every completion has confirmations of its own.                          *)
(***************************************************************************)
THEOREM CompletionConfirmed == LifecycleSpec => []CompleteNeedsFreshConfirmations
<1>1. TrailInv => CompleteNeedsFreshConfirmations
  BY DEF TrailInv, ConfirmedWhenComplete, AuditAccountsForStatus, TrailMatchesRow,
     LifecycleTypeOK, CompleteNeedsFreshConfirmations, Standing, AuditAction
<1> QED
  BY <1>1, TrailInvariant, PTL

-----------------------------------------------------------------------------
(***************************************************************************)
(* The retention clock.  A handler about to stamp belongs to an engagement *)
(* that has been completed; one about to write the stamp's audit row is    *)
(* the only one, and no such row exists yet.                               *)
(***************************************************************************)
CompletedBeforeStamp ==
  \A p \in Proc : pc[p] = "stamp" => audit[eng[p]]["engagement.transition"] >= 3

AuditOwed ==
  \A p \in Proc :
    pc[p] = "stampAudit" => /\ completedAt[eng[p]] # NULL
                            /\ audit[eng[p]]["engagement.completed_stamped"] = 0

OneStamper ==
  \A p, q \in Proc :
    pc[p] = "stampAudit" /\ pc[q] = "stampAudit" /\ eng[p] = eng[q] => p = q

ClockInv ==
  /\ ClockOnlyAfterCompletion
  /\ StampAuditedOnce
  /\ CompletedBeforeStamp
  /\ AuditOwed
  /\ OneStamper

(***************************************************************************)
(* Steps that stamp nothing and audit no stamp, and send no handler to do  *)
(* either.                                                                 *)
(***************************************************************************)
LEMMA ClockFrame ==
  ASSUME LifecycleTypeOK, LifecycleTypeOK', ClockInv, completedAt' = completedAt, now' >= now,
         \A e \in Engagement :
           /\ audit'[e]["engagement.completed_stamped"] = audit[e]["engagement.completed_stamped"]
           /\ audit'[e]["engagement.transition"] >= audit[e]["engagement.transition"],
         \A q \in Proc :
           pc'[q] \in {"stamp", "stampAudit"} => pc'[q] = pc[q] /\ eng'[q] = eng[q]
  PROVE  ClockInv'
<1>1. "engagement.transition" \in AuditAction
  BY DEF AuditAction
<1>2. \A e \in Engagement : /\ audit[e]["engagement.transition"] \in Nat
                            /\ audit'[e]["engagement.transition"] \in Nat
  BY <1>1 DEF LifecycleTypeOK
<1>3. ClockOnlyAfterCompletion'
  <2> SUFFICES ASSUME NEW e \in Engagement, completedAt[e] # NULL
               PROVE  audit'[e]["engagement.transition"] >= 3 /\ completedAt[e] <= now'
    BY DEF ClockOnlyAfterCompletion
  <2>1. audit[e]["engagement.transition"] >= 3 /\ completedAt[e] <= now
    BY DEF ClockInv, ClockOnlyAfterCompletion
  <2>2. completedAt[e] \in Nat /\ now \in Nat /\ now' \in Nat
    BY DEF LifecycleTypeOK
  <2> QED
    BY <1>2, <2>1, <2>2
<1>4. StampAuditedOnce'
  BY DEF ClockInv, StampAuditedOnce
<1>5. CompletedBeforeStamp'
  <2> SUFFICES ASSUME NEW p \in Proc, pc'[p] = "stamp"
               PROVE  audit'[eng'[p]]["engagement.transition"] >= 3
    BY DEF CompletedBeforeStamp
  <2>1. eng'[p] = eng[p] /\ eng[p] \in Engagement /\ audit[eng[p]]["engagement.transition"] >= 3
    BY DEF ClockInv, CompletedBeforeStamp, LifecycleTypeOK
  <2> QED
    BY <1>2, <2>1
<1>6. AuditOwed' /\ OneStamper'
  BY DEF ClockInv, AuditOwed, OneStamper, LifecycleTypeOK
<1> QED
  BY <1>3, <1>4, <1>5, <1>6 DEF ClockInv

\* No clock runs and nobody stamps.
LEMMA ClockInit ==
  LifecycleInit => ClockInv
BY DEF LifecycleInit, ClockInv, ClockOnlyAfterCompletion, StampAuditedOnce,
   CompletedBeforeStamp, AuditOwed, OneStamper, AuditAction

(***************************************************************************)
(* A row of another action is neither a stamp's nor one fewer transition.  *)
(***************************************************************************)
LEMMA AddedOther ==
  ASSUME LifecycleTypeOK, NEW e \in Engagement,
         NEW a \in AuditAction \ {"engagement.completed_stamped"}, Added(e, a)
  PROVE  \A f \in Engagement :
           /\ audit'[f]["engagement.completed_stamped"] = audit[f]["engagement.completed_stamped"]
           /\ audit'[f]["engagement.transition"] >= audit[f]["engagement.transition"]
<1> TAKE f \in Engagement
<1>1. /\ "engagement.completed_stamped" \in AuditAction \ {a}
      /\ "engagement.transition" \in AuditAction
  BY DEF AuditAction
<1>2. audit[f]["engagement.transition"] \in Nat /\ audit[e]["engagement.transition"] \in Nat
  BY <1>1 DEF LifecycleTypeOK
<1>3. CASE f = e
  BY <1>1, <1>2, <1>3 DEF Added
<1>4. CASE f # e
  BY <1>2, <1>4 DEF Added
<1> QED
  BY <1>3, <1>4

\* Every action keeps the facts about the clock.
LEMMA ClockStep ==
  TrailInv /\ TrailInv' /\ ClockInv /\ [LifecycleNext]_lifecycleVars => ClockInv'
<1> SUFFICES ASSUME TrailInv, TrailInv', ClockInv, [LifecycleNext]_lifecycleVars
             PROVE  ClockInv'
  OBVIOUS
<1>0. LifecycleTypeOK /\ LifecycleTypeOK'
  BY DEF TrailInv
<1>a. "engagement.transition" \in AuditAction /\ "engagement.completed_stamped" \in AuditAction
  BY DEF AuditAction
<1>b. /\ now \in Nat
      /\ \A e \in Engagement : audit[e]["engagement.transition"] \in Nat
  BY <1>0, <1>a DEF LifecycleTypeOK
<1>1. CASE Tick
  BY <1>0, <1>b, <1>1, ClockFrame DEF Tick, procVars, postVars
<1>2. ASSUME NEW p \in Proc, NEW e \in Engagement, NEW from \in Status, NEW to \in Status,
             transitionEngagementStatus(p, e, from, to)
      PROVE  ClockInv'
  <2>1. Added(e, "engagement.transition")
    BY <1>0, <1>2, RecordAdds DEF transitionEngagementStatus, AuditAction
  <2>2. \A f \in Engagement :
          /\ audit'[f]["engagement.completed_stamped"] = audit[f]["engagement.completed_stamped"]
          /\ audit'[f]["engagement.transition"] >= audit[f]["engagement.transition"]
    BY <1>0, <2>1, AddedOther DEF AuditAction
  <2>3. completedAt' = completedAt /\ now' = now
    BY <1>2 DEF transitionEngagementStatus, postVars
  <2>4. /\ pc' = [pc EXCEPT ![p] = IF to = "Complete" THEN "stamp" ELSE "notifyStatus"]
        /\ eng'[p] = e
        /\ \A q \in Proc \ {p} : eng'[q] = eng[q]
    BY <1>0, <1>2 DEF transitionEngagementStatus, GoTo, LifecycleTypeOK
  <2>5. CASE to # "Complete"
    BY <1>0, <1>b, <2>2, <2>3, <2>4, <2>5, ClockFrame DEF LifecycleTypeOK
  <2>6. CASE to = "Complete"
    <3>1. audit'[e]["engagement.transition"] >= 3
      <4>1. status'[e] = "Complete"
        BY <1>0, <1>2, <2>6 DEF transitionEngagementStatus, LifecycleTypeOK
      <4>2. TrailMatchesRow(e)' /\ audit'[e]["engagement.reopen"] \in Nat
        BY <1>0 DEF TrailInv, AuditAccountsForStatus, LifecycleTypeOK, AuditAction
      <4> QED
        BY <4>1, <4>2, Ranks DEF TrailMatchesRow
    <3>2. ClockOnlyAfterCompletion' /\ StampAuditedOnce'
      <4>1. ASSUME NEW f \in Engagement, completedAt[f] # NULL
            PROVE  audit'[f]["engagement.transition"] >= 3
        <5>1. audit'[f]["engagement.transition"] \in Nat
          BY <1>0, <1>a DEF LifecycleTypeOK
        <5> QED
          BY <1>b, <2>2, <4>1, <5>1 DEF ClockInv, ClockOnlyAfterCompletion
      <4> QED
        BY <2>2, <2>3, <4>1 DEF ClockInv, ClockOnlyAfterCompletion, StampAuditedOnce
    <3>3. CompletedBeforeStamp'
      <4> SUFFICES ASSUME NEW q \in Proc, pc'[q] = "stamp"
                   PROVE  audit'[eng'[q]]["engagement.transition"] >= 3
        BY DEF CompletedBeforeStamp
      <4>1. CASE q = p
        BY <2>4, <3>1, <4>1
      <4>2. CASE q # p
        <5>1. eng'[q] = eng[q] /\ pc[q] = "stamp" /\ eng[q] \in Engagement
          BY <1>0, <2>4, <4>2 DEF LifecycleTypeOK
        <5>2. audit'[eng[q]]["engagement.transition"] \in Nat
          BY <1>0, <1>a, <5>1 DEF LifecycleTypeOK
        <5> QED
          BY <1>b, <2>2, <5>1, <5>2 DEF ClockInv, CompletedBeforeStamp
      <4> QED
        BY <4>1, <4>2
    <3>4. AuditOwed' /\ OneStamper'
      BY <1>0, <2>2, <2>3, <2>4, <2>6 DEF ClockInv, AuditOwed, OneStamper, LifecycleTypeOK
    <3> QED
      BY <3>2, <3>3, <3>4 DEF ClockInv
  <2> QED
    BY <2>5, <2>6
<1>3. ASSUME NEW e \in Engagement, StartByOnboarding(e)
      PROVE  ClockInv'
  <2>1. Added(e, "engagement.transition")
    BY <1>0, <1>3, RecordAdds DEF StartByOnboarding, AuditAction
  <2>2. \A f \in Engagement :
          /\ audit'[f]["engagement.completed_stamped"] = audit[f]["engagement.completed_stamped"]
          /\ audit'[f]["engagement.transition"] >= audit[f]["engagement.transition"]
    BY <1>0, <2>1, AddedOther DEF AuditAction
  <2> QED
    BY <1>0, <1>b, <1>3, <2>2, ClockFrame DEF StartByOnboarding, procVars, postVars
<1>4. ASSUME NEW p \in Proc, NEW e \in Engagement, confirmDelivery(p, e)
      PROVE  ClockInv'
  <2>1. Added(e, "engagement.confirm_delivery")
    BY <1>0, <1>4, RecordAdds DEF confirmDelivery, AuditAction
  <2>2. \A f \in Engagement :
          /\ audit'[f]["engagement.completed_stamped"] = audit[f]["engagement.completed_stamped"]
          /\ audit'[f]["engagement.transition"] >= audit[f]["engagement.transition"]
    BY <1>0, <2>1, AddedOther DEF AuditAction
  <2> QED
    BY <1>0, <1>b, <1>4, <2>2, ClockFrame DEF confirmDelivery, GoTo, LifecycleTypeOK, postVars
<1>5. ASSUME NEW e \in Engagement, confirmFiling(e)
      PROVE  ClockInv'
  <2>1. Added(e, "engagement.confirm_filing")
    BY <1>0, <1>5, RecordAdds DEF confirmFiling, AuditAction
  <2>2. \A f \in Engagement :
          /\ audit'[f]["engagement.completed_stamped"] = audit[f]["engagement.completed_stamped"]
          /\ audit'[f]["engagement.transition"] >= audit[f]["engagement.transition"]
    BY <1>0, <2>1, AddedOther DEF AuditAction
  <2> QED
    BY <1>0, <1>b, <1>5, <2>2, ClockFrame DEF confirmFiling, procVars, postVars
<1>6. ASSUME NEW e \in Engagement, reopenEngagement(e)
      PROVE  ClockInv'
  <2>1. Added(e, "engagement.reopen")
    BY <1>0, <1>6, RecordAdds DEF reopenEngagement, AuditAction
  <2>2. \A f \in Engagement :
          /\ audit'[f]["engagement.completed_stamped"] = audit[f]["engagement.completed_stamped"]
          /\ audit'[f]["engagement.transition"] >= audit[f]["engagement.transition"]
    BY <1>0, <2>1, AddedOther DEF AuditAction
  <2> QED
    BY <1>0, <1>b, <1>6, <2>2, ClockFrame DEF reopenEngagement, procVars, postVars
<1>7. ASSUME NEW p \in Proc, StampCompletion(p)
      PROVE  ClockInv'
  <2>1. CASE completedAt[eng[p]] # NULL
    BY <1>0, <1>b, <1>7, <2>1, ClockFrame DEF StampCompletion, GoTo, LifecycleTypeOK, rowVars
  <2>2. CASE completedAt[eng[p]] = NULL
    <3>1. /\ pc[p] = "stamp" /\ eng[p] \in Engagement
          /\ completedAt' = [completedAt EXCEPT ![eng[p]] = now]
          /\ pc' = [pc EXCEPT ![p] = "stampAudit"]
          /\ \A q \in Proc : eng'[q] = eng[q]
          /\ UNCHANGED <<audit, now>>
      BY <1>0, <1>7, <2>2 DEF StampCompletion, GoTo, LifecycleTypeOK
    <3>2. now # NULL /\ now <= now
      BY <1>b, LifecycleAssumption
    <3>3. audit[eng[p]]["engagement.completed_stamped"] = 0
      <4>1. audit[eng[p]]["engagement.completed_stamped"] \in Nat
        BY <1>0, <1>a, <3>1 DEF LifecycleTypeOK
      <4> QED
        BY <2>2, <3>1, <4>1 DEF ClockInv, StampAuditedOnce
    <3>4. ClockOnlyAfterCompletion'
      BY <1>0, <3>1, <3>2 DEF ClockInv, ClockOnlyAfterCompletion, CompletedBeforeStamp,
         LifecycleTypeOK
    <3>5. StampAuditedOnce'
      BY <1>0, <3>1, <3>2 DEF ClockInv, StampAuditedOnce, LifecycleTypeOK
    <3>6. CompletedBeforeStamp'
      BY <1>0, <3>1 DEF ClockInv, CompletedBeforeStamp, LifecycleTypeOK
    <3>7. AuditOwed'
      BY <1>0, <3>1, <3>2, <3>3 DEF ClockInv, AuditOwed, LifecycleTypeOK
    <3>8. OneStamper'
      BY <1>0, <2>2, <3>1 DEF ClockInv, OneStamper, AuditOwed, LifecycleTypeOK
    <3> QED
      BY <3>4, <3>5, <3>6, <3>7, <3>8 DEF ClockInv
  <2> QED
    BY <2>1, <2>2
<1>8. ASSUME NEW p \in Proc, AuditStamp(p)
      PROVE  ClockInv'
  <2>1. /\ pc[p] = "stampAudit" /\ eng[p] \in Engagement
        /\ pc' = [pc EXCEPT ![p] = "archive"]
        /\ \A q \in Proc : eng'[q] = eng[q]
        /\ UNCHANGED <<completedAt, now>>
    BY <1>0, <1>8 DEF AuditStamp, GoTo, postVars, LifecycleTypeOK
  <2>2. Added(eng[p], "engagement.completed_stamped")
    BY <1>0, <1>8, <2>1, RecordAdds DEF AuditStamp, AuditAction
  <2>3. /\ audit'[eng[p]]["engagement.completed_stamped"] = 1
        /\ completedAt[eng[p]] # NULL
    BY <2>1, <2>2 DEF Added, ClockInv, AuditOwed
  <2>4. \A f \in Engagement :
          audit'[f]["engagement.transition"] = audit[f]["engagement.transition"]
    BY <1>a, <2>2 DEF Added
  <2>5. \A f \in Engagement \ {eng[p]} : audit'[f] = audit[f]
    BY <2>2 DEF Added
  <2>6. ClockOnlyAfterCompletion'
    BY <2>1, <2>4 DEF ClockInv, ClockOnlyAfterCompletion
  <2>7. StampAuditedOnce'
    BY <2>1, <2>3, <2>5 DEF ClockInv, StampAuditedOnce
  <2>8. CompletedBeforeStamp'
    BY <1>0, <2>1, <2>4 DEF ClockInv, CompletedBeforeStamp, LifecycleTypeOK
  <2>9. AuditOwed' /\ OneStamper'
    BY <1>0, <2>1, <2>5 DEF ClockInv, AuditOwed, OneStamper, LifecycleTypeOK
  <2> QED
    BY <2>6, <2>7, <2>8, <2>9 DEF ClockInv
<1>9. ASSUME NEW p \in Proc, archiveEngagementThread(p) \/ NotifyClient(p) \/ Fail(p)
      PROVE  ClockInv'
  <2>1. UNCHANGED <<now, completedAt, audit>>
    BY <1>9 DEF archiveEngagementThread, NotifyClient, Fail, postVars
  <2>2. \A q \in Proc :
          pc'[q] \in {"stamp", "stampAudit"} => pc'[q] = pc[q] /\ eng'[q] = eng[q]
    BY <1>0, <1>9 DEF archiveEngagementThread, NotifyClient, Fail, GoTo, LifecycleTypeOK
  <2> QED
    BY <1>0, <1>b, <2>1, <2>2, ClockFrame
<1>10. ASSUME NEW e \in Engagement, getOrCreateEngagementThread(e)
       PROVE  ClockInv'
  BY <1>0, <1>b, <1>10, ClockFrame DEF getOrCreateEngagementThread, procVars
<1>11. CASE UNCHANGED lifecycleVars
  BY <1>0, <1>b, <1>11, ClockFrame DEF lifecycleVars, postVars, procVars
<1> QED
  BY <1>1, <1>2, <1>3, <1>4, <1>5, <1>6, <1>7, <1>8, <1>9, <1>10, <1>11, LifecycleStepCases

\* The facts about the clock always hold.
LEMMA ClockInvariant == LifecycleSpec => []ClockInv
<1>1. LifecycleInit => ClockInv
  BY ClockInit
<1>2. TrailInv /\ TrailInv' /\ ClockInv /\ [LifecycleNext]_lifecycleVars => ClockInv'
  BY ClockStep
<1> QED
  BY <1>1, <1>2, TrailInvariant, PTL DEF LifecycleSpec

(***************************************************************************)
(* The clock runs only after a completion.                                 *)
(***************************************************************************)
THEOREM ClockAfterCompletion == LifecycleSpec => []ClockOnlyAfterCompletion
<1>1. ClockInv => ClockOnlyAfterCompletion
  BY DEF ClockInv
<1> QED
  BY <1>1, ClockInvariant, PTL

(***************************************************************************)
(* The stamp is audited at most once.                                      *)
(***************************************************************************)
THEOREM StampOnce == LifecycleSpec => []StampAuditedOnce
<1>1. ClockInv => StampAuditedOnce
  BY DEF ClockInv
<1> QED
  BY <1>1, ClockInvariant, PTL

(***************************************************************************)
(* Both together, for the clock of setEngagementCompleted.                 *)
(***************************************************************************)
THEOREM ClockSound == LifecycleSpec => []RetentionClockSound
  BY ClockAfterCompletion, StampOnce, PTL DEF RetentionClockSound

(***************************************************************************)
(* The clock, once set, never moves.                                       *)
(***************************************************************************)
THEOREM ClockFireOnce == LifecycleSpec => RetentionClockFireOnce
<1> DEFINE Stays == \A e \in Engagement :
                      completedAt[e] # NULL => completedAt'[e] = completedAt[e]
<1>1. LifecycleTypeOK /\ [LifecycleNext]_lifecycleVars => [Stays]_lifecycleVars
  <2> SUFFICES ASSUME LifecycleTypeOK, [LifecycleNext]_lifecycleVars
               PROVE  Stays
    OBVIOUS
  <2>1. ASSUME NEW p \in Proc, StampCompletion(p)
        PROVE  Stays
    BY <2>1 DEF StampCompletion, LifecycleTypeOK
  <2>2. ASSUME UNCHANGED completedAt
        PROVE  Stays
    BY <2>2
  <2> QED
    BY <2>1, <2>2, LifecycleStepCases DEF Tick, confirmFiling, reopenEngagement,
       getOrCreateEngagementThread, StartByOnboarding, transitionEngagementStatus,
       confirmDelivery, AuditStamp, archiveEngagementThread, NotifyClient, Fail,
       postVars, lifecycleVars
<1> QED
  BY <1>1, TypeCorrect, PTL DEF LifecycleSpec, RetentionClockFireOnce

-----------------------------------------------------------------------------
(***************************************************************************)
(* The notices of the client.  The bound is inductive: a handler joins     *)
(* those that have still to tell with the audit row of its own change, and *)
(* leaves them with its notice, or dies.  That there are finitely many of  *)
(* them is part of the invariant, since nothing bounds Proc.               *)
(***************************************************************************)
Waiting(e, steps) == {p \in Proc : pc[p] \in steps /\ eng[p] = e}

StatusSteps == {"stamp", "stampAudit", "archive", "notifyStatus"}
DeliverySteps == {"notifyDelivery"}

\* What was told of a kind, and is still to be told, is on record.
Covered(e, notice, steps, action) ==
  /\ IsFiniteSet(Waiting(e, steps))
  /\ notices[e][notice] + Cardinality(Waiting(e, steps)) <= audit[e][action]

BothCovered(e) ==
  /\ Covered(e, "engagement_status_changed", StatusSteps, "engagement.transition")
  /\ Covered(e, "deliverable_ready", DeliverySteps, "engagement.confirm_delivery")

NoticeInv == LifecycleTypeOK /\ \A e \in Engagement : BothCovered(e)

\* A set with at most one more element has at most one more.
LEMMA AtMostOneMore ==
  ASSUME NEW S, IsFiniteSet(S), NEW x, NEW T, T \subseteq S \cup {x}
  PROVE  /\ IsFiniteSet(T) /\ Cardinality(T) \in Nat /\ Cardinality(S) \in Nat
         /\ Cardinality(T) <= Cardinality(S) + 1
<1>1. /\ IsFiniteSet(S \cup {x})
      /\ Cardinality(S \cup {x}) = IF x \in S THEN Cardinality(S) ELSE Cardinality(S) + 1
  BY FS_AddElement
<1>2. /\ IsFiniteSet(T)
      /\ Cardinality(T) <= Cardinality(S \cup {x})
  BY <1>1, FS_Subset
<1> QED
  BY <1>1, <1>2, FS_CardinalityType

\* A set without an element of another has fewer.
LEMMA AtLeastOneLess ==
  ASSUME NEW S, IsFiniteSet(S), NEW x \in S, NEW T, T \subseteq S \ {x}
  PROVE  /\ IsFiniteSet(T) /\ Cardinality(T) \in Nat /\ Cardinality(S) \in Nat
         /\ Cardinality(T) + 1 <= Cardinality(S)
<1>1. IsFiniteSet(S \ {x}) /\ Cardinality(S \ {x}) = Cardinality(S) - 1
  BY FS_RemoveElement
<1>2. IsFiniteSet(T) /\ Cardinality(T) <= Cardinality(S \ {x})
  BY <1>1, FS_Subset
<1> QED
  BY <1>1, <1>2, FS_CardinalityType

\* With no more waiting, nothing told, and no row less, what is told stays covered.
LEMMA CoveredFrame ==
  ASSUME NEW e \in Engagement, NEW notice, NEW steps, NEW action,
         Covered(e, notice, steps, action),
         notices[e][notice] \in Nat, audit[e][action] \in Nat, audit'[e][action] \in Nat,
         notices'[e][notice] = notices[e][notice],
         audit'[e][action] >= audit[e][action],
         Waiting(e, steps)' \subseteq Waiting(e, steps)
  PROVE  Covered(e, notice, steps, action)'
<1>1. /\ IsFiniteSet(Waiting(e, steps)')
      /\ Cardinality(Waiting(e, steps)') <= Cardinality(Waiting(e, steps))
      /\ Cardinality(Waiting(e, steps)') \in Nat
      /\ Cardinality(Waiting(e, steps)) \in Nat
  BY FS_Subset, FS_CardinalityType DEF Covered
<1> QED
  BY <1>1 DEF Covered

\* One handler joins, with a row.
LEMMA CoveredJoin ==
  ASSUME NEW e \in Engagement, NEW notice, NEW steps, NEW action, NEW p,
         Covered(e, notice, steps, action),
         notices[e][notice] \in Nat, audit[e][action] \in Nat,
         notices'[e][notice] = notices[e][notice],
         audit'[e][action] = audit[e][action] + 1,
         Waiting(e, steps)' \subseteq Waiting(e, steps) \cup {p}
  PROVE  Covered(e, notice, steps, action)'
<1>1. /\ IsFiniteSet(Waiting(e, steps)')
      /\ Cardinality(Waiting(e, steps)') <= Cardinality(Waiting(e, steps)) + 1
      /\ Cardinality(Waiting(e, steps)') \in Nat
      /\ Cardinality(Waiting(e, steps)) \in Nat
  BY AtMostOneMore DEF Covered
<1> QED
  BY <1>1 DEF Covered

\* One handler leaves, with a notice.
LEMMA CoveredLeave ==
  ASSUME NEW e \in Engagement, NEW notice, NEW steps, NEW action, NEW p \in Waiting(e, steps),
         Covered(e, notice, steps, action),
         notices[e][notice] \in Nat, audit[e][action] \in Nat, notices'[e][notice] \in Nat,
         notices'[e][notice] <= notices[e][notice] + 1,
         audit'[e][action] = audit[e][action],
         Waiting(e, steps)' \subseteq Waiting(e, steps) \ {p}
  PROVE  Covered(e, notice, steps, action)'
<1>1. /\ IsFiniteSet(Waiting(e, steps)')
      /\ Cardinality(Waiting(e, steps)') + 1 <= Cardinality(Waiting(e, steps))
      /\ Cardinality(Waiting(e, steps)') \in Nat
      /\ Cardinality(Waiting(e, steps)) \in Nat
  BY AtLeastOneLess DEF Covered
<1> QED
  BY <1>1 DEF Covered

\* Nobody has told or is about to.
LEMMA NoticeInit ==
  LifecycleInit => NoticeInv
<1> SUFFICES ASSUME LifecycleInit, NEW e \in Engagement
             PROVE  BothCovered(e)
  BY TypeInit DEF NoticeInv
<1>1. Waiting(e, StatusSteps) = {} /\ Waiting(e, DeliverySteps) = {}
  BY DEF LifecycleInit, Waiting, StatusSteps, DeliverySteps
<1> QED
  BY <1>1, FS_EmptySet DEF LifecycleInit, BothCovered, Covered, ClientNotice, AuditAction

\* A handler that goes on for e enters, or leaves, the sets of e alone.
LEMMA GoToWaiting ==
  ASSUME LifecycleTypeOK, NEW p \in Proc, NEW e \in Engagement, NEW step \in Step,
         GoTo(p, e, step), pc[p] # "idle" => eng[p] = e,
         NEW f \in Engagement, NEW steps, "idle" \notin steps
  PROVE  /\ Waiting(f, steps)' \subseteq Waiting(f, steps) \cup {p}
         /\ (f # e \/ step \notin steps) => Waiting(f, steps)' \subseteq Waiting(f, steps) \ {p}
         /\ (f # e \/ step \notin steps \/ pc[p] \in steps)
              => Waiting(f, steps)' \subseteq Waiting(f, steps)
BY DEF LifecycleTypeOK, GoTo, Waiting

\* Every action keeps the bound.
LEMMA NoticeStep ==
  NoticeInv /\ [LifecycleNext]_lifecycleVars => NoticeInv'
<1> SUFFICES ASSUME NoticeInv, [LifecycleNext]_lifecycleVars, NEW f \in Engagement
             PROVE  BothCovered(f)'
  BY TypeStep DEF NoticeInv
<1>0. /\ LifecycleTypeOK /\ LifecycleTypeOK' /\ BothCovered(f)
      /\ "idle" \notin StatusSteps /\ "idle" \notin DeliverySteps
  BY TypeStep DEF NoticeInv, StatusSteps, DeliverySteps
<1>a. /\ notices[f]["engagement_status_changed"] \in Nat
      /\ notices[f]["deliverable_ready"] \in Nat
      /\ notices'[f]["engagement_status_changed"] \in Nat
      /\ notices'[f]["deliverable_ready"] \in Nat
      /\ audit[f]["engagement.transition"] \in Nat
      /\ audit[f]["engagement.confirm_delivery"] \in Nat
      /\ audit'[f]["engagement.transition"] \in Nat
      /\ audit'[f]["engagement.confirm_delivery"] \in Nat
  BY <1>0 DEF LifecycleTypeOK, ClientNotice, AuditAction
<1>1. ASSUME notices' = notices,
             audit'[f]["engagement.transition"] >= audit[f]["engagement.transition"],
             audit'[f]["engagement.confirm_delivery"] >= audit[f]["engagement.confirm_delivery"],
             Waiting(f, StatusSteps)' \subseteq Waiting(f, StatusSteps),
             Waiting(f, DeliverySteps)' \subseteq Waiting(f, DeliverySteps)
      PROVE  BothCovered(f)'
  BY <1>0, <1>a, <1>1, CoveredFrame DEF BothCovered
<1>2. ASSUME NEW e \in Engagement, NEW a \in AuditAction, Record(e, a)
      PROVE  /\ audit'[f]["engagement.transition"] >= audit[f]["engagement.transition"]
             /\ audit'[f]["engagement.confirm_delivery"] >= audit[f]["engagement.confirm_delivery"]
  BY <1>0, <1>a, <1>2, RecordAdds DEF Added, AuditAction
<1>3. ASSUME UNCHANGED <<notices, pc, eng>>,
             \/ UNCHANGED audit
             \/ \E e \in Engagement, a \in AuditAction : Record(e, a)
      PROVE  BothCovered(f)'
  BY <1>1, <1>2, <1>3, <1>a DEF Waiting
<1>4. CASE Tick \/ UNCHANGED lifecycleVars \/ \E e \in Engagement : getOrCreateEngagementThread(e)
  BY <1>3, <1>4 DEF Tick, lifecycleVars, getOrCreateEngagementThread, postVars, procVars
<1>5. ASSUME NEW e \in Engagement,
             confirmFiling(e) \/ reopenEngagement(e) \/ StartByOnboarding(e)
      PROVE  BothCovered(f)'
  BY <1>3, <1>5 DEF confirmFiling, reopenEngagement, StartByOnboarding, postVars, procVars,
     AuditAction
<1>6. ASSUME NEW p \in Proc, NEW e \in Engagement, NEW from \in Status, NEW to \in Status,
             transitionEngagementStatus(p, e, from, to)
      PROVE  BothCovered(f)'
  <2>1. PICK step \in {"stamp", "notifyStatus"} : GoTo(p, e, step)
    BY <1>6 DEF transitionEngagementStatus
  <2>2. /\ pc[p] = "idle" /\ notices' = notices /\ step \in Step
        /\ step \notin DeliverySteps
        /\ Added(e, "engagement.transition")
    BY <1>0, <1>6, <2>1, RecordAdds DEF transitionEngagementStatus, postVars, Step,
       DeliverySteps, AuditAction
  <2>3. /\ Waiting(f, StatusSteps)' \subseteq Waiting(f, StatusSteps) \cup {p}
        /\ f # e => Waiting(f, StatusSteps)' \subseteq Waiting(f, StatusSteps)
        /\ Waiting(f, DeliverySteps)' \subseteq Waiting(f, DeliverySteps)
    BY <1>0, <2>1, <2>2, GoToWaiting
  <2>4. CASE f = e
    <3>1. /\ audit'[f]["engagement.transition"] = audit[f]["engagement.transition"] + 1
          /\ audit'[f]["engagement.confirm_delivery"] = audit[f]["engagement.confirm_delivery"]
      BY <2>2, <2>4 DEF Added, AuditAction
    <3>2. Covered(f, "engagement_status_changed", StatusSteps, "engagement.transition")'
      BY <1>0, <1>a, <2>2, <2>3, <3>1, CoveredJoin DEF BothCovered
    <3>3. Covered(f, "deliverable_ready", DeliverySteps, "engagement.confirm_delivery")'
      BY <1>0, <1>a, <2>2, <2>3, <3>1, CoveredFrame DEF BothCovered
    <3> QED
      BY <3>2, <3>3 DEF BothCovered
  <2>5. CASE f # e
    BY <1>1, <1>2, <1>6, <2>2, <2>3, <2>5 DEF transitionEngagementStatus, AuditAction
  <2> QED
    BY <2>4, <2>5
<1>7. ASSUME NEW p \in Proc, NEW e \in Engagement, confirmDelivery(p, e)
      PROVE  BothCovered(f)'
  <2>1. /\ pc[p] = "idle" /\ notices' = notices
        /\ "notifyDelivery" \in Step /\ "notifyDelivery" \notin StatusSteps
        /\ GoTo(p, e, "notifyDelivery")
        /\ Added(e, "engagement.confirm_delivery")
    BY <1>0, <1>7, RecordAdds DEF confirmDelivery, postVars, Step, StatusSteps, AuditAction
  <2>3. /\ Waiting(f, DeliverySteps)' \subseteq Waiting(f, DeliverySteps) \cup {p}
        /\ f # e => Waiting(f, DeliverySteps)' \subseteq Waiting(f, DeliverySteps)
        /\ Waiting(f, StatusSteps)' \subseteq Waiting(f, StatusSteps)
    BY <1>0, <2>1, GoToWaiting
  <2>4. CASE f = e
    <3>1. /\ audit'[f]["engagement.confirm_delivery"] = audit[f]["engagement.confirm_delivery"] + 1
          /\ audit'[f]["engagement.transition"] = audit[f]["engagement.transition"]
      BY <2>1, <2>4 DEF Added, AuditAction
    <3>2. Covered(f, "engagement_status_changed", StatusSteps, "engagement.transition")'
      BY <1>0, <1>a, <2>1, <2>3, <3>1, CoveredFrame DEF BothCovered
    <3>3. Covered(f, "deliverable_ready", DeliverySteps, "engagement.confirm_delivery")'
      BY <1>0, <1>a, <2>1, <2>3, <3>1, CoveredJoin DEF BothCovered
    <3> QED
      BY <3>2, <3>3 DEF BothCovered
  <2>5. CASE f # e
    BY <1>1, <1>2, <1>7, <2>1, <2>3, <2>5 DEF confirmDelivery, AuditAction
  <2> QED
    BY <2>4, <2>5
<1>8. ASSUME NEW p \in Proc, StampCompletion(p) \/ AuditStamp(p) \/ archiveEngagementThread(p)
      PROVE  BothCovered(f)'
  <2>1. /\ pc[p] \in {"stamp", "stampAudit", "archive"} /\ notices' = notices
        /\ \E step \in {"stampAudit", "archive", "notifyStatus"} : GoTo(p, eng[p], step)
        /\ UNCHANGED audit \/ Record(eng[p], "engagement.completed_stamped")
    BY <1>8 DEF StampCompletion, AuditStamp, archiveEngagementThread, postVars
  <2>2. eng[p] \in Engagement
    BY <1>0, <2>1 DEF LifecycleTypeOK
  <2>3. /\ Waiting(f, StatusSteps)' \subseteq Waiting(f, StatusSteps)
        /\ Waiting(f, DeliverySteps)' \subseteq Waiting(f, DeliverySteps)
    BY <1>0, <2>1, <2>2, GoToWaiting DEF StatusSteps, DeliverySteps, Step
  <2> QED
    BY <1>1, <1>2, <1>a, <2>1, <2>2, <2>3 DEF AuditAction
<1>9. ASSUME NEW p \in Proc, Fail(p)
      PROVE  BothCovered(f)'
  <2>1. /\ pc[p] # "idle" /\ UNCHANGED <<notices, audit>>
        /\ GoTo(p, eng[p], "idle") /\ "idle" \in Step
    BY <1>9 DEF Fail, postVars, Step
  <2>2. eng[p] \in Engagement
    BY <1>0, <2>1 DEF LifecycleTypeOK
  <2>3. /\ Waiting(f, StatusSteps)' \subseteq Waiting(f, StatusSteps)
        /\ Waiting(f, DeliverySteps)' \subseteq Waiting(f, DeliverySteps)
    BY <1>0, <2>1, <2>2, GoToWaiting
  <2> QED
    BY <1>1, <1>a, <2>1, <2>3
<1>10. ASSUME NEW p \in Proc, NotifyClient(p)
       PROVE  BothCovered(f)'
  <2>1. PICK notice \in ClientNotice :
          /\ \/ pc[p] = "notifyStatus" /\ notice = "engagement_status_changed"
             \/ pc[p] = "notifyDelivery" /\ notice = "deliverable_ready"
          /\ notices' = [notices EXCEPT ![eng[p]][notice] =
                           IF eng[p] \in WithClient THEN @ + 1 ELSE @]
          /\ GoTo(p, eng[p], "idle")
          /\ audit' = audit
    BY <1>10 DEF NotifyClient
  <2>2. eng[p] \in Engagement /\ "idle" \in Step
    BY <1>0, <2>1 DEF LifecycleTypeOK, Step
  <2>3. /\ Waiting(f, StatusSteps)' \subseteq Waiting(f, StatusSteps) \ {p}
        /\ Waiting(f, DeliverySteps)' \subseteq Waiting(f, DeliverySteps) \ {p}
    BY <1>0, <2>1, <2>2, GoToWaiting
  <2>4. \A n \in ClientNotice :
          /\ notices'[f][n] <= notices[f][n] + 1
          /\ (f # eng[p] \/ n # notice) => notices'[f][n] = notices[f][n]
    BY <1>0, <2>1, <2>2 DEF LifecycleTypeOK
  <2>5. /\ "engagement_status_changed" \in ClientNotice /\ "deliverable_ready" \in ClientNotice
        /\ audit'[f]["engagement.transition"] = audit[f]["engagement.transition"]
        /\ audit'[f]["engagement.confirm_delivery"] = audit[f]["engagement.confirm_delivery"]
    BY <2>1 DEF ClientNotice
  <2>6. CASE f = eng[p] /\ notice = "engagement_status_changed"
    <3>1. p \in Waiting(f, StatusSteps)
      BY <2>1, <2>6 DEF Waiting, StatusSteps
    <3>2. notices'[f]["deliverable_ready"] = notices[f]["deliverable_ready"]
      BY <2>4, <2>5, <2>6
    <3> QED
      BY <1>0, <1>a, <2>3, <2>4, <2>5, <3>1, <3>2, CoveredLeave, CoveredFrame DEF BothCovered
  <2>7. CASE f = eng[p] /\ notice = "deliverable_ready"
    <3>1. p \in Waiting(f, DeliverySteps)
      BY <2>1, <2>7 DEF Waiting, DeliverySteps
    <3>2. notices'[f]["engagement_status_changed"] = notices[f]["engagement_status_changed"]
      BY <2>4, <2>5, <2>7
    <3> QED
      BY <1>0, <1>a, <2>3, <2>4, <2>5, <3>1, <3>2, CoveredLeave, CoveredFrame DEF BothCovered
  <2>8. CASE f # eng[p]
    BY <1>0, <1>a, <2>3, <2>4, <2>5, <2>8, CoveredFrame DEF BothCovered
  <2> QED
    BY <2>1, <2>6, <2>7, <2>8
<1> QED
  BY <1>4, <1>5, <1>6, <1>7, <1>8, <1>9, <1>10, LifecycleStepCases

(***************************************************************************)
(* The client is told of no status change and no delivery that was not     *)
(* committed, and of none twice.                                           *)
(***************************************************************************)
THEOREM NoticesFollowCommits == LifecycleSpec => []NoPhantomNotice
<1>1. NoticeInv => NoPhantomNotice
  BY DEF NoticeInv, BothCovered, Covered, Waiting, StatusSteps, DeliverySteps, NoPhantomNotice
<1> QED
  BY <1>1, NoticeInit, NoticeStep, PTL DEF LifecycleSpec

-----------------------------------------------------------------------------
(***************************************************************************)
(* The lifecycle implements EngagementLedger: a transaction about an       *)
(* engagement is a step of the ledger, because its guard on the row is the *)
(* ledger's guard on the counts (LedgerRow); every other step leaves the   *)
(* ledger's rows alone.                                                    *)
(***************************************************************************)
LedgerRows ==
  [e \in Engagement |-> [a \in AuditAction \ {"engagement.completed_stamped"} |-> audit[e][a]]]

\* A row recorded here is a row appended there.
LEMMA LedgerAppend ==
  ASSUME LifecycleTypeOK, NEW e \in Engagement,
         NEW a \in AuditAction \ {"engagement.completed_stamped"}, Record(e, a)
  PROVE  Ledger!Append(e, a)
BY DEF LifecycleTypeOK, Record, Ledger!Append

\* The ledger sees nothing but audit rows.
LEMMA LedgerStutter ==
  ASSUME UNCHANGED audit
  PROVE  LedgerRows' = LedgerRows
BY DEF LedgerRows

\* What the ledger computes from the counts is what the engagement's row says.
LEMMA LedgerRow ==
  ASSUME TrailInv, NEW e \in Engagement
  PROVE  /\ Ledger!Place(LedgerRows[e]) = Rank(status[e])
         /\ Ledger!Stands(LedgerRows[e], "engagement.confirm_delivery") <=> deliveryConfirmedAt[e]
         /\ Ledger!Stands(LedgerRows[e], "engagement.confirm_filing") <=> filingConfirmedAt[e]
<1>1. TrailMatchesRow(e)
  BY DEF TrailInv, AuditAccountsForStatus
<1>2. \A a \in AuditAction \ {"engagement.completed_stamped"} :
        LedgerRows[e][a] = audit[e][a] /\ audit[e][a] \in Nat
  BY DEF LedgerRows, TrailInv, LifecycleTypeOK
<1>3. Rank(status[e]) \in Nat
  BY DEF Rank
<1> QED
  BY <1>1, <1>2, <1>3 DEF TrailMatchesRow, Standing, AuditAction, Ledger!Place, Ledger!Stands

\* Every action is a step of the ledger or leaves it alone.
LEMMA LedgerStep ==
  TrailInv /\ [LifecycleNext]_lifecycleVars => [Ledger!LedgerNext]_LedgerRows
<1> SUFFICES ASSUME TrailInv, [LifecycleNext]_lifecycleVars
             PROVE  Ledger!LedgerNext \/ UNCHANGED LedgerRows
  OBVIOUS
<1>0. LifecycleTypeOK
  BY DEF TrailInv
<1>1. ASSUME NEW e \in Engagement, NEW from \in Status, NEW to \in Status,
             <<from, to>> \in LIFECYCLE_ALLOWED_TRANSITIONS, status[e] = from,
             to = "Complete" => deliveryConfirmedAt[e] /\ filingConfirmedAt[e],
             Record(e, "engagement.transition")
      PROVE  Ledger!LedgerNext
  <2>1. Ledger!Append(e, "engagement.transition")
    BY <1>0, <1>1, LedgerAppend DEF AuditAction
  <2>2. Rank(from) \in 0 .. 2 /\ (Rank(from) = 2 => to = "Complete")
    BY <1>1, AllowedTransition, Ranks DEF Status
  <2>3. /\ Ledger!Place(LedgerRows[e]) \in 0 .. 2
        /\ Ledger!Place(LedgerRows[e]) = 2 =>
             /\ Ledger!Stands(LedgerRows[e], "engagement.confirm_delivery")
             /\ Ledger!Stands(LedgerRows[e], "engagement.confirm_filing")
    BY <1>1, <2>2, LedgerRow
  <2>4. Ledger!Forward(e)
    BY <2>1, <2>3 DEF Ledger!Forward, LedgerRows
  <2> QED
    BY <2>4 DEF Ledger!LedgerNext
<1>2. ASSUME NEW p \in Proc, NEW e \in Engagement, NEW from \in Status, NEW to \in Status,
             transitionEngagementStatus(p, e, from, to)
      PROVE  Ledger!LedgerNext
  BY <1>1, <1>2 DEF transitionEngagementStatus
<1>3. ASSUME NEW e \in Engagement, StartByOnboarding(e)
      PROVE  Ledger!LedgerNext
  <2>1. /\ <<"New", "InProgress">> \in LIFECYCLE_ALLOWED_TRANSITIONS
        /\ "New" \in Status /\ "InProgress" \in Status /\ "InProgress" # "Complete"
    BY DEF LIFECYCLE_ALLOWED_TRANSITIONS, Status
  <2> QED
    BY <1>1, <1>3, <2>1 DEF StartByOnboarding
<1>4. ASSUME NEW p \in Proc, NEW e \in Engagement, confirmDelivery(p, e)
      PROVE  Ledger!LedgerNext
  <2>1. ~Ledger!Stands(LedgerRows[e], "engagement.confirm_delivery")
    BY <1>4, LedgerRow DEF confirmDelivery
  <2>2. Ledger!Append(e, "engagement.confirm_delivery")
    BY <1>0, <1>4, LedgerAppend DEF confirmDelivery, AuditAction
  <2> QED
    BY <2>1, <2>2 DEF Ledger!LedgerNext, Ledger!Confirm, LedgerRows
<1>5. ASSUME NEW e \in Engagement, confirmFiling(e)
      PROVE  Ledger!LedgerNext
  <2>1. ~Ledger!Stands(LedgerRows[e], "engagement.confirm_filing")
    BY <1>5, LedgerRow DEF confirmFiling
  <2>2. Ledger!Append(e, "engagement.confirm_filing")
    BY <1>0, <1>5, LedgerAppend DEF confirmFiling, AuditAction
  <2> QED
    BY <2>1, <2>2 DEF Ledger!LedgerNext, Ledger!Confirm, LedgerRows
<1>6. ASSUME NEW e \in Engagement, reopenEngagement(e)
      PROVE  Ledger!LedgerNext
  <2>1. Ledger!Place(LedgerRows[e]) = 3
    BY <1>6, LedgerRow, Ranks DEF reopenEngagement
  <2>2. Ledger!Append(e, "engagement.reopen")
    BY <1>0, <1>6, LedgerAppend DEF reopenEngagement, AuditAction
  <2> QED
    BY <2>1, <2>2 DEF Ledger!LedgerNext, Ledger!Reopen, LedgerRows
<1>7. ASSUME NEW p \in Proc, AuditStamp(p)
      PROVE  UNCHANGED LedgerRows
  BY <1>0, <1>7 DEF AuditStamp, Record, LedgerRows, LifecycleTypeOK
<1>8. ASSUME UNCHANGED audit
      PROVE  UNCHANGED LedgerRows
  BY <1>8, LedgerStutter
<1> QED
  BY <1>2, <1>3, <1>4, <1>5, <1>6, <1>7, <1>8, LifecycleStepCases DEF Tick,
     StampCompletion, archiveEngagementThread, NotifyClient, getOrCreateEngagementThread,
     Fail, lifecycleVars

\* The ledger starts empty.
LEMMA LedgerStart ==
  LifecycleInit => Ledger!LedgerInit
BY DEF LifecycleInit, Ledger!LedgerInit, Ledger!LedgerAction, AuditAction

(***************************************************************************)
(* The audit trail is a history of EngagementLedger.                       *)
(***************************************************************************)
THEOREM LedgerImplemented == LifecycleSpec => ImplementsLedger
<1>1. TrailInv /\ [LifecycleNext]_lifecycleVars => [Ledger!LedgerNext]_LedgerRows
  BY LedgerStep
<1> QED
  BY <1>1, LedgerStart, TrailInvariant, PTL
     DEF LifecycleSpec, ImplementsLedger, Ledger!LedgerSpec, LedgerRows
=============================================================================
