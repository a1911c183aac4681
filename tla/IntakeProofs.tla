------------------------------ MODULE IntakeProofs ------------------------------
(***************************************************************************)
(* What Intake guarantees for every set of requests, tax years and handler *)
(* invocations: a request is decided once, its prospect gets at most one   *)
(* mail, of the decision that was committed, and each handler slips at     *)
(* most one duplicate engagement past the warning.                         *)
(***************************************************************************)
EXTENDS Intake, FiniteSetTheorems, TLAPS

-----------------------------------------------------------------------------
(***************************************************************************)
(* Types.  What a handler works on has the shape that its step expects.    *)
(***************************************************************************)
DecisionJob == [request : Request, decision : Decision]
CreationJob == [year : TaxYear, override : BOOLEAN]

JobFitsStep ==
  \A p \in AdminProc :
    /\ ipc[p] \in {"invite", "commit", "limit", "send"} => job[p] \in DecisionJob
    /\ ipc[p] \in {"look", "create"} => job[p] \in CreationJob

IntakeTypeInv == IntakeTypeOK /\ JobFitsStep

\* A row appended to the rows of one request leaves the rows of each a sequence.
LEMMA AppendInSeq ==
  ASSUME NEW S, NEW rows \in [Request -> Seq(S)], NEW r \in Request, NEW x \in S
  PROVE  [rows EXCEPT ![r] = Append(@, x)] \in [Request -> Seq(S)]
<1>1. Append(rows[r], x) \in Seq(S)
  OBVIOUS
<1> QED
  BY <1>1

\* A handler that goes on to a step of the same kind, or ends, keeps the shape.
LEMMA IGoToFits ==
  ASSUME IntakeTypeInv, NEW p \in AdminProc, NEW step, IGoTo(p, step),
         \/ step = "idle"
         \/ step \in {"commit", "limit", "send"} /\ job[p] \in DecisionJob
         \/ step = "create" /\ job[p] \in CreationJob
  PROVE  /\ ipc' \in [AdminProc -> {"idle", "invite", "commit", "limit", "send", "look", "create"}]
         /\ job' \in [AdminProc -> Job \cup {NULL}]
         /\ JobFitsStep'
BY DEF IntakeTypeInv, IntakeTypeOK, JobFitsStep, IGoTo

\* A handler starts with the shape that its first step expects.
LEMMA IStartFits ==
  ASSUME IntakeTypeInv, NEW p \in AdminProc, NEW step, NEW work, IStart(p, step, work),
         \/ step \in {"invite", "commit"} /\ work \in DecisionJob
         \/ step \in {"look", "create"} /\ work \in CreationJob
  PROVE  /\ ipc' \in [AdminProc -> {"idle", "invite", "commit", "limit", "send", "look", "create"}]
         /\ job' \in [AdminProc -> Job \cup {NULL}]
         /\ JobFitsStep'
BY DEF IntakeTypeInv, IntakeTypeOK, JobFitsStep, IStart, Job, DecisionJob, CreationJob

LEMMA IntakeTypeInit ==
  IntakeInit => IntakeTypeInv
BY IntakeAssumption
   DEF IntakeInit, IntakeTypeInv, IntakeTypeOK, JobFitsStep, Decision, MailKey

LEMMA IntakeTypeStep ==
  IntakeTypeInv /\ [IntakeNext]_intakeVars => IntakeTypeInv'
<1> SUFFICES ASSUME IntakeTypeInv, [IntakeNext]_intakeVars
             PROVE  IntakeTypeInv'
  OBVIOUS
<1> USE DEF intakeRowVars
<1>1. ASSUME NEW r \in Request, createEngagementRequest(r)
      PROVE  IntakeTypeInv'
  BY <1>1 DEF createEngagementRequest, IntakeTypeInv, IntakeTypeOK, JobFitsStep
<1>2. ASSUME NEW p \in AdminProc, IntakeHandler(p)
      PROVE  IntakeTypeInv'
  <2>1. CASE createInvitation(p)
    <3>1. job[p] \in DecisionJob
      BY <2>1 DEF createInvitation, IntakeTypeInv, JobFitsStep
    <3>2. IGoTo(p, "commit")
      BY <2>1 DEF createInvitation
    <3> QED
      BY <2>1, <3>1, <3>2, IGoToFits
         DEF createInvitation, IntakeTypeInv, IntakeTypeOK, DecisionJob
  <2>2. CASE Decide(p)
    <3>1. job[p] \in DecisionJob
      BY <2>2 DEF Decide, IntakeTypeInv, JobFitsStep
    <3>2. IGoTo(p, "limit") \/ IGoTo(p, "idle")
      BY <2>2 DEF Decide
    <3>3. PICK r \in Request, d \in Decision : job[p].request = r /\ job[p].decision = d
      BY <3>1 DEF DecisionJob
    <3>4. CASE requestStatus[r] = "pending"
      <4>1. requestStatus' = [requestStatus EXCEPT ![r] = d]
        BY <2>2, <3>3, <3>4 DEF Decide
      <4>2. engagement' \in {[engagement EXCEPT ![r] = "unlinked"], engagement}
        BY <2>2, <3>3, <3>4 DEF Decide
      <4>3. requestAudit' = [requestAudit EXCEPT ![r] = Append(@, d)]
        BY <2>2, <3>3, <3>4 DEF Decide
      <4>4. requestAudit' \in [Request -> Seq(Decision \cup {"created"})]
        BY <4>3, AppendInSeq DEF IntakeTypeInv, IntakeTypeOK
      <4>5. UNCHANGED <<taxYear, overridden, announced, invited, mails, told, window>>
        BY <2>2, <3>3, <3>4 DEF Decide
      <4> QED
        BY <3>1, <3>2, <4>1, <4>2, <4>4, <4>5, IGoToFits
           DEF IntakeTypeInv, IntakeTypeOK, Decision
    <3>5. CASE requestStatus[r] # "pending"
      <4>1. UNCHANGED <<intakeRowVars, invited, mails, told, window>>
        BY <2>2, <3>3, <3>5 DEF Decide
      <4> QED
        BY <3>1, <3>2, <4>1, IGoToFits DEF IntakeTypeInv, IntakeTypeOK
    <3> QED
      BY <3>4, <3>5
  <2>3. CASE LimitMail(p)
    <3>1. job[p] \in DecisionJob
      BY <2>3 DEF LimitMail, IntakeTypeInv, JobFitsStep
    <3>2. IGoTo(p, "send") \/ IGoTo(p, "idle")
      BY <2>3 DEF LimitMail
    <3>3. window' \in [{MailKey(d) : d \in Decision} -> 0 .. MaxAttempts]
      BY <2>3, <3>1, IntakeAssumption
         DEF LimitMail, IntakeTypeInv, IntakeTypeOK, DecisionJob
    <3>4. told' \subseteq Request
      BY <2>3, <3>1 DEF LimitMail, IntakeTypeInv, IntakeTypeOK, DecisionJob
    <3> QED
      BY <2>3, <3>1, <3>2, <3>3, <3>4, IGoToFits DEF LimitMail, IntakeTypeInv, IntakeTypeOK
  <2>4. CASE SendMail(p)
    <3>1. job[p] \in DecisionJob
      BY <2>4 DEF SendMail, IntakeTypeInv, JobFitsStep
    <3>2. IGoTo(p, "idle")
      BY <2>4 DEF SendMail
    <3>3. mails' \in [Request -> Seq(Decision)] /\ told' \subseteq Request
      BY <2>4, <3>1 DEF SendMail, IntakeTypeInv, IntakeTypeOK, DecisionJob
    <3> QED
      BY <2>4, <3>2, <3>3, IGoToFits DEF SendMail, IntakeTypeInv, IntakeTypeOK
  <2>5. CASE LookForDuplicates(p)
    <3>1. job[p] \in CreationJob
      BY <2>5 DEF LookForDuplicates, IntakeTypeInv, JobFitsStep
    <3>2. IGoTo(p, "create") \/ IGoTo(p, "idle")
      BY <2>5 DEF LookForDuplicates
    <3> QED
      BY <2>5, <3>1, <3>2, IGoToFits DEF LookForDuplicates, IntakeTypeInv, IntakeTypeOK
  <2>6. CASE IntakeFail(p)
    <3>1. IGoTo(p, "idle")
      BY <2>6 DEF IntakeFail
    <3> QED
      BY <2>6, <3>1, IGoToFits DEF IntakeFail, IntakeTypeInv, IntakeTypeOK
  <2>7. ASSUME NEW r \in Request, acceptRequest(p, r)
        PROVE  IntakeTypeInv'
    <3>1. IStart(p, "invite", [request |-> r, decision |-> "accepted"])
      BY <2>7 DEF acceptRequest
    <3>2. [request |-> r, decision |-> "accepted"] \in DecisionJob
      BY DEF DecisionJob, Decision
    <3> QED
      BY <3>1, <3>2, IStartFits DEF IStart, IntakeTypeInv, IntakeTypeOK
  <2>8. ASSUME NEW r \in Request, declineRequest(p, r)
        PROVE  IntakeTypeInv'
    <3>1. IStart(p, "commit", [request |-> r, decision |-> "declined"])
      BY <2>8 DEF declineRequest
    <3>2. [request |-> r, decision |-> "declined"] \in DecisionJob
      BY DEF DecisionJob, Decision
    <3> QED
      BY <3>1, <3>2, IStartFits DEF IStart, IntakeTypeInv, IntakeTypeOK
  <2>9. ASSUME NEW r \in Request, createAccountantInitiatedEngagement(p, r)
        PROVE  IntakeTypeInv'
    <3>1. job[p] \in CreationJob
      BY <2>9 DEF createAccountantInitiatedEngagement, IntakeTypeInv, JobFitsStep
    <3>2. IGoTo(p, "idle")
      BY <2>9 DEF createAccountantInitiatedEngagement
    <3>3. /\ requestStatus' \in [Request -> {"none", "pending", "accepted", "declined"}]
          /\ engagement' \in [Request -> {"none", "unlinked", "linked"}]
          /\ taxYear' \in [Request -> TaxYear \cup {NULL}]
          /\ overridden' \in [Request -> BOOLEAN]
      BY <2>9, <3>1 DEF createAccountantInitiatedEngagement, IntakeTypeInv, IntakeTypeOK,
         CreationJob
    <3>4. requestAudit' \in [Request -> Seq(Decision \cup {"created"})]
      <4>1. requestAudit' = [requestAudit EXCEPT ![r] = Append(@, "created")]
        BY <2>9 DEF createAccountantInitiatedEngagement
      <4> QED
        BY <4>1, AppendInSeq DEF IntakeTypeInv, IntakeTypeOK
    <3> QED
      BY <2>9, <3>2, <3>3, <3>4, IGoToFits
         DEF createAccountantInitiatedEngagement, IntakeTypeInv, IntakeTypeOK
  <2>10. ASSUME NEW y \in TaxYear, NEW override \in BOOLEAN, initiateEngagement(p, y, override)
         PROVE  IntakeTypeInv'
    <3>1. PICK step \in {"look", "create"} :
            IStart(p, step, [year |-> y, override |-> override])
      BY <2>10 DEF initiateEngagement
    <3>2. [year |-> y, override |-> override] \in CreationJob
      BY DEF CreationJob
    <3>3. /\ ipc' \in [AdminProc -> {"idle", "invite", "commit", "limit", "send", "look", "create"}]
          /\ job' \in [AdminProc -> Job \cup {NULL}]
          /\ JobFitsStep'
      BY <3>1, <3>2, IStartFits
    <3> QED
      BY <3>1, <3>3 DEF IStart, IntakeTypeInv, IntakeTypeOK
  <2> QED
    BY <1>2, <2>1, <2>2, <2>3, <2>4, <2>5, <2>6, <2>7, <2>8, <2>9, <2>10
       DEF IntakeHandler, IntakeContinue
<1>3. ASSUME NEW k \in DOMAIN window, WindowExpires(k)
      PROVE  IntakeTypeInv'
  BY <1>3, IntakeAssumption DEF WindowExpires, IntakeTypeInv, IntakeTypeOK, JobFitsStep
<1>4. CASE UNCHANGED intakeVars
  BY <1>4 DEF intakeVars, IntakeTypeInv, IntakeTypeOK, JobFitsStep
<1> QED
  BY <1>1, <1>2, <1>3, <1>4 DEF IntakeNext, createReturningClientRequest

(***************************************************************************)
(* Every variable of intake keeps its type, for every request and handler. *)
(***************************************************************************)
THEOREM IntakeTypeCorrect == IntakeSpec => []IntakeTypeInv
BY IntakeTypeInit, IntakeTypeStep, PTL DEF IntakeSpec

-----------------------------------------------------------------------------
(***************************************************************************)
(* Decisions and their mails.  From its commit to its mail a handler holds *)
(* a decision that is the committed one and of which no mail went out, and *)
(* no other handler holds a decision of the same request.  That is what    *)
(* makes the mail, sent long after the transaction, the right one.         *)
(***************************************************************************)
InFlight(p) == ipc[p] \in {"limit", "send"}

HoldsDecision(p) ==
  LET r == job[p].request
      d == job[p].decision
  IN  requestStatus[r] = d /\ requestAudit[r] = <<d>> /\ mails[r] = <<>>

FlightsHold == \A p \in AdminProc : InFlight(p) => HoldsDecision(p)

FlightsApart ==
  \A p, q \in AdminProc :
    p # q /\ InFlight(p) /\ InFlight(q) => job[p].request # job[q].request

InvitedFirst ==
  \A p \in AdminProc :
    /\ ipc[p] = "invite" => job[p].decision = "accepted"
    /\ ipc[p] \in {"commit", "limit", "send"} /\ job[p].decision = "accepted" =>
         job[p].request \in invited

DecisionInv ==
  /\ IntakeTypeInv
  /\ DecisionCommittedOnce
  /\ MailMatchesDecision
  /\ FlightsHold
  /\ FlightsApart
  /\ InvitedFirst

LEMMA DecisionInit ==
  IntakeInit => DecisionInv
BY IntakeTypeInit
   DEF IntakeInit, DecisionInv, DecisionCommittedOnce, DecidedOnce, MailMatchesDecision,
       FlightsHold, FlightsApart, InvitedFirst, InFlight

\* A request that is not decided has not been mailed of, and no handler is to.
LEMMA UndecidedIsQuiet ==
  ASSUME DecisionInv, NEW r \in Request, requestStatus[r] \in {"none", "pending"}
  PROVE  /\ mails[r] = <<>>
         /\ requestAudit[r] = <<>>
         /\ engagement[r] = "none"
         /\ \A p \in AdminProc : InFlight(p) => job[p].request # r
<1>1. requestAudit[r] = <<>> /\ engagement[r] = "none"
  BY DEF DecisionInv, DecisionCommittedOnce, DecidedOnce
<1>2. mails[r] = <<>>
  BY <1>1 DEF DecisionInv, MailMatchesDecision
<1>3. ASSUME NEW p \in AdminProc, InFlight(p)
      PROVE  job[p].request # r
  BY <1>3 DEF DecisionInv, FlightsHold, HoldsDecision, InFlight, IntakeTypeInv, JobFitsStep,
     DecisionJob, Decision
<1> QED
  BY <1>1, <1>2, <1>3

\* A step that decides, mails and moves nothing that is in flight keeps the rest.
LEMMA QuietStep ==
  ASSUME DecisionInv, IntakeTypeInv',
         UNCHANGED <<requestStatus, engagement, requestAudit, mails>>,
         invited \subseteq invited',
         NEW p \in AdminProc,
         \A q \in AdminProc \ {p} : ipc'[q] = ipc[q] /\ job'[q] = job[q],
         \/ InFlight(p) /\ ipc'[p] = "send" /\ job'[p] = job[p]
         \/ ipc'[p] \in {"idle", "look", "create", "invite", "commit"},
         ipc'[p] = "invite" => job'[p].decision = "accepted",
         ipc'[p] = "commit" /\ job'[p].decision = "accepted" => job'[p].request \in invited'
  PROVE  DecisionInv'
<1>1. DecisionCommittedOnce' /\ MailMatchesDecision'
  BY DEF DecisionInv, DecisionCommittedOnce, DecidedOnce, MailMatchesDecision
<1>2. \A q \in AdminProc : InFlight(q)' => InFlight(q) /\ job'[q] = job[q]
  BY DEF InFlight
<1>3. FlightsHold' /\ FlightsApart'
  BY <1>2 DEF DecisionInv, FlightsHold, FlightsApart, HoldsDecision
<1>4. InvitedFirst'
  BY DEF DecisionInv, InvitedFirst, InFlight
<1> QED
  BY <1>1, <1>3, <1>4 DEF DecisionInv

\* A request that is created pending or, for the known client, accepted at once.
LEMMA CreationStep ==
  ASSUME DecisionInv, IntakeTypeInv', NEW r \in Request, requestStatus[r] = "none",
         UNCHANGED mails, invited' = invited,
         \A q \in Request \ {r} : /\ requestStatus'[q] = requestStatus[q]
                                  /\ engagement'[q] = engagement[q]
                                  /\ requestAudit'[q] = requestAudit[q],
         DecidedOnce(r)',
         \A q \in AdminProc : InFlight(q)' => InFlight(q) /\ job'[q] = job[q],
         InvitedFirst'
  PROVE  DecisionInv'
<1>1. DecisionCommittedOnce'
  BY DEF DecisionInv, DecisionCommittedOnce, DecidedOnce
<1>2. mails[r] = <<>> /\ \A p \in AdminProc : InFlight(p) => job[p].request # r
  BY UndecidedIsQuiet
<1>3. MailMatchesDecision'
  <2> SUFFICES ASSUME NEW q \in Request, mails'[q] # <<>>
               PROVE  /\ mails'[q] = <<requestStatus'[q]>>
                      /\ requestAudit'[q] = mails'[q]
                      /\ requestStatus'[q] = "accepted" => q \in invited'
    BY DEF MailMatchesDecision
  <2>1. q # r
    BY <1>2
  <2> QED
    BY <2>1 DEF DecisionInv, MailMatchesDecision
<1>4. \A p \in AdminProc : InFlight(p) => job[p].request \in Request
  BY DEF DecisionInv, InFlight, IntakeTypeInv, JobFitsStep, DecisionJob
<1>5. FlightsHold'
  <2> SUFFICES ASSUME NEW p \in AdminProc, InFlight(p)'
               PROVE  HoldsDecision(p)'
    BY DEF FlightsHold
  <2>1. InFlight(p) /\ job'[p] = job[p] /\ job[p].request \in Request \ {r}
    BY <1>2, <1>4
  <2>2. HoldsDecision(p)
    BY <2>1 DEF DecisionInv, FlightsHold
  <2>3. PICK q \in Request \ {r} : q = job[p].request
    BY <2>1
  <2>4. requestStatus'[q] = requestStatus[q] /\ requestAudit'[q] = requestAudit[q]
    OBVIOUS
  <2> QED
    BY <2>1, <2>2, <2>3, <2>4 DEF HoldsDecision
<1>6. FlightsApart'
  BY DEF DecisionInv, FlightsApart
<1> QED
  BY <1>1, <1>3, <1>5, <1>6 DEF DecisionInv

LEMMA DecisionStep ==
  DecisionInv /\ [IntakeNext]_intakeVars => DecisionInv'
<1> SUFFICES ASSUME DecisionInv, [IntakeNext]_intakeVars
             PROVE  DecisionInv'
  OBVIOUS
<1>0. IntakeTypeInv /\ IntakeTypeInv'
  BY IntakeTypeStep DEF DecisionInv
<1> USE DEF intakeRowVars
<1>1. ASSUME NEW r \in Request, createEngagementRequest(r)
      PROVE  DecisionInv'
  <2>1. requestAudit[r] = <<>> /\ engagement[r] = "none"
    BY <1>1, UndecidedIsQuiet DEF createEngagementRequest
  <2>2. requestStatus'[r] = "pending"
        /\ \A q \in Request \ {r} : requestStatus'[q] = requestStatus[q]
    BY <1>0, <1>1 DEF createEngagementRequest, IntakeTypeInv, IntakeTypeOK
  <2>3. DecidedOnce(r)'
    BY <1>1, <2>1, <2>2 DEF createEngagementRequest, DecidedOnce
  <2>4. InvitedFirst'
    BY <1>1 DEF createEngagementRequest, DecisionInv, InvitedFirst
  <2> QED
    BY <1>0, <1>1, <2>2, <2>3, <2>4, CreationStep DEF createEngagementRequest, InFlight
<1>2. ASSUME NEW p \in AdminProc, IntakeHandler(p)
      PROVE  DecisionInv'
  <2>0. /\ ipc \in [AdminProc -> {"idle", "invite", "commit", "limit", "send", "look", "create"}]
        /\ job \in [AdminProc -> Job \cup {NULL}]
    BY <1>0 DEF IntakeTypeInv, IntakeTypeOK
  <2>1. CASE createInvitation(p)
    <3>1. IGoTo(p, "commit") /\ invited' = invited \cup {job[p].request}
      BY <2>1 DEF createInvitation
    <3>2. /\ ipc'[p] = "commit" /\ job' = job
          /\ \A q \in AdminProc \ {p} : ipc'[q] = ipc[q]
      BY <2>0, <3>1 DEF IGoTo
    <3>3. UNCHANGED <<requestStatus, engagement, requestAudit, mails>>
      BY <2>1 DEF createInvitation
    <3> QED
      BY <1>0, <3>1, <3>2, <3>3, QuietStep
  <2>2. CASE Decide(p)
    <3>1. PICK r \in Request, d \in Decision : job[p].request = r /\ job[p].decision = d
      BY <1>0, <2>2 DEF Decide, IntakeTypeInv, JobFitsStep, DecisionJob
    <3>2. CASE requestStatus[r] # "pending"
      <4>1. IGoTo(p, "idle") /\ UNCHANGED <<requestStatus, engagement, requestAudit, mails, invited>>
        BY <2>2, <3>1, <3>2 DEF Decide
      <4>2. /\ ipc'[p] = "idle"
            /\ \A q \in AdminProc \ {p} : ipc'[q] = ipc[q] /\ job'[q] = job[q]
        BY <2>0, <4>1 DEF IGoTo
      <4> QED
        BY <1>0, <4>1, <4>2, QuietStep
    <3>3. CASE requestStatus[r] = "pending"
      <4>1. /\ requestStatus' = [requestStatus EXCEPT ![r] = d]
            /\ engagement' = IF d = "accepted" THEN [engagement EXCEPT ![r] = "unlinked"]
                                               ELSE engagement
            /\ requestAudit' = [requestAudit EXCEPT ![r] = Append(@, d)]
            /\ IGoTo(p, "limit")
            /\ UNCHANGED <<mails, invited>>
        BY <2>2, <3>1, <3>3 DEF Decide
      <4>2. /\ mails[r] = <<>> /\ requestAudit[r] = <<>> /\ engagement[r] = "none"
            /\ \A q \in AdminProc : InFlight(q) => job[q].request # r
        BY <3>3, UndecidedIsQuiet
      <4>3. /\ ipc'[p] = "limit" /\ job' = job
            /\ \A q \in AdminProc \ {p} : ipc'[q] = ipc[q]
        BY <2>0, <4>1 DEF IGoTo
      <4>4. /\ requestStatus'[r] = d
            /\ engagement'[r] = IF d = "accepted" THEN "unlinked" ELSE "none"
            /\ requestAudit'[r] = <<d>>
            /\ \A q \in Request \ {r} : /\ requestStatus'[q] = requestStatus[q]
                                       /\ engagement'[q] = engagement[q]
                                       /\ requestAudit'[q] = requestAudit[q]
        BY <1>0, <4>1, <4>2 DEF IntakeTypeInv, IntakeTypeOK
      <4>5. DecisionCommittedOnce'
        <5>1. DecidedOnce(r)'
          BY <4>4 DEF DecidedOnce, Decision
        <5> QED
          BY <4>4, <5>1 DEF DecisionInv, DecisionCommittedOnce, DecidedOnce
      <4>6. MailMatchesDecision'
        BY <4>1, <4>2, <4>4 DEF DecisionInv, MailMatchesDecision
      <4>7. \A q \in AdminProc : InFlight(q) => job[q].request \in Request
        BY <1>0 DEF InFlight, IntakeTypeInv, JobFitsStep, DecisionJob
      <4>8. FlightsHold'
        <5>1. ASSUME NEW q \in AdminProc, InFlight(q)'
              PROVE  HoldsDecision(q)'
          <6>1. CASE q = p
            BY <3>1, <4>1, <4>2, <4>3, <4>4, <6>1 DEF HoldsDecision
          <6>2. CASE q # p
            <7>1. InFlight(q) /\ job'[q] = job[q]
              BY <4>3, <5>1, <6>2 DEF InFlight
            <7> QED
              BY <4>1, <4>2, <4>4, <4>7, <7>1 DEF DecisionInv, FlightsHold, HoldsDecision
          <6> QED
            BY <6>1, <6>2
        <5> QED
          BY <5>1 DEF FlightsHold
      <4>9. FlightsApart'
        BY <3>1, <4>2, <4>3 DEF DecisionInv, FlightsApart, InFlight
      <4>10. InvitedFirst'
        BY <2>2, <4>1, <4>3 DEF Decide, DecisionInv, InvitedFirst
      <4> QED
        BY <1>0, <4>5, <4>6, <4>8, <4>9, <4>10 DEF DecisionInv
    <3> QED
      BY <3>2, <3>3
  <2>3. CASE LimitMail(p)
    <3>1. IGoTo(p, "send") \/ IGoTo(p, "idle")
      BY <2>3 DEF LimitMail
    <3>2. /\ (ipc'[p] = "send" /\ job'[p] = job[p]) \/ ipc'[p] = "idle"
          /\ \A q \in AdminProc \ {p} : ipc'[q] = ipc[q] /\ job'[q] = job[q]
      BY <2>0, <3>1 DEF IGoTo
    <3>3. UNCHANGED <<requestStatus, engagement, requestAudit, mails, invited>> /\ InFlight(p)
      BY <2>3 DEF LimitMail, InFlight
    <3> QED
      BY <1>0, <3>2, <3>3, QuietStep
  <2>4. CASE SendMail(p)
    <3>1. PICK r \in Request, d \in Decision : job[p].request = r /\ job[p].decision = d
      BY <1>0, <2>4 DEF SendMail, IntakeTypeInv, JobFitsStep, DecisionJob
    <3>2. /\ requestStatus[r] = d /\ requestAudit[r] = <<d>> /\ mails[r] = <<>>
          /\ d = "accepted" => r \in invited
      BY <2>4, <3>1 DEF SendMail, DecisionInv, FlightsHold, HoldsDecision, InFlight, InvitedFirst
    <3>3. /\ UNCHANGED <<requestStatus, engagement, requestAudit, invited>>
          /\ mails' = mails \/ mails' = [mails EXCEPT ![r] = Append(@, d)]
          /\ IGoTo(p, "idle")
      BY <2>4, <3>1 DEF SendMail
    <3>4. /\ ipc'[p] = "idle"
          /\ \A q \in AdminProc \ {p} : ipc'[q] = ipc[q] /\ job'[q] = job[q]
      BY <2>0, <3>3 DEF IGoTo
    <3>5. CASE mails' = mails
      BY <1>0, <3>3, <3>4, <3>5, QuietStep
    <3>6. CASE mails' = [mails EXCEPT ![r] = Append(@, d)]
      <4>1. mails'[r] = <<d>> /\ \A q \in Request \ {r} : mails'[q] = mails[q]
        BY <1>0, <3>2, <3>6 DEF IntakeTypeInv, IntakeTypeOK
      <4>2. DecisionCommittedOnce'
        BY <3>3 DEF DecisionInv, DecisionCommittedOnce, DecidedOnce
      <4>3. MailMatchesDecision'
        BY <3>2, <3>3, <4>1 DEF DecisionInv, MailMatchesDecision
      <4>4. \A q \in AdminProc :
              InFlight(q)' => /\ InFlight(q) /\ job'[q] = job[q]
                              /\ job[q].request \in Request \ {r}
        <5>1. \A q \in AdminProc : InFlight(q)' => InFlight(q) /\ job'[q] = job[q] /\ q # p
          BY <3>4 DEF InFlight
        <5>2. InFlight(p)
          BY <2>4 DEF SendMail, InFlight
        <5>3. \A q \in AdminProc : InFlight(q) => job[q].request \in Request
          BY <1>0 DEF InFlight, IntakeTypeInv, JobFitsStep, DecisionJob
        <5> QED
          BY <3>1, <5>1, <5>2, <5>3 DEF DecisionInv, FlightsApart
      <4>5. FlightsHold' /\ FlightsApart'
        BY <3>3, <4>1, <4>4 DEF DecisionInv, FlightsHold, FlightsApart, HoldsDecision
      <4>6. InvitedFirst'
        BY <3>3, <3>4 DEF DecisionInv, InvitedFirst
      <4> QED
        BY <1>0, <4>2, <4>3, <4>5, <4>6 DEF DecisionInv
    <3> QED
      BY <3>3, <3>5, <3>6
  <2>5. CASE LookForDuplicates(p) \/ IntakeFail(p)
    <3>1. IGoTo(p, "create") \/ IGoTo(p, "idle")
      BY <2>5 DEF LookForDuplicates, IntakeFail
    <3>2. /\ ipc'[p] \in {"create", "idle"}
          /\ \A q \in AdminProc \ {p} : ipc'[q] = ipc[q] /\ job'[q] = job[q]
      BY <2>0, <3>1 DEF IGoTo
    <3>3. UNCHANGED <<requestStatus, engagement, requestAudit, mails, invited>>
      BY <2>5 DEF LookForDuplicates, IntakeFail
    <3> QED
      BY <1>0, <3>2, <3>3, QuietStep
  <2>6. ASSUME NEW step \in {"invite", "commit", "look", "create"}, NEW work,
               IStart(p, step, work),
               step = "invite" => work.decision = "accepted",
               step = "commit" => work.decision # "accepted"
        PROVE  DecisionInv'
    <3>1. /\ ipc'[p] = step /\ job'[p] = work
          /\ \A q \in AdminProc \ {p} : ipc'[q] = ipc[q] /\ job'[q] = job[q]
      BY <2>0, <2>6 DEF IStart
    <3>2. UNCHANGED <<requestStatus, engagement, requestAudit, mails, invited>>
      BY <2>6 DEF IStart
    <3> QED
      BY <1>0, <2>6, <3>1, <3>2, QuietStep
  <2>7. ASSUME NEW r \in Request, acceptRequest(p, r) \/ declineRequest(p, r)
        PROVE  DecisionInv'
    BY <2>6, <2>7 DEF acceptRequest, declineRequest
  <2>8. ASSUME NEW y \in TaxYear, NEW override \in BOOLEAN, initiateEngagement(p, y, override)
        PROVE  DecisionInv'
    BY <2>6, <2>8 DEF initiateEngagement
  <2>9. ASSUME NEW r \in Request, createAccountantInitiatedEngagement(p, r)
        PROVE  DecisionInv'
    <3>1. /\ requestStatus[r] = "none"
          /\ requestStatus' = [requestStatus EXCEPT ![r] = "accepted"]
          /\ engagement' = [engagement EXCEPT ![r] = "linked"]
          /\ requestAudit' = [requestAudit EXCEPT ![r] = Append(@, "created")]
          /\ UNCHANGED <<mails, invited>>
          /\ IGoTo(p, "idle")
      BY <2>9 DEF createAccountantInitiatedEngagement
    <3>2. requestAudit[r] = <<>>
      BY <3>1, UndecidedIsQuiet
    <3>3. /\ ipc'[p] = "idle"
          /\ \A q \in AdminProc \ {p} : ipc'[q] = ipc[q] /\ job'[q] = job[q]
      BY <2>0, <3>1 DEF IGoTo
    <3>4. /\ requestStatus'[r] = "accepted" /\ engagement'[r] = "linked"
          /\ requestAudit'[r] = <<"created">>
          /\ \A q \in Request \ {r} : /\ requestStatus'[q] = requestStatus[q]
                                     /\ engagement'[q] = engagement[q]
                                     /\ requestAudit'[q] = requestAudit[q]
      BY <1>0, <3>1, <3>2 DEF IntakeTypeInv, IntakeTypeOK
    <3>5. DecidedOnce(r)'
      BY <3>4 DEF DecidedOnce
    <3>6. InvitedFirst'
      BY <3>1, <3>3 DEF DecisionInv, InvitedFirst
    <3>7. \A q \in AdminProc : InFlight(q)' => InFlight(q) /\ job'[q] = job[q]
      BY <3>3 DEF InFlight
    <3> QED
      BY <1>0, <3>1, <3>4, <3>5, <3>6, <3>7, CreationStep
  <2> QED
    BY <1>2, <2>1, <2>2, <2>3, <2>4, <2>5, <2>7, <2>8, <2>9 DEF IntakeHandler, IntakeContinue
<1>3. ASSUME NEW k \in DOMAIN window, WindowExpires(k)
      PROVE  DecisionInv'
  BY <1>0, <1>3
     DEF WindowExpires, DecisionInv, DecisionCommittedOnce, DecidedOnce, MailMatchesDecision,
         FlightsHold, FlightsApart, HoldsDecision, InvitedFirst, InFlight
<1>4. CASE UNCHANGED intakeVars
  BY <1>0, <1>4
     DEF intakeVars, DecisionInv, DecisionCommittedOnce, DecidedOnce, MailMatchesDecision,
         FlightsHold, FlightsApart, HoldsDecision, InvitedFirst, InFlight
<1> QED
  BY <1>1, <1>2, <1>3, <1>4 DEF IntakeNext, createReturningClientRequest

LEMMA DecisionInvariant == IntakeSpec => []DecisionInv
BY DecisionInit, DecisionStep, PTL DEF IntakeSpec

(***************************************************************************)
(* A request is decided once, however many accountants decide it at a      *)
(* time: status, audit rows and engagement tell the same decision.         *)
(***************************************************************************)
THEOREM DecidedOnceForAll == IntakeSpec => []DecisionCommittedOnce
<1>1. DecisionInv => DecisionCommittedOnce
  BY DEF DecisionInv
<1> QED
  BY <1>1, DecisionInvariant, PTL

(***************************************************************************)
(* A prospect gets at most one mail, of the decision that was committed.   *)
(***************************************************************************)
THEOREM MailFollowsDecision == IntakeSpec => []MailMatchesDecision
<1>1. DecisionInv => MailMatchesDecision
  BY DEF DecisionInv
<1> QED
  BY <1>1, DecisionInvariant, PTL

-----------------------------------------------------------------------------
(***************************************************************************)
(* Duplicates.  A handler that is past the look counts as the engagement   *)
(* it is about to make.  The look finds none only when nothing slipped     *)
(* past, and from then on at most every handler makes one.                 *)
(***************************************************************************)
SlipsBounded(y) ==
  /\ IsFiniteSet(SlippedPast(y))
  /\ Cardinality(SlippedPast(y)) + Cardinality(AboutToCreate(y)) <= Cardinality(AdminProc)

DuplicateInv == DecisionInv /\ \A y \in TaxYear : SlipsBounded(y)

\* There are at most as many handlers past the look as handlers.
LEMMA AboutToCreateFinite ==
  ASSUME NEW y \in TaxYear
  PROVE  /\ IsFiniteSet(AboutToCreate(y))
         /\ Cardinality(AboutToCreate(y)) \in Nat
         /\ Cardinality(AdminProc) \in Nat
         /\ Cardinality(AboutToCreate(y)) <= Cardinality(AdminProc)
<1>1. AboutToCreate(y) \subseteq AdminProc
  BY DEF AboutToCreate
<1> QED
  BY <1>1, IntakeAssumption, FS_Subset, FS_CardinalityType

\* Sets that do not grow stay within the bound.
LEMMA FewerSlips ==
  ASSUME NEW y \in TaxYear, SlipsBounded(y),
         SlippedPast(y)' \subseteq SlippedPast(y), AboutToCreate(y)' \subseteq AboutToCreate(y)
  PROVE  SlipsBounded(y)'
<1>1. /\ IsFiniteSet(SlippedPast(y)')
      /\ Cardinality(SlippedPast(y)') <= Cardinality(SlippedPast(y))
      /\ Cardinality(SlippedPast(y)') \in Nat /\ Cardinality(SlippedPast(y)) \in Nat
  BY FS_Subset, FS_CardinalityType DEF SlipsBounded
<1>2. /\ Cardinality(AboutToCreate(y)') <= Cardinality(AboutToCreate(y))
      /\ Cardinality(AboutToCreate(y)') \in Nat /\ Cardinality(AboutToCreate(y)) \in Nat
  BY AboutToCreateFinite, FS_Subset, FS_CardinalityType
<1>3. Cardinality(AdminProc) \in Nat
  BY AboutToCreateFinite
<1> QED
  BY <1>1, <1>2, <1>3 DEF SlipsBounded

LEMMA DuplicateInit ==
  IntakeInit => DuplicateInv
<1> SUFFICES ASSUME IntakeInit, NEW y \in TaxYear
             PROVE  SlipsBounded(y)
  BY DecisionInit DEF DuplicateInv
<1>1. SlippedPast(y) = {} /\ AboutToCreate(y) = {}
  BY IntakeAssumption DEF IntakeInit, SlippedPast, AboutToCreate
<1> QED
  BY <1>1, FS_EmptySet, AboutToCreateFinite DEF SlipsBounded

LEMMA DuplicateStep ==
  DuplicateInv /\ [IntakeNext]_intakeVars => DuplicateInv'
<1> SUFFICES ASSUME DuplicateInv, [IntakeNext]_intakeVars, NEW y \in TaxYear
             PROVE  SlipsBounded(y)'
  BY DecisionStep DEF DuplicateInv
<1>0. SlipsBounded(y) /\ DecisionInv /\ IntakeTypeInv
  BY DEF DuplicateInv, DecisionInv
<1> USE DEF intakeRowVars
<1>1. ASSUME UNCHANGED <<taxYear, overridden>>,
             \A r \in Request : engagement'[r] = engagement[r] \/ engagement'[r] # "linked",
             \A q \in AdminProc : ipc'[q] = "create" =>
               \/ ipc[q] = "create" /\ job'[q] = job[q]
               \/ job'[q] # [year |-> y, override |-> FALSE]
      PROVE  SlipsBounded(y)'
  <2>1. SlippedPast(y)' \subseteq SlippedPast(y)
    BY <1>1 DEF SlippedPast
  <2>2. AboutToCreate(y)' \subseteq AboutToCreate(y)
    BY <1>1 DEF AboutToCreate
  <2> QED
    BY <1>0, <2>1, <2>2, FewerSlips
<1>2. ASSUME NEW r \in Request, createEngagementRequest(r)
      PROVE  SlipsBounded(y)'
  BY <1>1, <1>2 DEF createEngagementRequest
<1>3. ASSUME NEW p \in AdminProc, IntakeHandler(p)
      PROVE  SlipsBounded(y)'
  <2>0. /\ ipc \in [AdminProc -> {"idle", "invite", "commit", "limit", "send", "look", "create"}]
        /\ job \in [AdminProc -> Job \cup {NULL}]
    BY <1>0 DEF IntakeTypeInv, IntakeTypeOK
  <2>1. CASE createInvitation(p) \/ LimitMail(p) \/ SendMail(p) \/ IntakeFail(p)
    <3>1. \E step \in {"commit", "send", "idle"} : IGoTo(p, step)
      BY <2>1 DEF createInvitation, LimitMail, SendMail, IntakeFail
    <3>2. \A q \in AdminProc : ipc'[q] = "create" => ipc[q] = "create" /\ job'[q] = job[q]
      BY <2>0, <3>1 DEF IGoTo
    <3>3. UNCHANGED <<taxYear, overridden, engagement>>
      BY <2>1 DEF createInvitation, LimitMail, SendMail, IntakeFail
    <3> QED
      BY <1>1, <3>2, <3>3
  <2>2. CASE Decide(p)
    <3>1. IGoTo(p, "limit") \/ IGoTo(p, "idle")
      BY <2>2 DEF Decide
    <3>2. \A q \in AdminProc : ipc'[q] = "create" => ipc[q] = "create" /\ job'[q] = job[q]
      BY <2>0, <3>1 DEF IGoTo
    <3>3. UNCHANGED <<taxYear, overridden>>
      BY <2>2 DEF Decide
    <3>4. \/ engagement' = engagement
          \/ engagement' = [engagement EXCEPT ![job[p].request] = "unlinked"]
      BY <2>2 DEF Decide
    <3>5. \A r \in Request : engagement'[r] = engagement[r] \/ engagement'[r] # "linked"
      BY <1>0, <3>4 DEF IntakeTypeInv, IntakeTypeOK
    <3> QED
      BY <1>1, <3>2, <3>3, <3>5
  <2>3. CASE LookForDuplicates(p)
    <3>1. IGoTo(p, IF findDuplicateEngagements(job[p].year) = {} THEN "create" ELSE "idle")
      BY <2>3 DEF LookForDuplicates
    <3>2. UNCHANGED <<taxYear, overridden, engagement>>
      BY <2>3 DEF LookForDuplicates
    <3>3. CASE findDuplicateEngagements(y) = {}
      <4>1. SlippedPast(y)' = {}
        BY <3>2, <3>3 DEF SlippedPast, findDuplicateEngagements
      <4>2. AboutToCreate(y)' \subseteq AdminProc
        BY DEF AboutToCreate
      <4>3. /\ Cardinality(AboutToCreate(y)') \in Nat
            /\ Cardinality(AboutToCreate(y)') <= Cardinality(AdminProc)
        BY <4>2, IntakeAssumption, FS_Subset, FS_CardinalityType
      <4>4. IsFiniteSet(SlippedPast(y)') /\ Cardinality(SlippedPast(y)') = 0
        BY <4>1, FS_EmptySet
      <4> QED
        BY <4>3, <4>4, AboutToCreateFinite DEF SlipsBounded
    <3>4. CASE findDuplicateEngagements(y) # {}
      <4>1. \A q \in AdminProc : ipc'[q] = "create" =>
              \/ ipc[q] = "create" /\ job'[q] = job[q]
              \/ job'[q] # [year |-> y, override |-> FALSE]
        BY <2>0, <3>1, <3>4 DEF IGoTo
      <4> QED
        BY <1>1, <3>2, <4>1
    <3> QED
      BY <3>3, <3>4
  <2>4. ASSUME NEW step, NEW work, IStart(p, step, work),
               step = "create" => work # [year |-> y, override |-> FALSE]
        PROVE  SlipsBounded(y)'
    BY <1>1, <2>0, <2>4 DEF IStart
  <2>5. ASSUME NEW r \in Request, acceptRequest(p, r) \/ declineRequest(p, r)
        PROVE  SlipsBounded(y)'
    BY <2>4, <2>5 DEF acceptRequest, declineRequest
  <2>6. ASSUME NEW z \in TaxYear, NEW override \in BOOLEAN, initiateEngagement(p, z, override)
        PROVE  SlipsBounded(y)'
    BY <2>4, <2>6 DEF initiateEngagement
  <2>7. ASSUME NEW r \in Request, createAccountantInitiatedEngagement(p, r)
        PROVE  SlipsBounded(y)'
    <3>1. /\ ipc[p] = "create" /\ job[p] \in CreationJob
          /\ engagement' = [engagement EXCEPT ![r] = "linked"]
          /\ taxYear' = [taxYear EXCEPT ![r] = job[p].year]
          /\ overridden' = [overridden EXCEPT ![r] = job[p].override]
          /\ IGoTo(p, "idle")
      BY <1>0, <2>7 DEF createAccountantInitiatedEngagement, IntakeTypeInv, JobFitsStep
    <3>2. engagement[r] = "none"
      BY <1>0, <2>7, UndecidedIsQuiet DEF createAccountantInitiatedEngagement
    <3>3. \A q \in AdminProc : ipc'[q] = "create" => ipc[q] = "create" /\ job'[q] = job[q] /\ q # p
      BY <2>0, <3>1 DEF IGoTo
    <3>4. /\ \A q \in Request \ {r} : /\ engagement'[q] = engagement[q]
                                     /\ taxYear'[q] = taxYear[q]
                                     /\ overridden'[q] = overridden[q]
          /\ taxYear'[r] = job[p].year /\ overridden'[r] = job[p].override
      BY <1>0, <3>1 DEF IntakeTypeInv, IntakeTypeOK
    <3>5. CASE job[p] = [year |-> y, override |-> FALSE]
      <4>1. SlippedPast(y)' \subseteq SlippedPast(y) \cup {r}
        BY <3>4 DEF SlippedPast
      <4>2. p \in AboutToCreate(y) /\ AboutToCreate(y)' \subseteq AboutToCreate(y) \ {p}
        BY <3>1, <3>3, <3>5 DEF AboutToCreate
      <4>3. /\ IsFiniteSet(SlippedPast(y)')
            /\ Cardinality(SlippedPast(y)') \in Nat /\ Cardinality(SlippedPast(y)) \in Nat
            /\ Cardinality(SlippedPast(y)') <= Cardinality(SlippedPast(y)) + 1
        <5>1. IsFiniteSet(SlippedPast(y)) /\ Cardinality(SlippedPast(y)) \in Nat
          BY <1>0, FS_CardinalityType DEF SlipsBounded
        <5>2. /\ IsFiniteSet(SlippedPast(y) \cup {r})
              /\ Cardinality(SlippedPast(y) \cup {r}) <= Cardinality(SlippedPast(y)) + 1
              /\ Cardinality(SlippedPast(y) \cup {r}) \in Nat
          <6>1. /\ IsFiniteSet(SlippedPast(y) \cup {r})
                /\ Cardinality(SlippedPast(y) \cup {r}) =
                     IF r \in SlippedPast(y) THEN Cardinality(SlippedPast(y))
                                             ELSE Cardinality(SlippedPast(y)) + 1
            BY <5>1, FS_AddElement
          <6> QED
            BY <5>1, <6>1
        <5>3. /\ IsFiniteSet(SlippedPast(y)')
              /\ Cardinality(SlippedPast(y)') <= Cardinality(SlippedPast(y) \cup {r})
          BY <4>1, <5>2, FS_Subset
        <5> QED
          BY <5>1, <5>2, <5>3, FS_CardinalityType
      <4>4. /\ Cardinality(AboutToCreate(y)') \in Nat /\ Cardinality(AboutToCreate(y)) \in Nat
            /\ Cardinality(AboutToCreate(y)') <= Cardinality(AboutToCreate(y)) - 1
        <5>1. IsFiniteSet(AboutToCreate(y)) /\ Cardinality(AboutToCreate(y)) \in Nat
          BY AboutToCreateFinite
        <5>2. /\ IsFiniteSet(AboutToCreate(y) \ {p})
              /\ Cardinality(AboutToCreate(y) \ {p}) = Cardinality(AboutToCreate(y)) - 1
          BY <4>2, <5>1, FS_RemoveElement
        <5>3. /\ IsFiniteSet(AboutToCreate(y)')
              /\ Cardinality(AboutToCreate(y)') <= Cardinality(AboutToCreate(y) \ {p})
          BY <4>2, <5>2, FS_Subset
        <5> QED
          BY <5>1, <5>2, <5>3, FS_CardinalityType
      <4> QED
        BY <1>0, <4>3, <4>4, AboutToCreateFinite DEF SlipsBounded
    <3>6. CASE job[p] # [year |-> y, override |-> FALSE]
      <4>1. ~(taxYear'[r] = y /\ overridden'[r] = FALSE)
        BY <3>1, <3>4, <3>6 DEF CreationJob
      <4>2. overridden'[r] \in BOOLEAN
        BY <3>1, <3>4 DEF CreationJob
      <4>3. SlippedPast(y)' \subseteq SlippedPast(y)
        BY <3>4, <4>1, <4>2 DEF SlippedPast
      <4>4. AboutToCreate(y)' \subseteq AboutToCreate(y)
        BY <3>3 DEF AboutToCreate
      <4> QED
        BY <1>0, <4>3, <4>4, FewerSlips
    <3> QED
      BY <3>5, <3>6
  <2> QED
    BY <1>3, <2>1, <2>2, <2>3, <2>5, <2>6, <2>7 DEF IntakeHandler, IntakeContinue
<1>4. ASSUME NEW k \in DOMAIN window, WindowExpires(k)
      PROVE  SlipsBounded(y)'
  BY <1>1, <1>4 DEF WindowExpires
<1>5. CASE UNCHANGED intakeVars
  BY <1>1, <1>5 DEF intakeVars
<1> QED
  BY <1>2, <1>3, <1>4, <1>5 DEF IntakeNext, createReturningClientRequest

(***************************************************************************)
(* However two looks and two insertions interleave, each handler slips at  *)
(* most one engagement of a tax year past the warning.                     *)
(***************************************************************************)
THEOREM DuplicatesBounded == IntakeSpec => []UnwarnedDuplicatesBounded
<1>1. DuplicateInv => UnwarnedDuplicatesBounded
  BY DEF DuplicateInv, SlipsBounded, UnwarnedDuplicatesBounded
<1> QED
  BY <1>1, DuplicateInit, DuplicateStep, PTL DEF IntakeSpec
=============================================================================
