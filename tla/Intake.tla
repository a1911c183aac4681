------------------------------- MODULE Intake -------------------------------
(***************************************************************************)
(* How an engagement begins (packages/db/src/repositories/                 *)
(* engagement-request.ts and engagement-creation.ts, apps/admin/src/app/   *)
(* requests/actions.ts and engagements/new/actions.ts, apps/portal/src/    *)
(* app/(public)/request/actions.ts and engagements/new/actions.ts): a      *)
(* prospect or a returning client submits an EngagementRequest and an      *)
(* accountant accepts or declines it; or the accountant initiates the      *)
(* engagement of a known client, after a look for a duplicate.             *)
(*                                                                         *)
(* A decision is a read of the request, for an acceptance an invitation at *)
(* the identity provider, one transaction, and then, each in a step of its *)
(* own, the rate limiter and the mail.  Nothing retries a mail.            *)
(*                                                                         *)
(* One client is known, and an engagement of a tax year stands for one     *)
(* that shares a service with every other of that year.  The status        *)
(* 'awaiting_review' is left out: no code writes it.  The limiter of the   *)
(* returning client's form only turns a client away, and is left out too.  *)
(***************************************************************************)
EXTENDS Naturals, Sequences, FiniteSets, Null

CONSTANTS
  Request,      \* EngagementRequest ids
  Seeded,       \* those with an engagement of the known client to begin with
  TaxYear,
  AdminProc,    \* handler invocations of the admin application
  AdminFaulty,  \* those that may die between two steps
  MaxAttempts   \* of the rate limiter

ASSUME IntakeAssumption ==
  /\ Seeded \subseteq Request
  /\ IsFiniteSet(AdminProc)
  /\ AdminFaulty \subseteq AdminProc
  /\ MaxAttempts \in Nat
  /\ NULL \notin Request \cup TaxYear

VARIABLES
  requestStatus,  \* EngagementRequest.status, "none" before there is a row
  engagement,     \* its Engagement: none, without a client, or of the client
  taxYear,        \* Engagement.taxYear
  overridden,     \* was the duplicate warning overridden for it?
  announced,      \* requests with an ACCOUNTANT 'new_request' notice
  requestAudit,   \* actions of the AuditEvent rows of a request, in order
  invited,        \* requests whose prospect has an invitation at the provider
  mails,          \* mails sent to the prospect, in order
  told,           \* requests of which the accountant was told: no mail went out
  window,         \* attempts counted in the limiter's current window
  ipc,            \* the next step of each handler invocation
  job             \* what it works on, NULL when idle

intakeRowVars == <<requestStatus, engagement, taxYear, overridden, announced, requestAudit>>
intakeVars == <<intakeRowVars, invited, mails, told, window, ipc, job>>

Decision == {"accepted", "declined"}
MailKey(decision) ==
  IF decision = "accepted" THEN "admin:accept-email" ELSE "admin:decline-email"

Job == [request : Request, decision : Decision] \cup [year : TaxYear, override : BOOLEAN]

IntakeInit ==
  /\ requestStatus = [r \in Request |-> IF r \in Seeded THEN "accepted" ELSE "none"]
  /\ engagement = [r \in Request |-> IF r \in Seeded THEN "linked" ELSE "none"]
  /\ taxYear = [r \in Request |-> NULL]
  /\ overridden = [r \in Request |-> FALSE]
  /\ announced = {}
  /\ requestAudit = [r \in Request |-> <<>>]
  /\ invited = {}
  /\ mails = [r \in Request |-> <<>>]
  /\ told = {}
  /\ window = [k \in {MailKey(d) : d \in Decision} |-> 0]
  /\ ipc = [p \in AdminProc |-> "idle"]
  /\ job = [p \in AdminProc |-> NULL]

IGoTo(p, step) ==
  /\ ipc' = [ipc EXCEPT ![p] = step]
  /\ job' = IF step = "idle" THEN [job EXCEPT ![p] = NULL] ELSE job

IStart(p, step, work) ==
  /\ ipc[p] = "idle"
  /\ ipc' = [ipc EXCEPT ![p] = step]
  /\ job' = [job EXCEPT ![p] = work]
  /\ UNCHANGED <<intakeRowVars, invited, mails, told, window>>

-----------------------------------------------------------------------------
(***************************************************************************)
(* Requests.                                                               *)
(***************************************************************************)

\* One transaction: the request, its services, the accountant's notice.
createEngagementRequest(r) ==
  /\ requestStatus[r] = "none"
  /\ requestStatus' = [requestStatus EXCEPT ![r] = "pending"]
  /\ announced' = announced \cup {r}
  /\ UNCHANGED <<engagement, taxYear, overridden, requestAudit, invited, mails, told,
                 window, ipc, job>>

(***************************************************************************)
(* The contact of a known client is read from the request of an engagement *)
(* that has the client; without one UserContactNotFoundError is thrown.    *)
(***************************************************************************)
resolveCallerContact == \E r \in Request : engagement[r] = "linked"

createReturningClientRequest(r) ==
  /\ resolveCallerContact
  /\ createEngagementRequest(r)

-----------------------------------------------------------------------------
(***************************************************************************)
(* Decisions.  Both handlers find a request whatever its status.           *)
(***************************************************************************)

acceptRequest(p, r) ==
  /\ requestStatus[r] # "none"
  /\ IStart(p, "invite", [request |-> r, decision |-> "accepted"])

declineRequest(p, r) ==
  /\ requestStatus[r] # "none"
  /\ IStart(p, "commit", [request |-> r, decision |-> "declined"])

(***************************************************************************)
(* createInvitation is called inside the transaction but is no part of it. *)
(***************************************************************************)
createInvitation(p) ==
  /\ ipc[p] = "invite"
  /\ invited' = invited \cup {job[p].request}
  /\ IGoTo(p, "commit")
  /\ UNCHANGED <<intakeRowVars, mails, told, window>>

\* Mutant: the UPDATE has no condition on the status.
DecideAgain(p) ==
  /\ ipc[p] = "commit"
  /\ LET r == job[p].request
         d == job[p].decision
     IN  /\ requestStatus' = [requestStatus EXCEPT ![r] = d]
         /\ engagement' = IF d = "accepted" THEN [engagement EXCEPT ![r] = "unlinked"]
                                            ELSE engagement
         /\ requestAudit' = [requestAudit EXCEPT ![r] = Append(@, d)]
         /\ IGoTo(p, "limit")
  /\ UNCHANGED <<taxYear, overridden, announced, invited, mails, told, window>>

\* Mutant: AlreadyDecidedError is caught, and the handler goes on to the mail.
DecideOrGoOn(p) ==
  /\ ipc[p] = "commit"
  /\ LET r == job[p].request
         d == job[p].decision
     IN  /\ IF requestStatus[r] = "pending"
            THEN /\ requestStatus' = [requestStatus EXCEPT ![r] = d]
                 /\ engagement' = IF d = "accepted"
                                  THEN [engagement EXCEPT ![r] = "unlinked"]
                                  ELSE engagement
                 /\ requestAudit' = [requestAudit EXCEPT ![r] = Append(@, d)]
            ELSE UNCHANGED intakeRowVars
         /\ IGoTo(p, "limit")
  /\ UNCHANGED <<taxYear, overridden, announced, invited, mails, told, window>>

(***************************************************************************)
(* acceptEngagementRequest and createEngagement, or                        *)
(* declineEngagementRequest, and the audit row, in one transaction.  The   *)
(* UPDATE asks for an undecided status; when it touches no row             *)
(* AlreadyDecidedError rolls back.  The new engagement has no client, also *)
(* when the request is a returning client's.                               *)
(***************************************************************************)
Decide(p) ==
  /\ ipc[p] = "commit"
  /\ LET r == job[p].request
         d == job[p].decision
     IN  IF requestStatus[r] = "pending"
         THEN /\ requestStatus' = [requestStatus EXCEPT ![r] = d]
              /\ engagement' = IF d = "accepted" THEN [engagement EXCEPT ![r] = "unlinked"]
                                                 ELSE engagement
              /\ requestAudit' = [requestAudit EXCEPT ![r] = Append(@, d)]
              /\ IGoTo(p, "limit")
              /\ UNCHANGED <<taxYear, overridden, announced>>
         ELSE /\ IGoTo(p, "idle")
              /\ UNCHANGED intakeRowVars
  /\ UNCHANGED <<invited, mails, told, window>>

\* Mutant: a refusal ends the handler without a word.
LimitSilently(p) ==
  /\ ipc[p] = "limit"
  /\ LET k == MailKey(job[p].decision)
     IN  /\ window' = [window EXCEPT ![k] = IF @ < MaxAttempts THEN @ + 1 ELSE @]
         /\ IGoTo(p, IF window[k] + 1 < MaxAttempts THEN "send" ELSE "idle")
  /\ UNCHANGED <<intakeRowVars, invited, mails, told>>

(***************************************************************************)
(* consume: an attempt is refused when the window is full, and also when   *)
(* it is the one that fills it.  Before it resolveClientUserIdFromRequest  *)
(* looks for a client to notify and finds none: see Decide.                *)
(***************************************************************************)
LimitMail(p) ==
  /\ ipc[p] = "limit"
  /\ LET k == MailKey(job[p].decision)
     IN  /\ window' = [window EXCEPT ![k] = IF @ < MaxAttempts THEN @ + 1 ELSE @]
         /\ IF window[k] + 1 < MaxAttempts
            THEN /\ IGoTo(p, "send")
                 /\ UNCHANGED told
            ELSE /\ IGoTo(p, "idle")
                 /\ told' = told \cup {job[p].request}
  /\ UNCHANGED <<intakeRowVars, invited, mails>>

\* getOrCreateWindow: once the window is over the next attempt opens another.
WindowExpires(k) ==
  /\ window[k] > 0
  /\ window' = [window EXCEPT ![k] = 0]
  /\ UNCHANGED <<intakeRowVars, invited, mails, told, ipc, job>>

\* The provider may fail before or after it has taken the mail.
SendMail(p) ==
  /\ ipc[p] = "send"
  /\ LET r == job[p].request
     IN  \E taken, failed \in BOOLEAN :
           /\ taken \/ failed
           /\ mails' = IF taken THEN [mails EXCEPT ![r] = Append(@, job[p].decision)]
                                ELSE mails
           /\ told' = IF failed THEN told \cup {r} ELSE told
  /\ IGoTo(p, "idle")
  /\ UNCHANGED <<intakeRowVars, invited, window>>

-----------------------------------------------------------------------------
(***************************************************************************)
(* Engagements that the accountant initiates for the known client.         *)
(***************************************************************************)

\* A second call with override = TRUE follows the duplicate warning.
initiateEngagement(p, y, override) ==
  IStart(p, IF override THEN "create" ELSE "look", [year |-> y, override |-> override])

\* Mutant: the query compares the status with that of a request.
NoDuplicateFound(y) == {}

\* An engagement without a client or without a tax year matches nothing.
findDuplicateEngagements(y) ==
  {r \in Request : engagement[r] = "linked" /\ taxYear[r] = y}

\* Read on the pool, before the transaction of the next step begins.
LookForDuplicates(p) ==
  /\ ipc[p] = "look"
  /\ IGoTo(p, IF findDuplicateEngagements(job[p].year) = {} THEN "create" ELSE "idle")
  /\ UNCHANGED <<intakeRowVars, invited, mails, told, window>>

(***************************************************************************)
(* One transaction: an accepted request, the engagement with its client,   *)
(* the client as participant, the audit row.                               *)
(***************************************************************************)
createAccountantInitiatedEngagement(p, r) ==
  /\ ipc[p] = "create"
  /\ resolveCallerContact
  /\ requestStatus[r] = "none"
  /\ requestStatus' = [requestStatus EXCEPT ![r] = "accepted"]
  /\ engagement' = [engagement EXCEPT ![r] = "linked"]
  /\ taxYear' = [taxYear EXCEPT ![r] = job[p].year]
  /\ overridden' = [overridden EXCEPT ![r] = job[p].override]
  /\ requestAudit' = [requestAudit EXCEPT ![r] = Append(@, "created")]
  /\ IGoTo(p, "idle")
  /\ UNCHANGED <<announced, invited, mails, told, window>>

-----------------------------------------------------------------------------
(***************************************************************************)
(* A handler dies or a statement of it throws; an open transaction rolls   *)
(* back.  Creating an engagement throws also without any fault, when there *)
(* is no contact or a service id is unknown.                               *)
(***************************************************************************)
IntakeFail(p) ==
  /\ ipc[p] # "idle"
  /\ \/ p \in AdminFaulty
     \/ ipc[p] = "create"
  /\ IGoTo(p, "idle")
  /\ UNCHANGED <<intakeRowVars, invited, mails, told, window>>

IntakeContinue(p) ==
  \/ createInvitation(p)
  \/ Decide(p)
  \/ LimitMail(p)
  \/ SendMail(p)
  \/ LookForDuplicates(p)

IntakeHandler(p) ==
  \/ IntakeContinue(p)
  \/ IntakeFail(p)
  \/ \E r \in Request : \/ acceptRequest(p, r)
                        \/ declineRequest(p, r)
                        \/ createAccountantInitiatedEngagement(p, r)
  \/ \E y \in TaxYear, override \in BOOLEAN : initiateEngagement(p, y, override)

IntakeNext ==
  \/ \E r \in Request : createEngagementRequest(r) \/ createReturningClientRequest(r)
  \/ \E p \in AdminProc : IntakeHandler(p)
  \/ \E k \in DOMAIN window : WindowExpires(k)

IntakeSpec == IntakeInit /\ [][IntakeNext]_intakeVars

\* A handler that cannot die goes on: Node runs it to its end.
IntakeFairness == \A p \in AdminProc \ AdminFaulty : WF_intakeVars(IntakeContinue(p))

-----------------------------------------------------------------------------
(***************************************************************************)
(* Properties.                                                             *)
(***************************************************************************)

\* Every variable of intake keeps its type.
IntakeTypeOK ==
  /\ requestStatus \in [Request -> {"none", "pending", "accepted", "declined"}]
  /\ engagement \in [Request -> {"none", "unlinked", "linked"}]
  /\ taxYear \in [Request -> TaxYear \cup {NULL}]
  /\ overridden \in [Request -> BOOLEAN]
  /\ announced \subseteq Request
  /\ requestAudit \in [Request -> Seq(Decision \cup {"created"})]
  /\ invited \subseteq Request
  /\ mails \in [Request -> Seq(Decision)]
  /\ told \subseteq Request
  /\ window \in [{MailKey(d) : d \in Decision} -> 0 .. MaxAttempts]
  /\ ipc \in [AdminProc -> {"idle", "invite", "commit", "limit", "send", "look", "create"}]
  /\ job \in [AdminProc -> Job \cup {NULL}]

(***************************************************************************)
(* A request is decided once (AC-DOOR-006-05): however many accountants    *)
(* accept and decline it at a time, its status, its audit rows and its     *)
(* engagement tell the same decision, and before it there is neither an    *)
(* audit row nor an engagement.                                            *)
(***************************************************************************)
DecidedOnce(r) ==
  \/ /\ requestStatus[r] \in {"none", "pending"}
     /\ requestAudit[r] = <<>>
     /\ engagement[r] = "none"
  \/ /\ requestStatus[r] = "accepted"
     /\ \/ requestAudit[r] = <<"accepted">> /\ engagement[r] = "unlinked"
        \/ requestAudit[r] = <<"created">>  /\ engagement[r] = "linked"
        \/ r \in Seeded /\ requestAudit[r] = <<>> /\ engagement[r] = "linked"
  \/ /\ requestStatus[r] = "declined"
     /\ requestAudit[r] = <<"declined">>
     /\ engagement[r] = "none"

DecisionCommittedOnce == \A r \in Request : DecidedOnce(r)

(***************************************************************************)
(* A prospect gets at most one mail, and it is of the decision that was    *)
(* committed: the mail is sent long after the transaction, by handlers     *)
(* that may have lost.  An engagement the accountant initiates mails       *)
(* nobody, and an invitation that is mailed exists at the provider.        *)
(***************************************************************************)
MailMatchesDecision ==
  \A r \in Request :
    \/ mails[r] = <<>>
    \/ /\ mails[r] = <<requestStatus[r]>>
       /\ requestAudit[r] = mails[r]
       /\ requestStatus[r] = "accepted" => r \in invited

(***************************************************************************)
(* The look for a duplicate and the insertion are separate, so two         *)
(* handlers may both find none.  But each handler slips at most one        *)
(* engagement of a tax year past the warning.                              *)
(***************************************************************************)
SlippedPast(y) ==
  {r \in Request : engagement[r] = "linked" /\ taxYear[r] = y /\ ~overridden[r]}

AboutToCreate(y) ==
  {p \in AdminProc : ipc[p] = "create" /\ job[p] = [year |-> y, override |-> FALSE]}

UnwarnedDuplicatesBounded ==
  \A y \in TaxYear :
    Cardinality(SlippedPast(y)) + Cardinality(AboutToCreate(y)) <= Cardinality(AdminProc)

(***************************************************************************)
(* A decision that is committed by a handler that survives reaches the     *)
(* prospect by mail, or the accountant is told that it did not.            *)
(***************************************************************************)
DecidedProspectHears ==
  \A p \in AdminProc \ AdminFaulty, r \in Request \ Seeded :
    ipc[p] = "limit" /\ job[p].request = r ~> mails[r] # <<>> \/ r \in told
=============================================================================
