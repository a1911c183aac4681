----------------------------- MODULE Participants -----------------------------
(***************************************************************************)
(* Inviting a participant to an engagement (apps/admin/src/app/            *)
(* engagements/[engagementId]/participants/actions.ts,                     *)
(* addEngagementParticipant of packages/db/src/repositories/               *)
(* engagement-creation.ts): an invitation at the identity provider, a      *)
(* transaction that finds or inserts the User of the address and inserts   *)
(* the EngagementParticipant, and after its commit a second transaction    *)
(* that is called for its audit row.                                       *)
(*                                                                         *)
(* The rows of the first transaction are not visible before its commit, so *)
(* it is two steps: the SELECT of the user, and everything that follows.   *)
(* The sign-up of the invitee writes neither table.                        *)
(***************************************************************************)
EXTENDS Naturals, FiniteSets, Null

CONSTANTS
  Engagement,
  Person,        \* e-mail addresses
  KnownClient,   \* those of a User with role CLIENT to begin with
  Staff,         \* those of a User with role ACCOUNTANT
  InviteProc,    \* invocations of inviteParticipant
  InviteFaulty   \* those that may die between two steps

ASSUME ParticipantsAssumption ==
  /\ KnownClient \cup Staff \subseteq Person
  /\ KnownClient \cap Staff = {}
  /\ InviteFaulty \subseteq InviteProc
  /\ NULL \notin Engagement \cup Person

VARIABLES
  user,              \* role of the User of an address; "stub" is a CLIENT made here
  participant,       \* EngagementParticipant: the addresses of each engagement
  participantAudit,  \* rows of 'engagement.participant_added', by engagement
  invitation,        \* addresses with an invitation at the provider
  npc,               \* the next step of each invocation
  invite,            \* what it works on, NULL when idle
  foundUser          \* did its SELECT find a User?

participantsVars ==
  <<user, participant, participantAudit, invitation, npc, invite, foundUser>>

ParticipantsInit ==
  /\ user = [x \in Person |-> IF x \in KnownClient THEN "client"
                              ELSE IF x \in Staff THEN "accountant" ELSE "none"]
  /\ participant = [e \in Engagement |-> {}]
  /\ participantAudit = [e \in Engagement |-> {}]
  /\ invitation = {}
  /\ npc = [p \in InviteProc |-> "idle"]
  /\ invite = [p \in InviteProc |-> NULL]
  /\ foundUser = [p \in InviteProc |-> FALSE]

NGoTo(p, step) ==
  /\ npc' = [npc EXCEPT ![p] = step]
  /\ invite' = IF step = "idle" THEN [invite EXCEPT ![p] = NULL] ELSE invite

\* The invitation goes out first: a roll-back does not take it back.
inviteParticipant(p, e, x) ==
  /\ npc[p] = "idle"
  /\ invitation' = invitation \cup {x}
  /\ npc' = [npc EXCEPT ![p] = "find"]
  /\ invite' = [invite EXCEPT ![p] = [engagement |-> e, email |-> x]]
  /\ UNCHANGED <<user, participant, participantAudit, foundUser>>

\* A User that is not a CLIENT ends the handler (email_not_client).
FindUser(p) ==
  /\ npc[p] = "find"
  /\ LET role == user[invite[p].email]
     IN  /\ NGoTo(p, IF role = "accountant" THEN "idle" ELSE "link")
         /\ foundUser' = [foundUser EXCEPT ![p] = role \in {"client", "stub"}]
  /\ UNCHANGED <<user, participant, participantAudit, invitation>>

\* Mutant: the User is inserted on the pool, and the transaction may fail.
LinkOutsideTransaction(p) ==
  /\ npc[p] = "link"
  /\ LET e == invite[p].engagement
         x == invite[p].email
     IN  /\ user' = IF foundUser[p] THEN user ELSE [user EXCEPT ![x] = "stub"]
         /\ \/ /\ participant' = [participant EXCEPT ![e] = @ \cup {x}]
               /\ NGoTo(p, "audit")
            \/ /\ NGoTo(p, "idle")
               /\ UNCHANGED participant
  /\ foundUser' = [foundUser EXCEPT ![p] = FALSE]
  /\ UNCHANGED <<participantAudit, invitation>>

(***************************************************************************)
(* User.email is unique: when another invocation inserted the user in the  *)
(* meantime, the INSERT throws and the transaction rolls back.             *)
(***************************************************************************)
LinkInvitee(p) ==
  /\ npc[p] = "link"
  /\ LET e == invite[p].engagement
         x == invite[p].email
     IN  IF ~foundUser[p] /\ user[x] # "none"
         THEN /\ NGoTo(p, "idle")
              /\ UNCHANGED <<user, participant>>
         ELSE /\ user' = IF foundUser[p] THEN user ELSE [user EXCEPT ![x] = "stub"]
              /\ participant' = [participant EXCEPT ![e] = @ \cup {x}]
              /\ NGoTo(p, "audit")
  /\ foundUser' = [foundUser EXCEPT ![p] = FALSE]
  /\ UNCHANGED <<participantAudit, invitation>>

(***************************************************************************)
(* The second transaction: it inserts the participant and audits it only   *)
(* when there is no row.                                                   *)
(***************************************************************************)
addEngagementParticipant(p) ==
  /\ npc[p] = "audit"
  /\ LET e == invite[p].engagement
         x == invite[p].email
     IN  IF x \in participant[e]
         THEN UNCHANGED <<participant, participantAudit>>
         ELSE /\ participant' = [participant EXCEPT ![e] = @ \cup {x}]
              /\ participantAudit' = [participantAudit EXCEPT ![e] = @ \cup {x}]
  /\ NGoTo(p, "idle")
  /\ UNCHANGED <<user, invitation, foundUser>>

\* The handler dies; an open transaction rolls back.
InviteFail(p) ==
  /\ p \in InviteFaulty
  /\ npc[p] # "idle"
  /\ NGoTo(p, "idle")
  /\ foundUser' = [foundUser EXCEPT ![p] = FALSE]
  /\ UNCHANGED <<user, participant, participantAudit, invitation>>

ParticipantsNext ==
  \E p \in InviteProc :
    \/ \E e \in Engagement, x \in Person : inviteParticipant(p, e, x)
    \/ FindUser(p)
    \/ LinkInvitee(p)
    \/ addEngagementParticipant(p)
    \/ InviteFail(p)

ParticipantsSpec == ParticipantsInit /\ [][ParticipantsNext]_participantsVars

-----------------------------------------------------------------------------
(***************************************************************************)
(* Properties.                                                             *)
(***************************************************************************)

\* Every variable of the participants keeps its type.
ParticipantsTypeOK ==
  /\ user \in [Person -> {"none", "client", "stub", "accountant"}]
  /\ participant \in [Engagement -> SUBSET Person]
  /\ participantAudit \in [Engagement -> SUBSET Person]
  /\ invitation \subseteq Person
  /\ npc \in [InviteProc -> {"idle", "find", "link", "audit"}]
  /\ invite \in [InviteProc -> [engagement : Engagement, email : Person] \cup {NULL}]
  /\ foundUser \in [InviteProc -> BOOLEAN]

(***************************************************************************)
(* The user made for an invitee joins the engagement it was made for: no   *)
(* roll-back, crash or lost race leaves a User nobody refers to, and only  *)
(* invited clients participate.                                            *)
(***************************************************************************)
NoOrphanStub ==
  /\ \A x \in Person : user[x] = "stub" => \E e \in Engagement : x \in participant[e]
  /\ \A e \in Engagement : \A x \in participant[e] :
       user[x] \in {"client", "stub"} /\ x \in invitation

(***************************************************************************)
(* What actions.ts says of its last call: "the audit event fires on the    *)
(* first link".  With no handler under way every participant is audited.   *)
(***************************************************************************)
ParticipantAudited ==
  (\A p \in InviteProc : npc[p] = "idle") =>
    \A e \in Engagement : participant[e] \subseteq participantAudit[e]
=============================================================================
