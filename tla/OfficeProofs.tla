----------------------------- MODULE OfficeProofs -----------------------------
(***************************************************************************)
(* What the components of the office guarantee for every value of their    *)
(* constants: one section per component with its inductive invariant, and  *)
(* the theorems about all of them together at the end.                     *)
(***************************************************************************)
EXTENDS MCOffice, PagesProofs, TLAPS

-----------------------------------------------------------------------------
(***************************************************************************)
(* The participants.  A user made for an invitee joins an engagement, and  *)
(* what the second transaction is called for never happens.                *)
(***************************************************************************)
Invite == [engagement : Engagement, email : Person]
Inviting(p) == npc[p] \in {"find", "link", "audit"}

(***************************************************************************)
(* What an invocation knows at each of its steps.  The role of a User that *)
(* is a client never changes, so that what its SELECT found is still so    *)
(* when it inserts; and the participant is there before the second         *)
(* transaction looks for him.                                              *)
(***************************************************************************)
InviteInv ==
  \A p \in InviteProc :
    /\ Inviting(p) => invite[p] \in Invite /\ invite[p].email \in invitation
    /\ npc[p] = "link" /\ foundUser[p] => user[invite[p].email] \in {"client", "stub"}
    /\ npc[p] = "audit" => invite[p].email \in participant[invite[p].engagement]

ParticipantsInv == ParticipantsTypeOK /\ InviteInv /\ NoOrphanStub

LEMMA ParticipantsInitInv ==
  ParticipantsInit => ParticipantsInv
BY ParticipantsAssumption
   DEF ParticipantsInit, ParticipantsInv, ParticipantsTypeOK, InviteInv, NoOrphanStub, Inviting

\* An invocation ends or goes on, and no other is disturbed.
LEMMA NGoToSteps ==
  ASSUME ParticipantsTypeOK, NEW p \in InviteProc,
         NEW step \in {"idle", "find", "link", "audit"}, NGoTo(p, step)
  PROVE  /\ npc' \in [InviteProc -> {"idle", "find", "link", "audit"}]
         /\ invite' \in [InviteProc -> Invite \cup {NULL}]
         /\ npc'[p] = step
         /\ step # "idle" => invite' = invite
         /\ \A q \in InviteProc \ {p} : npc'[q] = npc[q] /\ invite'[q] = invite[q]
BY DEF ParticipantsTypeOK, NGoTo, Invite

LEMMA ParticipantsStep ==
  ParticipantsInv /\ [ParticipantsNext]_participantsVars => ParticipantsInv'
<1> SUFFICES ASSUME ParticipantsInv, [ParticipantsNext]_participantsVars
             PROVE  ParticipantsInv'
  OBVIOUS
<1>0. ParticipantsTypeOK /\ InviteInv /\ NoOrphanStub
  BY DEF ParticipantsInv
<1>1. ASSUME NEW p \in InviteProc, NEW e \in Engagement, NEW x \in Person,
             inviteParticipant(p, e, x)
      PROVE  ParticipantsInv'
  <2>1. ParticipantsTypeOK'
    BY <1>0, <1>1 DEF inviteParticipant, ParticipantsTypeOK
  <2>2. InviteInv'
    BY <1>0, <1>1 DEF inviteParticipant, ParticipantsTypeOK, InviteInv, Inviting, Invite
  <2>3. NoOrphanStub'
    BY <1>0, <1>1 DEF inviteParticipant, NoOrphanStub
  <2> QED
    BY <2>1, <2>2, <2>3 DEF ParticipantsInv
<1>2. ASSUME NEW p \in InviteProc, FindUser(p) \/ InviteFail(p)
      PROVE  ParticipantsInv'
  <2>1. PICK step \in {"idle", "link"} : NGoTo(p, step)
    BY <1>2 DEF FindUser, InviteFail
  <2>2. /\ npc' \in [InviteProc -> {"idle", "find", "link", "audit"}]
        /\ invite' \in [InviteProc -> Invite \cup {NULL}]
        /\ npc'[p] = step
        /\ step # "idle" => invite' = invite
        /\ \A q \in InviteProc \ {p} : npc'[q] = npc[q] /\ invite'[q] = invite[q]
    BY <1>0, <2>1, NGoToSteps
  <2>3. UNCHANGED <<user, participant, participantAudit, invitation>>
    BY <1>2 DEF FindUser, InviteFail
  <2>4. /\ foundUser' \in [InviteProc -> BOOLEAN]
        /\ \A q \in InviteProc \ {p} : foundUser'[q] = foundUser[q]
    <3>1. PICK b \in BOOLEAN : foundUser' = [foundUser EXCEPT ![p] = b]
      <4>1. CASE FindUser(p)
        <5>1. foundUser' = [foundUser EXCEPT ![p] = user[invite[p].email] \in {"client", "stub"}]
          BY <4>1 DEF FindUser
        <5>2. (user[invite[p].email] \in {"client", "stub"}) \in BOOLEAN
          OBVIOUS
        <5> QED
          BY <5>1, <5>2, Zenon
      <4>2. CASE InviteFail(p)
        BY <4>2 DEF InviteFail
      <4> QED
        BY <1>2, <4>1, <4>2
    <3> QED
      BY <1>0, <3>1 DEF ParticipantsTypeOK
  <2>5. ParticipantsTypeOK'
    BY <1>0, <2>2, <2>3, <2>4 DEF ParticipantsTypeOK, Invite
  <2>6. npc'[p] = "link" => /\ npc[p] = "find"
                            /\ foundUser'[p] => user[invite[p].email] \in {"client", "stub"}
    <3>1. CASE FindUser(p)
      BY <1>0, <3>1 DEF FindUser, ParticipantsTypeOK
    <3>2. CASE InviteFail(p)
      BY <1>0, <3>2 DEF InviteFail, NGoTo, ParticipantsTypeOK
    <3> QED
      BY <1>2, <3>1, <3>2
  <2>7. InviteInv'
    <3> SUFFICES ASSUME NEW q \in InviteProc
                 PROVE  /\ Inviting(q)' => invite'[q] \in Invite /\ invite'[q].email \in invitation'
                        /\ npc'[q] = "link" /\ foundUser'[q] =>
                             user'[invite'[q].email] \in {"client", "stub"}
                        /\ npc'[q] = "audit" =>
                             invite'[q].email \in participant'[invite'[q].engagement]
      BY DEF InviteInv
    <3>1. CASE q = p
      BY <1>0, <2>2, <2>3, <2>6, <3>1 DEF InviteInv, Inviting
    <3>2. CASE q # p
      BY <1>0, <2>2, <2>3, <2>4, <3>2 DEF InviteInv, Inviting
    <3> QED
      BY <3>1, <3>2
  <2> QED
    BY <1>0, <2>3, <2>5, <2>7 DEF ParticipantsInv, NoOrphanStub
<1>3. ASSUME NEW p \in InviteProc, LinkInvitee(p)
      PROVE  ParticipantsInv'
  <2>0. PICK e \in Engagement, x \in Person :
          /\ invite[p] \in Invite
          /\ invite[p].engagement = e /\ invite[p].email = x /\ x \in invitation
          /\ foundUser[p] => user[x] \in {"client", "stub"}
    BY <1>0, <1>3 DEF LinkInvitee, InviteInv, Inviting, Invite
  <2>1. PICK step \in {"idle", "audit"} : NGoTo(p, step)
    BY <1>3 DEF LinkInvitee
  <2>2. /\ npc' \in [InviteProc -> {"idle", "find", "link", "audit"}]
        /\ invite' \in [InviteProc -> Invite \cup {NULL}]
        /\ npc'[p] = step
        /\ step # "idle" => invite' = invite
        /\ \A q \in InviteProc \ {p} : npc'[q] = npc[q] /\ invite'[q] = invite[q]
    BY <1>0, <2>1, NGoToSteps
  <2>3. /\ UNCHANGED <<participantAudit, invitation>>
        /\ foundUser' \in [InviteProc -> BOOLEAN]
        /\ \A q \in InviteProc \ {p} : foundUser'[q] = foundUser[q]
    BY <1>0, <1>3 DEF LinkInvitee, ParticipantsTypeOK
  <2>4. CASE UNCHANGED <<user, participant>> /\ step = "idle"
    BY <1>0, <2>2, <2>3, <2>4
       DEF ParticipantsInv, ParticipantsTypeOK, InviteInv, Inviting, NoOrphanStub, Invite
  <2>5. CASE /\ foundUser[p] \/ user[x] = "none"
             /\ user' = IF foundUser[p] THEN user ELSE [user EXCEPT ![x] = "stub"]
             /\ participant' = [participant EXCEPT ![e] = @ \cup {x}]
    <3>1. /\ user' \in [Person -> {"none", "client", "stub", "accountant"}]
          /\ user'[x] \in {"client", "stub"}
          /\ \A y \in Person \ {x} : user'[y] = user[y]
          /\ \A y \in Person : user[y] \in {"client", "stub"} => user'[y] \in {"client", "stub"}
      BY <1>0, <2>0, <2>5 DEF ParticipantsTypeOK
    <3>2. /\ participant' \in [Engagement -> SUBSET Person]
          /\ \A f \in Engagement : participant[f] \subseteq participant'[f]
          /\ \A f \in Engagement \ {e} : participant'[f] = participant[f]
          /\ participant'[e] = participant[e] \cup {x}
      BY <1>0, <2>5 DEF ParticipantsTypeOK
    <3>3. ParticipantsTypeOK'
      BY <1>0, <2>2, <2>3, <3>1, <3>2 DEF ParticipantsTypeOK, Invite
    <3>4. InviteInv'
      <4> SUFFICES ASSUME NEW q \in InviteProc
                   PROVE  /\ Inviting(q)' => invite'[q] \in Invite /\ invite'[q].email \in invitation'
                          /\ npc'[q] = "link" /\ foundUser'[q] =>
                               user'[invite'[q].email] \in {"client", "stub"}
                          /\ npc'[q] = "audit" =>
                               invite'[q].email \in participant'[invite'[q].engagement]
        BY DEF InviteInv
      <4>1. CASE q = p
        <5>1. npc'[p] # "link" /\ invitation' = invitation /\ x \in participant'[e]
          BY <2>2, <2>3, <3>2
        <5>2. Inviting(p)' => invite'[p] = invite[p]
          BY <2>2 DEF Inviting
        <5> QED
          BY <2>0, <4>1, <5>1, <5>2 DEF Inviting
      <4>2. CASE q # p
        <5>1. /\ npc'[q] = npc[q] /\ invite'[q] = invite[q] /\ foundUser'[q] = foundUser[q]
              /\ invitation' = invitation
          BY <2>2, <2>3, <4>2
        <5>2. Inviting(q) => /\ invite[q] \in Invite /\ invite[q].email \in invitation
                         /\ invite[q].email \in Person /\ invite[q].engagement \in Engagement
          BY <1>0 DEF InviteInv, Invite
        <5> QED
          BY <1>0, <3>1, <3>2, <5>1, <5>2 DEF InviteInv, Inviting
      <4> QED
        BY <4>1, <4>2
    <3>5. NoOrphanStub'
      BY <1>0, <2>0, <2>3, <3>1, <3>2 DEF NoOrphanStub
    <3> QED
      BY <3>3, <3>4, <3>5 DEF ParticipantsInv
  <2> QED
    BY <1>3, <2>0, <2>1, <2>2, <2>4, <2>5 DEF LinkInvitee, NGoTo
<1>4. ASSUME NEW p \in InviteProc, addEngagementParticipant(p)
      PROVE  ParticipantsInv'
  <2>1. NGoTo(p, "idle") /\ UNCHANGED <<user, invitation, foundUser>>
    BY <1>4 DEF addEngagementParticipant
  <2>2. UNCHANGED <<participant, participantAudit>>
    BY <1>0, <1>4 DEF addEngagementParticipant, InviteInv
  <2>3. /\ npc' \in [InviteProc -> {"idle", "find", "link", "audit"}]
        /\ invite' \in [InviteProc -> Invite \cup {NULL}]
        /\ npc'[p] = "idle"
        /\ \A q \in InviteProc \ {p} : npc'[q] = npc[q] /\ invite'[q] = invite[q]
    BY <1>0, <2>1, NGoToSteps
  <2> QED
    BY <1>0, <2>1, <2>2, <2>3
       DEF ParticipantsInv, ParticipantsTypeOK, InviteInv, Inviting, NoOrphanStub, Invite
<1>5. CASE UNCHANGED participantsVars
  BY <1>0, <1>5
     DEF participantsVars, ParticipantsInv, ParticipantsTypeOK, InviteInv, Inviting, NoOrphanStub
<1> QED
  BY <1>1, <1>2, <1>3, <1>4, <1>5 DEF ParticipantsNext

LEMMA ParticipantsInvariant == ParticipantsSpec => []ParticipantsInv
BY ParticipantsInitInv, ParticipantsStep, PTL DEF ParticipantsSpec

(***************************************************************************)
(* Whatever fails or races, a user made for an invitee participates in an  *)
(* engagement, and only invited clients participate.                       *)
(***************************************************************************)
THEOREM StubsParticipate == ParticipantsSpec => []NoOrphanStub
<1>1. ParticipantsInv => NoOrphanStub
  BY DEF ParticipantsInv
<1> QED
  BY <1>1, ParticipantsInvariant, PTL

-----------------------------------------------------------------------------
\* No row of 'engagement.participant_added'.
NothingAudited == participantAudit = [e \in Engagement |-> {}]

(***************************************************************************)
(* The call made for the audit row never writes one, however many          *)
(* invitations interleave: the row it would add is always there already.   *)
(* So every participant is one that ParticipantAudited misses.             *)
(***************************************************************************)
THEOREM ParticipantsNeverAudited == ParticipantsSpec => []NothingAudited
<1>1. ParticipantsInit => NothingAudited
  BY DEF ParticipantsInit, NothingAudited
<1>2. NothingAudited /\ ParticipantsInv /\ [ParticipantsNext]_participantsVars => NothingAudited'
  <2> SUFFICES ASSUME NothingAudited, ParticipantsInv, [ParticipantsNext]_participantsVars
               PROVE  participantAudit' = participantAudit
    BY DEF NothingAudited
  <2>1. ASSUME NEW p \in InviteProc, addEngagementParticipant(p)
        PROVE  participantAudit' = participantAudit
    BY <2>1 DEF addEngagementParticipant, ParticipantsInv, InviteInv
  <2> QED
    BY <2>1 DEF ParticipantsNext, inviteParticipant, FindUser, LinkInvitee, InviteFail,
       participantsVars
<1> QED
  BY <1>1, <1>2, ParticipantsInvariant, PTL DEF ParticipantsSpec

-----------------------------------------------------------------------------
(***************************************************************************)
(* The policies.  They agree in every state, whoever owns and participates *)
(* in what: that a row and the row it is part of are seen together depends *)
(* on their predicates only, taken table by table.                         *)
(***************************************************************************)
LEMMA RowPoliciesInitType == RowPoliciesInit => RowPoliciesTypeOK
<1> SUFFICES ASSUME RowPoliciesInit PROVE RowPoliciesTypeOK
  OBVIOUS
<1>1. \A e \in {x \in Case : owner[x] # NULL} : e \in Case /\ owner[e] \in ClientUser
  BY DEF RowPoliciesInit
<1>2. party \subseteq Case \X ClientUser
  BY <1>1 DEF RowPoliciesInit
<1> QED
  BY <1>2 DEF RowPoliciesInit, RowPoliciesTypeOK

LEMMA RowPoliciesStepType ==
  RowPoliciesTypeOK /\ [RowPoliciesNext]_rowPoliciesVars => RowPoliciesTypeOK'
<1> SUFFICES ASSUME RowPoliciesTypeOK, [RowPoliciesNext]_rowPoliciesVars
             PROVE  RowPoliciesTypeOK'
  OBVIOUS
<1>1. ASSUME NEW e \in Case, NEW u \in ClientUser, AddParty(e, u) PROVE RowPoliciesTypeOK'
  BY <1>1 DEF RowPoliciesTypeOK, AddParty
<1>2. ASSUME NEW e \in Case,
             insertPendingDocument(e) \/ softDeleteDocument(e) \/ restoreDocument(e)
      PROVE  RowPoliciesTypeOK'
  BY <1>2 DEF RowPoliciesTypeOK, insertPendingDocument, softDeleteDocument, restoreDocument
<1>3. ASSUME NEW x \in Case \cup ClientUser, AddThread(x) PROVE RowPoliciesTypeOK'
  BY <1>3 DEF RowPoliciesTypeOK, AddThread
<1>4. CASE UNCHANGED rowPoliciesVars
  BY <1>4 DEF RowPoliciesTypeOK, rowPoliciesVars
<1> QED
  BY <1>1, <1>2, <1>3, <1>4 DEF RowPoliciesNext

\* The rows that are part of another.
LEMMA RowsWithAParent ==
  ASSUME NEW r \in Stored, Parent(r) # NULL
  PROVE  \/ r.table \in {"Folder", "DocumentRequest", "QuestionnaireAnswer", "Document",
                         "DocumentVersion"} /\ r.of \in Case
         \/ r.table = "Thread" /\ r.of \in opened \cap Case
         \/ r.table \in {"Message", "MessageAttachment"} /\ r.of \in opened
BY DEF Stored, Parent, RowOf, ParentTable, CaseTables, ThreadTables

LEMMA PoliciesAlwaysAgree == RowPoliciesTypeOK => PoliciesAgree
<1> SUFFICES ASSUME RowPoliciesTypeOK, NEW s \in Session, NEW r \in Stored, Parent(r) # NULL
             PROVE  /\ MaySee(s, r) => MaySee(s, Parent(r))
                    /\ r.of \in Case /\ Owns(s, r.of) =>
                         \/ MaySee(s, r)
                         \/ r.table \in {"Document", "DocumentVersion"} /\ paper[r.of] = "deleted"
  BY DEF PoliciesAgree
<1>1. CASE r.table \in {"Folder", "DocumentRequest", "QuestionnaireAnswer", "Document"}
  <2>1. r.of \in Case /\ Parent(r) = RowOf("Engagement", r.of)
    BY <1>1, RowsWithAParent DEF Parent, ParentTable
  <2>2. MaySee(s, Parent(r)) <=> fn_engagement_access(s, r.of)
    BY <2>1 DEF MaySee, RowOf
  <2> QED
    BY <1>1, <2>1, <2>2 DEF MaySee, fn_engagement_access, fn_folder_access,
       fn_document_request_access, fn_questionnaire_answer_access, fn_document_access
<1>2. CASE r.table = "DocumentVersion"
  <2>1. r.of \in Case /\ Parent(r) = RowOf("Document", r.of)
    BY <1>2, RowsWithAParent DEF Parent, ParentTable
  <2>2. MaySee(s, Parent(r)) <=> fn_document_access(s, r.of)
    BY <2>1 DEF MaySee, RowOf
  <2> QED
    BY <1>2, <2>1, <2>2 DEF MaySee, fn_document_access, fn_document_version_access
<1>3. CASE r.table = "Thread"
  <2>1. r.of \in Case /\ Parent(r) = RowOf("Engagement", r.of)
    BY <1>3, RowsWithAParent DEF Parent
  <2>2. MaySee(s, Parent(r)) <=> fn_engagement_access(s, r.of)
    BY <2>1 DEF MaySee, RowOf
  <2>3. r.of = s => s = Accountant
    BY <2>1, RowPoliciesAssumption DEF Session
  <2> QED
    BY <1>3, <2>1, <2>2, <2>3 DEF MaySee, fn_engagement_access, fn_thread_access
<1>4. CASE r.table = "Message"
  <2>1. Parent(r) = RowOf("Thread", r.of)
    BY <1>4 DEF Parent, ParentTable
  <2>2. MaySee(s, Parent(r)) <=> fn_thread_access(s, r.of)
    BY <2>1 DEF MaySee, RowOf
  <2> QED
    BY <1>4, <2>1, <2>2 DEF MaySee, fn_thread_access, fn_message_access
<1>5. CASE r.table = "MessageAttachment"
  <2>1. Parent(r) = RowOf("Message", r.of)
    BY <1>5 DEF Parent, ParentTable
  <2>2. MaySee(s, Parent(r)) <=> fn_message_access(s, r.of)
    BY <2>1 DEF MaySee, RowOf
  <2> QED
    BY <1>5, <2>1, <2>2 DEF MaySee, fn_message_access, fn_message_attachment_access
<1> QED
  BY <1>1, <1>2, <1>3, <1>4, <1>5, RowsWithAParent

-----------------------------------------------------------------------------
(***************************************************************************)
(* The catalogue.  A call that is under way names a service that exists,   *)
(* since rows are never deleted; no edit touches what a deactivation set.  *)
(***************************************************************************)
ServiceRow == [text : ServiceText, active : BOOLEAN]
Rows == UNION {[S -> ServiceRow] : S \in SUBSET Service}
ServiceForm == [kind : {"none", "add", "edit"}, service : Service \cup {NULL},
                text : ServiceText \cup {NULL}]
ServiceCall == [kind : {"add", "edit", "deactivate"}, service : Service \cup {NULL},
                text : ServiceText \cup {NULL}]
ServicesPage == [rows : Rows, form : ServiceForm, call : ServiceCall \cup {NULL}]

\* What a form or a call is about is there.
OfCatalog(c) ==
  /\ c.kind # "none" /\ c.kind # "deactivate" => c.text \in ServiceText
  /\ c.kind \in {"edit", "deactivate"} => c.service \in DOMAIN catalog

PageOK(t) ==
  listed[t] # NULL =>
    /\ DOMAIN listed[t].rows \subseteq DOMAIN catalog
    /\ OfCatalog(listed[t].form)
    /\ listed[t].call # NULL => OfCatalog(listed[t].call)

ServicesInv ==
  /\ catalog \in Rows
  /\ listed \in [ServiceTab -> ServicesPage \cup {NULL}]
  /\ \A t \in ServiceTab : PageOK(t)
  /\ calls \in 0 .. MaxCalls
  /\ retired \subseteq Service
  /\ RetiredStaysRetired

LEMMA ServicesInitInv == ServicesInit => ServicesInv
<1> SUFFICES ASSUME ServicesInit PROVE ServicesInv
  OBVIOUS
<1>1. (CHOOSE x \in ServiceText : TRUE) \in ServiceText
  BY ServicesAssumption
<1>2. catalog \in [SeededService -> ServiceRow]
  BY <1>1 DEF ServicesInit, ServiceRow
<1>3. catalog \in Rows
  BY <1>2, ServicesAssumption DEF Rows
<1> QED
  BY <1>3, ServicesAssumption DEF ServicesInit, ServicesInv, PageOK, RetiredStaysRetired

\* A tab's page changes; what the row of a service was, it keeps.
LEMMA PageStep ==
  ASSUME ServicesInv, NEW t \in ServiceTab, NEW pg \in ServicesPage \cup {NULL},
         listed' = [listed EXCEPT ![t] = pg],
         UNCHANGED <<catalog, retired>>, calls' \in 0 .. MaxCalls,
         pg # NULL => /\ DOMAIN pg.rows \subseteq DOMAIN catalog
                      /\ OfCatalog(pg.form)
                      /\ pg.call # NULL => OfCatalog(pg.call)
  PROVE  ServicesInv'
<1>1. listed' \in [ServiceTab -> ServicesPage \cup {NULL}]
  BY DEF ServicesInv
<1>2. ASSUME NEW u \in ServiceTab PROVE PageOK(u)'
  <2>1. CASE u = t
    BY <2>1 DEF ServicesInv, PageOK, OfCatalog
  <2>2. CASE u # t
    BY <2>2 DEF ServicesInv, PageOK, OfCatalog
  <2> QED
    BY <2>1, <2>2
<1> QED
  BY <1>1, <1>2 DEF ServicesInv, RetiredStaysRetired

\* Rows are added and changed, never deleted, and none is made active again.
LEMMA CatalogStep ==
  ASSUME ServicesInv, NEW t \in ServiceTab, NEW pg \in ServicesPage,
         listed' = [listed EXCEPT ![t] = pg], UNCHANGED calls,
         catalog' \in Rows, DOMAIN catalog \subseteq DOMAIN catalog',
         retired' \subseteq Service,
         RetiredStaysRetired',
         pg.rows = catalog', OfCatalog(pg.form), pg.call = NULL
  PROVE  ServicesInv'
<1>1. listed' \in [ServiceTab -> ServicesPage \cup {NULL}]
  BY DEF ServicesInv
<1>2. ASSUME NEW u \in ServiceTab PROVE PageOK(u)'
  <2>1. CASE u = t
    BY <2>1 DEF ServicesInv, PageOK, OfCatalog
  <2>2. CASE u # t
    BY <2>2 DEF ServicesInv, PageOK, OfCatalog
  <2> QED
    BY <2>1, <2>2
<1> QED
  BY <1>1, <1>2 DEF ServicesInv

LEMMA ServicesStep == ServicesInv /\ [ServicesNext]_servicesVars => ServicesInv'
<1> SUFFICES ASSUME ServicesInv, [ServicesNext]_servicesVars PROVE ServicesInv'
  OBVIOUS
<1>0. Closed \in ServiceForm /\ catalog \in Rows
  BY DEF Closed, ServiceForm, ServicesInv
<1>a. ASSUME NEW t \in ServiceTab, listed[t] # NULL
      PROVE  /\ listed[t] \in ServicesPage
             /\ DOMAIN listed[t].rows \subseteq DOMAIN catalog
             /\ OfCatalog(listed[t].form)
             /\ listed[t].call # NULL => OfCatalog(listed[t].call)
  BY <1>a DEF ServicesInv, PageOK
<1>1. ASSUME NEW t \in ServiceTab, OpenServicesPage(t) PROVE ServicesInv'
  <2> DEFINE pg == [rows |-> catalog, form |-> Closed, call |-> NULL]
  <2>1. pg \in ServicesPage /\ OfCatalog(Closed)
    BY <1>0 DEF ServicesPage, OfCatalog, Closed
  <2> QED
    BY <1>1, <2>1, PageStep DEF OpenServicesPage, ServicesInv
<1>2. ASSUME NEW t \in ServiceTab, NEW newForm \in ServiceForm, OfCatalog(newForm), listed[t] # NULL,
             listed' = [listed EXCEPT ![t].form = newForm], UNCHANGED <<catalog, calls, retired>>
      PROVE  ServicesInv'
  <2> DEFINE pg == [listed[t] EXCEPT !.form = newForm]
  <2>1. pg \in ServicesPage
    BY <1>a, <1>2 DEF ServicesPage
  <2>2. /\ pg.rows = listed[t].rows /\ pg.form = newForm /\ pg.call = listed[t].call
        /\ listed' = [listed EXCEPT ![t] = pg]
    BY <1>a, <1>2 DEF ServicesPage
  <2> HIDE DEF pg
  <2> QED
    BY <1>a, <1>2, <2>1, <2>2, PageStep DEF ServicesInv
<1>3. ASSUME NEW t \in ServiceTab, ClickAdd(t) PROVE ServicesInv'
  <2>1. PICK x \in ServiceText :
          listed' = [listed EXCEPT ![t].form = [Closed EXCEPT !.kind = "add", !.text = x]]
    BY <1>3 DEF ClickAdd
  <2> DEFINE newForm == [Closed EXCEPT !.kind = "add", !.text = x]
  <2>2. newForm \in ServiceForm
    BY <1>0 DEF ServiceForm
  <2>3. OfCatalog(newForm)
    BY <1>0 DEF ServiceForm, OfCatalog
  <2> HIDE DEF newForm
  <2> QED
    BY <1>2, <1>3, <2>1, <2>2, <2>3 DEF ClickAdd, newForm
<1>4. ASSUME NEW t \in ServiceTab, NEW s \in Service, EditServiceForm(t, s) PROVE ServicesInv'
  <2> DEFINE old == listed[t].form
             newForm == IF old.kind = "edit" THEN [old EXCEPT !.service = s]
                     ELSE [kind |-> "edit", service |-> s, text |-> listed[t].rows[s].text]
  <2>1. /\ listed[t] # NULL /\ s \in DOMAIN listed[t].rows
        /\ listed' = [listed EXCEPT ![t].form = newForm]
        /\ UNCHANGED <<catalog, calls, retired>>
    BY <1>4 DEF EditServiceForm, ServicesInv
  <2>2. listed[t].rows[s].text \in ServiceText /\ s \in DOMAIN catalog
    <3>1. listed[t].rows \in Rows
      BY <1>a, <2>1 DEF ServicesPage
    <3>2. PICK S \in SUBSET Service : listed[t].rows \in [S -> ServiceRow]
      BY <3>1 DEF Rows
    <3> QED
      BY <1>a, <2>1, <3>2 DEF ServiceRow
  <2>3. old \in ServiceForm /\ OfCatalog(old)
    BY <1>a, <2>1 DEF ServicesPage
  <2>4. newForm \in ServiceForm /\ OfCatalog(newForm)
    BY <2>2, <2>3 DEF ServiceForm, OfCatalog
  <2> HIDE DEF newForm
  <2> QED
    BY <1>2, <2>1, <2>4
<1>5. ASSUME NEW t \in ServiceTab, TypeField(t) PROVE ServicesInv'
  <2>1. PICK x \in ServiceText : listed' = [listed EXCEPT ![t].form.text = x]
    BY <1>5 DEF TypeField
  <2> DEFINE old == listed[t].form
             newForm == [old EXCEPT !.text = x]
  <2>2. listed' = [listed EXCEPT ![t].form = newForm] /\ listed[t] # NULL
    BY <1>5, <2>1 DEF TypeField
  <2>3. old \in ServiceForm /\ OfCatalog(old)
    BY <1>a, <2>2 DEF ServicesPage
  <2>4. newForm \in ServiceForm /\ OfCatalog(newForm)
    BY <2>3 DEF ServiceForm, OfCatalog
  <2> HIDE DEF newForm
  <2> QED
    BY <1>2, <1>5, <2>2, <2>4 DEF TypeField
<1>6. ASSUME NEW t \in ServiceTab, Cancel(t) PROVE ServicesInv'
  BY <1>0, <1>2, <1>6 DEF Cancel, OfCatalog, Closed
<1>7. ASSUME NEW t \in ServiceTab, NEW c \in ServiceCall, OfCatalog(c), Call(t, c)
      PROVE  ServicesInv'
  <2> DEFINE pg == [listed[t] EXCEPT !.call = c]
  <2>1. pg \in ServicesPage
    BY <1>a, <1>7 DEF ServicesPage, Call
  <2>2. /\ pg.rows = listed[t].rows /\ pg.form = listed[t].form /\ pg.call = c
        /\ listed' = [listed EXCEPT ![t] = pg]
    BY <1>a, <1>7 DEF ServicesPage, Call
  <2>3. calls' \in 0 .. MaxCalls
    BY <1>7, ServicesAssumption DEF Call, ServicesInv
  <2> HIDE DEF pg
  <2> QED
    BY <1>a, <1>7, <2>1, <2>2, <2>3, PageStep DEF Call
<1>8. ASSUME NEW t \in ServiceTab, SubmitForm(t) PROVE ServicesInv'
  <2> DEFINE f == listed[t].form
             c == [kind |-> f.kind, service |-> f.service, text |-> f.text]
  <2>1. f \in ServiceForm /\ OfCatalog(f) /\ f.kind # "none"
    BY <1>a, <1>8 DEF SubmitForm, ServicesPage
  <2>2. c \in ServiceCall /\ OfCatalog(c)
    BY <2>1 DEF ServiceForm, ServiceCall, OfCatalog
  <2>3. Call(t, c)
    BY <1>8 DEF SubmitForm
  <2> HIDE DEF c
  <2> QED
    BY <1>7, <2>2, <2>3
<1>9. ASSUME NEW t \in ServiceTab, NEW s \in Service, handleDeactivate(t, s) PROVE ServicesInv'
  <2> DEFINE c == [kind |-> "deactivate", service |-> s, text |-> NULL]
  <2>1. c \in ServiceCall /\ OfCatalog(c)
    BY <1>a, <1>9 DEF handleDeactivate, ServiceCall, OfCatalog
  <2>2. Call(t, c)
    BY <1>9 DEF handleDeactivate
  <2> HIDE DEF c
  <2> QED
    BY <1>7, <2>1, <2>2
<1>10. ASSUME NEW t \in ServiceTab, ServiceAction(t) PROVE ServicesInv'
  <2> DEFINE c == listed[t].call
             old == listed[t].form
             pg == [rows |-> catalog', call |-> NULL,
                    form |-> IF old.kind = c.kind THEN Closed ELSE old]
  <2>1. /\ listed[t] # NULL /\ c # NULL /\ UNCHANGED calls
        /\ listed' = [listed EXCEPT ![t] = pg]
    BY <1>10 DEF ServiceAction, ServicesInv
  <2>2. c \in ServiceCall /\ OfCatalog(c) /\ old \in ServiceForm /\ OfCatalog(old)
    BY <1>a, <2>1 DEF ServicesPage
  <2>3. PICK S \in SUBSET Service : catalog \in [S -> ServiceRow]
    BY <1>0 DEF Rows
  <2>4. /\ catalog' \in Rows /\ DOMAIN catalog \subseteq DOMAIN catalog'
        /\ retired' \subseteq Service /\ RetiredStaysRetired'
    <3>1. CASE c.kind = "add"
      <4>1. createService(c.text) /\ UNCHANGED retired /\ c.text \in ServiceText
        BY <1>10, <2>2, <3>1 DEF ServiceAction, OfCatalog
      <4>2. PICK s \in Service \ S :
              catalog' = [i \in S \cup {s} |->
                            IF i = s THEN [text |-> c.text, active |-> TRUE] ELSE catalog[i]]
        BY <2>3, <4>1 DEF createService
      <4>3. catalog' \in [S \cup {s} -> ServiceRow]
        BY <2>3, <4>1, <4>2 DEF ServiceRow
      <4>4. S \cup {s} \in SUBSET Service
        BY <2>3
      <4>5. catalog' \in Rows
        BY <4>3, <4>4 DEF Rows
      <4> QED
        BY <2>3, <4>1, <4>2, <4>5 DEF ServicesInv, RetiredStaysRetired
    <3>2. CASE c.kind = "edit"
      <4>1. updateService(c.service, c.text) /\ UNCHANGED retired
            /\ c.text \in ServiceText /\ c.service \in S
        BY <1>10, <2>2, <2>3, <3>2 DEF ServiceAction, OfCatalog
      <4>2. catalog' \in [S -> ServiceRow]
        BY <2>3, <4>1 DEF updateService, ServiceRow
      <4>3. \A s \in S : catalog'[s].active = catalog[s].active
        BY <2>3, <4>1 DEF updateService, ServiceRow
      <4> QED
        BY <2>3, <4>1, <4>2, <4>3 DEF Rows, ServicesInv, RetiredStaysRetired
    <3>3. CASE c.kind = "deactivate"
      <4>1. /\ deactivateService(c.service) /\ retired' = retired \cup {c.service}
            /\ c.service \in S
        BY <1>10, <2>2, <2>3, <3>3 DEF ServiceAction, OfCatalog
      <4>2. catalog' \in [S -> ServiceRow]
        BY <2>3, <4>1 DEF deactivateService, ServiceRow
      <4>3. /\ ~catalog'[c.service].active
            /\ \A s \in S : s # c.service => catalog'[s].active = catalog[s].active
        BY <2>3, <4>1 DEF deactivateService, ServiceRow
      <4> QED
        BY <2>3, <4>1, <4>2, <4>3 DEF Rows, ServicesInv, RetiredStaysRetired
    <3> QED
      BY <2>2, <3>1, <3>2, <3>3 DEF ServiceCall
  <2>5. pg \in ServicesPage /\ OfCatalog(pg.form)
    BY <1>0, <2>2, <2>4 DEF ServicesPage, OfCatalog, Closed
  <2>6. pg.rows = catalog' /\ pg.call = NULL
    OBVIOUS
  <2> HIDE DEF pg
  <2> QED
    BY <2>1, <2>4, <2>5, <2>6, CatalogStep
<1>11. ASSUME NEW t \in ServiceTab, ServiceActionFails(t) PROVE ServicesInv'
  <2> DEFINE pg == [listed[t] EXCEPT !.call = NULL]
  <2>1. pg \in ServicesPage
    BY <1>a, <1>11 DEF ServicesPage, ServiceActionFails
  <2>2. /\ pg.rows = listed[t].rows /\ pg.form = listed[t].form /\ pg.call = NULL
        /\ \/ listed' = [listed EXCEPT ![t] = pg]
           \/ listed' = [listed EXCEPT ![t] = NULL]
    BY <1>a, <1>11 DEF ServicesPage, ServiceActionFails
  <2> HIDE DEF pg
  <2> QED
    BY <1>a, <1>11, <2>1, <2>2, PageStep DEF ServiceActionFails, ServicesInv
<1>12. CASE UNCHANGED servicesVars
  BY <1>12 DEF servicesVars, ServicesInv, PageOK, OfCatalog, RetiredStaysRetired
<1> QED
  BY <1>1, <1>3, <1>4, <1>5, <1>6, <1>8, <1>9, <1>10, <1>11, <1>12 DEF ServicesNext

LEMMA ServicesTyped == ServicesInv => ServicesTypeOK
<1> SUFFICES ASSUME ServicesInv PROVE ServicesTypeOK
  OBVIOUS
<1>1. PICK S \in SUBSET Service : catalog \in [S -> ServiceRow]
  BY DEF ServicesInv, Rows
<1>2. \A t \in ServiceTab : listed[t] # NULL =>
        listed[t].form \in ServiceForm /\ DOMAIN listed[t].rows \subseteq DOMAIN catalog
  BY DEF ServicesInv, PageOK, ServicesPage
<1>3. \A f \in ServiceForm : f.kind \in {"none", "add", "edit"} /\ f.service \in Service \cup {NULL}
  BY DEF ServiceForm
<1> QED
  BY <1>1, <1>2, <1>3 DEF ServicesInv, ServicesTypeOK, ServiceRow

-----------------------------------------------------------------------------
(***************************************************************************)
(* The questionnaires.  An editor that is not loading holds the questions  *)
(* of the service its picker shows, and a question whose home is not yet   *)
(* set is in nobody's hands.                                               *)
(***************************************************************************)
EditorPage == [service : Kind, questions : SUBSET Def,
               step : {"idle", "load", "update", "insert"}]
AnswerPage == [shown : SUBSET Def, texts : (SUBSET Question) \cup {NULL},
               found : Kind \cup {NULL}]

HomeIs(h, s, T) == \A q \in T : h[q.id] = s

QuestionnairesInv ==
  /\ QuestionnairesTypeOK
  /\ editor \in [Editor -> EditorPage \cup {NULL}]
  /\ form \in [AnswerTab -> AnswerPage \cup {NULL}]
  /\ ~mixed => /\ \A s \in Kind : HomeIs(home, s, Questions(s))
               /\ \A e \in Editor : editor[e] # NULL /\ editor[e].step # "load" =>
                    HomeIs(home, editor[e].service, editor[e].questions)
  /\ RequiredAnswered

LEMMA QuestionnairesInitInv == QuestionnairesInit => QuestionnairesInv
<1> SUFFICES ASSUME QuestionnairesInit PROVE QuestionnairesInv
  OBVIOUS
<1>1. QuestionnairesTypeOK
  <2>1. 0 \in 0 .. MaxSaves /\ FALSE \in BOOLEAN
    BY QuestionnairesAssumption
  <2>2. template \in [Kind -> (SUBSET Def) \cup {NULL}]
    BY DEF QuestionnairesInit
  <2>3. home \in [Question -> Kind \cup {NULL}]
    BY DEF QuestionnairesInit
  <2>4. (\A e \in Editor : editor[e] = NULL) /\ (\A c \in AnswerTab : form[c] = NULL)
    BY DEF QuestionnairesInit
  <2> QED
    BY <2>1, <2>2, <2>3, <2>4 DEF QuestionnairesInit, QuestionnairesTypeOK
<1>2. \A s \in Kind : HomeIs(home, s, Questions(s))
  BY DEF QuestionnairesInit, HomeIs, Questions
<1>3. RequiredAnswered
  BY DEF QuestionnairesInit, RequiredAnswered
<1>4. editor \in [Editor -> EditorPage \cup {NULL}] /\ form \in [AnswerTab -> AnswerPage \cup {NULL}]
  BY DEF QuestionnairesInit
<1> QED
  BY <1>1, <1>2, <1>3, <1>4 DEF QuestionnairesInit, QuestionnairesInv

LEMMA QuestionsTyped ==
  ASSUME QuestionnairesTypeOK, NEW s \in Kind
  PROVE  Questions(s) \in SUBSET Def
BY DEF QuestionnairesTypeOK, Questions

\* An editor turns to another page, whose questions are those of its service.
LEMMA EditorStep ==
  ASSUME QuestionnairesInv, NEW e \in Editor, NEW pg \in EditorPage,
         editor' = [editor EXCEPT ![e] = pg],
         UNCHANGED <<primary, template, home, answerVars>>,
         saves' \in 0 .. MaxSaves, mixed' \in BOOLEAN,
         mixed => mixed',
         ~mixed' /\ pg.step # "load" => HomeIs(home, pg.service, pg.questions)
  PROVE  QuestionnairesInv'
<1>1. editor' \in [Editor -> EditorPage \cup {NULL}]
  BY DEF QuestionnairesInv
<1>2. QuestionnairesTypeOK'
  BY <1>1 DEF QuestionnairesInv, QuestionnairesTypeOK, answerVars, EditorPage
<1>3. ASSUME NEW d \in Editor, ~mixed', editor'[d] # NULL, editor'[d].step # "load"
      PROVE  HomeIs(home', editor'[d].service, editor'[d].questions)
  <2>1. CASE d = e
    BY <1>3, <2>1 DEF QuestionnairesInv, HomeIs
  <2>2. CASE d # e
    BY <1>3, <2>2 DEF QuestionnairesInv, HomeIs
  <2> QED
    BY <2>1, <2>2
<1>4. ASSUME NEW s \in Kind, ~mixed' PROVE HomeIs(home', s, Questions(s)')
  BY <1>4 DEF QuestionnairesInv, HomeIs, Questions
<1>5. RequiredAnswered' /\ form' \in [AnswerTab -> AnswerPage \cup {NULL}]
  BY DEF QuestionnairesInv, RequiredAnswered, answerVars
<1> QED
  BY <1>1, <1>2, <1>3, <1>4, <1>5, Zenon DEF QuestionnairesInv

\* A form changes, and with it perhaps the answers.
LEMMA FormStep ==
  ASSUME QuestionnairesInv, NEW c \in AnswerTab, NEW pg \in AnswerPage,
         form' = [form EXCEPT ![c] = pg],
         UNCHANGED <<primary, editorVars>>,
         answer' \in (SUBSET Question) \cup {NULL}, asked' \in (SUBSET Def) \cup {NULL},
         RequiredAnswered'
  PROVE  QuestionnairesInv'
<1>1. form' \in [AnswerTab -> AnswerPage \cup {NULL}]
  BY DEF QuestionnairesInv
<1>2. QuestionnairesTypeOK'
  BY <1>1 DEF QuestionnairesInv, QuestionnairesTypeOK, editorVars, AnswerPage
<1>3. UNCHANGED <<template, editor, home, mixed>>
  BY DEF editorVars
<1> QED
  BY <1>1, <1>2, <1>3 DEF QuestionnairesInv, HomeIs, Questions

LEMMA QuestionnairesStep ==
  QuestionnairesInv /\ [QuestionnairesNext]_questionnairesVars => QuestionnairesInv'
<1> SUFFICES ASSUME QuestionnairesInv, [QuestionnairesNext]_questionnairesVars
             PROVE  QuestionnairesInv'
  OBVIOUS
<1>0. QuestionnairesTypeOK /\ saves \in 0 .. MaxSaves /\ mixed \in BOOLEAN
  BY DEF QuestionnairesInv, QuestionnairesTypeOK
<1>a. ASSUME NEW e \in Editor, editor[e] # NULL
      PROVE  /\ editor[e] \in EditorPage
             /\ ~mixed /\ editor[e].step # "load" =>
                  HomeIs(home, editor[e].service, editor[e].questions)
  BY <1>a DEF QuestionnairesInv
<1>b. ASSUME NEW c \in AnswerTab, form[c] # NULL PROVE form[c] \in AnswerPage
  BY <1>b DEF QuestionnairesInv
<1>1. CASE SortOrderChanges
  BY <1>1 DEF SortOrderChanges, editorVars, answerVars, QuestionnairesInv, QuestionnairesTypeOK,
     HomeIs, Questions, RequiredAnswered
<1>2. ASSUME NEW e \in Editor, OpenEditor(e) PROVE QuestionnairesInv'
  <2>1. PICK s \in Kind :
          editor' = [editor EXCEPT ![e] = [service |-> s, questions |-> Questions(s),
                                           step |-> "idle"]]
    BY <1>2 DEF OpenEditor
  <2>2. [service |-> s, questions |-> Questions(s), step |-> "idle"] \in EditorPage
    BY <1>0, QuestionsTyped DEF EditorPage
  <2>3. ~mixed => HomeIs(home, s, Questions(s))
    BY DEF QuestionnairesInv
  <2> QED
    BY <1>0, <1>2, <2>1, <2>2, <2>3, EditorStep DEF OpenEditor
<1>4. ASSUME NEW e \in Editor, handleServiceChange(e) PROVE QuestionnairesInv'
  <2>1. PICK s \in Kind : editor' = [editor EXCEPT ![e].service = s, ![e].step = "load"]
    BY <1>4 DEF handleServiceChange
  <2>2. editor[e] # NULL /\ editor[e] \in EditorPage
    BY <1>a, <1>4 DEF handleServiceChange, In
  <2> DEFINE pg == [editor[e] EXCEPT !.service = s, !.step = "load"]
  <2>3. pg \in EditorPage /\ pg.step = "load"
    BY <2>2 DEF EditorPage
  <2>4. editor' = [editor EXCEPT ![e] = pg]
    BY <2>1, <2>2 DEF EditorPage
  <2> HIDE DEF pg
  <2> QED
    BY <1>0, <1>4, <2>3, <2>4, EditorStep DEF handleServiceChange
<1>5. ASSUME NEW e \in Editor, getQuestionnaireTemplate(e) PROVE QuestionnairesInv'
  <2>1. editor[e] # NULL /\ editor[e] \in EditorPage
    BY <1>a, <1>5 DEF getQuestionnaireTemplate, In
  <2> DEFINE s == editor[e].service
  <2>2. s \in Kind /\ editor[e].questions \in SUBSET Def /\ Questions(s) \in SUBSET Def
    BY <1>0, <2>1, QuestionsTyped DEF EditorPage
  <2>3. CASE /\ editor' = [editor EXCEPT ![e].questions = Questions(s), ![e].step = "idle"]
             /\ UNCHANGED mixed
    <3> DEFINE pg == [editor[e] EXCEPT !.questions = Questions(s), !.step = "idle"]
    <3>1. /\ pg \in EditorPage /\ pg.service = s /\ pg.questions = Questions(s)
          /\ editor' = [editor EXCEPT ![e] = pg]
      BY <2>1, <2>2, <2>3 DEF EditorPage
    <3>2. ~mixed => HomeIs(home, s, Questions(s))
      BY <2>2 DEF QuestionnairesInv
    <3> HIDE DEF pg
    <3> QED
      BY <1>0, <1>5, <2>3, <3>1, <3>2, EditorStep DEF getQuestionnaireTemplate
  <2>4. CASE /\ editor' = [editor EXCEPT ![e].step = "idle"] /\ mixed' = TRUE
    <3> DEFINE pg == [editor[e] EXCEPT !.step = "idle"]
    <3>1. pg \in EditorPage /\ editor' = [editor EXCEPT ![e] = pg]
      BY <2>1, <2>4 DEF EditorPage
    <3> HIDE DEF pg
    <3> QED
      BY <1>0, <1>5, <2>4, <3>1, EditorStep DEF getQuestionnaireTemplate
  <2> QED
    BY <1>5, <2>3, <2>4 DEF getQuestionnaireTemplate
<1>6. ASSUME NEW e \in Editor, addQuestion(e) PROVE QuestionnairesInv'
  <2>1. editor[e] # NULL /\ editor[e] \in EditorPage /\ editor[e].step = "idle"
    BY <1>a, <1>6 DEF addQuestion, In
  <2>2. PICK q \in Question, r \in BOOLEAN :
          /\ home[q] = NULL /\ home' = [home EXCEPT ![q] = editor[e].service]
          /\ editor' = [editor EXCEPT ![e].questions = @ \cup {[id |-> q, required |-> r]}]
    BY <1>6 DEF addQuestion
  <2> DEFINE pg == [editor[e] EXCEPT !.questions = @ \cup {[id |-> q, required |-> r]}]
  <2>3. editor[e].service \in Kind /\ [id |-> q, required |-> r] \in Def
    BY <2>1 DEF EditorPage, Def
  <2>4. /\ pg \in EditorPage /\ pg.service = editor[e].service
        /\ pg.questions = editor[e].questions \cup {[id |-> q, required |-> r]}
    BY <2>1, <2>3 DEF EditorPage
  <2>5. editor' = [editor EXCEPT ![e] = pg]
    BY <2>1, <2>2 DEF EditorPage
  <2> HIDE DEF pg
  <2>6. home' \in [Question -> Kind \cup {NULL}]
    BY <1>0, <2>2, <2>3 DEF QuestionnairesTypeOK
  <2>7. editor' \in [Editor -> EditorPage \cup {NULL}]
    BY <2>4, <2>5 DEF QuestionnairesInv
  <2>8. QuestionnairesTypeOK'
    BY <1>0, <1>6, <2>6, <2>7 DEF QuestionnairesTypeOK, addQuestion, answerVars, EditorPage
  <2>9. ASSUME NEW s \in Kind, NEW T \in SUBSET Def, HomeIs(home, s, T) PROVE HomeIs(home', s, T)
    <3>1. \A x \in T : x.id \in Question /\ home[x.id] = s
      BY <2>9 DEF Def, HomeIs
    <3>2. \A x \in T : x.id # q
      BY <2>2, <3>1, QuestionnairesAssumption
    <3> QED
      BY <1>0, <2>2, <3>1, <3>2 DEF HomeIs, QuestionnairesTypeOK
  <2>10. ~mixed => HomeIs(home', pg.service, pg.questions)
    <3>1. ~mixed => HomeIs(home', editor[e].service, editor[e].questions)
      BY <1>a, <2>1, <2>3, <2>9 DEF EditorPage
    <3>2. home'[q] = editor[e].service
      BY <1>0, <2>2 DEF QuestionnairesTypeOK
    <3> QED
      BY <2>4, <3>1, <3>2 DEF HomeIs
  <2>11. ASSUME NEW d \in Editor, ~mixed, editor'[d] # NULL, editor'[d].step # "load"
         PROVE  HomeIs(home', editor'[d].service, editor'[d].questions)
    <3>1. CASE d = e
      BY <2>5, <2>10, <2>11, <3>1 DEF QuestionnairesInv, HomeIs
    <3>2. CASE d # e
      <4>1. editor'[d] = editor[d]
        BY <2>5, <3>2 DEF QuestionnairesInv
      <4>2. editor[d] \in EditorPage /\ HomeIs(home, editor[d].service, editor[d].questions)
        BY <1>a, <2>11, <4>1
      <4>3. HomeIs(home', editor[d].service, editor[d].questions)
        BY <2>9, <2>11, <4>1, <4>2 DEF EditorPage, HomeIs
      <4> QED
        BY <4>1, <4>3 DEF HomeIs
    <3> QED
      BY <3>1, <3>2
  <2>12. ASSUME NEW s \in Kind, ~mixed PROVE HomeIs(home', s, Questions(s)')
    <3>1. Questions(s)' = Questions(s) /\ Questions(s) \in SUBSET Def
      BY <1>0, <1>6, QuestionsTyped DEF addQuestion, Questions
    <3>2. HomeIs(home, s, Questions(s))
      BY <2>12 DEF QuestionnairesInv
    <3> QED
      BY <2>9, <3>1, <3>2 DEF HomeIs
  <2>13. UNCHANGED <<mixed, form>> /\ RequiredAnswered'
    BY <1>6 DEF addQuestion, answerVars, QuestionnairesInv, RequiredAnswered
  <2> QED
    BY <2>7, <2>8, <2>11, <2>12, <2>13 DEF QuestionnairesInv
<1>7. ASSUME NEW e \in Editor, removeQuestion(e) \/ updateQuestion(e) PROVE QuestionnairesInv'
  <2>1. editor[e] # NULL /\ editor[e] \in EditorPage /\ editor[e].step = "idle"
    BY <1>a, <1>7 DEF removeQuestion, updateQuestion, In
  <2> DEFINE s == editor[e].service
  <2>2. PICK x \in editor[e].questions :
          \/ editor' = [editor EXCEPT ![e].questions = @ \ {x}]
          \/ editor' = [editor EXCEPT ![e].questions =
                          (@ \ {x}) \cup {[x EXCEPT !.required = ~@]}]
    BY <1>7 DEF removeQuestion, updateQuestion
  <2>3. x \in Def /\ editor[e].questions \in SUBSET Def /\ s \in Kind
    BY <2>1 DEF EditorPage
  <2>4. [x EXCEPT !.required = ~@] \in Def /\ [x EXCEPT !.required = ~@].id = x.id
    BY <2>3 DEF Def
  <2>5. PICK Q \in SUBSET Def :
          /\ editor' = [editor EXCEPT ![e].questions = Q]
          /\ \A y \in Q : \E z \in editor[e].questions : y.id = z.id
    <3>1. editor[e].questions \ {x} \in SUBSET Def
      BY <2>3
    <3>2. (editor[e].questions \ {x}) \cup {[x EXCEPT !.required = ~@]} \in SUBSET Def
      BY <2>3, <2>4
    <3>3. CASE editor' = [editor EXCEPT ![e].questions = @ \ {x}]
      BY <3>1, <3>3
    <3>4. CASE editor' = [editor EXCEPT ![e].questions =
                            (@ \ {x}) \cup {[x EXCEPT !.required = ~@]}]
      BY <2>4, <3>2, <3>4
    <3> QED
      BY <2>2, <3>3, <3>4
  <2> DEFINE pg == [editor[e] EXCEPT !.questions = Q]
  <2>6. /\ pg \in EditorPage /\ pg.service = s /\ pg.questions = Q
        /\ editor' = [editor EXCEPT ![e] = pg]
    BY <2>1, <2>5 DEF EditorPage
  <2> HIDE DEF pg
  <2>7. ~mixed => HomeIs(home, s, Q)
    BY <1>a, <2>1, <2>5 DEF HomeIs
  <2>8. UNCHANGED <<primary, template, home, answerVars, saves, mixed>>
    BY <1>7 DEF removeQuestion, updateQuestion
  <2> QED
    BY <1>0, <2>6, <2>7, <2>8, EditorStep
<1>8. ASSUME NEW e \in Editor, handleSave(e) PROVE QuestionnairesInv'
  <2>1. editor[e] # NULL /\ editor[e] \in EditorPage /\ editor[e].step = "idle"
    BY <1>a, <1>8 DEF handleSave, In
  <2> DEFINE s == editor[e].service
             Q == editor[e].questions
  <2>2. s \in Kind /\ Q \in SUBSET Def /\ (~mixed => HomeIs(home, s, Q))
    BY <1>a, <2>1 DEF EditorPage
  <2> DEFINE pg == [editor[e] EXCEPT !.step = "update"]
  <2>3. /\ pg \in EditorPage /\ pg.service = s /\ pg.questions = Q
        /\ editor' = [editor EXCEPT ![e] = pg]
    BY <1>8, <2>1 DEF handleSave, EditorPage
  <2>4. saves' \in 0 .. MaxSaves
    BY <1>0, <1>8, QuestionnairesAssumption DEF handleSave
  <2> HIDE DEF pg
  <2> QED
    BY <1>0, <1>8, <2>2, <2>3, <2>4, EditorStep DEF handleSave
<1>9. ASSUME NEW e \in Editor, UpdateTemplate(e) \/ InsertTemplate(e) PROVE QuestionnairesInv'
  <2>1. editor[e] # NULL /\ editor[e] \in EditorPage /\ editor[e].step \in {"update", "insert"}
    BY <1>a, <1>9 DEF UpdateTemplate, InsertTemplate, In
  <2> DEFINE s == editor[e].service
             Q == editor[e].questions
  <2>2. s \in Kind /\ Q \in SUBSET Def /\ (~mixed => HomeIs(home, s, Q))
    BY <1>a, <2>1 DEF EditorPage
  <2>3. PICK step \in {"idle", "update", "insert"} :
          editor' = [editor EXCEPT ![e].step = step]
    BY <1>9 DEF UpdateTemplate, InsertTemplate, Put
  <2> DEFINE pg == [editor[e] EXCEPT !.step = step]
  <2>4. /\ pg \in EditorPage /\ pg.service = s /\ pg.questions = Q
        /\ editor' = [editor EXCEPT ![e] = pg]
    BY <2>1, <2>3 DEF EditorPage
  <2> HIDE DEF pg
  <2>5. UNCHANGED <<primary, home, answerVars, saves, mixed>>
    BY <1>9 DEF UpdateTemplate, InsertTemplate
  <2>6. CASE UNCHANGED template
    BY <1>0, <2>2, <2>4, <2>5, <2>6, EditorStep
  <2>7. CASE template' = [template EXCEPT ![s] = Q]
    <3>2. editor' \in [Editor -> EditorPage \cup {NULL}]
      BY <2>4 DEF QuestionnairesInv
    <3>3. template' \in [Kind -> (SUBSET Def) \cup {NULL}]
      BY <1>0, <2>2, <2>7 DEF QuestionnairesTypeOK
    <3>4. QuestionnairesTypeOK'
      BY <1>0, <2>5, <3>2, <3>3 DEF QuestionnairesTypeOK, answerVars, EditorPage
    <3>5. ASSUME NEW d \in Editor, ~mixed, editor'[d] # NULL, editor'[d].step # "load"
          PROVE  HomeIs(home', editor'[d].service, editor'[d].questions)
      <4>1. CASE d = e
        <5>1. editor'[d] = pg
          BY <2>4, <4>1 DEF QuestionnairesInv
        <5> QED
          BY <2>2, <2>4, <2>5, <3>5, <5>1 DEF HomeIs
      <4>2. CASE d # e
        <5>1. editor'[d] = editor[d]
          BY <2>4, <4>2 DEF QuestionnairesInv
        <5> QED
          BY <1>a, <2>5, <3>5, <5>1 DEF HomeIs
      <4> QED
        BY <4>1, <4>2
    <3>6. ASSUME NEW k \in Kind, ~mixed PROVE HomeIs(home', k, Questions(k)')
      <4>1. CASE k = s
        BY <1>0, <2>2, <2>5, <2>7, <3>6, <4>1 DEF Questions, HomeIs, QuestionnairesTypeOK
      <4>2. CASE k # s
        BY <1>0, <2>2, <2>5, <2>7, <3>6, <4>2
           DEF Questions, HomeIs, QuestionnairesTypeOK, QuestionnairesInv
      <4> QED
        BY <4>1, <4>2
    <3>7. form' \in [AnswerTab -> AnswerPage \cup {NULL}] /\ RequiredAnswered'
      BY <2>5 DEF QuestionnairesInv, answerVars, RequiredAnswered
    <3> QED
      BY <2>5, <3>2, <3>4, <3>5, <3>6, <3>7 DEF QuestionnairesInv
  <2> QED
    BY <1>9, <2>6, <2>7 DEF UpdateTemplate, InsertTemplate, Put
<1>10. ASSUME NEW c \in AnswerTab, NEW pg \in AnswerPage, form' = [form EXCEPT ![c] = pg],
              UNCHANGED <<primary, editorVars, answer, asked>>
       PROVE  QuestionnairesInv'
  <2>1. RequiredAnswered'
    BY <1>10 DEF QuestionnairesInv, RequiredAnswered
  <2>2. answer' \in (SUBSET Question) \cup {NULL} /\ asked' \in (SUBSET Def) \cup {NULL}
    BY <1>0, <1>10 DEF QuestionnairesTypeOK
  <2> QED
    BY <1>10, <2>1, <2>2, FormStep
<1>11. ASSUME NEW c \in AnswerTab, QuestionnaireStep(c) PROVE QuestionnairesInv'
  <2>1. template[primary] \in SUBSET Def
    BY <1>0, <1>11 DEF QuestionnaireStep, QuestionnairesTypeOK
  <2>2. [shown |-> template[primary], texts |-> NULL, found |-> NULL] \in AnswerPage
    BY <2>1 DEF AnswerPage
  <2> QED
    BY <1>10, <1>11, <2>2 DEF QuestionnaireStep
<1>12. ASSUME NEW c \in AnswerTab, handleSubmitAnswers(c) PROVE QuestionnairesInv'
  <2>1. form[c] \in AnswerPage
    BY <1>b, <1>12 DEF handleSubmitAnswers
  <2>2. PICK T \in SUBSET Ids(form[c].shown) : form' = [form EXCEPT ![c].texts = T]
    BY <1>12 DEF handleSubmitAnswers
  <2>3. T \in SUBSET Question
    BY <2>1 DEF AnswerPage, Ids, Def
  <2> DEFINE pg == [form[c] EXCEPT !.texts = T]
  <2>4. pg \in AnswerPage /\ form' = [form EXCEPT ![c] = pg]
    BY <2>1, <2>2, <2>3 DEF AnswerPage
  <2> QED
    BY <1>10, <1>12, <2>4 DEF handleSubmitAnswers
<1>13. ASSUME NEW c \in AnswerTab, getMyQuestionnaire(c) PROVE QuestionnairesInv'
  <2>1. form[c] \in AnswerPage /\ primary \in Kind
    BY <1>0, <1>b, <1>13 DEF getMyQuestionnaire, QuestionnairesTypeOK
  <2> DEFINE pg == [form[c] EXCEPT !.found = primary]
  <2>2. pg \in AnswerPage /\ form' = [form EXCEPT ![c] = pg]
    BY <1>13, <2>1 DEF getMyQuestionnaire, AnswerPage
  <2> QED
    BY <1>10, <1>13, <2>2 DEF getMyQuestionnaire
<1>14. ASSUME NEW c \in AnswerTab, submitQuestionnaire(c) PROVE QuestionnairesInv'
  <2>1. form[c] \in AnswerPage /\ form[c].found # NULL
    BY <1>b, <1>14 DEF submitQuestionnaire
  <2> DEFINE T == Questions(form[c].found)
             pg == [form[c] EXCEPT !.texts = NULL, !.found = NULL]
  <2>2. T \in SUBSET Def
    BY <1>0, <2>1, QuestionsTyped DEF AnswerPage
  <2>3. pg \in AnswerPage /\ form' = [form EXCEPT ![c] = pg]
    BY <1>14, <2>1 DEF submitQuestionnaire, AnswerPage
  <2>4. /\ answer' \in (SUBSET Question) \cup {NULL} /\ asked' \in (SUBSET Def) \cup {NULL}
        /\ RequiredAnswered'
    <3>1. CASE /\ answer' = Ids(T) \cap form[c].texts /\ asked' = T
               /\ Required(T) \subseteq form[c].texts
      <4>1. Ids(T) \subseteq Question /\ Required(T) \subseteq Ids(T)
        BY <2>2 DEF Ids, Required, Def
      <4> QED
        BY <2>2, <3>1, <4>1 DEF RequiredAnswered
    <3>2. CASE UNCHANGED <<answer, asked>>
      BY <1>0, <3>2 DEF QuestionnairesTypeOK, QuestionnairesInv, RequiredAnswered
    <3> QED
      BY <1>14, <3>1, <3>2 DEF submitQuestionnaire, StoreAnswer
  <2> HIDE DEF pg
  <2> QED
    BY <1>14, <2>3, <2>4, FormStep DEF submitQuestionnaire
<1>15. CASE UNCHANGED questionnairesVars
  BY <1>15 DEF questionnairesVars, QuestionnairesInv, QuestionnairesTypeOK, HomeIs, Questions,
     RequiredAnswered
<1> QED
  BY <1>1, <1>2, <1>4, <1>5, <1>6, <1>7, <1>8, <1>9, <1>11, <1>12, <1>13, <1>14, <1>15
     DEF QuestionnairesNext

LEMMA QuestionsAtHome == QuestionnairesInv => TemplateKeepsToItsService
BY DEF QuestionnairesInv, TemplateKeepsToItsService, HomeIs, Ids

-----------------------------------------------------------------------------
(***************************************************************************)
(* The downloads.  A key that an action has found is one its document has, *)
(* since versions are never taken back; and past its step "log" the event  *)
(* is there.                                                               *)
(***************************************************************************)
HeldRow == [active : BOOLEAN, key : 1 .. MaxHeld, deleted : BOOLEAN]
Asking == [doc : Held, version : 0 .. MaxHeld, key : 1 .. MaxHeld \cup {NULL},
           step : {"authorize", "versions", "log", "answer"}]

AskingOK(p) ==
  asking[p] # NULL =>
    /\ asking[p].step \in {"log", "answer"} =>
         asking[p].key \in 1 .. held[asking[p].doc].key
    /\ asking[p].step = "answer" => <<p, asking[p].doc>> \in logged

DownloadsInv ==
  /\ DownloadsTypeOK
  /\ \A p \in Asker : AskingOK(p)
  /\ GivenIsLogged

LEMMA DownloadsInitInv == DownloadsInit => DownloadsInv
BY DownloadsAssumption
   DEF DownloadsInit, DownloadsInv, DownloadsTypeOK, AskingOK, GivenIsLogged

LEMMA RowEdits ==
  ASSUME NEW h \in HeldRow
  PROVE  /\ \A k \in 1 .. MaxHeld :
              /\ [h EXCEPT !.active = FALSE, !.key = k] \in HeldRow
              /\ [h EXCEPT !.active = FALSE, !.key = k].key = k
         /\ [h EXCEPT !.active = TRUE] \in HeldRow
         /\ [h EXCEPT !.active = TRUE].key = h.key
         /\ [h EXCEPT !.deleted = ~@] \in HeldRow
         /\ [h EXCEPT !.deleted = ~@].key = h.key
         /\ h.key <= h.key
<1>1. ASSUME NEW k \in 1 .. MaxHeld
      PROVE  /\ [h EXCEPT !.active = FALSE, !.key = k] \in HeldRow
             /\ [h EXCEPT !.active = FALSE, !.key = k].key = k
  BY DEF HeldRow
<1>2. [h EXCEPT !.active = TRUE] \in HeldRow /\ [h EXCEPT !.active = TRUE].key = h.key
  BY DEF HeldRow
<1>3. [h EXCEPT !.deleted = ~@] \in HeldRow
  BY DEF HeldRow
<1>4. [h EXCEPT !.deleted = ~@].key = h.key
  BY DEF HeldRow
<1>5. h.key <= h.key
  BY DownloadsAssumption DEF HeldRow
<1> QED
  BY <1>1, <1>2, <1>3, <1>4, <1>5, Zenon

\* A row changes, and with it the key grows or stays.
LEMMA HeldStep ==
  ASSUME DownloadsInv, held' \in [Held -> HeldRow],
         \A d \in Held : held[d].key <= held'[d].key,
         UNCHANGED <<asking, logged, given>>
  PROVE  DownloadsInv'
<1>1. \A d \in Held : held[d].key \in Nat /\ held'[d].key \in Nat
  BY DEF DownloadsInv, DownloadsTypeOK, HeldRow
<1>2. DownloadsTypeOK'
  BY DEF DownloadsInv, DownloadsTypeOK, HeldRow
<1>3. ASSUME NEW p \in Asker PROVE AskingOK(p)'
  <2>1. CASE asking[p] = NULL
    BY <2>1 DEF AskingOK
  <2>2. CASE asking[p] # NULL
    <3>1. AskingOK(p) /\ asking[p].doc \in Held
      BY <2>2 DEF DownloadsInv, DownloadsTypeOK
    <3> QED
      BY <1>1, <3>1 DEF AskingOK
  <2> QED
    BY <2>1, <2>2
<1>4. GivenIsLogged'
  <2> SUFFICES ASSUME NEW p \in Asker, given[p] # NULL
      PROVE  <<p, given[p].doc>> \in logged /\ given[p].key <= held'[given[p].doc].key
    BY DEF GivenIsLogged
  <2>1. /\ given[p].doc \in Held /\ given[p].key \in Nat
        /\ <<p, given[p].doc>> \in logged /\ given[p].key <= held[given[p].doc].key
    BY DEF DownloadsInv, DownloadsTypeOK, GivenIsLogged
  <2> QED
    BY <1>1, <2>1
<1> QED
  BY <1>2, <1>3, <1>4 DEF DownloadsInv

\* An action takes a step of its own.
LEMMA AskerStep ==
  ASSUME DownloadsInv, NEW p \in Asker, NEW a \in Asking \cup {NULL},
         asking' = [asking EXCEPT ![p] = a], UNCHANGED <<held, given>>,
         logged \subseteq logged', logged' \subseteq Asker \X Held,
         AskingOK(p)'
  PROVE  DownloadsInv'
<1>1. asking' \in [Asker -> Asking \cup {NULL}]
  BY DEF DownloadsInv, DownloadsTypeOK, Asking
<1>2. DownloadsTypeOK'
  BY <1>1 DEF DownloadsInv, DownloadsTypeOK, Asking
<1>3. ASSUME NEW q \in Asker PROVE AskingOK(q)'
  BY DEF DownloadsInv, DownloadsTypeOK, AskingOK
<1>4. GivenIsLogged'
  BY DEF DownloadsInv, GivenIsLogged
<1> QED
  BY <1>2, <1>3, <1>4 DEF DownloadsInv

LEMMA DownloadsStep == DownloadsInv /\ [DownloadsNext]_downloadsVars => DownloadsInv'
<1> SUFFICES ASSUME DownloadsInv, [DownloadsNext]_downloadsVars PROVE DownloadsInv'
  OBVIOUS
<1> USE DownloadsAssumption
<1>0. DownloadsTypeOK /\ held \in [Held -> HeldRow]
  BY DEF DownloadsInv, DownloadsTypeOK, HeldRow
<1>a. ASSUME NEW p \in Asker, asking[p] # NULL
      PROVE  asking[p] \in Asking /\ AskingOK(p)
  BY <1>a DEF DownloadsInv, DownloadsTypeOK, Asking
<1>1. ASSUME NEW d \in Held, ReplaceHeld(d) \/ PromoteHeld(d) \/ DeleteOrRecover(d)
      PROVE  DownloadsInv'
  <2>0. held[d] \in HeldRow
    BY <1>0
  <2>c. PICK r \in HeldRow : held' = [held EXCEPT ![d] = r] /\ held[d].key <= r.key
    <3>1. CASE ReplaceHeld(d)
      <4>1. held[d].key + 1 \in 1 .. MaxHeld /\ held[d].key <= held[d].key + 1
        BY <2>0, <3>1 DEF ReplaceHeld, HeldRow
      <4> DEFINE r == [held[d] EXCEPT !.active = FALSE, !.key = held[d].key + 1]
      <4>2. r \in HeldRow /\ r.key = held[d].key + 1
        BY <2>0, <4>1, RowEdits, Zenon
      <4>3. held' = [held EXCEPT ![d] = r]
        BY <1>0, <3>1 DEF ReplaceHeld
      <4> HIDE DEF r
      <4> QED
        BY <4>1, <4>2, <4>3
    <3>2. CASE PromoteHeld(d)
      <4> DEFINE r == [held[d] EXCEPT !.active = TRUE]
      <4>1. r \in HeldRow /\ r.key = held[d].key /\ held[d].key <= held[d].key
        BY <2>0, RowEdits, Zenon
      <4>2. held' = [held EXCEPT ![d] = r]
        BY <1>0, <3>2 DEF PromoteHeld
      <4> HIDE DEF r
      <4> QED
        BY <4>1, <4>2
    <3>3. CASE DeleteOrRecover(d)
      <4> DEFINE r == [held[d] EXCEPT !.deleted = ~@]
      <4>1. r \in HeldRow /\ r.key = held[d].key /\ held[d].key <= held[d].key
        BY <2>0, RowEdits, Zenon
      <4>2. held' = [held EXCEPT ![d] = r]
        BY <1>0, <3>3 DEF DeleteOrRecover
      <4> HIDE DEF r
      <4> QED
        BY <4>1, <4>2
    <3> QED
      BY <1>1, <3>1, <3>2, <3>3
  <2>1. held' \in [Held -> HeldRow]
    BY <1>0, <2>c
  <2>2. \A c \in Held : held[c].key <= held'[c].key
    BY <1>0, <2>c DEF HeldRow
  <2>3. UNCHANGED <<asking, logged, given>>
    BY <1>1 DEF ReplaceHeld, PromoteHeld, DeleteOrRecover
  <2> QED
    BY <2>1, <2>2, <2>3, HeldStep
<1>2. ASSUME NEW p \in Asker, NEW d \in Held, NEW v \in 0 .. MaxHeld, Begin(p, d, v)
      PROVE  DownloadsInv'
  <2> DEFINE a == [doc |-> d, version |-> v, step |-> "authorize", key |-> NULL]
  <2>1. a \in Asking /\ a.step = "authorize"
    BY DEF Asking
  <2> HIDE DEF a
  <2>2. asking' = [asking EXCEPT ![p] = a] /\ UNCHANGED <<held, logged, given>>
    BY <1>2 DEF Begin, a
  <2>3. AskingOK(p)'
    BY <1>0, <2>1, <2>2 DEF AskingOK, DownloadsTypeOK
  <2> QED
    BY <1>0, <2>1, <2>2, <2>3, AskerStep DEF DownloadsTypeOK
<1>3. ASSUME NEW p \in Asker, NEW d \in Held,
             \/ requestDownloadUrl(p, d) \/ portalRequestDownloadUrl(p, d)
             \/ \E v \in 1 .. MaxHeld : \/ requestDownloadUrlForVersion(p, d, v)
                                        \/ portalRequestDownloadUrlForVersion(p, d, v)
      PROVE  DownloadsInv'
  <2>1. 0 \in 0 .. MaxHeld /\ \A v \in 1 .. MaxHeld : v \in 0 .. MaxHeld
    OBVIOUS
  <2> QED
    BY <1>2, <1>3, <2>1 DEF requestDownloadUrl, portalRequestDownloadUrl,
       requestDownloadUrlForVersion, portalRequestDownloadUrlForVersion
\* the steps that find a key, or nothing
<1>4. ASSUME NEW p \in Asker, asking[p] # NULL, NEW step \in {"versions", "log"},
             NEW key \in 1 .. held[asking[p].doc].key,
             \/ asking' = [asking EXCEPT ![p] = [asking[p] EXCEPT !.step = step, !.key = key]]
             \/ asking' = [asking EXCEPT ![p] = NULL],
             UNCHANGED <<held, logged, given>>
      PROVE  DownloadsInv'
  <2> DEFINE a == [asking[p] EXCEPT !.step = step, !.key = key]
  <2>1. asking[p] \in Asking /\ asking[p].doc \in Held
    BY <1>a, <1>4 DEF Asking
  <2>2. key \in 1 .. MaxHeld
    BY <1>0, <2>1 DEF HeldRow
  <2>3. a \in Asking /\ a.step = step /\ a.key = key /\ a.doc = asking[p].doc
    BY <2>1, <2>2 DEF Asking
  <2>4. asking' = [asking EXCEPT ![p] = a] \/ asking' = [asking EXCEPT ![p] = NULL]
    BY <1>4
  <2> HIDE DEF a
  <2>5. AskingOK(p)'
    BY <1>0, <1>4, <2>3, <2>4 DEF AskingOK, DownloadsTypeOK
  <2> QED
    BY <1>0, <1>4, <2>3, <2>4, <2>5, AskerStep DEF DownloadsTypeOK
<1>5. ASSUME NEW p \in Asker, authorizeThenSignDownload(p) \/ FindVersion(p)
      PROVE  DownloadsInv'
  <2>1. asking[p] # NULL /\ asking[p] \in Asking /\ UNCHANGED <<held, logged, given>>
    BY <1>5, <1>a DEF authorizeThenSignDownload, FindVersion
  <2> DEFINE d == asking[p].doc
  <2>2. d \in Held /\ held[d].key \in 1 .. held[d].key
    BY <1>0, <2>1 DEF Asking, HeldRow
  <2>3. PICK step \in {"versions", "log"}, key \in 1 .. held[d].key :
          \/ asking' = [asking EXCEPT ![p] = [asking[p] EXCEPT !.step = step, !.key = key]]
          \/ asking' = [asking EXCEPT ![p] = NULL]
    <3>1. CASE authorizeThenSignDownload(p)
      BY <1>0, <2>1, <2>2, <3>1 DEF authorizeThenSignDownload, DownloadsTypeOK
    <3>2. CASE FindVersion(p)
      <4>1. CASE asking[p].version \in VersionRows(d)
        <5>1. asking[p].version \in 1 .. held[d].key
          BY <1>0, <2>2, <4>1 DEF VersionRows, HeldRow
        <5> QED
          BY <1>0, <2>1, <3>2, <5>1 DEF FindVersion, DownloadsTypeOK
      <4>2. CASE asking[p].version \notin VersionRows(d)
        BY <1>0, <2>1, <2>2, <3>2, <4>2 DEF FindVersion, DownloadsTypeOK
      <4> QED
        BY <4>1, <4>2
    <3> QED
      BY <1>5, <3>1, <3>2
  <2> QED
    BY <1>4, <2>1, <2>3
<1>6. ASSUME NEW p \in Asker, recordDownload(p) PROVE DownloadsInv'
  <2>1. asking[p] # NULL /\ asking[p] \in Asking /\ asking[p].step = "log" /\ AskingOK(p)
    BY <1>a, <1>6 DEF recordDownload, Step
  <2> DEFINE a == [asking[p] EXCEPT !.step = "answer"]
  <2>2. a \in Asking /\ a.doc = asking[p].doc /\ a.key = asking[p].key /\ a.doc \in Held
    BY <2>1 DEF Asking
  <2>3. /\ asking' = [asking EXCEPT ![p] = a] /\ UNCHANGED <<held, given>>
        /\ logged' = logged \cup {<<p, a.doc>>}
    BY <1>6, <2>1, <2>2 DEF recordDownload, Step
  <2> HIDE DEF a
  <2>4. AskingOK(p)'
    BY <1>0, <2>1, <2>2, <2>3 DEF AskingOK, DownloadsTypeOK
  <2>5. logged' \subseteq Asker \X Held
    BY <1>0, <2>2, <2>3 DEF DownloadsTypeOK
  <2> QED
    BY <2>2, <2>3, <2>4, <2>5, AskerStep
<1>7. ASSUME NEW p \in Asker, AnswerUrl(p) PROVE DownloadsInv'
  <2>1. /\ asking[p] # NULL /\ asking[p] \in Asking /\ asking[p].step = "answer"
        /\ asking[p].key \in 1 .. held[asking[p].doc].key
        /\ <<p, asking[p].doc>> \in logged
    BY <1>a, <1>7 DEF AnswerUrl, AskingOK
  <2> DEFINE g == [doc |-> asking[p].doc, key |-> asking[p].key]
  <2>2. asking[p].doc \in Held /\ asking[p].key \in 1 .. MaxHeld
    BY <1>0, <2>1 DEF Asking, HeldRow
  <2>3. /\ given' = [given EXCEPT ![p] = g] /\ asking' = [asking EXCEPT ![p] = NULL]
        /\ UNCHANGED <<held, logged>>
    BY <1>7 DEF AnswerUrl
  <2>4. g \in [doc : Held, key : 1 .. MaxHeld] /\ g.doc = asking[p].doc /\ g.key = asking[p].key
    BY <2>2
  <2> HIDE DEF g
  <2>5. DownloadsTypeOK'
    BY <1>0, <2>3, <2>4 DEF DownloadsTypeOK
  <2>6. ASSUME NEW q \in Asker PROVE AskingOK(q)'
    BY <1>0, <2>3 DEF DownloadsInv, DownloadsTypeOK, AskingOK
  <2>7. GivenIsLogged'
    <3> SUFFICES ASSUME NEW q \in Asker, given'[q] # NULL
        PROVE  <<q, given'[q].doc>> \in logged /\ given'[q].key <= held[given'[q].doc].key
      BY <2>3 DEF GivenIsLogged
    <3>1. CASE q = p
      <4>1. given'[q] = g
        BY <1>0, <2>3, <3>1 DEF DownloadsTypeOK
      <4> QED
        BY <2>1, <2>4, <3>1, <4>1
    <3>2. CASE q # p
      BY <1>0, <2>3, <3>2 DEF DownloadsInv, DownloadsTypeOK, GivenIsLogged
    <3> QED
      BY <3>1, <3>2
  <2> QED
    BY <2>5, <2>6, <2>7 DEF DownloadsInv
<1>8. ASSUME NEW p \in Asker, AskerFails(p) PROVE DownloadsInv'
  <2>1. asking' = [asking EXCEPT ![p] = NULL] /\ UNCHANGED <<held, logged, given>>
    BY <1>8 DEF AskerFails
  <2>2. AskingOK(p)'
    BY <1>0, <2>1 DEF AskingOK, DownloadsTypeOK
  <2> QED
    BY <1>0, <2>1, <2>2, AskerStep DEF DownloadsTypeOK
<1>9. CASE UNCHANGED downloadsVars
  BY <1>9 DEF downloadsVars, DownloadsInv, DownloadsTypeOK, AskingOK, GivenIsLogged
<1> QED
  BY <1>1, <1>3, <1>5, <1>6, <1>7, <1>8, <1>9 DEF DownloadsNext

-----------------------------------------------------------------------------
(***************************************************************************)
(* The state store.  Of a key that did not go astray, at most one command  *)
(* has written a change that no event tells yet, and what it wrote is      *)
(* still there.                                                            *)
(***************************************************************************)
AccountOf(k) ==
  /\ Unappended(k) = {} => TheySay(k, state[k])
  /\ \A c \in Unappended(k) : Unappended(k) = {c} /\ change[c].new[k] = state[k]

StateStoreInv ==
  /\ StateStoreTypeOK
  /\ \A k \in Key \ astray : AccountOf(k)

LEMMA StateStoreInitInv == StateStoreInit => StateStoreInv
<1> SUFFICES ASSUME StateStoreInit PROVE StateStoreInv
  OBVIOUS
<1>1. state \in [Key -> Value] /\ \A k \in Key : state[k] = NULL
  BY DEF StateStoreInit, Value
<1>2. events \in Seq(KeyValues) /\ Len(events) = 0
  BY DEF StateStoreInit
<1>3. /\ change \in [StateCli -> Change \cup {NULL}]
      /\ \A c \in StateCli : change[c] = NULL
  BY DEF StateStoreInit
<1>4. ASSUME NEW k \in Key PROVE AccountOf(k)
  <2>1. Unappended(k) = {}
    BY <1>3, Zenon DEF Unappended
  <2>2. Telling(k) = {}
    BY <1>2 DEF Telling
  <2> QED
    BY <1>1, <2>1, <2>2, Zenon DEF AccountOf, TheySay
<1> QED
  BY <1>1, <1>2, <1>3, <1>4 DEF StateStoreInit, StateStoreInv, StateStoreTypeOK

LEMMA ChangeTyped ==
  ASSUME StateStoreInv, NEW c \in StateCli, change[c] # NULL
  PROVE  /\ change[c] \in Change
         /\ change[c].new \in KeyValues /\ DOMAIN change[c].new \subseteq Key
         /\ change[c].tells \subseteq DOMAIN change[c].new
         /\ change[c].tells \subseteq Key
         /\ change[c].read \in [Key -> Value]
         /\ \A k \in DOMAIN change[c].new : change[c].new[k] \in Value
<1>1. change[c] \in Change
  BY DEF StateStoreInv, StateStoreTypeOK
<1>2. PICK D \in SUBSET Key : change[c].new \in [D -> Value]
  BY <1>1 DEF Change, KeyValues
<1>3. DOMAIN change[c].new = D /\ \A k \in D : change[c].new[k] \in Value
  BY <1>2
<1> QED
  BY <1>1, <1>2, <1>3 DEF StateStoreInv, StateStoreTypeOK, Change, KeyValues

\* A change of one command leaves what the others have to append.
LEMMA OthersUnappended ==
  ASSUME NEW c \in StateCli, NEW k \in Key,
         \A b \in StateCli \ {c} : change'[b] = change[b]
  PROVE  /\ Unappended(k)' \subseteq Unappended(k) \cup {c}
         /\ Unappended(k) \subseteq Unappended(k)' \cup {c}
BY DEF Unappended

LEMMA PrepareStep ==
  ASSUME StateStoreInv, NEW c \in StateCli, NEW new \in KeyValues, NEW tells \in SUBSET Key,
         tells \subseteq DOMAIN new, Prepare(c, new, tells)
  PROVE  StateStoreInv'
<1> DEFINE r == [new |-> new, tells |-> tells, read |-> state, written |-> FALSE]
<1>1. /\ change[c] = NULL /\ change' = [change EXCEPT ![c] = r]
      /\ UNCHANGED <<progress, state, events, astray>>
  BY DEF Prepare
<1>2. r \in Change /\ r.new = new /\ r.tells = tells /\ ~r.written
  BY DEF Change, StateStoreInv, StateStoreTypeOK
<1> HIDE DEF r
<1>3. /\ change' \in [StateCli -> Change \cup {NULL}] /\ change'[c] = r
      /\ \A b \in StateCli \ {c} : change'[b] = change[b]
  BY <1>1, <1>2 DEF StateStoreInv, StateStoreTypeOK
<1>4. \A b \in StateCli : change'[b] # NULL => change'[b].tells \subseteq DOMAIN change'[b].new
  BY <1>2, <1>3 DEF StateStoreInv, StateStoreTypeOK
<1>5. ASSUME NEW k \in Key \ astray' PROVE AccountOf(k)'
  <2>1. c \notin Unappended(k) /\ c \notin Unappended(k)'
    BY <1>1, <1>2, <1>3 DEF Unappended
  <2>2. Unappended(k)' = Unappended(k)
    BY <1>3, <2>1, OthersUnappended
  <2>3. \A b \in Unappended(k) : change'[b] = change[b]
    BY <1>3, <2>1 DEF Unappended
  <2>4. TheySay(k, state[k])' = TheySay(k, state[k])
    BY <1>1 DEF TheySay, Telling
  <2> QED
    BY <1>1, <2>2, <2>3, <2>4 DEF StateStoreInv, StateStoreTypeOK, AccountOf
<1> QED
  BY <1>1, <1>3, <1>4, <1>5 DEF StateStoreInv, StateStoreTypeOK

LEMMA WriteStep ==
  ASSUME StateStoreInv, NEW c \in StateCli, writeState(c)
  PROVE  StateStoreInv'
<1>0. change[c] # NULL /\ ~change[c].written
  BY DEF writeState
<1> DEFINE old == change[c]
           r == [change[c] EXCEPT !.written = TRUE]
<1>1. /\ old \in Change /\ old.tells \subseteq DOMAIN old.new /\ DOMAIN old.new \subseteq Key
      /\ old.read \in [Key -> Value] /\ \A k \in DOMAIN old.new : old.new[k] \in Value
  BY <1>0, ChangeTyped
<1>2. r \in Change /\ r.new = old.new /\ r.tells = old.tells /\ r.written
  BY <1>1 DEF Change
<1>3. change' = [change EXCEPT ![c] = r] /\ UNCHANGED <<progress, events>>
  BY DEF writeState, StateStoreInv, StateStoreTypeOK
<1> HIDE DEF r
<1>4. /\ change' \in [StateCli -> Change \cup {NULL}] /\ change'[c] = r
      /\ \A b \in StateCli \ {c} : change'[b] = change[b]
  BY <1>2, <1>3 DEF StateStoreInv, StateStoreTypeOK
<1>5. \A b \in StateCli : change'[b] # NULL => change'[b].tells \subseteq DOMAIN change'[b].new
  BY <1>0, <1>1, <1>2, <1>4 DEF StateStoreInv, StateStoreTypeOK
<1>6. /\ state' \in [Key -> Value]
      /\ \A k \in DOMAIN old.new : state'[k] = old.new[k]
  BY <1>1 DEF writeState
<1>7. /\ astray' \subseteq Key
      /\ \A k \in Key \ astray' : IF k \in old.tells THEN Unappended(k) = {}
                                 ELSE k \notin astray /\ state'[k] = state[k]
  BY DEF writeState
<1>8. ASSUME NEW k \in Key \ astray' PROVE AccountOf(k)'
  <2>1. CASE k \in old.tells
    <3>1. Unappended(k) = {} /\ state'[k] = old.new[k]
      BY <1>1, <1>6, <1>7, <2>1
    <3>2. c \in Unappended(k)'
      <4>1. r # NULL
        BY <1>2, NoChangeAssumption
      <4> QED
        BY <1>2, <1>4, <2>1, <4>1 DEF Unappended
    <3>3. Unappended(k)' = {c}
      BY <1>4, <3>1, <3>2, OthersUnappended
    <3> QED
      BY <1>2, <1>4, <3>1, <3>3 DEF AccountOf
  <2>2. CASE k \notin old.tells
    <3>1. k \notin astray /\ state'[k] = state[k] /\ AccountOf(k)
      BY <1>7, <2>2 DEF StateStoreInv, StateStoreTypeOK
    <3>2. c \notin Unappended(k) /\ c \notin Unappended(k)'
      BY <1>2, <1>4, <2>2 DEF Unappended
    <3>3. Unappended(k)' = Unappended(k)
      BY <1>4, <3>2, OthersUnappended
    <3>4. \A b \in Unappended(k) : change'[b] = change[b]
      BY <1>4, <3>2 DEF Unappended
    <3>5. TheySay(k, state[k])' = TheySay(k, state[k])
      BY <1>3, <3>1 DEF TheySay, Telling
    <3> QED
      BY <3>1, <3>3, <3>4, <3>5 DEF AccountOf
  <2> QED
    BY <2>1, <2>2
<1> QED
  BY <1>3, <1>4, <1>5, <1>6, <1>7, <1>8 DEF StateStoreInv, StateStoreTypeOK

\* What an event says, and what the events say after it.
LEMMA LastWord ==
  ASSUME StateStoreInv, NEW event \in KeyValues, events' = Append(events, event),
         NEW k \in Key, NEW v
  PROVE  /\ k \in DOMAIN event /\ event[k] = v => TheySay(k, v)'
         /\ k \notin DOMAIN event /\ TheySay(k, v) => TheySay(k, v)'
<1>0. events \in Seq(KeyValues) /\ Len(events) \in Nat
  BY DEF StateStoreInv, StateStoreTypeOK
<1>1. /\ Len(events') = Len(events) + 1 /\ events'[Len(events) + 1] = event
      /\ \A i \in 1 .. Len(events) : events'[i] = events[i]
  BY <1>0
<1>2. CASE k \in DOMAIN event /\ event[k] = v
  <2>1. Len(events) + 1 \in Telling(k)' /\ \A j \in Telling(k)' : j <= Len(events) + 1
    BY <1>0, <1>1, <1>2 DEF Telling
  <2> QED
    BY <1>1, <1>2, <2>1 DEF TheySay
<1>3. CASE k \notin DOMAIN event /\ TheySay(k, v)
  <2>1. Telling(k)' = Telling(k)
    BY <1>0, <1>1, <1>3 DEF Telling
  <2>2. \A i \in Telling(k) : events'[i] = events[i]
    BY <1>1 DEF Telling
  <2> QED
    BY <1>3, <2>1, <2>2 DEF TheySay
<1> QED
  BY <1>2, <1>3

LEMMA AppendEventStep ==
  ASSUME StateStoreInv, NEW c \in StateCli, appendEvent(c)
  PROVE  StateStoreInv'
<1> DEFINE old == change[c]
           event == [k \in old.tells |-> old.new[k]]
<1>0. /\ old # NULL /\ old.written /\ events' = Append(events, event)
      /\ change' = [change EXCEPT ![c] = NULL] /\ UNCHANGED <<progress, state, astray>>
  BY DEF appendEvent
<1>1. /\ old \in Change /\ old.tells \subseteq DOMAIN old.new /\ old.tells \subseteq Key
      /\ \A k \in DOMAIN old.new : old.new[k] \in Value
  BY <1>0, ChangeTyped
<1>2. event \in KeyValues /\ DOMAIN event = old.tells /\ \A k \in old.tells : event[k] = old.new[k]
  <2>1. event \in [old.tells -> Value]
    BY <1>1
  <2> QED
    BY <1>1, <2>1 DEF KeyValues
<1> HIDE DEF event
<1>3. /\ change' \in [StateCli -> Change \cup {NULL}] /\ change'[c] = NULL
      /\ \A b \in StateCli \ {c} : change'[b] = change[b]
  BY <1>0 DEF StateStoreInv, StateStoreTypeOK
<1>4. events' \in Seq(KeyValues)
  BY <1>0, <1>2 DEF StateStoreInv, StateStoreTypeOK
<1>5. ASSUME NEW k \in Key \ astray PROVE AccountOf(k)'
  <2>0. AccountOf(k) /\ c \notin Unappended(k)'
    BY <1>3 DEF StateStoreInv, StateStoreTypeOK, Unappended
  <2>1. CASE k \in old.tells
    <3>1. c \in Unappended(k)
      BY <1>0, <2>1 DEF Unappended
    <3>2. Unappended(k) = {c} /\ old.new[k] = state[k]
      BY <2>0, <3>1 DEF AccountOf
    <3>3. Unappended(k)' = {}
      BY <1>3, <2>0, <3>2, OthersUnappended
    <3>4. TheySay(k, state[k])'
      BY <1>0, <1>2, <2>1, <3>2, LastWord
    <3> QED
      BY <3>3, <3>4 DEF AccountOf
  <2>2. CASE k \notin old.tells
    <3>1. c \notin Unappended(k)
      BY <2>2 DEF Unappended
    <3>2. Unappended(k)' = Unappended(k)
      BY <1>3, <2>0, <3>1, OthersUnappended
    <3>3. \A b \in Unappended(k) : change'[b] = change[b]
      BY <1>3, <3>1 DEF Unappended
    <3>4. TheySay(k, state[k]) => TheySay(k, state[k])'
      BY <1>0, <1>2, <2>2, LastWord
    <3> QED
      BY <1>0, <2>0, <3>2, <3>3, <3>4 DEF AccountOf
  <2> QED
    BY <2>1, <2>2
<1> QED
  BY <1>0, <1>3, <1>4, <1>5 DEF StateStoreInv, StateStoreTypeOK

LEMMA StateDeathStep ==
  ASSUME StateStoreInv, NEW c \in StateCli, StateCommandDies(c)
  PROVE  StateStoreInv'
<1>0. /\ change[c] # NULL /\ change' = [change EXCEPT ![c] = NULL]
      /\ UNCHANGED <<progress, state, events>>
      /\ astray' = IF change[c].written THEN astray \cup change[c].tells ELSE astray
  BY DEF StateCommandDies
<1>1. change[c].tells \subseteq Key
  BY <1>0, ChangeTyped
<1>3. /\ change' \in [StateCli -> Change \cup {NULL}] /\ change'[c] = NULL
      /\ \A b \in StateCli \ {c} : change'[b] = change[b]
  BY <1>0 DEF StateStoreInv, StateStoreTypeOK
<1>4. astray' \subseteq Key
  BY <1>0, <1>1 DEF StateStoreInv, StateStoreTypeOK
<1>5. ASSUME NEW k \in Key \ astray' PROVE AccountOf(k)'
  <2>1. AccountOf(k) /\ c \notin Unappended(k) /\ c \notin Unappended(k)'
    BY <1>0, <1>3 DEF StateStoreInv, StateStoreTypeOK, Unappended
  <2>2. Unappended(k)' = Unappended(k)
    BY <1>3, <2>1, OthersUnappended
  <2>3. \A b \in Unappended(k) : change'[b] = change[b]
    BY <1>3, <2>1 DEF Unappended
  <2>4. TheySay(k, state[k])' = TheySay(k, state[k])
    BY <1>0 DEF TheySay, Telling
  <2> QED
    BY <1>0, <2>1, <2>2, <2>3, <2>4 DEF AccountOf
<1> QED
  BY <1>0, <1>3, <1>4, <1>5 DEF StateStoreInv, StateStoreTypeOK

LEMMA StateStoreStep == StateStoreInv /\ [StateStoreNext]_stateStoreVars => StateStoreInv'
<1> SUFFICES ASSUME StateStoreInv, [StateStoreNext]_stateStoreVars PROVE StateStoreInv'
  OBVIOUS
<1>1. ASSUME NEW c \in StateCli, NEW k \in Key, NEW v \in Value, PrepareOne(c, k, v)
      PROVE  StateStoreInv'
  <2>1. [j \in {k} |-> v] \in [{k} -> Value] /\ DOMAIN [j \in {k} |-> v] = {k}
    OBVIOUS
  <2>2. [j \in {k} |-> v] \in KeyValues
    BY <2>1 DEF KeyValues
  <2> QED
    BY <1>1, <2>1, <2>2, PrepareStep DEF PrepareOne
<1>2. ASSUME NEW c \in StateCli, NEW to \in Phase, cmdPhaseTransition(c, to)
      PROVE  StateStoreInv'
  BY <1>1, <1>2 DEF cmdPhaseTransition, Key, Value
<1>3. ASSUME NEW c \in StateCli, NEW pr \in PullRequest,
             cmdMergeCheckpoint(c, pr) \/ \E passed \in BOOLEAN : cmdPostMerge(c, pr, passed)
      PROVE  StateStoreInv'
  <2>1. pr \in Key /\ "awaiting" \in Value /\ NULL \in Value
    BY DEF Key, Value
  <2> QED
    BY <1>1, <1>3, <2>1 DEF cmdMergeCheckpoint, cmdPostMerge
<1>4. ASSUME NEW c \in StateCli, migrate(c) PROVE StateStoreInv'
  <2>1. progress \in [Key -> Value]
    BY DEF StateStoreInv, StateStoreTypeOK, ProgressSections
  <2>2. progress \in KeyValues /\ DOMAIN progress = Key
    BY <2>1 DEF KeyValues
  <2>3. {"brief", "phase"} \in SUBSET Key
    BY DEF Key
  <2> QED
    BY <1>4, <2>2, <2>3, PrepareStep DEF migrate
<1>5. CASE UNCHANGED stateStoreVars
  <2>1. /\ UNCHANGED <<progress, state, events, change, astray>>
    BY <1>5 DEF stateStoreVars
  <2> QED
    BY <2>1 DEF StateStoreInv, StateStoreTypeOK, AccountOf, Unappended, TheySay, Telling
<1> QED
  BY <1>2, <1>3, <1>4, <1>5, WriteStep, AppendEventStep, StateDeathStep DEF StateStoreNext

LEMMA EventsAccount == StateStoreInv => EventsAccountForState
BY DEF StateStoreInv, StateStoreTypeOK, EventsAccountForState, AccountOf

-----------------------------------------------------------------------------
(***************************************************************************)
(* The task files.  What is written to a log is decided by the status of   *)
(* the file that was read, and that status is what its last move left: so  *)
(* a log grows by legal moves only, though the guards look at the status   *)
(* alone.  That a log which has moves has a first and a last one is part   *)
(* of the invariant.                                                       *)
(***************************************************************************)
HasEnds(log) ==
  Moves(log) # {} => /\ \E i \in Moves(log) : \A j \in Moves(log) : i <= j
                     /\ \E i \in Moves(log) : \A j \in Moves(log) : j <= i

GoodFile(md) == md \in File /\ LegalFile(md) /\ HasEnds(md.log)

Edit == [task : Task, dir : {"tasks", "done"}, read : File, write : File]
          \cup [task : Task, dir : {"archive"}, read : File]

EditOK(e) ==
  /\ GoodFile(e.read)
  /\ e.dir # "archive" => GoodFile(e.write)
  /\ e.dir = "archive" => e.read.status = "done"
  /\ e.dir = "done" => e.write.status = e.read.status

InOnePlace(t) ==
  /\ doneDir[t] # NULL => doneDir[t].status = "done"
  /\ tasksDir[t] = NULL \/ doneDir[t] = NULL

TaskFilesInv ==
  /\ tasksDir \in [Task -> FileOrNull]
  /\ doneDir \in [Task -> FileOrNull]
  /\ edit \in [Cli -> Edit \cup {NULL}]
  /\ raced \subseteq Task
  /\ \A t \in Task : /\ tasksDir[t] # NULL => GoodFile(tasksDir[t])
                     /\ doneDir[t] # NULL => GoodFile(doneDir[t])
                     /\ tasksDir[t] # NULL \/ doneDir[t] # NULL
                     /\ t \notin raced => InOnePlace(t)
  /\ \A c \in Cli : edit[c] # NULL => EditOK(edit[c])

-----------------------------------------------------------------------------
(***************************************************************************)
(* Logs that grow.                                                         *)
(***************************************************************************)
LEMMA MovesAppend ==
  ASSUME NEW log \in Seq(Entry), NEW entry \in Entry
  PROVE  /\ Append(log, entry) \in Seq(Entry)
         /\ Len(log) \in Nat
         /\ Moves(log) \subseteq 1 .. Len(log)
         /\ \A i \in Moves(log) : Append(log, entry)[i] = log[i] /\ i <= Len(log)
         /\ Append(log, entry)[Len(log) + 1] = entry
         /\ entry = "note" => Moves(Append(log, entry)) = Moves(log)
         /\ entry # "note" =>
              /\ Moves(Append(log, entry)) = Moves(log) \cup {Len(log) + 1}
              /\ Len(log) + 1 \in Moves(Append(log, entry))
<1>1. /\ Append(log, entry) \in Seq(Entry) /\ Len(log) \in Nat
      /\ Len(Append(log, entry)) = Len(log) + 1
      /\ Append(log, entry)[Len(log) + 1] = entry
      /\ \A i \in 1 .. Len(log) : Append(log, entry)[i] = log[i]
  OBVIOUS
<1> QED
  BY <1>1 DEF Moves

\* A note moves nothing.
LEMMA NoteKeepsGood ==
  ASSUME NEW old, GoodFile(old), NEW new \in File,
         new.status = old.status, new.log = Append(old.log, "note")
  PROVE  GoodFile(new)
<1>1. old.log \in Seq(Entry) /\ "note" \in Entry
  BY DEF GoodFile, File, Entry
<1>2. Moves(new.log) = Moves(old.log) /\ \A i \in Moves(old.log) : new.log[i] = old.log[i]
  BY <1>1, MovesAppend
<1> QED
  BY <1>2 DEF GoodFile, LegalFile, HasEnds

\* A move that may follow the last one, to the status it leads to.
LEMMA MoveKeepsGood ==
  ASSUME NEW old, GoodFile(old), NEW new \in File, NEW entry \in Entry \ {"note"},
         new.status = StatusAfter(entry), new.log = Append(old.log, entry),
         Moves(old.log) = {} => entry = "start",
         \A i \in Moves(old.log) :
           (\A j \in Moves(old.log) : j <= i) => entry \in MayFollow(old.log[i])
  PROVE  GoodFile(new)
<1> DEFINE n == Len(old.log)
           M == Moves(old.log)
<1>1. /\ old.log \in Seq(Entry) /\ entry \in Entry /\ LegalFile(old) /\ HasEnds(old.log)
  BY DEF GoodFile, File
<1>2. /\ Moves(new.log) = M \cup {n + 1} /\ new.log[n + 1] = entry /\ n \in Nat
      /\ M \subseteq 1 .. n
      /\ \A i \in M : new.log[i] = old.log[i]
  BY <1>1, MovesAppend
<1>2a. /\ \A i \in M : i \in Nat /\ i <= n
       /\ \A i \in Moves(new.log) : i \in M \/ i = n + 1
       /\ \A i \in M : i \in Moves(new.log)
       /\ n + 1 \in Moves(new.log) /\ n \in Nat
  BY <1>2
<1>2b. new.log[n + 1] = entry /\ \A i \in M : new.log[i] = old.log[i]
  BY <1>2
<1> HIDE DEF n, M
<1>3. HasEnds(new.log)
  <2>1. \A j \in Moves(new.log) : j <= n + 1
    BY <1>2a, <1>2b
  <2>2. \E i \in Moves(new.log) : \A j \in Moves(new.log) : i <= j
    <3>1. CASE M = {}
      BY <1>2a, <1>2b, <3>1
    <3>2. CASE M # {}
      <4>1. PICK i \in M : \A j \in M : i <= j
        BY <1>1, <3>2 DEF HasEnds, M
      <4> QED
        BY <1>2a, <1>2b, <4>1
    <3> QED
      BY <3>1, <3>2
  <2> QED
    BY <1>2a, <1>2b, <2>1, <2>2 DEF HasEnds
<1>4. ASSUME NEW i \in Moves(new.log), \A j \in Moves(new.log) : i <= j
      PROVE  new.log[i] = "start"
  <2>1. CASE M = {}
    BY <1>2a, <1>2b, <2>1, <1>4 DEF M
  <2>2. CASE M # {}
    <3>1. i \in M
      BY <1>2a, <1>2b, <1>4, <2>2
    <3> QED
      BY <1>1, <1>2, <1>2a, <1>4, <3>1 DEF LegalFile, M
  <2> QED
    BY <2>1, <2>2
<1>5. ASSUME NEW i \in Moves(new.log), \A j \in Moves(new.log) : j <= i
      PROVE  new.status = StatusAfter(new.log[i])
  <2>1. i = n + 1
    BY <1>2a, <1>5
  <2> QED
    BY <1>2b, <2>1
<1>6. ASSUME NEW i \in Moves(new.log), NEW j \in Moves(new.log), i < j,
             \A k \in i + 1 .. j - 1 : k \notin Moves(new.log)
      PROVE  new.log[j] \in MayFollow(new.log[i])
  <2>0. i \in M
    BY <1>2a, <1>2b, <1>6
  <2>1. CASE j \in M
    <3>1. \A k \in i + 1 .. j - 1 : k \notin M
      BY <1>2a, <1>2b, <1>6
    <3> QED
      BY <1>1, <1>2, <1>2a, <1>6, <2>0, <2>1, <3>1 DEF LegalFile, M
  <2>2. CASE j = n + 1
    <3>1. \A k \in M : k <= i
      BY <1>2a, <1>2b, <1>6, <2>0, <2>2
    <3> QED
      BY <1>2a, <1>2b, <2>0, <2>2, <3>1 DEF M
  <2> QED
    BY <1>2a, <1>2b, <2>1, <2>2
<1>7. Moves(new.log) # {}
  BY <1>2a, <1>2b
<1>8. LegalFile(new)
  BY <1>4, <1>5, <1>6, <1>7 DEF LegalFile
<1> QED
  BY <1>3, <1>8 DEF GoodFile

\* What the status of a file tells of its log.
LEMMA StatusTells ==
  ASSUME NEW md, GoodFile(md)
  PROVE  /\ md.status = "backlog" => Moves(md.log) = {}
         /\ md.status # "backlog" => Moves(md.log) # {}
         /\ md.status = "in-progress" => "start" \in ToSet(md.log)
         /\ \A i \in Moves(md.log) : (\A j \in Moves(md.log) : j <= i) =>
              /\ md.status = "in-progress" => md.log[i] \in {"start", "reject"}
              /\ md.status = "review" => md.log[i] = "review"
<1>0. /\ md.log \in Seq(Entry) /\ LegalFile(md) /\ HasEnds(md.log)
      /\ \A i \in Moves(md.log) : i \in 1 .. Len(md.log) /\ md.log[i] \in Entry \ {"note"}
  BY DEF GoodFile, File, Moves
<1>1. ASSUME NEW i \in Moves(md.log), \A j \in Moves(md.log) : j <= i
      PROVE  md.status = StatusAfter(md.log[i]) /\ md.log[i] \in Entry \ {"note"}
  BY <1>0, <1>1 DEF LegalFile
<1>2. /\ StatusAfter("start") = "in-progress" /\ StatusAfter("reject") = "in-progress"
      /\ StatusAfter("review") = "review" /\ StatusAfter("done") = "done"
  BY DEF StatusAfter
<1>3. md.status = "backlog" => Moves(md.log) = {}
  BY <1>0, <1>1, <1>2 DEF HasEnds, Entry
<1>4. md.status # "backlog" => Moves(md.log) # {}
  BY <1>0 DEF LegalFile
<1>5. md.status = "in-progress" => "start" \in ToSet(md.log)
  <2> SUFFICES ASSUME md.status = "in-progress" PROVE "start" \in ToSet(md.log)
    OBVIOUS
  <2>1. PICK i \in Moves(md.log) : \A j \in Moves(md.log) : i <= j
    BY <1>0, <1>4 DEF HasEnds
  <2>2. md.log[i] = "start" /\ i \in 1 .. Len(md.log)
    BY <1>0, <2>1 DEF LegalFile
  <2>3. ToSet(md.log) = {md.log[k] : k \in DOMAIN md.log} /\ DOMAIN md.log = 1 .. Len(md.log)
    BY <1>0 DEF ToSet
  <2> QED
    BY <2>2, <2>3
<1> QED
  BY <1>1, <1>2, <1>3, <1>4, <1>5 DEF Entry

\* What the commands write.
LEMMA Logged ==
  ASSUME NEW f \in File, NEW entry \in Entry
  PROVE  /\ [f EXCEPT !.log = Append(@, entry)] \in File
         /\ [f EXCEPT !.log = Append(@, entry)].status = f.status
         /\ [f EXCEPT !.log = Append(@, entry)].log = Append(f.log, entry)
<1>1. Append(f.log, entry) \in Seq(Entry)
  BY DEF File
<1> QED
  BY <1>1 DEF File

LEMMA Restated ==
  ASSUME NEW f \in File, NEW s \in TaskStatus
  PROVE  /\ [f EXCEPT !.status = s] \in File
         /\ [f EXCEPT !.status = s].status = s
         /\ [f EXCEPT !.status = s].log = f.log
         /\ [f EXCEPT !.status = s, !.complexity_actual = TRUE] \in File
         /\ [f EXCEPT !.status = s, !.complexity_actual = TRUE].status = s
         /\ [f EXCEPT !.status = s, !.complexity_actual = TRUE].log = f.log
BY DEF File

LEMMA MoveLogged ==
  ASSUME NEW old, GoodFile(old), NEW new \in File, NEW entry \in Entry \ {"note"},
         new.log = old.log, new.status = StatusAfter(entry),
         Moves(old.log) = {} => entry = "start",
         \A i \in Moves(old.log) :
           (\A j \in Moves(old.log) : j <= i) => entry \in MayFollow(old.log[i])
  PROVE  GoodFile([new EXCEPT !.log = Append(@, entry)])
<1> DEFINE w == [new EXCEPT !.log = Append(@, entry)]
<1>1. w \in File /\ w.status = new.status /\ w.log = Append(old.log, entry)
  BY Logged
<1> HIDE DEF w
<1>2. GoodFile(w)
  BY <1>1, MoveKeepsGood
<1> QED
  BY <1>2 DEF w

LEMMA TaskFilesInitInv == TaskFilesInit => TaskFilesInv
<1> SUFFICES ASSUME TaskFilesInit PROVE TaskFilesInv
  OBVIOUS
<1> DEFINE new == [status |-> "backlog", complexity_actual |-> FALSE, log |-> <<>>]
<1>1. new \in File /\ new.status = "backlog" /\ Moves(new.log) = {}
  BY DEF File, TaskStatus, Moves, Entry
<1>2. GoodFile(new)
  BY <1>1 DEF GoodFile, LegalFile, HasEnds
<1>3. \A t \in Task : tasksDir[t] = new /\ doneDir[t] = NULL
  BY DEF TaskFilesInit
<1>4. new # NULL
  BY <1>1, NoFileAssumption
<1>5. /\ tasksDir \in [Task -> FileOrNull] /\ doneDir \in [Task -> FileOrNull]
      /\ edit \in [Cli -> Edit \cup {NULL}] /\ \A c \in Cli : edit[c] = NULL
      /\ raced = {}
  BY <1>1 DEF TaskFilesInit, FileOrNull
<1> HIDE DEF new
<1> QED
  BY <1>2, <1>3, <1>4, <1>5 DEF TaskFilesInv, InOnePlace

-----------------------------------------------------------------------------
(***************************************************************************)
(* The commands.                                                           *)
(***************************************************************************)
LEMMA FileFound ==
  ASSUME TaskFilesInv, NEW t \in Task, NEW b \in BOOLEAN, resolveTaskFile(t, b) # NULL
  PROVE  /\ resolveTaskFile(t, b) \in {"tasks", "done"}
         /\ ~b => resolveTaskFile(t, b) = "tasks"
         /\ GoodFile(FileIn(resolveTaskFile(t, b), t))
<1>1. tasksDir[t] # NULL => resolveTaskFile(t, b) = "tasks"
  BY DEF resolveTaskFile
<1>2. tasksDir[t] = NULL => b /\ resolveTaskFile(t, b) = "done" /\ doneDir[t] # NULL
  BY DEF resolveTaskFile, TaskFilesInv
<1> QED
  BY <1>1, <1>2 DEF FileIn, TaskFilesInv

LEMMA ReadKeeps ==
  ASSUME TaskFilesInv, NEW c \in Cli, NEW t \in Task, NEW dir \in {"tasks", "done"},
         GoodFile(FileIn(dir, t)), NEW entry \in Entry, NEW new \in File,
         GoodFile([new EXCEPT !.log = Append(@, entry)]),
         dir = "done" => new.status = FileIn(dir, t).status,
         ReadAndEdit(c, t, dir, entry, new)
  PROVE  TaskFilesInv'
<1> DEFINE w == [new EXCEPT !.log = Append(@, entry)]
           e == [task |-> t, dir |-> dir, read |-> FileIn(dir, t), write |-> w]
<1>1. w \in File /\ w.status = new.status
  BY Logged
<1>2. GoodFile(w)
  OBVIOUS
<1>3. edit' = [edit EXCEPT ![c] = e] /\ UNCHANGED <<tasksDir, doneDir, raced>>
  BY DEF ReadAndEdit
<1> HIDE DEF w
<1>4. e \in Edit /\ EditOK(e)
  BY <1>1, <1>2 DEF Edit, EditOK, GoodFile
<1> HIDE DEF e
<1> QED
  BY <1>3, <1>4 DEF TaskFilesInv, InOnePlace

LEMMA CommandKeeps ==
  ASSUME TaskFilesInv, NEW c \in Cli, NEW t \in Task, TaskCommand(c, t)
  PROVE  TaskFilesInv'
<1>0. {"start", "review", "reject", "done", "note"} \subseteq Entry
      /\ {"backlog", "in-progress", "review", "done"} \subseteq TaskStatus
  BY DEF Entry, TaskStatus
<1> DEFINE old == FileIn(resolveTaskFile(t, FALSE), t)
<1>1. ASSUME resolveTaskFile(t, FALSE) # NULL
      PROVE  /\ resolveTaskFile(t, FALSE) = "tasks" /\ GoodFile(old) /\ old \in File
             /\ old = FileIn("tasks", t)
  BY <1>1, FileFound DEF GoodFile
<1>1a. ASSUME NEW entry \in Entry, NEW new \in File, ReadAndEdit(c, t, "tasks", entry, new),
              GoodFile([new EXCEPT !.log = Append(@, entry)]), resolveTaskFile(t, FALSE) # NULL
       PROVE  TaskFilesInv'
  BY <1>1, <1>1a, ReadKeeps
<1>2. CASE cmdStart(c, t)
  <2>1. /\ resolveTaskFile(t, FALSE) # NULL
        /\ old.status \in {"backlog", "in-progress"}
        /\ old.status = "in-progress" => "start" \notin ToSet(old.log)
        /\ ReadAndEdit(c, t, "tasks", "start", [old EXCEPT !.status = "in-progress"])
    BY <1>1, <1>2 DEF cmdStart, workLogHasEntry
  <2> HIDE DEF old
  <2> DEFINE new == [old EXCEPT !.status = "in-progress"]
  <2>2. new \in File /\ new.status = "in-progress" /\ new.log = old.log
    BY <1>0, <1>1, <2>1, Restated
  <2> HIDE DEF new
  <2>3. Moves(old.log) = {} /\ StatusAfter("start") = "in-progress"
    BY <1>1, <2>1, StatusTells DEF StatusAfter
  <2>4. GoodFile([new EXCEPT !.log = Append(@, "start")])
    BY <1>0, <1>1, <2>1, <2>2, <2>3, MoveLogged
  <2> QED
    BY <1>0, <1>1a, <2>1, <2>2, <2>4 DEF new
<1>3. CASE cmdReview(c, t)
  <2>1. /\ resolveTaskFile(t, FALSE) # NULL
        /\ old.status = "in-progress"
        /\ ReadAndEdit(c, t, "tasks", "review",
                       [old EXCEPT !.status = "review", !.complexity_actual = TRUE])
    BY <1>1, <1>3 DEF cmdReview
  <2> HIDE DEF old
  <2> DEFINE new == [old EXCEPT !.status = "review", !.complexity_actual = TRUE]
  <2>2. new \in File /\ new.status = "review" /\ new.log = old.log
    BY <1>0, <1>1, <2>1, Restated
  <2> HIDE DEF new
  <2>3. /\ Moves(old.log) # {} /\ StatusAfter("review") = "review"
        /\ \A i \in Moves(old.log) : (\A j \in Moves(old.log) : j <= i) =>
             old.log[i] \in {"start", "reject"}
        /\ \A e \in {"start", "reject"} : MayFollow(e) = {"review"}
    BY <1>1, <2>1, StatusTells DEF StatusAfter, MayFollow
  <2>4. GoodFile([new EXCEPT !.log = Append(@, "review")])
    BY <1>0, <1>1, <2>1, <2>2, <2>3, MoveLogged
  <2> QED
    BY <1>0, <1>1a, <2>1, <2>2, <2>4 DEF new
<1>4. ASSUME NEW status \in {"done", "in-progress"}, NEW entry \in {"done", "reject"},
             status = StatusAfter(entry), old.status = "review",
             ReadAndEdit(c, t, "tasks", entry, [old EXCEPT !.status = status]),
             resolveTaskFile(t, FALSE) # NULL
      PROVE  TaskFilesInv'
  <2>1. status \in TaskStatus /\ entry \in Entry \ {"note"}
    BY <1>0
  <2> HIDE DEF old
  <2> DEFINE new == [old EXCEPT !.status = status]
  <2>2. new \in File /\ new.status = status /\ new.log = old.log
    BY <1>1, <1>4, <2>1, Restated
  <2> HIDE DEF new
  <2>3. /\ Moves(old.log) # {}
        /\ \A i \in Moves(old.log) : (\A j \in Moves(old.log) : j <= i) =>
             old.log[i] = "review"
        /\ MayFollow("review") = {"done", "reject"}
    BY <1>1, <1>4, StatusTells DEF MayFollow
  <2>4. GoodFile([new EXCEPT !.log = Append(@, entry)])
    BY <1>1, <1>4, <2>1, <2>2, <2>3, MoveLogged
  <2> QED
    BY <1>1a, <1>4, <2>1, <2>2, <2>4 DEF new
<1>5. CASE cmdDone(c, t)
  <2>1. /\ resolveTaskFile(t, FALSE) # NULL /\ old.status = "review"
        /\ ReadAndEdit(c, t, "tasks", "done", [old EXCEPT !.status = "done"])
        /\ StatusAfter("done") = "done"
    BY <1>1, <1>5 DEF cmdDone, StatusAfter
  <2> QED
    BY <1>4, <2>1
<1>6. CASE cmdReject(c, t)
  <2>1. /\ resolveTaskFile(t, FALSE) # NULL /\ old.status = "review"
        /\ ReadAndEdit(c, t, "tasks", "reject", [old EXCEPT !.status = "in-progress"])
        /\ StatusAfter("reject") = "in-progress"
    BY <1>1, <1>6 DEF cmdReject, StatusAfter
  <2> QED
    BY <1>4, <2>1
<1>7. CASE cmdLog(c, t)
  <2> DEFINE dir == resolveTaskFile(t, TRUE)
             found == FileIn(dir, t)
  <2>1. dir # NULL /\ ReadAndEdit(c, t, dir, "note", found)
    BY <1>7 DEF cmdLog, ReadAndEdit
  <2>2. dir \in {"tasks", "done"} /\ GoodFile(found) /\ found \in File
    BY <2>1, FileFound DEF GoodFile
  <2> HIDE DEF dir
  <2>3. GoodFile([found EXCEPT !.log = Append(@, "note")])
    <3> HIDE DEF found
    <3> DEFINE w == [found EXCEPT !.log = Append(@, "note")]
    <3>1. w \in File /\ w.status = found.status /\ w.log = Append(found.log, "note")
      BY <1>0, <2>2, Logged
    <3> HIDE DEF w
    <3>2. GoodFile(w)
      BY <2>2, <3>1, NoteKeepsGood
    <3> QED
      BY <3>2 DEF w
  <2> QED
    BY <1>0, <2>1, <2>2, <2>3, ReadKeeps
<1>8. CASE ArchiveRead(c, t)
  <2> DEFINE e == [task |-> t, dir |-> "archive", read |-> tasksDir[t]]
  <2>1. /\ GoodFile(tasksDir[t]) /\ tasksDir[t].status = "done"
        /\ edit' = [edit EXCEPT ![c] = e] /\ UNCHANGED <<tasksDir, doneDir, raced>>
    BY <1>8 DEF ArchiveRead, TaskFilesInv
  <2>2. e \in Edit /\ EditOK(e)
    BY <2>1 DEF Edit, EditOK, GoodFile
  <2> HIDE DEF e
  <2> QED
    BY <2>1, <2>2 DEF TaskFilesInv, InOnePlace
<1> QED
  BY <1>2, <1>3, <1>5, <1>6, <1>7, <1>8 DEF TaskCommand

-----------------------------------------------------------------------------
(***************************************************************************)
(* A write and a move put files in place that are good whatever they       *)
(* replace, and what they replace is as it was read unless it raced.       *)
(***************************************************************************)
LEMMA WriteKeeps ==
  ASSUME TaskFilesInv, NEW c \in Cli, atomicWriteFile(c)
  PROVE  TaskFilesInv'
<1> DEFINE e == edit[c]
           t == e.task
<1>1. e \in Edit /\ EditOK(e) /\ e.dir # "archive"
  BY DEF atomicWriteFile, TaskFilesInv
<1>2. /\ t \in Task /\ e.dir \in {"tasks", "done"} /\ GoodFile(e.write) /\ e.write \in File
      /\ e.dir = "done" => e.write.status = e.read.status
  BY <1>1 DEF Edit, EditOK, GoodFile
<1>3. e.write # NULL /\ e.read # NULL
  BY <1>1, <1>2, NoFileAssumption DEF EditOK, GoodFile
<1>4. /\ edit' = [edit EXCEPT ![c] = NULL]
      /\ raced' = IF FileIn(e.dir, t) = e.read THEN raced ELSE raced \cup {t}
      /\ e.dir = "tasks" => tasksDir' = [tasksDir EXCEPT ![t] = e.write] /\ UNCHANGED doneDir
      /\ e.dir = "done" => doneDir' = [doneDir EXCEPT ![t] = e.write] /\ UNCHANGED tasksDir
  BY <1>2 DEF atomicWriteFile
<1> HIDE DEF e
<1>5. /\ tasksDir' \in [Task -> FileOrNull] /\ doneDir' \in [Task -> FileOrNull]
      /\ edit' \in [Cli -> Edit \cup {NULL}] /\ raced' \subseteq Task
      /\ \A d \in Cli : edit'[d] # NULL => EditOK(edit'[d])
  BY <1>2, <1>4 DEF TaskFilesInv, FileOrNull
<1>6. ASSUME NEW u \in Task
      PROVE  /\ tasksDir'[u] # NULL => GoodFile(tasksDir'[u])
             /\ doneDir'[u] # NULL => GoodFile(doneDir'[u])
             /\ tasksDir'[u] # NULL \/ doneDir'[u] # NULL
  BY <1>2, <1>3, <1>4 DEF TaskFilesInv
<1>7. ASSUME NEW u \in Task, u \notin raced'
      PROVE  /\ doneDir'[u] # NULL => doneDir'[u].status = "done"
             /\ tasksDir'[u] = NULL \/ doneDir'[u] = NULL
  <2>1. u \notin raced /\ InOnePlace(u)
    BY <1>2, <1>4, <1>7 DEF TaskFilesInv
  <2>2. CASE u = t
    <3>1. FileIn(e.dir, t) = e.read
      BY <1>4, <1>7, <2>2
    <3> QED
      BY <1>2, <1>3, <1>4, <2>1, <2>2, <3>1 DEF FileIn, InOnePlace, TaskFilesInv
  <2>3. CASE u # t
    BY <1>2, <1>4, <2>1, <2>3 DEF InOnePlace, TaskFilesInv
  <2> QED
    BY <2>2, <2>3
<1> QED
  BY <1>5, <1>6, <1>7 DEF TaskFilesInv, InOnePlace

LEMMA MoveKeeps ==
  ASSUME TaskFilesInv, NEW c \in Cli, ArchiveMove(c)
  PROVE  TaskFilesInv'
<1> DEFINE e == edit[c]
           t == e.task
<1>1. e \in Edit /\ EditOK(e) /\ e.dir = "archive" /\ t \in Task
  BY DEF ArchiveMove, TaskFilesInv, Edit
<1>2. e.read.status = "done" /\ edit' = [edit EXCEPT ![c] = NULL]
  BY <1>1 DEF EditOK, ArchiveMove
<1>3. CASE tasksDir[t] = NULL
  BY <1>2, <1>3 DEF ArchiveMove, TaskFilesInv, InOnePlace
<1>4. CASE tasksDir[t] # NULL
  <2>1. /\ doneDir' = [doneDir EXCEPT ![t] = tasksDir[t]]
        /\ tasksDir' = [tasksDir EXCEPT ![t] = NULL]
        /\ raced' = IF tasksDir[t] = e.read THEN raced ELSE raced \cup {t}
    BY <1>4 DEF ArchiveMove
  <2> HIDE DEF e
  <2>2. /\ tasksDir' \in [Task -> FileOrNull] /\ doneDir' \in [Task -> FileOrNull]
        /\ edit' \in [Cli -> Edit \cup {NULL}] /\ raced' \subseteq Task
        /\ \A d \in Cli : edit'[d] # NULL => EditOK(edit'[d])
    BY <1>1, <1>2, <2>1 DEF TaskFilesInv, FileOrNull
  <2>3. ASSUME NEW u \in Task
        PROVE  /\ tasksDir'[u] # NULL => GoodFile(tasksDir'[u])
               /\ doneDir'[u] # NULL => GoodFile(doneDir'[u])
               /\ tasksDir'[u] # NULL \/ doneDir'[u] # NULL
    BY <1>1, <1>4, <2>1 DEF TaskFilesInv
  <2>4. ASSUME NEW u \in Task, u \notin raced'
        PROVE  /\ doneDir'[u] # NULL => doneDir'[u].status = "done"
               /\ tasksDir'[u] = NULL \/ doneDir'[u] = NULL
    BY <1>1, <1>2, <1>4, <2>1, <2>4 DEF TaskFilesInv, InOnePlace
  <2> QED
    BY <2>2, <2>3, <2>4 DEF TaskFilesInv, InOnePlace
<1> QED
  BY <1>3, <1>4

LEMMA TaskFilesStep == TaskFilesInv /\ [TaskFilesNext]_taskFilesVars => TaskFilesInv'
<1> SUFFICES ASSUME TaskFilesInv, [TaskFilesNext]_taskFilesVars PROVE TaskFilesInv'
  OBVIOUS
<1>1. CASE UNCHANGED taskFilesVars
  BY <1>1 DEF taskFilesVars, TaskFilesInv, InOnePlace
<1>2. ASSUME NEW c \in Cli, CommandDies(c)
      PROVE  TaskFilesInv'
  BY <1>2 DEF CommandDies, TaskFilesInv, InOnePlace
<1> QED
  BY <1>1, <1>2, CommandKeeps, WriteKeeps, MoveKeeps DEF TaskFilesNext

LEMMA TaskLogsLegal == TaskFilesInv => TaskFilesTypeOK /\ TaskHistoryLegal
<1> SUFFICES ASSUME TaskFilesInv PROVE TaskFilesTypeOK /\ TaskHistoryLegal
  OBVIOUS
<1>1. TaskHistoryLegal
  BY DEF TaskFilesInv, TaskHistoryLegal, InOnePlace, GoodFile
<1>2. ASSUME NEW c \in Cli, edit[c] # NULL
      PROVE  /\ edit[c].task \in Task
             /\ edit[c].dir \in {"tasks", "done", "archive"}
             /\ edit[c].read \in File
             /\ edit[c].dir # "archive" => edit[c].write \in File
  <2>1. edit[c] \in Edit
    BY <1>2 DEF TaskFilesInv
  <2> QED
    BY <2>1 DEF Edit
<1> QED
  BY <1>1, <1>2 DEF TaskFilesInv, TaskFilesTypeOK

-----------------------------------------------------------------------------
(***************************************************************************)
(* The policies.  The files are recorded in their order, because a run     *)
(* works on a file only when all before it are recorded.  Where no runs    *)
(* overlap, only the file behind the last recorded one can be half         *)
(* executed: it spoils no table but its own, and once it has been executed *)
(* from its first statement to its last these are as it leaves them,       *)
(* however often it was begun before.                                      *)
(***************************************************************************)
\* The last of the files 1..n that defines the function of a table, 0 when none does.
LastFile(t, n) ==
  IF t = "Document" THEN IF n = 3 THEN 3 ELSE IF n \in {1, 2} THEN 1 ELSE 0
  ELSE IF t = "DocumentRequest" THEN IF n \in {1, 2, 3} THEN 1 ELSE 0
  ELSE IF n \in {2, 3} THEN n ELSE 0

AsLeftBy(t, n) == LastFile(t, n) # 0 => t \in inForce /\ predicate[t] = LastFile(t, n)

\* What has come of a file of which the statements before the k-th were executed.
ExecutedTo(f, k, inF, pred) ==
  /\ f = 1 => /\ k > 3 => pred["Document"] = 1
              /\ k > 4 => "Document" \in inF
              /\ k > 5 => pred["DocumentRequest"] = 1
              /\ k > 7 => "DocumentRequest" \in inF
  /\ f = 2 => /\ k > 1 => pred["DocumentVersion"] = 2
              /\ k > 3 => "DocumentVersion" \in inF
  /\ f = 3 => /\ k > 3 => pred["Document"] = 3
              /\ k > 4 => "Document" \in inF
              /\ k > 5 => pred["DocumentVersion"] = 3
              /\ k > 6 => "DocumentVersion" \in inF

Length(f) == IF f = 1 THEN 7 ELSE IF f = 2 THEN 3 ELSE 6

Run == [seen : SUBSET (1 .. 3), until : 1 .. 3, file : 1 .. 4, at : 1 .. 8]

RunOK(d, done) ==
  /\ d \in Run
  /\ \E m \in 0 .. 3 : d.seen = 1 .. m /\ (d.file > m \/ d.file = d.until + 1)
  /\ d.file <= d.until + 1
  /\ d.file <= d.until => d.at <= Length(d.file) + 1
  /\ 1 .. d.file - 1 \subseteq done
  /\ d.seen \subseteq done

OneRun(n) ==
  /\ begun \subseteq 1 .. n + 1
  /\ \A t \in RuledTable : LastFile(t, n + 1) # n + 1 => AsLeftBy(t, n)
  /\ n + 1 \notin begun => \A t \in RuledTable : AsLeftBy(t, n)
  /\ \A p, q \in Deployer : deployment[p] # NULL /\ deployment[q] # NULL => p = q
  /\ \A p \in Deployer : deployment[p] # NULL /\ deployment[p].file <= deployment[p].until =>
       deployment[p].file = n + 1 /\ ExecutedTo(n + 1, deployment[p].at, inForce, predicate)

MigrationsInv ==
  /\ inForce \subseteq RuledTable
  /\ predicate \in [RuledTable -> (1 .. 3) \cup {NULL}]
  /\ deployments \in 0 .. MaxDeployments
  /\ begun \subseteq 1 .. 3
  /\ overlapped \in BOOLEAN
  /\ deployment \in [Deployer -> Run \cup {NULL}]
  /\ \A p \in Deployer : deployment[p] # NULL => RunOK(deployment[p], applied)
  /\ \E n \in 0 .. 3 : applied = 1 .. n /\ (~overlapped => OneRun(n))

-----------------------------------------------------------------------------
LEMMA FilesAre ==
  /\ Len(Files) = 3 /\ Len(Files[1]) = 7 /\ Len(Files[2]) = 3 /\ Len(Files[3]) = 6
  /\ Files[1][1] = Drop("Document") /\ Files[1][2] = Drop("DocumentRequest")
  /\ Files[1][3] = Define("Document") /\ Files[1][4] = Create("Document")
  /\ Files[1][5] = Define("DocumentRequest") /\ Files[1][6] = Drop("DocumentRequest")
  /\ Files[1][7] = Create("DocumentRequest")
  /\ Files[2][1] = Define("DocumentVersion") /\ Files[2][2] = Drop("DocumentVersion")
  /\ Files[2][3] = Create("DocumentVersion")
  /\ Files[3][1] = Drop("Document") /\ Files[3][2] = Drop("DocumentVersion")
  /\ Files[3][3] = Define("Document") /\ Files[3][4] = Create("Document")
  /\ Files[3][5] = Define("DocumentVersion") /\ Files[3][6] = Create("DocumentVersion")
<1>1. Len(Files) = 3 /\ Files[1] = DocumentPolicy /\ Files[2] = DocumentVersionPolicy
      /\ Files[3] = DocumentSoftDeleteFilter
  BY DEF Files
<1>2. /\ Len(DocumentPolicy) = 7
      /\ DocumentPolicy[1] = Drop("Document") /\ DocumentPolicy[2] = Drop("DocumentRequest")
      /\ DocumentPolicy[3] = Define("Document") /\ DocumentPolicy[4] = Create("Document")
      /\ DocumentPolicy[5] = Define("DocumentRequest") /\ DocumentPolicy[6] = Drop("DocumentRequest")
      /\ DocumentPolicy[7] = Create("DocumentRequest")
  BY DEF DocumentPolicy
<1>3. /\ Len(DocumentVersionPolicy) = 3
      /\ DocumentVersionPolicy[1] = Define("DocumentVersion") /\ DocumentVersionPolicy[2] = Drop("DocumentVersion")
      /\ DocumentVersionPolicy[3] = Create("DocumentVersion")
  BY DEF DocumentVersionPolicy
<1>4. /\ Len(DocumentSoftDeleteFilter) = 6
      /\ DocumentSoftDeleteFilter[1] = Drop("Document") /\ DocumentSoftDeleteFilter[2] = Drop("DocumentVersion")
      /\ DocumentSoftDeleteFilter[3] = Define("Document") /\ DocumentSoftDeleteFilter[4] = Create("Document")
      /\ DocumentSoftDeleteFilter[5] = Define("DocumentVersion") /\ DocumentSoftDeleteFilter[6] = Create("DocumentVersion")
  BY DEF DocumentSoftDeleteFilter
<1> QED
  BY <1>1, <1>2, <1>3, <1>4

LEMMA FileLengths == \A f \in 1 .. 3 : Len(Files[f]) = Length(f) /\ Length(f) \in 3 .. 7
<1>1. ASSUME NEW f \in 1 .. 3 PROVE f = 1 \/ f = 2 \/ f = 3
  OBVIOUS
<1>2. Length(1) = 7 /\ Length(2) = 3 /\ Length(3) = 6
  BY DEF Length
<1>3. ASSUME NEW f \in 1 .. 3 PROVE Length(f) \in 3 .. 7
  BY DEF Length
<1>4. ASSUME NEW f \in 1 .. 3 PROVE Len(Files[f]) = Length(f)
  BY <1>1, <1>2, FilesAre
<1> QED
  BY <1>3, <1>4

LEMMA StatementIs ==
  ASSUME NEW f \in 1 .. 3, NEW k \in 1 .. Length(f)
  PROVE  /\ Files[f][k].table \in RuledTable
         /\ LastFile(Files[f][k].table, f) = f
<1>2. \A t \in RuledTable : Drop(t).table = t /\ Define(t).table = t /\ Create(t).table = t
  BY DEF Drop, Define, Create
<1>3. /\ "Document" \in RuledTable /\ "DocumentRequest" \in RuledTable
      /\ "DocumentVersion" \in RuledTable
  BY DEF RuledTable
<1>4. CASE f = 1
  <2>1. k \in 1 .. 7
    BY <1>4 DEF Length
  <2> QED
    BY <1>2, <1>3, <1>4, <2>1, FilesAre DEF LastFile
<1>5. CASE f = 2
  <2>1. k \in 1 .. 3
    BY <1>5 DEF Length
  <2> QED
    BY <1>2, <1>3, <1>5, <2>1, FilesAre DEF LastFile
<1>6. CASE f = 3
  <2>1. k \in 1 .. 6
    BY <1>6 DEF Length
  <2> QED
    BY <1>2, <1>3, <1>6, <2>1, FilesAre DEF LastFile
<1> QED
  BY <1>4, <1>5, <1>6

LEMMA Advanced ==
  ASSUME NEW d \in Run, NEW k \in 1 .. 8
  PROVE  /\ [d EXCEPT !.at = k] \in Run /\ [d EXCEPT !.at = k].at = k
         /\ [d EXCEPT !.at = k].seen = d.seen /\ [d EXCEPT !.at = k].until = d.until
         /\ [d EXCEPT !.at = k].file = d.file
BY DEF Run

LEMMA NextIs ==
  /\ \A m, f, until \in 0 .. 3 : m <= f /\ f <= until => NextFile(f, 1 .. m, until) = f + 1
  /\ \A m, until \in 0 .. 3 :
       NextFile(0, (1 .. m) \cap (1 .. until), until) = IF m <= until THEN m + 1 ELSE until + 1
<1>1. ASSUME NEW m \in 0 .. 3, NEW f \in 0 .. 3, NEW until \in 0 .. 3, m <= f, f <= until
      PROVE  NextFile(f, 1 .. m, until) = f + 1
  <2>1. \A g \in (f + 1)..(until + 1) :
          /\ g \notin 1 .. m
          /\ \A h \in (f + 1)..(g - 1) : h \in 1 .. m
          <=> g = f + 1
    BY <1>1
  <2> QED
    BY <1>1, <2>1 DEF NextFile
<1>2. ASSUME NEW m \in 0 .. 3, NEW until \in 0 .. 3
      PROVE  NextFile(0, (1 .. m) \cap (1 .. until), until)
               = IF m <= until THEN m + 1 ELSE until + 1
  <2> DEFINE r == IF m <= until THEN m + 1 ELSE until + 1
  <2>1. \A g \in (0 + 1)..(until + 1) :
          /\ g \notin (1 .. m) \cap (1 .. until)
          /\ \A h \in (0 + 1)..(g - 1) : h \in (1 .. m) \cap (1 .. until)
          <=> g = r
    OBVIOUS
  <2>2. r \in (0 + 1)..(until + 1)
    OBVIOUS
  <2> HIDE DEF r
  <2>3. NextFile(0, (1 .. m) \cap (1 .. until), until) = r
    BY <2>1, <2>2 DEF NextFile
  <2> QED
    BY <2>3 DEF r
<1> QED
  BY <1>1, <1>2

LEMMA MigrationsInitInv == MigrationsInit => MigrationsInv
<1> SUFFICES ASSUME MigrationsInit PROVE MigrationsInv
  OBVIOUS
<1>1. /\ inForce = {} /\ predicate = [t \in RuledTable |-> NULL] /\ applied = {}
      /\ deployment = [p \in Deployer |-> NULL] /\ deployments = 0 /\ begun = {}
      /\ overlapped = FALSE /\ MaxDeployments \in Nat
  BY MigrationsAssumption DEF MigrationsInit
<1>2. OneRun(0)
  BY <1>1 DEF OneRun, AsLeftBy, LastFile, RuledTable
<1>3. applied = 1 .. 0
  BY <1>1
<1>4. \E n \in 0 .. 3 : applied = 1 .. n /\ (~overlapped => OneRun(n))
  BY <1>2, <1>3
<1>5. overlapped \in BOOLEAN
  BY <1>1, Zenon
<1>6. deployments \in 0 .. MaxDeployments /\ begun \subseteq 1 .. 3
  BY <1>1
<1>7. /\ inForce \subseteq RuledTable /\ predicate \in [RuledTable -> (1 .. 3) \cup {NULL}]
      /\ deployment \in [Deployer -> Run \cup {NULL}]
      /\ \A p \in Deployer : deployment[p] # NULL => RunOK(deployment[p], applied)
  BY <1>1
<1> QED
  BY <1>4, <1>5, <1>6, <1>7, Zenon DEF MigrationsInv

LEMMA StartRunKeeps ==
  ASSUME MigrationsInv, NEW p \in Deployer, StartRun(p)
  PROVE  MigrationsInv'
<1>1. PICK n \in 0 .. 3 : applied = 1 .. n /\ (~overlapped => OneRun(n))
  BY DEF MigrationsInv
<1>2. PICK u \in 1 .. 3 :
        deployment' = [deployment EXCEPT ![p] =
         [seen |-> applied, until |-> u, file |-> NextFile(0, applied \cap 1..u, u), at |-> 1]]
  <2>1. Len(Files) = 3
    BY FilesAre
  <2> QED
    BY <2>1 DEF StartRun
<1>3. PICK d : d = [seen |-> applied, until |-> u, file |-> NextFile(0, applied \cap 1..u, u),
                    at |-> 1]
  OBVIOUS
<1>4. d.file = IF n <= u THEN n + 1 ELSE u + 1
  <2>1. d.file = NextFile(0, (1 .. n) \cap (1 .. u), u) /\ u \in 0 .. 3
    BY <1>1, <1>3
  <2> QED
    BY <2>1, NextIs
<1>5. d \in Run /\ d.seen = 1 .. n /\ d.until = u /\ d.at = 1
  <2>1. d.file \in 1 .. 4 /\ u \in 1 .. 3 /\ 1 \in 1 .. 8 /\ 1 .. n \in SUBSET (1 .. 3)
    BY <1>4
  <2> QED
    BY <1>1, <1>3, <2>1 DEF Run
<1>6. RunOK(d, applied')
  <2>1. d.file <= d.until + 1 /\ (d.file > n \/ d.file = d.until + 1)
        /\ 1 .. d.file - 1 \subseteq 1 .. n
    BY <1>4, <1>5
  <2>2. d.file <= d.until => d.at <= Length(d.file) + 1
    BY <1>4, <1>5 DEF Length
  <2>3. applied' = 1 .. n
    BY <1>1 DEF StartRun
  <2> QED
    BY <1>5, <2>1, <2>2, <2>3 DEF RunOK
<1>7. /\ deployment' = [deployment EXCEPT ![p] = d]
      /\ UNCHANGED <<inForce, predicate, applied, begun>>
  BY <1>2, <1>3 DEF StartRun
<1>8. deployments' \in 0 .. MaxDeployments
  BY MigrationsAssumption DEF StartRun, MigrationsInv
<1>9. overlapped' \in BOOLEAN
  BY Zenon DEF StartRun, MigrationsInv
<1>10. ~overlapped' => OneRun(n)'
  <2> SUFFICES ASSUME ~overlapped' PROVE OneRun(n)'
    OBVIOUS
  <2>1. ~overlapped /\ \A q \in Deployer : deployment[q] = NULL
    BY Zenon DEF StartRun
  <2>2. OneRun(n) /\ \A q \in Deployer : q # p => deployment'[q] = NULL
    BY <1>1, <1>7, <2>1 DEF MigrationsInv
  <2>3. deployment'[p] = d
    BY <1>7 DEF MigrationsInv
  <2>4. ExecutedTo(n + 1, 1, inForce', predicate') /\ (d.file <= d.until => d.file = n + 1)
    BY <1>4, <1>5 DEF ExecutedTo
  <2>5. \A t \in RuledTable, m \in {n} : AsLeftBy(t, m)' <=> AsLeftBy(t, m)
    BY <1>7 DEF AsLeftBy
  <2>6. ~overlapped' => \A q \in Deployer :
          deployment'[q] # NULL => q = p /\ deployment'[q] = d
    BY <2>2, <2>3
  <2> QED
    BY <1>5, <1>7, <2>2, <2>4, <2>5, <2>6 DEF OneRun
<1>11. \A q \in Deployer : deployment'[q] # NULL => RunOK(deployment'[q], applied')
  BY <1>6, <1>7 DEF MigrationsInv, RunOK
<1>12. deployment' \in [Deployer -> Run \cup {NULL}]
  BY <1>5, <1>7 DEF MigrationsInv
<1>13. \E k \in 0 .. 3 : applied' = 1 .. k /\ (~overlapped' => OneRun(k)')
  BY <1>1, <1>7, <1>10, Zenon
<1>14. /\ inForce' \subseteq RuledTable /\ predicate' \in [RuledTable -> (1 .. 3) \cup {NULL}]
       /\ begun' \subseteq 1 .. 3
  BY <1>7 DEF MigrationsInv
<1> QED
  BY <1>8, <1>9, <1>11, <1>12, <1>13, <1>14, Zenon DEF MigrationsInv

\* A run that ends, in whatever way.
LEMMA EndRunKeeps ==
  ASSUME MigrationsInv, NEW p \in Deployer, deployment' = [deployment EXCEPT ![p] = NULL],
         UNCHANGED <<inForce, predicate, applied, deployments, begun, overlapped>>
  PROVE  MigrationsInv'
<1>1. PICK n \in 0 .. 3 : applied = 1 .. n /\ (~overlapped => OneRun(n))
  BY DEF MigrationsInv
<1>2. \A q \in Deployer : deployment'[q] # NULL => q # p /\ deployment'[q] = deployment[q]
  BY DEF MigrationsInv
<1>3. OneRun(n) => OneRun(n)'
  BY <1>2 DEF OneRun, AsLeftBy, ExecutedTo
<1>4. \E k \in 0 .. 3 : applied' = 1 .. k /\ (~overlapped' => OneRun(k)')
  BY <1>1, <1>3, Zenon
<1>5. \A q \in Deployer : deployment'[q] # NULL => RunOK(deployment'[q], applied')
  BY <1>2 DEF MigrationsInv, RunOK
<1>6. deployment' \in [Deployer -> Run \cup {NULL}]
  BY DEF MigrationsInv
<1>7. /\ inForce' \subseteq RuledTable /\ predicate' \in [RuledTable -> (1 .. 3) \cup {NULL}]
      /\ deployments' \in 0 .. MaxDeployments /\ begun' \subseteq 1 .. 3
  BY DEF MigrationsInv
<1>8. overlapped' \in BOOLEAN
  BY Zenon DEF MigrationsInv
<1> QED
  BY <1>4, <1>5, <1>6, <1>7, <1>8, Zenon DEF MigrationsInv

LEMMA ExecuteKeeps ==
  ASSUME MigrationsInv, NEW p \in Deployer, ExecuteStatement(p)
  PROVE  MigrationsInv'
<1>d. PICK d : d = deployment[p]
  OBVIOUS
<1>s. PICK s : s = Files[d.file][d.at]
  OBVIOUS
<1>e. PICK e : e = [d EXCEPT !.at = @ + 1]
  OBVIOUS
<1>1. PICK n \in 0 .. 3 : applied = 1 .. n /\ (~overlapped => OneRun(n))
  BY DEF MigrationsInv
<1>2. /\ d # NULL /\ RunOK(d, applied) /\ d.file <= d.until /\ d.at <= Length(d.file)
      /\ d.file \in 1 .. 3 /\ d.at \in 1 .. 7
  <2>1. d # NULL /\ RunOK(d, applied) /\ d.file <= d.until /\ d.at <= Len(Files[d.file])
    BY <1>d DEF ExecuteStatement, Executing, MigrationsInv
  <2>2. d.file \in 1 .. 3 /\ d.at \in 1 .. 8
    BY <2>1 DEF RunOK, Run
  <2>3. d.at <= Length(d.file) /\ Length(d.file) \in 3 .. 7
    BY <2>1, <2>2, FileLengths
  <2> QED
    BY <2>1, <2>2, <2>3
<1>3. /\ deployment' = [deployment EXCEPT ![p] = e]
      /\ begun' = begun \cup {d.file}
      /\ predicate' = IF s.do = "create or alter function"
                      THEN [predicate EXCEPT ![s.table] = d.file]
                      ELSE predicate
      /\ UNCHANGED <<applied, deployments, overlapped>>
  BY <1>d, <1>s, <1>e DEF ExecuteStatement
<1>3a. inForce' = CASE s.do = "create policy" -> inForce \cup {s.table}
                   [] s.do = "drop policy if exists" -> inForce \ {s.table}
                   [] OTHER -> inForce
  BY <1>d, <1>s, Zenon DEF ExecuteStatement
<1>3b. /\ s.do = "create policy" => inForce' = inForce \cup {s.table}
       /\ s.do = "drop policy if exists" => inForce' = inForce \ {s.table}
       /\ s.do \notin {"create policy", "drop policy if exists"} => inForce' = inForce
  BY <1>3a
<1>4. e \in Run /\ e.seen = d.seen /\ e.until = d.until /\ e.file = d.file /\ e.at = d.at + 1
  <2>1. d \in Run /\ d.at + 1 \in 1 .. 8
    BY <1>2 DEF RunOK
  <2> QED
    BY <1>2, <1>e, <2>1, Advanced
<1>5. RunOK(e, applied')
  <2>1. PICK m \in 0 .. 3 : d.seen = 1 .. m /\ (d.file > m \/ d.file = d.until + 1)
    BY <1>2 DEF RunOK
  <2>2. e.at <= Length(e.file) + 1
    BY <1>2, <1>4 DEF Length
  <2>3. 1 .. e.file - 1 \subseteq applied /\ e.seen \subseteq applied
    BY <1>2, <1>4 DEF RunOK
  <2>4. e.file <= e.until + 1 /\ e.seen = 1 .. m /\ (e.file > m \/ e.file = e.until + 1)
    BY <1>2, <1>4, <2>1 DEF RunOK
  <2> QED
    BY <1>3, <1>4, <2>2, <2>3, <2>4, Zenon DEF RunOK
<1>6. s.table \in RuledTable /\ LastFile(s.table, d.file) = d.file
  <2>1. d.at \in 1 .. Length(d.file)
    BY <1>2 DEF Length
  <2> QED
    BY <1>2, <1>s, <2>1, StatementIs
<1>8. inForce' \subseteq RuledTable /\ predicate' \in [RuledTable -> (1 .. 3) \cup {NULL}]
      /\ begun' \subseteq 1 .. 3
  <2>1. inForce' \subseteq RuledTable
    BY <1>3, <1>3b, <1>6 DEF MigrationsInv
  <2> QED
    BY <1>2, <1>3, <1>6, <2>1 DEF MigrationsInv
<1>9. ASSUME OneRun(n) PROVE OneRun(n)'
  <2>1. d.file = n + 1 /\ ExecutedTo(n + 1, d.at, inForce, predicate) /\ n + 1 \in begun' /\ n \in 0 .. 2
        /\ begun' \subseteq 1 .. n + 1
    <3>1. d.file = n + 1 /\ ExecutedTo(n + 1, d.at, inForce, predicate)
      BY <1>2, <1>9, <1>d DEF OneRun
    <3>2. n + 1 \in begun'
      BY <1>3, <3>1
    <3>2a. n \in 0 .. 2
      BY <1>2, <3>1
    <3>3. begun \subseteq 1 .. n + 1 /\ n + 1 \in 1 .. n + 1
      BY <1>9 DEF OneRun
    <3> QED
      BY <1>3, <3>1, <3>2, <3>2a, <3>3
  <2>2. ASSUME NEW t \in RuledTable, LastFile(t, n + 1) # n + 1
        PROVE  AsLeftBy(t, n)'
    <3>1. t # s.table
      BY <1>6, <2>1, <2>2
    <3>2. (t \in inForce' <=> t \in inForce) /\ predicate'[t] = predicate[t]
      BY <1>3, <1>3b, <3>1 DEF MigrationsInv
    <3> QED
      BY <1>9, <2>2, <3>2 DEF OneRun, AsLeftBy
  <2>3. ExecutedTo(n + 1, d.at + 1, inForce', predicate')
    <3>1. \A t \in RuledTable :
            /\ Drop(t).table = t /\ Define(t).table = t /\ Create(t).table = t
            /\ Drop(t).do = "drop policy if exists"
            /\ Define(t).do = "create or alter function"
            /\ Create(t).do = "create policy"
      BY DEF Drop, Define, Create
    <3>2. /\ "Document" \in RuledTable /\ "DocumentRequest" \in RuledTable
          /\ "DocumentVersion" \in RuledTable
      BY DEF RuledTable
    <3>3. \A t \in RuledTable :
            /\ s = Drop(t) => predicate' = predicate /\ inForce' = inForce \ {t}
            /\ s = Create(t) => predicate' = predicate /\ inForce' = inForce \cup {t}
            /\ s = Define(t) => /\ predicate'[t] = n + 1 /\ inForce' = inForce
                                /\ \A u \in RuledTable : u # t => predicate'[u] = predicate[u]
      <4>1. ASSUME NEW t \in RuledTable, s = Drop(t)
            PROVE  predicate' = predicate /\ inForce' = inForce \ {t}
        BY <1>3, <1>3b, <3>1, <4>1
      <4>2. ASSUME NEW t \in RuledTable, s = Create(t)
            PROVE  predicate' = predicate /\ inForce' = inForce \cup {t}
        BY <1>3, <1>3b, <3>1, <4>2
      <4>3. ASSUME NEW t \in RuledTable, s = Define(t)
            PROVE  /\ predicate'[t] = n + 1 /\ inForce' = inForce
                   /\ \A u \in RuledTable : u # t => predicate'[u] = predicate[u]
        <5>1. predicate' = [predicate EXCEPT ![t] = n + 1] /\ inForce' = inForce
          BY <1>3, <1>3b, <2>1, <3>1, <4>3
        <5> QED
          BY <5>1 DEF MigrationsInv
      <4> QED
        BY <4>1, <4>2, <4>3
    <3>4. CASE n = 0
      <4>1. d.file = 1 /\ d.at \in 1 .. 7 /\ ExecutedTo(1, d.at, inForce, predicate)
        BY <1>2, <2>1, <3>4 DEF Length
      <4>2. ExecutedTo(1, d.at + 1, inForce', predicate')
        BY <1>s, <3>2, <3>3, <3>4, <4>1, FilesAre DEF ExecutedTo
      <4> QED
        BY <3>4, <4>2
    <3>5. CASE n = 1
      <4>1. d.file = 2 /\ d.at \in 1 .. 3 /\ ExecutedTo(2, d.at, inForce, predicate)
        BY <1>2, <2>1, <3>5 DEF Length
      <4>2. ExecutedTo(2, d.at + 1, inForce', predicate')
        BY <1>s, <3>2, <3>3, <3>5, <4>1, FilesAre DEF ExecutedTo
      <4> QED
        BY <3>5, <4>2
    <3>6. CASE n = 2
      <4>1. d.file = 3 /\ d.at \in 1 .. 6 /\ ExecutedTo(3, d.at, inForce, predicate)
        BY <1>2, <2>1, <3>6 DEF Length
      <4>2. ExecutedTo(3, d.at + 1, inForce', predicate')
        BY <1>s, <3>2, <3>3, <3>6, <4>1, FilesAre DEF ExecutedTo
      <4> QED
        BY <3>6, <4>2
    <3> QED
      BY <2>1, <3>4, <3>5, <3>6
  <2>4. /\ \A q, r \in Deployer : deployment'[q] # NULL /\ deployment'[r] # NULL => q = r
        /\ \A q \in Deployer : deployment'[q] # NULL => q = p
    BY <1>2, <1>3, <1>9, <1>d DEF OneRun, MigrationsInv
  <2>5. deployment'[p] = e
    BY <1>3 DEF MigrationsInv
  <2> QED
    BY <1>4, <2>1, <2>2, <2>3, <2>4, <2>5 DEF OneRun
<1>10. deployment' \in [Deployer -> Run \cup {NULL}]
  BY <1>3, <1>4 DEF MigrationsInv
<1>11. \A q \in Deployer : deployment'[q] # NULL => RunOK(deployment'[q], applied')
  BY <1>3, <1>5 DEF MigrationsInv, RunOK
<1>12. \E k \in 0 .. 3 : applied' = 1 .. k /\ (~overlapped' => OneRun(k)')
  BY <1>1, <1>3, <1>9
<1> QED
  BY <1>3, <1>8, <1>10, <1>11, <1>12 DEF MigrationsInv

LEMMA RecordKeeps ==
  ASSUME MigrationsInv, NEW p \in Deployer, recordAppliedMigration(p)
  PROVE  MigrationsInv'
<1>1. PICK n \in 0 .. 3 : applied = 1 .. n /\ (~overlapped => OneRun(n))
  BY DEF MigrationsInv
<1>d. PICK d : d = deployment[p]
  OBVIOUS
<1>e. PICK e : e = IF d.file \in applied THEN NULL
                   ELSE [d EXCEPT !.file = NextFile(@, d.seen, d.until), !.at = 1]
  OBVIOUS
<1>2. /\ d # NULL /\ d.file <= d.until /\ d.at = Len(Files[d.file]) + 1
      /\ applied' = applied \cup {d.file} /\ deployment' = [deployment EXCEPT ![p] = e]
      /\ UNCHANGED <<inForce, predicate, deployments, begun, overlapped>>
  BY <1>d, <1>e DEF recordAppliedMigration
<1>3. /\ RunOK(d, applied) /\ d \in Run /\ d.file \in 1 .. 3 /\ d.until \in 1 .. 3
      /\ 1 .. d.file - 1 \subseteq 1 .. n
  BY <1>1, <1>2, <1>d DEF MigrationsInv, RunOK, Run
<1>4. d.at = Length(d.file) + 1
  BY <1>2, <1>3, FileLengths
<1>5. PICK k \in 0 .. 3 : /\ k = IF d.file <= n THEN n ELSE d.file
                          /\ applied' = 1 .. k /\ d.file <= n + 1
  <2>1. d.file <= n + 1
    BY <1>3
  <2>2. (1 .. n) \cup {d.file} = 1 .. (IF d.file <= n THEN n ELSE d.file)
    BY <1>3, <2>1
  <2> QED
    BY <1>1, <1>2, <1>3, <2>1, <2>2
<1>6. CASE d.file \in applied
  <2>1. applied' = applied /\ deployment' = [deployment EXCEPT ![p] = NULL]
    BY <1>2, <1>6, <1>e
  <2> QED
    BY <1>2, <2>1, EndRunKeeps
<1>7. CASE d.file \notin applied
  <2>1. PICK m \in 0 .. 3 : d.seen = 1 .. m /\ m < d.file
    BY <1>2, <1>3 DEF RunOK
  <2>2. NextFile(d.file, d.seen, d.until) = d.file + 1
    <3>1. d.file \in 0 .. 3 /\ d.until \in 0 .. 3 /\ m <= d.file
      BY <1>3, <2>1
    <3>2. NextFile(d.file, 1 .. m, d.until) = d.file + 1
      BY <1>2, <3>1, NextIs
    <3> QED
      BY <2>1, <3>2
  <2>3. e \in Run /\ e.seen = d.seen /\ e.until = d.until /\ e.file = d.file + 1 /\ e.at = 1
    <3>0. e = [d EXCEPT !.file = d.file + 1, !.at = 1]
      BY <1>7, <1>e, <2>2, Zenon
    <3>1. d.file + 1 \in 1 .. 4 /\ 1 \in 1 .. 8 /\ d \in Run
      BY <1>3
    <3>2. PICK g \in 1 .. 4, j \in 1 .. 8 : g = d.file + 1 /\ j = 1
      BY <3>1
    <3>3. e = [d EXCEPT !.file = g, !.at = j]
      BY <3>0, <3>2, Zenon
    <3>4. e \in Run /\ e.seen = d.seen /\ e.until = d.until /\ e.file = g /\ e.at = j
      BY <3>1, <3>3 DEF Run
    <3> QED
      BY <3>2, <3>4, Zenon
  <2>4. RunOK(e, applied')
    <3>1. e.file <= e.until + 1 /\ e.seen = 1 .. m /\ (e.file > m \/ e.file = e.until + 1)
      BY <1>2, <1>3, <2>1, <2>3
    <3>2. 1 .. e.file - 1 \subseteq applied' /\ e.seen \subseteq applied'
      BY <1>2, <1>3, <1>5, <2>3 DEF RunOK
    <3>3. e.at <= Length(e.file) + 1
      BY <2>3 DEF Length
    <3> QED
      BY <2>3, <3>1, <3>2, <3>3, Zenon DEF RunOK
  <2>5. n + 1 = d.file /\ k = n + 1 /\ n \in 0 .. 2
    BY <1>1, <1>3, <1>5, <1>7
  <2>6. ASSUME OneRun(n) PROVE OneRun(k)'
    <3>1. ExecutedTo(n + 1, Length(n + 1) + 1, inForce, predicate)
      BY <1>2, <1>4, <1>d, <2>5, <2>6 DEF OneRun
    <3>2. ASSUME NEW t \in RuledTable PROVE AsLeftBy(t, n + 1)
      <4>1. CASE LastFile(t, n + 1) = n + 1
        <5>1. t \in {"Document", "DocumentRequest", "DocumentVersion"}
          BY DEF RuledTable
        <5>2. CASE n = 0
          BY <3>1, <4>1, <5>1, <5>2 DEF ExecutedTo, AsLeftBy, LastFile, Length
        <5>3. CASE n = 1
          BY <3>1, <4>1, <5>1, <5>3 DEF ExecutedTo, AsLeftBy, LastFile, Length
        <5>4. CASE n = 2
          BY <3>1, <4>1, <5>1, <5>4 DEF ExecutedTo, AsLeftBy, LastFile, Length
        <5> QED
          BY <2>5, <5>2, <5>3, <5>4
      <4>2. CASE LastFile(t, n + 1) # n + 1
        <5>1. AsLeftBy(t, n)
          BY <2>6, <4>2 DEF OneRun
        <5>2. LastFile(t, n + 1) = LastFile(t, n)
          BY <2>5, <4>2 DEF LastFile
        <5> QED
          BY <5>1, <5>2 DEF AsLeftBy
      <4> QED
        BY <4>1, <4>2
    <3>3. ASSUME NEW t \in RuledTable PROVE AsLeftBy(t, k)'
      BY <1>2, <2>5, <3>2 DEF AsLeftBy
    <3>4. begun' \subseteq 1 .. k + 1
      BY <1>2, <2>5, <2>6 DEF OneRun
    <3>5. \A q \in Deployer : deployment'[q] # NULL => q = p /\ deployment'[q] = e
      BY <1>2, <1>d, <2>6 DEF OneRun, MigrationsInv
    <3>6. e.file = k + 1 /\ ExecutedTo(k + 1, e.at, inForce', predicate')
      BY <2>3, <2>5 DEF ExecutedTo
    <3> QED
      BY <3>3, <3>4, <3>5, <3>6 DEF OneRun
  <2>7. /\ deployment' \in [Deployer -> Run \cup {NULL}]
        /\ inForce' \subseteq RuledTable /\ predicate' \in [RuledTable -> (1 .. 3) \cup {NULL}]
        /\ deployments' \in 0 .. MaxDeployments /\ begun' \subseteq 1 .. 3
    BY <1>2, <2>3 DEF MigrationsInv
  <2>8. overlapped' \in BOOLEAN
    BY <1>2, Zenon DEF MigrationsInv
  <2>9. \A q \in Deployer : deployment'[q] # NULL => RunOK(deployment'[q], applied')
    BY <1>2, <2>4 DEF MigrationsInv, RunOK
  <2>10. ~overlapped' => OneRun(k)'
    BY <1>1, <1>2, <2>6, Zenon
  <2>11. \E j \in 0 .. 3 : applied' = 1 .. j /\ (~overlapped' => OneRun(j)')
    BY <1>5, <2>10, Zenon
  <2> QED
    BY <2>7, <2>8, <2>9, <2>11, Zenon DEF MigrationsInv
<1> QED
  BY <1>6, <1>7

LEMMA MigrationsStep == MigrationsInv /\ [MigrationsNext]_migrationsVars => MigrationsInv'
<1> SUFFICES ASSUME MigrationsInv, [MigrationsNext]_migrationsVars PROVE MigrationsInv'
  OBVIOUS
<1>1. CASE UNCHANGED migrationsVars
  BY <1>1 DEF migrationsVars, MigrationsInv, OneRun, AsLeftBy
<1>2. ASSUME NEW p \in Deployer, StatementRefused(p) \/ FinishRun(p) \/ RunDies(p)
      PROVE  MigrationsInv'
  BY <1>2, EndRunKeeps DEF StatementRefused, FinishRun, RunDies
<1> QED
  BY <1>1, <1>2, StartRunKeeps, ExecuteKeeps, RecordKeeps DEF MigrationsNext

LEMMA DefinedWhere ==
  ASSUME NEW f \in 1 .. 3, NEW t \in RuledTable
  PROVE  Define(t) \in {Files[f][k] : k \in 1 .. Len(Files[f])} <=>
           \/ f = 1 /\ t \in {"Document", "DocumentRequest"}
           \/ f = 2 /\ t = "DocumentVersion"
           \/ f = 3 /\ t \in {"Document", "DocumentVersion"}
<1>1. /\ "Document" \in RuledTable /\ "DocumentRequest" \in RuledTable
      /\ "DocumentVersion" \in RuledTable
      /\ t \in {"Document", "DocumentRequest", "DocumentVersion"}
  BY DEF RuledTable
<1>2. \A u \in RuledTable :
        /\ Define(t) # Drop(u) /\ Define(t) # Create(u)
        /\ Define(t) = Define(u) <=> t = u
  BY DEF Drop, Define, Create
<1>3. Define(t) \in {Files[f][k] : k \in 1 .. Len(Files[f])}
        <=> \E k \in 1 .. Length(f) : Define(t) = Files[f][k]
  <2>1. Len(Files[f]) = Length(f)
    BY FileLengths
  <2> QED
    BY <2>1, Zenon
<1>4. CASE f = 1
  <2>1. /\ Length(f) = 7
        /\ \A k \in 1 .. 7 : k = 1 \/ k = 2 \/ k = 3 \/ k = 4 \/ k = 5 \/ k = 6 \/ k = 7
    BY <1>4 DEF Length
  <2>2. \A k \in 1 .. 7 : \E u \in {"Document", "DocumentRequest"} :
          Files[1][k] \in {Drop(u), Define(u), Create(u)}
    BY <2>1, FilesAre
  <2>3. ASSUME NEW k \in 1 .. 7, Define(t) = Files[1][k] PROVE t \in {"Document", "DocumentRequest"}
    <3>1. PICK u \in {"Document", "DocumentRequest"} : Files[1][k] \in {Drop(u), Define(u), Create(u)}
      BY <2>2
    <3> QED
      <4>1. u \in RuledTable
        BY <1>1
      <4>2. t = u
        BY <1>2, <2>3, <3>1, <4>1
      <4> QED
        BY <4>2
  <2>4. t \in {"Document", "DocumentRequest"} => \E k \in 1 .. 7 : Define(t) = Files[1][k]
    <3>1. /\ 3 \in 1 .. 7 /\ Files[1][3] = Define("Document")
          /\ 5 \in 1 .. 7 /\ Files[1][5] = Define("DocumentRequest")
      BY FilesAre
    <3> QED
      BY <3>1
  <2>5. (\E k \in 1 .. Length(f) : Define(t) = Files[f][k]) <=> t \in {"Document", "DocumentRequest"}
    BY <1>4, <2>1, <2>3, <2>4, Zenon
  <2>6. f # 2 /\ f # 3
    BY <1>4
  <2> DEFINE here == Define(t) \in {Files[f][k] : k \in 1 .. Len(Files[f])}
  <2>7. here <=> t \in {"Document", "DocumentRequest"}
    BY <1>3, <2>5, Zenon
  <2> HIDE DEF here
  <2>8. here <=> \/ f = 1 /\ t \in {"Document", "DocumentRequest"}
                 \/ f = 2 /\ t = "DocumentVersion"
                 \/ f = 3 /\ t \in {"Document", "DocumentVersion"}
    BY <1>4, <2>6, <2>7
  <2> QED
    BY <2>8 DEF here
<1>5. CASE f = 2
  <2>1. /\ Length(f) = 3
        /\ \A k \in 1 .. 3 : k = 1 \/ k = 2 \/ k = 3
    BY <1>5 DEF Length
  <2>2. \A k \in 1 .. 3 : \E u \in {"DocumentVersion"} :
          Files[2][k] \in {Drop(u), Define(u), Create(u)}
    BY <2>1, FilesAre
  <2>3. ASSUME NEW k \in 1 .. 3, Define(t) = Files[2][k] PROVE t \in {"DocumentVersion"}
    <3>1. PICK u \in {"DocumentVersion"} : Files[2][k] \in {Drop(u), Define(u), Create(u)}
      BY <2>2
    <3> QED
      <4>1. u \in RuledTable
        BY <1>1
      <4>2. t = u
        BY <1>2, <2>3, <3>1, <4>1
      <4> QED
        BY <4>2
  <2>4. t \in {"DocumentVersion"} => \E k \in 1 .. 3 : Define(t) = Files[2][k]
    <3>1. /\ 1 \in 1 .. 3 /\ Files[2][1] = Define("DocumentVersion")
      BY FilesAre
    <3> QED
      BY <3>1
  <2>5. (\E k \in 1 .. Length(f) : Define(t) = Files[f][k]) <=> t \in {"DocumentVersion"}
    BY <1>5, <2>1, <2>3, <2>4, Zenon
  <2>6. f # 1 /\ f # 3
    BY <1>5
  <2> DEFINE here == Define(t) \in {Files[f][k] : k \in 1 .. Len(Files[f])}
  <2>7. here <=> t \in {"DocumentVersion"}
    BY <1>3, <2>5, Zenon
  <2> HIDE DEF here
  <2>8. here <=> \/ f = 1 /\ t \in {"Document", "DocumentRequest"}
                 \/ f = 2 /\ t = "DocumentVersion"
                 \/ f = 3 /\ t \in {"Document", "DocumentVersion"}
    BY <1>5, <2>6, <2>7
  <2> QED
    BY <2>8 DEF here
<1>6. CASE f = 3
  <2>1. /\ Length(f) = 6
        /\ \A k \in 1 .. 6 : k = 1 \/ k = 2 \/ k = 3 \/ k = 4 \/ k = 5 \/ k = 6
    BY <1>6 DEF Length
  <2>2. \A k \in 1 .. 6 : \E u \in {"Document", "DocumentVersion"} :
          Files[3][k] \in {Drop(u), Define(u), Create(u)}
    BY <2>1, FilesAre
  <2>3. ASSUME NEW k \in 1 .. 6, Define(t) = Files[3][k] PROVE t \in {"Document", "DocumentVersion"}
    <3>1. PICK u \in {"Document", "DocumentVersion"} : Files[3][k] \in {Drop(u), Define(u), Create(u)}
      BY <2>2
    <3> QED
      <4>1. u \in RuledTable
        BY <1>1
      <4>2. t = u
        BY <1>2, <2>3, <3>1, <4>1
      <4> QED
        BY <4>2
  <2>4. t \in {"Document", "DocumentVersion"} => \E k \in 1 .. 6 : Define(t) = Files[3][k]
    <3>1. /\ 3 \in 1 .. 6 /\ Files[3][3] = Define("Document")
          /\ 5 \in 1 .. 6 /\ Files[3][5] = Define("DocumentVersion")
      BY FilesAre
    <3> QED
      BY <3>1
  <2>5. (\E k \in 1 .. Length(f) : Define(t) = Files[f][k]) <=> t \in {"Document", "DocumentVersion"}
    BY <1>6, <2>1, <2>3, <2>4, Zenon
  <2>6. f # 1 /\ f # 2
    BY <1>6
  <2> DEFINE here == Define(t) \in {Files[f][k] : k \in 1 .. Len(Files[f])}
  <2>7. here <=> t \in {"Document", "DocumentVersion"}
    BY <1>3, <2>5, Zenon
  <2> HIDE DEF here
  <2>8. here <=> \/ f = 1 /\ t \in {"Document", "DocumentRequest"}
                 \/ f = 2 /\ t = "DocumentVersion"
                 \/ f = 3 /\ t \in {"Document", "DocumentVersion"}
    BY <1>6, <2>6, <2>7
  <2> QED
    BY <2>8 DEF here
<1> QED
  BY <1>4, <1>5, <1>6

LEMMA PoliciesAsRecorded == MigrationsInv => MigrationsTypeOK /\ BookkeepingTrue
<1> SUFFICES ASSUME MigrationsInv PROVE MigrationsTypeOK /\ BookkeepingTrue
  OBVIOUS
<1>1. PICK n \in 0 .. 3 : applied = 1 .. n /\ (~overlapped => OneRun(n))
  BY DEF MigrationsInv
<1>2. Len(Files) = 3
  BY FilesAre
<1>3. ASSUME NEW p \in Deployer, deployment[p] # NULL
      PROVE  /\ deployment[p].seen \subseteq 1 .. 3
             /\ deployment[p].file \in 1 .. deployment[p].until + 1
             /\ deployment[p].at \in 1 .. 8
  BY <1>3 DEF MigrationsInv, RunOK, Run
<1>4. MigrationsTypeOK
  BY <1>1, <1>2, <1>3 DEF MigrationsInv, MigrationsTypeOK
<1>5. ASSUME ~overlapped, begun = applied PROVE AsRecorded
  <2>1. \A t \in RuledTable : AsLeftBy(t, n)
    BY <1>1, <1>5 DEF OneRun
  <2>2. ASSUME NEW t \in RuledTable
        PROVE  /\ Defining(t) # {} => LastFile(t, n) \in Defining(t)
               /\ \A f \in Defining(t) : f <= LastFile(t, n) /\ LastFile(t, n) # 0
    <3>1. Defining(t) = {f \in 1 .. n :
                           \/ f = 1 /\ t \in {"Document", "DocumentRequest"}
                           \/ f = 2 /\ t = "DocumentVersion"
                           \/ f = 3 /\ t \in {"Document", "DocumentVersion"}}
      <4>1. \A f \in 1 .. n : f \in 1 .. 3
        OBVIOUS
      <4>2. Defining(t) =
              {f \in 1 .. n : Define(t) \in {Files[f][k] : k \in 1 .. Len(Files[f])}}
        BY <1>1, Zenon DEF Defining
      <4>3. \A f \in 1 .. n : Define(t) \in {Files[f][k] : k \in 1 .. Len(Files[f])} <=>
               \/ f = 1 /\ t \in {"Document", "DocumentRequest"}
               \/ f = 2 /\ t = "DocumentVersion"
               \/ f = 3 /\ t \in {"Document", "DocumentVersion"}
        BY <4>1, DefinedWhere, Zenon
      <4> QED
        BY <4>2, <4>3
    <3>2. t \in {"Document", "DocumentRequest", "DocumentVersion"}
      BY DEF RuledTable
    <3>3. /\ n = 0 \/ n = 1 \/ n = 2 \/ n = 3
          /\ \A f \in 1 .. n : f = 1 \/ f = 2 \/ f = 3
      OBVIOUS
    <3>4. CASE n = 0
      BY <3>1, <3>2, <3>3, <3>4 DEF LastFile
    <3>5. CASE n = 1
      BY <3>1, <3>2, <3>3, <3>5 DEF LastFile
    <3>6. CASE n = 2
      BY <3>1, <3>2, <3>3, <3>6 DEF LastFile
    <3>7. CASE n = 3
      BY <3>1, <3>2, <3>3, <3>7 DEF LastFile
    <3> QED
      BY <3>3, <3>4, <3>5, <3>6, <3>7
  <2> QED
    BY <2>1, <2>2 DEF AsRecorded, AsLeftBy
<1> QED
  BY <1>1, <1>2, <1>4, <1>5 DEF BookkeepingTrue

-----------------------------------------------------------------------------
(***************************************************************************)
(* All components together.  A step of the office is a step of at most one *)
(* component, and starts from a state that each component starts from.     *)
(***************************************************************************)
OfficeInv ==
  /\ ParticipantsInv
  /\ ThreadReadInv
  /\ RemindersInv
  /\ TaskFilesInv
  /\ StateStoreInv
  /\ LiveBadgeInv
  /\ FoldersInv
  /\ ComposerInv
  /\ ServicesInv
  /\ QuestionnairesInv
  /\ MigrationsInv
  /\ RowPoliciesTypeOK
  /\ DocumentPagesInv
  /\ DownloadsInv
  /\ RequestPagesInv
  /\ GeneralThreadsInv
  /\ EngagementPanelsInv
  /\ DocumentRequestsInv
  /\ InitiateFormInv
  /\ part \in Parts

LEMMA StepsOfComponents ==
  ASSUME [Next]_vars
  PROVE  /\ [ParticipantsNext]_participantsVars
         /\ [ThreadReadNext]_threadReadVars
         /\ [RemindersNext]_remindersVars
         /\ [TaskFilesNext]_taskFilesVars
         /\ [StateStoreNext]_stateStoreVars
         /\ [LiveBadgeNext]_liveBadgeVars
         /\ [FoldersNext]_foldersVars
         /\ [ComposerNext]_composerVars
         /\ [ServicesNext]_servicesVars
         /\ [QuestionnairesNext]_questionnairesVars
         /\ [MigrationsNext]_migrationsVars
         /\ [RowPoliciesNext]_rowPoliciesVars
         /\ [DocumentPagesNext]_documentPagesVars
         /\ [DownloadsNext]_downloadsVars
         /\ [RequestPagesNext]_requestPagesVars
         /\ [GeneralThreadsNext]_generalThreadsVars
         /\ [EngagementPanelsNext]_engagementPanelsVars
         /\ [DocumentRequestsNext]_documentRequestsVars
         /\ [InitiateFormNext]_initiateFormVars
         /\ UNCHANGED part
<1>1. CASE UNCHANGED vars
  BY <1>1 DEF vars
<1>2. CASE Next
  <2>1. [ParticipantsNext]_participantsVars
    BY <1>2 DEF Next, Others, RemindersPart, QuestionnairesPart, FoldersPart, GeneralThreadsPart
  <2>2. [ThreadReadNext]_threadReadVars
    BY <1>2 DEF Next, Others, RemindersPart, QuestionnairesPart, FoldersPart, GeneralThreadsPart
  <2>3. [RemindersNext]_remindersVars
    BY <1>2 DEF Next, Others, RemindersPart, QuestionnairesPart, FoldersPart, GeneralThreadsPart
  <2>4. [TaskFilesNext]_taskFilesVars
    BY <1>2 DEF Next, Others, RemindersPart, QuestionnairesPart, FoldersPart, GeneralThreadsPart
  <2>5. [StateStoreNext]_stateStoreVars
    BY <1>2 DEF Next, Others, RemindersPart, QuestionnairesPart, FoldersPart, GeneralThreadsPart
  <2>6. [LiveBadgeNext]_liveBadgeVars
    BY <1>2 DEF Next, Others, RemindersPart, QuestionnairesPart, FoldersPart, GeneralThreadsPart
  <2>7. [FoldersNext]_foldersVars
    BY <1>2 DEF Next, Others, RemindersPart, QuestionnairesPart, FoldersPart, GeneralThreadsPart
  <2>8. [ComposerNext]_composerVars
    BY <1>2 DEF Next, Others, RemindersPart, QuestionnairesPart, FoldersPart, GeneralThreadsPart
  <2>9. [ServicesNext]_servicesVars
    BY <1>2 DEF Next, Others, RemindersPart, QuestionnairesPart, FoldersPart, GeneralThreadsPart
  <2>10. [QuestionnairesNext]_questionnairesVars
    BY <1>2 DEF Next, Others, RemindersPart, QuestionnairesPart, FoldersPart, GeneralThreadsPart
  <2>11. [MigrationsNext]_migrationsVars
    BY <1>2 DEF Next, Others, RemindersPart, QuestionnairesPart, FoldersPart, GeneralThreadsPart
  <2>12. [RowPoliciesNext]_rowPoliciesVars
    BY <1>2 DEF Next, Others, RemindersPart, QuestionnairesPart, FoldersPart, GeneralThreadsPart
  <2>13. [DocumentPagesNext]_documentPagesVars
    BY <1>2 DEF Next, Others, RemindersPart, QuestionnairesPart, FoldersPart, GeneralThreadsPart
  <2>14. [DownloadsNext]_downloadsVars
    BY <1>2 DEF Next, Others, RemindersPart, QuestionnairesPart, FoldersPart, GeneralThreadsPart
  <2>15. [RequestPagesNext]_requestPagesVars
    BY <1>2 DEF Next, Others, RemindersPart, QuestionnairesPart, FoldersPart, GeneralThreadsPart
  <2>16. [GeneralThreadsNext]_generalThreadsVars
    BY <1>2 DEF Next, Others, RemindersPart, QuestionnairesPart, FoldersPart, GeneralThreadsPart
  <2>17. [EngagementPanelsNext]_engagementPanelsVars
    BY <1>2 DEF Next, Others, RemindersPart, QuestionnairesPart, FoldersPart, GeneralThreadsPart
  <2>18. [DocumentRequestsNext]_documentRequestsVars
    BY <1>2 DEF Next, Others, RemindersPart, QuestionnairesPart, FoldersPart, GeneralThreadsPart
  <2>19. [InitiateFormNext]_initiateFormVars
    BY <1>2 DEF Next, Others, RemindersPart, QuestionnairesPart, FoldersPart, GeneralThreadsPart
  <2>20. UNCHANGED part
    BY <1>2 DEF Next, Others
  <2> QED
    BY <2>1, <2>2, <2>3, <2>4, <2>5, <2>6, <2>7, <2>8, <2>9, <2>10, <2>11, <2>12, <2>13, <2>14,
       <2>15, <2>16, <2>17, <2>18, <2>19, <2>20
<1> QED
  BY <1>1, <1>2

LEMMA OfficeInvariant == Spec => []OfficeInv
<1>1. Init => OfficeInv
  BY ParticipantsInitInv, ThreadReadInitInv, RemindersInitInv, TaskFilesInitInv,
     StateStoreInitInv, LiveBadgeInitInv, FoldersInitInv, ComposerInitInv, ServicesInitInv,
     QuestionnairesInitInv, MigrationsInitInv, RowPoliciesInitType, DocumentPagesInitInv,
     DownloadsInitInv, RequestPagesInitInv, GeneralThreadsInitInv, EngagementPanelsInitInv,
     DocumentRequestsInitInv, InitiateFormInitInv
     DEF Init, OfficeInv
<1>2. OfficeInv /\ [Next]_vars => OfficeInv'
  <2> SUFFICES ASSUME OfficeInv, [Next]_vars PROVE OfficeInv'
    OBVIOUS
  <2>1. ParticipantsInv'
    BY StepsOfComponents, ParticipantsStep DEF OfficeInv
  <2>2. ThreadReadInv'
    BY StepsOfComponents, ThreadReadStep DEF OfficeInv
  <2>3. RemindersInv'
    BY StepsOfComponents, RemindersStep DEF OfficeInv
  <2>4. TaskFilesInv'
    BY StepsOfComponents, TaskFilesStep DEF OfficeInv
  <2>5. StateStoreInv'
    BY StepsOfComponents, StateStoreStep DEF OfficeInv
  <2>6. LiveBadgeInv'
    BY StepsOfComponents, LiveBadgeStep DEF OfficeInv
  <2>7. FoldersInv'
    BY StepsOfComponents, FoldersStep DEF OfficeInv
  <2>8. ComposerInv'
    BY StepsOfComponents, ComposerStep DEF OfficeInv
  <2>9. ServicesInv'
    BY StepsOfComponents, ServicesStep DEF OfficeInv
  <2>10. QuestionnairesInv'
    BY StepsOfComponents, QuestionnairesStep DEF OfficeInv
  <2>11. MigrationsInv'
    BY StepsOfComponents, MigrationsStep DEF OfficeInv
  <2>12. RowPoliciesTypeOK'
    BY StepsOfComponents, RowPoliciesStepType DEF OfficeInv
  <2>13. DocumentPagesInv'
    BY StepsOfComponents, DocumentPagesStep DEF OfficeInv
  <2>14. DownloadsInv'
    BY StepsOfComponents, DownloadsStep DEF OfficeInv
  <2>15. RequestPagesInv'
    BY StepsOfComponents, RequestPagesStep DEF OfficeInv
  <2>16. GeneralThreadsInv'
    BY StepsOfComponents, GeneralThreadsStep DEF OfficeInv
  <2>17. EngagementPanelsInv'
    BY StepsOfComponents, EngagementPanelsStep DEF OfficeInv
  <2>18. DocumentRequestsInv'
    BY StepsOfComponents, DocumentRequestsStep DEF OfficeInv
  <2>19. InitiateFormInv'
    BY StepsOfComponents, InitiateFormStep DEF OfficeInv
  <2>20. (part \in Parts)'
    BY StepsOfComponents DEF OfficeInv
  <2> QED
    BY <2>1, <2>2, <2>3, <2>4, <2>5, <2>6, <2>7, <2>8, <2>9, <2>10, <2>11, <2>12, <2>13, <2>14,
       <2>15, <2>16, <2>17, <2>18, <2>19, <2>20
       DEF OfficeInv
<1> QED
  BY <1>1, <1>2, PTL DEF Spec

(***************************************************************************)
(* A user made for an invitee joins an engagement whichever calls fail.    *)
(***************************************************************************)
THEOREM StubsParticipateInOffice == Spec => []NoOrphanStub
<1>1. OfficeInv => NoOrphanStub
  BY DEF OfficeInv, ParticipantsInv
<1> QED
  BY <1>1, OfficeInvariant, PTL

(***************************************************************************)
(* No call from an outdated page undoes what holds of a row: a retired     *)
(* service stays retired, the questions of a template are those of its     *)
(* service, the answers that are stored are complete; and two policies of  *)
(* one engagement never disagree about who sees it.                        *)
(***************************************************************************)
THEOREM RowsStayWholeAlways == Spec => []RowsStayWhole
<1>1. OfficeInv => RowsStayWhole
  BY QuestionsAtHome, PoliciesAlwaysAgree
     DEF OfficeInv, RowsStayWhole, ServicesInv, QuestionnairesInv
<1> QED
  BY <1>1, OfficeInvariant, PTL

(***************************************************************************)
(* Each record of what was done leads to what is: the log of a task, the   *)
(* events of the process state, the files recorded as applied, and the     *)
(* download events.                                                        *)
(***************************************************************************)
THEOREM RecordsAlwaysTellHistory == Spec => []RecordsTellHistory
<1>1. OfficeInv => RecordsTellHistory
  BY TaskLogsLegal, EventsAccount, PoliciesAsRecorded
     DEF OfficeInv, RecordsTellHistory, DownloadsInv
<1> QED
  BY <1>1, OfficeInvariant, PTL

(***************************************************************************)
(* A page shows what is stored, or is known to be out of date, however the *)
(* answers of the actions, the refreshes and the events of the stream      *)
(* cross.                                                                  *)
(***************************************************************************)
THEOREM PagesAlwaysShowRows == Spec => []PagesShowRows
<1>1. OfficeInv => PagesShowRows
  BY ReadIfShown, TreeShown, ListsShown, PanelsShow, EditorsShow
     DEF OfficeInv, PagesShowRows, LiveBadgeInv
<1> QED
  BY <1>1, OfficeInvariant, PTL

(***************************************************************************)
(* People are told what happened, and no more often than promised.         *)
(***************************************************************************)
THEOREM PeopleAlwaysTold == Spec => []ToldWhatHappened
<1>1. OfficeInv => ToldWhatHappened
  BY SentIfTold, UploadsToldAsStored, ToldOfAsks, ThreadsTold, EditorsShow, FormTells
     DEF OfficeInv, ToldWhatHappened, RemindersInv
<1> QED
  BY <1>1, OfficeInvariant, PTL

(***************************************************************************)
(* The variables of every component of the office keep their types.        *)
(***************************************************************************)
THEOREM OfficeTypeCorrect == Spec => []TypeOK
<1>1. ASSUME OfficeInv PROVE TypeOK
  <2>1. ParticipantsTypeOK
    BY <1>1 DEF OfficeInv, ParticipantsInv
  <2>2. ThreadReadTypeOK
    BY <1>1 DEF OfficeInv, ThreadReadInv
  <2>3. RemindersTypeOK
    BY <1>1 DEF OfficeInv, RemindersInv
  <2>4. TaskFilesTypeOK
    BY <1>1, TaskLogsLegal DEF OfficeInv
  <2>5. StateStoreTypeOK
    BY <1>1 DEF OfficeInv, StateStoreInv
  <2>6. LiveBadgeTypeOK
    BY <1>1 DEF OfficeInv, LiveBadgeInv
  <2>7. FoldersTypeOK
    BY <1>1 DEF OfficeInv, FoldersInv
  <2>8. ComposerTypeOK
    BY <1>1 DEF OfficeInv, ComposerInv
  <2>9. ServicesTypeOK
    BY <1>1, ServicesTyped DEF OfficeInv
  <2>10. QuestionnairesTypeOK
    BY <1>1 DEF OfficeInv, QuestionnairesInv
  <2>11. MigrationsTypeOK
    BY <1>1, PoliciesAsRecorded DEF OfficeInv
  <2>12. RowPoliciesTypeOK
    BY <1>1 DEF OfficeInv
  <2>13. DocumentPagesTypeOK
    BY <1>1, DocumentPagesTyped DEF OfficeInv
  <2>14. DownloadsTypeOK
    BY <1>1 DEF OfficeInv, DownloadsInv
  <2>15. RequestPagesTypeOK
    BY <1>1 DEF OfficeInv, RequestPagesInv
  <2>16. GeneralThreadsTypeOK
    BY <1>1 DEF OfficeInv, GeneralThreadsInv
  <2>17. EngagementPanelsTypeOK
    BY <1>1, EngagementPanelsTyped DEF OfficeInv
  <2>18. DocumentRequestsTypeOK
    BY <1>1 DEF OfficeInv, DocumentRequestsInv
  <2>19. InitiateFormTypeOK
    BY <1>1 DEF OfficeInv, InitiateFormInv
  <2> QED
    BY <1>1, <2>1, <2>2, <2>3, <2>4, <2>5, <2>6, <2>7, <2>8, <2>9, <2>10, <2>11, <2>12, <2>13,
       <2>14, <2>15, <2>16, <2>17, <2>18, <2>19 DEF OfficeInv, TypeOK
<1> QED
  BY <1>1, OfficeInvariant, PTL
=============================================================================
