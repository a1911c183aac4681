------------------------------ MODULE RowPolicies ------------------------------
(***************************************************************************)
(* Which rows a session sees and may write: the security policies of       *)
(* db/policies/0001 to 0018.                                               *)
(*                                                                         *)
(* A policy is a predicate over one row, and each repeats the ownership    *)
(* test with the joins that lead from its own table to the engagement:     *)
(* nothing but their agreement makes the rows of an engagement appear and  *)
(* disappear together while participants come, threads are opened and      *)
(* documents are deleted and restored.                                     *)
(*                                                                         *)
(* A row is known by its table and by what it belongs to.  How a session   *)
(* gets its role and its user (packages/db/src/client.ts), and the admin   *)
(* principal, for which every predicate is true, are left out.             *)
(***************************************************************************)
EXTENDS FiniteSets, Null

CONSTANTS
  Case,        \* Engagement ids
  ClientUser   \* User ids of role CLIENT

ASSUME RowPoliciesAssumption ==
  /\ NULL \notin ClientUser
  /\ Case \cap ClientUser = {}     \* ids are unique across the tables

VARIABLES
  owner,     \* Engagement.clientUserId, NULL for a client that has not signed up
  party,     \* the EngagementParticipant rows, <<engagement, user>>
  paper,     \* per engagement its Document: "none", "live" or "deleted" (deletedAt)
  opened     \* Thread rows: what each is about, an engagement or a client

rowPoliciesVars == <<owner, party, paper, opened>>

Accountant == "ACCOUNTANT"
Session == ClientUser \cup {Accountant}

RowPoliciesInit ==
  /\ owner \in [Case -> ClientUser \cup {NULL}]
  /\ party = {<<e, owner[e]>> : e \in {x \in Case : owner[x] # NULL}}
  /\ paper = [e \in Case |-> "none"]
  /\ opened = {}

-----------------------------------------------------------------------------
(***************************************************************************)
(* The writes that the predicates look at.                                 *)
(***************************************************************************)
AddParty(e, u) ==
  /\ <<e, u>> \notin party
  /\ party' = party \cup {<<e, u>>}
  /\ UNCHANGED <<owner, paper, opened>>

insertPendingDocument(e) ==
  /\ paper[e] = "none"
  /\ paper' = [paper EXCEPT ![e] = "live"]
  /\ UNCHANGED <<owner, party, opened>>

softDeleteDocument(e) ==
  /\ paper[e] = "live"
  /\ paper' = [paper EXCEPT ![e] = "deleted"]
  /\ UNCHANGED <<owner, party, opened>>

restoreDocument(e) ==
  /\ paper[e] = "deleted"
  /\ paper' = [paper EXCEPT ![e] = "live"]
  /\ UNCHANGED <<owner, party, opened>>

\* A thread is about an engagement or a client: Thread_engagement_or_client_chk.
AddThread(x) ==
  /\ opened' = opened \cup {x}
  /\ UNCHANGED <<owner, party, paper>>

-----------------------------------------------------------------------------
(***************************************************************************)
(* The rows, and the row that one is part of.                              *)
(***************************************************************************)
CaseTables == {"Engagement", "Folder", "DocumentRequest", "QuestionnaireAnswer",
               "EngagementNote", "LegalHold"}
ThreadTables == {"Thread", "Message", "MessageAttachment"}

RowOf(table, of) == [table |-> table, of |-> of]

Stored ==
  {RowOf(t, e) : t \in CaseTables, e \in Case}
    \cup {RowOf(t, e) : t \in {"Document", "DocumentVersion"}, e \in {x \in Case : paper[x] # "none"}}
    \cup {RowOf(t, x) : t \in ThreadTables, x \in opened}
    \cup {RowOf("EngagementParticipant", p) : p \in party}
    \cup {RowOf("ThreadReadState", u) : u \in ClientUser}
    \cup {RowOf("Notification", s) : s \in Session}
    \cup {RowOf(t, NULL) : t \in {"Service", "QuestionnaireTemplate", "EngagementRequest",
                                  "AuditEvent", "ReminderSetting"}}

ParentTable ==
  [Folder |-> "Engagement", Document |-> "Engagement", DocumentRequest |-> "Engagement",
   QuestionnaireAnswer |-> "Engagement", DocumentVersion |-> "Document",
   Message |-> "Thread", MessageAttachment |-> "Message"]

\* A thread is part of its engagement; a general thread of none.
Parent(r) ==
  IF r.table = "Thread" /\ r.of \in Case THEN RowOf("Engagement", r.of)
  ELSE IF r.table \in DOMAIN ParentTable THEN RowOf(ParentTable[r.table], r.of)
  ELSE NULL

-----------------------------------------------------------------------------
(***************************************************************************)
(* The predicates, for a session s of a client or of an accountant.  Those *)
(* that guard writes are left out.                                         *)
(***************************************************************************)
Owns(s, e) == owner[e] = s
Participates(s, e) == <<e, s>> \in party

\* The office's own tables.
fn_engagement_request_access(s) == s = Accountant
fn_audit_event_access(s) == s = Accountant
fn_engagement_note_access(s) == s = Accountant
fn_legal_hold_access(s) == s = Accountant
fn_reminder_setting_access(s) == s = Accountant

fn_service_access(s) == s = Accountant \/ s \in ClientUser

fn_engagement_access(s, e) == s = Accountant \/ Owns(s, e) \/ Participates(s, e)
fn_engagement_participant_access(s, p) == s = Accountant \/ p[2] = s
fn_folder_access(s, e) == s = Accountant \/ Owns(s, e) \/ Participates(s, e)
fn_questionnaire_answer_access(s, e) == s = Accountant \/ Owns(s, e)
fn_document_request_access(s, e) == s = Accountant \/ Owns(s, e)

fn_document_access(s, e) ==
  s = Accountant \/ (paper[e] # "deleted" /\ (Owns(s, e) \/ Participates(s, e)))

\* Mutant: the predicate of 0011, which 0012 replaces.
VersionAccessBeforeSoftDelete(s, e) == s = Accountant \/ Owns(s, e) \/ Participates(s, e)

\* A version passes the test of its document again: it has no deletedAt of its own.
fn_document_version_access(s, e) ==
  s = Accountant \/ (paper[e] # "deleted" /\ (Owns(s, e) \/ Participates(s, e)))

\* The joins of an engagement's thread find nothing for a general one, and vice versa.
fn_thread_access(s, x) ==
  \/ s = Accountant
  \/ x \in Case /\ (Owns(s, x) \/ Participates(s, x))
  \/ x = s

fn_message_access(s, x) ==
  \/ s = Accountant
  \/ x \in Case /\ (Owns(s, x) \/ Participates(s, x))
  \/ x = s

fn_message_attachment_access(s, x) ==
  \/ s = Accountant
  \/ x \in Case /\ (Owns(s, x) \/ Participates(s, x))
  \/ x = s

fn_thread_read_state_access(s, x) == s = Accountant \/ x = s

\* The notices of the accountants are addressed to the role, and seen by it alone.
fn_notification_access(s, x) == x = s

\* FILTER predicates.  A template has none: everybody reads it.
MaySee(s, r) ==
  \/ r.table = "EngagementRequest"     /\ fn_engagement_request_access(s)
  \/ r.table = "AuditEvent"            /\ fn_audit_event_access(s)
  \/ r.table = "EngagementNote"        /\ fn_engagement_note_access(s)
  \/ r.table = "LegalHold"             /\ fn_legal_hold_access(s)
  \/ r.table = "ReminderSetting"       /\ fn_reminder_setting_access(s)
  \/ r.table = "Service"               /\ fn_service_access(s)
  \/ r.table = "Engagement"            /\ fn_engagement_access(s, r.of)
  \/ r.table = "EngagementParticipant" /\ fn_engagement_participant_access(s, r.of)
  \/ r.table = "Folder"                /\ fn_folder_access(s, r.of)
  \/ r.table = "QuestionnaireAnswer"   /\ fn_questionnaire_answer_access(s, r.of)
  \/ r.table = "DocumentRequest"       /\ fn_document_request_access(s, r.of)
  \/ r.table = "Document"              /\ fn_document_access(s, r.of)
  \/ r.table = "DocumentVersion"       /\ fn_document_version_access(s, r.of)
  \/ r.table = "Thread"                /\ fn_thread_access(s, r.of)
  \/ r.table = "Message"               /\ fn_message_access(s, r.of)
  \/ r.table = "MessageAttachment"     /\ fn_message_attachment_access(s, r.of)
  \/ r.table = "ThreadReadState"       /\ fn_thread_read_state_access(s, r.of)
  \/ r.table = "Notification"          /\ fn_notification_access(s, r.of)
  \/ r.table = "QuestionnaireTemplate"

RowPoliciesNext ==
  \/ \E e \in Case :
       \/ \E u \in ClientUser : AddParty(e, u)
       \/ insertPendingDocument(e)
       \/ softDeleteDocument(e)
       \/ restoreDocument(e)
  \/ \E x \in Case \cup ClientUser : AddThread(x)

-----------------------------------------------------------------------------
(***************************************************************************)
(* Properties.                                                             *)
(***************************************************************************)

\* The variables keep their types.
RowPoliciesTypeOK ==
  /\ owner \in [Case -> ClientUser \cup {NULL}]
  /\ party \subseteq Case \X ClientUser
  /\ paper \in [Case -> {"none", "live", "deleted"}]
  /\ opened \subseteq Case \cup ClientUser

(***************************************************************************)
(* The policies agree (db/policies): what a session sees is part of a row  *)
(* that it sees as well, and the client of an engagement sees the whole of *)
(* it but what is deleted, and what is the office's own.                   *)
(***************************************************************************)
PoliciesAgree ==
  \A s \in Session : \A r \in {x \in Stored : Parent(x) # NULL} :
    /\ MaySee(s, r) => MaySee(s, Parent(r))
    /\ r.of \in Case /\ Owns(s, r.of) =>
         MaySee(s, r) \/ (r.table \in {"Document", "DocumentVersion"} /\ paper[r.of] = "deleted")
=============================================================================
