------------------------------ MODULE Migrations ------------------------------
(***************************************************************************)
(* Deploying the row-level policies: runTrackB of scripts/db-migrate.ts,   *)
(* with the three files that concern documents (db/policies/0007, 0011 and *)
(* 0012).                                                                  *)
(*                                                                         *)
(* A run reads once which files are recorded as applied, and executes the  *)
(* others of its checkout in order, statement by statement and without a   *)
(* transaction, recording each file behind its last statement.  The first  *)
(* error ends the run.  Nothing keeps two runs apart, and a run that died  *)
(* leaves its file half executed.                                          *)
(*                                                                         *)
(* A function cannot be replaced while a policy is bound to it: the        *)
(* policies are made WITH (SCHEMABINDING = ON).                            *)
(***************************************************************************)
EXTENDS Naturals, Sequences, FiniteSets, Null

CONSTANTS
  Deployer,        \* processes that run the script
  DeployerFaulty,  \* those that may die, or lose their connection
  MaxDeployments   \* bound on the runs

ASSUME MigrationsAssumption ==
  /\ DeployerFaulty \subseteq Deployer
  /\ MaxDeployments \in Nat

VARIABLES
  inForce,     \* tables whose security policy exists
  predicate,   \* per table the file that its access function is from, or NULL
  applied,     \* the bookkeeping table: files that are recorded
  deployment,  \* per process its run, [seen, until, file, at], or NULL
  deployments, \* runs so far
  begun,       \* history: files of which some run has executed a statement
  overlapped   \* history: was a run started while another was under way?

migrationsVars == <<inForce, predicate, applied, deployment, deployments, begun, overlapped>>

RuledTable == {"Document", "DocumentRequest", "DocumentVersion"}

Drop(t)   == [do |-> "drop policy if exists", table |-> t]
Define(t) == [do |-> "create or alter function", table |-> t]
Create(t) == [do |-> "create policy", table |-> t]

\* 0007-document-policy.sql.  The request has a second function, for writing.
DocumentPolicy ==
  <<Drop("Document"), Drop("DocumentRequest"), Define("Document"), Create("Document"),
    Define("DocumentRequest"), Drop("DocumentRequest"), Create("DocumentRequest")>>

\* 0011-document-version-policy.sql
DocumentVersionPolicy ==
  <<Define("DocumentVersion"), Drop("DocumentVersion"), Create("DocumentVersion")>>

\* 0012-document-soft-delete-filter.sql
DocumentSoftDeleteFilter ==
  <<Drop("Document"), Drop("DocumentVersion"), Define("Document"), Create("Document"),
    Define("DocumentVersion"), Create("DocumentVersion")>>

Files == <<DocumentPolicy, DocumentVersionPolicy, DocumentSoftDeleteFilter>>

MigrationsInit ==
  /\ inForce = {}
  /\ predicate = [t \in RuledTable |-> NULL]
  /\ applied = {}
  /\ deployment = [p \in Deployer |-> NULL]
  /\ deployments = 0
  /\ begun = {}
  /\ overlapped = FALSE

-----------------------------------------------------------------------------
\* The first file behind f that was not applied when the run began, or one past the last.
NextFile(f, seen, until) ==
  CHOOSE g \in (f + 1)..(until + 1) :
    /\ g \notin seen
    /\ \A h \in (f + 1)..(g - 1) : h \in seen

StartRun(p) ==
  /\ deployment[p] = NULL
  /\ deployments < MaxDeployments
  /\ \E n \in 1..Len(Files) :      \* a checkout has the files up to some release
       deployment' = [deployment EXCEPT ![p] =
         [seen |-> applied, until |-> n, file |-> NextFile(0, applied \cap 1..n, n), at |-> 1]]
  /\ deployments' = deployments + 1
  /\ overlapped' = (overlapped \/ \E q \in Deployer : deployment[q] # NULL)
  /\ UNCHANGED <<inForce, predicate, applied, begun>>

Executing(p) ==
  /\ deployment[p] # NULL
  /\ deployment[p].file <= deployment[p].until
  /\ deployment[p].at <= Len(Files[deployment[p].file])

\* Does the database refuse the statement?
Refused(s) ==
  \/ s.do = "create or alter function" /\ s.table \in inForce
  \/ s.do = "create policy" /\ s.table \in inForce

ExecuteStatement(p) ==
  /\ Executing(p)
  /\ LET d == deployment[p]
         s == Files[d.file][d.at]
     IN  /\ ~Refused(s)
         /\ deployment' = [deployment EXCEPT ![p].at = @ + 1]
         /\ begun' = begun \cup {d.file}
         /\ inForce' = CASE s.do = "create policy" -> inForce \cup {s.table}
                         [] s.do = "drop policy if exists" -> inForce \ {s.table}
                         [] OTHER -> inForce
         /\ predicate' = IF s.do = "create or alter function"
                         THEN [predicate EXCEPT ![s.table] = d.file]
                         ELSE predicate
  /\ UNCHANGED <<applied, deployments, overlapped>>

\* Mutant: a run goes on with its next file after an error.
RunOn(p) ==
  /\ Executing(p)
  /\ Refused(Files[deployment[p].file][deployment[p].at])
  /\ deployment' = [deployment EXCEPT ![p].file = NextFile(@, deployment[p].seen, deployment[p].until),
                                      ![p].at = 1]
  /\ UNCHANGED <<inForce, predicate, applied, deployments, begun, overlapped>>

\* An error ends the run: the remaining files are not tried.
StatementRefused(p) ==
  /\ Executing(p)
  /\ Refused(Files[deployment[p].file][deployment[p].at])
  /\ deployment' = [deployment EXCEPT ![p] = NULL]
  /\ UNCHANGED <<inForce, predicate, applied, deployments, begun, overlapped>>

\* The name of a file is unique in the table: a run that finds it there has failed.
recordAppliedMigration(p) ==
  /\ deployment[p] # NULL
  /\ LET d == deployment[p]
     IN  /\ d.file <= d.until
         /\ d.at = Len(Files[d.file]) + 1
         /\ applied' = applied \cup {d.file}
         /\ deployment' = [deployment EXCEPT ![p] =
              IF d.file \in applied THEN NULL
              ELSE [d EXCEPT !.file = NextFile(@, d.seen, d.until), !.at = 1]]
  /\ UNCHANGED <<inForce, predicate, deployments, begun, overlapped>>

FinishRun(p) ==
  /\ deployment[p] # NULL
  /\ deployment[p].file > deployment[p].until
  /\ deployment' = [deployment EXCEPT ![p] = NULL]
  /\ UNCHANGED <<inForce, predicate, applied, deployments, begun, overlapped>>

RunDies(p) ==
  /\ p \in DeployerFaulty
  /\ deployment[p] # NULL
  /\ deployment' = [deployment EXCEPT ![p] = NULL]
  /\ UNCHANGED <<inForce, predicate, applied, deployments, begun, overlapped>>

MigrationsNext ==
  \E p \in Deployer :
    \/ StartRun(p)
    \/ ExecuteStatement(p)
    \/ StatementRefused(p)
    \/ recordAppliedMigration(p)
    \/ FinishRun(p)
    \/ RunDies(p)

-----------------------------------------------------------------------------
(***************************************************************************)
(* Properties.                                                             *)
(***************************************************************************)

\* The variables keep their types.
MigrationsTypeOK ==
  /\ inForce \subseteq RuledTable
  /\ predicate \in [RuledTable -> 1..Len(Files) \cup {NULL}]
  /\ applied \subseteq 1..Len(Files)
  /\ \A p \in Deployer :
       \/ deployment[p] = NULL
       \/ /\ deployment[p].seen \subseteq 1..Len(Files)
          /\ deployment[p].file \in 1..(deployment[p].until + 1)
          /\ deployment[p].at \in 1..8
  /\ deployments \in 0..MaxDeployments
  /\ begun \subseteq 1..Len(Files)
  /\ overlapped \in BOOLEAN

Defining(t) == {f \in applied : Define(t) \in {Files[f][k] : k \in 1..Len(Files[f])}}

\* The policies that the files recorded so far should have left are in force.
AsRecorded ==
  \A t \in RuledTable :
    Defining(t) # {} => /\ t \in inForce
                        /\ predicate[t] \in Defining(t)
                        /\ \A f \in Defining(t) : f <= predicate[t]

(***************************************************************************)
(* The bookkeeping can be trusted (runTrackB): no file is recorded before  *)
(* one that it builds on, and where no runs overlapped and no file was     *)
(* left half executed, the policies in force are those of the last file    *)
(* recorded for their table, whichever runs died or failed before.         *)
(***************************************************************************)
BookkeepingTrue ==
  /\ \E n \in 0..Len(Files) : applied = 1..n
  /\ (~overlapped /\ begun = applied) => AsRecorded
=============================================================================
