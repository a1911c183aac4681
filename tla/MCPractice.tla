------------------------------ MODULE MCPractice ------------------------------
(***************************************************************************)
(* The components around the engagement that promise something eventually, *)
(* checked in one run: how an engagement begins, the messages, and the     *)
(* daily digest.  Those of which only safety is asked are in MCOffice.     *)
(*                                                                         *)
(* They write no row in common: a behaviour of all of them is an           *)
(* interleaving of behaviours of each, and what each is asked of is a      *)
(* property of its own variables.  So the run takes one component at a     *)
(* time, chosen by `part`, and leaves the others in their initial state.   *)
(* What a component learns from another (that there is an unread notice)   *)
(* is an unconstrained step of its own module.                             *)
(*                                                                         *)
(* The intake is taken in two parts: decisions meet an engagement that was *)
(* initiated only as a request that is decided already, as the seeded one  *)
(* is ("requests", "initiated").                                           *)
(***************************************************************************)
EXTENDS Intake, Messages, Digest

VARIABLE part

Parts == {"requests", "initiated", "messages", "digest"}

vars == <<intakeVars, messagesVars, digestVars, part>>

Init ==
  /\ IntakeInit
  /\ MessagesInit
  /\ DigestInit
  /\ part \in Parts

\* The kind of job that the handlers of the accountant have.
OnlyJobs(kind) == \A p \in AdminProc : job'[p] # NULL => kind \in DOMAIN job'[p]

IntakePart ==
  /\ IntakeNext
  /\ \/ part = "requests"  /\ OnlyJobs("decision")
     \/ part = "initiated" /\ OnlyJobs("override")
  /\ UNCHANGED <<messagesVars, digestVars>>

MessagesPart ==
  /\ part = "messages"
  /\ MessagesNext
  /\ UNCHANGED <<intakeVars, digestVars>>

DigestPart ==
  /\ part = "digest"
  /\ DigestNext
  /\ UNCHANGED <<intakeVars, messagesVars>>

Next ==
  /\ IntakePart \/ MessagesPart \/ DigestPart
  /\ UNCHANGED part

Spec ==
  /\ Init /\ [][Next]_vars
  /\ IntakeFairness
  /\ MessagesFairness
  /\ DigestFairness

-----------------------------------------------------------------------------
\* The variables of every component keep their types.
TypeOK ==
  /\ IntakeTypeOK
  /\ MessagesTypeOK
  /\ DigestTypeOK
  /\ part \in Parts
=============================================================================
