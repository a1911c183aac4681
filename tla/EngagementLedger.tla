------------------------- MODULE EngagementLedger -------------------------
(***************************************************************************)
(* What the audit trail of an engagement promises (ADR-019): every change  *)
(* of the engagement's status or of one of its two confirmations appends   *)
(* one AuditEvent row in the transaction of the change, and nothing else   *)
(* appends one.  The rows alone are then an event source.  This module is  *)
(* the machine whose only state is, per engagement, how many rows of each  *)
(* action have been written: the status and the confirmations are computed *)
(* from the counts.  EngagementLifecycle implements it.                    *)
(***************************************************************************)
EXTENDS Integers

CONSTANT Engagement

VARIABLE ledger

LedgerAction == {"engagement.transition", "engagement.reopen",
                 "engagement.confirm_delivery", "engagement.confirm_filing"}

(***************************************************************************)
(* A forward step moves the status one place along New, In Progress,       *)
(* Review, Complete; a reopening moves it two places back.                 *)
(***************************************************************************)
Place(row) == row["engagement.transition"] - 2 * row["engagement.reopen"]

(***************************************************************************)
(* A confirmation stands until the next reopening clears it.               *)
(***************************************************************************)
Stands(row, confirmation) == row[confirmation] > row["engagement.reopen"]

Append(e, action) == ledger' = [ledger EXCEPT ![e][action] = @ + 1]

LedgerInit == ledger = [e \in Engagement |-> [a \in LedgerAction |-> 0]]

Forward(e) ==
  /\ Place(ledger[e]) \in 0 .. 2
  /\ Place(ledger[e]) = 2 => /\ Stands(ledger[e], "engagement.confirm_delivery")
                             /\ Stands(ledger[e], "engagement.confirm_filing")
  /\ Append(e, "engagement.transition")

Reopen(e) ==
  /\ Place(ledger[e]) = 3
  /\ Append(e, "engagement.reopen")

Confirm(e, confirmation) ==
  /\ ~Stands(ledger[e], confirmation)
  /\ Append(e, confirmation)

LedgerNext ==
  \E e \in Engagement :
    \/ Forward(e)
    \/ Reopen(e)
    \/ Confirm(e, "engagement.confirm_delivery")
    \/ Confirm(e, "engagement.confirm_filing")

LedgerSpec == LedgerInit /\ [][LedgerNext]_ledger
=============================================================================
