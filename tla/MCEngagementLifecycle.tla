---------------------- MODULE MCEngagementLifecycle ----------------------
(***************************************************************************)
(* Small instance of EngagementLifecycle.  One engagement is enough for    *)
(* every property: no action reads or writes the rows of two.  Two         *)
(* handlers that survive and one that may die at every step cover a        *)
(* completion, a second completion after a reopening, and a handler of     *)
(* the first that is still at work or dead by then.                        *)
(***************************************************************************)
EXTENDS EngagementLifecycle
=============================================================================
