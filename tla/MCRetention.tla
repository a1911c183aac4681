--------------------------- MODULE MCRetention ---------------------------
(***************************************************************************)
(* Small instance of Retention: one document of one engagement of a        *)
(* client, one hold on either.  Two handlers, of which one may die at      *)
(* every statement, are a purge beside a placement or a lifting, or two of *)
(* a kind.  Two versions are a replacement beside the purge.               *)
(***************************************************************************)
EXTENDS Retention

CONSTANTS e1, c1, d1

MCClientOf     == [e \in {e1} |-> c1]
MCEngagementOf == [d \in {d1} |-> e1]
=============================================================================
