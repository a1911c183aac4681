--------------------------------- MODULE Null ---------------------------------
(***************************************************************************)
(* SQL's NULL and TypeScript's null, one value for all the modules that    *)
(* are checked together.                                                   *)
(***************************************************************************)
CONSTANT NULL
=============================================================================
