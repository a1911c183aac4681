--------------------------- MODULE MCOnboarding ---------------------------
(***************************************************************************)
(* Small instance of Onboarding: one engagement, one document request, two *)
(* portal handlers that survive and, in the safety part, one that may die, *)
(* beside one handler of the accountant.                                   *)
(***************************************************************************)
EXTENDS Onboarding
=============================================================================
