---------------------------- MODULE MCOnboarding ----------------------------
(***************************************************************************)
(* Onboarding on a small instance: two requests for one node, one deletion *)
(* by the operator, one by reconcile.                                      *)
(***************************************************************************)
EXTENDS Onboarding
=============================================================================
