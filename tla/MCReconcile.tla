---------------------------- MODULE MCReconcile ----------------------------
(***************************************************************************)
(* PassHistory on small instances.                                         *)
(***************************************************************************)
EXTENDS MCDeployments, PassHistory
=============================================================================
