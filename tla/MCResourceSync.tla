--------------------------- MODULE MCResourceSync ---------------------------
(***************************************************************************)
(* ResourceSync on small instances.                                        *)
(***************************************************************************)
EXTENDS ResourceSync
=============================================================================
