---------------------------- MODULE MCConfigMaps ----------------------------
(***************************************************************************)
(* ConfigMaps on small instances.                                          *)
(***************************************************************************)
EXTENDS ConfigMaps
=============================================================================
