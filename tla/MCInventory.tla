---------------------------- MODULE MCInventory ----------------------------
(* Inventory on small instances. *)
EXTENDS Inventory

=============================================================================
