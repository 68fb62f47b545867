--------------------------- MODULE MCNodeStorage ---------------------------
(* Instances of NodeStorage for TLC: a deployment of each chute on one node. *)
EXTENDS NodeStorage, TLC

CONSTANTS d1, d2, c1, c2, r1, r2

OneOfEach == d1 :> c1 @@ d2 :> c2
TwoEach   == [d \in Dep |-> 2]
Unrelated == [r \in Repo |-> {}]
=============================================================================
