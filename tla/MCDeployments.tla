--------------------------- MODULE MCDeployments ---------------------------
(***************************************************************************)
(* Deployments on small instances: the sets are model values in the cfg,   *)
(* placement and sizes are functions defined here.                         *)
(***************************************************************************)
EXTENDS Deployments, TLC

CONSTANTS s1, c1, c2

OneServer == [g \in Gpu |-> s1]
OneAndTwo == c1 :> 1 @@ c2 :> 2
AllOne    == [c \in Chute |-> 1]
AllTwo    == [c \in Chute |-> 2]

\* Deployment ids, GPUs and coroutine slots are interchangeable (no liveness).
Symmetry == Permutations(Dep) \cup Permutations(Gpu) \cup Permutations(Task \ ApiTask)
=============================================================================
