--------------------------- MODULE MCLaunchPolicy ---------------------------
(***************************************************************************)
(* LaunchPolicy on one server and two chutes.                              *)
(***************************************************************************)
EXTENDS LaunchPolicy, TLC

CONSTANTS d1, s1, c1, c2

NoneRunning    == [d \in {} |-> c1]
NoHome         == [d \in {} |-> s1]
OneAndTwo      == c1 :> 1 @@ c2 :> 2
TwoGpus        == [s \in Server |-> 2]
Everywhere     == [c \in Chute |-> Server]
SecondIsBetter == c1 :> 1 @@ c2 :> 2
JobsOfSecond   == [j \in Job |-> c2]
OneOther       == [c \in Chute |-> 1]

\* Nothing runs at first: ids and coroutine slots are interchangeable (no liveness).
Symmetry == Permutations(Task) \cup Permutations(Dep)
=============================================================================
