------------------------------ MODULE GpuPool ------------------------------
(***************************************************************************)
(* What the table of GPUs promises to the launches that compete for it: a  *)
(* pool that hands GPUs out whole.  A holder gets all it asks for at once  *)
(* or nothing, only from GPUs that are free, and gives everything back at  *)
(* once; a GPU never passes from one holder to another without having been *)
(* free.  GPUs may be withdrawn at any time.  Deployments implements it.   *)
(***************************************************************************)
CONSTANTS Gpu, Holder, Nobody,
          Portions  \* the sets of GPUs that one request may be for

VARIABLES pool,     \* the GPUs there are
          owner     \* who holds a GPU

Holds(h) == {g \in pool : owner[g] = h}

Init == pool = Gpu /\ owner = [g \in Gpu |-> Nobody]

Grant(h, G) ==
    /\ Holds(h) = {} /\ G \subseteq Holds(Nobody) /\ G \in Portions
    /\ owner' = [g \in Gpu |-> IF g \in G THEN h ELSE owner[g]]
    /\ UNCHANGED pool

Release(H) ==
    /\ owner' = [g \in Gpu |-> IF owner[g] \in H THEN Nobody ELSE owner[g]]
    /\ UNCHANGED pool

Withdraw(G) ==
    /\ pool' = pool \ G
    /\ owner' = [g \in Gpu |-> IF g \in G THEN Nobody ELSE owner[g]]

Next ==
    \/ \E h \in Holder, G \in SUBSET pool : Grant(h, G)
    \/ \E H \in SUBSET Holder : Release(H)
    \/ \E G \in SUBSET pool : Withdraw(G)

Spec == Init /\ [][Next]_<<pool, owner>>
=============================================================================
