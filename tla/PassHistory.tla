---------------------------- MODULE PassHistory ----------------------------
(***************************************************************************)
(* Deployments with two history variables, about the current pass of       *)
(* reconcile: the deployments that were in order when it began and have    *)
(* been in order ever since (steady), or at least up and running ever      *)
(* since (running).  They add nothing to what the miner may do: they are   *)
(* computed from each step of Deployments, and only the properties of this *)
(* module read them.                                                       *)
(***************************************************************************)
EXTENDS Deployments

VARIABLES steady, running

\* In order as far as the database, the cluster and the validator go, whatever
\* the cache says.
Up == {d \in known \ stubs : job[d] = "run" /\ d \in Instances}

HistoryInit == Init /\ steady = {} /\ running = {}

Since(history, now) ==
    IF rec'.pc = "idle" THEN {} ELSE IF rec.pc = "idle" THEN Sound' ELSE history \cap now

HistoryNext ==
    /\ Next
    /\ steady' = Since(steady, Sound')
    /\ running' = Since(running, Up')

HistorySpec == HistoryInit /\ [][HistoryNext]_<<vars, steady, running>>

Condemned == rec.del \cup rec.inline \cup rec.purge \cup rec.stray \cup rec.untracked

\* A pass of reconcile condemns no deployment that was in order all through it:
\* its row is not deleted, its instance not purged, its job not taken for an
\* untracked one, even when the scan of the pods fails half-way ("Skip if
\* k8s_config_ids is None (pod scan failed) to avoid mass deletion", gepetto.py).
ReconcileSparesSteady == steady \cap Condemned = {}

\* The same of a deployment that was in order when the pass began and kept running:
\* what is to be avoided is deleting the rows of pods that exist, whether the scan
\* fails or finds the cached resources of a cluster half replaced.
ReconcileSparesRunning == running \cap Condemned = {}
=============================================================================
