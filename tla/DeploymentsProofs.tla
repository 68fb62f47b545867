------------------------- MODULE DeploymentsProofs -------------------------
(***************************************************************************)
(* Deployments, for every number of GPUs, servers, chutes, deployments,    *)
(* coroutines and failures: it keeps its types, the GPUs held in the       *)
(* database are the ones the jobs were started with, the GPU table is a    *)
(* pool that hands GPUs out whole, and a pass of reconcile spares what is  *)
(* in order.                                                               *)
(*                                                                         *)
(* ClaimsExact is not inductive.  The strengthening adds that a launch     *)
(* names its GPUs once and on one server (SpecsPlaced), that a launch      *)
(* about to claim is the first to use its id (LaunchesFresh), and that no  *)
(* GPU row points at a deployment that is not tracked (OwnersTracked).     *)
(***************************************************************************)
EXTENDS PassHistory, FiniteSetTheorems, TLAPS

\* What a launched id stands for never leaves its server, and names as many GPUs
\* as the chute asks for.
SpecsPlaced ==
    \A d \in Used :
        /\ \A g \in spec[d].gpus : ServerOf[g] = spec[d].server
        /\ Cardinality(spec[d].gpus) = GpuCount[spec[d].chute]

\* A launch about to claim its GPUs has no row yet, and is the only one of its id.
LaunchesFresh ==
    \A t \in Task : task[t].pc = "claim" =>
        /\ task[t].dep \in Used \ rows
        /\ \A u \in Task \ {t} : task[u].pc = "claim" => task[u].dep # task[t].dep

\* GPU rows and deployment rows refer to each other.
OwnersTracked ==
    /\ \A g \in Gpu : owner[g] # NoDep =>
           owner[g] \in rows /\ g \in gpus /\ g \in spec[owner[g]].gpus
    /\ \A d \in rows : \A g \in spec[d].gpus \cap gpus : owner[g] = d

Disjoint == \A d, e \in rows : d # e => spec[d].gpus \cap spec[e].gpus = {}

ClaimsInv == SpecsPlaced /\ LaunchesFresh /\ OwnersTracked /\ Disjoint
IInv == TypeOK /\ ClaimsInv

USE DEF vars, db, world, loops

-----------------------------------------------------------------------------
(* Facts used by many steps.                                                 *)

\* The initial database, clusters and coroutines satisfy the invariant.
LEMMA InitInv == Init => IInv
  <1> SUFFICES ASSUME Init PROVE IInv
      OBVIOUS
  <1>1. TypeOK
      BY PlacementAssumption
      DEF Init, TypeOK, Used, JobState, InstState, TaskRec, Idle, RecRec, RecIdle
  <1>2. Used = {} /\ rows = {}
      BY DEF Init, Used
  <1>3. \A t \in Task : task[t].pc # "claim"
      BY DEF Init, Idle
  <1>4. ClaimsInv
      BY <1>2, <1>3 DEF Init, ClaimsInv, SpecsPlaced, LaunchesFresh, OwnersTracked, Disjoint
  <1> QED
      BY <1>1, <1>4 DEF IInv

\* A step that leaves alone what the claims are about (the GPU rows, which
\* deployments are tracked, what they stand for) and begins no launch keeps them.
LEMMA Frame ==
    ASSUME IInv,
           UNCHANGED <<gpus, owner, rows, spec>>,
           \A t \in Task : task'[t].pc = "claim" => task'[t] = task[t]
    PROVE  ClaimsInv'
  <1>1. SpecsPlaced'
      BY DEF IInv, ClaimsInv, SpecsPlaced, Used
  <1>2. LaunchesFresh'
      BY DEF IInv, ClaimsInv, LaunchesFresh, Used
  <1>3. OwnersTracked' /\ Disjoint'
      BY DEF IInv, ClaimsInv, OwnersTracked, Disjoint
  <1> QED
      BY <1>1, <1>2, <1>3 DEF ClaimsInv

\* Deleting deployment rows, and with them the references of their GPUs (the
\* foreign key is ON DELETE SET NULL), keeps the claims of the other rows.
LEMMA DropKeepsClaims ==
    ASSUME IInv, NEW D \in SUBSET Dep,
           rows' = rows \ D,
           owner' = [g \in Gpu |-> IF owner[g] \in D THEN NoDep ELSE owner[g]],
           UNCHANGED <<gpus, spec>>,
           \A t \in Task : task'[t].pc = "claim" => task'[t] = task[t]
    PROVE  ClaimsInv'
  <1>1. SpecsPlaced'
      BY DEF IInv, ClaimsInv, SpecsPlaced, Used
  <1>2. LaunchesFresh'
      BY DEF IInv, ClaimsInv, LaunchesFresh, Used
  <1>3. OwnersTracked'
      BY DEF IInv, ClaimsInv, TypeOK, OwnersTracked, Used, Specs
  <1>4. Disjoint'
      BY DEF IInv, ClaimsInv, Disjoint
  <1> QED
      BY <1>1, <1>2, <1>3, <1>4 DEF ClaimsInv

\* A coroutine that moves on to a step other than the claim begins no launch.
LEMMA NoLaunch ==
    ASSUME TypeOK, NEW t \in Task, NEW r, Becomes(t, r), r.pc # "claim"
    PROVE  \A u \in Task : task'[u].pc = "claim" => task'[u] = task[u]
  BY DEF TypeOK, Becomes

\* The count of failures stays within its bound.
LEMMA FaultCounted ==
    ASSUME TypeOK, Fault PROVE faults' \in 0 .. MaxFaults
  BY PlacementAssumption DEF TypeOK, Fault

\* The UPDATE that claims at least gpu_count of the gpu_count candidates claims
\* all of them, so every candidate was there and unassigned.
LEMMA ClaimIsWhole ==
    ASSUME IInv, NEW d \in Used, Cardinality(Claimable(d)) >= GpuCount[spec[d].chute]
    PROVE  Claimable(d) = spec[d].gpus
  <1>1. spec[d].gpus \subseteq Gpu /\ Claimable(d) \subseteq spec[d].gpus
      BY NoSpecAssumption DEF IInv, TypeOK, Used, Specs, Claimable
  <1>2. IsFiniteSet(spec[d].gpus)
      BY <1>1, GpuAssumption, FS_Subset
  <1>3. Cardinality(spec[d].gpus) = GpuCount[spec[d].chute]
      BY DEF IInv, ClaimsInv, SpecsPlaced
  <1>4. /\ Cardinality(Claimable(d)) \in Nat /\ Cardinality(spec[d].gpus) \in Nat
        /\ Cardinality(Claimable(d)) <= Cardinality(spec[d].gpus)
        /\ Cardinality(Claimable(d)) = Cardinality(spec[d].gpus) => Claimable(d) = spec[d].gpus
      BY <1>1, <1>2, FS_Subset, FS_CardinalityType
  <1> QED
      BY <1>3, <1>4

-----------------------------------------------------------------------------
(* deploy_chute: one lemma for the two steps that make claims, one for the   *)
(* rest.                                                                     *)

\* A launch picks an unused id and gpu_count GPUs of one server.
LEMMA DeployStartInv ==
    ASSUME IInv, NEW t \in Task, NEW d \in Dep, NEW c \in Chute, NEW s \in Server,
           NEW G \in SUBSET Gpu, DeployStart(t, d, c, s, G)
    PROVE  IInv'
  <1> DEFINE new == [chute |-> c, server |-> s, gpus |-> G]
  <1>1. new \in Specs /\ new # NoSpec /\ d \notin Used /\ d \notin rows
      BY NoSpecAssumption DEF DeployStart, Specs, IInv, TypeOK
  <1>2. /\ spec' = [spec EXCEPT ![d] = new] /\ spec \in [Dep -> Specs \cup {NoSpec}]
        /\ task' = [task EXCEPT ![t] = At("claim", d)] /\ task \in [Task -> TaskRec]
        /\ UNCHANGED <<gpus, owner, rows>>
      BY DEF DeployStart, Becomes, IInv, TypeOK
  <1>3. Used' = Used \cup {d} /\ \A e \in Used : spec'[e] = spec[e]
      BY <1>1, <1>2 DEF Used
  <1>4. TypeOK'
      BY <1>1, <1>2, <1>3 DEF DeployStart, IInv, TypeOK, TaskRec, At, DeployPc
  <1>5. SpecsPlaced'
      BY <1>1, <1>2, <1>3 DEF DeployStart, IInv, ClaimsInv, SpecsPlaced
  <1>6. LaunchesFresh'
    <2>1. \A u \in Task \ {t} : task'[u] = task[u]
        BY <1>2
    <2>2. task'[t] = At("claim", d)
        BY <1>2
    <2>3. \A u \in Task \ {t} : task[u].pc = "claim" => task[u].dep \in Used \ rows
        BY DEF IInv, ClaimsInv, LaunchesFresh
    <2> QED
        BY <1>1, <1>2, <1>3, <2>1, <2>2, <2>3 DEF IInv, ClaimsInv, LaunchesFresh, At
  <1>7. \A e \in rows : e \in Used /\ spec'[e] = spec[e]
      BY <1>3 DEF IInv, TypeOK
  <1>8. OwnersTracked'
      BY <1>2, <1>7 DEF IInv, ClaimsInv, OwnersTracked
  <1>9. Disjoint'
      BY <1>2, <1>7 DEF IInv, ClaimsInv, Disjoint
  <1> QED
      BY <1>4, <1>5, <1>6, <1>8, <1>9 DEF IInv, ClaimsInv

\* The claim: whole or nothing, and only of GPUs nobody holds.
LEMMA DeployClaimInv ==
    ASSUME IInv, NEW t \in Task, DeployClaim(t)
    PROVE  IInv'
  <1> DEFINE d == task[t].dep
  <1>1. /\ task[t].pc = "claim" /\ d \in Used \ rows /\ d \in Dep /\ d # NoDep
        /\ \A u \in Task \ {t} : task[u].pc = "claim" => task[u].dep # d
      BY NoDepAssumption DEF DeployClaim, Runs, IInv, ClaimsInv, LaunchesFresh, Used
  <1>2. UNCHANGED <<gpus, spec>> /\ Used' = Used
      BY DEF DeployClaim, Used
  <1>3. CASE Becomes(t, Idle) /\ UNCHANGED <<rows, stubs, owner>>
    <2>1. TypeOK'
        BY <1>2, <1>3 DEF DeployClaim, Becomes, IInv, TypeOK, TaskRec
    <2>2. ClaimsInv'
        BY <1>2, <1>3, NoLaunch, Frame, "idle" # "claim" DEF IInv, Idle
    <2> QED
        BY <2>1, <2>2 DEF IInv
  <1>4. CASE /\ Cardinality(Claimable(d)) >= GpuCount[spec[d].chute]
             /\ rows' = rows \cup {d} /\ stubs' = stubs \cup {d}
             /\ owner' = [g \in Gpu |-> IF g \in Claimable(d) THEN d ELSE owner[g]]
             /\ Becomes(t, At("create", d))
    <2>1. Claimable(d) = spec[d].gpus
        BY <1>1, <1>4, ClaimIsWhole
    <2>2. \A g \in spec[d].gpus : g \in Gpu /\ g \in gpus /\ owner[g] = NoDep /\ owner'[g] = d
        BY <1>4, <2>1 DEF Claimable, IInv, TypeOK
    <2>3. \A g \in Gpu : g \notin spec[d].gpus => owner'[g] = owner[g]
        BY <1>4, <2>1
    <2>4. TypeOK'
        BY <1>1, <1>2, <1>4 DEF DeployClaim, Becomes, IInv, TypeOK, TaskRec, At, DeployPc
    <2>5. SpecsPlaced'
        BY <1>2 DEF IInv, ClaimsInv, SpecsPlaced
    <2>6. LaunchesFresh'
      <3>1. \A u \in Task : task'[u].pc = "claim" => u # t /\ task'[u] = task[u]
          BY <1>4 DEF Becomes, At, IInv, TypeOK
      <3> QED
          BY <1>1, <1>2, <1>4, <3>1 DEF IInv, ClaimsInv, LaunchesFresh
    <2>7. OwnersTracked'
      <3>1. \A e \in rows : spec[e].gpus \cap gpus \cap spec[d].gpus = {}
          BY <2>2, NoDepAssumption DEF IInv, ClaimsInv, OwnersTracked, TypeOK, Used
      <3>2. \A e \in rows : \A g \in spec[e].gpus \cap gpus : owner'[g] = e
          BY <2>3, <3>1 DEF IInv, ClaimsInv, OwnersTracked, TypeOK
      <3> QED
          BY <1>1, <1>2, <1>4, <2>2, <2>3, <3>2 DEF IInv, ClaimsInv, OwnersTracked
    <2>8. Disjoint'
      <3>1. \A e \in rows : spec[e].gpus \cap spec[d].gpus = {}
          BY <2>2, NoDepAssumption DEF IInv, ClaimsInv, OwnersTracked, TypeOK, Used
      <3> QED
          BY <1>2, <1>4, <3>1 DEF IInv, ClaimsInv, Disjoint
    <2> QED
        BY <2>4, <2>5, <2>6, <2>7, <2>8 DEF IInv, ClaimsInv
  <1> QED
      BY <1>3, <1>4 DEF DeployClaim

\* The other steps of a launch.
LEMMA DeployingInv ==
    ASSUME IInv, NEW t \in Task, Deploying(t)
    PROVE  IInv'
  <1> DEFINE d == task[t].dep
  <1>1. CASE DeployClaim(t)
      BY <1>1, DeployClaimInv
  <1>2. CASE DeployNoDisk(t)
    <2>1. TypeOK'
        BY <1>2
        DEF DeployNoDisk, IInv, TypeOK, TaskRec, Idle, At, Becomes, Runs, DeployPc,
            UndeployPc, Used
    <2>2. ClaimsInv'
        BY <1>2, Frame, NoLaunch DEF DeployNoDisk, IInv, At, Idle
    <2> QED
        BY <2>1, <2>2 DEF IInv
  <1>3. CASE DeployCreate(t)
    <2>1. TypeOK'
        BY <1>3
        DEF DeployCreate, IInv, TypeOK, TaskRec, Idle, At, Becomes, Runs, DeployPc,
            UndeployPc, JobState, Used
    <2>2. ClaimsInv'
        BY <1>3, Frame, NoLaunch DEF DeployCreate, IInv, At, Idle
    <2> QED
        BY <2>1, <2>2 DEF IInv
  <1>4. CASE DeployCreateFails(t)
    <2>1. TypeOK'
        BY <1>4, FaultCounted
        DEF DeployCreateFails, IInv, TypeOK, TaskRec, Idle, At, Becomes, Runs, DeployPc,
            UndeployPc, JobState, Used
    <2>2. ClaimsInv'
        BY <1>4, Frame, NoLaunch DEF DeployCreateFails, IInv, At, Idle
    <2> QED
        BY <2>1, <2>2 DEF IInv
  <1>5. CASE DeployWait(t)
    <2>1. TypeOK'
        BY <1>5
        DEF DeployWait, IInv, TypeOK, TaskRec, Idle, At, Becomes, Runs, DeployPc, UndeployPc,
            Used
    <2>2. ClaimsInv'
        BY <1>5, Frame, NoLaunch DEF DeployWait, IInv, At, Idle
    <2> QED
        BY <2>1, <2>2 DEF IInv
  <1>6. CASE DeployUpdate(t)
    <2>1. TypeOK'
        BY <1>6
        DEF DeployUpdate, IInv, TypeOK, TaskRec, Idle, At, Becomes, Runs, DeployPc,
            UndeployPc, Used
    <2>2. ClaimsInv'
        BY <1>6, Frame, NoLaunch DEF DeployUpdate, IInv, At, Idle
    <2> QED
        BY <2>1, <2>2 DEF IInv
  <1>7. CASE DeployClear(t)
    <2>1. d \in Dep
        BY <1>7 DEF DeployClear, Runs, IInv, TypeOK, TaskRec, Idle
    <2>2. TypeOK'
        BY <1>7, <2>1
        DEF DeployClear, DropRows, IInv, TypeOK, Becomes, TaskRec, Idle, At, DeployPc, Used
    <2>3. ClaimsInv'
      <3>1. \A u \in Task : task'[u].pc = "claim" => task'[u] = task[u]
          BY <1>7, NoLaunch DEF DeployClear, IInv, At, Idle
      <3> QED
          BY <1>7, <2>1, <3>1, DropKeepsClaims DEF DeployClear, DropRows
    <2> QED
        BY <2>2, <2>3 DEF IInv
  <1>8. CASE DeployUnjob(t)
    <2>1. TypeOK'
        BY <1>8
        DEF DeployUnjob, IInv, TypeOK, TaskRec, Idle, At, Becomes, Runs, DeployPc, UndeployPc,
            DeleteJob, JobState, Used
    <2>2. ClaimsInv'
        BY <1>8, Frame, NoLaunch DEF DeployUnjob, IInv, At, Idle
    <2> QED
        BY <2>1, <2>2 DEF IInv
  <1> QED
      BY <1>1, <1>2, <1>3, <1>4, <1>5, <1>6, <1>7, <1>8 DEF Deploying

-----------------------------------------------------------------------------
(* undeploy                                                                  *)

\* The steps of an undeploy.
LEMMA UndeployingInv ==
    ASSUME IInv, NEW t \in Task, Undeploying(t)
    PROVE  IInv'
  <1> DEFINE d == task[t].dep
  <1>1. CASE UndeployPreflight(t)
    <2>1. TypeOK'
        BY <1>1
        DEF UndeployPreflight, IInv, TypeOK, TaskRec, Idle, At, Becomes, Runs, DeployPc,
            UndeployPc, Used, Specs
    <2>2. ClaimsInv'
        BY <1>1, Frame, NoLaunch DEF UndeployPreflight, IInv, At, Idle
    <2> QED
        BY <2>1, <2>2 DEF IInv
  <1>2. CASE UndeployRow(t)
    <2>1. d \in Dep
        BY <1>2 DEF UndeployRow, Runs, IInv, TypeOK, TaskRec, Idle
    <2>2. TypeOK'
        BY <1>2, <2>1
        DEF UndeployRow, DropRows, IInv, TypeOK, Becomes, TaskRec, At, UndeployPc, Used
    <2>3. ClaimsInv'
      <3>1. \A u \in Task : task'[u].pc = "claim" => task'[u] = task[u]
          BY <1>2, NoLaunch DEF UndeployRow, IInv, At
      <3> QED
          BY <1>2, <2>1, <3>1, DropKeepsClaims DEF UndeployRow, DropRows
    <2> QED
        BY <2>2, <2>3 DEF IInv
  <1>3. CASE UndeployPurge(t)
    <2>1. TypeOK'
        BY <1>3
        DEF UndeployPurge, IInv, TypeOK, TaskRec, Idle, At, Becomes, Runs, DeployPc,
            UndeployPc, InstState, Used
    <2>2. ClaimsInv'
        BY <1>3, Frame, NoLaunch DEF UndeployPurge, IInv, At, Idle
    <2> QED
        BY <2>1, <2>2 DEF IInv
  <1>4. CASE UndeployPurgeFails(t)
    <2>1. TypeOK'
        BY <1>4, FaultCounted
        DEF UndeployPurgeFails, IInv, TypeOK, TaskRec, Idle, At, Becomes, Runs, DeployPc,
            UndeployPc, Used
    <2>2. ClaimsInv'
        BY <1>4, Frame, NoLaunch DEF UndeployPurgeFails, IInv, At, Idle
    <2> QED
        BY <2>1, <2>2 DEF IInv
  <1>5. CASE UndeployK8s(t)
    <2>1. TypeOK'
        BY <1>5
        DEF UndeployK8s, IInv, TypeOK, TaskRec, Idle, At, Becomes, Runs, DeployPc, UndeployPc,
            DeleteJob, JobState, Used
    <2>2. ClaimsInv'
        BY <1>5, Frame, NoLaunch DEF UndeployK8s, IInv, At, Idle
    <2> QED
        BY <2>1, <2>2 DEF IInv
  <1>6. CASE UndeployK8sFails(t)
    <2>1. TypeOK'
        BY <1>6, FaultCounted
        DEF UndeployK8sFails, IInv, TypeOK, TaskRec, Idle, At, Becomes, Runs, DeployPc,
            UndeployPc, Used
    <2>2. ClaimsInv'
        BY <1>6, Frame, NoLaunch DEF UndeployK8sFails, IInv, At, Idle
    <2> QED
        BY <2>1, <2>2 DEF IInv
  <1> QED
      BY <1>1, <1>2, <1>3, <1>4, <1>5, <1>6 DEF Undeploying

-----------------------------------------------------------------------------
(* Event handlers                                                            *)

\* The handlers of instance events, and the calls that schedule undeploys.
LEMMA InstanceHandlersInv ==
    ASSUME IInv, NEW d \in Dep,
           InstanceCreated(d) \/ InstanceActivated(d) \/ InstanceDeleted(d) \/ UndeployRequest(d)
    PROVE  IInv'
  <1>1. CASE InstanceCreated(d)
    <2>1. TypeOK'
        BY <1>1
        DEF InstanceCreated, IInv, TypeOK, EventKind, Used
    <2>2. ClaimsInv'
        BY <1>1, Frame DEF InstanceCreated
    <2> QED
        BY <2>1, <2>2 DEF IInv
  <1>2. CASE InstanceActivated(d)
    <2>1. TypeOK'
        BY <1>2
        DEF InstanceActivated, IInv, TypeOK, EventKind, Used
    <2>2. ClaimsInv'
        BY <1>2, Frame DEF InstanceActivated
    <2> QED
        BY <2>1, <2>2 DEF IInv
  <1>3. CASE InstanceDeleted(d)
    <2>1. TypeOK'
        BY <1>3
        DEF InstanceDeleted, IInv, TypeOK, EventKind, Used
    <2>2. ClaimsInv'
        BY <1>3, Frame DEF InstanceDeleted
    <2> QED
        BY <2>1, <2>2 DEF IInv
  <1>4. CASE UndeployRequest(d)
    <2>1. TypeOK'
        BY <1>4
        DEF UndeployRequest, IInv, TypeOK, Used
    <2>2. ClaimsInv'
        BY <1>4, Frame DEF UndeployRequest
    <2> QED
        BY <2>1, <2>2 DEF IInv
  <1> QED
      BY <1>1, <1>2, <1>3, <1>4

\* An undeploy begins, in gepetto or in the API.
LEMMA UndeployBeginsInv ==
    ASSUME IInv, NEW t \in Task, NEW d \in Dep,
           UndeployStart(t, d) \/ ApiPurge(t, d) \/ ServerPurge(t, d)
    PROVE  IInv'
  <1>1. CASE UndeployStart(t, d)
    <2>1. TypeOK'
        BY <1>1
        DEF UndeployStart, IInv, TypeOK, TaskRec, At, Becomes, Runs, UndeployPc, Used
    <2>2. ClaimsInv'
        BY <1>1, Frame, NoLaunch DEF UndeployStart, IInv, At, Idle
    <2> QED
        BY <2>1, <2>2 DEF IInv
  <1>2. CASE ApiPurge(t, d) \/ ServerPurge(t, d)
    <2>0. ApiPurge(t, d)
        BY <1>2 DEF ServerPurge
    <2>1. TypeOK'
        BY <2>0
        DEF ApiPurge, IInv, TypeOK, TaskRec, At, Becomes, Runs, UndeployPc, Used
    <2>2. ClaimsInv'
        BY <2>0, Frame, NoLaunch DEF ApiPurge, IInv, At, Idle
    <2> QED
        BY <2>1, <2>2 DEF IInv
  <1> QED
      BY <1>1, <1>2

\* chute_deleted and chute_created.
LEMMA ChuteHandlersInv ==
    ASSUME IInv, NEW c \in Chute,
           ChuteDeletedBegin(c) \/ ChuteDeletedEnd(c) \/ ChuteCreated(c)
    PROVE  IInv'
  <1>1. CASE ChuteDeletedBegin(c)
    <2>1. TypeOK'
        BY <1>1
        DEF ChuteDeletedBegin, IInv, TypeOK, Used, OfChute
    <2>2. ClaimsInv'
        BY <1>1, Frame DEF ChuteDeletedBegin
    <2> QED
        BY <2>1, <2>2 DEF IInv
  <1>2. CASE ChuteDeletedEnd(c)
    <2>1. OfChute(c) \in SUBSET Dep
        BY DEF OfChute, Used
    <2>2. TypeOK'
        BY <1>2, <2>1 DEF ChuteDeletedEnd, DropRows, IInv, TypeOK, Used
    <2>3. ClaimsInv'
        BY <1>2, <2>1, DropKeepsClaims DEF ChuteDeletedEnd, DropRows
    <2> QED
        BY <2>2, <2>3 DEF IInv
  <1>3. CASE ChuteCreated(c)
    <2>1. TypeOK'
        BY <1>3
        DEF ChuteCreated, IInv, TypeOK, Used, rowVars
    <2>2. ClaimsInv'
        BY <1>3, Frame DEF ChuteCreated, rowVars
    <2> QED
        BY <2>1, <2>2 DEF IInv
  <1> QED
      BY <1>1, <1>2, <1>3

\* gpu_deleted: the row of the GPU goes, and with it the claim on it.
LEMMA GpuHandlersInv ==
    ASSUME IInv, NEW g \in Gpu, GpuDeletedBegin(g) \/ GpuDeletedEnd(g)
    PROVE  IInv'
  <1>1. CASE GpuDeletedBegin(g)
    <2>1. TypeOK'
        BY <1>1
        DEF GpuDeletedBegin, IInv, TypeOK, Used
    <2>2. ClaimsInv'
        BY <1>1, Frame DEF GpuDeletedBegin
    <2> QED
        BY <2>1, <2>2 DEF IInv
  <1>2. CASE GpuDeletedEnd(g)
    <2>1. TypeOK'
        BY <1>2 DEF GpuDeletedEnd, IInv, TypeOK, Used
    <2>2. SpecsPlaced' /\ LaunchesFresh' /\ Disjoint'
        BY <1>2 DEF GpuDeletedEnd, IInv, ClaimsInv, SpecsPlaced, LaunchesFresh, Disjoint, Used
    <2>3. OwnersTracked'
        BY <1>2 DEF GpuDeletedEnd, IInv, ClaimsInv, TypeOK, OwnersTracked
    <2> QED
        BY <2>1, <2>2, <2>3 DEF IInv, ClaimsInv
  <1> QED
      BY <1>1, <1>2

\* server_deleted: the server's GPU rows and deployment rows go together,
\* because a launch names GPUs of its own server only.
LEMMA ServerHandlersInv ==
    ASSUME IInv, NEW s \in Server, ServerDeletedClear(s) \/ ServerDeletedDrop(s)
    PROVE  IInv'
  <1>1. CASE ServerDeletedClear(s)
    <2>1. TypeOK'
        BY <1>1
        DEF ServerDeletedClear, IInv, TypeOK, Used, JobState
    <2>2. ClaimsInv'
        BY <1>1, Frame DEF ServerDeletedClear
    <2> QED
        BY <2>1, <2>2 DEF IInv
  <1>2. CASE ServerDeletedDrop(s)
    <2>1. TypeOK'
        BY <1>2 DEF ServerDeletedDrop, IInv, TypeOK, Used, OnServer
    <2>2. SpecsPlaced' /\ LaunchesFresh' /\ Disjoint'
        BY <1>2
        DEF ServerDeletedDrop, IInv, ClaimsInv, SpecsPlaced, LaunchesFresh, Disjoint, Used
    <2>3. \A e \in rows : e \in Used /\ \A g \in spec[e].gpus : ServerOf[g] = spec[e].server
        BY DEF IInv, ClaimsInv, TypeOK, SpecsPlaced
    <2>4. rows' = {e \in rows : spec[e].server # s} /\ spec' = spec
        BY <1>2, <2>3 DEF ServerDeletedDrop, OnServer
    <2>5. OwnersTracked'
      <3>1. \A g \in Gpu : owner'[g] # NoDep =>
                owner'[g] \in rows' /\ g \in gpus' /\ g \in spec[owner'[g]].gpus
          BY <1>2, <2>3, <2>4 DEF ServerDeletedDrop, IInv, ClaimsInv, TypeOK, OwnersTracked
      <3>2. \A e \in rows' : \A g \in spec[e].gpus \cap gpus' : owner'[g] = e
          BY <1>2, <2>3, <2>4 DEF ServerDeletedDrop, IInv, ClaimsInv, TypeOK, OwnersTracked
      <3> QED
          BY <2>4, <3>1, <3>2 DEF OwnersTracked
    <2> QED
        BY <2>1, <2>2, <2>5 DEF IInv, ClaimsInv
  <1> QED
      BY <1>1, <1>2

-----------------------------------------------------------------------------
(* reconcile                                                                 *)

\* The idle reconciler.
LEMMA RecIdleTyped == RecIdle \in RecRec
  BY DEF RecIdle, RecRec

\* What a pass records is made of deployment ids.
LEMMA VerdictsTyped ==
    ASSUME TypeOK, NEW unv \in SUBSET Dep
    PROVE  /\ RecNamed \subseteq Dep /\ RecFlipOn \subseteq Dep /\ RecFlipOff \subseteq Dep
           /\ RecKnown \subseteq Dep /\ RecOrphan \subseteq Dep /\ RecMissing \subseteq Dep
           /\ RecVanished \subseteq Dep /\ RecAged \subseteq Dep /\ RecDead(unv) \subseteq Dep
           /\ rec.ids \subseteq Dep /\ rec.insts \subseteq Dep
  <1>1. /\ rows \subseteq Dep /\ known \subseteq Dep /\ active \subseteq Dep
        /\ rec.ids \subseteq Dep /\ rec.insts \subseteq Dep
      BY DEF TypeOK, Used, RecRec
  <1>2. RecNamed \subseteq Dep /\ RecKnown \subseteq Dep /\ RecOrphan \subseteq Dep
      BY <1>1 DEF RecNamed, RecKnown, RecOrphan
  <1>3. RecFlipOn \subseteq Dep /\ RecFlipOff \subseteq Dep /\ RecMissing \subseteq Dep
      BY <1>1, <1>2 DEF RecFlipOn, RecFlipOff, RecMissing
  <1>4. RecRest \subseteq Dep
      BY <1>1 DEF RecRest
  <1> QED
      BY <1>1, <1>2, <1>3, <1>4 DEF RecVanished, RecAged, RecDead

\* The steps of a pass of reconcile.
LEMMA ReconcilingInv ==
    ASSUME IInv, Reconciling
    PROVE  IInv'
  <1>1. CASE ReconcileRefresh
    <2>1. TypeOK'
        BY <1>1
        DEF ReconcileRefresh, IInv, TypeOK, RecRec, RecIdle, Instances, Used
    <2>2. ClaimsInv'
        BY <1>1, Frame DEF ReconcileRefresh
    <2> QED
        BY <2>1, <2>2 DEF IInv
  <1>2. ASSUME NEW ok \in BOOLEAN, ReconcileScan(ok) PROVE IInv'
    <2>1. TypeOK'
        BY <1>2, FaultCounted DEF ReconcileScan, DeployedChutes, IInv, TypeOK, RecRec, Used
    <2>2. ClaimsInv'
        BY <1>2, Frame DEF ReconcileScan
    <2> QED
        BY <2>1, <2>2 DEF IInv
  <1>3. ASSUME NEW unv \in SUBSET Dep, ReconcileRows(unv) PROVE IInv'
    <2>1. rec' \in RecRec
        BY <1>3, VerdictsTyped DEF ReconcileRows, IInv, RecRec, RecIdle
    <2>2. pending' \subseteq Dep /\ ev' \in [Dep -> SUBSET EventKind]
        BY <1>3, VerdictsTyped DEF ReconcileRows, IInv, TypeOK, EventKind
    <2>3. TypeOK'
        BY <1>3, <2>1, <2>2 DEF ReconcileRows, IInv, TypeOK, Used
    <2>4. ClaimsInv'
        BY <1>3, Frame DEF ReconcileRows
    <2> QED
        BY <2>3, <2>4 DEF IInv
  <1>4. ASSUME NEW d \in Dep, ReconcilePurge(d) \/ ReconcilePurgeFails(d) PROVE IInv'
    <2>1. rec' \in RecRec
        BY <1>4 DEF ReconcilePurge, ReconcilePurgeFails, IInv, TypeOK, RecRec
    <2>2. TypeOK'
        BY <1>4, <2>1, FaultCounted
        DEF ReconcilePurge, ReconcilePurgeFails, IInv, TypeOK, InstState, Used
    <2>3. ClaimsInv'
        BY <1>4, Frame DEF ReconcilePurge, ReconcilePurgeFails
    <2> QED
        BY <2>2, <2>3 DEF IInv
  <1>5. CASE ReconcileCommit
    <2>1. /\ rec.del \subseteq Dep /\ rec.stray \subseteq Dep /\ rec.untracked \subseteq Dep
        BY DEF IInv, TypeOK, RecRec
    <2>2. rec' \in RecRec
      <3>1. [RecIdle EXCEPT !.pc = "purge", !.purge = rec.stray, !.untracked = rec.untracked]
                \in RecRec
          BY <2>1 DEF RecRec, RecIdle
      <3> QED
          BY <1>5, <3>1, RecIdleTyped DEF ReconcileCommit
    <2>3. TypeOK'
        BY <1>5, <2>2 DEF ReconcileCommit, IInv, TypeOK, rowVars, Used
    <2>4. ClaimsInv'
        BY <1>5, <2>1, Frame, DropKeepsClaims DEF ReconcileCommit, rowVars
    <2> QED
        BY <2>3, <2>4 DEF IInv
  <1>6. CASE ReconcileSpawn
    <2>1. TypeOK'
        BY <1>6
        DEF ReconcileSpawn, IInv, TypeOK, RecRec, RecIdle, Used
    <2>2. ClaimsInv'
        BY <1>6, Frame DEF ReconcileSpawn
    <2> QED
        BY <2>1, <2>2 DEF IInv
  <1> QED
      BY <1>1, <1>2, <1>3, <1>4, <1>5, <1>6 DEF Reconciling

-----------------------------------------------------------------------------
(* The environment                                                           *)

\* Agents, kubernetes, the validator, time and crashes.
LEMMA EnvironmentInv ==
    ASSUME IInv, Environment
    PROVE  IInv'
  <1>1. ASSUME NEW d \in Dep, AgentSync(d) \/ JobRemoved(d) \/ JobEnds(d) \/ JobLost(d)
        PROVE  IInv'
    <2>1. TypeOK'
        BY <1>1, FaultCounted
        DEF AgentSync, JobRemoved, JobEnds, JobLost, IInv, TypeOK, JobState, Used
    <2>2. ClaimsInv'
        BY <1>1, Frame DEF AgentSync, JobRemoved, JobEnds, JobLost
    <2> QED
        BY <2>1, <2>2 DEF IInv
  <1>2. ASSUME NEW d \in Dep,
               ValidatorCreates(d) \/ ValidatorActivates(d) \/ ValidatorDeletes(d) \/ EventsLost(d)
        PROVE  IInv'
    <2>1. TypeOK'
        BY <1>2, FaultCounted
        DEF ValidatorCreates, ValidatorActivates, ValidatorDeletes, EventsLost,
            IInv, TypeOK, InstState, EventKind, Used
    <2>2. ClaimsInv'
        BY <1>2, Frame DEF ValidatorCreates, ValidatorActivates, ValidatorDeletes, EventsLost
    <2> QED
        BY <2>1, <2>2 DEF IInv
  <1>3. ASSUME NEW d \in Dep, RowAges(d) PROVE IInv'
    <2>1. TypeOK'
        BY <1>3 DEF RowAges, IInv, TypeOK, Used
    <2>2. ClaimsInv'
        BY <1>3, Frame DEF RowAges
    <2> QED
        BY <2>1, <2>2 DEF IInv
  <1>4. ASSUME NEW s \in Server,
               ClusterUnhealthy(s) \/ ClusterResyncBegin(s) \/ ClusterResyncEnd(s)
        PROVE  IInv'
    <2>1. TypeOK'
        BY <1>4, FaultCounted
        DEF ClusterUnhealthy, ClusterResyncBegin, ClusterResyncEnd, IInv, TypeOK, JobState, Used
    <2>2. ClaimsInv'
        BY <1>4, Frame DEF ClusterUnhealthy, ClusterResyncBegin, ClusterResyncEnd
    <2> QED
        BY <2>1, <2>2 DEF IInv
  <1>5. CASE GepettoCrash \/ ApiCrash
    <2>1. \A t \in Task : task'[t] \in {task[t], Idle}
        BY <1>5 DEF GepettoCrash, ApiCrash
    <2>2. rec' \in RecRec
        BY <1>5, RecIdleTyped DEF GepettoCrash, ApiCrash, IInv, TypeOK
    <2>3. TypeOK'
        BY <1>5, <2>2, FaultCounted
        DEF GepettoCrash, ApiCrash, IInv, TypeOK, TaskRec, Used
    <2>4. ClaimsInv'
        BY <1>5, <2>1, Frame DEF GepettoCrash, ApiCrash, Idle
    <2> QED
        BY <2>3, <2>4 DEF IInv
  <1> QED
      BY <1>1, <1>2, <1>3, <1>4, <1>5 DEF Environment

-----------------------------------------------------------------------------
(* Types and claims                                                          *)

\* Every step of the miner keeps the invariant.
LEMMA NextInv == IInv /\ [Next]_vars => IInv'
  <1> SUFFICES ASSUME IInv, [Next]_vars PROVE IInv'
      OBVIOUS
  <1>1. CASE Launching
      BY <1>1, DeployStartInv DEF Launching
  <1>2. ASSUME NEW t \in Task, Deploying(t) \/ Undeploying(t) PROVE IInv'
      BY <1>2, DeployingInv, UndeployingInv
  <1>3. CASE Handling
      BY <1>3, InstanceHandlersInv, UndeployBeginsInv, ChuteHandlersInv, GpuHandlersInv,
         ServerHandlersInv
      DEF Handling
  <1>4. CASE Reconciling
      BY <1>4, ReconcilingInv
  <1>5. CASE Environment
      BY <1>5, EnvironmentInv
  <1>6. CASE UNCHANGED vars
    <2>1. TypeOK'
        BY <1>6 DEF IInv, TypeOK, Used
    <2>2. ClaimsInv'
        BY <1>6, Frame
    <2> QED
        BY <2>1, <2>2 DEF IInv
  <1> QED
      BY <1>1, <1>2, <1>3, <1>4, <1>5, <1>6 DEF Next

\* The strengthening is what ClaimsExact needs.
LEMMA ClaimsFollow == IInv => ClaimsExact
  <1> SUFFICES ASSUME IInv PROVE ClaimsExact
      OBVIOUS
  <1>1. \A d \in rows : Claimed(d) = spec[d].gpus \cap gpus
      BY NoDepAssumption DEF IInv, ClaimsInv, OwnersTracked, TypeOK, Claimed, Used
  <1> QED
      BY <1>1 DEF IInv, ClaimsInv, Disjoint, ClaimsExact

\* Type correctness, in particular that the flags of a deployment row (stub,
\* instance id, active) never outlive the row, however gepetto's handlers, the
\* reconciler's delayed commit and the API's deletions interleave.
THEOREM TypeCorrect == Spec => []TypeOK
  <1>1. IInv => TypeOK
      BY DEF IInv
  <1> QED
      BY <1>1, InitInv, NextInv, PTL DEF Spec

\* The GPUs a deployment row holds are exactly those its job was started with,
\* and no two rows were started on the same GPU (_track_deployment's conditional
\* UPDATE against every interleaving of launches, undeploys, deletions, reconcile
\* passes and crashes).
THEOREM ClaimsCorrect == Spec => []ClaimsExact
  BY InitInv, NextInv, ClaimsFollow, PTL DEF Spec

-----------------------------------------------------------------------------
(* To the launches, the GPU table is a pool that hands GPUs out whole:       *)
(* Deployments implements GpuPool, by a mapping that forgets everything but  *)
(* the GPU rows and their owners.  A claim is a grant, the deletion of rows  *)
(* a release, the deletion of GPUs or of a server a withdrawal, and every    *)
(* other step a stutter.  The invariant above is what makes a claim a grant: *)
(* the launch holds nothing yet (LaunchesFresh, OwnersTracked), and what it  *)
(* gets is all it asked for (SpecsPlaced).                                   *)

\* All GPUs are free at first.
LEMMA PoolInit == Init => Pool!Init
  BY DEF Init, Pool!Init

\* Deleting deployment rows releases what they held.
LEMMA DropReleases ==
    ASSUME NEW D \in SUBSET Dep, UNCHANGED gpus,
           owner' = [g \in Gpu |-> IF owner[g] \in D THEN NoDep ELSE owner[g]]
    PROVE  Pool!Next
  <1>1. Pool!Release(D)
      BY DEF Pool!Release
  <1> QED
      BY <1>1 DEF Pool!Next

\* A claim grants the launch all its GPUs, or fails and takes none.
LEMMA ClaimGrants ==
    ASSUME IInv, NEW t \in Task, DeployClaim(t)
    PROVE  [Pool!Next]_<<gpus, owner>>
  <1> DEFINE d == task[t].dep
  <1>1. CASE owner' = owner
      BY <1>1 DEF DeployClaim
  <1>2. CASE owner' # owner
    <2>1. /\ task[t].pc = "claim"
          /\ Cardinality(Claimable(d)) >= GpuCount[spec[d].chute]
          /\ owner' = [g \in Gpu |-> IF g \in Claimable(d) THEN d ELSE owner[g]]
          /\ UNCHANGED gpus
        BY <1>2 DEF DeployClaim, Runs
    <2>2. d \in Used \ rows /\ d \in Dep
        BY <2>1 DEF IInv, ClaimsInv, LaunchesFresh, Used
    <2>3. Pool!Holds(d) = {}
        BY <2>2, NoDepAssumption
        DEF Pool!Holds, IInv, ClaimsInv, OwnersTracked, TypeOK
    <2>4. Claimable(d) \subseteq Pool!Holds(NoDep)
        BY DEF Claimable, Pool!Holds
    <2>5. \E c \in Chute : Cardinality(Claimable(d)) = GpuCount[c]
      <3>1. /\ spec[d].chute \in Chute /\ spec[d].gpus \subseteq Gpu
            /\ Cardinality(spec[d].gpus) = GpuCount[spec[d].chute]
          BY <2>2 DEF IInv, ClaimsInv, SpecsPlaced, TypeOK, Specs, Used
      <3>2. IsFiniteSet(spec[d].gpus)
          BY <3>1, GpuAssumption, FS_Subset
      <3>3. Cardinality(Claimable(d)) <= Cardinality(spec[d].gpus)
          BY <3>2, FS_Subset DEF Claimable
      <3>4. Cardinality(Claimable(d)) \in Nat /\ GpuCount[spec[d].chute] \in Nat
        <4>1. IsFiniteSet(Claimable(d))
            BY <3>2, FS_Subset DEF Claimable
        <4> QED
            BY <4>1, <3>1, FS_CardinalityType, PlacementAssumption
      <3> QED
          BY <2>1, <3>1, <3>3, <3>4
    <2>6. Claimable(d) \in SUBSET gpus /\ gpus \subseteq Gpu
        BY DEF Claimable, IInv, TypeOK
    <2>7. Pool!Grant(d, Claimable(d))
        BY <2>1, <2>3, <2>4, <2>5, <2>6 DEF Pool!Grant
    <2> QED
        BY <2>2, <2>6, <2>7 DEF Pool!Next
  <1> QED
      BY <1>1, <1>2

\* Deleting a GPU, or a server with its GPUs, withdraws them.
LEMMA DeletionWithdraws ==
    ASSUME IInv,
           \/ \E g \in Gpu : GpuDeletedEnd(g)
           \/ \E s \in Server : ServerDeletedDrop(s)
    PROVE  Pool!Next
  <1>1. ASSUME NEW g \in Gpu, GpuDeletedEnd(g) PROVE Pool!Next
    <2>1. g \in gpus \/ owner[g] = NoDep
        BY DEF IInv, ClaimsInv, OwnersTracked
    <2>2. Pool!Withdraw({g} \cap gpus)
        BY <1>1, <2>1 DEF GpuDeletedEnd, Pool!Withdraw, IInv, TypeOK
    <2> QED
        BY <2>2 DEF Pool!Next
  <1>2. ASSUME NEW s \in Server, ServerDeletedDrop(s) PROVE Pool!Next
    <2> DEFINE G == {g \in gpus : ServerOf[g] = s}
    <2>1. gpus' = gpus \ G
        BY <1>2 DEF ServerDeletedDrop
    <2>2. owner' = [g \in Gpu |-> IF g \in G THEN NoDep ELSE owner[g]]
        BY <1>2 DEF ServerDeletedDrop, IInv, ClaimsInv, OwnersTracked
    <2>3. Pool!Withdraw(G)
        BY <2>1, <2>2 DEF Pool!Withdraw
    <2> QED
        BY <2>3 DEF Pool!Next
  <1> QED
      BY <1>1, <1>2

\* Every step of the miner is a step of the pool or leaves it alone.
LEMMA PoolStep == IInv /\ [Next]_vars => [Pool!Next]_<<gpus, owner>>
  <1> SUFFICES ASSUME IInv, [Next]_vars PROVE [Pool!Next]_<<gpus, owner>>
      OBVIOUS
  <1>1. CASE Launching
      BY <1>1 DEF Launching, DeployStart
  <1>2. ASSUME NEW t \in Task, Deploying(t) PROVE [Pool!Next]_<<gpus, owner>>
    <2>1. CASE DeployClaim(t)
        BY <2>1, ClaimGrants
    <2>2. CASE DeployClear(t)
      <3>1. task[t].dep \in Dep
          BY <2>2 DEF DeployClear, Runs, IInv, TypeOK, TaskRec, Idle
      <3> QED
          BY <2>2, <3>1, DropReleases DEF DeployClear, DropRows
    <2>3. CASE \/ DeployNoDisk(t) \/ DeployCreate(t) \/ DeployCreateFails(t)
               \/ DeployWait(t) \/ DeployUpdate(t) \/ DeployUnjob(t)
        BY <2>3
        DEF DeployNoDisk, DeployCreate, DeployCreateFails, DeployWait, DeployUpdate, DeployUnjob
    <2> QED
        BY <1>2, <2>1, <2>2, <2>3 DEF Deploying
  <1>3. ASSUME NEW t \in Task, Undeploying(t) PROVE [Pool!Next]_<<gpus, owner>>
    <2>1. CASE UndeployRow(t)
      <3>1. task[t].dep \in Dep
          BY <2>1 DEF UndeployRow, Runs, IInv, TypeOK, TaskRec, Idle
      <3> QED
          BY <2>1, <3>1, DropReleases DEF UndeployRow, DropRows
    <2>2. CASE \/ UndeployPreflight(t) \/ UndeployPurge(t) \/ UndeployPurgeFails(t)
               \/ UndeployK8s(t) \/ UndeployK8sFails(t)
        BY <2>2
        DEF UndeployPreflight, UndeployPurge, UndeployPurgeFails, UndeployK8s, UndeployK8sFails
    <2> QED
        BY <1>3, <2>1, <2>2 DEF Undeploying
  <1>4. CASE Handling
    <2>1. ASSUME NEW c \in Chute, ChuteDeletedEnd(c) PROVE Pool!Next
      <3>1. OfChute(c) \subseteq Dep
          BY DEF OfChute, Used
      <3> QED
          BY <2>1, <3>1, DropReleases DEF ChuteDeletedEnd, DropRows
    <2>2. CASE \/ \E g \in Gpu : GpuDeletedEnd(g)
               \/ \E s \in Server : ServerDeletedDrop(s)
        BY <2>2, DeletionWithdraws
    <2>3. CASE \E d \in Dep : InstanceCreated(d) \/ InstanceActivated(d) \/ InstanceDeleted(d)
                                \/ UndeployRequest(d)
        BY <2>3 DEF InstanceCreated, InstanceActivated, InstanceDeleted, UndeployRequest
    <2>4. CASE \E t \in Task, d \in Dep :
                   UndeployStart(t, d) \/ ApiPurge(t, d) \/ ServerPurge(t, d)
        BY <2>4 DEF UndeployStart, ApiPurge, ServerPurge
    <2>5. CASE \/ \E c \in Chute : ChuteDeletedBegin(c) \/ ChuteCreated(c)
               \/ \E g \in Gpu : GpuDeletedBegin(g)
               \/ \E s \in Server : ServerDeletedClear(s)
        BY <2>5
        DEF ChuteDeletedBegin, ChuteCreated, GpuDeletedBegin, ServerDeletedClear, rowVars
    <2> QED
        BY <1>4, <2>1, <2>2, <2>3, <2>4, <2>5 DEF Handling
  <1>5. CASE Reconciling
    <2>1. CASE ReconcileCommit
      <3>1. rec.del \subseteq Dep
          BY DEF IInv, TypeOK, RecRec
      <3>2. CASE rec.named \cup rec.on \cup rec.off \subseteq rows
          BY <2>1, <3>1, <3>2, DropReleases DEF ReconcileCommit
      <3>3. CASE ~(rec.named \cup rec.on \cup rec.off \subseteq rows)
          BY <2>1, <3>3 DEF ReconcileCommit, rowVars
      <3> QED
          BY <3>2, <3>3
    <2>2. CASE ReconcileRefresh \/ ReconcileSpawn \/ \E ok \in BOOLEAN : ReconcileScan(ok)
        BY <2>2 DEF ReconcileRefresh, ReconcileSpawn, ReconcileScan
    <2>3. ASSUME NEW unv \in SUBSET Dep, ReconcileRows(unv)
          PROVE  UNCHANGED <<gpus, owner>>
        BY <2>3 DEF ReconcileRows
    <2>4. CASE \E d \in Dep : ReconcilePurge(d) \/ ReconcilePurgeFails(d)
        BY <2>4 DEF ReconcilePurge, ReconcilePurgeFails
    <2> QED
        BY <1>5, <2>1, <2>2, <2>3, <2>4 DEF Reconciling
  <1>6. CASE Environment
    <2>1. CASE \E d \in Dep : \/ AgentSync(d) \/ JobRemoved(d) \/ JobEnds(d) \/ JobLost(d)
                              \/ ValidatorCreates(d) \/ ValidatorActivates(d)
                              \/ ValidatorDeletes(d) \/ EventsLost(d) \/ RowAges(d)
        BY <2>1
        DEF AgentSync, JobRemoved, JobEnds, JobLost, ValidatorCreates, ValidatorActivates,
            ValidatorDeletes, EventsLost, RowAges
    <2>2. CASE \E s \in Server :
                   ClusterUnhealthy(s) \/ ClusterResyncBegin(s) \/ ClusterResyncEnd(s)
        BY <2>2 DEF ClusterUnhealthy, ClusterResyncBegin, ClusterResyncEnd
    <2>3. CASE GepettoCrash \/ ApiCrash
        BY <2>3 DEF GepettoCrash, ApiCrash
    <2> QED
        BY <1>6, <2>1, <2>2, <2>3 DEF Environment
  <1>7. CASE UNCHANGED vars
      BY <1>7
  <1> QED
      BY <1>1, <1>2, <1>3, <1>4, <1>5, <1>6, <1>7 DEF Next

\* Whatever interleaves with it, a launch gets all its GPUs in one step or none, takes
\* none that another deployment holds, and the end of a deployment frees all of its
\* GPUs and no other: _track_deployment, the deletions of gepetto and of the API, and
\* the cascades of the schema together implement the pool.
THEOREM PoolImplemented == Spec => GpusHandedOutWhole
  BY PoolInit, InitInv, NextInv, PoolStep, PTL DEF Spec, GpusHandedOutWhole, Pool!Spec

-----------------------------------------------------------------------------
(* A pass of reconcile passes its verdicts on the rows as they are, by       *)
(* snapshots taken one and two awaits before.  So the invariant has to say   *)
(* what the snapshots know of a deployment that has been in order since the  *)
(* pass began, from the moment each is taken: it is in the validator's list  *)
(* from the refresh on (rec.insts), in the cache's from the scan on          *)
(* (rec.ids), and never on a list of the condemned.                          *)

\* The pass has no verdicts yet.
Undecided == rec.pc \in {"idle", "scan", "rows"} => Condemned = {}

\* What the snapshots have of the steady deployments.
SnapshotsShow ==
    /\ rec.pc = "idle" => steady = {}
    /\ rec.pc \in {"scan", "rows"} => steady \subseteq rec.insts
    /\ rec.pc = "rows" => steady \subseteq rec.ids

SteadyInv ==
    /\ steady \subseteq Sound
    /\ Undecided
    /\ SnapshotsShow
    /\ ReconcileSparesSteady

HistoryInv == IInv /\ SteadyInv

\* A deployment in order is in order now, whether the pass is on or not.
LEMMA SteadyIsSound ==
    ASSUME SteadyInv, steady' = Since(steady, Sound')
    PROVE  /\ steady' \subseteq Sound'
           /\ rec.pc # "idle" => steady' \subseteq steady
           /\ rec'.pc = "idle" => steady' = {}
  BY DEF Since

\* Between passes nobody is condemned.
LEMMA NobodyWhenIdle ==
    ASSUME rec' = RecIdle PROVE Condemned' = {}
  BY DEF Condemned, RecIdle

\* Steps of everybody else: the lists of the pass stay as they are, and steady
\* deployments can only become fewer.
LEMMA OthersSpare ==
    ASSUME SteadyInv, steady' = Since(steady, Sound'), UNCHANGED rec
    PROVE  SteadyInv'
  <1>1. Condemned' = Condemned
      BY DEF Condemned
  <1>2. steady' \subseteq steady
    <2>1. CASE rec.pc = "idle"
        BY <2>1, SteadyIsSound
    <2>2. CASE rec.pc # "idle"
        BY <2>2, SteadyIsSound
    <2> QED
        BY <2>1, <2>2
  <1>3. Undecided' /\ SnapshotsShow'
      BY <1>1, <1>2 DEF SteadyInv, Undecided, SnapshotsShow
  <1>4. ReconcileSparesSteady'
      BY <1>1, <1>2 DEF SteadyInv, ReconcileSparesSteady
  <1> QED
      BY <1>3, <1>4, SteadyIsSound DEF SteadyInv

\* The pass ends, by itself, by a failed commit or by a crash.
LEMMA EndOfPassSpares ==
    ASSUME SteadyInv, steady' = Since(steady, Sound'), rec' = RecIdle
    PROVE  SteadyInv'
  <1>1. rec'.pc = "idle"
      BY DEF RecIdle
  <1>2. steady' = {} /\ Condemned' = {}
      BY <1>1, SteadyIsSound, NobodyWhenIdle
  <1> QED
      BY <1>1, <1>2 DEF SteadyInv, Undecided, SnapshotsShow, ReconcileSparesSteady

\* The validator is asked: it has every deployment that is in order.
LEMMA RefreshSpares ==
    ASSUME SteadyInv, steady' = Since(steady, Sound'), ReconcileRefresh
    PROVE  SteadyInv'
  <1>1. rec'.pc = "scan" /\ rec'.insts = Instances /\ Condemned' = {}
      BY DEF ReconcileRefresh, RecIdle, Condemned
  <1>2. Sound' = Sound /\ Sound \subseteq Instances
      BY DEF ReconcileRefresh, Sound, Instances
  <1>3. steady' \subseteq rec'.insts
      BY <1>1, <1>2, SteadyIsSound
  <1> QED
      BY <1>1, <1>3, SteadyIsSound DEF SteadyInv, Undecided, SnapshotsShow, ReconcileSparesSteady

\* The cache is read: it has every deployment that is in order.
LEMMA ScanSpares ==
    ASSUME IInv, SteadyInv, steady' = Since(steady, Sound'), NEW ok, ReconcileScan(ok)
    PROVE  SteadyInv'
  <1>1. rec \in RecRec /\ rec.pc = "scan"
      BY DEF IInv, TypeOK, ReconcileScan
  <1>2. /\ rec'.pc = "rows" /\ rec'.insts = rec.insts /\ rec'.ids = DeployedChutes
        /\ Condemned' = Condemned
      BY <1>1 DEF ReconcileScan, RecRec, Condemned
  <1>3. Sound \subseteq DeployedChutes
      BY DEF Sound, DeployedChutes, Cached, IInv, TypeOK, Used
  <1>4. steady' \subseteq steady /\ steady \subseteq Sound
      BY <1>1, SteadyIsSound DEF SteadyInv
  <1>5. Condemned' = {}
      BY <1>1, <1>2 DEF SteadyInv, Undecided
  <1>6. SnapshotsShow'
      BY <1>1, <1>2, <1>3, <1>4 DEF SteadyInv, SnapshotsShow
  <1> QED
      BY <1>5, <1>6, SteadyIsSound DEF SteadyInv, Undecided, ReconcileSparesSteady

\* No branch of the loop over the rows applies to a deployment that is in order
\* and in both snapshots, whether the scan of the pods failed or not.
LEMMA VerdictsSpare ==
    ASSUME IInv, NEW d \in Sound, d \in rec.insts, d \in rec.ids, NEW unv
    PROVE  /\ d \in rows
           /\ d \notin RecOrphan \cup RecMissing \cup RecVanished \cup RecAged \cup RecDead(unv)
  <1>1. d \in known /\ d \notin stubs /\ d \in rows /\ cache[d] = "run"
      BY DEF Sound, IInv, TypeOK
  <1>2. d \notin RecOrphan /\ d \notin RecMissing /\ d \notin RecVanished
      BY DEF RecOrphan, RecMissing, RecVanished
  <1>3. d \notin RecAged
      BY <1>1 DEF RecAged, RecStubs, RecKnown
  <1>4. d \notin RecDead(unv)
      BY <1>1 DEF RecDead, SeenEnded
  <1> QED
      BY <1>1, <1>2, <1>3, <1>4

\* The verdicts are passed.
LEMMA RowsSpare ==
    ASSUME IInv, SteadyInv, steady' = Since(steady, Sound'), NEW unv, ReconcileRows(unv)
    PROVE  SteadyInv'
  <1> DEFINE dead == RecDead(unv)
             del  == RecOrphan \cup RecVanished \cup RecAged
  <1>1. rec.pc = "rows" /\ rec'.pc = "commit"
      BY DEF ReconcileRows, RecIdle
  <1>2. Condemned' \subseteq del \cup dead \cup (rec.insts \ (rows \ RecOrphan))
                         \cup (rec.ids \ ((rows \ RecMissing) \ (del \cup dead)))
      BY DEF ReconcileRows, RecIdle, Condemned
  <1>3. steady' \subseteq Sound \cap rec.insts \cap rec.ids
      BY <1>1, SteadyIsSound DEF SteadyInv, SnapshotsShow
  <1>4. \A d \in steady' : d \in rows /\ d \notin RecOrphan /\ d \notin RecMissing
                           /\ d \notin del /\ d \notin dead
      BY <1>3, VerdictsSpare
  <1>5. ReconcileSparesSteady'
      BY <1>2, <1>4 DEF ReconcileSparesSteady
  <1> QED
      BY <1>1, <1>5, SteadyIsSound DEF SteadyInv, Undecided, SnapshotsShow

\* What follows carries the verdicts out and condemns nobody else.
LEMMA ExecutionSpares ==
    ASSUME SteadyInv, steady' = Since(steady, Sound'),
           rec.pc \in {"commit", "purge"}, rec'.pc \in {"commit", "purge"},
           Condemned' \subseteq Condemned
    PROVE  SteadyInv'
  <1>1. steady' \subseteq steady
      BY SteadyIsSound
  <1>2. ReconcileSparesSteady'
      BY <1>1 DEF SteadyInv, ReconcileSparesSteady
  <1> QED
      BY <1>2, SteadyIsSound DEF SteadyInv, Undecided, SnapshotsShow

\* The commit, the purges and the undeploys at the end.
LEMMA ReconcilingSpares ==
    ASSUME IInv, SteadyInv, steady' = Since(steady, Sound'), Reconciling
    PROVE  SteadyInv'
  <1>1. ASSUME NEW d \in Dep, ReconcilePurge(d) \/ ReconcilePurgeFails(d) PROVE SteadyInv'
    <2>1. rec \in RecRec /\ rec.pc \in {"commit", "purge"}
          /\ rec' = [rec EXCEPT !.purge = @ \ {d}]
        BY <1>1 DEF ReconcilePurge, ReconcilePurgeFails, IInv, TypeOK
    <2>2. rec'.pc = rec.pc /\ Condemned' \subseteq Condemned
        BY <2>1 DEF RecRec, Condemned
    <2> QED
        BY <2>1, <2>2, ExecutionSpares
  <1>2. CASE ReconcileCommit
    <2>1. CASE rec' = RecIdle
        BY <2>1, EndOfPassSpares
    <2>2. CASE rec' = [RecIdle EXCEPT !.pc = "purge", !.purge = rec.stray,
                                      !.untracked = rec.untracked]
      <3>1. rec.pc = "commit" /\ rec'.pc = "purge" /\ Condemned' \subseteq Condemned
          BY <1>2, <2>2 DEF ReconcileCommit, RecIdle, Condemned
      <3> QED
          BY <3>1, ExecutionSpares
    <2> QED
        BY <1>2, <2>1, <2>2 DEF ReconcileCommit
  <1>3. CASE ReconcileSpawn
      BY <1>3, EndOfPassSpares DEF ReconcileSpawn
  <1> QED
      BY <1>1, <1>2, <1>3, RefreshSpares, ScanSpares, RowsSpare DEF Reconciling

\* Launches, undeploys, handlers and the environment leave the pass alone; a
\* crash ends it.
LEMMA OtherStepsLeavePass ==
    ASSUME Next, ~Reconciling
    PROVE  UNCHANGED rec \/ rec' = RecIdle
  <1>1. CASE Launching
      BY <1>1 DEF Launching, DeployStart
  <1>2. ASSUME NEW t \in Task, Deploying(t) PROVE UNCHANGED rec
      BY <1>2
      DEF Deploying, DeployClaim, DeployNoDisk, DeployCreate, DeployCreateFails, DeployWait,
          DeployUpdate, DeployClear, DeployUnjob
  <1>3. ASSUME NEW t \in Task, Undeploying(t) PROVE UNCHANGED rec
      BY <1>3
      DEF Undeploying, UndeployPreflight, UndeployRow, UndeployPurge, UndeployPurgeFails,
          UndeployK8s, UndeployK8sFails
  <1>4. CASE Handling
      BY <1>4
      DEF Handling, InstanceCreated, InstanceActivated, InstanceDeleted, UndeployRequest,
          UndeployStart, ApiPurge, ServerPurge, ChuteDeletedBegin, ChuteDeletedEnd,
          ChuteCreated, GpuDeletedBegin, GpuDeletedEnd, ServerDeletedClear, ServerDeletedDrop
  <1>5. CASE Environment
      BY <1>5
      DEF Environment, AgentSync, JobRemoved, JobEnds, JobLost, ValidatorCreates,
          ValidatorActivates, ValidatorDeletes, EventsLost, RowAges, ClusterUnhealthy,
          ClusterResyncBegin, ClusterResyncEnd, GepettoCrash, ApiCrash
  <1> QED
      BY <1>1, <1>2, <1>3, <1>4, <1>5 DEF Next

LEMMA HistoryStart == HistoryInit => HistoryInv
  <1> SUFFICES ASSUME HistoryInit PROVE HistoryInv
      OBVIOUS
  <1>1. IInv
      BY InitInv DEF HistoryInit
  <1>2. steady = {} /\ rec = RecIdle
      BY DEF HistoryInit, Init
  <1>3. SteadyInv
      BY <1>2
      DEF SteadyInv, Undecided, SnapshotsShow, ReconcileSparesSteady, Condemned, RecIdle
  <1> QED
      BY <1>1, <1>3 DEF HistoryInv

LEMMA HistoryStep ==
    HistoryInv /\ [HistoryNext]_<<vars, steady, running>> => HistoryInv'
  <1> SUFFICES ASSUME HistoryInv, [HistoryNext]_<<vars, steady, running>>
               PROVE  HistoryInv'
      OBVIOUS
  <1>1. IInv'
    <2>1. [Next]_vars
        BY DEF HistoryNext
    <2> QED
        BY <2>1, NextInv DEF HistoryInv
  <1>2. ASSUME HistoryNext PROVE SteadyInv'
    <2>1. steady' = Since(steady, Sound')
        BY <1>2 DEF HistoryNext
    <2>2. CASE Reconciling
        BY <2>1, <2>2, ReconcilingSpares DEF HistoryInv
    <2>3. CASE ~Reconciling
        BY <1>2, <2>1, <2>3, OtherStepsLeavePass, OthersSpare, EndOfPassSpares
        DEF HistoryNext, HistoryInv
    <2> QED
        BY <2>2, <2>3
  <1>3. ASSUME UNCHANGED <<vars, steady, running>> PROVE SteadyInv'
    <2>1. UNCHANGED rec /\ Sound' = Sound /\ steady' = steady
        BY <1>3 DEF Sound, Instances
    <2>2. Condemned' = Condemned
        BY <2>1 DEF Condemned
    <2> QED
        BY <2>1, <2>2
        DEF HistoryInv, SteadyInv, Undecided, SnapshotsShow, ReconcileSparesSteady
  <1> QED
      BY <1>1, <1>2, <1>3 DEF HistoryInv

\* A pass of reconcile condemns no deployment that was in order from its first
\* snapshot on: its row is not deleted, its instance not purged, its job not
\* undeployed, although the verdicts go by two snapshots taken at different times,
\* the scan of the pods may fail ("Skip if k8s_config_ids is None (pod scan failed)
\* to avoid mass deletion"), and the API process and the handlers go on meanwhile.
THEOREM SteadySpared == HistorySpec => []ReconcileSparesSteady
  <1>1. HistoryInv => ReconcileSparesSteady
      BY DEF HistoryInv, SteadyInv
  <1> QED
      BY <1>1, HistoryStart, HistoryStep, PTL DEF HistorySpec
=============================================================================
