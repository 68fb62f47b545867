---------------------------- MODULE Deployments ----------------------------
(***************************************************************************)
(* The life of a chute deployment in the miner: gepetto's launch, undeploy *)
(* and reconcile coroutines (gepetto.py), the kubernetes operator they     *)
(* call (api/k8s/operator.py, multi-cluster flavour), and the four stores  *)
(* that have to agree with one another:                                    *)
(*                                                                         *)
(*   - the miner's database: deployment rows, GPU rows, chutes, servers;   *)
(*   - the worker clusters: the job (and pod) of a deployment;             *)
(*   - the redis cache of those jobs, filled by the agents;                *)
(*   - the validator: the instance a running pod registers.                *)
(*                                                                         *)
(* A coroutine is cut into one action per stretch of code between awaits   *)
(* at which another coroutine, or the miner API process, may run.          *)
(* A deployment, its launch config and its instance share one identity: a  *)
(* launch token is issued for one launch and an instance for one config.   *)
(***************************************************************************)
EXTENDS Integers, FiniteSets

CONSTANTS
    Dep,            \* pool of deployment ids (uuids; each is used once)
    NoDep,          \* GPU.deployment_id IS NULL
    NoSpec,         \* a deployment id not handed out yet
    Gpu,            \* GPU ids
    Server,         \* servers: one single-node cluster each
    Chute,          \* chutes
    ServerOf,       \* GPU.server_id
    GpuCount,       \* Chute.gpu_count
    JobChutes,      \* chutes that are launched for a job (job_id is set)
    Task,           \* coroutine slots
    ApiTask,        \* the slots of the miner API process; the rest is gepetto's
    Stimuli,        \* what happens to the miner in this instance (see Stimulus)
    MaxFaults       \* bound on crashes, failed calls, lost events, ...

\* Deletion events and requests, the validator's events, ticks of the reconciler.
Stimulus == {"undeploy", "chute", "gpu", "server", "instance", "ends", "reconcile"}

ASSUME NoDepAssumption == NoDep \notin Dep
ASSUME GpuAssumption == IsFiniteSet(Gpu)
ASSUME PlacementAssumption ==
    /\ ServerOf \in [Gpu -> Server]
    /\ GpuCount \in [Chute -> Nat \ {0}]
    /\ JobChutes \subseteq Chute
    /\ ApiTask \subseteq Task
    /\ Stimuli \subseteq Stimulus
    /\ MaxFaults \in Nat
ASSUME NoSpecAssumption ==
    NoSpec \notin [chute : Chute, server : Server, gpus : SUBSET Gpu]

VARIABLES
    \* The database.
    servers,    \* rows of table servers
    chutes,     \* rows of table chutes
    gpus,       \* verified rows of table gpus
    owner,      \* GPU.deployment_id
    rows,       \* rows of table deployments
    stubs,      \* ... with stub = true
    known,      \* ... with instance_id set
    active,     \* ... with active = true
    old,        \* ... created at least 30 minutes ago
    \* The clusters, the cache of them, and the validator.
    spec,       \* what a launched id stands for: chute, server, GPU uuids
    job,        \* the job in its cluster
    cache,      \* the copy of it in redis
    health,     \* redis health record of a cluster ("unknown": no record; "sync":
                \* STARTING, its resources being replaced)
    inst,       \* the validator's instance
    ev,         \* instance events on their way to gepetto
    \* The coroutines.
    task,       \* the deploy_chute and undeploy calls in flight
    pending,    \* undeploy calls scheduled and not begun
    rec,        \* the reconciler
    dropping,   \* chute_deleted handlers waiting for their undeploys
    gpuDropping,\* gpu_deleted handlers waiting for their undeploy
    faults      \* failures so far

db     == <<servers, chutes, gpus, owner, rows, stubs, known, active, old>>
world  == <<spec, job, cache, health, inst, ev>>
loops  == <<task, pending, rec, dropping, gpuDropping, faults>>
vars   == <<db, world, loops>>

-----------------------------------------------------------------------------
Specs == [chute : Chute, server : Server, gpus : SUBSET Gpu]

JobState  == {"absent", "run", "end", "term"}
InstState == {"none", "created", "active", "gone"}
EventKind == {"created", "activated", "deleted"}

DeployPc   == {"claim", "create", "wait", "update", "clear", "clearBound", "unjob"}
UndeployPc == {"preflight", "row", "purge", "k8s"}

Idle       == [pc |-> "idle", dep |-> NoDep]
At(pc, d)  == [pc |-> pc, dep |-> d]
TaskRec    == [pc : DeployPc \cup UndeployPc, dep : Dep] \cup {Idle}

\* What one pass of reconcile() carries from await to await: the snapshots of
\* the validator (insts, acts) and of the cache (ids, scanned); the session's
\* unwritten updates (named, on, off) and deletes (del); the undeploys it awaits
\* (inline); the instances to purge now and after the commit (purge, stray); the
\* jobs found untracked.
RecIdle == [pc |-> "idle", insts |-> {}, acts |-> {}, ids |-> {}, scanned |-> FALSE,
            named |-> {}, on |-> {}, off |-> {}, del |-> {}, inline |-> {},
            purge |-> {}, stray |-> {}, untracked |-> {}]
RecRec  == [pc : {"idle", "scan", "rows", "commit", "purge"},
            insts : SUBSET Dep, acts : SUBSET Dep, ids : SUBSET Dep, scanned : BOOLEAN,
            named : SUBSET Dep, on : SUBSET Dep, off : SUBSET Dep, del : SUBSET Dep,
            inline : SUBSET Dep, purge : SUBSET Dep, stray : SUBSET Dep,
            untracked : SUBSET Dep]

Used       == {d \in Dep : spec[d] # NoSpec}
OnServer(s) == {d \in Used : spec[d].server = s}
OfChute(c)  == {d \in Used : spec[d].chute = c}
Claimed(d)  == {g \in gpus : owner[g] = d}
\* _cluster_is_healthy: the state is ACTIVE or STARTING.
Healthy(s)  == health[s] \in {"ok", "sync"}
Instances   == {d \in Dep : inst[d] \in {"created", "active"}}

Fault == faults < MaxFaults /\ faults' = faults + 1

\* Whether a read of the cache by labels (_matches_filters) finds the job and its pod.
Cached(d) == cache[d] # "absent"

\* get_deployed_chutes: the ids by the labels of the cached jobs.
DeployedChutes == {d \in Dep : Cached(d)}

\* Going by the cached job and the state of its pod (_extract_job_info), or by a 404
\* for it, the deployment is over.
SeenEnded(d) == cache[d] \in {"absent", "end"}

\* _deploy_job_for_deployment() polls the cache synchronously: until it
\* returns, no other coroutine of the gepetto process runs.
LoopFree(t) == \A u \in Task \ (ApiTask \cup {t}) : task[u].pc # "wait"
Runs(t, pc) == task[t].pc = pc /\ (t \in ApiTask \/ LoopFree(t))
GepettoRuns == \A u \in Task \ ApiTask : task[u].pc # "wait"

Becomes(t, r) == task' = [task EXCEPT ![t] = r]

\* DELETE of deployment rows D: the foreign key of gpus is ON DELETE SET NULL.
DropRows(D) ==
    /\ rows'   = rows \ D
    /\ stubs'  = stubs \ D
    /\ known'  = known \ D
    /\ active' = active \ D
    /\ old'    = old \ D
    /\ owner'  = [g \in Gpu |-> IF owner[g] \in D THEN NoDep ELSE owner[g]]

rowVars == <<rows, stubs, known, active, old, owner>>

\* _delete_job(): goes through the cached context; a job that is not cached is
\* skipped, one that is cached and gone (404) is dropped from the cache.
DeleteJob(d) ==
    IF cache[d] = "absent" THEN UNCHANGED <<job, cache>>
    ELSE IF job[d] = "absent"
         THEN cache' = [cache EXCEPT ![d] = "absent"] /\ UNCHANGED job
         ELSE job' = [job EXCEPT ![d] = "term"] /\ UNCHANGED cache

-----------------------------------------------------------------------------
Init ==
    /\ servers = Server /\ chutes = Chute /\ gpus = Gpu
    /\ owner = [g \in Gpu |-> NoDep]
    /\ rows = {} /\ stubs = {} /\ known = {} /\ active = {} /\ old = {}
    /\ spec = [d \in Dep |-> NoSpec]
    /\ job = [d \in Dep |-> "absent"]
    /\ cache = [d \in Dep |-> "absent"]
    /\ health = [s \in Server |-> "ok"]
    /\ inst = [d \in Dep |-> "none"]
    /\ ev = [d \in Dep |-> {}]
    /\ task = [t \in Task |-> Idle]
    /\ pending = {} /\ rec = RecIdle /\ dropping = {} /\ gpuDropping = {}
    /\ faults = 0

-----------------------------------------------------------------------------
(* deploy_chute(): called by scale_chute, run_job, rolling_update and        *)
(* preempting_deploy once they hold a launch token.                          *)

\* _get_chute, _get_server, _verify_gpus: enough unassigned GPUs are seen, and
\* the first gpu_count of them become the candidates.
DeployStart(t, d, c, s, G) ==
    /\ t \notin ApiTask /\ Runs(t, "idle")
    /\ d \notin Used /\ c \in chutes /\ s \in servers
    /\ G \subseteq {g \in gpus : ServerOf[g] = s /\ owner[g] = NoDep}
    /\ Cardinality(G) = GpuCount[c]
    /\ spec' = [spec EXCEPT ![d] = [chute |-> c, server |-> s, gpus |-> G]]
    /\ Becomes(t, At("claim", d))
    /\ UNCHANGED <<db, job, cache, health, inst, ev, pending, rec, dropping, gpuDropping, faults>>

\* Variant: the UPDATE without its "deployment_id IS NULL" condition.
ClaimableBlind(d) == {g \in spec[d].gpus : g \in gpus}

\* The UPDATE of _track_deployment: only rows still unassigned are claimed.
Claimable(d) == {g \in spec[d].gpus : g \in gpus /\ owner[g] = NoDep}

\* Variant: the stub row is committed before the claim, and stays when that fails.
DeployClaimTwoCommits(t) ==
    LET d == task[t].dep IN
    /\ Runs(t, "claim")
    /\ spec[d].server \in servers /\ spec[d].chute \in chutes
    /\ rows' = rows \cup {d} /\ stubs' = stubs \cup {d}
    /\ owner' = [g \in Gpu |-> IF g \in Claimable(d) THEN d ELSE owner[g]]
    /\ Becomes(t, IF Cardinality(Claimable(d)) >= GpuCount[spec[d].chute]
                  THEN At("create", d) ELSE Idle)
    /\ UNCHANGED <<servers, chutes, gpus, known, active, old, world,
                   pending, rec, dropping, gpuDropping, faults>>

\* _track_deployment: the stub row and the claim commit together or not at all.
DeployClaim(t) ==
    LET d == task[t].dep IN
    /\ Runs(t, "claim")
    /\ IF /\ spec[d].server \in servers /\ spec[d].chute \in chutes
          /\ Cardinality(Claimable(d)) >= GpuCount[spec[d].chute]
       THEN /\ rows' = rows \cup {d} /\ stubs' = stubs \cup {d}
            /\ owner' = [g \in Gpu |-> IF g \in Claimable(d) THEN d ELSE owner[g]]
            /\ Becomes(t, At("create", d))
       ELSE /\ UNCHANGED <<rows, stubs, owner>>
            /\ Becomes(t, Idle)
    /\ UNCHANGED <<servers, chutes, gpus, known, active, old, world,
                   pending, rec, dropping, gpuDropping, faults>>

\* _verify_disk_space (awaited before the claim) refuses the node.
DeployNoDisk(t) ==
    /\ Runs(t, "claim")
    /\ Becomes(t, Idle)
    /\ UNCHANGED <<db, world, pending, rec, dropping, gpuDropping, faults>>

\* _create_service_for_deployment and _create_job_for_deployment up to the wait:
\* _verify_node_health refuses a cluster known to be unhealthy.
DeployCreate(t) ==
    LET d == task[t].dep IN
    /\ Runs(t, "create")
    /\ IF health[spec[d].server] = "bad"
       THEN Becomes(t, At("clear", d)) /\ UNCHANGED job
       ELSE Becomes(t, At("wait", d)) /\ job' = [job EXCEPT ![d] = "run"]
    /\ UNCHANGED <<db, spec, cache, health, inst, ev, pending, rec, dropping, gpuDropping, faults>>

\* The create call raises; the API server may have accepted it all the same.
DeployCreateFails(t) ==
    LET d == task[t].dep IN
    /\ Runs(t, "create") /\ Fault
    /\ Becomes(t, At("clear", d))
    /\ \/ UNCHANGED job
       \/ job' = [job EXCEPT ![d] = "run"]
    /\ UNCHANGED <<db, spec, cache, health, inst, ev, pending, rec, dropping, gpuDropping>>

\* _wait_for_deployment: the pod shows up in the cache, or the wait gives up;
\* then _create_job_for_deployment raises and the name `job` is never bound.
DeployWait(t) ==
    LET d == task[t].dep IN
    /\ task[t].pc = "wait"
    /\ Becomes(t, At(IF Cached(d) THEN "update" ELSE "clear", d))
    /\ UNCHANGED <<db, world, pending, rec, dropping, gpuDropping, faults>>

\* _update_deployment: "Deployment disappeared mid-flight!" if the row is gone.
DeployUpdate(t) ==
    LET d == task[t].dep IN
    /\ Runs(t, "update")
    /\ IF d \in rows
       THEN stubs' = stubs \ {d} /\ Becomes(t, Idle)
       ELSE UNCHANGED stubs /\ Becomes(t, At("clearBound", d))
    /\ UNCHANGED <<servers, chutes, gpus, owner, rows, known, active, old, world,
                   pending, rec, dropping, gpuDropping, faults>>

\* The except clause of deploy_chute: _clear_deployment ...
DeployClear(t) ==
    LET d == task[t].dep IN
    /\ Runs(t, "clear") \/ Runs(t, "clearBound")
    /\ DropRows({d})
    /\ Becomes(t, IF task[t].pc = "clear" THEN Idle ELSE At("unjob", d))
    /\ UNCHANGED <<servers, chutes, gpus, world, pending, rec, dropping, gpuDropping, faults>>

\* ... and, if the name `job` is bound, _delete_job; errors are swallowed.
DeployUnjob(t) ==
    LET d == task[t].dep IN
    /\ Runs(t, "unjob")
    /\ DeleteJob(d)
    /\ Becomes(t, Idle)
    /\ UNCHANGED <<db, spec, health, inst, ev, pending, rec, dropping, gpuDropping, faults>>

-----------------------------------------------------------------------------
(* undeploy(): DB row first, then the validator's instance, then kubernetes. *)

\* A scheduled undeploy begins.
UndeployStart(t, d) ==
    /\ t \notin ApiTask /\ Runs(t, "idle") /\ d \in pending
    /\ pending' = pending \ {d}
    /\ Becomes(t, At("preflight", d))
    /\ UNCHANGED <<db, world, rec, dropping, gpuDropping, faults>>

\* DELETE /deployments/{id} and /deployments/purge: one task for each deployment.
ApiPurge(t, d) ==
    /\ "undeploy" \in Stimuli
    /\ t \in ApiTask /\ Runs(t, "idle") /\ d \in rows
    /\ Becomes(t, At("preflight", d))
    /\ UNCHANGED <<db, world, pending, rec, dropping, gpuDropping, faults>>

\* DELETE /servers/{id}/deployments, which leaves the deployments for jobs alone.
ServerPurge(t, d) ==
    /\ ApiPurge(t, d)
    /\ spec[d].chute \notin JobChutes

\* _is_resource_stale: both copies are there and their versions differ.
Stale(d) == cache[d] # "absent" /\ job[d] # "absent" /\ cache[d] # job[d]

\* delete_preflight: no row, allowed; otherwise the cluster must be known to be
\* healthy and the cached job current, or the undeploy is skipped.
UndeployPreflight(t) ==
    LET d == task[t].dep
        s == spec[d].server IN
    /\ Runs(t, "preflight")
    /\ IF d \in rows /\ (~Healthy(s) \/ Stale(d))
       THEN /\ Becomes(t, Idle)
            /\ health' = IF Healthy(s) THEN [health EXCEPT ![s] = "bad"] ELSE health
       ELSE Becomes(t, At("row", d)) /\ UNCHANGED health
    /\ UNCHANGED <<db, spec, job, cache, inst, ev, pending, rec, dropping, gpuDropping, faults>>

\* The row is deleted and committed; its instance id is remembered.
UndeployRow(t) ==
    LET d == task[t].dep IN
    /\ Runs(t, "row")
    /\ DropRows({d})
    /\ Becomes(t, At(IF d \in known THEN "purge" ELSE "k8s", d))
    /\ UNCHANGED <<servers, chutes, gpus, world, pending, rec, dropping, gpuDropping, faults>>

\* purge_validator_instance.
UndeployPurge(t) ==
    LET d == task[t].dep IN
    /\ Runs(t, "purge")
    /\ inst' = [inst EXCEPT ![d] = "gone"]
    /\ Becomes(t, At("k8s", d))
    /\ UNCHANGED <<db, spec, job, cache, health, ev, pending, rec, dropping, gpuDropping, faults>>

UndeployPurgeFails(t) ==
    /\ Runs(t, "purge") /\ Fault
    /\ Becomes(t, At("k8s", task[t].dep))
    /\ UNCHANGED <<db, world, pending, rec, dropping, gpuDropping>>

\* K8sOperator.undeploy: get_deployment and _delete_job read the cache.  The
\* wait_for_deletion that follows changes nothing and ends on a timeout.
UndeployK8s(t) ==
    /\ Runs(t, "k8s")
    /\ DeleteJob(task[t].dep)
    /\ Becomes(t, Idle)
    /\ UNCHANGED <<db, spec, health, inst, ev, pending, rec, dropping, gpuDropping, faults>>

UndeployK8sFails(t) ==
    /\ Runs(t, "k8s") /\ Fault
    /\ Becomes(t, Idle)
    /\ UNCHANGED <<db, world, pending, rec, dropping, gpuDropping>>

-----------------------------------------------------------------------------
(* Event handlers of gepetto.                                                *)

\* Variant: the row is not required to exist.
InstanceCreatedBlind(d) ==
    /\ GepettoRuns /\ "created" \in ev[d]
    /\ ev' = [ev EXCEPT ![d] = @ \ {"created"}]
    /\ known' = known \cup {d}
    /\ UNCHANGED <<servers, chutes, gpus, owner, rows, stubs, active, old,
                   spec, job, cache, health, inst, loops>>

\* instance_created: UPDATE ... WHERE config_id = ...
InstanceCreated(d) ==
    /\ GepettoRuns /\ "created" \in ev[d]
    /\ ev' = [ev EXCEPT ![d] = @ \ {"created"}]
    /\ known' = IF d \in rows THEN known \cup {d} ELSE known
    /\ UNCHANGED <<servers, chutes, gpus, owner, rows, stubs, active, old,
                   spec, job, cache, health, inst, loops>>

\* instance_activated: active = true, stub = false.
InstanceActivated(d) ==
    /\ GepettoRuns /\ "activated" \in ev[d] /\ "created" \notin ev[d]
    /\ ev' = [ev EXCEPT ![d] = @ \ {"activated"}]
    /\ active' = IF d \in rows THEN active \cup {d} ELSE active
    /\ stubs' = stubs \ {d}
    /\ UNCHANGED <<servers, chutes, gpus, owner, rows, known, old,
                   spec, job, cache, health, inst, loops>>

\* instance_deleted: finds the row by instance_id.
InstanceDeleted(d) ==
    /\ GepettoRuns /\ "deleted" \in ev[d] /\ "created" \notin ev[d]
    /\ ev' = [ev EXCEPT ![d] = @ \ {"deleted"}]
    /\ pending' = IF d \in known THEN pending \cup {d} ELSE pending
    /\ UNCHANGED <<db, spec, job, cache, health, inst, task, rec, dropping, gpuDropping, faults>>

\* job_deleted, rolling_update, the scale-down of scale_chute and the victims of
\* preempting_deploy: a row is read and its undeploy called.
UndeployRequest(d) ==
    /\ "undeploy" \in Stimuli
    /\ GepettoRuns /\ d \in rows \ pending
    /\ pending' = pending \cup {d}
    /\ UNCHANGED <<db, world, task, rec, dropping, gpuDropping, faults>>

\* Nobody is about to undeploy, or undeploying, one of D.
Settled(D) ==
    /\ pending \cap D = {}
    /\ \A t \in Task : ~(task[t].pc \in UndeployPc /\ task[t].dep \in D)

\* chute_deleted: undeploy every deployment, then delete the chute, whose
\* remaining deployments go with it (ON DELETE CASCADE).
ChuteDeletedBegin(c) ==
    /\ "chute" \in Stimuli
    /\ GepettoRuns /\ c \in chutes \ dropping
    /\ dropping' = dropping \cup {c}
    /\ pending' = pending \cup (rows \cap OfChute(c))
    /\ UNCHANGED <<db, world, task, rec, gpuDropping, faults>>

ChuteDeletedEnd(c) ==
    /\ GepettoRuns /\ c \in dropping /\ Settled(OfChute(c))
    /\ dropping' = dropping \ {c}
    /\ chutes' = chutes \ {c}
    /\ DropRows(OfChute(c))
    /\ UNCHANGED <<servers, gpus, world, task, pending, rec, gpuDropping, faults>>

\* chute_created: the chute is tracked again.
ChuteCreated(c) ==
    /\ "chute" \in Stimuli
    /\ GepettoRuns /\ c \notin chutes
    /\ chutes' = chutes \cup {c}
    /\ UNCHANGED <<servers, gpus, rowVars, world, loops>>

\* gpu_deleted: undeploy its deployment, then delete the GPU row whatever
\* became of the undeploy.
GpuDeletedBegin(g) ==
    /\ "gpu" \in Stimuli
    /\ GepettoRuns /\ g \in gpus \ gpuDropping
    /\ gpuDropping' = gpuDropping \cup {g}
    /\ pending' = IF owner[g] \in Dep THEN pending \cup {owner[g]} ELSE pending
    /\ UNCHANGED <<db, world, task, rec, dropping, faults>>

GpuDeletedEnd(g) ==
    /\ GepettoRuns /\ g \in gpuDropping /\ Settled({owner[g]})
    /\ gpuDropping' = gpuDropping \ {g}
    /\ gpus' = gpus \ {g}
    /\ owner' = [owner EXCEPT ![g] = NoDep]
    /\ UNCHANGED <<servers, chutes, rows, stubs, known, active, old, world,
                   task, pending, rec, dropping, faults>>

\* server_deleted: monitoring is stopped and the cache cleared first ...
ServerDeletedClear(s) ==
    /\ "server" \in Stimuli
    /\ GepettoRuns /\ s \in servers /\ health[s] # "unknown"
    /\ health' = [health EXCEPT ![s] = "unknown"]
    /\ cache' = [d \in Dep |-> IF d \in OnServer(s) THEN "absent" ELSE cache[d]]
    /\ UNCHANGED <<db, spec, job, inst, ev, loops>>

\* ... then the server row goes, and its GPUs and deployments with it.
ServerDeletedDrop(s) ==
    /\ "server" \in Stimuli
    /\ GepettoRuns /\ s \in servers /\ health[s] = "unknown"
    /\ servers' = servers \ {s}
    /\ gpus' = {g \in gpus : ServerOf[g] # s}
    /\ rows' = rows \ OnServer(s)
    /\ stubs' = stubs \ OnServer(s)
    /\ known' = known \ OnServer(s)
    /\ active' = active \ OnServer(s)
    /\ old' = old \ OnServer(s)
    /\ owner' = [g \in Gpu |-> IF ServerOf[g] = s THEN NoDep ELSE owner[g]]
    /\ UNCHANGED <<chutes, world, loops>>

-----------------------------------------------------------------------------
(* reconcile(): one pass of the 60-second loop.                              *)

\* remote_refresh_all: the validator's inventory is copied.
ReconcileRefresh ==
    /\ "reconcile" \in Stimuli
    /\ GepettoRuns /\ rec.pc = "idle"
    /\ rec' = [RecIdle EXCEPT !.pc = "scan", !.insts = Instances,
                              !.acts = {d \in Dep : inst[d] = "active"}]
    /\ UNCHANGED <<db, world, task, pending, dropping, gpuDropping, faults>>

\* get_deployed_chutes and the scan of the pods' config-id labels, both from the
\* cache.  The scan may fail: k8s_config_ids stays None.
ReconcileScan(ok) ==
    /\ GepettoRuns /\ rec.pc = "scan"
    /\ IF ok THEN UNCHANGED faults ELSE Fault
    /\ rec' = [rec EXCEPT !.pc = "rows", !.ids = DeployedChutes, !.scanned = ok]
    /\ UNCHANGED <<db, world, task, pending, dropping, gpuDropping>>

\* Variant: a failed pod scan is taken for "no pods".
RecOrphanOnFailedScan == IF rec.scanned THEN rows \ rec.ids ELSE rows

\* The verdicts on the rows of one SELECT, in the order of the code's branches.
\* unv: active rows that are still unverified five minutes after creation.
RecNamed   == {d \in rows \ known : d \in rec.insts}
RecKnown   == known \cup RecNamed
RecFlipOn  == {d \in (RecKnown \cap rec.insts) \ active : d \in rec.acts}
RecFlipOff == {d \in RecKnown \cap rec.insts \cap active : d \notin rec.acts}
RecActive  == (active \cup RecFlipOn) \ RecFlipOff
RecStubs   == stubs \ (RecFlipOn \cup RecFlipOff)

RecOrphan == IF rec.scanned THEN rows \ rec.ids ELSE {}
RecMissing == {d \in rows \ RecOrphan : d \in RecKnown /\ d \notin rec.insts}
RecJobs == {d \in rows \ (RecOrphan \cup RecMissing) : spec[d].chute \in JobChutes}
RecRest == rows \ (RecOrphan \cup RecMissing \cup RecJobs)
RecVanished == {d \in RecRest : d \notin RecStubs /\ d \notin rec.ids}

\* Variant: only the stub flag ages a row out, not a missing instance id.
RecAgedStubsOnly == {d \in RecRest \ RecVanished : d \in RecStubs /\ d \in old}

RecAged == {d \in RecRest \ RecVanished : (d \in RecStubs \/ d \notin RecKnown) /\ d \in old}
RecDead(unv) == {d \in RecRest \ (RecVanished \cup RecAged) :
                   (d \notin RecActive \/ d \in unv) /\ SeenEnded(d)}

\* The loop over the deployments.  Deletes and updates of the session wait for
\* the commit; inline undeploys are awaited; instance_deleted runs as a task.
ReconcileRows(unv) ==
    LET dead == RecDead(unv)
        del  == RecOrphan \cup RecVanished \cup RecAged
    IN
    /\ GepettoRuns /\ rec.pc = "rows"
    /\ unv \subseteq active \cup RecFlipOn
    /\ rec' = [RecIdle EXCEPT
                 !.pc = "commit",
                 !.named = RecNamed \ del, !.on = RecFlipOn \ del, !.off = RecFlipOff \ del,
                 !.del = del,
                 !.inline = dead,
                 !.purge = (RecOrphan \cup RecVanished) \cap RecKnown,
                 !.stray = rec.insts \ (rows \ RecOrphan),
                 !.untracked = rec.ids \ ((rows \ RecMissing) \ (del \cup dead))]
    /\ pending' = pending \cup dead
    /\ ev' = [d \in Dep |-> IF d \in RecMissing THEN ev[d] \cup {"deleted"} ELSE ev[d]]
    /\ UNCHANGED <<db, spec, job, cache, health, inst, task, dropping, gpuDropping, faults>>

\* Variant: the session is left without a commit.
ReconcileNoCommit ==
    /\ GepettoRuns /\ rec.pc = "commit"
    /\ rec.purge = {} /\ Settled(rec.inline)
    /\ rec' = [RecIdle EXCEPT !.pc = "purge", !.purge = rec.stray, !.untracked = rec.untracked]
    /\ UNCHANGED <<db, world, task, pending, dropping, gpuDropping, faults>>

\* session.commit(): an UPDATE of a row that has gone meanwhile raises and the
\* pass ends with nothing written; a DELETE of one is only warned about.
ReconcileCommit ==
    LET touched == rec.named \cup rec.on \cup rec.off IN
    /\ GepettoRuns /\ rec.pc = "commit"
    /\ rec.purge = {} /\ Settled(rec.inline)
    /\ IF touched \subseteq rows
       THEN /\ rows'   = rows \ rec.del
            /\ stubs'  = stubs \ (rec.del \cup rec.on \cup rec.off)
            /\ known'  = (known \cup rec.named) \ rec.del
            /\ active' = ((active \cup rec.on) \ rec.off) \ rec.del
            /\ old'    = old \ rec.del
            /\ owner'  = [g \in Gpu |-> IF owner[g] \in rec.del THEN NoDep ELSE owner[g]]
            /\ rec'    = [RecIdle EXCEPT !.pc = "purge", !.purge = rec.stray,
                                         !.untracked = rec.untracked]
       ELSE /\ UNCHANGED rowVars
            /\ rec' = RecIdle
    /\ UNCHANGED <<servers, chutes, gpus, world, task, pending, dropping, gpuDropping, faults>>

\* Variant: a stray instance is skipped instead of purged.
ReconcilePurgeSkips(d) ==
    /\ GepettoRuns /\ rec.pc \in {"commit", "purge"} /\ d \in rec.purge
    /\ rec' = [rec EXCEPT !.purge = @ \ {d}]
    /\ UNCHANGED <<db, world, task, pending, dropping, gpuDropping, faults>>

\* purge_validator_instance, before the commit for rows being deleted and after
\* it for instances "not deployed locally".
ReconcilePurge(d) ==
    /\ GepettoRuns /\ rec.pc \in {"commit", "purge"} /\ d \in rec.purge
    /\ rec' = [rec EXCEPT !.purge = @ \ {d}]
    /\ inst' = [inst EXCEPT ![d] = "gone"]
    /\ UNCHANGED <<db, spec, job, cache, health, ev, task, pending, dropping, gpuDropping, faults>>

ReconcilePurgeFails(d) ==
    /\ GepettoRuns /\ rec.pc \in {"commit", "purge"} /\ d \in rec.purge /\ Fault
    /\ rec' = [rec EXCEPT !.purge = @ \ {d}]
    /\ UNCHANGED <<db, world, task, pending, dropping, gpuDropping>>

\* Variant: untracked jobs are left alone.
ReconcileSpawnNothing ==
    /\ GepettoRuns /\ rec.pc = "purge" /\ rec.purge = {}
    /\ rec' = RecIdle
    /\ UNCHANGED <<db, world, task, pending, dropping, gpuDropping, faults>>

\* "Removing kubernetes deployment that is no longer tracked": the undeploys are
\* started as tasks and gathered; an exception in one ends the wait for all.
ReconcileSpawn ==
    /\ GepettoRuns /\ rec.pc = "purge" /\ rec.purge = {}
    /\ pending' = pending \cup rec.untracked
    /\ rec' = RecIdle
    /\ UNCHANGED <<db, world, task, dropping, gpuDropping, faults>>

-----------------------------------------------------------------------------
(* The rest of the world: agents, kubernetes, validator, time, crashes.      *)

\* The agent of the cluster delivers the job's latest state to the cache.
AgentSync(d) ==
    /\ d \in Used /\ spec[d].server \in servers /\ health[spec[d].server] \in {"ok", "bad"}
    /\ cache[d] # job[d]
    /\ cache' = [cache EXCEPT ![d] = job[d]]
    /\ UNCHANGED <<db, spec, job, health, inst, ev, loops>>

\* The cluster's agent is lost sight of.
ClusterUnhealthy(s) ==
    /\ s \in servers /\ health[s] = "ok" /\ Fault
    /\ health' = [health EXCEPT ![s] = "bad"]
    /\ UNCHANGED <<db, spec, job, cache, inst, ev, task, pending, rec, dropping, gpuDropping>>

\* The agent sends all its resources again: the monitor marks the cluster STARTING
\* and clears its resources; then it stores the new ones.  Other processes may
\* read in between.
ClusterResyncBegin(s) ==
    /\ s \in servers /\ ~Healthy(s)
    /\ health' = [health EXCEPT ![s] = "sync"]
    /\ cache' = [d \in Dep |-> IF d \in OnServer(s) THEN "absent" ELSE cache[d]]
    /\ UNCHANGED <<db, spec, job, inst, ev, loops>>

ClusterResyncEnd(s) ==
    /\ health[s] = "sync"
    /\ health' = [health EXCEPT ![s] = "ok"]
    /\ cache' = [d \in Dep |-> IF d \in OnServer(s) THEN job[d] ELSE cache[d]]
    /\ UNCHANGED <<db, spec, job, inst, ev, loops>>

\* Kubernetes finishes a foreground deletion; a job completes; a job is lost.
JobRemoved(d) ==
    /\ job[d] = "term"
    /\ job' = [job EXCEPT ![d] = "absent"]
    /\ UNCHANGED <<db, spec, cache, health, inst, ev, loops>>

JobEnds(d) ==
    /\ "ends" \in Stimuli
    /\ job[d] = "run"
    /\ job' = [job EXCEPT ![d] = "end"]
    /\ UNCHANGED <<db, spec, cache, health, inst, ev, loops>>

JobLost(d) ==
    /\ job[d] \in {"run", "end"} /\ Fault
    /\ job' = [job EXCEPT ![d] = "absent"]
    /\ UNCHANGED <<db, spec, cache, health, inst, ev, task, pending, rec, dropping, gpuDropping>>

\* A running pod claims its launch config, is activated, and is removed.
ValidatorCreates(d) ==
    /\ "instance" \in Stimuli
    /\ job[d] = "run" /\ inst[d] = "none"
    /\ inst' = [inst EXCEPT ![d] = "created"]
    /\ ev' = [ev EXCEPT ![d] = @ \cup {"created"}]
    /\ UNCHANGED <<db, spec, job, cache, health, loops>>

ValidatorActivates(d) ==
    /\ job[d] = "run" /\ inst[d] = "created"
    /\ inst' = [inst EXCEPT ![d] = "active"]
    /\ ev' = [ev EXCEPT ![d] = @ \cup {"activated"}]
    /\ UNCHANGED <<db, spec, job, cache, health, loops>>

ValidatorDeletes(d) ==
    /\ d \in Instances
    /\ inst' = [inst EXCEPT ![d] = "gone"]
    /\ ev' = [ev EXCEPT ![d] = @ \cup {"deleted"}]
    /\ UNCHANGED <<db, spec, job, cache, health, loops>>

EventsLost(d) ==
    /\ ev[d] # {} /\ Fault
    /\ ev' = [ev EXCEPT ![d] = {}]
    /\ UNCHANGED <<db, spec, job, cache, health, inst, task, pending, rec, dropping, gpuDropping>>

\* Thirty minutes pass since a row was created.
RowAges(d) ==
    /\ d \in rows \ old
    /\ old' = old \cup {d}
    /\ UNCHANGED <<servers, chutes, gpus, owner, rows, stubs, known, active, world, loops>>

\* The gepetto process dies and is restarted: only what is stored survives.
GepettoCrash ==
    /\ Fault
    /\ task' = [t \in Task |-> IF t \in ApiTask THEN task[t] ELSE Idle]
    /\ pending' = {} /\ rec' = RecIdle /\ dropping' = {} /\ gpuDropping' = {}
    /\ ev' = [d \in Dep |-> {}]
    /\ UNCHANGED <<db, spec, job, cache, health, inst>>

\* The API process dies; it keeps nothing but its requests, so nothing bounds this.
ApiCrash ==
    /\ \E t \in ApiTask : task[t] # Idle
    /\ task' = [t \in Task |-> IF t \in ApiTask THEN Idle ELSE task[t]]
    /\ UNCHANGED <<db, world, pending, rec, dropping, gpuDropping, faults>>

-----------------------------------------------------------------------------
Deploying(t) ==
    \/ DeployClaim(t) \/ DeployNoDisk(t) \/ DeployCreate(t) \/ DeployCreateFails(t)
    \/ DeployWait(t) \/ DeployUpdate(t) \/ DeployClear(t) \/ DeployUnjob(t)

Undeploying(t) ==
    \/ UndeployPreflight(t) \/ UndeployRow(t)
    \/ UndeployPurge(t) \/ UndeployPurgeFails(t)
    \/ UndeployK8s(t) \/ UndeployK8sFails(t)

Launching ==
    \E t \in Task, d \in Dep, c \in Chute, s \in Server, G \in SUBSET Gpu :
        DeployStart(t, d, c, s, G)

Handling ==
    \/ \E d \in Dep : InstanceCreated(d) \/ InstanceActivated(d) \/ InstanceDeleted(d)
                      \/ UndeployRequest(d)
    \/ \E t \in Task, d \in Dep : UndeployStart(t, d) \/ ApiPurge(t, d) \/ ServerPurge(t, d)
    \/ \E c \in Chute : ChuteDeletedBegin(c) \/ ChuteDeletedEnd(c) \/ ChuteCreated(c)
    \/ \E g \in Gpu : GpuDeletedBegin(g) \/ GpuDeletedEnd(g)
    \/ \E s \in Server : ServerDeletedClear(s) \/ ServerDeletedDrop(s)

Reconciling ==
    \/ ReconcileRefresh
    \/ \E ok \in BOOLEAN : ReconcileScan(ok)
    \/ \E unv \in SUBSET Dep : ReconcileRows(unv)
    \/ \E d \in Dep : ReconcilePurge(d) \/ ReconcilePurgeFails(d)
    \/ ReconcileCommit \/ ReconcileSpawn

Environment ==
    \/ \E d \in Dep : \/ AgentSync(d) \/ JobRemoved(d) \/ JobEnds(d) \/ JobLost(d)
                      \/ ValidatorCreates(d) \/ ValidatorActivates(d) \/ ValidatorDeletes(d)
                      \/ EventsLost(d) \/ RowAges(d)
    \/ \E s \in Server : ClusterUnhealthy(s) \/ ClusterResyncBegin(s) \/ ClusterResyncEnd(s)
    \/ GepettoCrash \/ ApiCrash

Next ==
    \/ Launching
    \/ \E t \in Task : Deploying(t) \/ Undeploying(t)
    \/ Handling
    \/ Reconciling
    \/ Environment

Spec == Init /\ [][Next]_vars

\* Coroutines that can run do run, a scheduled task is started (the event loop's
\* ready queue is first in first out), the reconciler's loop goes on for ever,
\* agents deliver and resynchronise, kubernetes finishes deletions, time passes.
Fairness ==
    /\ \A t \in Task : WF_vars(Deploying(t)) /\ WF_vars(Undeploying(t))
    /\ \A d \in Dep : SF_vars(\E t \in Task : UndeployStart(t, d))
    /\ WF_vars(Reconciling)
    /\ \A d \in Dep : WF_vars(AgentSync(d)) /\ WF_vars(JobRemoved(d)) /\ WF_vars(RowAges(d))
    /\ \A s \in Server : WF_vars(ClusterResyncBegin(s)) /\ WF_vars(ClusterResyncEnd(s))

FairSpec == Spec /\ Fairness

-----------------------------------------------------------------------------
(* Properties.                                                               *)

\* Type correctness; in particular stub, active, instance id and age are only ever
\* recorded for rows that exist, and rows only for ids that were launched, although
\* handlers, reconcile and the API process update and delete rows independently.
TypeOK ==
    /\ servers \subseteq Server /\ chutes \subseteq Chute /\ gpus \subseteq Gpu
    /\ owner \in [Gpu -> Dep \cup {NoDep}]
    /\ rows \subseteq Used
    /\ stubs \subseteq rows /\ known \subseteq rows /\ active \subseteq rows /\ old \subseteq rows
    /\ spec \in [Dep -> Specs \cup {NoSpec}]
    /\ job \in [Dep -> JobState] /\ cache \in [Dep -> JobState]
    /\ health \in [Server -> {"ok", "sync", "bad", "unknown"}]
    /\ inst \in [Dep -> InstState]
    /\ ev \in [Dep -> SUBSET EventKind]
    /\ task \in [Task -> TaskRec]
    /\ pending \subseteq Dep /\ rec \in RecRec
    /\ dropping \subseteq Chute /\ gpuDropping \subseteq Gpu
    /\ faults \in 0 .. MaxFaults

\* The GPUs a deployment holds in the database are exactly the ones its job is
\* started with (NVIDIA_VISIBLE_DEVICES), as long as their rows exist, and two
\* tracked deployments are never started on the same GPU, however the launches,
\* undeploys, handlers and crashes interleave (operator.py, _track_deployment).
ClaimsExact ==
    /\ \A d \in rows : Claimed(d) = spec[d].gpus \cap gpus
    /\ \A d, e \in rows : d # e => spec[d].gpus \cap spec[e].gpus = {}

Pool == INSTANCE GpuPool WITH Holder <- Dep, Nobody <- NoDep, pool <- gpus,
                              Portions <- {G \in SUBSET Gpu :
                                             \E c \in Chute : Cardinality(G) = GpuCount[c]}

\* To the launches the GPU table is a pool that hands GPUs out whole: a launch
\* claims all its GPUs in one step or none, takes none from another deployment,
\* and whatever removes a row (a failed launch, an undeploy in either process, a
\* handler, a cascade, a pass of reconcile) frees all of its GPUs and no other.
GpusHandedOutWhole == Pool!Spec

\* A row whose job does not exist (a crash mid-launch, a job lost by the cluster,
\* a launch that failed) does not hold its GPUs for ever: some pass of reconcile
\* or some undeploy removes it.
DeadRowFreed ==
    \A d \in Dep : (d \in rows /\ job[d] = "absent") ~> (d \notin rows \/ job[d] # "absent")

\* A job without a row (a launch that timed out waiting for the cache, a row
\* deleted under a launch, a crash in the middle of undeploy, a failed delete
\* call) is eventually deleted from its cluster, unless the server is removed.
OrphanJobRemoved ==
    \A d \in Dep : (job[d] \in {"run", "end"} /\ d \notin rows)
                   ~> (job[d] \in {"absent", "term"} \/ spec[d].server \notin servers)

\* An instance whose deployment is gone is eventually purged from the validator,
\* although the purge of an undeploy may fail or be cut off by a crash.
OrphanInstancePurged ==
    \A d \in Dep : (d \in Instances /\ d \notin rows) ~> d \notin Instances

\* A launch (not one for a job) whose pod never registers an instance does not
\* keep its GPUs: it ages out, even when the row's stub flag was never cleared.
StuckLaunchFreed ==
    \A d \in Dep : (d \in rows /\ spec[d].chute \notin JobChutes /\ inst[d] = "none")
                   ~> (d \notin rows \/ inst[d] # "none")

\* A deployment in order: its launch has completed, its job runs and is cached,
\* its instance is alive at the validator and recorded in its row.
Sound == {d \in known \ stubs : job[d] = "run" /\ cache[d] = "run" /\ d \in Instances}

\* A GPU is never visible to the pods of two jobs at once: a pod that runs or is
\* still terminating keeps its GPUs out of the next launch (the agent reports a
\* deletion only once the resource is gone "to avoid scheduling conflicts").
GpusNotShared ==
    \A d, e \in Used : d # e /\ job[d] \in {"run", "term"} /\ job[e] \in {"run", "term"}
                       => spec[d].gpus \cap spec[e].gpus = {}

=============================================================================
