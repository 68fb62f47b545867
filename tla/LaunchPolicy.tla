---------------------------- MODULE LaunchPolicy ----------------------------
(***************************************************************************)
(* Who launches what, and at whose expense (gepetto.py): the autoscaler,   *)
(* the handlers of bounty_changed, chute_created, rolling_update,          *)
(* job_created and job_deleted, and the three functions they share,        *)
(* scale_chute, preempting_deploy and run_job.  All are coroutines of one  *)
(* event loop; only scale_chute and rolling_update take _scale_lock.       *)
(*                                                                         *)
(* deploy_chute and undeploy, whose steps are those of Deployments, are    *)
(* here a claim and an outcome, and a veto or a deletion.  A chute has one *)
(* version; servers differ in which chutes they can run (GPU type, TEE,    *)
(* lock and verification together) and how many GPUs they have; the order  *)
(* in which servers and chutes are preferred is left open.                 *)
(***************************************************************************)
EXTENDS Integers, FiniteSets, FiniteSetsExt

CONSTANTS
    Dep,        \* pool of deployment ids
    Chute, Server,
    Job, NoJob,
    JobChute,   \* the chute of a job
    Task, NoTask,
    Initial,    \* the chute of each deployment that runs already, for an hour or more
    Home,       \* ... and its server
    Size,       \* Chute.gpu_count
    Gpus,       \* GPUs of a server
    Runs,       \* the servers a chute can run on
    Worth,      \* effective_compute_multiplier of a chute and of its instances
    Elsewhere,  \* active instances of a chute on other miners
    Private,    \* chutes that are not preemptible
    MaxFaults

ASSUME PlacementAssumption ==
    /\ Size \in [Chute -> Nat \ {0}] /\ Gpus \in [Server -> Nat]
    /\ Runs \in [Chute -> SUBSET Server]
    /\ Worth \in [Chute -> Nat] /\ Elsewhere \in [Chute -> Nat]
    /\ Private \subseteq Chute
    /\ MaxFaults \in Nat
ASSUME InitialAssumption ==
    /\ DOMAIN Initial \subseteq Dep /\ IsFiniteSet(Dep)
    /\ Initial \in [DOMAIN Initial -> Chute] /\ Home \in [DOMAIN Initial -> Server]
ASSUME NoneAssumption == JobChute \in [Job -> Chute] /\ NoJob \notin Job /\ NoTask \notin Task

VARIABLES
    row,        \* rows of table deployments: chute, server, job_id, age of activated_at
                \* ("boot": NULL; "young", "old": for less, more than an hour), and the
                \* job the pod was launched for, which is no column
    fresh,      \* ids not handed out yet
    seen,       \* global_active_instances, as far as they are ours: instance, chute
    healthy,    \* clusters whose cache is healthy
    jobs,       \* the validator's jobs
    stuck,      \* jobs whose release was attempted in vain or skipped
    lock,       \* the holder of _scale_lock
    task,       \* the coroutines
    faults

vars == <<row, fresh, seen, healthy, jobs, stuck, lock, task, faults>>

-----------------------------------------------------------------------------
rows     == DOMAIN row
Rows     == [chute : Chute, server : Server, job : Job \cup {NoJob},
             age : {"boot", "young", "old"}, runs : Job \cup {NoJob}]
JobState == {"new", "open", "held", "free", "ended"}
Caller   == {"auto", "bounty", "created", "rolling", "job", "deleted"}
Pc       == {"idle", "round", "count", "lock", "scale", "down", "replace", "reload",
             "choose", "token", "evict", "deploy", "boot", "kill"}

\* A coroutine: by is the handler it belongs to, want its desired_count, ok what
\* scale_chute is to return; via tells scale_chute, preempting_deploy and run_job
\* apart; victims are the deployments it is about to undeploy, dep the one it
\* launches, todo the chutes that a round of the autoscaler has still to try.
Calls == [pc : Pc, by : Caller, via : {"scale", "preempt", "run"}, chute : SUBSET Chute,
          job : Job \cup {NoJob}, want : Nat, server : SUBSET Server, ok : BOOLEAN,
          victims : SUBSET Dep, dep : SUBSET Dep, todo : SUBSET Chute]
Call(pc, caller, C) ==
    [pc |-> pc, by |-> caller, via |-> "scale", chute |-> C, job |-> NoJob, want |-> 0,
     server |-> {}, ok |-> FALSE, victims |-> {}, dep |-> {}, todo |-> {}]
Idle == Call("idle", "auto", {})

Fault == faults < MaxFaults /\ faults' = faults + 1

At(t, pc)  == task[t].pc = pc
Chute1(t)  == CHOOSE c \in Chute : task[t].chute = {c}
Server1(t) == CHOOSE s \in Server : task[t].server = {s}
Sets(t, r) == task' = [task EXCEPT ![t] = r]

On(s)      == {d \in rows : row[d].server = s}
Of(c)      == {d \in rows : row[d].chute = c}
Held(d)    == Size[row[d].chute]
Free(s)    == Gpus[s] - MapThenSumSet(Held, On(s))
\* count_non_job_deployments, has_pending_deployment.
NonJob(c)  == {d \in Of(c) : row[d].job = NoJob}
Count(c)   == Cardinality(NonJob(c))
Pending(c) == \E d \in NonJob(c) : row[d].age = "boot"
\* optimal_scale_up_server: the servers it may return.
Fits(c)    == {s \in Runs[c] : Free(s) >= Size[c]}
\* What remote_refresh_all finds at the validator.
Active     == {d \in rows : row[d].age # "boot"}
Snapshot   == {<<d, row[d].chute>> : d \in Active}

Ended(D) == [j \in Job |-> IF jobs[j] = "held" /\ \E d \in D \cap rows : row[d].runs = j
                           THEN "ended" ELSE jobs[j]]

\* Deployment rows go; the validator takes the jobs of their pods for ended.
Remove(D) ==
    /\ row' = [d \in rows \ D |-> row[d]]
    /\ jobs' = Ended(D)

\* Variant: acquire() without a release().
UnlockForgotten(t) == UNCHANGED lock

\* A function returns or raises: `async with self._scale_lock` ends.
Unlock(t) == lock' = IF lock = t THEN NoTask ELSE lock

\* scale_chute and preempting_deploy return ok; a round of the autoscaler goes on
\* to the next chute unless this one was scaled.
Return(t, ok) ==
    /\ Unlock(t)
    /\ Sets(t, IF task[t].by = "auto" /\ ~ok /\ task[t].todo # {}
               THEN [Call("round", "auto", {}) EXCEPT !.todo = task[t].todo] ELSE Idle)

Raise(t) == Unlock(t) /\ Sets(t, Idle)

-----------------------------------------------------------------------------
Init ==
    /\ row = [d \in DOMAIN Initial |->
                [chute |-> Initial[d], server |-> Home[d], job |-> NoJob, age |-> "old",
                 runs |-> NoJob]]
    /\ fresh = Dep \ DOMAIN Initial
    /\ seen = {<<d, Initial[d]>> : d \in DOMAIN Initial}
    /\ healthy = Server
    /\ jobs = [j \in Job |-> "new"] /\ stuck = {}
    /\ lock = NoTask /\ task = [t \in Task |-> Idle]
    /\ faults = 0

-----------------------------------------------------------------------------
(* The callers.                                                              *)

\* _autoscale: refresh, then list the chutes that are worth it and have a server.
AutoscaleRound(t) ==
    /\ At(t, "idle") /\ \A u \in Task : task[u].by = "auto" => At(u, "idle")
    /\ seen' = Snapshot
    /\ LET todo == {c \in Chute : Worth[c] > 0 /\ Fits(c) # {}} IN
       /\ todo # {}
       /\ Sets(t, [Call("round", "auto", {}) EXCEPT !.todo = todo])
    /\ UNCHANGED <<row, fresh, healthy, jobs, stuck, lock, faults>>

\* has_pending_deployment; the best of the list comes first, whichever that is.
AutoscaleNext(t, c) ==
    /\ At(t, "round") /\ c \in task[t].todo
    /\ LET rest == task[t].todo \ {c} IN
       Sets(t, IF ~Pending(c) THEN [Call("count", "auto", {c}) EXCEPT !.todo = rest]
               ELSE IF rest = {} THEN Idle
               ELSE [Call("round", "auto", {}) EXCEPT !.todo = rest])
    /\ UNCHANGED <<row, fresh, seen, healthy, jobs, stuck, lock, faults>>

\* current_count is read before scale_chute takes the lock.
AutoscaleCount(t) ==
    /\ At(t, "count")
    /\ Sets(t, [task[t] EXCEPT !.pc = "lock", !.want = Count(Chute1(t)) + 1])
    /\ UNCHANGED <<row, fresh, seen, healthy, jobs, stuck, lock, faults>>

\* bounty_changed: ignored if there is any deployment of the chute.  The end of
\* chute_created: only if there is none but for jobs, and without preemption.
Wanted(t, c, caller) ==
    /\ At(t, "idle")
    /\ \/ caller = "bounty" /\ Of(c) = {}
       \/ caller = "created" /\ Count(c) = 0
    /\ Sets(t, [Call("lock", caller, {c}) EXCEPT !.want = 1])
    /\ UNCHANGED <<row, fresh, seen, healthy, jobs, stuck, lock, faults>>

\* rolling_update of the instance of d.
RollingUpdate(t, d) ==
    /\ At(t, "idle") /\ d \in Active
    /\ Sets(t, [Call("lock", "rolling", {row[d].chute}) EXCEPT !.dep = {d}])
    /\ UNCHANGED <<row, fresh, seen, healthy, jobs, stuck, lock, faults>>

\* job_created: run_job if a server is free, else preempting_deploy; no lock.
JobCreated(t, j) ==
    LET c == JobChute[j]
        r == [Call("choose", "job", {c}) EXCEPT !.job = j, !.via = "preempt"] IN
    /\ At(t, "idle") /\ jobs[j] = "new"
    /\ jobs' = [jobs EXCEPT ![j] = "open"]
    /\ \/ \E s \in Fits(c) : Sets(t, [r EXCEPT !.pc = "token", !.via = "run", !.server = {s}])
       \/ Fits(c) = {} /\ Sets(t, r)
    /\ UNCHANGED <<row, fresh, seen, healthy, stuck, lock, faults>>

\* job_deleted: the row is found by its job_id.
JobDeleted(t, j) ==
    /\ At(t, "idle") /\ jobs[j] = "ended"
    /\ \E d \in rows : row[d].job = j
                       /\ Sets(t, [Call("kill", "deleted", {}) EXCEPT !.victims = {d}])
    /\ UNCHANGED <<row, fresh, seen, healthy, jobs, stuck, lock, faults>>

-----------------------------------------------------------------------------
(* scale_chute and rolling_update, under the lock.                           *)

\* Variant: the lock is not waited for.
AcquireFreely(t) ==
    /\ At(t, "lock")
    /\ lock' = t
    /\ Sets(t, IF task[t].by # "rolling" THEN [task[t] EXCEPT !.pc = "scale"]
               ELSE [task[t] EXCEPT !.pc = "replace", !.victims = task[t].dep, !.dep = {}])
    /\ UNCHANGED <<row, fresh, seen, healthy, jobs, stuck, faults>>

Acquire(t) ==
    /\ At(t, "lock") /\ lock = NoTask
    /\ lock' = t
    /\ Sets(t, IF task[t].by # "rolling" THEN [task[t] EXCEPT !.pc = "scale"]
               ELSE [task[t] EXCEPT !.pc = "replace", !.victims = task[t].dep, !.dep = {}])
    /\ UNCHANGED <<row, fresh, seen, healthy, jobs, stuck, faults>>

\* One iteration of the loop of scale_chute: current_count and desired_count ...
ScaleReached(t) ==
    /\ At(t, "scale") /\ Count(Chute1(t)) = task[t].want
    /\ Return(t, task[t].ok)
    /\ UNCHANGED <<row, fresh, seen, healthy, jobs, stuck, faults>>

\* ... optimal_scale_down_deployment: one activated for an hour, not of a job ...
Removable(c) == {d \in NonJob(c) : row[d].age = "old" /\ row[d].chute \notin Private}

ScaleDown(t, d) ==
    /\ At(t, "scale") /\ Count(Chute1(t)) > task[t].want /\ d \in Removable(Chute1(t))
    /\ Sets(t, [task[t] EXCEPT !.pc = "down", !.victims = {d}])
    /\ UNCHANGED <<row, fresh, seen, healthy, jobs, stuck, lock, faults>>

\* Variant: the loop is not left when no deployment can be removed.
ScaleDownKeepsTrying(t) ==
    /\ At(t, "scale") /\ Count(Chute1(t)) > task[t].want /\ Removable(Chute1(t)) = {}
    /\ UNCHANGED vars

ScaleDownImpossible(t) ==
    /\ At(t, "scale") /\ Count(Chute1(t)) > task[t].want /\ Removable(Chute1(t)) = {}
    /\ Return(t, FALSE)
    /\ UNCHANGED <<row, fresh, seen, healthy, jobs, stuck, faults>>

\* ... optimal_scale_up_server, or preemption if the caller asked for it.
ScaleUp(t, s) ==
    /\ At(t, "scale") /\ Count(Chute1(t)) < task[t].want /\ s \in Fits(Chute1(t))
    /\ Sets(t, [task[t] EXCEPT !.pc = "token", !.server = {s}])
    /\ UNCHANGED <<row, fresh, seen, healthy, jobs, stuck, lock, faults>>

ScaleUpImpossible(t) ==
    /\ At(t, "scale") /\ Count(Chute1(t)) < task[t].want /\ Fits(Chute1(t)) = {}
    /\ IF task[t].by = "bounty"
       THEN Sets(t, [task[t] EXCEPT !.pc = "choose", !.via = "preempt"]) /\ UNCHANGED lock
       ELSE Return(t, FALSE)
    /\ UNCHANGED <<row, fresh, seen, healthy, jobs, stuck, faults>>

\* rolling_update: no such row (any more), or one of a job: nothing to replace.
RollingNothing(t) ==
    /\ At(t, "replace") /\ ~\E d \in task[t].victims \cap rows : row[d].job = NoJob
    /\ Return(t, FALSE)
    /\ UNCHANGED <<row, fresh, seen, healthy, jobs, stuck, faults>>

\* The chute is reloaded (or cannot be) and, if it still runs there, launched
\* again where the old instance was.
RollingReload(t, s) ==
    /\ At(t, "reload") /\ task[t].server = {s}
    /\ \/ s \in Runs[Chute1(t)] /\ Sets(t, [task[t] EXCEPT !.pc = "token"]) /\ UNCHANGED lock
       \/ Return(t, FALSE)
    /\ UNCHANGED <<row, fresh, seen, healthy, jobs, stuck, faults>>

-----------------------------------------------------------------------------
(* preempting_deploy.                                                        *)

\* The multiplier of an instance, 0 if the snapshot does not have it, and the
\* number of instances of a chute in the snapshot.
Rate(d)  == IF <<d, row[d].chute>> \in seen THEN Worth[row[d].chute] ELSE 0
Known(c) == Cardinality({d \in Dep : <<d, c>> \in seen}) + Elsewhere[c]

Preemptible(s, c) ==
    {d \in On(s) : /\ row[d].job = NoJob /\ row[d].chute \notin Private
                   /\ row[d].age = "old" /\ row[d].chute # c /\ Rate(d) < Worth[c]}

Left(c, V) == Known(c) - Cardinality({d \in V : row[d].chute = c})

\* Victims in ascending order of multiplier until the GPUs suffice, passing over
\* the last instance of a chute.
Enough(s, c, V) == Free(s) + MapThenSumSet(Held, V) >= Size[c]
Plans(s, c) ==
    IF Enough(s, c, {}) THEN {{}}
    ELSE {V \in SUBSET Preemptible(s, c) :
            /\ Enough(s, c, V)
            /\ \A d \in V : Left(row[d].chute, V) >= 1
            /\ \E last \in V :
                 /\ ~Enough(s, c, V \ {last})
                 /\ \A d \in V : Rate(d) <= Rate(last)
                 /\ \A d \in Preemptible(s, c) \ V :
                      Rate(d) < Rate(last) => Left(row[d].chute, V) <= 1}

\* "Already have a pending deployment", for a job or not; no server; no victims.
ChooseNone(t) ==
    LET c == Chute1(t) IN
    /\ At(t, "choose")
    /\ (\E d \in Of(c) : row[d].age = "boot") \/ (\A s \in Runs[c] : Plans(s, c) = {})
    /\ Return(t, FALSE)
    /\ UNCHANGED <<row, fresh, seen, healthy, jobs, stuck, faults>>

\* Variant: the victims are undeployed before the launch token is asked for.
ChooseEvictsFirst(t, s, V) ==
    LET c == Chute1(t) IN
    /\ At(t, "choose") /\ s \in Runs[c] /\ Gpus[s] >= Size[c] /\ V \in Plans(s, c)
    /\ \A d \in Of(c) : row[d].age # "boot"
    /\ Sets(t, [task[t] EXCEPT !.pc = IF V = {} THEN "token" ELSE "evict",
                               !.server = {s}, !.victims = V])
    /\ UNCHANGED <<row, fresh, seen, healthy, jobs, stuck, lock, faults>>

Choose(t, s, V) ==
    LET c == Chute1(t) IN
    /\ At(t, "choose") /\ s \in Runs[c] /\ Gpus[s] >= Size[c] /\ V \in Plans(s, c)
    /\ \A d \in Of(c) : row[d].age # "boot"
    /\ Sets(t, [task[t] EXCEPT !.pc = "token", !.server = {s}, !.victims = V])
    /\ UNCHANGED <<row, fresh, seen, healthy, jobs, stuck, lock, faults>>

-----------------------------------------------------------------------------
(* Tokens, deploys and undeploys.                                            *)

\* get_launch_token; the one of a job goes to the first miner to ask.
Token(t) ==
    LET j == task[t].job IN
    /\ At(t, "token")
    /\ IF j = NoJob THEN UNCHANGED jobs
       ELSE jobs[j] = "open" /\ jobs' = [jobs EXCEPT ![j] = "held"]
    /\ Sets(t, [task[t] EXCEPT !.pc = IF task[t].victims = {} THEN "deploy" ELSE "evict"])
    /\ UNCHANGED <<row, fresh, seen, healthy, stuck, lock, faults>>

TokenFails(t) ==
    /\ At(t, "token")
    /\ Return(t, FALSE)
    /\ UNCHANGED <<row, fresh, seen, healthy, jobs, stuck, faults>>

\* What follows the undeploy of the last victim.
Undeployed(t, V) ==
    IF V # {} THEN [task[t] EXCEPT !.victims = V]
    ELSE CASE At(t, "down")    -> [task[t] EXCEPT !.pc = "scale", !.victims = V, !.ok = TRUE]
           [] At(t, "replace") -> [task[t] EXCEPT !.pc = "reload", !.victims = V]
           [] At(t, "evict")   -> [task[t] EXCEPT !.pc = "deploy", !.victims = V]
           [] At(t, "kill")    -> Idle

Undeploying(t, d) ==
    /\ task[t].pc \in {"down", "replace", "evict", "kill"} /\ d \in task[t].victims
    /\ At(t, "replace") => d \in rows /\ row[d].job = NoJob

\* undeploy(): skipped with a warning when the cache of the cluster is not healthy.
UndeploySkipped(t, d) ==
    /\ Undeploying(t, d) /\ d \in rows /\ row[d].server \notin healthy
    /\ Sets(t, [Undeployed(t, task[t].victims \ {d}) EXCEPT
                  !.server = IF At(t, "replace") THEN {row[d].server} ELSE @])
    /\ UNCHANGED <<row, fresh, seen, healthy, jobs, stuck, lock, faults>>

Undeploy(t, d) ==
    /\ Undeploying(t, d) /\ (d \in rows => row[d].server \in healthy)
    /\ Remove({d})
    /\ Sets(t, [Undeployed(t, task[t].victims \ {d}) EXCEPT
                  !.server = IF At(t, "replace") THEN {row[d].server} ELSE @])
    /\ UNCHANGED <<fresh, seen, healthy, stuck, lock, faults>>

\* release_job succeeds, or fails (which is only logged).
Released(js, j) == IF j \in Job /\ js[j] = "held" THEN [js EXCEPT ![j] = "free"] ELSE js

\* undeploy() raises, its row gone: preempting_deploy gives up and releases the
\* job; elsewhere the exception ends the caller.
UndeployRaises(t, d) ==
    /\ Undeploying(t, d) /\ Fault
    /\ row' = [e \in rows \ {d} |-> row[e]]
    /\ jobs' = Released(Ended({d}), IF At(t, "evict") THEN task[t].job ELSE NoJob)
    /\ IF At(t, "evict") THEN Return(t, FALSE) ELSE Raise(t)
    /\ UNCHANGED <<fresh, seen, healthy, stuck>>

\* deploy_chute claims GPUs and creates the row.  preempting_deploy passes it no
\* job_id, even when it runs for a job.
DeployClaim(t, d, s) ==
    /\ At(t, "deploy") /\ d \in fresh /\ task[t].server = {s}
    /\ Free(s) >= Size[Chute1(t)]
    /\ fresh' = fresh \ {d}
    /\ row' = [e \in rows \cup {d} |-> IF e \in rows THEN row[e]
                ELSE [chute |-> Chute1(t), server |-> s, runs |-> task[t].job, age |-> "boot",
                      job |-> IF task[t].via = "run" THEN task[t].job ELSE NoJob]]
    /\ Sets(t, [task[t] EXCEPT !.pc = "boot", !.dep = {d}])
    /\ UNCHANGED <<seen, healthy, jobs, stuck, lock, faults>>

Deployed(t) == At(t, "boot") /\ task[t].dep \subseteq rows
Failing(t)  == At(t, "deploy") \/ At(t, "boot")
Scaling(t)  == task[t].via = "scale" /\ task[t].by # "rolling"
Rolling(t)  == task[t].by = "rolling"

\* It returns: scale_chute counts again ...
ScaleDeployed(t) ==
    /\ Scaling(t) /\ Deployed(t)
    /\ Sets(t, [task[t] EXCEPT !.pc = "scale", !.ok = TRUE, !.server = {}, !.dep = {}])
    /\ UNCHANGED <<row, fresh, seen, healthy, jobs, stuck, lock, faults>>

\* ... and rolling_update, preempting_deploy and run_job are done.
DeployReturns(t) ==
    /\ ~Scaling(t) /\ Deployed(t)
    /\ Return(t, TRUE)
    /\ UNCHANGED <<row, fresh, seen, healthy, jobs, stuck, faults>>

\* DeploymentFailure: deploy_chute has removed its row; a launch that could not be
\* announced is undeployed, or not, if that is skipped.
Dropped(t) ==
    \/ row' = [d \in rows \ task[t].dep |-> row[d]]
    \/ (\E d \in task[t].dep \cap rows : row[d].server \notin healthy) /\ UNCHANGED row

\* release_job, which may fail and is not tried again.
ReleaseJob(t) ==
    \/ jobs' = Released(jobs, task[t].job) /\ UNCHANGED <<stuck, faults>>
    \/ Fault /\ task[t].job # NoJob /\ stuck' = stuck \cup {task[t].job} /\ UNCHANGED jobs

\* scale_chute leaves its loop; rolling_update is over, the old instance gone.
ScaleFails(t) ==
    /\ Scaling(t) /\ Failing(t)
    /\ Dropped(t) /\ Return(t, FALSE)
    /\ UNCHANGED <<fresh, seen, healthy, jobs, stuck, faults>>

RollingFails(t) ==
    /\ Rolling(t) /\ Failing(t)
    /\ Dropped(t) /\ Return(t, FALSE)
    /\ UNCHANGED <<fresh, seen, healthy, jobs, stuck, faults>>

\* preempting_deploy and run_job release the job they have.
PreemptFails(t) ==
    /\ task[t].via = "preempt" /\ Failing(t)
    /\ Dropped(t) /\ ReleaseJob(t) /\ Return(t, FALSE)
    /\ UNCHANGED <<fresh, seen, healthy>>

\* Variant: the job of a failed launch is not released.
JobFailsKeepsJob(t) ==
    /\ task[t].via = "run" /\ Failing(t)
    /\ Remove(task[t].dep) /\ Return(t, FALSE)
    /\ UNCHANGED <<fresh, seen, healthy, stuck, faults>>

JobFails(t) ==
    /\ task[t].via = "run" /\ Failing(t)
    /\ row' = [d \in rows \ task[t].dep |-> row[d]]
    /\ ReleaseJob(t) /\ Return(t, FALSE)
    /\ UNCHANGED <<fresh, seen, healthy>>

\* _get_job_extra_services raises: nobody catches it, nothing is released.
ExtraServicesFail(t) ==
    /\ At(t, "deploy") /\ task[t].job # NoJob /\ Fault
    /\ stuck' = stuck \cup {task[t].job}
    /\ Raise(t)
    /\ UNCHANGED <<row, fresh, seen, healthy, jobs>>

-----------------------------------------------------------------------------
(* The world: activation, time, deletions, job ends, clusters.               *)

\* instance_activated sets activated_at; an hour passes.
Ages(d) ==
    /\ d \in rows /\ row[d].age # "old"
    /\ row' = [row EXCEPT ![d].age = IF @ = "boot" THEN "young" ELSE "old"]
    /\ UNCHANGED <<fresh, seen, healthy, jobs, stuck, lock, task, faults>>

\* instance_deleted, reconcile, ... remove a deployment for reasons of their own.
Deleted(d) ==
    /\ d \in rows
    /\ Remove({d})
    /\ UNCHANGED <<fresh, seen, healthy, stuck, lock, task, faults>>

\* remote_refresh_all by reconcile.
Refresh ==
    /\ seen # Snapshot
    /\ seen' = Snapshot
    /\ UNCHANGED <<row, fresh, healthy, jobs, stuck, lock, task, faults>>

\* A job completes or is cancelled.
JobEnds(j) ==
    /\ jobs[j] \in {"open", "held"}
    /\ jobs' = [jobs EXCEPT ![j] = "ended"]
    /\ UNCHANGED <<row, fresh, seen, healthy, stuck, lock, task, faults>>

ClusterLost(s) ==
    /\ s \in healthy /\ Fault
    /\ healthy' = healthy \ {s}
    /\ UNCHANGED <<row, fresh, seen, jobs, stuck, lock, task>>

ClusterBack(s) ==
    /\ s \notin healthy
    /\ healthy' = healthy \cup {s}
    /\ UNCHANGED <<row, fresh, seen, jobs, stuck, lock, task, faults>>

-----------------------------------------------------------------------------
Start(t) ==
    \/ AutoscaleRound(t)
    \/ \E c \in Chute, caller \in Caller : Wanted(t, c, caller)
    \/ \E d \in Dep : RollingUpdate(t, d)
    \/ \E j \in Job : JobCreated(t, j) \/ JobDeleted(t, j)

Step(t) ==
    \/ \E c \in Chute : AutoscaleNext(t, c)
    \/ AutoscaleCount(t)
    \/ ScaleReached(t) \/ ScaleDownImpossible(t) \/ ScaleUpImpossible(t)
    \/ \E d \in Dep : ScaleDown(t, d) \/ UndeploySkipped(t, d) \/ Undeploy(t, d)
                      \/ UndeployRaises(t, d)
    \/ \E s \in Server : ScaleUp(t, s) \/ RollingReload(t, s)
                         \/ \E V \in SUBSET Dep : Choose(t, s, V)
                         \/ \E d \in Dep : DeployClaim(t, d, s)
    \/ RollingNothing(t) \/ ChooseNone(t)
    \/ Token(t) \/ TokenFails(t)
    \/ ScaleDeployed(t) \/ DeployReturns(t)
    \/ ScaleFails(t) \/ RollingFails(t) \/ PreemptFails(t) \/ JobFails(t)
    \/ ExtraServicesFail(t)

World ==
    \/ \E d \in Dep : Ages(d) \/ Deleted(d)
    \/ \E j \in Job : JobEnds(j)
    \/ \E s \in Server : ClusterLost(s) \/ ClusterBack(s)
    \/ Refresh

Next == World \/ \E t \in Task : Start(t) \/ Acquire(t) \/ Step(t)

Spec == Init /\ [][Next]_vars

\* The event loop runs what can run; an unhealthy cluster is resynchronised.
Fairness ==
    /\ \A t \in Task : WF_vars(Step(t))
    /\ \A s \in Server : WF_vars(ClusterBack(s))

FairSpec == Spec /\ Fairness

-----------------------------------------------------------------------------
(* Properties.                                                               *)

\* Type correctness, the relation of a holder of the lock to its coroutine, and
\* that rows and snapshots only name deployments that were launched.
TypeOK ==
    /\ rows \subseteq Dep \ fresh /\ row \in [rows -> Rows] /\ fresh \subseteq Dep
    /\ seen \subseteq (Dep \ fresh) \X Chute
    /\ healthy \subseteq Server
    /\ jobs \in [Job -> JobState] /\ stuck \subseteq Job
    /\ task \in [Task -> Calls]
    /\ lock = NoTask \/ (lock \in Task /\ ~At(lock, "idle"))
    /\ faults \in 0 .. MaxFaults

Working(j) == \E t \in Task : task[t].job = j /\ task[t].pc \in {"evict", "deploy", "boot"}

\* A job whose launch config this miner has taken ("only one miner can claim a
\* single job") is being launched, or has a pod, or is given back "for another
\* miner to pick up": run_job and preempting_deploy release it on every way out,
\* apart from a release that fails and a chute refresh that raises.
JobAccounted ==
    \A j \in Job : jobs[j] = "held" =>
        \/ j \in stuck
        \/ Working(j)
        \/ \E d \in rows : row[d].runs = j

\* Coroutines that wait for the lock with a count read long ago do not launch more
\* than they wanted: at the claim of a launch by scale_chute there are fewer than
\* desired_count deployments, not counting those that preempting_deploy launched
\* for jobs, which it does without the lock.
NoOvershoot ==
    [][\A t \in Task, d \in Dep, s \in Server :
          DeployClaim(t, d, s) /\ Scaling(t)
             => Cardinality({e \in NonJob(Chute1(t)) : row[e].runs = NoJob}) < task[t].want]_vars

\* preempting_deploy for a job undeploys nothing before it has the job: "we don't
\* want to undeploy if we don't actually get the lock" (gepetto.py:1645-1647).
HeldBeforeEviction ==
    [][\A t \in Task, d \in Dep :
          Undeploy(t, d) /\ At(t, "evict") /\ task[t].job \in Job
             => jobs[task[t].job] \in {"held", "ended"}]_vars

\* Whoever holds _scale_lock lets go of it, although the loop of scale_chute goes
\* round as long as undeploys are skipped and other coroutines change the count:
\* otherwise nothing is scaled or updated any more.
LockReleased == \A t \in Task : lock = t ~> lock # t

\* "Never preempt jobs" (gepetto.py:1573).
JobKept ==
    [][\A t \in Task, d \in Dep :
          Undeploy(t, d) /\ At(t, "evict") /\ d \in rows => row[d].runs = NoJob]_vars

\* "Never preempt the only global instance of a chute" (gepetto.py:1457).
LastInstanceKept ==
    [][\A t \in Task, d \in Dep :
          Undeploy(t, d) /\ At(t, "evict") /\ d \in rows
             => \/ Elsewhere[row[d].chute] > 0
                \/ Active \cap Of(row[d].chute) # {d}]_vars

=============================================================================
