----------------------------- MODULE ConfigMaps -----------------------------
(***************************************************************************)
(* How gepetto keeps the code of every chute, one config map per chute and *)
(* version, on every cluster (api/k8s/operator.py: ConfigMapWorker, the    *)
(* cluster watchers, delete_code).                                         *)
(*                                                                         *)
(* Handlers run on the event loop and put requests into the queue of a     *)
(* worker thread; delete_code blocks the event loop and runs beside the    *)
(* worker. Which clusters exist, and whether they are healthy, is what the *)
(* monitor service has written to redis; it announces clusters that come,  *)
(* go and reconnect on redis channels, which nobody stores.                *)
(* A TEE cluster is skipped by every operation: Cluster holds the others.  *)
(***************************************************************************)
EXTENDS Integers, Sequences

CONSTANTS
    Cluster, Chute,
    MaxVersion,     \* versions of a chute
    MaxQueue,       \* bound on requests and on messages in a channel
    MaxChanges,     \* bound on changes of chutes and servers
    MaxFaults       \* bound on outages, failed calls and crashes

ASSUME ConfigMapsAssumption ==
    /\ MaxVersion \in Nat /\ MaxQueue \in Nat
    /\ MaxChanges \in Nat /\ MaxFaults \in Nat

VARIABLES
    chutes,     \* the version of each chute in the database; 0: no row
    server,     \* clusters with a server row (and its kubeconfig)
    cms,        \* the code each cluster has
    health,     \* its health record in redis: "none", "ok", "bad"
    net,        \* whether the cluster can be reached
    ctx,        \* contexts of gepetto's kubeconfig
    events,     \* channel clusters:all
    reconnects, \* channel clusters:all:reconnect
    queue,      \* requests to the worker
    work,       \* what the worker does
    drop,       \* what delete_code does
    lost,       \* history: clusters a request, message or call was lost for
    ghost,      \* history: clusters marked after their record had been cleared
    changes, faults

vars == <<chutes, server, cms, health, net, ctx, events, reconnects, queue,
          work, drop, lost, ghost, changes, faults>>

database == <<chutes, server, changes>>
redis    == <<health, ghost, events, reconnects>>

Code == Chute \X (1 .. MaxVersion)
CurrentCode == {k \in Code : chutes[k[1]] = k[2]}
Listed == {c \in Cluster : health[c] # "none"}

Idle == [kind |-> "idle"]
NoDrop == [left |-> {}]
MainFree == drop = NoDrop

Change == changes < MaxChanges /\ changes' = changes + 1
Fault == faults < MaxFaults /\ faults' = faults + 1

\* A call to the cluster: a client for its context, and an answer.
Answers(c) == c \in ctx /\ net[c]

-----------------------------------------------------------------------------
Init ==
    /\ chutes = [h \in Chute |-> 0]
    /\ server = Cluster /\ ctx = Cluster
    /\ cms = [c \in Cluster |-> {}]
    /\ health = [c \in Cluster |-> "none"]
    /\ net = [c \in Cluster |-> TRUE]
    /\ events = <<>> /\ reconnects = <<>> /\ queue = <<>>
    /\ work = Idle /\ drop = NoDrop
    /\ lost = {} /\ ghost = {} /\ changes = 0 /\ faults = 0

(***************************************************************************)
(* Handlers.                                                               *)
(***************************************************************************)
DeployRequest(k, f) == [kind |-> "deploy", code |-> k, force |-> f]
SyncRequest(c) == [kind |-> "sync", cluster |-> c]

\* _ensure_running: the worker's thread or its loop does not start in time, and what
\* it was started for is dropped.
NotRunning == Fault /\ lost' = Cluster

\* enqueue_deploy, sync_cluster_configmaps: handed to the worker's loop, or dropped
\* with an error.
Submit(req) ==
    \/ /\ Len(queue) < MaxQueue
       /\ queue' = Append(queue, req)
       /\ UNCHANGED <<lost, faults>>
    \/ NotRunning /\ UNCHANGED queue

\* _deploy_config_map.
DeployCode(k, force) == Submit(DeployRequest(k, force))

\* chute_created: a row, then its code (create_code_config_map).
ChuteCreated(h) ==
    /\ MainFree /\ Change
    /\ chutes[h] = 0
    /\ \E v \in 1 .. MaxVersion :
         /\ chutes' = [chutes EXCEPT ![h] = v]
         /\ DeployCode(<<h, v>>, FALSE)
    /\ UNCHANGED <<server, cms, redis, net, ctx, work, drop>>

\* chute_updated and rolling_update: the row changes its version in place; the
\* code of the old version stays.
ChuteUpdated(h) ==
    /\ MainFree /\ Change
    /\ \E v \in 1 .. MaxVersion :
         /\ chutes' = [chutes EXCEPT ![h] = v]
         /\ DeployCode(<<h, v>>, TRUE)
    /\ UNCHANGED <<server, cms, redis, net, ctx, work, drop>>

\* chute_deleted for a version, with or without a row, then delete_code.
ChuteDeleted(h) ==
    /\ MainFree /\ Change
    /\ \E v \in 1 .. MaxVersion :
         /\ chutes' = [chutes EXCEPT ![h] = IF @ = v THEN 0 ELSE @]
         /\ drop' = IF Listed = {} THEN NoDrop ELSE [code |-> <<h, v>>, left |-> Listed]
    /\ UNCHANGED <<server, cms, redis, net, ctx, queue, work, lost, faults>>

DropRest(left) == drop' = IF left = {} THEN NoDrop ELSE [drop EXCEPT !.left = left]

\* delete_config_map, cluster by cluster: one that cannot be reached is passed
\* over, one without a context ends the loop.
DropFrom(c) ==
    /\ c \in drop.left
    /\ cms' = IF Answers(c) THEN [cms EXCEPT ![c] = @ \ {drop.code}] ELSE cms
    /\ DropRest(IF c \in ctx THEN drop.left \ {c} ELSE {})
    /\ UNCHANGED <<database, redis, net, ctx, queue, work, lost, faults>>

\* Another error than 404 ends it too.
DropFails ==
    /\ ~MainFree /\ Fault
    /\ drop' = NoDrop
    /\ UNCHANGED <<database, cms, redis, net, ctx, queue, work, lost>>

-----------------------------------------------------------------------------
(***************************************************************************)
(* The cluster watchers.                                                   *)
(***************************************************************************)
\* The kubeconfig of a server is merged into the common one (its context replaces
\* one of the same name), and taken out of it.
Merged(c)       == ctx \cup {c}
AddConfig(c)    == ctx' = Merged(c)
RemoveConfig(c) == ctx' = ctx \ {c}

\* _handle_cluster_change.
WatchClusters ==
    /\ MainFree /\ events # <<>>
    /\ LET m == Head(events) IN
       IF m.type = "added" /\ m.cluster \in server
       THEN AddConfig(m.cluster) /\ Submit(SyncRequest(m.cluster))
       ELSE /\ IF m.type = "deleted" THEN RemoveConfig(m.cluster) ELSE UNCHANGED ctx
            /\ UNCHANGED <<queue, lost, faults>>
    /\ events' = Tail(events)
    /\ UNCHANGED <<database, cms, health, ghost, reconnects, net, work, drop>>

\* _handle_cluster_reconnect.
WatchReconnects ==
    /\ MainFree /\ reconnects # <<>>
    /\ reconnects' = Tail(reconnects)
    /\ Submit(SyncRequest(Head(reconnects)))
    /\ UNCHANGED <<database, cms, health, ghost, events, net, ctx, work, drop>>

-----------------------------------------------------------------------------
(***************************************************************************)
(* The worker.                                                             *)
(***************************************************************************)
\* A deploy goes to the clusters redis lists when the request is taken.
WorkerTake ==
    /\ work = Idle /\ queue # <<>>
    /\ LET q == Head(queue) IN
       work' = IF q.kind = "deploy"
               THEN [kind |-> "deploy", code |-> q.code, force |-> q.force,
                     left |-> Listed, failed |-> {}]
               ELSE [kind |-> "list", cluster |-> q.cluster]
    /\ queue' = Tail(queue)
    /\ UNCHANGED <<database, cms, redis, net, ctx, drop, lost, faults>>

\* _deploy_config_map_to_cluster: the cluster is healthy and takes the code;
\* code that exists is left alone, or with force deleted first.
DeployTo(c) ==
    /\ work.kind = "deploy" /\ c \in work.left
    /\ health[c] = "ok" /\ Answers(c)
    /\ IF work.code \in cms[c] /\ work.force
       THEN /\ cms' = [cms EXCEPT ![c] = @ \ {work.code}]
            /\ work' = [work EXCEPT !.force = FALSE]
       ELSE /\ cms' = [cms EXCEPT ![c] = @ \cup {work.code}]
            /\ work' = [work EXCEPT !.left = @ \ {c}]
    /\ UNCHANGED <<database, redis, net, ctx, queue, drop, lost, faults>>

\* Variant: a cluster that failed is tried again in the same request.
DeployToRetries(c) ==
    /\ work.kind = "deploy" /\ c \in work.left
    /\ IF health[c] = "ok" /\ Answers(c) THEN Fault ELSE UNCHANGED faults
    /\ work' = [work EXCEPT !.failed = @ \cup {c}]
    /\ UNCHANGED <<database, cms, redis, net, ctx, queue, drop, lost>>

\* It is not healthy, cannot be reached, has no context, or refuses.
DeployToFails(c) ==
    /\ work.kind = "deploy" /\ c \in work.left
    /\ IF health[c] = "ok" /\ Answers(c) THEN Fault ELSE UNCHANGED faults
    /\ work' = [work EXCEPT !.left = @ \ {c}, !.failed = @ \cup {c}]
    /\ UNCHANGED <<database, cms, redis, net, ctx, queue, drop, lost>>

\* Variant: failures are only logged.
DeployEndLogs ==
    /\ work.kind = "deploy" /\ work.left = {}
    /\ work' = Idle
    /\ UNCHANGED <<database, cms, redis, net, ctx, queue, drop, lost, faults>>

\* _handle_deploy_request: the failures are marked unhealthy, so that the agent
\* resynchronises; a record that has gone meanwhile comes back.
DeployEnd ==
    /\ work.kind = "deploy" /\ work.left = {}
    /\ health' = [c \in Cluster |-> IF c \in work.failed THEN "bad" ELSE health[c]]
    /\ ghost' = ghost \cup (work.failed \ Listed)
    /\ work' = Idle
    /\ UNCHANGED <<database, cms, events, reconnects, net, ctx, queue, drop, lost, faults>>

\* _sync_cluster_configmaps: what the cluster has; an error ends the sync.
SyncList ==
    /\ work.kind = "list"
    /\ IF Answers(work.cluster)
       THEN /\ work' = [kind |-> "clear", cluster |-> work.cluster, todo |-> cms[work.cluster]]
            /\ lost' = lost \ {work.cluster}
       ELSE work' = Idle /\ UNCHANGED lost
    /\ UNCHANGED <<database, cms, redis, net, ctx, queue, drop, faults>>

\* Each map is deleted; a cluster that cannot be reached is passed over.
SyncClear(k) ==
    /\ work.kind = "clear" /\ k \in work.todo
    /\ work.cluster \in ctx
    /\ cms' = IF net[work.cluster] THEN [cms EXCEPT ![work.cluster] = @ \ {k}] ELSE cms
    /\ work' = [work EXCEPT !.todo = @ \ {k}]
    /\ UNCHANGED <<database, redis, net, ctx, queue, drop, lost, faults>>

\* Then the chutes are selected.
SyncSelect ==
    /\ work.kind = "clear" /\ work.todo = {}
    /\ work' = [work EXCEPT !.kind = "fill", !.todo = CurrentCode]
    /\ UNCHANGED <<database, cms, redis, net, ctx, queue, drop, lost, faults>>

\* Each of them is deployed, whatever becomes of the others.
SyncFill(k) ==
    /\ work.kind = "fill" /\ k \in work.todo
    /\ cms' = IF health[work.cluster] = "ok" /\ Answers(work.cluster)
              THEN [cms EXCEPT ![work.cluster] = @ \cup {k}] ELSE cms
    /\ work' = [work EXCEPT !.todo = @ \ {k}]
    /\ UNCHANGED <<database, redis, net, ctx, queue, drop, lost, faults>>

SyncEnd ==
    /\ work.kind = "fill" /\ work.todo = {}
    /\ work' = Idle
    /\ UNCHANGED <<database, cms, redis, net, ctx, queue, drop, lost, faults>>

\* A call that fails although the cluster is there: the sync ends, or goes on
\* without that chute; the cluster is not marked unhealthy.
SyncFails ==
    /\ Fault
    /\ \/ work.kind \in {"list", "clear"} /\ work' = Idle
       \/ work.kind = "fill" /\ \E k \in work.todo : work' = [work EXCEPT !.todo = @ \ {k}]
    /\ lost' = lost \cup {work.cluster}
    /\ UNCHANGED <<database, cms, redis, net, ctx, queue, drop>>

\* The context has been removed under a sync: there is no client, it ends.
SyncNoClient ==
    /\ work.kind = "clear" /\ work.todo # {} /\ work.cluster \notin ctx
    /\ work' = Idle
    /\ UNCHANGED <<database, cms, redis, net, ctx, queue, drop, lost, faults>>

-----------------------------------------------------------------------------
(***************************************************************************)
(* The monitor service, the agents, the servers and crashes.               *)
(***************************************************************************)
Publish(type, c) ==
    /\ Len(events) < MaxQueue
    /\ events' = Append(events, [type |-> type, cluster |-> c])

PublishReconnect(c) ==
    /\ Len(reconnects) < MaxQueue
    /\ reconnects' = Append(reconnects, c)

\* track_cluster.
Register(c) ==
    /\ c \in server /\ net[c] /\ health[c] = "none"
    /\ health' = [health EXCEPT ![c] = "ok"]
    /\ Publish("added", c)
    /\ UNCHANGED <<database, cms, reconnects, net, ctx, queue, work, drop, lost, ghost, faults>>

\* set_cluster_resources.
Resync(c) ==
    /\ c \in server /\ net[c] /\ health[c] = "bad"
    /\ health' = [health EXCEPT ![c] = "ok"]
    /\ PublishReconnect(c)
    /\ UNCHANGED <<database, cms, events, net, ctx, queue, work, drop, lost, ghost, faults>>

\* clear_cluster: the agent unregistered, or the record was stale for an hour.
Unregister(c) ==
    /\ health[c] # "none" /\ Fault
    /\ health' = [health EXCEPT ![c] = "none"]
    /\ ghost' = ghost \ {c}
    /\ Publish("deleted", c)
    /\ UNCHANGED <<database, cms, reconnects, net, ctx, queue, work, drop, lost>>

\* The monitor's reconciler: no record without a server row.
ForgetCluster(c) ==
    /\ health[c] # "none" /\ c \notin server
    /\ health' = [health EXCEPT ![c] = "none"]
    /\ ghost' = ghost \ {c}
    /\ Publish("deleted", c)
    /\ UNCHANGED <<database, cms, reconnects, net, ctx, queue, work, drop, lost, faults>>

ServerRemoved(c) ==
    /\ c \in server /\ Change
    /\ server' = server \ {c}
    /\ health' = [health EXCEPT ![c] = "none"]
    /\ ghost' = ghost \ {c}
    /\ Publish("deleted", c)
    /\ UNCHANGED <<chutes, cms, reconnects, net, ctx, queue, work, drop, lost, faults>>

ServerAdded(c) ==
    /\ c \notin server /\ Change
    /\ server' = server \cup {c}
    /\ UNCHANGED <<chutes, cms, redis, net, ctx, queue, work, drop, lost, faults>>

\* An outage is noticed by the missing heartbeats before it is over.
NetDown(c) ==
    /\ net[c] /\ Fault
    /\ net' = [net EXCEPT ![c] = FALSE]
    /\ UNCHANGED <<database, cms, redis, ctx, queue, work, drop, lost>>

HeartbeatsMissed(c) ==
    /\ ~net[c] /\ health[c] = "ok"
    /\ health' = [health EXCEPT ![c] = "bad"]
    /\ UNCHANGED <<database, cms, events, reconnects, net, ctx, queue, work, drop, lost, ghost, faults>>

NetUp(c) ==
    /\ ~net[c] /\ health[c] # "ok"
    /\ net' = [net EXCEPT ![c] = TRUE]
    /\ UNCHANGED <<database, cms, redis, ctx, queue, work, drop, lost, faults>>

\* gepetto dies and starts again: contexts come from the database, requests and
\* messages are gone.
Crash ==
    /\ Fault
    /\ ctx' = server
    /\ events' = <<>> /\ reconnects' = <<>> /\ queue' = <<>>
    /\ work' = Idle /\ drop' = NoDrop
    /\ lost' = Cluster
    /\ ghost' = {}
    /\ UNCHANGED <<database, cms, health, net>>

-----------------------------------------------------------------------------
Worker ==
    \/ WorkerTake \/ DeployEnd \/ SyncList \/ SyncSelect \/ SyncEnd \/ SyncNoClient
    \/ \E c \in Cluster : DeployTo(c) \/ DeployToFails(c)
    \/ \E k \in Code : SyncClear(k) \/ SyncFill(k)

Monitor(c) == Register(c) \/ Resync(c) \/ ForgetCluster(c)
Outage(c) == HeartbeatsMissed(c) \/ NetUp(c)
Dropping == \E c \in Cluster : DropFrom(c)

Next ==
    \/ \E h \in Chute : ChuteCreated(h) \/ ChuteUpdated(h) \/ ChuteDeleted(h)
    \/ Dropping \/ DropFails
    \/ WatchClusters \/ WatchReconnects
    \/ Worker \/ SyncFails
    \/ \E c \in Cluster :
         \/ Monitor(c) \/ Unregister(c) \/ Outage(c) \/ NetDown(c)
         \/ ServerRemoved(c) \/ ServerAdded(c)
    \/ Crash

\* The threads go on, agents and the monitor run, outages end.
Fairness ==
    /\ WF_vars(Worker) /\ WF_vars(Dropping)
    /\ WF_vars(WatchClusters) /\ WF_vars(WatchReconnects)
    /\ \A c \in Cluster : WF_vars(Monitor(c)) /\ WF_vars(Outage(c))

Spec == Init /\ [][Next]_vars
FairSpec == Spec /\ Fairness

-----------------------------------------------------------------------------
(***************************************************************************)
(* Properties.                                                             *)
(***************************************************************************)
\* Every variable has its type; a deploy deals once with each cluster.
TypeOK ==
    /\ chutes \in [Chute -> 0 .. MaxVersion]
    /\ server \subseteq Cluster /\ ctx \subseteq Cluster
    /\ lost \subseteq Cluster /\ ghost \subseteq Cluster
    /\ cms \in [Cluster -> SUBSET Code]
    /\ health \in [Cluster -> {"none", "ok", "bad"}]
    /\ net \in [Cluster -> BOOLEAN]
    /\ Len(events) <= MaxQueue /\ Len(reconnects) <= MaxQueue /\ Len(queue) <= MaxQueue
    /\ drop.left \subseteq Cluster
    /\ work.kind \in {"idle", "deploy", "list", "clear", "fill"}
    /\ work.kind = "deploy" => work.left \cap work.failed = {}
    /\ faults \in 0 .. MaxFaults /\ changes \in 0 .. MaxChanges

Missing(c, k) == c \in server /\ k \in CurrentCode /\ k \notin cms[c]

\* The code of a chute reaches every cluster through outages, failed deploys,
\* clusters and chutes that come and go, unless a request or message was lost:
\* a failed deploy marks the cluster, the mark makes its agent resynchronise and
\* the reconnect copies all code ("CMs will reconcile on reconnect").
CodeArrives ==
    \A c \in Cluster, k \in Code : Missing(c, k) ~> (~Missing(c, k) \/ c \in lost \cup ghost)

\* The same with every loss.
CodeReconciles ==
    \A c \in Cluster, k \in Code : Missing(c, k) ~> ~Missing(c, k)
=============================================================================
