---------------------------- MODULE ResourceSync ----------------------------
(***************************************************************************)
(* How the redis cache of one cluster is kept: the agent's collect, watch  *)
(* and heartbeat loops (chutes_agent/monitor.py, collector.py, client.py), *)
(* the monitor service that receives them (api/cluster/router.py,          *)
(* cluster_monitor.py) and the store (chutes_common/redis.py).             *)
(*                                                                         *)
(* The monitor is one asyncio process on a synchronous redis client: its   *)
(* handlers do not interleave with one another, but the miner's processes  *)
(* read and write redis between any two of its commands.                   *)
(***************************************************************************)
EXTENDS Integers, FiniteSets

CONSTANTS
    Res,            \* kubernetes objects (names are used once)
    MaxVersion,     \* bound on the changes of one object
    Marks,          \* whether the miner marks the cluster unhealthy in this instance
    Removable,      \* whether the server is removed in this instance
    MaxFaults       \* bound on lost updates, failed calls and agent crashes

ASSUME SyncBoundsAssumption ==
    /\ MaxVersion \in Nat /\ MaxFaults \in Nat
    /\ Marks \in BOOLEAN /\ Removable \in BOOLEAN

VARIABLES
    ver,        \* changes of each object so far (its resource version)
    alive,      \* objects that exist
    cache,      \* version of each object in redis; 0: no entry
    health,     \* state of the health record ("none": no record)
    age,        \* of its last_heartbeat
    agent,      \* where the agent is
    snap,       \* the resources it collected, on their way to the monitor
    seen,       \* how far its watch has read
    mon,        \* "store": the monitor is between clearing and storing
    hb,         \* "read": the monitor has read the record for a heartbeat
    server,     \* the server row: "in", "leaving" (server_deleted under way), "out"
    faults      \* failures so far

vars == <<ver, alive, cache, health, age, agent, snap, seen, mon, hb, server, faults>>

cluster == <<ver, alive>>
record  == <<health, age>>

ClusterState == {"STARTING", "ACTIVE", "UNHEALTHY", "ERROR"}

Content == [r \in Res |-> IF r \in alive THEN ver[r] ELSE 0]
Nothing == [r \in Res |-> 0]

\* ClusterStatus.is_healthy
Healthy == health \in {"STARTING", "ACTIVE"}

\* get_all_cluster_names: the clusters with a health record.
Registered == health # "none"

\* _server_exists: the row is there until server_deleted has committed.
ServerExists == server # "out"

\* update_cluster_status, with the time of the call.
SetStatus(state) == health' = state /\ age' = "fresh"

\* clear_cluster: the resources, then the health record.
ClearCluster == health' = "none" /\ cache' = Nothing /\ UNCHANGED age


MonitorIdle == mon = "idle" /\ hb = "idle"
Fault == faults < MaxFaults /\ faults' = faults + 1

-----------------------------------------------------------------------------
Init ==
    /\ ver = Nothing /\ alive = {} /\ cache = Nothing
    /\ health = "none" /\ age = "fresh"
    /\ agent = "off" /\ snap = Nothing /\ seen = Nothing
    /\ mon = "idle" /\ hb = "idle" /\ server = "in" /\ faults = 0

-----------------------------------------------------------------------------
(* The objects of the cluster.                                               *)

Create(r) ==
    /\ ver[r] = 0 /\ MaxVersion > 0
    /\ ver' = [ver EXCEPT ![r] = 1] /\ alive' = alive \cup {r}
    /\ UNCHANGED <<cache, record, agent, snap, seen, mon, hb, server, faults>>

Change(r) ==
    /\ r \in alive /\ ver[r] < MaxVersion
    /\ ver' = [ver EXCEPT ![r] = @ + 1]
    /\ alive' \in {alive, alive \ {r}}
    /\ UNCHANGED <<cache, record, agent, snap, seen, mon, hb, server, faults>>

-----------------------------------------------------------------------------
(* The agent sends all its resources.                                        *)

\* auto_start of a pod with a persisted URL.
AgentStarts ==
    /\ agent = "off" /\ ServerExists
    /\ agent' = "collect"
    /\ UNCHANGED <<cluster, cache, record, snap, seen, mon, hb, server, faults>>

AgentDies ==
    /\ agent # "off" /\ mon = "idle" /\ Fault
    /\ agent' = "off"
    /\ UNCHANGED <<cluster, cache, record, snap, seen, mon, hb, server>>

\* collect_all_resources: the agent was told to start (register) or starts or
\* restarts by itself (collect).
Collect ==
    /\ agent \in {"collect", "register"}
    /\ snap' = Content
    /\ agent' = IF agent = "register" THEN "post" ELSE "put"
    /\ UNCHANGED <<cluster, cache, record, seen, mon, hb, server, faults>>

\* What the monitor does with resources it accepts: the record says STARTING, the
\* old resources are cleared ...
Replace ==
    /\ SetStatus("STARTING")
    /\ cache' = Nothing
    /\ mon' = "store"
    /\ UNCHANGED <<cluster, agent, snap, seen, hb, server, faults>>

\* set_cluster_resources, for a cluster that is registered ...
PutClear ==
    /\ agent = "put" /\ MonitorIdle /\ ServerExists /\ Registered
    /\ Replace

\* ... or 410, and the agent registers what it has collected.
PutGone ==
    /\ agent = "put" /\ MonitorIdle /\ ServerExists /\ ~Registered
    /\ agent' = "repost"
    /\ UNCHANGED <<cluster, cache, record, snap, seen, mon, hb, server, faults>>

\* register_cluster: only a cluster that is not registered ...
Register ==
    /\ agent \in {"post", "repost"} /\ MonitorIdle /\ ServerExists /\ ~Registered
    /\ Replace

\* ... or 409.  An agent that was told to start removes the cluster and registers
\* again; a second conflict is a failed attempt like any other.
RegisterConflict ==
    /\ agent \in {"post", "repost"} /\ MonitorIdle /\ ServerExists /\ Registered
    /\ agent' = IF agent = "post" THEN "remove" ELSE "collect"
    /\ UNCHANGED <<cluster, cache, record, snap, seen, mon, hb, server, faults>>

\* unregister_cluster in the monitor.
Unregister == MonitorIdle /\ ClearCluster

\* remove_cluster.
Remove ==
    /\ agent = "remove" /\ Unregister
    /\ agent' = "repost"
    /\ UNCHANGED <<cluster, snap, seen, mon, hb, server, faults>>

\* ... and the new ones stored.  The agent goes on to _start_monitoring_tasks.
PutStore ==
    /\ mon = "store"
    /\ cache' = snap
    /\ mon' = "idle" /\ agent' = "list"
    /\ UNCHANGED <<cluster, record, snap, seen, hb, server, faults>>

\* The call fails and is retried with resources collected anew.
PutFails ==
    /\ agent \in {"put", "post", "repost", "remove"} /\ mon = "idle" /\ Fault
    /\ agent' = "collect"
    /\ UNCHANGED <<cluster, cache, record, snap, seen, mon, hb, server>>

\* 404: the server is not in the inventory.  The agent ends up stopped.
PutRefused ==
    /\ agent \in {"put", "post", "repost"} /\ mon = "idle" /\ ~ServerExists
    /\ agent' = "off"
    /\ UNCHANGED <<cluster, cache, record, snap, seen, mon, hb, server, faults>>

-----------------------------------------------------------------------------
(* The agent watches.                                                        *)

\* _get_initial_resource_version: the list is only asked for its version.
WatchList ==
    /\ agent = "list"
    /\ seen' = ver /\ agent' = "watch"
    /\ UNCHANGED <<cluster, cache, record, snap, mon, hb, server, faults>>

\* update_resource, which does not ask whether the cluster is registered.  (DELETED
\* is sent once the object is gone.)
Update(r) ==
    /\ MonitorIdle
    /\ cache' = [cache EXCEPT ![r] = Content[r]]

\* The stream of the watch has an event that has not been handled.
Unread(r) == agent = "watch" /\ seen[r] # ver[r]

\* handle_resource_event.
WatchEvent(r) ==
    /\ Unread(r)
    /\ Update(r)
    /\ seen' = [seen EXCEPT ![r] = ver[r]]
    /\ UNCHANGED <<cluster, record, agent, snap, mon, hb, server, faults>>

\* The update cannot be sent: logged, and the stream goes on.
WatchEventLost(r) ==
    /\ Unread(r) /\ Fault
    /\ seen' = [seen EXCEPT ![r] = ver[r]]
    /\ UNCHANGED <<cluster, cache, record, agent, snap, mon, hb, server>>

\* 410: the version is too old, and a new one is asked for.
WatchExpired ==
    /\ agent = "watch" /\ Fault
    /\ agent' = "list"
    /\ UNCHANGED <<cluster, cache, record, snap, seen, mon, hb, server>>

-----------------------------------------------------------------------------
(* Heartbeats.                                                               *)

\* Variant: a heartbeat is recorded whatever the record says.
HeartbeatReadAny ==
    /\ agent \in {"list", "watch"} /\ MonitorIdle
    /\ SetStatus("ACTIVE")
    /\ UNCHANGED <<cluster, cache, agent, snap, seen, mon, hb, server, faults>>

\* handle_heartbeat reads the record ...
HeartbeatRead ==
    /\ agent \in {"list", "watch"} /\ MonitorIdle /\ Healthy
    /\ hb' = "read"
    /\ UNCHANGED <<cluster, cache, record, agent, snap, seen, mon, server, faults>>

\* ... and answers 404 or 409 if it is not healthy: the agent's tasks are stopped
\* and everything is sent again.
HeartbeatRejected ==
    /\ agent \in {"list", "watch"} /\ MonitorIdle /\ ~Healthy
    /\ agent' = "collect"
    /\ UNCHANGED <<cluster, cache, record, snap, seen, mon, hb, server, faults>>

\* update_cluster_status with what the heartbeat says.
HeartbeatWrite ==
    /\ hb = "read"
    /\ hb' = "idle"
    /\ SetStatus("ACTIVE")
    /\ UNCHANGED <<cluster, cache, agent, snap, seen, mon, server, faults>>

\* Two heartbeat intervals, then an hour, go by.
TimePasses ==
    /\ Registered /\ age # "old"
    /\ age' = IF age = "fresh" THEN "late" ELSE "old"
    /\ UNCHANGED <<cluster, cache, health, agent, snap, seen, mon, hb, server, faults>>

-----------------------------------------------------------------------------
(* The background loops of the monitor, and the miner.                       *)

\* Variant: a cluster that has not had its first heartbeat is not looked at.
CheckHealthActive ==
    /\ MonitorIdle /\ health = "ACTIVE" /\ age # "fresh"
    /\ health' = "UNHEALTHY"
    /\ UNCHANGED <<cluster, cache, age, agent, snap, seen, mon, hb, server, faults>>

\* HealthChecker._check_all_clusters.
CheckHealth ==
    /\ MonitorIdle /\ Healthy /\ age # "fresh"
    /\ health' = "UNHEALTHY"
    /\ UNCHANGED <<cluster, cache, age, agent, snap, seen, mon, hb, server, faults>>

\* Variant: the record is given a state that ClusterState does not have.
CleanupStaleOffline ==
    /\ MonitorIdle /\ health \notin {"none", "ERROR"} /\ age = "old"
    /\ health' = "OFFLINE"
    /\ UNCHANGED <<cluster, cache, age, agent, snap, seen, mon, hb, server, faults>>

\* HealthChecker._cleanup_stale_clusters.
CleanupStale ==
    /\ MonitorIdle /\ health \notin {"none", "ERROR"} /\ age = "old"
    /\ health' = "ERROR"
    /\ UNCHANGED <<cluster, cache, age, agent, snap, seen, mon, hb, server, faults>>

\* Variant: a cluster marked ERROR is given up.
RestoreMonitoringNotError ==
    /\ server = "in" /\ MonitorIdle /\ health \in {"none", "UNHEALTHY"} /\ agent = "off"
    /\ agent' = "register"
    /\ UNCHANGED <<cluster, cache, record, snap, seen, mon, hb, server, faults>>

\* MonitoringReconciler._restore_unhealthy_clusters: /start, which an agent that
\* is running answers with 409.
RestoreMonitoring ==
    /\ server = "in" /\ MonitorIdle /\ ~Healthy /\ agent = "off"
    /\ agent' = "register"
    /\ UNCHANGED <<cluster, cache, record, snap, seen, mon, hb, server, faults>>

\* Variant: the resources are cleared and the record is kept.
ReconcileCacheKeepsRecord ==
    /\ ~ServerExists /\ MonitorIdle /\ Registered
    /\ cache' = Nothing
    /\ UNCHANGED <<cluster, record, agent, snap, seen, mon, hb, server, faults>>

\* MonitoringReconciler._reconcile_cache_with_db: goes by the health records.
ReconcileCacheWithDb ==
    /\ ~ServerExists /\ MonitorIdle /\ Registered
    /\ ClearCluster
    /\ UNCHANGED <<cluster, agent, snap, seen, mon, hb, server, faults>>

\* mark_cluster_unhealthy, called in the miner when a cached job is stale.
MarkUnhealthy ==
    /\ Marks /\ Registered
    /\ \E r \in alive : cache[r] \notin {0, ver[r]}
    /\ health' = "UNHEALTHY"
    /\ UNCHANGED <<cluster, cache, age, agent, snap, seen, mon, hb, server, faults>>

\* server_deleted: the agent is told to stop, and unregisters in the monitor ...
ServerStop ==
    /\ Removable /\ server = "in" /\ Unregister
    /\ server' = "leaving" /\ agent' = "off"
    /\ UNCHANGED <<cluster, snap, seen, mon, hb, faults>>

\* ... or cannot be reached, and the miner clears the cache itself, whatever the
\* monitor is doing ...
ServerClear ==
    /\ Removable /\ server = "in" /\ Fault
    /\ server' = "leaving"
    /\ ClearCluster
    /\ UNCHANGED <<cluster, agent, snap, seen, mon, hb>>

\* ... and then the row is deleted.
ServerDrop ==
    /\ server = "leaving"
    /\ server' = "out"
    /\ UNCHANGED <<cluster, cache, record, agent, snap, seen, mon, hb, faults>>

-----------------------------------------------------------------------------
Objects   == \E r \in Res : Create(r) \/ Change(r)
Sending   == \/ Collect \/ PutClear \/ PutStore \/ PutGone \/ PutRefused
             \/ Register \/ RegisterConflict \/ Remove
Watching  == WatchList \/ \E r \in Res : WatchEvent(r)
Beating   == HeartbeatRead \/ HeartbeatRejected
Failing   == AgentDies \/ PutFails \/ WatchExpired \/ \E r \in Res : WatchEventLost(r)
Miner     == MarkUnhealthy \/ ServerStop \/ ServerClear \/ ServerDrop

Next ==
    \/ Objects \/ Sending \/ Watching \/ Beating \/ HeartbeatWrite \/ Failing \/ Miner
    \/ AgentStarts \/ TimePasses
    \/ CheckHealth \/ CleanupStale \/ RestoreMonitoring \/ ReconcileCacheWithDb

Spec == Init /\ [][Next]_vars

\* The agent's coroutines and the monitor's handlers and loops run; time passes.
\* A heartbeat or a check may find the monitor busy now and then (SF).  A pod that
\* died without a URL is not restarted by anybody: AgentStarts is not fair.
Fairness ==
    /\ WF_vars(Sending) /\ WF_vars(WatchList) /\ WF_vars(HeartbeatWrite)
    /\ \A r \in Res : SF_vars(WatchEvent(r))
    /\ SF_vars(Beating) /\ WF_vars(TimePasses)
    /\ SF_vars(CheckHealth) /\ SF_vars(RestoreMonitoring) /\ SF_vars(ReconcileCacheWithDb)
    /\ WF_vars(ServerDrop)

FairSpec == Spec /\ Fairness

-----------------------------------------------------------------------------
\* Type correctness; in particular whatever is written to a health record is a
\* ClusterState that get_cluster_status can read back.
TypeOK ==
    /\ ver \in [Res -> 0 .. MaxVersion] /\ alive \subseteq Res
    /\ cache \in [Res -> 0 .. MaxVersion]
    /\ health \in ClusterState \cup {"none"} /\ age \in {"fresh", "late", "old"}
    /\ agent \in {"off", "collect", "register", "post", "repost", "remove", "put", "list", "watch"}
    /\ snap \in [Res -> 0 .. MaxVersion] /\ seen \in [Res -> 0 .. MaxVersion]
    /\ mon \in {"idle", "store"} /\ hb \in {"idle", "read"}
    /\ server \in {"in", "leaving", "out"} /\ faults \in 0 .. MaxFaults

\* A cluster that was declared unhealthy, offline or unknown is trusted again only
\* once the agent has sent all its resources: "Mark a cluster as unhealthy to
\* trigger a resync from the agent" (redis.py, mark_cluster_unhealthy).  The one
\* exception is a heartbeat that had read a healthy record before the verdict.
OnlyResyncRevives == [][~Healthy /\ Healthy' => mon' = "store" \/ hb = "read"]_vars

\* An agent that is gone is noticed: its cluster does not stay healthy.
DeadAgentNoticed == (agent = "off" /\ Healthy) ~> (agent # "off" \/ ~Healthy)

\* A cluster in the inventory that is unhealthy, offline or unregistered becomes
\* healthy again, by a resync the rejected heartbeat causes or by the reconciler.
ClusterRestored == (server = "in" /\ ~Healthy) ~> (server # "in" \/ Healthy)

\* Once the objects stop changing, the cache comes to agree with the cluster: a
\* restart is there "to ensure resources are synced properly" (monitor.py).
CacheConverges == <>[](cache = Content)

\* A server that is gone from the inventory ends up without a health record, for
\* good: neither a heartbeat that was being handled nor a resync that was under way
\* when the record was cleared brings the cluster back.
RemovedServerForgotten == (server = "out") ~> [](health = "none")
=============================================================================
