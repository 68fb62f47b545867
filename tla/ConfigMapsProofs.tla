-------------------------- MODULE ConfigMapsProofs --------------------------
(***************************************************************************)
(* The types of ConfigMaps, for every number of clusters, chutes,          *)
(* versions, changes and failures and for channels of every length.  What  *)
(* the type invariant says of the channels and of the worker has to be     *)
(* extended by what they hold: every request, message and piece of work is *)
(* well formed whenever it was made, and what is taken from a queue is     *)
(* what somebody put there.                                                *)
(***************************************************************************)
EXTENDS ConfigMaps, TLAPS

Message == [type : {"added", "deleted"}, cluster : Cluster]
Request == [kind : {"deploy"}, code : Code, force : BOOLEAN]
           \cup [kind : {"sync"}, cluster : Cluster]

Deploying == [kind : {"deploy"}, code : Code, force : BOOLEAN,
              left : SUBSET Cluster, failed : SUBSET Cluster]
Listing   == [kind : {"list"}, cluster : Cluster]
Copying   == [kind : {"clear", "fill"}, cluster : Cluster, todo : SUBSET Code]

\* The stores and what is known of them.
StoresTyped ==
    /\ chutes \in [Chute -> 0 .. MaxVersion]
    /\ server \subseteq Cluster /\ ctx \subseteq Cluster
    /\ lost \subseteq Cluster /\ ghost \subseteq Cluster
    /\ cms \in [Cluster -> SUBSET Code]
    /\ health \in [Cluster -> {"none", "ok", "bad"}]
    /\ net \in [Cluster -> BOOLEAN]
    /\ faults \in 0 .. MaxFaults /\ changes \in 0 .. MaxChanges

\* What waits in a channel or a queue, within its bound.
Bounded(q, S) == q \in Seq(S) /\ Len(q) <= MaxQueue
ChannelsTyped ==
    Bounded(events, Message) /\ Bounded(reconnects, Cluster) /\ Bounded(queue, Request)

\* What the worker and delete_code are at; a deploy deals once with each cluster.
WorkTyped ==
    /\ work \in {Idle} \cup Deploying \cup Listing \cup Copying
    /\ work.kind = "deploy" => work.left \cap work.failed = {}
DropTyped == drop \in {NoDrop} \cup [code : Code, left : SUBSET Cluster]

IInv == StoresTyped /\ ChannelsTyped /\ WorkTyped /\ DropTyped

USE DEF vars, database, redis

-----------------------------------------------------------------------------
(* What the steps share.                                                     *)

\* A queue that is emptied, served or filled within its bound.
LEMMA QueueEmpty == \A S : Bounded(<<>>, S)
  BY ConfigMapsAssumption DEF Bounded

LEMMA QueueServed ==
    ASSUME NEW S, NEW q, Bounded(q, S), q # <<>>
    PROVE  Head(q) \in S /\ Bounded(Tail(q), S)
  BY ConfigMapsAssumption DEF Bounded

LEMMA QueueFilled ==
    ASSUME NEW S, NEW q, Bounded(q, S), Len(q) < MaxQueue, NEW x \in S
    PROVE  Bounded(Append(q, x), S)
  BY ConfigMapsAssumption DEF Bounded

\* Failures and changes stay within their bounds.
LEMMA FaultCounted ==
    ASSUME StoresTyped, Fault PROVE faults' \in 0 .. MaxFaults
  BY ConfigMapsAssumption DEF StoresTyped, Fault

LEMMA ChangeCounted ==
    ASSUME StoresTyped, Change PROVE changes' \in 0 .. MaxChanges
  BY ConfigMapsAssumption DEF StoresTyped, Change

\* A request is handed to the worker, or dropped because it does not start.
LEMMA Submitted ==
    ASSUME StoresTyped, ChannelsTyped, NEW r \in Request, Submit(r)
    PROVE  /\ Bounded(queue', Request)
           /\ lost' \subseteq Cluster /\ faults' \in 0 .. MaxFaults
  <1>1. CASE Len(queue) < MaxQueue /\ queue' = Append(queue, r) /\ UNCHANGED <<lost, faults>>
      BY <1>1, QueueFilled DEF ChannelsTyped, StoresTyped
  <1>2. CASE NotRunning /\ UNCHANGED queue
      BY <1>2, FaultCounted DEF NotRunning, ChannelsTyped
  <1> QED
      BY <1>1, <1>2 DEF Submit

LEMMA CodeRequested ==
    ASSUME StoresTyped, ChannelsTyped, NEW k \in Code, NEW f \in BOOLEAN, DeployCode(k, f)
    PROVE  /\ Bounded(queue', Request)
           /\ lost' \subseteq Cluster /\ faults' \in 0 .. MaxFaults
  <1>1. DeployRequest(k, f) \in Request
      BY DEF DeployRequest, Request
  <1> QED
      BY <1>1, Submitted DEF DeployCode

LEMMA SyncRequested ==
    ASSUME StoresTyped, ChannelsTyped, NEW c \in Cluster, Submit(SyncRequest(c))
    PROVE  /\ Bounded(queue', Request)
           /\ lost' \subseteq Cluster /\ faults' \in 0 .. MaxFaults
  <1>1. SyncRequest(c) \in Request
      BY DEF SyncRequest, Request
  <1> QED
      BY <1>1, Submitted

\* A message is published.
LEMMA Published ==
    ASSUME ChannelsTyped, NEW c \in Cluster, NEW type \in {"added", "deleted"},
           Publish(type, c), UNCHANGED <<reconnects, queue>>
    PROVE  ChannelsTyped'
  <1>1. [type |-> type, cluster |-> c] \in Message
      BY DEF Message
  <1> QED
      BY <1>1, QueueFilled DEF Publish, ChannelsTyped

\* The code of the chutes is code.
LEMMA CurrentIsCode == CurrentCode \subseteq Code
  BY DEF CurrentCode

LEMMA InitInv == Init => IInv
  <1> SUFFICES ASSUME Init PROVE IInv
      OBVIOUS
  <1>1. StoresTyped
      BY ConfigMapsAssumption DEF Init, StoresTyped
  <1>2. ChannelsTyped
      BY QueueEmpty DEF Init, ChannelsTyped
  <1>3. WorkTyped /\ DropTyped
      BY DEF Init, WorkTyped, DropTyped, Idle
  <1> QED
      BY <1>1, <1>2, <1>3 DEF IInv

-----------------------------------------------------------------------------
(* The handlers, delete_code and the watchers.                               *)

LEMMA HandlersInv ==
    ASSUME IInv, NEW h \in Chute, ChuteCreated(h) \/ ChuteUpdated(h) \/ ChuteDeleted(h)
    PROVE  IInv'
  <1> USE DEF IInv
  <1>1. CASE ChuteCreated(h) \/ ChuteUpdated(h)
    <2>1. PICK v \in 1 .. MaxVersion, f \in BOOLEAN :
              chutes' = [chutes EXCEPT ![h] = v] /\ DeployCode(<<h, v>>, f)
        BY <1>1 DEF ChuteCreated, ChuteUpdated
    <2>2. <<h, v>> \in Code
        BY DEF Code
    <2>3. Bounded(queue', Request) /\ lost' \subseteq Cluster /\ faults' \in 0 .. MaxFaults
        BY <2>1, <2>2, CodeRequested
    <2>4. chutes' \in [Chute -> 0 .. MaxVersion]
        BY <2>1, ConfigMapsAssumption DEF StoresTyped
    <2>5. Change /\ UNCHANGED <<server, cms, redis, net, ctx, work, drop>>
        BY <1>1 DEF ChuteCreated, ChuteUpdated
    <2>6. StoresTyped'
        BY <2>3, <2>4, <2>5, ChangeCounted DEF StoresTyped, Code
    <2>7. ChannelsTyped' /\ WorkTyped' /\ DropTyped'
        BY <2>3, <2>5 DEF ChannelsTyped, WorkTyped, DropTyped
    <2> QED
        BY <2>6, <2>7
  <1>2. CASE ChuteDeleted(h)
    <2>1. PICK v \in 1 .. MaxVersion :
              /\ chutes' = [chutes EXCEPT ![h] = IF @ = v THEN 0 ELSE @]
              /\ drop' = IF Listed = {} THEN NoDrop ELSE [code |-> <<h, v>>, left |-> Listed]
        BY <1>2 DEF ChuteDeleted
    <2>2. Change /\ UNCHANGED <<server, cms, redis, net, ctx, queue, work, lost, faults>>
        BY <1>2 DEF ChuteDeleted
    <2>3. chutes' \in [Chute -> 0 .. MaxVersion]
        BY <2>1, ConfigMapsAssumption DEF StoresTyped
    <2>4. StoresTyped'
        BY <2>2, <2>3, ChangeCounted DEF StoresTyped
    <2>5. DropTyped'
        BY <2>1 DEF DropTyped, Code, Listed
    <2>6. ChannelsTyped' /\ WorkTyped'
        BY <2>2 DEF ChannelsTyped, WorkTyped
    <2> QED
        BY <2>4, <2>5, <2>6
  <1> QED
      BY <1>1, <1>2

LEMMA DroppingInv ==
    ASSUME IInv, Dropping \/ DropFails
    PROVE  IInv'
  <1> USE DEF IInv
  <1>1. ASSUME NEW c \in Cluster, DropFrom(c) PROVE IInv'
    <2>1. drop \in [code : Code, left : SUBSET Cluster]
        BY <1>1 DEF DropFrom, DropTyped, NoDrop
    <2>2. DropTyped'
        BY <1>1, <2>1 DEF DropFrom, DropRest, DropTyped
    <2>3. StoresTyped'
        BY <1>1 DEF DropFrom, StoresTyped
    <2>4. ChannelsTyped' /\ WorkTyped'
        BY <1>1 DEF DropFrom, ChannelsTyped, WorkTyped
    <2> QED
        BY <2>2, <2>3, <2>4
  <1>2. CASE DropFails
    <2>1. StoresTyped'
        BY <1>2, FaultCounted DEF DropFails, StoresTyped
    <2>2. ChannelsTyped' /\ WorkTyped' /\ DropTyped'
        BY <1>2 DEF DropFails, ChannelsTyped, WorkTyped, DropTyped
    <2> QED
        BY <2>1, <2>2
  <1> QED
      BY <1>1, <1>2 DEF Dropping

LEMMA WatchersInv ==
    ASSUME IInv, WatchClusters \/ WatchReconnects
    PROVE  IInv'
  <1> USE DEF IInv
  <1>1. CASE WatchClusters
    <2> DEFINE m == Head(events)
    <2>1. m \in Message /\ Bounded(events', Message)
        BY <1>1, QueueServed DEF WatchClusters, ChannelsTyped
    <2>2. UNCHANGED <<database, cms, health, ghost, reconnects, net, work, drop>>
        BY <1>1 DEF WatchClusters
    <2>3. /\ ctx' \subseteq Cluster
          /\ Bounded(queue', Request) /\ lost' \subseteq Cluster /\ faults' \in 0 .. MaxFaults
      <3>1. m.cluster \in Cluster
          BY <2>1 DEF Message
      <3>2. CASE AddConfig(m.cluster) /\ Submit(SyncRequest(m.cluster))
          BY <3>1, <3>2, SyncRequested DEF AddConfig, Merged, StoresTyped
      <3>3. CASE /\ RemoveConfig(m.cluster) \/ UNCHANGED ctx
                 /\ UNCHANGED <<queue, lost, faults>>
          BY <3>3 DEF RemoveConfig, StoresTyped, ChannelsTyped
      <3> QED
          BY <1>1, <3>2, <3>3 DEF WatchClusters
    <2>4. StoresTyped'
        BY <2>2, <2>3 DEF StoresTyped
    <2>5. ChannelsTyped' /\ WorkTyped' /\ DropTyped'
        BY <2>1, <2>2, <2>3 DEF ChannelsTyped, WorkTyped, DropTyped
    <2> QED
        BY <2>4, <2>5
  <1>2. CASE WatchReconnects
    <2>1. Head(reconnects) \in Cluster /\ Bounded(reconnects', Cluster)
        BY <1>2, QueueServed DEF WatchReconnects, ChannelsTyped
    <2>2. Bounded(queue', Request) /\ lost' \subseteq Cluster /\ faults' \in 0 .. MaxFaults
        BY <1>2, <2>1, SyncRequested DEF WatchReconnects
    <2>3. StoresTyped'
        BY <1>2, <2>2 DEF WatchReconnects, StoresTyped
    <2>4. ChannelsTyped' /\ WorkTyped' /\ DropTyped'
        BY <1>2, <2>1, <2>2 DEF WatchReconnects, ChannelsTyped, WorkTyped, DropTyped
    <2> QED
        BY <2>3, <2>4
  <1> QED
      BY <1>1, <1>2

-----------------------------------------------------------------------------
(* The worker.                                                               *)

\* By its kind, what the worker is at.
LEMMA WorkKinds ==
    ASSUME WorkTyped
    PROVE  /\ work.kind = "deploy" => work \in Deploying
           /\ work.kind = "list" => work \in Listing
           /\ work.kind \in {"clear", "fill"} => work \in Copying
  BY DEF WorkTyped, Idle, Deploying, Listing, Copying

\* A request is taken from the queue.
LEMMA TakeInv == ASSUME IInv, WorkerTake PROVE IInv'
  <1> USE DEF IInv
  <1> DEFINE q == Head(queue)
  <1>1. q \in Request /\ Bounded(queue', Request)
      BY QueueServed DEF WorkerTake, ChannelsTyped
  <1>2. WorkTyped'
    <2>1. CASE q \in [kind : {"deploy"}, code : Code, force : BOOLEAN]
      <3>1. work' = [kind |-> "deploy", code |-> q.code, force |-> q.force,
                     left |-> Listed, failed |-> {}]
          BY <2>1 DEF WorkerTake
      <3>2. Listed \in SUBSET Cluster
          BY DEF Listed
      <3> QED
          BY <2>1, <3>1, <3>2 DEF WorkTyped, Deploying
    <2>2. CASE q \in [kind : {"sync"}, cluster : Cluster]
      <3>1. work' = [kind |-> "list", cluster |-> q.cluster]
          BY <2>2 DEF WorkerTake
      <3> QED
          BY <2>2, <3>1 DEF WorkTyped, Listing
    <2> QED
        BY <1>1, <2>1, <2>2 DEF Request
  <1>3. StoresTyped' /\ DropTyped'
      BY DEF WorkerTake, StoresTyped, DropTyped
  <1>4. ChannelsTyped'
      BY <1>1 DEF WorkerTake, ChannelsTyped
  <1> QED
      BY <1>2, <1>3, <1>4

\* A deploy.
LEMMA DeployInv ==
    ASSUME IInv, DeployEnd \/ \E c \in Cluster : DeployTo(c) \/ DeployToFails(c)
    PROVE  IInv'
  <1> USE DEF IInv
  <1>1. work \in Deploying /\ work.left \cap work.failed = {} /\ work.kind = "deploy"
      BY WorkKinds DEF DeployEnd, DeployTo, DeployToFails, WorkTyped
  <1>2. ChannelsTyped' /\ DropTyped'
      BY DEF DeployEnd, DeployTo, DeployToFails, ChannelsTyped, DropTyped
  <1>3. ASSUME NEW c \in Cluster, DeployTo(c) PROVE StoresTyped' /\ WorkTyped'
    <2>1. cms' \in [Cluster -> SUBSET Code]
        BY <1>1, <1>3 DEF DeployTo, StoresTyped, Deploying
    <2>2. StoresTyped'
        BY <1>3, <2>1 DEF DeployTo, StoresTyped
    <2>3. work' \in Deploying /\ work'.left \subseteq work.left /\ work'.failed = work.failed
        BY <1>1, <1>3 DEF DeployTo, Deploying
    <2> QED
        BY <1>1, <2>2, <2>3 DEF WorkTyped
  <1>4. ASSUME NEW c \in Cluster, DeployToFails(c) PROVE StoresTyped' /\ WorkTyped'
    <2>1. faults' \in 0 .. MaxFaults
        BY <1>4, FaultCounted DEF DeployToFails, StoresTyped
    <2>2. StoresTyped'
        BY <1>4, <2>1 DEF DeployToFails, StoresTyped
    <2>3. /\ work' \in Deploying
          /\ work'.left = work.left \ {c} /\ work'.failed = work.failed \cup {c}
        BY <1>1, <1>4 DEF DeployToFails, Deploying
    <2> QED
        BY <1>1, <2>2, <2>3 DEF WorkTyped
  <1>5. CASE DeployEnd
    <2>1. health' \in [Cluster -> {"none", "ok", "bad"}] /\ ghost' \subseteq Cluster
        BY <1>1, <1>5 DEF DeployEnd, StoresTyped, Deploying
    <2>2. StoresTyped'
        BY <1>5, <2>1 DEF DeployEnd, StoresTyped
    <2>3. WorkTyped'
        BY <1>5 DEF DeployEnd, WorkTyped, Idle
    <2> QED
        BY <1>2, <2>2, <2>3
  <1> QED
      BY <1>2, <1>3, <1>4, <1>5

\* A sync.
LEMMA SyncInv ==
    ASSUME IInv,
           \/ SyncList \/ SyncSelect \/ SyncEnd \/ SyncNoClient \/ SyncFails
           \/ \E k \in Code : SyncClear(k) \/ SyncFill(k)
    PROVE  IInv'
  <1> USE DEF IInv
  <1>1. ChannelsTyped' /\ DropTyped'
      BY DEF SyncList, SyncSelect, SyncEnd, SyncNoClient, SyncFails, SyncClear, SyncFill,
             ChannelsTyped, DropTyped
  <1>2. CASE SyncList
    <2>1. work \in Listing
        BY <1>2, WorkKinds DEF SyncList
    <2>2. WorkTyped'
        BY <1>2, <2>1 DEF SyncList, WorkTyped, Idle, Listing, Copying, StoresTyped
    <2>3. StoresTyped'
        BY <1>2 DEF SyncList, StoresTyped
    <2> QED
        BY <1>1, <2>2, <2>3
  <1>3. CASE SyncEnd \/ SyncNoClient
    <2>1. WorkTyped'
        BY <1>3 DEF SyncEnd, SyncNoClient, WorkTyped, Idle
    <2>2. StoresTyped'
        BY <1>3 DEF SyncEnd, SyncNoClient, StoresTyped
    <2> QED
        BY <1>1, <2>1, <2>2
  <1>4. CASE SyncSelect
    <2>1. work \in Copying /\ work' = [work EXCEPT !.kind = "fill", !.todo = CurrentCode]
        BY <1>4, WorkKinds DEF SyncSelect
    <2>2. WorkTyped'
        BY <2>1, CurrentIsCode DEF WorkTyped, Copying
    <2>3. StoresTyped'
        BY <1>4 DEF SyncSelect, StoresTyped
    <2> QED
        BY <1>1, <2>2, <2>3
  <1>5. ASSUME NEW k \in Code, SyncClear(k) \/ SyncFill(k) PROVE IInv'
    <2>1. work \in Copying /\ work' = [work EXCEPT !.todo = @ \ {k}]
        BY <1>5, WorkKinds DEF SyncClear, SyncFill
    <2>2. WorkTyped'
        BY <2>1 DEF WorkTyped, Copying
    <2>3. cms' \in [Cluster -> SUBSET Code]
        BY <1>5, <2>1 DEF SyncClear, SyncFill, StoresTyped, Copying
    <2>4. StoresTyped'
        BY <1>5, <2>3 DEF SyncClear, SyncFill, StoresTyped
    <2> QED
        BY <1>1, <2>2, <2>4
  <1>6. CASE SyncFails
    <2>1. work \in Listing \cup Copying
        BY <1>6, WorkKinds DEF SyncFails
    <2>2. WorkTyped'
      <3>1. CASE work' = Idle
          BY <3>1 DEF WorkTyped, Idle
      <3>2. CASE work.kind = "fill" /\ \E k \in work.todo : work' = [work EXCEPT !.todo = @ \ {k}]
          BY <2>1, <3>2 DEF WorkTyped, Copying, Listing
      <3> QED
          BY <1>6, <3>1, <3>2 DEF SyncFails
    <2>3. lost' \subseteq Cluster /\ faults' \in 0 .. MaxFaults
        BY <1>6, <2>1, FaultCounted DEF SyncFails, StoresTyped, Listing, Copying
    <2>4. StoresTyped'
        BY <1>6, <2>3 DEF SyncFails, StoresTyped
    <2> QED
        BY <1>1, <2>2, <2>4
  <1> QED
      BY <1>2, <1>3, <1>4, <1>5, <1>6

-----------------------------------------------------------------------------
(* The monitor, the servers, outages and crashes.                            *)

LEMMA ClustersInv ==
    ASSUME IInv, NEW c \in Cluster,
           \/ Monitor(c) \/ Unregister(c) \/ Outage(c) \/ NetDown(c)
           \/ ServerRemoved(c) \/ ServerAdded(c)
    PROVE  IInv'
  <1> USE DEF IInv
  <1>1. WorkTyped' /\ DropTyped'
      BY DEF Monitor, Register, Resync, ForgetCluster, Unregister, Outage, HeartbeatsMissed,
             NetUp, NetDown, ServerRemoved, ServerAdded, WorkTyped, DropTyped
  <1>2. CASE Register(c)
    <2>1. StoresTyped'
        BY <1>2 DEF Register, StoresTyped
    <2>2. ChannelsTyped'
        BY <1>2, Published DEF Register
    <2> QED
        BY <1>1, <2>1, <2>2
  <1>3. CASE Resync(c)
    <2>1. StoresTyped'
        BY <1>3 DEF Resync, StoresTyped
    <2>2. ChannelsTyped'
        BY <1>3, QueueFilled DEF Resync, PublishReconnect, ChannelsTyped
    <2> QED
        BY <1>1, <2>1, <2>2
  <1>4. CASE Unregister(c) \/ ForgetCluster(c) \/ ServerRemoved(c)
    <2>1. /\ health' = [health EXCEPT ![c] = "none"] /\ ghost' = ghost \ {c}
          /\ Publish("deleted", c) /\ UNCHANGED <<chutes, cms, reconnects, net, ctx, queue, lost>>
          /\ server' \subseteq server
        BY <1>4 DEF Unregister, ForgetCluster, ServerRemoved
    <2>2. faults' \in 0 .. MaxFaults /\ changes' \in 0 .. MaxChanges
        BY <1>4, FaultCounted, ChangeCounted
        DEF Unregister, ForgetCluster, ServerRemoved, StoresTyped
    <2>3. StoresTyped'
        BY <2>1, <2>2 DEF StoresTyped
    <2>4. ChannelsTyped'
        BY <2>1, Published
    <2> QED
        BY <1>1, <2>3, <2>4
  <1>5. CASE Outage(c) \/ NetDown(c) \/ ServerAdded(c)
    <2>1. faults' \in 0 .. MaxFaults /\ changes' \in 0 .. MaxChanges
        BY <1>5, FaultCounted, ChangeCounted
        DEF Outage, HeartbeatsMissed, NetUp, NetDown, ServerAdded, StoresTyped
    <2>2. StoresTyped'
        BY <1>5, <2>1 DEF Outage, HeartbeatsMissed, NetUp, NetDown, ServerAdded, StoresTyped
    <2>3. ChannelsTyped'
        BY <1>5 DEF Outage, HeartbeatsMissed, NetUp, NetDown, ServerAdded, ChannelsTyped
    <2> QED
        BY <1>1, <2>2, <2>3
  <1> QED
      BY <1>2, <1>3, <1>4, <1>5 DEF Monitor

LEMMA CrashInv == ASSUME IInv, Crash PROVE IInv'
  <1>1. StoresTyped'
      BY FaultCounted DEF Crash, IInv, StoresTyped
  <1>2. ChannelsTyped'
      BY QueueEmpty DEF Crash, ChannelsTyped
  <1>3. WorkTyped' /\ DropTyped'
      BY DEF Crash, WorkTyped, DropTyped, Idle
  <1> QED
      BY <1>1, <1>2, <1>3 DEF IInv

-----------------------------------------------------------------------------
(* The result                                                                *)

LEMMA NextInv == IInv /\ [Next]_vars => IInv'
  <1> SUFFICES ASSUME IInv, [Next]_vars PROVE IInv'
      OBVIOUS
  <1>1. CASE UNCHANGED vars
      BY <1>1 DEF IInv, StoresTyped, ChannelsTyped, WorkTyped, DropTyped
  <1>2. CASE Worker
      BY <1>2, TakeInv, DeployInv, SyncInv DEF Worker
  <1> QED
      BY <1>1, <1>2, HandlersInv, DroppingInv, WatchersInv, SyncInv, ClustersInv, CrashInv
      DEF Next

LEMMA TypesFollow == IInv => TypeOK
  <1> SUFFICES ASSUME IInv PROVE TypeOK
      OBVIOUS
  <1>1. drop.left \subseteq Cluster
      BY DEF IInv, DropTyped, NoDrop
  <1>2. work.kind \in {"idle", "deploy", "list", "clear", "fill"}
      BY DEF IInv, WorkTyped, Idle, Deploying, Listing, Copying
  <1> QED
      BY <1>1, <1>2 DEF IInv, StoresTyped, ChannelsTyped, Bounded, WorkTyped, TypeOK

\* The worker and the watchers only ever handle well-formed requests and messages,
\* channels stay within their bounds, and a deploy request deals with each cluster
\* once: one that has failed, and is to be marked unhealthy at the end, is not tried
\* again, whatever fails, comes or goes meanwhile (_handle_deploy_request).
THEOREM TypeCorrect == Spec => []TypeOK
  BY InitInv, NextInv, TypesFollow, PTL DEF Spec
=============================================================================
