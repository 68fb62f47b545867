------------------------- MODULE ResourceSyncProofs -------------------------
(***************************************************************************)
(* The cache of a cluster keeps its types; an unhealthy cluster is trusted *)
(* again only after a resync; a removed server that was forgotten is never *)
(* remembered.  For every set of objects, number of changes and failures.  *)
(***************************************************************************)
EXTENDS ResourceSync, TLAPS

USE DEF vars, cluster, record

-----------------------------------------------------------------------------
(* Type correctness.                                                         *)

\* What is read from the cluster or written as empty is a version for each object.
LEMMA VersionsTyped ==
    ASSUME TypeOK
    PROVE  /\ Content \in [Res -> 0 .. MaxVersion]
           /\ Nothing \in [Res -> 0 .. MaxVersion]
  BY SyncBoundsAssumption DEF TypeOK, Content, Nothing

\* The count of failures stays within its bound.
LEMMA FaultCounted ==
    ASSUME TypeOK, Fault PROVE faults' \in 0 .. MaxFaults
  BY SyncBoundsAssumption DEF TypeOK, Fault

\* The cluster, the agent and the watch.
LEMMA ObjectsType ==
    ASSUME TypeOK, Objects PROVE TypeOK'
  <1>1. PICK r \in Res : Create(r) \/ Change(r)
      BY DEF Objects
  <1>2. CASE Create(r)
      BY <1>2, SyncBoundsAssumption DEF TypeOK, Create
  <1>3. CASE Change(r)
      <2>1. ver[r] + 1 \in 0 .. MaxVersion
          BY <1>3, SyncBoundsAssumption DEF TypeOK, Change
      <2> QED
          BY <1>3, <2>1 DEF TypeOK, Change
  <1> QED
      BY <1>1, <1>2, <1>3

LEMMA SendingType ==
    ASSUME TypeOK, Sending PROVE TypeOK'
  <1> USE DEF TypeOK, ClusterState
  <1>1. CASE Collect
      BY <1>1, VersionsTyped DEF Collect
  <1>2. CASE PutClear \/ Register
      BY <1>2, VersionsTyped DEF PutClear, Register, Replace, SetStatus
  <1>3. CASE PutStore
      BY <1>3 DEF PutStore
  <1>4. CASE PutGone \/ PutRefused \/ RegisterConflict
      BY <1>4 DEF PutGone, PutRefused, RegisterConflict
  <1>5. CASE Remove
      BY <1>5, VersionsTyped DEF Remove, Unregister, ClearCluster
  <1> QED
      BY <1>1, <1>2, <1>3, <1>4, <1>5 DEF Sending

LEMMA WatchingType ==
    ASSUME TypeOK, Watching PROVE TypeOK'
  <1>1. CASE WatchList
      BY <1>1 DEF TypeOK, WatchList
  <1>2. ASSUME NEW r \in Res, WatchEvent(r) PROVE TypeOK'
      <2>1. Content[r] \in 0 .. MaxVersion /\ ver[r] \in 0 .. MaxVersion
          BY VersionsTyped DEF TypeOK
      <2> QED
          BY <1>2, <2>1 DEF TypeOK, WatchEvent, Update
  <1> QED
      BY <1>1, <1>2 DEF Watching

LEMMA HeartbeatType ==
    ASSUME TypeOK, Beating \/ HeartbeatWrite \/ TimePasses PROVE TypeOK'
  BY DEF TypeOK, Beating, HeartbeatRead, HeartbeatRejected, HeartbeatWrite, TimePasses,
         SetStatus, ClusterState

LEMMA FailingType ==
    ASSUME TypeOK, Failing PROVE TypeOK'
  <1>1. CASE AgentDies \/ PutFails \/ WatchExpired
      BY <1>1, FaultCounted DEF TypeOK, AgentDies, PutFails, WatchExpired
  <1>2. ASSUME NEW r \in Res, WatchEventLost(r) PROVE TypeOK'
      BY <1>2, FaultCounted DEF TypeOK, WatchEventLost
  <1> QED
      BY <1>1, <1>2 DEF Failing

LEMMA MinerType ==
    ASSUME TypeOK, Miner PROVE TypeOK'
  <1> USE DEF TypeOK, ClusterState
  <1>1. CASE MarkUnhealthy \/ ServerDrop
      BY <1>1 DEF MarkUnhealthy, ServerDrop
  <1>2. CASE ServerStop
      BY <1>2, VersionsTyped DEF ServerStop, Unregister, ClearCluster
  <1>3. CASE ServerClear
      BY <1>3, VersionsTyped, FaultCounted DEF ServerClear, ClearCluster
  <1> QED
      BY <1>1, <1>2, <1>3 DEF Miner

\* The monitor's loops, and a pod that starts.
LEMMA LoopsType ==
    ASSUME TypeOK,
           AgentStarts \/ CheckHealth \/ CleanupStale \/ RestoreMonitoring \/ ReconcileCacheWithDb
    PROVE  TypeOK'
  BY VersionsTyped
  DEF TypeOK, ClusterState, AgentStarts, CheckHealth, CleanupStale, RestoreMonitoring,
      ReconcileCacheWithDb, ClearCluster

\* Whatever is written to a health record is a state the readers know, and the
\* cache holds versions the objects have had.
THEOREM TypeCorrect == Spec => []TypeOK
  <1>1. Init => TypeOK
      BY SyncBoundsAssumption DEF Init, TypeOK, Nothing, ClusterState
  <1>2. TypeOK /\ [Next]_vars => TypeOK'
      <2> SUFFICES ASSUME TypeOK, [Next]_vars PROVE TypeOK'
          OBVIOUS
      <2>1. CASE UNCHANGED vars
          BY <2>1 DEF TypeOK
      <2> QED
          BY <2>1, ObjectsType, SendingType, WatchingType, HeartbeatType, FailingType,
             MinerType, LoopsType DEF Next
  <1> QED
      BY <1>1, <1>2, PTL DEF Spec

-----------------------------------------------------------------------------
(* Health.                                                                   *)

\* The actions that write the health record, and what they write.
LEMMA HealthWritten ==
    ASSUME [Next]_vars
    PROVE  \/ UNCHANGED health
           \/ health' \in {"none", "UNHEALTHY", "ERROR"}
           \/ mon' = "store" /\ health' = "STARTING" /\ ServerExists
           \/ hb = "read" /\ health' = "ACTIVE"
  <1>1. CASE Objects \/ Watching \/ Beating \/ Failing
      BY <1>1 DEF Objects, Create, Change, Watching, WatchList, WatchEvent, Update,
                  Beating, HeartbeatRead, HeartbeatRejected, Failing, AgentDies,
                  PutFails, WatchExpired, WatchEventLost
  <1>2. CASE Sending
      BY <1>2 DEF Sending, Collect, PutClear, PutStore, PutGone, PutRefused, Register,
                  RegisterConflict, Remove, Replace, SetStatus, Unregister, ClearCluster
  <1>3. CASE Miner \/ HeartbeatWrite \/ AgentStarts \/ TimePasses
      BY <1>3 DEF Miner, MarkUnhealthy, ServerStop, ServerClear, ServerDrop, Unregister,
                  ClearCluster, HeartbeatWrite, SetStatus, AgentStarts, TimePasses
  <1>4. CASE CheckHealth \/ CleanupStale \/ RestoreMonitoring \/ ReconcileCacheWithDb
      BY <1>4 DEF CheckHealth, CleanupStale, RestoreMonitoring, ReconcileCacheWithDb,
                  ClearCluster
  <1> QED
      BY <1>1, <1>2, <1>3, <1>4 DEF Next

\* A cluster declared unhealthy is trusted again only when the agent has sent all its
\* resources, or by a heartbeat that had read a healthy record before the verdict.
THEOREM RevivedByResync == Spec => OnlyResyncRevives
  <1>1. [Next]_vars => (~Healthy /\ Healthy' => mon' = "store" \/ hb = "read")
      BY HealthWritten DEF Healthy
  <1> QED
      BY <1>1, PTL DEF Spec, OnlyResyncRevives

\* The state RemovedServerForgotten says is reached: no row, no health record, and
\* nothing under way in the monitor.
Forgotten == server = "out" /\ health = "none" /\ MonitorIdle

\* A removed server that was forgotten is forgotten for good: no heartbeat, resync or
\* update of an agent that still runs brings its health record back.  (That it is
\* forgotten at all is the liveness half of RemovedServerForgotten.)
THEOREM ForgottenForGood == Spec => [](Forgotten => []Forgotten)
  <1>1. ASSUME Forgotten, [Next]_vars PROVE Forgotten'
      <2> USE <1>1 DEF Forgotten, MonitorIdle, ServerExists, Healthy, Registered
      <2>1. CASE Objects \/ Watching \/ Beating \/ Failing
          BY <2>1 DEF Objects, Create, Change, Watching, WatchList, WatchEvent, Beating,
                      HeartbeatRead, HeartbeatRejected, Failing, AgentDies, PutFails,
                      WatchExpired, WatchEventLost
      <2>2. CASE Sending
          BY <2>2 DEF Sending, Collect, PutClear, PutStore, PutGone, PutRefused, Register,
                      RegisterConflict, Remove, Unregister, ClearCluster
      <2>3. CASE Miner \/ HeartbeatWrite \/ AgentStarts \/ TimePasses
          BY <2>3 DEF Miner, MarkUnhealthy, ServerStop, ServerClear, ServerDrop,
                      HeartbeatWrite, AgentStarts, TimePasses
      <2>4. CASE CheckHealth \/ CleanupStale \/ RestoreMonitoring \/ ReconcileCacheWithDb
          BY <2>4 DEF CheckHealth, CleanupStale, RestoreMonitoring, ReconcileCacheWithDb
      <2>5. CASE UNCHANGED vars
          BY <2>5
      <2> QED
          BY <2>1, <2>2, <2>3, <2>4, <2>5 DEF Next
  <1> QED
      BY <1>1, PTL DEF Spec
=============================================================================
