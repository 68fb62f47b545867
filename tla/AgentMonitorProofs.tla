------------------------- MODULE AgentMonitorProofs -------------------------
(***************************************************************************)
(* The agent's life cycle: types, RUNNING is true, and, while nothing is   *)
(* restarted, one set of tasks and a final stop, for every number of       *)
(* requests, attempts, failures and identities.                            *)
(*                                                                         *)
(* None of the three properties is inductive.  The strengthening says who  *)
(* holds _transition_lock (SoleHolder), how state, URL and tasks go        *)
(* together while nothing is restarted (CalmInv), and that a restart that  *)
(* has given up is not RUNNING (GivenUp).                                  *)
(***************************************************************************)
EXTENDS AgentMonitor, FiniteSetTheorems, TLAPS

\* A restart that is scheduled or under way has an attempt left.
AttemptLeft == restart # "none" => tries > 0

TypeInv == TypeOK /\ AttemptLeft

\* _transition_lock has one holder: a start, the auto-start, the recovery loop or a stop.
Stopping == stop \in {"join", "tasks", "remove"}
SoleHolder ==
    /\ \A c, e \in Starters : start[c] = "connect" /\ start[e] = "connect" => c = e
    /\ \A c \in Starters :
         start[c] = "connect" => boot = "done" /\ recovery # "connect" /\ ~Stopping
    /\ boot = "connect" => recovery # "connect" /\ ~Stopping
    /\ recovery = "connect" => ~Stopping

Connecting ==
    boot = "connect" \/ recovery = "connect" \/ \E c \in Starters : start[c] = "connect"

\* While nothing is restarted the tasks are the ones referred to, RUNNING is the state
\* that has them, and whoever is connecting has persisted the URL.
CalmInv ==
    ~breaks =>
        /\ restart = "none" /\ stop # "join" /\ watch = beat
        /\ state = "RUNNING" => watch = {cur} /\ url
        /\ state # "RUNNING" => watch = {}
        /\ Connecting => state # "RUNNING" /\ url
        /\ stop = "remove" => state # "RUNNING"

\* A stop that waits for a restart which has used up its attempts finds it in ERROR.
GivenUp == stop = "join" /\ tries = 0 => state # "RUNNING"

AliveInv == RunningIsAlive /\ GivenUp
IInv == TypeInv /\ SoleHolder /\ CalmInv /\ AliveInv

USE DEF vars, tasks, procs

-----------------------------------------------------------------------------
(* Helpers.                                                                  *)

\* The count of failures stays within its bound.
LEMMA FaultCounted ==
    ASSUME TypeOK, Fault PROVE faults' \in 0 .. MaxFaults
  BY AgentBoundsAssumption DEF TypeOK, Fault

\* A new set of tasks has an identity of its own.
LEMMA TasksStarted ==
    ASSUME StartTasks
    PROVE  \E n \in Slot : /\ n \notin watch \cup beat \cup {cur}
                           /\ watch' = watch \cup {n} /\ beat' = beat \cup {n} /\ cur' = n
                           /\ state' = "RUNNING"
  <1> DEFINE new == CHOOSE n \in Unused : TRUE
  <1>1. new \in Unused
      BY DEF StartTasks
  <1> QED
      BY <1>1 DEF StartTasks, Unused

\* How connecting ends.
Connects == ConnectOk \/ ConnectGone \/ ConnectFail

LEMMA ConnectType ==
    ASSUME TypeOK, Connects
    PROVE  /\ state' \in MonitoringState /\ url' \in BOOLEAN /\ faults' \in 0 .. MaxFaults
           /\ watch' \subseteq Slot /\ beat' \subseteq Slot /\ cur' \in Slot \cup {NoSlot}
  BY TasksStarted, FaultCounted
  DEF TypeOK, Connects, ConnectOk, ConnectGone, ConnectFail, StopTasks, ClearUrl, MonitoringState

LEMMA RestartType ==
    ASSUME TypeInv, Restart
    PROVE  /\ restart' \in {"none", "sched", "stopping", "sending", "backoff"}
           /\ tries' \in 0 .. MaxAttempts /\ (restart' # "none" => tries' > 0)
           /\ state = "RUNNING" => restart' # "none"
  BY AgentBoundsAssumption
  DEF TypeInv, TypeOK, AttemptLeft, Restart, RestartLocked

-----------------------------------------------------------------------------
(* Type correctness.                                                         *)

LEMMA InitType == Init => TypeInv
  <1> SUFFICES ASSUME Init PROVE TypeInv
      OBVIOUS
  <1>1. 0 \in 0 .. MaxAttempts /\ 0 \in 0 .. MaxFaults
      BY AgentBoundsAssumption
  <1> QED
      BY <1>1 DEF Init, TypeInv, TypeOK, AttemptLeft, MonitoringState

LEMMA StartType ==
    ASSUME TypeInv, NEW c \in Starters, StartRequest(c) \/ StartAcquire(c) \/ StartConnect(c)
    PROVE  TypeInv'
  <1> USE DEF TypeInv, TypeOK, AttemptLeft
  <1>1. CASE StartRequest(c)
      BY <1>1 DEF StartRequest
  <1>2. CASE StartAcquire(c)
      BY <1>2 DEF StartAcquire, PersistUrl
  <1>3. CASE StartConnect(c)
      BY <1>3, ConnectType DEF StartConnect, Connects, Recovering
  <1> QED
      BY <1>1, <1>2, <1>3

LEMMA StopType ==
    ASSUME TypeInv, StopRequest \/ StopAcquire \/ StopJoin \/ StopCancel \/ StopRemove
    PROVE  TypeInv'
  <1> USE DEF TypeInv, TypeOK, AttemptLeft, MonitoringState
  <1>1. CASE StopRequest \/ StopJoin
      BY <1>1 DEF StopRequest, StopJoin
  <1>2. CASE StopAcquire
      BY <1>2 DEF StopAcquire
  <1>3. CASE StopCancel
      BY <1>3 DEF StopCancel, StopTasks
  <1>4. CASE StopRemove
      <2>1. url' \in BOOLEAN
          BY <1>4 DEF StopRemove, ClearUrl
      <2>2. faults' \in 0 .. MaxFaults
          BY <1>4, FaultCounted DEF StopRemove
      <2> QED
          BY <1>4, <2>1, <2>2 DEF StopRemove
  <1> QED
      BY <1>1, <1>2, <1>3, <1>4

LEMMA RecoveryType ==
    ASSUME TypeInv, RecoveryAcquire \/ RecoveryConnect \/ BootConnect
    PROVE  TypeInv'
  <1> USE DEF TypeInv, TypeOK, AttemptLeft, MonitoringState
  <1>1. CASE RecoveryAcquire
      <2>1. UNCHANGED <<url, boot, start, stop, restart, tries, listed, breaks, faults>>
          BY <1>1 DEF RecoveryAcquire
      <2>2. /\ state' \in MonitoringState /\ client' \in BOOLEAN
            /\ recovery' \in {"none", "sleep", "connect"}
            /\ watch' \subseteq Slot /\ beat' \subseteq Slot /\ cur' \in Slot \cup {NoSlot}
          BY <1>1 DEF RecoveryAcquire, StopTasks
      <2> QED
          BY <2>1, <2>2
  <1>2. CASE RecoveryConnect \/ BootConnect
      BY <1>2, ConnectType DEF RecoveryConnect, BootConnect, Connects, Recovering
  <1> QED
      BY <1>1, <1>2

LEMMA RestartingType ==
    ASSUME TypeInv, Restarting PROVE TypeInv'
  <1> USE DEF TypeInv, TypeOK, AttemptLeft, MonitoringState
  <1>1. CASE RestartBegin
      BY <1>1 DEF RestartBegin
  <1>2. CASE RestartStop
      BY <1>2 DEF RestartStop, StopTasks
  <1>3. CASE RestartSend
      BY <1>3, TasksStarted DEF RestartSend
  <1>4. CASE RestartSendFails
      <2>1. faults' \in 0 .. MaxFaults
          BY <1>4, FaultCounted DEF RestartSendFails
      <2>2. tries - 1 \in 0 .. MaxAttempts /\ (tries > 1 => tries - 1 > 0)
          BY <1>4, AgentBoundsAssumption DEF RestartSendFails
      <2> QED
          BY <1>4, <2>1, <2>2 DEF RestartSendFails
  <1> QED
      BY <1>1, <1>2, <1>3, <1>4 DEF Restarting

LEMMA WorldType ==
    ASSUME TypeInv,
           \/ \E n \in Slot : HeartbeatFails(n) \/ WatchFails(n)
           \/ ProbeKills \/ PodCrash \/ ServerDelisted
    PROVE  TypeInv'
  <1> USE DEF TypeInv, TypeOK, AttemptLeft, MonitoringState
  <1>1. ASSUME NEW n \in Slot, HeartbeatFails(n) \/ WatchFails(n) PROVE TypeInv'
      BY <1>1, RestartType, FaultCounted DEF HeartbeatFails, WatchFails
  <1>2. CASE ProbeKills \/ PodCrash
      BY <1>2, FaultCounted, AgentBoundsAssumption DEF ProbeKills, PodCrash, PodStarts, LoadUrl
  <1>3. CASE ServerDelisted
      <2>1. listed' \in BOOLEAN
          BY <1>3 DEF ServerDelisted
      <2> QED
          BY <1>3, <2>1 DEF ServerDelisted
  <1> QED
      BY <1>1, <1>2, <1>3

LEMMA NextType == TypeInv /\ [Next]_vars => TypeInv'
  <1> SUFFICES ASSUME TypeInv, [Next]_vars PROVE TypeInv'
      OBVIOUS
  <1>1. CASE UNCHANGED vars
      BY <1>1 DEF TypeInv, TypeOK, AttemptLeft
  <1>2. ASSUME NEW c \in Starters, StartRequest(c) \/ StartAcquire(c) \/ StartConnect(c)
        PROVE  TypeInv'
      BY <1>2, StartType
  <1>3. CASE Requests
      BY <1>2, <1>3, StopType DEF Requests
  <1>4. CASE Transitions
      BY <1>2, <1>4, StopType, RecoveryType DEF Transitions
  <1> QED
      BY <1>1, <1>3, <1>4, RestartingType, WorldType DEF Next

\* Every variable keeps its type; _async_restart never goes past its last attempt.
THEOREM TypeCorrect == Spec => []TypeOK
  <1>1. TypeInv => TypeOK
      BY DEF TypeInv
  <1> QED
      BY <1>1, InitType, NextType, PTL DEF Spec

-----------------------------------------------------------------------------
(* _transition_lock.                                                         *)

\* A step after which nobody holds the lock who did not hold it before.
LEMMA HolderFrame ==
    ASSUME SoleHolder,
           \A c \in Starters : start'[c] = "connect" => start[c] = "connect",
           boot' = "connect" => boot = "connect",
           recovery' = "connect" => recovery = "connect",
           Stopping' => Stopping, boot = "done" => boot' = "done"
    PROVE  SoleHolder'
  BY DEF SoleHolder

LEMMA HolderKept ==
    ASSUME TypeInv, SoleHolder, [Next]_vars PROVE SoleHolder'
  <1> USE DEF TypeInv, TypeOK, Stopping
  <1>1. ASSUME NEW c \in Starters, StartRequest(c) \/ StartConnect(c) PROVE SoleHolder'
      BY <1>1, HolderFrame DEF StartRequest, StartConnect, Recovering
  <1>2. ASSUME NEW c \in Starters, StartAcquire(c) PROVE SoleHolder'
      <2>1. ~Locked /\ UNCHANGED <<boot, recovery, stop>>
          BY <1>2 DEF StartAcquire
      <2>2. \A e \in Starters \ {c} : start'[e] = start[e]
          BY <1>2 DEF StartAcquire
      <2> QED
          BY <2>1, <2>2 DEF SoleHolder, Locked
  <1>3. CASE StopRequest \/ StopJoin \/ StopCancel \/ StopRemove
      BY <1>3, HolderFrame DEF StopRequest, StopJoin, StopCancel, StopRemove
  <1>4. CASE StopAcquire
      BY <1>4 DEF StopAcquire, SoleHolder, Locked
  <1>5. CASE RecoveryAcquire
      <2>1. ~Locked /\ UNCHANGED <<boot, start, stop>>
          BY <1>5 DEF RecoveryAcquire
      <2> QED
          BY <2>1 DEF SoleHolder, Locked
  <1>6. CASE RecoveryConnect \/ BootConnect
      BY <1>6, HolderFrame DEF RecoveryConnect, BootConnect, Recovering
  <1>7. CASE Restarting
      BY <1>7, HolderFrame
      DEF Restarting, RestartBegin, RestartStop, RestartSend, RestartSendFails
  <1>8. ASSUME NEW n \in Slot, HeartbeatFails(n) \/ WatchFails(n) PROVE SoleHolder'
      BY <1>8, HolderFrame DEF HeartbeatFails, WatchFails
  <1>9. CASE ProbeKills \/ PodCrash
      BY <1>9 DEF ProbeKills, PodCrash, PodStarts, SoleHolder
  <1>10. CASE ServerDelisted \/ UNCHANGED vars
      BY <1>10, HolderFrame DEF ServerDelisted
  <1> QED
      BY <1>1, <1>2, <1>3, <1>4, <1>5, <1>6, <1>7, <1>8, <1>9, <1>10
      DEF Next, Requests, Transitions

-----------------------------------------------------------------------------
(* While nothing is restarted.                                               *)

\* A step that leaves the monitor alone and lets nobody begin to connect.
LEMMA CalmFrame ==
    ASSUME CalmInv,
           UNCHANGED <<state, url, tasks, restart, breaks>>,
           Connecting' => Connecting,
           stop' = "join" => stop = "join", stop' = "remove" => stop = "remove"
    PROVE  CalmInv'
  BY DEF CalmInv

\* Connecting ends with one set of tasks, or none.
LEMMA CalmConnect ==
    ASSUME TypeInv, CalmInv, Connecting, Connects, ~Connecting',
           UNCHANGED <<stop, restart, breaks>>, ~Stopping
    PROVE  CalmInv'
  <1> SUFFICES ASSUME ~breaks PROVE CalmInv'
      BY DEF CalmInv
  <1>1. restart = "none" /\ watch = {} /\ beat = {} /\ url /\ state # "RUNNING"
      BY DEF CalmInv
  <1>2. CASE ConnectOk
      <2>1. PICK n \in Slot : watch' = {n} /\ beat' = {n} /\ cur' = n /\ state' = "RUNNING"
          BY <1>1, <1>2, TasksStarted DEF ConnectOk
      <2> QED
          BY <1>1, <1>2, <2>1 DEF CalmInv, ConnectOk, Stopping
  <1>3. CASE ConnectGone
      BY <1>1, <1>3 DEF CalmInv, ConnectGone, StopTasks, Stopping
  <1>4. CASE ConnectFail
      BY <1>1, <1>4 DEF CalmInv, ConnectFail, Stopping
  <1> QED
      BY <1>2, <1>3, <1>4 DEF Connects

LEMMA CalmKept ==
    ASSUME TypeInv, SoleHolder, CalmInv, [Next]_vars PROVE CalmInv'
  <1> USE DEF TypeInv, TypeOK
  <1>1. ASSUME NEW c \in Starters, StartRequest(c) PROVE CalmInv'
      BY <1>1, CalmFrame DEF StartRequest, Connecting
  <1>2. ASSUME NEW c \in Starters, StartAcquire(c) PROVE CalmInv'
      <2>1. url' /\ UNCHANGED <<state, tasks, boot, stop, recovery, restart, breaks>>
          BY <1>2 DEF StartAcquire, PersistUrl
      <2>2. state = "RUNNING" => ~Connecting'
          BY <1>2, <2>1 DEF StartAcquire, Locked, Connecting
      <2> QED
          BY <2>1, <2>2 DEF CalmInv
  <1>3. ASSUME NEW c \in Starters, StartConnect(c) PROVE CalmInv'
      <2>1. Connects /\ UNCHANGED <<stop, restart, breaks>>
          BY <1>3 DEF StartConnect, Connects
      <2>2. Connecting /\ ~Connecting' /\ ~Stopping
          BY <1>3 DEF StartConnect, Connecting, SoleHolder, Recovering
      <2> QED
          BY <2>1, <2>2, CalmConnect
  <1>4. CASE StopRequest
      BY <1>4, CalmFrame DEF StopRequest, Connecting
  <1>5. CASE StopAcquire
      <2> SUFFICES ASSUME ~breaks PROVE CalmInv'
          BY <1>5 DEF CalmInv, StopAcquire
      <2>1. restart = "none" /\ ~Deaf /\ ~RestartLocked
          BY DEF CalmInv, Deaf, RestartLocked
      <2>2. stop' = "tasks" /\ restart' = "none" /\ UNCHANGED <<state, url, tasks, breaks>>
          BY <1>5, <2>1 DEF StopAcquire
      <2>3. Connecting' => Connecting
          BY <1>5 DEF StopAcquire, Connecting
      <2> QED
          BY <2>2, <2>3 DEF CalmInv
  <1>6. CASE StopJoin
      BY <1>6 DEF StopJoin, CalmInv, Connecting
  <1>7. CASE StopCancel
      <2>1. ~Connecting'
          BY <1>7 DEF StopCancel, Connecting, SoleHolder, Stopping
      <2> QED
          BY <1>7, <2>1 DEF StopCancel, StopTasks, CalmInv
  <1>8. CASE StopRemove
      <2>1. ~Connecting'
          BY <1>8 DEF StopRemove, Connecting, SoleHolder, Stopping
      <2> QED
          BY <1>8, <2>1 DEF StopRemove, ClearUrl, CalmInv
  <1>9. CASE RecoveryAcquire
      <2>1. ~Locked /\ UNCHANGED <<url, boot, start, stop, restart, breaks>>
          BY <1>9 DEF RecoveryAcquire
      <2>2. \/ state' = "STOPPED" /\ ~Connecting' /\ state = "DEGRADED"
               /\ watch' = watch \ {cur} /\ beat' = beat \ {cur}
            \/ ~Connecting' /\ UNCHANGED <<state, tasks>>
            \/ state = "DEGRADED" /\ url /\ UNCHANGED <<state, tasks>>
          BY <1>9, <2>1 DEF RecoveryAcquire, StopTasks, LoadUrl, Locked, Connecting
      <2> QED
          BY <2>1, <2>2 DEF CalmInv
  <1>10. CASE RecoveryConnect \/ BootConnect
      <2>1. Connects /\ UNCHANGED <<stop, restart, breaks>>
          BY <1>10 DEF RecoveryConnect, BootConnect, Connects
      <2>2. Connecting /\ ~Connecting' /\ ~Stopping
          BY <1>10 DEF RecoveryConnect, BootConnect, Connecting, SoleHolder, Recovering
      <2> QED
          BY <2>1, <2>2, CalmConnect
  <1>11. CASE Restarting
      BY <1>11
      DEF CalmInv, Restarting, RestartBegin, RestartStop, RestartSend, RestartSendFails
  <1>12. ASSUME NEW n \in Slot, HeartbeatFails(n) \/ WatchFails(n) PROVE CalmInv'
      BY <1>12 DEF CalmInv, HeartbeatFails, WatchFails
  <1>13. CASE ProbeKills \/ PodCrash
      BY <1>13 DEF ProbeKills, PodCrash, PodStarts, LoadUrl, CalmInv, Connecting
  <1>14. CASE ServerDelisted \/ UNCHANGED vars
      BY <1>14, CalmFrame DEF ServerDelisted, Connecting
  <1> QED
      BY <1>1, <1>2, <1>3, <1>4, <1>5, <1>6, <1>7, <1>8, <1>9, <1>10, <1>11, <1>12, <1>13, <1>14
      DEF Next, Requests, Transitions

-----------------------------------------------------------------------------
(* RUNNING.                                                                  *)

\* A step that leaves the monitor and the restart alone, and stop in its place.
LEMMA AliveFrame ==
    ASSUME AliveInv, UNCHANGED <<tasks, restart, tries>>,
           state' = "RUNNING" => state = "RUNNING",
           stop' = "join" => stop = "join",
           stop \in {"join", "tasks"} => stop' \in {"join", "tasks"}
    PROVE  AliveInv'
  BY DEF AliveInv, RunningIsAlive, GivenUp

\* Connecting gives the monitor a new set, or a state that is not RUNNING.  (No stop
\* waits for a restart meanwhile: it would hold the lock.)
LEMMA AliveConnect ==
    ASSUME Connects, stop' # "join" PROVE AliveInv'
  <1>1. CASE ConnectOk
      BY <1>1, TasksStarted DEF ConnectOk, AliveInv, RunningIsAlive, GivenUp
  <1>2. CASE ConnectGone \/ ConnectFail
      BY <1>2 DEF ConnectGone, ConnectFail, StopTasks, AliveInv, RunningIsAlive, GivenUp
  <1> QED
      BY <1>1, <1>2 DEF Connects

LEMMA AliveKept ==
    ASSUME TypeInv, SoleHolder, AliveInv, [Next]_vars PROVE AliveInv'
  <1> USE DEF TypeInv, TypeOK
  <1>1. ASSUME NEW c \in Starters, StartRequest(c) \/ StartAcquire(c) PROVE AliveInv'
      BY <1>1, AliveFrame DEF StartRequest, StartAcquire
  <1>2. ASSUME NEW c \in Starters, StartConnect(c) PROVE AliveInv'
      <2>1. Connects /\ stop' # "join"
          BY <1>2 DEF StartConnect, Connects, SoleHolder, Stopping
      <2> QED
          BY <2>1, AliveConnect
  <1>3. CASE RecoveryConnect \/ BootConnect
      <2>1. Connects /\ stop' # "join"
          BY <1>3 DEF RecoveryConnect, BootConnect, Connects, SoleHolder, Stopping
      <2> QED
          BY <2>1, AliveConnect
  <1>4. CASE StopRequest \/ StopRemove
      BY <1>4, AliveFrame DEF StopRequest, StopRemove
  <1>5. CASE StopAcquire
      BY <1>5, AgentBoundsAssumption
      DEF StopAcquire, Deaf, RestartLocked, AttemptLeft, AliveInv, RunningIsAlive, GivenUp
  <1>6. CASE StopJoin
      BY <1>6 DEF StopJoin, AliveInv, RunningIsAlive, GivenUp
  <1>7. CASE StopCancel \/ RestartStop
      BY <1>7 DEF StopCancel, RestartStop, StopTasks, AliveInv, RunningIsAlive, GivenUp
  <1>8. CASE RecoveryAcquire
      <2>1. CASE state = "DEGRADED" /\ ~LoadUrl
          BY <1>8, <2>1 DEF RecoveryAcquire, StopTasks, AliveInv, RunningIsAlive, GivenUp
      <2>2. CASE ~(state = "DEGRADED" /\ ~LoadUrl)
          <3>1. UNCHANGED <<state, tasks, restart, tries, stop>>
              BY <1>8, <2>2 DEF RecoveryAcquire
          <3> QED
              BY <3>1, AliveFrame
      <2> QED
          BY <2>1, <2>2
  <1>9. CASE RestartBegin \/ RestartSendFails
      BY <1>9 DEF RestartBegin, RestartSendFails, AliveInv, RunningIsAlive, GivenUp
  <1>10. CASE RestartSend
      <2>1. tries' # 0
          BY <1>10 DEF RestartSend, AttemptLeft
      <2> QED
          BY <1>10, <2>1, TasksStarted DEF RestartSend, AliveInv, RunningIsAlive, GivenUp
  <1>11. ASSUME NEW n \in Slot, HeartbeatFails(n) \/ WatchFails(n) PROVE AliveInv'
      <2>1. Restart /\ UNCHANGED <<state, watch, cur, stop>> /\ (beat' = beat \/ beat' = beat \ {n})
          BY <1>11 DEF HeartbeatFails, WatchFails
      <2>2. state = "RUNNING" => restart' # "none" /\ tries' > 0
          BY <2>1, RestartType
      <2> QED
          BY <2>1, <2>2 DEF AliveInv, RunningIsAlive, GivenUp
  <1>12. CASE ProbeKills \/ PodCrash
      BY <1>12 DEF ProbeKills, PodCrash, PodStarts, AliveInv, RunningIsAlive, GivenUp
  <1>13. CASE ServerDelisted \/ UNCHANGED vars
      BY <1>13, AliveFrame DEF ServerDelisted
  <1> QED
      BY <1>1, <1>2, <1>3, <1>4, <1>5, <1>6, <1>7, <1>8, <1>9, <1>10, <1>11, <1>12, <1>13
      DEF Next, Requests, Transitions, Restarting

-----------------------------------------------------------------------------
(* The theorems.                                                             *)

LEMMA InvCorrect == Spec => []IInv
  <1>1. Init => IInv
      <2> SUFFICES ASSUME Init PROVE IInv
          OBVIOUS
      <2>1. SoleHolder /\ CalmInv /\ AliveInv
          BY DEF Init, SoleHolder, CalmInv, Connecting, AliveInv, RunningIsAlive, GivenUp
      <2> QED
          BY <2>1, InitType DEF IInv
  <1>2. IInv /\ [Next]_vars => IInv'
      BY NextType, HolderKept, CalmKept, AliveKept DEF IInv
  <1> QED
      BY <1>1, <1>2, PTL DEF Spec

\* RUNNING, which makes /start answer 409, is not a lie, whatever restarts, starts and
\* stops meet.
THEOREM RunningCorrect == Spec => []RunningIsAlive
  <1>1. IInv => RunningIsAlive
      BY DEF IInv, AliveInv
  <1> QED
      BY <1>1, InvCorrect, PTL

\* Without restarts the transitions never leave two sets of tasks behind.
THEOREM OneTaskSetCorrect == Spec => []OneTaskSetWhileCalm
  <1>1. ASSUME IInv PROVE OneTaskSetWhileCalm
      <2> SUFFICES ASSUME ~breaks PROVE Cardinality(watch \cup beat) <= 1
          BY DEF OneTaskSetWhileCalm, OneTaskSet
      <2>1. watch \cup beat = {} \/ watch \cup beat = {cur}
          BY <1>1 DEF IInv, CalmInv
      <2>2. CASE watch \cup beat = {}
          BY <2>2, FS_EmptySet
      <2>3. CASE watch \cup beat = {cur}
          <3>1. Cardinality({cur}) = 1
              BY FS_Singleton, Zenon
          <3> QED
              BY <2>3, <3>1
      <2> QED
          BY <2>1, <2>2, <2>3
  <1> QED
      BY <1>1, InvCorrect, PTL

\* Without restarts an explicit stop is final.
THEOREM StopCorrect == Spec => []StopIsFinal
  <1>1. IInv => StopIsFinal
      BY DEF IInv, CalmInv, StopIsFinal
  <1> QED
      BY <1>1, InvCorrect, PTL
=============================================================================
