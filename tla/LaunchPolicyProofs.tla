------------------------- MODULE LaunchPolicyProofs -------------------------
(***************************************************************************)
(* Launch policy: types, no job is lost, nothing is evicted for a job that *)
(* is not ours, and the lock keeps scale_chute from launching too much,    *)
(* for any number of coroutines, jobs, chutes and servers.                 *)
(*                                                                         *)
(* The strengthening has three ideas.  CallsOK says what a coroutine knows *)
(* at each of its steps.  LockKept says that what scale_chute and          *)
(* rolling_update do happens under _scale_lock, so that a launch for no    *)
(* job is always one of the holder.  JobsApart says that a job has one     *)
(* coroutine, so that nobody else releases it.                             *)
(***************************************************************************)
EXTENDS LaunchPolicy, FiniteSetTheorems, TLAPS

\* What a coroutine holds at each step: a chute, a job only outside scale_chute, and a
\* deployment of its own only while it waits for it or for the lock to replace it.
CallOK(r) ==
    /\ r \in Calls
    /\ r.pc \notin {"idle", "round", "kill"} => \E c \in Chute : r.chute = {c}
    /\ r.via = "scale" => r.job = NoJob
    /\ r.by = "rolling" => r.via = "scale"
    /\ r.pc \in {"replace", "reload"} => r.by = "rolling"
    /\ r.pc = "choose" => r.via # "scale"
    /\ r.pc # "boot" /\ ~(r.pc = "lock" /\ r.by = "rolling") => r.dep = {}
    /\ r.pc = "boot" => \E d \in Dep : r.dep = {d}
CallsOK == \A t \in Task : CallOK(task[t])

\* Under the lock: the loop of scale_chute, the replacement, and launches for no job.
Launching  == {"choose", "token", "evict", "deploy", "boot"}
Inside     == {"scale", "down", "replace", "reload"}
NeedsLock(r) == r.pc \in Inside \/ (r.pc \in Launching /\ r.job = NoJob)
LockKept ==
    /\ \A t \in Task : NeedsLock(task[t]) => lock = t
    /\ lock # NoTask => task[lock].pc \in Inside \cup Launching

\* A coroutine that waits for a deployment launched it, for its own job.
LaunchedFor ==
    \A t \in Task : At(t, "boot") =>
        \A d \in task[t].dep : d \notin fresh /\ (d \in rows => row[d].runs = task[t].job)

\* A job has one coroutine, none before job_created, and the launch config is taken
\* before anything is evicted.
JobsApart ==
    /\ \A t, u \in Task : task[t].job \in Job /\ task[t].job = task[u].job => t = u
    /\ \A t \in Task : task[t].job \in Job => jobs[task[t].job] # "new"
    /\ \A t \in Task : At(t, "evict") /\ task[t].job \in Job
                         => jobs[task[t].job] \in {"held", "ended"}

\* From the moment scale_chute finds too few deployments to its claim there is room
\* for one more, whatever preempting_deploy launches for jobs.
Own(f, c)     == {d \in DOMAIN f : f[d].chute = c /\ f[d].job = NoJob /\ f[d].runs = NoJob}
HasRoom(f, r) == \A c \in Chute : r.chute = {c} => Cardinality(Own(f, c)) < r.want
Wants(r)      == r.via = "scale" /\ r.by # "rolling" /\ r.pc \in {"token", "evict", "deploy"}
Wanting       == \A t \in Task : Wants(task[t]) => HasRoom(row, task[t])

TypeInv == TypeOK /\ CallsOK /\ LockKept
JobInv  == LaunchedFor /\ JobsApart /\ JobAccounted
IInv    == TypeInv /\ JobInv /\ Wanting

\* The parts of TypeOK that are not about coroutines.
RowsOK == /\ rows \subseteq Dep \ fresh /\ row \in [rows -> Rows] /\ fresh \subseteq Dep
          /\ seen \subseteq (Dep \ fresh) \X Chute
JobsOK == /\ healthy \subseteq Server /\ jobs \in [Job -> JobState] /\ stuck \subseteq Job
          /\ faults \in 0 .. MaxFaults

-----------------------------------------------------------------------------
(* Helpers.                                                                  *)

LEMMA TypeParts == TypeInv => RowsOK /\ JobsOK
  BY DEF TypeInv, TypeOK, RowsOK, JobsOK

\* Deployments can be counted.
LEMMA Countable ==
    ASSUME RowsOK, NEW c
    PROVE  IsFiniteSet(NonJob(c)) /\ Count(c) \in Nat
  <1>1. NonJob(c) \subseteq Dep
      BY DEF NonJob, Of, RowsOK
  <1> QED
      BY <1>1, InitialAssumption, FS_Subset, FS_CardinalityType DEF Count

\* The chute of a coroutine that has one.
LEMMA ChuteOfCall ==
    ASSUME CallsOK, NEW t \in Task, task[t].pc \notin {"idle", "round", "kill"}
    PROVE  Chute1(t) \in Chute /\ task[t].chute = {Chute1(t)}
  <1>1. PICK c \in Chute : task[t].chute = {c}
      BY DEF CallsOK, CallOK
  <1> QED
      BY <1>1 DEF Chute1

\* What there is to show of a coroutine that is not waiting for a deployment.
LEMMA CallIsOK ==
    ASSUME NEW r \in Calls, \E c \in Chute : r.chute = {c}, r.pc # "boot", r.dep = {},
           r.via = "scale" => r.job = NoJob, r.by = "rolling" => r.via = "scale",
           r.pc \notin {"replace", "reload"}, r.pc = "choose" => r.via # "scale"
    PROVE  CallOK(r)
  BY DEF CallOK

\* The end of a handler.
LEMMA NoCall ==
    ASSUME NEW r, r = Idle \/ \E T \in SUBSET Chute : r = [Call("round", "auto", {}) EXCEPT !.todo = T]
    PROVE  /\ CallOK(r) /\ r.pc \in {"idle", "round"} /\ r.job = NoJob /\ r.via = "scale"
           /\ r.by = "auto" /\ r.dep = {}
  <1>1. r \in Calls
      <2>1. CASE r = Idle
          BY <2>1 DEF Idle, Call, Calls, Pc, Caller
      <2>2. ASSUME NEW T \in SUBSET Chute, r = [Call("round", "auto", {}) EXCEPT !.todo = T]
            PROVE  r \in Calls
          BY <2>2 DEF Call, Calls, Pc, Caller
      <2> QED
          BY <2>1, <2>2
  <1>2. /\ r.pc \in {"idle", "round"} /\ r.job = NoJob /\ r.via = "scale"
        /\ r.by = "auto" /\ r.dep = {}
      BY DEF Idle, Call
  <1>3. CallOK(r)
      BY ONLY <1>1, <1>2 DEF CallOK
  <1> QED
      BY <1>2, <1>3

\* A function that returns or raises lets go of the lock and of all it has.
Leaves(t, r) ==
    /\ CallOK(r) /\ Sets(t, r) /\ Unlock(t)
    /\ r.pc \in {"idle", "round"} /\ r.job = NoJob /\ r.via = "scale" /\ r.dep = {}

LEMMA ReturnLeaves ==
    ASSUME CallsOK, NEW t \in Task, (\E ok : Return(t, ok)) \/ Raise(t)
    PROVE  \E r : Leaves(t, r)
  <1>1. task[t].todo \in SUBSET Chute
      BY DEF CallsOK, CallOK, Calls
  <1>2. CASE Raise(t)
      BY <1>2, NoCall DEF Raise, Leaves
  <1>3. CASE \E ok : Return(t, ok)
      BY <1>1, <1>3, NoCall DEF Return, Leaves
  <1> QED
      BY <1>2, <1>3

\* What the steps of one coroutine leave of TypeInv to be shown.
LEMMA Moved ==
    ASSUME TypeInv, NEW t \in Task, NEW r, CallOK(r), Sets(t, r), UNCHANGED lock,
           NeedsLock(r) => lock = t, lock = t => r.pc \in Inside \cup Launching,
           RowsOK', JobsOK'
    PROVE  TypeInv'
  <1>1. CallsOK' /\ task' \in [Task -> Calls]
      BY DEF TypeInv, TypeOK, CallsOK, CallOK, Sets
  <1>2. LockKept'
      BY DEF TypeInv, TypeOK, LockKept, Sets
  <1>3. lock' = NoTask \/ (lock' \in Task /\ task'[lock'].pc # "idle")
      BY <1>2 DEF TypeInv, TypeOK, LockKept, Inside, Launching
  <1> QED
      BY <1>1, <1>2, <1>3 DEF TypeInv, TypeOK, RowsOK, JobsOK, At

LEMMA Gone ==
    ASSUME TypeInv, NEW t \in Task, NEW r, Leaves(t, r), RowsOK', JobsOK'
    PROVE  TypeInv'
  <1>1. CallsOK' /\ task' \in [Task -> Calls]
      BY DEF TypeInv, TypeOK, CallsOK, CallOK, Sets, Leaves
  <1>2. LockKept'
      <2>1. ~NeedsLock(r)
          BY DEF Leaves, NeedsLock, Inside, Launching
      <2> QED
          BY <2>1, NoneAssumption DEF TypeInv, TypeOK, LockKept, Sets, Leaves, Unlock
  <1>3. lock' = NoTask \/ (lock' \in Task /\ task'[lock'].pc # "idle")
      BY <1>2 DEF TypeInv, TypeOK, LockKept, Inside, Launching, Leaves, Unlock
  <1> QED
      BY <1>1, <1>2, <1>3 DEF TypeInv, TypeOK, RowsOK, JobsOK, At

LEMMA Still ==
    ASSUME TypeInv, UNCHANGED <<task, lock>>, RowsOK', JobsOK'
    PROVE  TypeInv'
  BY DEF TypeInv, TypeOK, RowsOK, JobsOK, At, CallsOK, LockKept

\* Rows, snapshots and jobs under the steps that change them.
LEMMA RowsGo ==
    ASSUME RowsOK, NEW D, row' = [d \in rows \ D |-> row[d]], UNCHANGED <<fresh, seen>>
    PROVE  RowsOK'
  BY DEF RowsOK, rows

LEMMA Snapped ==
    ASSUME RowsOK, UNCHANGED <<row, fresh>>, seen' = Snapshot
    PROVE  RowsOK'
  BY DEF RowsOK, Snapshot, Active, rows, Rows

LEMMA RowsStay ==
    ASSUME RowsOK, UNCHANGED <<row, fresh, seen>>
    PROVE  RowsOK'
  BY DEF RowsOK, rows

LEMMA JobsStay ==
    ASSUME JobsOK, UNCHANGED <<healthy, jobs, stuck, faults>>
    PROVE  JobsOK'
  BY DEF JobsOK

LEMMA EndedType ==
    ASSUME JobsOK, NEW D
    PROVE  Ended(D) \in [Job -> JobState]
  BY DEF JobsOK, Ended, JobState

LEMMA ReleasedType ==
    ASSUME NEW js \in [Job -> JobState], NEW j
    PROVE  Released(js, j) \in [Job -> JobState]
  BY DEF Released, JobState

LEMMA FaultCounted ==
    ASSUME JobsOK, Fault PROVE faults' \in 0 .. MaxFaults
  BY PlacementAssumption DEF JobsOK, Fault

LEMMA Holding ==
    ASSUME TypeInv, NEW t \in Task, lock = t
    PROVE  task[t].pc \in Inside \cup Launching
  BY NoneAssumption DEF TypeInv, LockKept

-----------------------------------------------------------------------------
(* Types.                                                                    *)

LEMMA InitType == Init => TypeInv
  <1> SUFFICES ASSUME Init PROVE TypeInv
      OBVIOUS
  <1>1. CallOK(Idle) /\ Idle.pc = "idle"
      BY NoCall DEF Idle, Call
  <1>2. CallsOK /\ task \in [Task -> Calls]
      BY <1>1 DEF Init, CallsOK, CallOK
  <1>3. LockKept
      BY <1>1 DEF Init, LockKept, NeedsLock, Inside, Launching
  <1>4. RowsOK
      BY InitialAssumption DEF Init, RowsOK, rows, Rows
  <1>5. 0 \in 0 .. MaxFaults
      BY PlacementAssumption
  <1>6. JobsOK
      BY <1>5 DEF Init, JobsOK, JobState
  <1> QED
      BY <1>2, <1>3, <1>4, <1>6 DEF Init, TypeInv, TypeOK, RowsOK, JobsOK

LEMMA StartType ==
    ASSUME TypeInv, NEW t \in Task, Start(t)
    PROVE  TypeInv'
  <1>. CallsOK /\ RowsOK /\ JobsOK /\ task \in [Task -> Calls]
      BY TypeParts DEF TypeInv, TypeOK
  <1>. lock = t => ~At(t, "idle")
      BY Holding DEF At, Inside, Launching
  <1>1. CASE AutoscaleRound(t)
      <2>1. PICK T \in SUBSET Chute : Sets(t, [Call("round", "auto", {}) EXCEPT !.todo = T])
          BY <1>1 DEF AutoscaleRound
      <2>2. RowsOK' /\ JobsOK'
          BY <1>1, Snapped, JobsStay DEF AutoscaleRound
      <2> QED
          BY <1>1, <2>1, <2>2, NoCall, Moved DEF AutoscaleRound, NeedsLock, Inside, Launching
  <1>2. ASSUME NEW c \in Chute, NEW caller \in Caller, Wanted(t, c, caller) PROVE TypeInv'
      <2> DEFINE r == [Call("lock", caller, {c}) EXCEPT !.want = 1]
      <2>1. /\ r \in Calls /\ r.chute = {c} /\ r.pc = "lock" /\ r.dep = {} /\ r.job = NoJob
            /\ r.via = "scale"
          BY DEF Call, Calls, Pc, Caller
      <2>2. RowsOK' /\ JobsOK'
          BY <1>2, RowsStay, JobsStay DEF Wanted
      <2>3. Sets(t, r) /\ UNCHANGED lock /\ lock # t
          BY <1>2 DEF Wanted
      <2> HIDE DEF r
      <2> QED
          BY <2>1, <2>2, <2>3, CallIsOK, Moved DEF NeedsLock, Inside, Launching
  <1>3. ASSUME NEW d \in Dep, RollingUpdate(t, d) PROVE TypeInv'
      <2> DEFINE r == [Call("lock", "rolling", {row[d].chute}) EXCEPT !.dep = {d}]
      <2>1. row[d].chute \in Chute
          BY <1>3 DEF RollingUpdate, Active, RowsOK, Rows
      <2>2. /\ r \in Calls /\ r.chute = {row[d].chute} /\ r.pc = "lock" /\ r.by = "rolling"
            /\ r.job = NoJob /\ r.via = "scale"
          BY <2>1 DEF Call, Calls, Pc, Caller
      <2>3. RowsOK' /\ JobsOK'
          BY <1>3, RowsStay, JobsStay DEF RollingUpdate
      <2>4. Sets(t, r) /\ UNCHANGED lock /\ lock # t
          BY <1>3 DEF RollingUpdate
      <2> HIDE DEF r
      <2>5. CallOK(r)
          BY <2>1, <2>2 DEF CallOK
      <2> QED
          BY <2>2, <2>3, <2>4, <2>5, Moved DEF NeedsLock, Inside, Launching
  <1>4. ASSUME NEW j \in Job, JobCreated(t, j) PROVE TypeInv'
      <2>1. JobChute[j] \in Chute /\ j # NoJob
          BY NoneAssumption
      <2>2. PICK r : /\ r \in Calls /\ r.chute = {JobChute[j]} /\ r.pc \in {"choose", "token"}
                     /\ r.dep = {} /\ r.job = j /\ r.by = "job" /\ r.via # "scale" /\ Sets(t, r)
          <3> DEFINE r == [Call("choose", "job", {JobChute[j]}) EXCEPT !.job = j, !.via = "preempt"]
          <3>1. /\ r \in Calls /\ r.chute = {JobChute[j]} /\ r.pc = "choose"
                /\ r.dep = {} /\ r.job = j /\ r.by = "job" /\ r.via = "preempt"
              BY <2>1 DEF Call, Calls, Pc, Caller
          <3>2. \/ \E s \in Server : Sets(t, [r EXCEPT !.pc = "token", !.via = "run", !.server = {s}])
                \/ Sets(t, r)
              BY <1>4, <2>1, PlacementAssumption DEF JobCreated, Fits
          <3> HIDE DEF r
          <3>3. ASSUME NEW s \in Server
                PROVE  LET q == [r EXCEPT !.pc = "token", !.via = "run", !.server = {s}] IN
                       /\ q \in Calls /\ q.chute = {JobChute[j]} /\ q.pc = "token"
                       /\ q.dep = {} /\ q.job = j /\ q.by = "job" /\ q.via = "run"
              BY <3>1 DEF Calls, Pc
          <3> QED
              BY <3>1, <3>2, <3>3
      <2>3. RowsOK' /\ JobsOK'
          BY <1>4, RowsStay DEF JobCreated, JobsOK, JobState
      <2>4. CallOK(r) /\ ~NeedsLock(r)
          BY <2>1, <2>2, CallIsOK DEF NeedsLock, Inside
      <2>5. UNCHANGED lock /\ lock # t
          BY <1>4 DEF JobCreated
      <2> QED
          BY <2>2, <2>3, <2>4, <2>5, Moved
  <1>5. ASSUME NEW j \in Job, JobDeleted(t, j) PROVE TypeInv'
      <2>1. PICK d \in Dep : Sets(t, [Call("kill", "deleted", {}) EXCEPT !.victims = {d}])
          BY <1>5 DEF JobDeleted, RowsOK
      <2> DEFINE r == [Call("kill", "deleted", {}) EXCEPT !.victims = {d}]
      <2>2. /\ r \in Calls /\ r.pc = "kill" /\ r.dep = {} /\ r.job = NoJob /\ r.via = "scale"
            /\ r.by = "deleted"
          BY DEF Call, Calls, Pc, Caller
      <2>3. RowsOK' /\ JobsOK'
          BY <1>5, RowsStay, JobsStay DEF JobDeleted
      <2> HIDE DEF r
      <2>4. CallOK(r)
          BY <2>2 DEF CallOK
      <2> QED
          BY <1>5, <2>1, <2>2, <2>3, <2>4, Moved DEF JobDeleted, NeedsLock, Inside, Launching, r
  <1> QED
      BY <1>1, <1>2, <1>3, <1>4, <1>5 DEF Start

\* The steps that keep to the lock they have or do without: the autoscaler's and those
\* of scale_chute, rolling_update and preempting_deploy that go on.
GoesOn(t) ==
    \/ AutoscaleCount(t) \/ Token(t) \/ ScaleDeployed(t)
    \/ \E c \in Chute : AutoscaleNext(t, c)
    \/ \E d \in Dep : ScaleDown(t, d) \/ UndeploySkipped(t, d) \/ Undeploy(t, d)
    \/ \E s \in Server : ScaleUp(t, s)
                         \/ \E V \in SUBSET Dep : Choose(t, s, V)
                         \/ \E d \in Dep : DeployClaim(t, d, s)

\* ... and those that may return or raise.
Ends(t) ==
    \/ ScaleReached(t) \/ ScaleDownImpossible(t) \/ ScaleUpImpossible(t)
    \/ \E d \in Dep : UndeployRaises(t, d)
    \/ \E s \in Server : RollingReload(t, s)
    \/ RollingNothing(t) \/ ChooseNone(t) \/ TokenFails(t) \/ DeployReturns(t)
    \/ ScaleFails(t) \/ RollingFails(t) \/ PreemptFails(t) \/ JobFails(t)
    \/ ExtraServicesFail(t)

LEMMA StepIs == \A t : Step(t) <=> GoesOn(t) \/ Ends(t)
  BY DEF Step, GoesOn, Ends

LEMMA AcquireCall ==
    ASSUME CallsOK, NEW t \in Task, Acquire(t)
    PROVE  \E r : /\ Sets(t, r) /\ CallOK(r) /\ r.pc \in {"scale", "replace"}
                  /\ r.job = task[t].job
  <1>1. CASE task[t].by # "rolling"
      <2> DEFINE r == [task[t] EXCEPT !.pc = "scale"]
      <2>1. CallOK(r) /\ r.pc = "scale" /\ r.job = task[t].job
          BY <1>1 DEF Acquire, At, CallsOK, CallOK, Calls, Pc
      <2> QED
          BY <1>1, <2>1 DEF Acquire
  <1>2. CASE task[t].by = "rolling"
      <2> DEFINE r == [task[t] EXCEPT !.pc = "replace", !.victims = task[t].dep, !.dep = {}]
      <2>1. CallOK(r) /\ r.pc = "replace" /\ r.job = task[t].job
          BY <1>2 DEF Acquire, At, CallsOK, CallOK, Calls, Pc
      <2> QED
          BY <1>2, <2>1 DEF Acquire
  <1> QED
      BY <1>1, <1>2

LEMMA AcquireType ==
    ASSUME TypeInv, NEW t \in Task, Acquire(t)
    PROVE  TypeInv'
  <1>. CallsOK /\ RowsOK /\ JobsOK /\ task \in [Task -> Calls]
      BY TypeParts DEF TypeInv, TypeOK
  <1>1. PICK r : /\ Sets(t, r) /\ CallOK(r) /\ r.pc \in {"scale", "replace"}
      BY AcquireCall
  <1>2. RowsOK' /\ JobsOK'
      BY RowsStay, JobsStay DEF Acquire
  <1>3. CallsOK' /\ task' \in [Task -> Calls]
      BY <1>1 DEF CallsOK, CallOK, Sets
  <1>4. LockKept'
      BY <1>1, NoneAssumption DEF Acquire, TypeInv, LockKept, Sets, Inside
  <1> QED
      BY <1>1, <1>2, <1>3, <1>4 DEF Acquire, Sets, TypeInv, TypeOK, RowsOK, JobsOK, At

\* A coroutine after the undeploy of one of its victims.
UndeployedOf(t, d) == [Undeployed(t, task[t].victims \ {d}) EXCEPT
                         !.server = IF At(t, "replace") THEN {row[d].server} ELSE @]

LEMMA UndeployedCall ==
    ASSUME TypeInv, NEW t \in Task, NEW d \in Dep, Undeploying(t, d),
           NEW r, r = UndeployedOf(t, d)
    PROVE  /\ CallOK(r) /\ r.job \in {task[t].job, NoJob}
           /\ r.pc \in {task[t].pc, "idle"} \/ (At(t, "down") /\ r.pc = "scale")
                \/ (At(t, "replace") /\ r.pc = "reload") \/ (At(t, "evict") /\ r.pc = "deploy")
           /\ r.pc = "idle" => At(t, "kill")
           /\ r.pc # "idle" => /\ r.job = task[t].job /\ r.chute = task[t].chute
                               /\ r.want = task[t].want /\ r.via = task[t].via
                               /\ r.by = task[t].by
  <1> DEFINE V == task[t].victims \ {d}
  <1>. CallOK(task[t]) /\ task[t] \in Calls /\ RowsOK
      BY TypeParts DEF TypeInv, CallsOK, CallOK
  <1>1. At(t, "replace") => row[d].server \in Server
      BY DEF Undeploying, RowsOK, Rows
  <1>2. PICK q : /\ q = Undeployed(t, V) /\ q \in Calls
                 /\ q = Idle \/ (/\ q.job = task[t].job /\ q.chute = task[t].chute
                                 /\ q.want = task[t].want /\ q.via = task[t].via
                                 /\ q.by = task[t].by /\ q.dep = {})
                 /\ \/ q = Idle /\ At(t, "kill")
                    \/ q.pc = task[t].pc
                    \/ At(t, "down") /\ q.pc = "scale"
                    \/ At(t, "replace") /\ q.pc = "reload"
                    \/ At(t, "evict") /\ q.pc = "deploy"
      <2>1. V \in SUBSET Dep
          BY DEF Calls
      <2>2. task[t].pc \in {"down", "replace", "evict", "kill"} /\ task[t].dep = {}
          BY DEF Undeploying, CallOK
      <2>3. CASE V # {}
          <3> DEFINE q == [task[t] EXCEPT !.victims = V]
          <3>1. Undeployed(t, V) = q
              BY <2>3 DEF Undeployed
          <3>2. /\ q \in Calls /\ q.job = task[t].job /\ q.chute = task[t].chute
                /\ q.want = task[t].want /\ q.via = task[t].via /\ q.by = task[t].by
                /\ q.dep = {} /\ q.pc = task[t].pc
              BY <2>1, <2>2 DEF Calls
          <3> HIDE DEF q
          <3> QED
              BY <3>1, <3>2
      <2>4. CASE V = {} /\ At(t, "down")
          <3> DEFINE q == [task[t] EXCEPT !.pc = "scale", !.victims = V, !.ok = TRUE]
          <3>1. Undeployed(t, V) = q
              BY <2>4 DEF Undeployed, At
          <3>2. /\ q \in Calls /\ q.job = task[t].job /\ q.chute = task[t].chute
                /\ q.want = task[t].want /\ q.via = task[t].via /\ q.by = task[t].by
                /\ q.dep = {} /\ q.pc = "scale"
              BY <2>1, <2>2 DEF Calls, Pc
          <3> HIDE DEF q
          <3> QED
              BY <2>4, <3>1, <3>2
      <2>5. CASE V = {} /\ At(t, "replace")
          <3> DEFINE q == [task[t] EXCEPT !.pc = "reload", !.victims = V]
          <3>1. Undeployed(t, V) = q
              BY <2>5 DEF Undeployed, At
          <3>2. /\ q \in Calls /\ q.job = task[t].job /\ q.chute = task[t].chute
                /\ q.want = task[t].want /\ q.via = task[t].via /\ q.by = task[t].by
                /\ q.dep = {} /\ q.pc = "reload"
              BY <2>1, <2>2 DEF Calls, Pc
          <3> HIDE DEF q
          <3> QED
              BY <2>5, <3>1, <3>2
      <2>6. CASE V = {} /\ At(t, "evict")
          <3> DEFINE q == [task[t] EXCEPT !.pc = "deploy", !.victims = V]
          <3>1. Undeployed(t, V) = q
              BY <2>6 DEF Undeployed, At
          <3>2. /\ q \in Calls /\ q.job = task[t].job /\ q.chute = task[t].chute
                /\ q.want = task[t].want /\ q.via = task[t].via /\ q.by = task[t].by
                /\ q.dep = {} /\ q.pc = "deploy"
              BY <2>1, <2>2 DEF Calls, Pc
          <3> HIDE DEF q
          <3> QED
              BY <2>6, <3>1, <3>2
      <2>7. CASE V = {} /\ At(t, "kill")
          <3>1. Idle \in Calls
              BY NoCall DEF CallOK
          <3> QED
              BY <2>7, <3>1 DEF Undeployed, At
      <2> QED
          BY <2>2, <2>3, <2>4, <2>5, <2>6, <2>7 DEF At
  <1>3. Idle.pc = "idle" /\ Idle.job = NoJob /\ CallOK(Idle)
      BY NoCall DEF Idle, Call
  <1>4. PICK S \in SUBSET Server : r = [q EXCEPT !.server = S]
      <2>1. CASE At(t, "replace")
          <3>1. r = [q EXCEPT !.server = {row[d].server}] /\ {row[d].server} \in SUBSET Server
              BY <1>1, <1>2, <2>1 DEF UndeployedOf
          <3> QED
              BY <3>1
      <2>2. CASE ~At(t, "replace")
          <3>1. r = [q EXCEPT !.server = q.server] /\ q.server \in SUBSET Server
              BY <1>2, <2>2 DEF Calls, UndeployedOf
          <3> QED
              BY <3>1
      <2> QED
          BY <2>1, <2>2
  <1>5. /\ r \in Calls /\ r.pc = q.pc /\ r.job = q.job /\ r.chute = q.chute /\ r.want = q.want
        /\ r.via = q.via /\ r.by = q.by /\ r.dep = q.dep
      BY <1>2, <1>4 DEF Calls
  <1>6. CASE q = Idle /\ At(t, "kill")
      BY <1>3, <1>5, <1>6 DEF CallOK
  <1>7. CASE ~(q = Idle /\ At(t, "kill"))
      <2>1. q # Idle
          BY <1>2, <1>3, <1>7 DEF Undeploying, At
      <2>2. /\ r.job = task[t].job /\ r.chute = task[t].chute /\ r.want = task[t].want
            /\ r.via = task[t].via /\ r.by = task[t].by /\ r.dep = {}
          BY <1>2, <1>5, <2>1
      <2>3. r.pc = task[t].pc \/ (At(t, "down") /\ r.pc = "scale")
                \/ (At(t, "replace") /\ r.pc = "reload") \/ (At(t, "evict") /\ r.pc = "deploy")
          BY <1>2, <1>5, <1>7
      <2>4. task[t].pc \in {"down", "replace", "evict", "kill"}
          BY DEF Undeploying
      <2> QED
          BY <1>5, <2>2, <2>3, <2>4 DEF CallOK, At
  <1> QED
      BY <1>6, <1>7

\* Where a coroutine that goes on goes, and what it keeps.
Moves(p, q) ==
    \/ p = "count" /\ q = "lock"
    \/ p = "scale" /\ q \in {"down", "token"}
    \/ p = "choose" /\ q = "token"
    \/ p = "token" /\ q \in {"evict", "deploy"}
    \/ p = "deploy" /\ q = "boot"
    \/ p = "boot" /\ q = "scale"
    \/ p = "down" /\ q \in {"down", "scale"}
    \/ p = "replace" /\ q \in {"replace", "reload"}
    \/ p = "evict" /\ q \in {"evict", "deploy"}

Going(t, r) ==
    /\ CallOK(r)
    /\ \/ /\ task[t].pc \in {"round", "kill"} /\ r.pc \in {"idle", "round", "count", "kill"}
          /\ r.job \in {task[t].job, NoJob}
       \/ /\ Moves(task[t].pc, r.pc)
          /\ r.job = task[t].job /\ r.via = task[t].via /\ r.by = task[t].by
          /\ r.chute = task[t].chute
          /\ task[t].pc # "count" => r.want = task[t].want
    /\ At(t, "boot") => Scaling(t)

LEMMA GoesOnCall ==
    ASSUME TypeInv, NEW t \in Task, GoesOn(t)
    PROVE  \E r : Going(t, r) /\ Sets(t, r) /\ UNCHANGED lock
  <1>. CallsOK /\ RowsOK /\ JobsOK /\ CallOK(task[t]) /\ task[t] \in Calls
      BY TypeParts DEF TypeInv, CallsOK, CallOK
  <1>1. CASE AutoscaleCount(t)
      <2> DEFINE n == Count(Chute1(t)) + 1
                 r == [task[t] EXCEPT !.pc = "lock", !.want = n]
      <2>1. n \in Nat
          BY Countable
      <2> HIDE DEF n
      <2>2. CallOK(r)
          BY <1>1, <2>1 DEF AutoscaleCount, At, CallOK, Calls, Pc
      <2>3. Going(t, r)
          BY <1>1, <2>1, <2>2 DEF AutoscaleCount, At, Calls, Going, Moves
      <2> QED
          BY <1>1, <2>3 DEF AutoscaleCount, n
  <1>2. CASE Token(t)
      <2> DEFINE pc == IF task[t].victims = {} THEN "deploy" ELSE "evict"
                 r == [task[t] EXCEPT !.pc = pc]
      <2>1. pc \in {"deploy", "evict"}
          OBVIOUS
      <2> HIDE DEF pc
      <2>2. CallOK(r)
          BY <1>2, <2>1 DEF Token, At, CallOK, Calls, Pc
      <2>3. Going(t, r)
          BY <1>2, <2>1, <2>2 DEF Token, At, Calls, Going, Moves
      <2> QED
          BY <1>2, <2>3 DEF Token, pc
  <1>3. CASE ScaleDeployed(t)
      <2> DEFINE r == [task[t] EXCEPT !.pc = "scale", !.ok = TRUE, !.server = {}, !.dep = {}]
      <2>1. CallOK(r)
          BY <1>3 DEF ScaleDeployed, Deployed, At, CallOK, Calls, Pc
      <2>2. Going(t, r)
          BY <1>3, <2>1 DEF ScaleDeployed, Deployed, At, Calls, Going, Moves
      <2> QED
          BY <1>3, <2>2 DEF ScaleDeployed
  <1>4. ASSUME NEW c \in Chute, AutoscaleNext(t, c)
        PROVE  \E r : Going(t, r) /\ Sets(t, r) /\ UNCHANGED lock
      <2> DEFINE T == task[t].todo \ {c}
                 r == [Call("count", "auto", {c}) EXCEPT !.todo = T]
                 q == [Call("round", "auto", {}) EXCEPT !.todo = T]
      <2>1. T \in SUBSET Chute
          BY DEF Calls
      <2>2. /\ r \in Calls /\ r.chute = {c} /\ r.pc = "count" /\ r.dep = {} /\ r.job = NoJob
            /\ r.via = "scale"
          BY <2>1 DEF Call, Calls, Pc, Caller
      <2>3. Sets(t, r) \/ Sets(t, Idle) \/ Sets(t, q)
          BY <1>4 DEF AutoscaleNext
      <2>4. CallOK(Idle) /\ Idle.pc = "idle" /\ Idle.job = NoJob
          BY NoCall DEF Idle, Call
      <2>5. CallOK(q) /\ q.pc = "round" /\ q.job = NoJob
          BY <2>1, NoCall DEF Call
      <2> HIDE DEF r, q
      <2>6. CallOK(r)
          BY <2>2, CallIsOK
      <2>7. At(t, "round") /\ UNCHANGED lock
          BY <1>4 DEF AutoscaleNext
      <2> QED
          BY <2>2, <2>3, <2>4, <2>5, <2>6, <2>7 DEF Going, At
  <1>5. ASSUME NEW d \in Dep, ScaleDown(t, d)
        PROVE  \E r : Going(t, r) /\ Sets(t, r) /\ UNCHANGED lock
      <2> DEFINE r == [task[t] EXCEPT !.pc = "down", !.victims = {d}]
      <2>1. CallOK(r)
          BY <1>5 DEF ScaleDown, At, CallOK, Calls, Pc
      <2>2. Going(t, r)
          BY <1>5, <2>1 DEF ScaleDown, At, Calls, Going, Moves
      <2> QED
          BY <1>5, <2>2 DEF ScaleDown
  <1>6. ASSUME NEW d \in Dep, UndeploySkipped(t, d) \/ Undeploy(t, d)
        PROVE  \E r : Going(t, r) /\ Sets(t, r) /\ UNCHANGED lock
      <2> DEFINE r == UndeployedOf(t, d)
      <2>1. Undeploying(t, d) /\ Sets(t, r) /\ UNCHANGED lock
          BY <1>6 DEF UndeploySkipped, Undeploy, UndeployedOf
      <2>2. /\ CallOK(r) /\ r.job \in {task[t].job, NoJob}
            /\ r.pc \in {task[t].pc, "idle"} \/ (At(t, "down") /\ r.pc = "scale")
                 \/ (At(t, "replace") /\ r.pc = "reload") \/ (At(t, "evict") /\ r.pc = "deploy")
            /\ r.pc = "idle" => At(t, "kill")
            /\ r.pc # "idle" => /\ r.job = task[t].job /\ r.chute = task[t].chute
                                /\ r.want = task[t].want /\ r.via = task[t].via
                                /\ r.by = task[t].by
          BY <2>1, UndeployedCall
      <2>3. task[t].pc \in {"down", "replace", "evict", "kill"}
          BY <2>1 DEF Undeploying
      <2>4. Going(t, r)
          BY <2>2, <2>3 DEF Going, Moves, At
      <2> QED
          BY <2>1, <2>4
  <1>7. ASSUME NEW s \in Server, ScaleUp(t, s)
        PROVE  \E r : Going(t, r) /\ Sets(t, r) /\ UNCHANGED lock
      <2> DEFINE r == [task[t] EXCEPT !.pc = "token", !.server = {s}]
      <2>1. CallOK(r)
          BY <1>7 DEF ScaleUp, At, CallOK, Calls, Pc
      <2>2. Going(t, r)
          BY <1>7, <2>1 DEF ScaleUp, At, Calls, Going, Moves
      <2> QED
          BY <1>7, <2>2 DEF ScaleUp
  <1>8. ASSUME NEW s \in Server, NEW V \in SUBSET Dep, Choose(t, s, V)
        PROVE  \E r : Going(t, r) /\ Sets(t, r) /\ UNCHANGED lock
      <2> DEFINE r == [task[t] EXCEPT !.pc = "token", !.server = {s}, !.victims = V]
      <2>1. CallOK(r)
          BY <1>8 DEF Choose, At, CallOK, Calls, Pc
      <2>2. Going(t, r)
          BY <1>8, <2>1 DEF Choose, At, Calls, Going, Moves
      <2> QED
          BY <1>8, <2>2 DEF Choose
  <1>9. ASSUME NEW s \in Server, NEW d \in Dep, DeployClaim(t, d, s)
        PROVE  \E r : Going(t, r) /\ Sets(t, r) /\ UNCHANGED lock
      <2> DEFINE r == [task[t] EXCEPT !.pc = "boot", !.dep = {d}]
      <2>1. CallOK(r)
          BY <1>9 DEF DeployClaim, At, CallOK, Calls, Pc
      <2>2. Going(t, r)
          BY <1>9, <2>1 DEF DeployClaim, At, Calls, Going, Moves
      <2> QED
          BY <1>9, <2>2 DEF DeployClaim
  <1> QED
      BY <1>1, <1>2, <1>3, <1>4, <1>5, <1>6, <1>7, <1>8, <1>9 DEF GoesOn

LEMMA GoesOnType ==
    ASSUME TypeInv, NEW t \in Task, GoesOn(t)
    PROVE  TypeInv'
  <1>. RowsOK /\ JobsOK /\ task[t] \in Calls
      BY TypeParts DEF TypeInv, TypeOK
  <1>1. RowsOK' /\ JobsOK'
      <2>1. CASE Token(t)
          <3>1. task[t].job \in Job \cup {NoJob}
              BY DEF Calls
          <3> QED
              BY <2>1, <3>1, RowsStay DEF Token, JobsOK, JobState
      <2>2. ASSUME NEW d \in Dep, Undeploy(t, d) PROVE RowsOK' /\ JobsOK'
          BY <2>2, RowsGo, EndedType DEF Undeploy, Remove, JobsOK
      <2>3. ASSUME NEW d \in Dep, NEW s \in Server, DeployClaim(t, d, s) PROVE RowsOK' /\ JobsOK'
          <3>1. Chute1(t) \in Chute
              BY <2>3, ChuteOfCall DEF DeployClaim, At, TypeInv
          <3>2. task[t].job \in Job \cup {NoJob}
              BY DEF Calls
          <3> DEFINE new == [chute |-> Chute1(t), server |-> s, runs |-> task[t].job, age |-> "boot",
                             job |-> IF task[t].via = "run" THEN task[t].job ELSE NoJob]
          <3>3. new \in Rows
              BY <3>1, <3>2 DEF Rows
          <3>4. /\ row' = [e \in rows \cup {d} |-> IF e \in rows THEN row[e] ELSE new]
                /\ fresh' = fresh \ {d} /\ d \in fresh /\ UNCHANGED seen
              BY <2>3 DEF DeployClaim
          <3> HIDE DEF new
          <3>5. RowsOK'
              BY <3>3, <3>4 DEF RowsOK, rows
          <3> QED
              BY <2>3, <3>5, JobsStay DEF DeployClaim
      <2> QED
          BY <2>1, <2>2, <2>3, RowsStay, JobsStay
          DEF GoesOn, AutoscaleCount, ScaleDeployed, AutoscaleNext, ScaleDown, UndeploySkipped,
              ScaleUp, Choose
  <1>2. PICK r : Going(t, r) /\ Sets(t, r) /\ UNCHANGED lock
      BY GoesOnCall
  <1>3. NeedsLock(r) => NeedsLock(task[t])
      BY <1>2 DEF Going, Moves, NeedsLock, Inside, Launching, TypeInv, CallsOK, CallOK, At, Scaling
  <1>4. lock = t => r.pc \in Inside \cup Launching
      BY <1>2, Holding DEF Going, Moves, Inside, Launching
  <1> QED
      BY <1>1, <1>2, <1>3, <1>4, Moved DEF Going, TypeInv, LockKept

\* A step that may end a call does so, or goes on to a preemption or a token.
GoesElsewhere(t, r) ==
    /\ CallOK(r) /\ Sets(t, r) /\ UNCHANGED lock
    /\ \/ At(t, "scale") /\ r.pc = "choose"
       \/ At(t, "reload") /\ r.pc = "token" /\ r.by = "rolling"
    /\ r.job = task[t].job

LEMMA EndsCall ==
    ASSUME TypeInv, NEW t \in Task, Ends(t)
    PROVE  \E r : Leaves(t, r) \/ GoesElsewhere(t, r)
  <1>. CallsOK /\ CallOK(task[t]) /\ task[t] \in Calls
      BY DEF TypeInv, CallsOK, CallOK
  <1>1. CASE ScaleUpImpossible(t) /\ task[t].by = "bounty"
      <2> DEFINE r == [task[t] EXCEPT !.pc = "choose", !.via = "preempt"]
      <2>1. CallOK(r)
          BY <1>1 DEF ScaleUpImpossible, At, CallOK, Calls, Pc
      <2>2. r.pc = "choose" /\ r.job = task[t].job
          BY DEF Calls
      <2>3. At(t, "scale") /\ Sets(t, r) /\ UNCHANGED lock
          BY <1>1 DEF ScaleUpImpossible
      <2> QED
          BY <2>1, <2>2, <2>3 DEF GoesElsewhere
  <1>2. ASSUME NEW s \in Server, RollingReload(t, s), ~\E ok : Return(t, ok)
        PROVE  \E r : GoesElsewhere(t, r)
      <2> DEFINE r == [task[t] EXCEPT !.pc = "token"]
      <2>1. At(t, "reload") /\ Sets(t, r) /\ UNCHANGED lock
          BY <1>2 DEF RollingReload
      <2>2. CallOK(r) /\ r.pc = "token" /\ r.by = "rolling" /\ r.job = task[t].job
          BY <2>1 DEF At, CallOK, Calls, Pc
      <2> QED
          BY <2>1, <2>2 DEF GoesElsewhere
  <1>3. ASSUME ~(ScaleUpImpossible(t) /\ task[t].by = "bounty"),
               ~\E s \in Server : RollingReload(t, s)
        PROVE  (\E ok : Return(t, ok)) \/ Raise(t)
      BY <1>3 DEF Ends, ScaleReached, ScaleDownImpossible, ScaleUpImpossible, UndeployRaises,
                  RollingNothing, ChooseNone, TokenFails, DeployReturns, ScaleFails, RollingFails,
                  PreemptFails, JobFails, ExtraServicesFail
  <1> QED
      BY <1>1, <1>2, <1>3, ReturnLeaves

LEMMA EndsType ==
    ASSUME TypeInv, NEW t \in Task, Ends(t)
    PROVE  TypeInv'
  <1>. RowsOK /\ JobsOK /\ task[t] \in Calls
      BY TypeParts DEF TypeInv, TypeOK
  <1>0. task[t].job \in Job \cup {NoJob}
      BY DEF Calls
  <1>1. RowsOK' /\ JobsOK'
      <2>1. ASSUME NEW d \in Dep, UndeployRaises(t, d) PROVE RowsOK' /\ JobsOK'
          <3>1. jobs' \in [Job -> JobState]
              BY <2>1, EndedType, ReleasedType DEF UndeployRaises
          <3>2. RowsOK'
              BY <2>1, RowsGo DEF UndeployRaises
          <3> QED
              BY <2>1, <3>1, <3>2, FaultCounted DEF UndeployRaises, JobsOK
      <2>2. ASSUME Dropped(t), UNCHANGED <<fresh, seen>> PROVE RowsOK'
          BY <2>2, RowsGo, RowsStay DEF Dropped
      <2>3. ASSUME ReleaseJob(t), UNCHANGED healthy PROVE JobsOK'
          <3>1. CASE jobs' = Released(jobs, task[t].job) /\ UNCHANGED <<stuck, faults>>
              BY <2>3, <3>1, ReleasedType DEF JobsOK
          <3>2. CASE /\ Fault /\ task[t].job # NoJob /\ stuck' = stuck \cup {task[t].job}
                     /\ UNCHANGED jobs
              BY <1>0, <2>3, <3>2, FaultCounted DEF JobsOK
          <3> QED
              BY <2>3, <3>1, <3>2 DEF ReleaseJob
      <2>4. CASE ScaleFails(t) \/ RollingFails(t)
          BY <2>2, <2>4, JobsStay DEF ScaleFails, RollingFails
      <2>5. CASE PreemptFails(t)
          BY <2>2, <2>3, <2>5 DEF PreemptFails
      <2>6. CASE JobFails(t)
          BY <2>3, <2>6, RowsGo DEF JobFails
      <2>7. CASE ExtraServicesFail(t)
          BY <1>0, <2>7, FaultCounted, RowsStay DEF ExtraServicesFail, JobsOK
      <2> QED
          BY <2>1, <2>4, <2>5, <2>6, <2>7, RowsStay, JobsStay
          DEF Ends, ScaleReached, ScaleDownImpossible, ScaleUpImpossible, RollingReload,
              RollingNothing, ChooseNone, TokenFails, DeployReturns
  <1>2. PICK r : Leaves(t, r) \/ GoesElsewhere(t, r)
      BY EndsCall
  <1>3. CASE Leaves(t, r)
      BY <1>1, <1>3, Gone
  <1>4. CASE GoesElsewhere(t, r)
      <2>1. lock = t
          BY <1>4 DEF GoesElsewhere, TypeInv, LockKept, NeedsLock, Inside, At
      <2> QED
          BY <1>1, <1>4, <2>1, Moved DEF GoesElsewhere, Launching
  <1> QED
      BY <1>2, <1>3, <1>4

LEMMA WorldType ==
    ASSUME TypeInv, World
    PROVE  TypeInv'
  <1>. RowsOK /\ JobsOK
      BY TypeParts
  <1>1. UNCHANGED <<task, lock>>
      BY DEF World, Ages, Deleted, JobEnds, ClusterLost, ClusterBack, Refresh
  <1>2. RowsOK'
      <2>1. ASSUME NEW d \in Dep, Ages(d) PROVE RowsOK'
          <3>1. PICK a \in {"young", "old"} : row' = [row EXCEPT ![d].age = a]
              BY <2>1 DEF Ages
          <3> QED
              BY <2>1, <3>1 DEF Ages, RowsOK, rows, Rows
      <2>2. ASSUME NEW d \in Dep, Deleted(d) PROVE RowsOK'
          BY <2>2, RowsGo DEF Deleted, Remove
      <2>3. CASE Refresh
          BY <2>3, Snapped DEF Refresh
      <2> QED
          BY <2>1, <2>2, <2>3, RowsStay DEF World, JobEnds, ClusterLost, ClusterBack
  <1>3. JobsOK'
      <2>1. ASSUME NEW d \in Dep, Deleted(d) PROVE JobsOK'
          BY <2>1, EndedType DEF Deleted, Remove, JobsOK
      <2>2. ASSUME NEW j \in Job, JobEnds(j) PROVE JobsOK'
          BY <2>2 DEF JobEnds, JobsOK, JobState
      <2>3. ASSUME NEW s \in Server, ClusterLost(s) \/ ClusterBack(s) PROVE JobsOK'
          BY <2>3, FaultCounted DEF ClusterLost, ClusterBack, JobsOK
      <2> QED
          BY <2>1, <2>2, <2>3, JobsStay DEF World, Ages, Refresh
  <1> QED
      BY <1>1, <1>2, <1>3, Still

LEMMA NextType == TypeInv /\ [Next]_vars => TypeInv'
  <1> SUFFICES ASSUME TypeInv, [Next]_vars PROVE TypeInv'
      OBVIOUS
  <1>1. CASE UNCHANGED vars
      BY <1>1, TypeParts, RowsStay, JobsStay, Still DEF vars
  <1>2. CASE Next
      BY <1>2, StartType, AcquireType, StepIs, GoesOnType, EndsType, WorldType DEF Next
  <1> QED
      BY <1>1, <1>2

\* Type correctness, and whoever holds _scale_lock is a coroutine at work.
THEOREM TypeCorrect == Spec => []TypeOK
  <1>1. TypeInv => TypeOK
      BY DEF TypeInv
  <1> QED
      BY <1>1, InitType, NextType, PTL DEF Spec

-----------------------------------------------------------------------------
(* Jobs.                                                                     *)

\* Rows that stay are of the same launch.
RowsFade ==
    /\ fresh' = fresh /\ rows' \subseteq rows
    /\ \A d \in rows' : /\ row'[d].chute = row[d].chute /\ row'[d].job = row[d].job
                        /\ row'[d].runs = row[d].runs

LEMMA Fading ==
    ASSUME NEW D, row' = row \/ row' = [d \in rows \ D |-> row[d]], UNCHANGED fresh
    PROVE  RowsFade
  BY DEF RowsFade, rows

\* What the helpers do to a job that is held.
LEMMA EndedJobs ==
    ASSUME JobsOK, NEW D, NEW j \in Job
    PROVE  /\ Ended(D)[j] = "held" => jobs[j] = "held" /\ \A d \in D \cap rows : row[d].runs # j
           /\ Ended(D)[j] \in {jobs[j], "ended"}
           /\ Ended(D)[j] = "ended" => jobs[j] \in {"held", "ended"}
  BY DEF JobsOK, Ended

LEMMA ReleasedJobs ==
    ASSUME NEW js \in [Job -> JobState], NEW i, NEW j \in Job
    PROVE  /\ Released(js, i)[j] = "held" => js[j] = "held" /\ j # i
           /\ j # i => Released(js, i)[j] = js[j]
           /\ js[j] # "new" => Released(js, i)[j] # "new"
  BY DEF Released

\* The jobs of others stay what they are, or end.
JobsGo(t) ==
    \A j \in Job : /\ jobs[j] # "new" => jobs'[j] # "new"
                   /\ jobs[j] \in {"held", "ended"} /\ j # task[t].job
                        => jobs'[j] \in {"held", "ended"}

\* What a step has to show of a job it leaves held.
LEMMA Accounted ==
    ASSUME JobAccounted, stuck \subseteq stuck',
           \A j \in Job : jobs'[j] = "held" => jobs[j] = "held" \/ Working(j)',
           \A j \in Job : Working(j) /\ jobs'[j] = "held"
               => Working(j)' \/ j \in stuck' \/ \E d \in rows' : row'[d].runs = j,
           \A d \in rows : \/ d \in rows' /\ row'[d].runs = row[d].runs
                           \/ row[d].runs \in Job => \/ jobs'[row[d].runs] # "held"
                                                     \/ row[d].runs \in stuck'
    PROVE  JobAccounted'
  <1> SUFFICES ASSUME NEW j \in Job, jobs'[j] = "held", j \notin stuck', ~Working(j)'
               PROVE  \E d \in rows' : row'[d].runs = j
      BY DEF JobAccounted
  <1>1. jobs[j] = "held" /\ j \notin stuck /\ (Working(j) => \E d \in rows' : row'[d].runs = j)
      OBVIOUS
  <1>2. CASE Working(j)
      BY <1>1, <1>2
  <1>3. CASE ~Working(j)
      BY <1>1, <1>3 DEF JobAccounted
  <1> QED
      BY <1>2, <1>3

LEMMA Launched ==
    ASSUME TypeInv, LaunchedFor, NEW t \in Task, NEW r, Sets(t, r), RowsFade, r.pc # "boot"
    PROVE  LaunchedFor'
  BY DEF TypeInv, TypeOK, LaunchedFor, Sets, RowsFade, At, rows

LEMMA Apart ==
    ASSUME TypeInv, JobsApart, NEW t \in Task, NEW r, Sets(t, r), JobsGo(t),
           r.job \in {task[t].job, NoJob},
           r.pc = "evict" /\ r.job \in Job => jobs'[r.job] \in {"held", "ended"}
    PROVE  JobsApart'
  <1> USE NoneAssumption DEF TypeInv, TypeOK, JobsApart, Sets, JobsGo, At
  <1>1. (\A v, u \in Task : task[v].job \in Job /\ task[v].job = task[u].job => v = u)'
      OBVIOUS
  <1>2. (\A u \in Task : task[u].job \in Job => jobs[task[u].job] # "new")'
      OBVIOUS
  <1>3. ASSUME NEW u \in Task, (At(u, "evict") /\ task[u].job \in Job)'
        PROVE  (jobs[task[u].job] \in {"held", "ended"})'
      <2>1. CASE u = t
          BY <1>3, <2>1
      <2>2. CASE u # t
          <3>1. task'[u] = task[u] /\ task[u].job # task[t].job
              BY <1>3, <2>2
          <3> QED
              BY <1>3, <3>1
      <2> QED
          BY <2>1, <2>2
  <1> QED
      BY <1>1, <1>2, <1>3

\* A handler begins with the job that has just been announced, or none.
LEMMA StartCall ==
    ASSUME NEW t \in Task, Start(t)
    PROVE  /\ At(t, "idle") /\ UNCHANGED <<row, fresh, stuck, lock>>
           /\ \E r : /\ Sets(t, r) /\ r.pc \in {"round", "lock", "choose", "token", "kill"}
                     /\ \/ r.job = NoJob /\ UNCHANGED jobs
                        \/ \E j \in Job : /\ jobs[j] = "new" /\ r.job = j
                                          /\ jobs' = [jobs EXCEPT ![j] = "open"]
                     /\ r.pc = "token" => r.via = "run"
  <1> DEFINE Begun == \E r : /\ Sets(t, r) /\ r.pc \in {"round", "lock", "choose", "token", "kill"}
                             /\ \/ r.job = NoJob /\ UNCHANGED jobs
                                \/ \E j \in Job : /\ jobs[j] = "new" /\ r.job = j
                                                  /\ jobs' = [jobs EXCEPT ![j] = "open"]
                             /\ r.pc = "token" => r.via = "run"
  <1>1. ASSUME NEW T, Sets(t, [Call("round", "auto", {}) EXCEPT !.todo = T]), UNCHANGED jobs
        PROVE  Begun
      <2>1. /\ [Call("round", "auto", {}) EXCEPT !.todo = T].pc = "round"
            /\ [Call("round", "auto", {}) EXCEPT !.todo = T].job = NoJob
          BY DEF Call
      <2> QED
          BY <1>1, <2>1
  <1>2. ASSUME NEW c, NEW caller, Sets(t, [Call("lock", caller, {c}) EXCEPT !.want = 1]),
               UNCHANGED jobs
        PROVE  Begun
      <2>1. /\ [Call("lock", caller, {c}) EXCEPT !.want = 1].pc = "lock"
            /\ [Call("lock", caller, {c}) EXCEPT !.want = 1].job = NoJob
          BY DEF Call
      <2> QED
          BY <1>2, <2>1
  <1>3. ASSUME NEW c, NEW d, Sets(t, [Call("lock", "rolling", {c}) EXCEPT !.dep = {d}]),
               UNCHANGED jobs
        PROVE  Begun
      <2>1. /\ [Call("lock", "rolling", {c}) EXCEPT !.dep = {d}].pc = "lock"
            /\ [Call("lock", "rolling", {c}) EXCEPT !.dep = {d}].job = NoJob
          BY DEF Call
      <2> QED
          BY <1>3, <2>1
  <1>4. ASSUME NEW d, Sets(t, [Call("kill", "deleted", {}) EXCEPT !.victims = {d}]),
               UNCHANGED jobs
        PROVE  Begun
      <2>1. /\ [Call("kill", "deleted", {}) EXCEPT !.victims = {d}].pc = "kill"
            /\ [Call("kill", "deleted", {}) EXCEPT !.victims = {d}].job = NoJob
          BY DEF Call
      <2> QED
          BY <1>4, <2>1
  <1>5. ASSUME NEW j \in Job, JobCreated(t, j) PROVE Begun
      <2> DEFINE r == [Call("choose", "job", {JobChute[j]}) EXCEPT !.job = j, !.via = "preempt"]
      <2>1. r.pc = "choose" /\ r.job = j
          BY DEF Call
      <2>2. ASSUME NEW s
            PROVE  LET q == [r EXCEPT !.pc = "token", !.via = "run", !.server = {s}] IN
                   q.pc = "token" /\ q.job = j /\ q.via = "run"
          BY DEF Call
      <2>3. /\ jobs[j] = "new" /\ jobs' = [jobs EXCEPT ![j] = "open"]
            /\ \/ \E s : Sets(t, [r EXCEPT !.pc = "token", !.via = "run", !.server = {s}])
               \/ Sets(t, r)
          BY <1>5 DEF JobCreated
      <2> HIDE DEF r
      <2>4. ASSUME NEW q, Sets(t, q), q.pc \in {"choose", "token"}, q.job = j,
                   q.pc = "token" => q.via = "run"
            PROVE  Begun
          BY <2>3, <2>4
      <2> HIDE DEF Begun
      <2>5. CASE Sets(t, r)
          BY <2>1, <2>4, <2>5
      <2>6. ASSUME NEW s, Sets(t, [r EXCEPT !.pc = "token", !.via = "run", !.server = {s}])
            PROVE  Begun
          BY <2>2, <2>4, <2>6
      <2> QED
          BY <2>3, <2>5, <2>6
  <1> HIDE DEF Begun
  <1>6. ASSUME \E d \in Dep : RollingUpdate(t, d) PROVE Begun
      BY <1>3, <1>6 DEF RollingUpdate
  <1>7. Begun
      BY <1>1, <1>2, <1>4, <1>5, <1>6 DEF Start, AutoscaleRound, Wanted, JobDeleted
  <1>8. At(t, "idle") /\ UNCHANGED <<row, fresh, stuck, lock>>
      BY DEF Start, AutoscaleRound, Wanted, RollingUpdate, JobCreated, JobDeleted
  <1> QED
      BY <1>7, <1>8 DEF Begun

LEMMA StartJobs ==
    ASSUME TypeInv, JobInv, NEW t \in Task, Start(t)
    PROVE  JobInv'
  <1>1. PICK r : /\ Sets(t, r) /\ r.pc \in {"round", "lock", "choose", "token", "kill"}
                 /\ \/ r.job = NoJob /\ UNCHANGED jobs
                    \/ \E j \in Job : /\ jobs[j] = "new" /\ r.job = j
                                      /\ jobs' = [jobs EXCEPT ![j] = "open"]
      BY StartCall
  <1>2. At(t, "idle") /\ UNCHANGED <<row, fresh, stuck>> /\ RowsFade
      BY StartCall DEF RowsFade, rows
  <1>3. LaunchedFor'
      BY <1>1, <1>2, Launched DEF JobInv
  <1>4. \A j \in Job : jobs'[j] = "held" => jobs[j] = "held"
      BY <1>1 DEF TypeInv, TypeOK
  <1>5. \A j \in Job : Working(j) => Working(j)'
      BY <1>1, <1>2 DEF Working, Sets, At, TypeInv, TypeOK
  <1>6. JobAccounted'
      BY <1>2, <1>4, <1>5, Accounted DEF JobInv, rows
  <1>7. JobsApart'
      <2>1. CASE r.job = NoJob /\ UNCHANGED jobs
          <3>1. JobsGo(t)
              BY <2>1 DEF JobsGo
          <3> QED
              BY <1>1, <2>1, <3>1, Apart, NoneAssumption DEF JobInv
      <2>2. ASSUME NEW j \in Job, jobs[j] = "new", r.job = j, jobs' = [jobs EXCEPT ![j] = "open"]
            PROVE  JobsApart'
          <3>1. \A u \in Task : u # t => task'[u] = task[u] /\ task[u].job # j
              BY <1>1, <2>2 DEF JobInv, JobsApart, Sets, TypeInv, TypeOK
          <3>2. task'[t] = r
              BY <1>1 DEF Sets, TypeInv, TypeOK
          <3>3. (\A v, u \in Task : task[v].job \in Job /\ task[v].job = task[u].job => v = u)'
              BY <2>2, <3>1, <3>2 DEF JobInv, JobsApart
          <3>4. (\A u \in Task : task[u].job \in Job => jobs[task[u].job] # "new")'
              BY <2>2, <3>1, <3>2 DEF JobInv, JobsApart, TypeInv, TypeOK
          <3>5. (\A u \in Task : At(u, "evict") /\ task[u].job \in Job
                                   => jobs[task[u].job] \in {"held", "ended"})'
              BY <1>1, <2>2, <3>1, <3>2 DEF JobInv, JobsApart, TypeInv, TypeOK, At
          <3> QED
              BY <3>3, <3>4, <3>5 DEF JobsApart
      <2> QED
          BY <1>1, <2>1, <2>2
  <1> QED
      BY <1>3, <1>6, <1>7 DEF JobInv

LEMMA AcquireJobs ==
    ASSUME TypeInv, JobInv, NEW t \in Task, Acquire(t)
    PROVE  JobInv'
  <1>1. PICK r : Sets(t, r) /\ r.pc \in {"scale", "replace"} /\ r.job = task[t].job
      BY AcquireCall DEF TypeInv
  <1>2. At(t, "lock") /\ UNCHANGED <<row, fresh, jobs, stuck>> /\ RowsFade /\ JobsGo(t)
      BY DEF Acquire, RowsFade, JobsGo, rows
  <1>3. LaunchedFor' /\ JobsApart'
      BY <1>1, <1>2, Launched, Apart DEF JobInv
  <1>4. \A j \in Job : Working(j) => Working(j)'
      BY <1>1, <1>2 DEF Working, Sets, At, TypeInv, TypeOK
  <1>5. JobAccounted'
      BY <1>2, <1>4, Accounted DEF JobInv, rows
  <1> QED
      BY <1>3, <1>5 DEF JobInv

\* A coroutine that goes on keeps working for its job.
LEMMA WorkGoesOn ==
    ASSUME TypeInv, NEW t \in Task, NEW r, Going(t, r), Sets(t, r), NEW j \in Job, Working(j)
    PROVE  Working(j)'
  <1>1. PICK u \in Task : task[u].job = j /\ task[u].pc \in {"evict", "deploy", "boot"}
      BY DEF Working
  <1>2. CASE u # t
      BY <1>1, <1>2 DEF Working, Sets, TypeInv, TypeOK
  <1>3. CASE u = t
      <2>1. ~At(t, "boot")
          BY <1>1, <1>3, NoneAssumption DEF Going, Scaling, TypeInv, CallsOK, CallOK
      <2>2. r.pc \in {"evict", "deploy", "boot"} /\ r.job = j
          BY <1>1, <1>3, <2>1 DEF Going, Moves, At
      <2> QED
          BY <2>2 DEF Working, Sets, TypeInv, TypeOK
  <1> QED
      BY <1>2, <1>3

LEMMA GoesOnJobs ==
    ASSUME TypeInv, JobInv, NEW t \in Task, GoesOn(t)
    PROVE  JobInv'
  <1>1. PICK r : Going(t, r) /\ Sets(t, r)
      BY GoesOnCall
  <1>2. r.job \in {task[t].job, NoJob}
      BY <1>1 DEF Going
  <1>3. \A j \in Job : Working(j) => Working(j)'
      BY <1>1, WorkGoesOn
  <1>4. task'[t] = r /\ task[t].job \in Job \cup {NoJob}
      BY <1>1 DEF Sets, TypeInv, TypeOK, Calls
  <1>5. At(t, "evict") /\ task[t].job \in Job => jobs[task[t].job] \in {"held", "ended"}
      BY DEF JobInv, JobsApart
  <1>6. CASE Token(t)
      <2>1. /\ UNCHANGED <<row, fresh, stuck>> /\ RowsFade
            /\ r.pc \in {"evict", "deploy"} /\ r.job = task[t].job
          BY <1>1, <1>6 DEF Token, RowsFade, rows, At, Going, Moves
      <2>2. /\ JobsGo(t)
            /\ task[t].job \in Job => jobs'[task[t].job] = "held"
            /\ \A j \in Job : jobs'[j] = "held" => jobs[j] = "held" \/ j = task[t].job
          BY <1>4, <1>6, NoneAssumption DEF Token, JobsGo, TypeInv, TypeOK
      <2>3. \A j \in Job : jobs'[j] = "held" => jobs[j] = "held" \/ Working(j)'
          BY <1>4, <2>1, <2>2 DEF Working
      <2>4. JobAccounted'
          BY <1>3, <2>1, <2>2, <2>3, Accounted DEF JobInv, rows
      <2>5. LaunchedFor' /\ JobsApart'
          BY <1>1, <1>2, <2>1, <2>2, Launched, Apart DEF JobInv
      <2> QED
          BY <2>4, <2>5 DEF JobInv
  <1>7. ASSUME NEW d \in Dep, Undeploy(t, d) PROVE JobInv'
      <2>1. /\ UNCHANGED <<fresh, stuck>> /\ jobs' = Ended({d}) /\ RowsFade
            /\ rows' = rows \ {d} /\ task[t].pc \in {"down", "replace", "evict", "kill"}
          BY <1>7, Fading DEF Undeploy, Remove, Undeploying, rows
      <2>2. /\ \A j \in Job : jobs'[j] = "held" => jobs[j] = "held" /\ (d \in rows => row[d].runs # j)
            /\ JobsGo(t)
            /\ \A j \in Job : jobs[j] \in {"held", "ended"} => jobs'[j] \in {"held", "ended"}
          BY <2>1, EndedJobs, TypeParts DEF JobsGo
      <2>3. JobAccounted'
          BY <1>3, <2>1, <2>2, Accounted DEF JobInv, RowsFade
      <2>4. /\ r.pc # "boot"
            /\ r.pc = "evict" => At(t, "evict") /\ r.job = task[t].job
          BY <1>1, <2>1 DEF Going, Moves, At
      <2>5. LaunchedFor' /\ JobsApart'
          BY <1>1, <1>2, <1>5, <2>1, <2>2, <2>4, Launched, Apart DEF JobInv
      <2> QED
          BY <2>3, <2>5 DEF JobInv
  <1>8. ASSUME NEW d \in Dep, NEW s \in Server, DeployClaim(t, d, s) PROVE JobInv'
      <2>1. /\ UNCHANGED <<jobs, stuck>> /\ JobsGo(t) /\ At(t, "deploy") /\ d \in fresh
            /\ fresh' = fresh \ {d} /\ rows' = rows \cup {d} /\ d \notin rows
            /\ \A e \in rows : row'[e] = row[e]
            /\ row'[d].runs = task[t].job
          BY <1>8 DEF DeployClaim, JobsGo, rows, TypeInv, TypeOK
      <2>2. r.dep = {d} /\ r.pc = "boot" /\ r.job = task[t].job
          BY <1>4, <1>8 DEF DeployClaim, Sets, TypeInv, TypeOK, Calls
      <2>3. JobAccounted'
          BY <1>3, <2>1, Accounted DEF JobInv
      <2>4. JobsApart'
          BY <1>1, <1>2, <2>1, <2>2, Apart DEF JobInv
      <2>5. ASSUME NEW u \in Task, At(u, "boot")', NEW e \in task'[u].dep
            PROVE  e \notin fresh' /\ (e \in rows' => row'[e].runs = task'[u].job)
          <3>1. CASE u = t
              BY <1>4, <2>1, <2>2, <2>5, <3>1
          <3>2. CASE u # t
              <4>1. task'[u] = task[u]
                  BY <1>1, <3>2 DEF Sets, TypeInv, TypeOK
              <4>2. e \notin fresh /\ (e \in rows => row[e].runs = task[u].job)
                  BY <2>5, <4>1 DEF JobInv, LaunchedFor, At
              <4> QED
                  BY <2>1, <4>1, <4>2
          <3> QED
              BY <3>1, <3>2
      <2>6. LaunchedFor'
          BY <2>5 DEF LaunchedFor
      <2> QED
          BY <2>3, <2>4, <2>6 DEF JobInv
  <1>9. ASSUME UNCHANGED <<row, fresh, jobs, stuck>>, task[t].pc \notin {"deploy", "token"}
        PROVE  JobInv'
      <2>1. RowsFade /\ JobsGo(t) /\ r.pc # "boot"
          BY <1>1, <1>9 DEF RowsFade, JobsGo, rows, Going, Moves
      <2>2. r.pc = "evict" => At(t, "evict")
          BY <1>1, <1>9 DEF Going, Moves, At
      <2>3. LaunchedFor' /\ JobsApart'
          <3>1. r.pc = "evict" => r.job = task[t].job
              BY <1>1 DEF Going
          <3> QED
              BY <1>1, <1>2, <1>5, <1>9, <2>1, <2>2, <3>1, Launched, Apart DEF JobInv
      <2>4. JobAccounted'
          BY <1>3, <1>9, Accounted DEF JobInv, rows
      <2> QED
          BY <2>3, <2>4 DEF JobInv
  <1> QED
      BY <1>6, <1>7, <1>8, <1>9
      DEF GoesOn, AutoscaleCount, ScaleDeployed, Deployed, AutoscaleNext, ScaleDown, ScaleUp, Choose,
          UndeploySkipped, Undeploying, At

\* What a step that may end a call does to rows and jobs, and the job it had.
EndsWell(t) ==
    /\ UNCHANGED fresh /\ RowsFade /\ JobsGo(t) /\ stuck \subseteq stuck'
    /\ \A j \in Job : jobs'[j] = "held" => jobs[j] = "held"
    /\ \A d \in rows \ rows' : row[d].runs \in Job
         => jobs'[row[d].runs] # "held" \/ row[d].runs \in stuck'
    /\ task[t].job \in Job /\ task[t].pc \in {"evict", "deploy", "boot"}
         => \/ jobs'[task[t].job] # "held" \/ task[t].job \in stuck'
            \/ \E d \in rows' : row'[d].runs = task[t].job

\* The rows of a coroutine that launches are of its job.
LEMMA OwnRows ==
    ASSUME TypeInv, LaunchedFor, NEW t \in Task, Failing(t), NEW d \in task[t].dep, d \in rows
    PROVE  row[d].runs = task[t].job
  BY DEF TypeInv, CallsOK, CallOK, LaunchedFor, Failing, At

LEMMA EndsEffects ==
    ASSUME TypeInv, JobInv, NEW t \in Task, Ends(t)
    PROVE  EndsWell(t)
  <1>. JobsOK /\ CallOK(task[t]) /\ task[t].job \in Job \cup {NoJob}
      BY TypeParts DEF TypeInv, CallsOK, CallOK, Calls
  <1>1. ASSUME UNCHANGED <<row, fresh, jobs, stuck>>,
               task[t].pc \notin {"evict", "deploy", "boot"} \/ Deployed(t)
        PROVE  EndsWell(t)
      <2>1. ASSUME At(t, "boot"), Deployed(t), task[t].job \in Job
            PROVE  \E d \in rows : row[d].runs = task[t].job
          BY <2>1 DEF CallOK, At, Deployed, JobInv, LaunchedFor
      <2> QED
          BY <1>1, <2>1 DEF EndsWell, RowsFade, JobsGo, rows, Deployed, At
  <1>2. ASSUME NEW d \in Dep, UndeployRaises(t, d) PROVE EndsWell(t)
      <2> DEFINE i == IF At(t, "evict") THEN task[t].job ELSE NoJob
      <2>1. /\ jobs' = Released(Ended({d}), i) /\ rows' = rows \ {d} /\ UNCHANGED <<fresh, stuck>>
            /\ RowsFade /\ task[t].pc \in {"down", "replace", "evict", "kill"}
          BY <1>2, Fading DEF UndeployRaises, Undeploying, rows
      <2>2. Ended({d}) \in [Job -> JobState]
          BY EndedType
      <2>3. \A j \in Job :
              /\ jobs'[j] = "held" => jobs[j] = "held" /\ j # i /\ (d \in rows => row[d].runs # j)
              /\ jobs[j] # "new" => jobs'[j] # "new"
              /\ jobs[j] \in {"held", "ended"} /\ j # i => jobs'[j] \in {"held", "ended"}
          <3> SUFFICES ASSUME NEW j \in Job
                       PROVE  /\ jobs'[j] = "held" => /\ jobs[j] = "held" /\ j # i
                                                      /\ d \in rows => row[d].runs # j
                              /\ jobs[j] # "new" => jobs'[j] # "new"
                              /\ jobs[j] \in {"held", "ended"} /\ j # i
                                   => jobs'[j] \in {"held", "ended"}
              OBVIOUS
          <3> HIDE DEF i
          <3>1. /\ jobs'[j] = "held" => Ended({d})[j] = "held" /\ j # i
                /\ j # i => jobs'[j] = Ended({d})[j]
                /\ Ended({d})[j] # "new" => jobs'[j] # "new"
              BY <2>1, <2>2, ReleasedJobs
          <3>2. /\ Ended({d})[j] = "held" => jobs[j] = "held" /\ (d \in rows => row[d].runs # j)
                /\ Ended({d})[j] \in {jobs[j], "ended"}
              BY EndedJobs
          <3> QED
              BY <3>1, <3>2
      <2>4. JobsGo(t)
          BY <2>3, NoneAssumption DEF JobsGo
      <2>5. task[t].job \in Job /\ task[t].pc \in {"evict", "deploy", "boot"}
              => jobs'[task[t].job] # "held"
          BY <2>1, <2>3 DEF At
      <2>6. \A e \in rows \ rows' : row[e].runs \in Job => jobs'[row[e].runs] # "held"
          BY <2>1, <2>3
      <2> QED
          BY <2>1, <2>3, <2>4, <2>5, <2>6 DEF EndsWell
  <1>3. ASSUME Failing(t), task[t].job = NoJob, Dropped(t), UNCHANGED <<fresh, jobs, stuck>>
        PROVE  EndsWell(t)
      <2>1. RowsFade /\ \A d \in rows \ rows' : d \in task[t].dep
          BY <1>3, Fading DEF Dropped, rows
      <2>2. \A d \in rows \ rows' : row[d].runs = NoJob
          BY <1>3, <2>1, OwnRows DEF JobInv
      <2> QED
          BY <1>3, <2>1, <2>2, NoneAssumption DEF EndsWell, JobsGo
  <1>4. ASSUME Failing(t), ReleaseJob(t), UNCHANGED fresh,
               Dropped(t) \/ row' = [d \in rows \ task[t].dep |-> row[d]]
        PROVE  EndsWell(t)
      <2>1. RowsFade /\ \A d \in rows \ rows' : d \in task[t].dep
          BY <1>4, Fading DEF Dropped, rows
      <2>2. \A d \in rows \ rows' : row[d].runs = task[t].job
          BY <1>4, <2>1, OwnRows DEF JobInv
      <2>3. /\ stuck \subseteq stuck' /\ JobsGo(t)
            /\ \A j \in Job : jobs'[j] = "held" => jobs[j] = "held"
            /\ task[t].job \in Job => jobs'[task[t].job] # "held" \/ task[t].job \in stuck'
          <3>1. CASE jobs' = Released(jobs, task[t].job) /\ UNCHANGED <<stuck, faults>>
              BY <3>1, ReleasedJobs DEF JobsOK, JobsGo
          <3>2. CASE /\ Fault /\ task[t].job # NoJob /\ stuck' = stuck \cup {task[t].job}
                     /\ UNCHANGED jobs
              BY <3>2 DEF JobsGo
          <3> QED
              BY <1>4, <3>1, <3>2 DEF ReleaseJob
      <2> QED
          BY <1>4, <2>1, <2>2, <2>3 DEF EndsWell
  <1>5. CASE ScaleFails(t) \/ RollingFails(t)
      BY <1>3, <1>5 DEF ScaleFails, RollingFails, Scaling, Rolling, CallOK
  <1>6. CASE PreemptFails(t) \/ JobFails(t)
      BY <1>4, <1>6 DEF PreemptFails, JobFails
  <1>7. CASE ExtraServicesFail(t)
      BY <1>7 DEF ExtraServicesFail, EndsWell, RowsFade, JobsGo, rows
  <1> QED
      BY <1>1, <1>2, <1>5, <1>6, <1>7
      DEF Ends, ScaleReached, ScaleDownImpossible, ScaleUpImpossible, RollingReload,
          RollingNothing, ChooseNone, TokenFails, DeployReturns, At

LEMMA EndsJobs ==
    ASSUME TypeInv, JobInv, NEW t \in Task, Ends(t)
    PROVE  JobInv'
  <1>1. PICK r : Leaves(t, r) \/ GoesElsewhere(t, r)
      BY EndsCall
  <1>2. /\ Sets(t, r) /\ r.pc \notin {"evict", "deploy", "boot"} /\ r.job \in {task[t].job, NoJob}
      BY <1>1 DEF Leaves, GoesElsewhere
  <1>3. EndsWell(t)
      BY EndsEffects
  <1>4. LaunchedFor' /\ JobsApart'
      BY <1>2, <1>3, Launched, Apart DEF JobInv, EndsWell
  <1>5. ASSUME NEW j \in Job, Working(j), jobs'[j] = "held"
        PROVE  Working(j)' \/ j \in stuck' \/ \E d \in rows' : row'[d].runs = j
      <2>1. PICK u \in Task : task[u].job = j /\ task[u].pc \in {"evict", "deploy", "boot"}
          BY <1>5 DEF Working
      <2>2. CASE u # t
          BY <1>2, <2>1, <2>2 DEF Working, Sets, TypeInv, TypeOK
      <2>3. CASE u = t
          BY <1>3, <1>5, <2>1, <2>3 DEF EndsWell
      <2> QED
          BY <2>2, <2>3
  <1>6. JobAccounted'
      BY <1>3, <1>5, Accounted DEF JobInv, EndsWell, RowsFade
  <1> QED
      BY <1>4, <1>6 DEF JobInv

LEMMA WorldJobs ==
    ASSUME TypeInv, JobInv, World
    PROVE  JobInv'
  <1>. JobsOK
      BY TypeParts
  <1>1. UNCHANGED <<task, fresh, stuck>>
      BY DEF World, Ages, Deleted, JobEnds, ClusterLost, ClusterBack, Refresh
  <1>2. RowsFade /\ \A d \in rows \ rows' : row[d].runs \in Job => jobs'[row[d].runs] # "held"
      <2>1. ASSUME NEW d \in Dep, Ages(d)
            PROVE  RowsFade /\ rows' = rows
          <3>1. PICK a : row' = [row EXCEPT ![d].age = a]
              BY <2>1 DEF Ages
          <3> QED
              BY <2>1, <3>1 DEF Ages, RowsFade, rows, TypeInv, TypeOK, Rows
      <2>2. ASSUME NEW d \in Dep, Deleted(d)
            PROVE  /\ RowsFade /\ rows' = rows \ {d}
                   /\ row[d].runs \in Job => jobs'[row[d].runs] # "held"
          BY <2>2, Fading, EndedJobs DEF Deleted, Remove, rows
      <2>3. CASE UNCHANGED <<row, fresh>>
          BY <2>3 DEF RowsFade, rows
      <2> QED
          BY <2>1, <2>2, <2>3 DEF World, JobEnds, ClusterLost, ClusterBack, Refresh
  <1>3. \A j \in Job : /\ jobs'[j] = "held" => jobs[j] = "held"
                       /\ jobs[j] # "new" => jobs'[j] # "new"
                       /\ jobs[j] \in {"held", "ended"} => jobs'[j] \in {"held", "ended"}
      <2>1. ASSUME NEW d \in Dep, Deleted(d), NEW j \in Job
            PROVE  /\ jobs'[j] = "held" => jobs[j] = "held"
                   /\ jobs[j] # "new" => jobs'[j] # "new"
                   /\ jobs[j] \in {"held", "ended"} => jobs'[j] \in {"held", "ended"}
          BY <2>1, EndedJobs DEF Deleted, Remove
      <2>2. ASSUME NEW i \in Job, JobEnds(i), NEW j \in Job
            PROVE  /\ jobs'[j] = "held" => jobs[j] = "held"
                   /\ jobs[j] # "new" => jobs'[j] # "new"
                   /\ jobs[j] \in {"held", "ended"} => jobs'[j] \in {"held", "ended"}
          BY <2>2 DEF JobEnds, JobsOK
      <2> QED
          BY <2>1, <2>2 DEF World, Ages, ClusterLost, ClusterBack, Refresh
  <1>4. LaunchedFor'
      BY <1>1, <1>2 DEF JobInv, LaunchedFor, RowsFade, At
  <1>5. JobsApart'
      BY <1>1, <1>3 DEF JobInv, JobsApart, At
  <1>6. \A j \in Job : Working(j) => Working(j)'
      BY <1>1 DEF Working
  <1>7. JobAccounted'
      BY <1>1, <1>2, <1>3, <1>6, Accounted DEF JobInv, RowsFade
  <1> QED
      BY <1>4, <1>5, <1>7 DEF JobInv

LEMMA NextJobs == TypeInv /\ JobInv /\ [Next]_vars => JobInv'
  <1> SUFFICES ASSUME TypeInv, JobInv, [Next]_vars PROVE JobInv'
      OBVIOUS
  <1>1. CASE UNCHANGED vars
      BY <1>1 DEF vars, JobInv, LaunchedFor, JobsApart, JobAccounted, Working, At, rows
  <1>2. CASE Next
      BY <1>2, StartJobs, AcquireJobs, StepIs, GoesOnJobs, EndsJobs, WorldJobs DEF Next
  <1> QED
      BY <1>1, <1>2

-----------------------------------------------------------------------------
(* Launches by scale_chute.                                                  *)

LEMMA CountingOwn ==
    ASSUME RowsOK, NEW c
    PROVE  /\ IsFiniteSet(Own(row, c)) /\ Cardinality(Own(row, c)) \in Nat
           /\ Cardinality(Own(row, c)) <= Count(c)
  <1>1. Own(row, c) \subseteq NonJob(c)
      BY DEF Own, NonJob, Of, rows
  <1> QED
      BY <1>1, Countable, FS_Subset, FS_CardinalityType DEF Count

\* Room stays while no more is launched for nobody.
LEMMA RoomStays ==
    ASSUME RowsOK, NEW r, r.want \in Nat, HasRoom(row, r),
           \A c \in Chute : Own(row', c) \subseteq Own(row, c)
    PROVE  HasRoom(row', r)
  <1> SUFFICES ASSUME NEW c \in Chute, r.chute = {c} PROVE Cardinality(Own(row', c)) < r.want
      BY DEF HasRoom
  <1>1. /\ Cardinality(Own(row', c)) \in Nat /\ Cardinality(Own(row, c)) \in Nat
        /\ Cardinality(Own(row', c)) <= Cardinality(Own(row, c))
      BY CountingOwn, FS_Subset, FS_CardinalityType
  <1>2. Cardinality(Own(row, c)) < r.want
      BY DEF HasRoom
  <1> QED
      BY <1>1, <1>2

LEMMA OwnFades ==
    ASSUME RowsFade, NEW c
    PROVE  Own(row', c) \subseteq Own(row, c)
  BY DEF RowsFade, Own, rows

\* What a step of u has to show.
LEMMA WantingKept ==
    ASSUME TypeInv, Wanting, NEW u \in Task, NEW r, Sets(u, r),
           \A c \in Chute : Own(row', c) \subseteq Own(row, c),
           Wants(r) => r.want \in Nat /\ HasRoom(row, r)
    PROVE  Wanting'
  <1> SUFFICES ASSUME NEW t \in Task, Wants(task'[t])
               PROVE  HasRoom(row', task'[t])
      BY DEF Wanting
  <1>1. task[t] \in Calls /\ RowsOK /\ task'[u] = r /\ (t # u => task'[t] = task[t])
      BY TypeParts DEF TypeInv, TypeOK, Sets
  <1>2. HasRoom(row, task'[t]) /\ task'[t].want \in Nat
      BY <1>1 DEF Wanting, Calls
  <1> QED
      BY <1>1, <1>2, RoomStays

LEMMA StepWanting ==
    ASSUME IInv, NEW t \in Task, Start(t) \/ Acquire(t) \/ GoesOn(t) \/ Ends(t)
    PROVE  Wanting'
  <1>. TypeInv /\ JobInv /\ Wanting /\ CallOK(task[t]) /\ task[t] \in Calls /\ RowsOK
      BY TypeParts DEF IInv, TypeInv, CallsOK, CallOK
  <1>1. CASE Start(t)
      <2>1. PICK r : /\ Sets(t, r) /\ r.pc \in {"round", "lock", "choose", "token", "kill"}
                     /\ r.pc = "token" => r.via = "run"
          BY <1>1, StartCall
      <2>2. row' = row
          BY <1>1, StartCall
      <2> QED
          BY <2>1, <2>2, WantingKept DEF Wants
  <1>2. CASE Acquire(t)
      <2>1. PICK r : Sets(t, r) /\ r.pc \in {"scale", "replace"}
          BY <1>2, AcquireCall DEF TypeInv
      <2>2. row' = row
          BY <1>2 DEF Acquire
      <2> QED
          BY <2>1, <2>2, WantingKept DEF Wants
  <1>3. CASE Ends(t)
      <2>1. PICK r : Leaves(t, r) \/ GoesElsewhere(t, r)
          BY <1>3, EndsCall
      <2>2. Sets(t, r) /\ ~Wants(r)
          BY <2>1 DEF Leaves, GoesElsewhere, Wants
      <2>3. RowsFade
          BY <1>3, EndsEffects DEF EndsWell
      <2> QED
          BY <2>2, <2>3, OwnFades, WantingKept
  <1>4. CASE GoesOn(t)
      <2>1. PICK r : Going(t, r) /\ Sets(t, r)
          BY <1>4, GoesOnCall
      <2>2. task'[t] = r
          BY <2>1 DEF Sets, TypeInv, TypeOK
      <2>3. Wants(r) => /\ r.chute = task[t].chute /\ r.want = task[t].want
                        /\ task[t].pc \in {"scale", "token", "evict"}
                        /\ task[t].pc # "scale" => Wants(task[t])
          BY <2>1 DEF Going, Moves, Wants, CallOK
      <2>4. ASSUME Wants(r), At(t, "scale") PROVE HasRoom(row, r)
          <3>0. ASSUME NEW d \in Dep, ScaleDown(t, d) PROVE FALSE
              <4>1. Sets(t, [task[t] EXCEPT !.pc = "down", !.victims = {d}])
                  BY <3>0 DEF ScaleDown
              <4>2. r.pc = "down"
                  BY <2>2, <4>1 DEF Sets, Calls, TypeInv, TypeOK
              <4> QED
                  BY <2>4, <4>2 DEF Wants
          <3>1. PICK s \in Server : ScaleUp(t, s)
              BY <1>4, <2>4, <3>0
              DEF GoesOn, AutoscaleCount, Token, ScaleDeployed, Deployed, AutoscaleNext,
                  UndeploySkipped, Undeploy, Undeploying, Choose, DeployClaim, At
          <3>2. Count(Chute1(t)) < task[t].want
              BY <3>1 DEF ScaleUp
          <3>3. task[t].chute = {Chute1(t)}
              BY <2>4, ChuteOfCall DEF At, TypeInv
          <3>4. ASSUME NEW c \in Chute, r.chute = {c} PROVE Cardinality(Own(row, c)) < r.want
              <4>1. c = Chute1(t)
                  BY <2>3, <2>4, <3>3, <3>4
              <4>2. Cardinality(Own(row, c)) \in Nat /\ Cardinality(Own(row, c)) <= Count(c)
                    /\ Count(c) \in Nat /\ task[t].want \in Nat
                  BY CountingOwn, Countable DEF Calls
              <4> QED
                  BY <2>3, <2>4, <3>2, <4>1, <4>2
          <3> QED
              BY <3>4 DEF HasRoom
      <2>5. Wants(r) => r.want \in Nat /\ HasRoom(row, r)
          BY <2>3, <2>4 DEF Wanting, HasRoom, Calls, At
      <2>6. CASE RowsFade
          BY <2>1, <2>5, <2>6, OwnFades, WantingKept
      <2>7. ASSUME NEW d \in Dep, NEW s \in Server, DeployClaim(t, d, s) PROVE Wanting'
          <3>1. /\ At(t, "deploy") /\ rows' = rows \cup {d} /\ d \notin rows
                /\ \A e \in rows : row'[e] = row[e]
                /\ row'[d].runs = task[t].job
              BY <2>7 DEF DeployClaim, rows, TypeInv, TypeOK
          <3>2. r.pc = "boot"
              BY <2>1, <3>1 DEF Going, Moves, At
          <3>3. CASE task[t].job # NoJob
              <4>1. \A c \in Chute : Own(row', c) \subseteq Own(row, c)
                  BY <3>1, <3>3 DEF Own, rows
              <4> QED
                  BY <2>1, <3>2, <4>1, WantingKept DEF Wants
          <3>4. CASE task[t].job = NoJob
              <4>1. lock = t
                  BY <3>1, <3>4 DEF TypeInv, LockKept, NeedsLock, Launching, At
              <4>2. ASSUME NEW u \in Task, Wants(task'[u]) PROVE FALSE
                  <5>1. u # t
                      BY <2>2, <3>2, <4>2 DEF Wants
                  <5>2. task'[u] = task[u]
                      BY <2>1, <5>1 DEF Sets, TypeInv, TypeOK
                  <5>3. NeedsLock(task[u])
                      BY <4>2, <5>2 DEF TypeInv, CallsOK, CallOK, Wants, NeedsLock, Launching
                  <5> QED
                      BY <4>1, <5>1, <5>3 DEF TypeInv, LockKept
              <4> QED
                  BY <4>2 DEF Wanting
          <3> QED
              BY <3>3, <3>4
      <2>8. ASSUME ~\E d \in Dep, s \in Server : DeployClaim(t, d, s) PROVE RowsFade
          <3>1. ASSUME NEW d \in Dep, Undeploy(t, d) PROVE RowsFade
              BY <3>1, Fading DEF Undeploy, Remove
          <3>2. CASE UNCHANGED <<row, fresh>>
              BY <3>2, Fading
          <3> QED
              BY <1>4, <2>8, <3>1, <3>2
              DEF GoesOn, AutoscaleCount, Token, ScaleDeployed, AutoscaleNext, ScaleDown,
                  UndeploySkipped, ScaleUp, Choose
      <2> QED
          BY <2>6, <2>7, <2>8
  <1> QED
      BY <1>1, <1>2, <1>3, <1>4

LEMMA WorldWanting ==
    ASSUME IInv, World
    PROVE  Wanting'
  <1>. RowsOK /\ Wanting /\ TypeInv
      BY TypeParts DEF IInv
  <1>1. UNCHANGED task
      BY DEF World, Ages, Deleted, JobEnds, ClusterLost, ClusterBack, Refresh
  <1>2. RowsFade
      <2>1. ASSUME NEW d \in Dep, Ages(d) PROVE RowsFade
          <3>1. PICK a : row' = [row EXCEPT ![d].age = a]
              BY <2>1 DEF Ages
          <3> QED
              BY <2>1, <3>1 DEF Ages, RowsFade, rows, TypeInv, TypeOK, Rows
      <2>2. ASSUME NEW d \in Dep, Deleted(d) PROVE RowsFade
          BY <2>2, Fading DEF Deleted, Remove
      <2>3. CASE UNCHANGED <<row, fresh>>
          BY <2>3, Fading
      <2> QED
          BY <2>1, <2>2, <2>3 DEF World, JobEnds, ClusterLost, ClusterBack, Refresh
  <1>3. ASSUME NEW t \in Task, Wants(task[t]) PROVE HasRoom(row', task[t])
      BY <1>2, <1>3, OwnFades, RoomStays DEF Wanting, TypeInv, TypeOK, Calls
  <1> QED
      BY <1>1, <1>3 DEF Wanting

-----------------------------------------------------------------------------
(* The theorems.                                                             *)

LEMMA InvCorrect == Spec => []IInv
  <1>1. Init => IInv
      <2> SUFFICES ASSUME Init PROVE IInv
          OBVIOUS
      <2>1. \A t \in Task : task[t].pc = "idle" /\ task[t].job = NoJob
          BY NoCall DEF Init, Idle, Call
      <2>2. JobInv
          BY <2>1, NoneAssumption DEF Init, JobInv, LaunchedFor, JobsApart, JobAccounted, At
      <2>3. Wanting
          BY <2>1 DEF Wanting, Wants
      <2> QED
          BY <2>2, <2>3, InitType DEF IInv
  <1>2. IInv /\ [Next]_vars => IInv'
      <2> SUFFICES ASSUME IInv, [Next]_vars PROVE IInv'
          OBVIOUS
      <2>1. TypeInv' /\ JobInv'
          BY NextType, NextJobs DEF IInv
      <2>2. ASSUME UNCHANGED vars PROVE Wanting'
          BY <2>2 DEF vars, IInv, Wanting
      <2>3. ASSUME Next PROVE Wanting'
          BY <2>3, StepIs, StepWanting, WorldWanting DEF Next
      <2> QED
          BY <2>1, <2>2, <2>3 DEF IInv
  <1> QED
      BY <1>1, <1>2, PTL DEF Spec

\* A job this miner has taken is being launched, has a pod, or is given back, whatever
\* launches fail and whoever is evicted meanwhile.
THEOREM JobsCorrect == Spec => []JobAccounted
  <1>1. IInv => JobAccounted
      BY DEF IInv, JobInv
  <1> QED
      BY <1>1, InvCorrect, PTL

\* Nothing is evicted for a job that this miner has not taken.
THEOREM EvictionCorrect == Spec => HeldBeforeEviction
  <1>1. ASSUME IInv
        PROVE  \A t \in Task, d \in Dep :
                 Undeploy(t, d) /\ At(t, "evict") /\ task[t].job \in Job
                   => jobs[task[t].job] \in {"held", "ended"}
      BY <1>1 DEF IInv, JobInv, JobsApart
  <1> QED
      BY <1>1, InvCorrect, PTL DEF HeldBeforeEviction

\* However many coroutines wait for the lock with an old count, scale_chute launches no
\* more than it was asked for.
THEOREM ScalingCorrect == Spec => NoOvershoot
  <1>1. ASSUME IInv
        PROVE  \A t \in Task, d \in Dep, s \in Server :
                 DeployClaim(t, d, s) /\ Scaling(t)
                   => Cardinality({e \in NonJob(Chute1(t)) : row[e].runs = NoJob}) < task[t].want
      <2> SUFFICES ASSUME NEW t \in Task, NEW d \in Dep, NEW s \in Server,
                          DeployClaim(t, d, s), Scaling(t)
                   PROVE  Cardinality({e \in NonJob(Chute1(t)) : row[e].runs = NoJob}) < task[t].want
          OBVIOUS
      <2>1. {e \in NonJob(Chute1(t)) : row[e].runs = NoJob} = Own(row, Chute1(t))
          BY DEF Own, NonJob, Of, rows
      <2>2. Wants(task[t]) /\ At(t, "deploy")
          BY DEF Wants, DeployClaim, Scaling, At
      <2>3. Chute1(t) \in Chute /\ task[t].chute = {Chute1(t)}
          BY <1>1, <2>2, ChuteOfCall DEF IInv, TypeInv, At
      <2> QED
          BY <1>1, <2>1, <2>2, <2>3 DEF IInv, Wanting, HasRoom
  <1> QED
      BY <1>1, InvCorrect, PTL DEF NoOvershoot
=============================================================================
