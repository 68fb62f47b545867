---------------------------- MODULE AgentMonitor ----------------------------
(***************************************************************************)
(* The life cycle of the agent's ResourceMonitor (chutes_agent/monitor.py) *)
(* on one worker cluster: /start and /stop requests, the auto-start of a   *)
(* fresh pod, the recovery loop of the DEGRADED state, and the restart a   *)
(* failed heartbeat or watch schedules.  One asyncio loop runs them all;   *)
(* an action is the code between two awaits.                               *)
(*                                                                         *)
(* What they build and tear down is a set of monitoring tasks: one watcher *)
(* and one heartbeat.  The monitor keeps one reference to such a set       *)
(* (_watcher_task, _heartbeat_task); a set it no longer refers to lives on.*)
(***************************************************************************)
EXTENDS Integers, FiniteSets

CONSTANTS
    Slot,           \* identities for sets of monitoring tasks
    NoSlot,         \* no set is referred to
    Starters,       \* concurrent /start requests
    MaxAttempts,    \* attempts of _async_restart (10 in the code)
    MaxFaults       \* bound on failed calls, failed heartbeats and pod crashes

ASSUME SlotAssumption == NoSlot \notin Slot
ASSUME AgentBoundsAssumption ==
    /\ MaxAttempts \in Nat \ {0}
    /\ MaxFaults \in Nat

VARIABLES
    state,      \* MonitoringState
    url,        \* is a control plane URL persisted on the host?
    client,     \* is there a control_plane_client?
    watch,      \* sets whose watcher task is alive
    beat,       \* sets whose heartbeat task is alive
    cur,        \* the set _watcher_task and _heartbeat_task refer to
    boot,       \* auto_start()
    start,      \* the start() calls
    stop,       \* the stop() call
    recovery,   \* the recovery loop
    restart,    \* the restart task
    tries,      \* restart attempts left
    listed,     \* is the server in the control plane's inventory?
    breaks,     \* whether heartbeats and watches fail in this behaviour (never changes)
    faults      \* failures so far

vars == <<state, url, client, watch, beat, cur, boot, start, stop, recovery,
          restart, tries, listed, breaks, faults>>

tasks == <<watch, beat, cur>>
procs == <<boot, start, stop, recovery, restart, tries>>

MonitoringState == {"STOPPED", "STARTING", "RUNNING", "DEGRADED", "ERROR"}

\* _transition_lock is held across the awaits of these.
Locked ==
    \/ boot = "connect" \/ recovery = "connect" \/ stop \in {"join", "tasks", "remove"}
    \/ \E c \in Starters : start[c] = "connect"

\* _restart_lock is held inside an attempt, not between two attempts.
RestartLocked == restart \in {"stopping", "sending"}

Fault == faults < MaxFaults /\ faults' = faults + 1

-----------------------------------------------------------------------------
Init ==
    /\ state = "STOPPED" /\ url = FALSE /\ client = FALSE
    /\ watch = {} /\ beat = {} /\ cur = NoSlot
    /\ boot = "done" /\ start = [c \in Starters |-> "idle"] /\ stop = "idle"
    /\ recovery = "none" /\ restart = "none" /\ tries = 0
    /\ listed = TRUE /\ breaks \in BOOLEAN /\ faults = 0

-----------------------------------------------------------------------------
(* Helpers shared by the transitions.                                        *)

\* The URL file: written, removed, and whether it holds a usable URL (a missing,
\* empty or malformed file is none). Reading and writing it are taken to succeed.
PersistUrl == url' = TRUE
ClearUrl   == url' = FALSE
LoadUrl    == url

\* Identities not in use; their number is a bound of the model.
Unused == Slot \ (watch \cup beat \cup {cur})

\* _start_monitoring_tasks: no await; the references are overwritten.
StartTasks ==
    LET new == CHOOSE n \in Unused : TRUE IN
    /\ Unused # {}
    /\ watch' = watch \cup {new} /\ beat' = beat \cup {new} /\ cur' = new
    /\ state' = "RUNNING"

\* _stop_monitoring_tasks: cancels what is referred to and forgets it.
StopTasks ==
    /\ watch' = watch \ {cur} /\ beat' = beat \ {cur} /\ cur' = NoSlot
    /\ state' = "STOPPED"

\* The end of _try_connect: connected; not in the inventory (404), so stop and
\* forget the URL; or a failure to be retried.
ConnectOk   == listed /\ StartTasks /\ UNCHANGED <<url, faults>>
ConnectGone == ~listed /\ StopTasks /\ ClearUrl /\ UNCHANGED faults
ConnectFail == Fault /\ state' = "DEGRADED" /\ UNCHANGED <<tasks, url>>

\* _ensure_recovery_loop: idempotent.
Recovering == IF recovery = "none" THEN "sleep" ELSE recovery

\* Variant: an existing restart task is cancelled and no new one scheduled.
RestartOnce ==
    IF RestartLocked THEN UNCHANGED <<restart, tries>>
    ELSE IF state = "RUNNING" /\ restart = "none"
         THEN restart' = "sched" /\ tries' = MaxAttempts
         ELSE restart' = "none" /\ UNCHANGED tries

\* _restart(): skipped while an attempt runs; otherwise the existing task is
\* cancelled, and a new one scheduled only if monitoring is running.
Restart ==
    IF RestartLocked THEN UNCHANGED <<restart, tries>>
    ELSE IF state = "RUNNING"
         THEN restart' = "sched" /\ tries' = MaxAttempts
         ELSE restart' = "none" /\ UNCHANGED tries

-----------------------------------------------------------------------------
(* /start                                                                    *)

\* The router answers 409 if monitoring is running.
StartRequest(c) ==
    /\ boot = "done" /\ start[c] = "idle" /\ state # "RUNNING"
    /\ start' = [start EXCEPT ![c] = "wait"]
    /\ UNCHANGED <<state, url, client, tasks, boot, stop, recovery, restart, tries, listed, breaks, faults>>

\* Variant: _try_connect without its check of the state.
StartAcquireUnguarded(c) ==
    /\ start[c] = "wait" /\ ~Locked
    /\ PersistUrl /\ client' = TRUE
    /\ start' = [start EXCEPT ![c] = "connect"]
    /\ UNCHANGED <<state, tasks, boot, stop, recovery, restart, tries, listed, breaks, faults>>

\* start(): under the transition lock the URL is persisted and _try_connect
\* entered; it returns at once if monitoring is running by now.
StartAcquire(c) ==
    /\ start[c] = "wait" /\ ~Locked
    /\ PersistUrl
    /\ IF state = "RUNNING"
       THEN start' = [start EXCEPT ![c] = "idle"] /\ UNCHANGED client
       ELSE start' = [start EXCEPT ![c] = "connect"] /\ client' = TRUE
    /\ UNCHANGED <<state, tasks, boot, stop, recovery, restart, tries, listed, breaks, faults>>

StartConnect(c) ==
    /\ start[c] = "connect"
    /\ start' = [start EXCEPT ![c] = "idle"]
    /\ \/ (ConnectOk \/ ConnectGone) /\ UNCHANGED recovery
       \/ ConnectFail /\ recovery' = Recovering
    /\ UNCHANGED <<client, boot, stop, restart, tries, listed, breaks>>

-----------------------------------------------------------------------------
(* /stop                                                                     *)

StopRequest ==
    /\ boot = "done" /\ stop = "idle"
    /\ stop' = "wait"
    /\ UNCHANGED <<state, url, client, tasks, boot, start, recovery, restart, tries, listed, breaks, faults>>

\* The `except CancelledError: pass` around the await of a cancelled task in
\* _stop_monitoring_tasks also swallows a cancellation of its caller.
Deaf == restart = "stopping" /\ cur \in watch \cup beat

\* Variant: stop() without the transition lock.
StopAcquireUnlocked ==
    /\ stop = "wait"
    /\ stop' = "tasks" /\ restart' = "none" /\ recovery' = "none"
    /\ UNCHANGED <<state, url, client, tasks, boot, start, tries, listed, breaks, faults>>

\* stop_monitoring_tasks(), first half: the recovery loop and the restart task
\* are cancelled; a restart in the middle of an attempt leaves STOPPED behind,
\* and one that swallows its cancellation is waited for.
StopAcquire ==
    /\ stop = "wait" /\ ~Locked
    /\ recovery' = "none"
    /\ IF Deaf
       THEN stop' = "join" /\ UNCHANGED <<restart, state>>
       ELSE /\ stop' = "tasks" /\ restart' = "none"
            /\ state' = IF RestartLocked THEN "STOPPED" ELSE state
    /\ UNCHANGED <<url, client, tasks, boot, start, tries, listed, breaks, faults>>

\* The restart has ended; its RetryError would propagate out of stop().
StopJoin ==
    /\ stop = "join" /\ restart = "none"
    /\ stop' = IF tries = 0 THEN "idle" ELSE "tasks"
    /\ UNCHANGED <<state, url, client, tasks, boot, start, recovery, restart, tries, listed, breaks, faults>>

\* Second half; then a missing client is an error (409).
StopCancel ==
    /\ stop = "tasks"
    /\ StopTasks
    /\ stop' = IF client THEN "remove" ELSE "idle"
    /\ UNCHANGED <<url, client, boot, start, recovery, restart, tries, listed, breaks, faults>>

\* remove_cluster, then the persisted URL is cleared; if the call fails, stop()
\* raises before that.
StopRemove ==
    /\ stop = "remove"
    /\ stop' = "idle"
    /\ \/ ClearUrl /\ UNCHANGED faults
       \/ Fault /\ UNCHANGED url
    /\ UNCHANGED <<state, client, tasks, boot, start, recovery, restart, tries, listed, breaks>>

-----------------------------------------------------------------------------
(* The recovery loop                                                         *)

\* After a sleep, under the lock: give up unless still DEGRADED, forget a URL
\* that cannot be used, or try again.
RecoveryAcquire ==
    /\ recovery = "sleep" /\ ~Locked
    /\ IF state # "DEGRADED"
       THEN recovery' = "none" /\ UNCHANGED <<state, client, tasks>>
       ELSE IF ~LoadUrl
       THEN StopTasks /\ recovery' = "none" /\ UNCHANGED client
       ELSE recovery' = "connect" /\ client' = TRUE /\ UNCHANGED <<state, tasks>>
    /\ UNCHANGED <<url, boot, start, stop, restart, tries, listed, breaks, faults>>

RecoveryConnect ==
    /\ recovery = "connect"
    /\ \/ (ConnectOk \/ ConnectGone) /\ recovery' = "none"
       \/ ConnectFail /\ recovery' = "sleep"
    /\ UNCHANGED <<client, boot, start, stop, restart, tries, listed, breaks>>

-----------------------------------------------------------------------------
(* The restart task                                                          *)

\* send_heartbeat: a failure calls _restart and ends the task.
HeartbeatFails(n) ==
    /\ breaks /\ n \in beat /\ Fault
    /\ beat' = beat \ {n}
    /\ Restart
    /\ UNCHANGED <<state, url, client, watch, cur, boot, start, stop, recovery, listed, breaks>>

\* _watch_resources gives up on one resource type and calls _restart; the other
\* watches of the set go on.
WatchFails(n) ==
    /\ breaks /\ n \in watch /\ Fault
    /\ Restart
    /\ UNCHANGED <<state, url, client, tasks, boot, start, stop, recovery, listed, breaks>>

\* An attempt of _async_restart begins; it takes _restart_lock and not
\* _transition_lock.
RestartBegin ==
    /\ restart \in {"sched", "backoff"}
    /\ restart' = "stopping" /\ state' = "STARTING"
    /\ UNCHANGED <<url, client, tasks, boot, start, stop, recovery, tries, listed, breaks, faults>>

RestartStop ==
    /\ restart = "stopping"
    /\ StopTasks
    /\ restart' = "sending"
    /\ UNCHANGED <<url, client, boot, start, stop, recovery, tries, listed, breaks, faults>>

\* _send_all_resources and _start_monitoring_tasks succeed.
RestartSend ==
    /\ restart = "sending" /\ listed
    /\ StartTasks
    /\ restart' = "none"
    /\ UNCHANGED <<url, client, boot, start, stop, recovery, tries, listed, breaks, faults>>

\* Variant: a failed attempt is not retried and the error is not shown.
RestartSendGivesUp ==
    /\ restart = "sending"
    /\ IF listed THEN Fault ELSE UNCHANGED faults
    /\ state' = "STARTING" /\ restart' = "none"
    /\ UNCHANGED <<url, client, tasks, boot, start, stop, recovery, tries, listed, breaks>>

\* Variant: the attempts are not counted out.
RestartSendForever ==
    /\ restart = "sending"
    /\ IF listed THEN Fault ELSE UNCHANGED faults
    /\ state' = "ERROR" /\ restart' = "backoff"
    /\ tries' = tries - 1
    /\ UNCHANGED <<url, client, tasks, boot, start, stop, recovery, listed, breaks>>

\* The attempt fails (a 404 is no exception here): ERROR, and another attempt
\* after a backoff until they are used up.
RestartSendFails ==
    /\ restart = "sending"
    /\ IF listed THEN Fault ELSE UNCHANGED faults
    /\ state' = "ERROR"
    /\ tries' = tries - 1
    /\ restart' = IF tries > 1 THEN "backoff" ELSE "none"
    /\ UNCHANGED <<url, client, tasks, boot, start, stop, recovery, listed, breaks>>

-----------------------------------------------------------------------------
(* The pod and the control plane                                             *)

\* A fresh process; auto_start runs before the API serves requests.
PodStarts ==
    /\ state' = "STOPPED" /\ watch' = {} /\ beat' = {} /\ cur' = NoSlot
    /\ start' = [c \in Starters |-> "idle"] /\ stop' = "idle"
    /\ recovery' = "none" /\ restart' = "none" /\ tries' = 0
    /\ boot' = (IF LoadUrl THEN "connect" ELSE "done")
    /\ client' = LoadUrl
    /\ UNCHANGED <<url, listed, breaks>>

\* The liveness probe gets 503 in the ERROR state.
ProbeKills == state = "ERROR" /\ PodStarts /\ UNCHANGED faults
PodCrash   == Fault /\ PodStarts

BootConnect ==
    /\ boot = "connect"
    /\ boot' = "done"
    /\ \/ (ConnectOk \/ ConnectGone) /\ UNCHANGED recovery
       \/ ConnectFail /\ recovery' = Recovering
    /\ UNCHANGED <<client, start, stop, restart, tries, listed, breaks>>

\* The server is removed from the control plane's inventory.
ServerDelisted ==
    /\ listed
    /\ listed' = FALSE
    /\ UNCHANGED <<state, url, client, tasks, procs, breaks, faults>>

-----------------------------------------------------------------------------
Requests == StopRequest \/ \E c \in Starters : StartRequest(c)

Transitions ==
    \/ \E c \in Starters : StartAcquire(c) \/ StartConnect(c)
    \/ StopAcquire \/ StopJoin \/ StopCancel \/ StopRemove
    \/ RecoveryAcquire \/ RecoveryConnect
    \/ BootConnect

Restarting == RestartBegin \/ RestartStop \/ RestartSend \/ RestartSendFails

Next ==
    \/ Requests \/ Transitions \/ Restarting
    \/ \E n \in Slot : HeartbeatFails(n) \/ WatchFails(n)
    \/ ProbeKills \/ PodCrash \/ ServerDelisted

Spec == Init /\ [][Next]_vars

\* Each coroutine that can go on does; a waiter gets the (first in, first out)
\* lock; kubernetes acts on the liveness probe.  Requests are not fair.
Fairness ==
    /\ \A c \in Starters : SF_vars(StartAcquire(c)) /\ WF_vars(StartConnect(c))
    /\ SF_vars(StopAcquire) /\ WF_vars(StopJoin) /\ WF_vars(StopCancel) /\ WF_vars(StopRemove)
    /\ SF_vars(RecoveryAcquire) /\ WF_vars(RecoveryConnect)
    /\ WF_vars(Restarting) /\ WF_vars(BootConnect) /\ WF_vars(ProbeKills)

FairSpec == Spec /\ Fairness

-----------------------------------------------------------------------------
\* Type correctness; in particular _async_restart never goes past its last attempt.
TypeOK ==
    /\ state \in MonitoringState /\ url \in BOOLEAN /\ client \in BOOLEAN
    /\ watch \subseteq Slot /\ beat \subseteq Slot /\ cur \in Slot \cup {NoSlot}
    /\ boot \in {"connect", "done"}
    /\ start \in [Starters -> {"idle", "wait", "connect"}]
    /\ stop \in {"idle", "wait", "join", "tasks", "remove"}
    /\ recovery \in {"none", "sleep", "connect"}
    /\ restart \in {"none", "sched", "stopping", "sending", "backoff"}
    /\ tries \in 0 .. MaxAttempts
    /\ listed \in BOOLEAN /\ breaks \in BOOLEAN /\ faults \in 0 .. MaxFaults

\* No second set of watcher and heartbeat tasks is ever spun up: start(), stop()
\* and the recovery loop "can never build up or tear down watcher tasks
\* concurrently" (monitor.py).
OneTaskSet == Cardinality(watch \cup beat) <= 1

\* As long as no heartbeat and no watch fails, so that nothing schedules a restart,
\* which takes another lock: the transitions alone never leave two sets behind.
OneTaskSetWhileCalm == ~breaks => OneTaskSet

\* RUNNING, which makes /start answer 409, is not a lie: the set referred to is
\* watching, and it is sending heartbeats, or a restart or stop is under way.
\* Otherwise the control plane could neither hear from the agent nor start it.
RunningIsAlive ==
    state = "RUNNING" =>
        cur \in watch /\ (cur \in beat \/ restart # "none" \/ stop \in {"join", "tasks"})

\* An explicit stop is final: with no URL persisted and no call in progress,
\* nothing is running and no loop is left that would resume monitoring (again
\* unless a restart may be under way, which start() and stop() do not exclude).
StopIsFinal ==
    (~breaks /\ ~url /\ ~Locked) => watch = {} /\ beat = {} /\ restart = "none" /\ state # "RUNNING"

\* "A transient outage self-heals without operator intervention" (auto_start):
\* unless the agent is stopped or delisted, it does not stay disconnected.
SelfHeals ==
    (url /\ state \in {"STARTING", "DEGRADED", "ERROR"})
        ~> (state = "RUNNING" \/ (state = "STOPPED" /\ restart = "none") \/ ~url)
=============================================================================
