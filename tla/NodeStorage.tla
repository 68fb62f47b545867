---------------------------- MODULE NodeStorage ----------------------------
(***************************************************************************)
(* The storage of one node.  Two things share it: the ephemeral storage    *)
(* the pods request, which gepetto checks before it launches there, with   *)
(* an answer it caches for minutes (operator.py); and the model caches of  *)
(* the chutes, one directory of the host each, which the init container of *)
(* every launch cleans up (k8s/util.py, cache_cleanup.py).                 *)
(*                                                                         *)
(* A launch is the coroutine that runs deploy_chute; an action is the code *)
(* between two awaits, or between two looks of a cleaner at the disk.      *)
(* Which deployments are wanted is LaunchPolicy's subject, and their rows, *)
(* GPUs and instances are those of Deployments.                            *)
(***************************************************************************)
EXTENDS Integers, FiniteSets, Functions

CONSTANTS
    Dep, Chute, Repo,
    ChuteOf,        \* the chute of a deployment
    Need,           \* the disk_gb it asks for
    Capacity,       \* of the node
    Reserved,       \* what of it is for the system (20 GB)
    Mentions,       \* the chute ids that occur in the name of a repository
    Limit,          \* CACHE_MAX_SIZE_GB, in repositories (all of one size)
    MaxDownloads,   \* bound on downloads
    MaxFaults       \* bound on failures

ASSUME StorageAssumption ==
    /\ IsFiniteSet(Dep) /\ ChuteOf \in [Dep -> Chute] /\ Need \in [Dep -> Nat]
    /\ Capacity \in Nat /\ Reserved \in 0 .. Capacity
    /\ Mentions \in [Repo -> SUBSET Chute]
    /\ {Limit, MaxDownloads, MaxFaults} \subseteq Nat

VARIABLES
    launch,     \* where the coroutine of a deployment is
    pod,        \* its pod
    info,       \* the cached available_gb of the node
    home,       \* repositories in the cache directory of each chute
    dir,        \* the cache directories that exist
    old,        \* repositories not accessed for CACHE_MAX_AGE_DAYS
    clean,      \* the init container of a pod
    raced,      \* (history) a launch overlapped another one or failed half-way
    downloads, faults

disk  == <<launch, info, raced>>
cache == <<home, dir, old, downloads>>
vars  == <<disk, pod, cache, clean, faults>>

NoInfo == -1
Fault  == faults < MaxFaults /\ faults' = faults + 1

NoClean == [pc |-> "none", todo |-> {}]

Init ==
    /\ launch = [d \in Dep |-> "idle"] /\ pod = [d \in Dep |-> "none"]
    /\ info = NoInfo /\ raced = FALSE
    /\ home = [c \in Chute |-> {}] /\ dir = {} /\ old = {}
    /\ clean = [d \in Dep |-> NoClean]
    /\ downloads = 0 /\ faults = 0

-----------------------------------------------------------------------------
(* What gepetto knows of the disk.                                           *)

Active == {d \in Dep : pod[d] \in {"init", "running", "terminating"}}

Requested == SumFunctionOnSet(Need, Active)
Room      == Capacity - Reserved

\* Variant: without the reserve.
FreeWithReserve == IF Requested <= Capacity THEN Capacity - Requested ELSE 0

\* available_gb
Free == IF Requested <= Room THEN Room - Requested ELSE 0

\* get_node_disk_info: the cached answer, or one computed from the pods and cached.
Known == IF info = NoInfo THEN Free ELSE info

\* check_node_has_disk_available
HasDisk(d) == Known >= Need[d]

InFlight == {d \in Dep : launch[d] \in {"verified", "created"}}

\* (history) A race is over when all is computed afresh.
Settled == info' = NoInfo /\ InFlight' = {} /\ Requested' <= Room
Raced(now) == raced' = ((raced \/ now) /\ ~Settled)

\* Variant: only the answer to a failure is ever computed again.
InfoExpiresOnError ==
    /\ info = 0 /\ info' = NoInfo
    /\ UNCHANGED <<launch, pod, cache, clean, faults>> /\ Raced(FALSE)

\* After five minutes, or after one if it is the answer to a failure.
InfoExpires ==
    /\ info # NoInfo /\ info' = NoInfo
    /\ UNCHANGED <<launch, pod, cache, clean, faults>> /\ Raced(FALSE)

\* The node is not healthy or cannot be read: there is no disk for a minute.
FetchFails ==
    /\ info = NoInfo /\ Fault /\ info' = 0
    /\ UNCHANGED <<launch, pod, cache, clean>> /\ Raced(FALSE)

\* invalidate_node_disk_cache
Invalidate == info' = NoInfo

-----------------------------------------------------------------------------
(* Launches.                                                                 *)

To(d, pc) == launch' = [launch EXCEPT ![d] = pc]

\* The node is among the candidates of a scale-up or a preemption.
Choose(d) ==
    /\ launch[d] = "idle" /\ pod[d] = "none"
    /\ info' = Known /\ (IF HasDisk(d) THEN To(d, "chosen") ELSE UNCHANGED launch)
    /\ UNCHANGED <<pod, cache, clean, faults>> /\ Raced(FALSE)

\* deploy_chute looks again, with the same cache, before it claims GPUs.
Verify(d) ==
    /\ launch[d] = "chosen"
    /\ info' = Known /\ To(d, IF HasDisk(d) THEN "verified" ELSE "idle")
    /\ UNCHANGED <<pod, cache, clean, faults>> /\ Raced(HasDisk(d) /\ InFlight # {})

\* Service and job; the kubelet makes the chute's directory (DirectoryOrCreate).
Create(d) ==
    /\ launch[d] = "verified" /\ To(d, "created")
    /\ pod' = [pod EXCEPT ![d] = "init"] /\ dir' = dir \cup {ChuteOf[d]}
    /\ UNCHANGED <<info, raced, home, old, downloads, clean, faults>>

CreateFails(d) ==
    /\ launch[d] = "verified" /\ Fault /\ To(d, "idle")
    /\ UNCHANGED <<info, pod, cache, clean>> /\ Raced(FALSE)

\* Variant: the cached answer is believed after the launch.
FinishKeepsInfo(d) ==
    /\ launch[d] = "created" /\ To(d, "idle")
    /\ UNCHANGED <<info, pod, cache, clean, faults>> /\ Raced(FALSE)

\* The row is completed, and the cached answer forgotten.
Finish(d) ==
    /\ launch[d] = "created" /\ To(d, "idle")
    /\ Invalidate /\ UNCHANGED <<pod, cache, clean, faults>> /\ Raced(FALSE)

\* The row has disappeared: the job is deleted, or not even that (the exception is
\* swallowed), and the cached answer stays.
FinishFails(d) ==
    /\ launch[d] = "created" /\ Fault /\ To(d, "idle")
    /\ \/ pod[d] \in {"init", "running"} /\ pod' = [pod EXCEPT ![d] = "terminating"]
       \/ UNCHANGED pod
    /\ UNCHANGED <<info, cache, clean>> /\ Raced(TRUE)

\* undeploy, by gepetto, which then waits for the pod, or by the API process, whose
\* cached answers are its own.  (That one goes before its chute started counts as a
\* fault: it does not happen to every launch.)
Undeploy(d) ==
    /\ launch[d] = "idle"
    /\ \/ pod[d] = "running" /\ UNCHANGED faults
       \/ pod[d] = "init" /\ Fault
    /\ pod' = [pod EXCEPT ![d] = "terminating"]
    /\ (To(d, "wait") \/ UNCHANGED launch)
    /\ UNCHANGED <<info, raced, cache, clean>>

WaitEnds(d) ==
    /\ launch[d] = "wait" /\ pod[d] = "none" /\ To(d, "idle")
    /\ Invalidate /\ UNCHANGED <<pod, cache, clean, faults>> /\ Raced(FALSE)

\* The watch ends after its time, which is not an error, or raises, which skips the rest.
WaitFails(d) ==
    /\ launch[d] = "wait" /\ Fault /\ To(d, "idle")
    /\ info' \in {info, NoInfo} /\ UNCHANGED <<pod, cache, clean>> /\ Raced(FALSE)

GepettoCrash ==
    /\ Fault /\ launch' = [d \in Dep |-> "idle"] /\ info' = NoInfo
    /\ UNCHANGED <<pod, cache, clean>> /\ Raced(FALSE)

-----------------------------------------------------------------------------
(* The pods and the chutes in them.                                          *)

PodBecomes(d, from, to) ==
    /\ pod[d] = from /\ pod' = [pod EXCEPT ![d] = to]
    /\ clean' = [clean EXCEPT ![d] = NoClean]
    /\ UNCHANGED <<launch, info, home, old, downloads, faults>>

\* A pod that is deleted, or whose job is, goes; one that has ended stops counting at
\* once and is removed after its time to live.
PodGone(d)    == PodBecomes(d, "terminating", "none") /\ UNCHANGED <<dir, raced>>
PodEnds(d)    == PodBecomes(d, "running", "ended") /\ UNCHANGED <<dir, raced>>
PodExpires(d) == PodBecomes(d, "ended", "none") /\ UNCHANGED <<dir, raced>>

\* The chute starts when the init container has ended, whatever came of it.
ChuteStarts(d) ==
    /\ clean[d].pc = "done" /\ PodBecomes(d, "init", "running")
    /\ dir' = dir \cup {ChuteOf[d]} /\ UNCHANGED raced

\* Whatever it downloads after its directory was removed is not seen by a cleaner.
Download(d, r) ==
    LET c == ChuteOf[d] IN
    /\ pod[d] = "running" /\ c \in dir /\ r \notin home[c] /\ downloads < MaxDownloads
    /\ home' = [home EXCEPT ![c] = @ \cup {r}]
    /\ downloads' = downloads + 1
    /\ UNCHANGED <<disk, pod, dir, old, clean, faults>>

\* Also what a chute uses gets old: it reads its model once.
GetsOld(c, r) ==
    /\ r \in home[c] /\ <<c, r>> \notin old /\ old' = old \cup {<<c, r>>}
    /\ UNCHANGED <<disk, pod, home, dir, downloads, clean, faults>>

-----------------------------------------------------------------------------
(* The init container: clean_old_cache.                                      *)

\* scan_uuid_cache_dir: the repositories of all chutes.
Found == {p \in Chute \X Repo : p[1] \in dir /\ p[2] \in home[p[1]]}

\* should_exclude_repo: CLEANUP_EXCLUDE is the id of the chute that is launched, and it
\* is looked for in the name of the repository.
Excluded(d, p) == ChuteOf[d] \in Mentions[p[2]]

Cleaning(d, pc, todo) == clean' = [clean EXCEPT ![d] = [pc |-> pc, todo |-> todo]]

\* It waits for its GPUs to be idle, for three minutes at most, and takes stock.
CleanerStarts(d) ==
    /\ pod[d] = "init" /\ clean[d] = NoClean
    /\ Cleaning(d, "age", {p \in Found \cap old : ~Excluded(d, p)})
    /\ UNCHANGED <<disk, pod, cache, faults>>

\* rmtree(repo_path.parent.parent): the whole directory of the chute.
Remove(c) ==
    /\ home' = [home EXCEPT ![c] = {}] /\ dir' = dir \ {c}
    /\ old' = {p \in old : p[1] # c}

\* What is old goes.  A directory that is gone already, because of another repository
\* in it or of another cleaner, is an error and ends the cleanup.
AgeStep(d) ==
    /\ pod[d] = "init" /\ clean[d].pc = "age"
    /\ \E p \in clean[d].todo :
         IF p[1] \in dir
         THEN Remove(p[1]) /\ Cleaning(d, "age", clean[d].todo \ {p})
         ELSE Cleaning(d, "done", {}) /\ UNCHANGED <<home, dir, old>>
    /\ UNCHANGED <<disk, pod, downloads, faults>>

\* Variant: only what is old goes.
RescanSkipped(d) ==
    /\ pod[d] = "init" /\ clean[d].pc = "age" /\ clean[d].todo = {}
    /\ Cleaning(d, "done", {})
    /\ UNCHANGED <<disk, pod, cache, faults>>

\* The second look: is there too much of what is left?
Rescan(d) ==
    /\ pod[d] = "init" /\ clean[d].pc = "age" /\ clean[d].todo = {}
    /\ IF Cardinality(Found) > Limit
       THEN Cleaning(d, "size", {p \in Found : ~Excluded(d, p)})
       ELSE Cleaning(d, "done", {})
    /\ UNCHANGED <<disk, pod, cache, faults>>

\* One after another goes until there is room; what is gone by now is passed over.
SizeStep(d) ==
    /\ pod[d] = "init" /\ clean[d].pc = "size"
    /\ \/ /\ clean[d].todo = {} /\ Cleaning(d, "done", {}) /\ UNCHANGED <<home, dir, old>>
       \/ \E p \in clean[d].todo :
            IF p \in Found
            THEN /\ Remove(p[1])
                 /\ Cleaning(d, IF Cardinality(Found') <= Limit THEN "done" ELSE "size",
                             IF Cardinality(Found') <= Limit THEN {} ELSE clean[d].todo \ {p})
            ELSE Cleaning(d, "size", clean[d].todo \ {p}) /\ UNCHANGED <<home, dir, old>>
    /\ UNCHANGED <<disk, pod, downloads, faults>>

\* Two cleaners in one directory: a file that one of them lists the other removes.
Clash(d) ==
    /\ pod[d] = "init" /\ clean[d].pc \in {"age", "size"} /\ clean[d].todo # {}
    /\ \E e \in Dep \ {d} : pod[e] = "init" /\ clean[e].pc \in {"age", "size"} /\ clean[e].todo # {}
    /\ Cleaning(d, "done", {})
    /\ UNCHANGED <<disk, pod, cache, faults>>

-----------------------------------------------------------------------------
Next ==
    \/ InfoExpires \/ FetchFails \/ GepettoCrash
    \/ \E d \in Dep : Choose(d)
    \/ \E d \in Dep : Verify(d)
    \/ \E d \in Dep : Create(d)
    \/ \E d \in Dep : CreateFails(d)
    \/ \E d \in Dep : Finish(d)
    \/ \E d \in Dep : FinishFails(d)
    \/ \E d \in Dep : Undeploy(d)
    \/ \E d \in Dep : WaitEnds(d)
    \/ \E d \in Dep : WaitFails(d)
    \/ \E d \in Dep : PodGone(d)
    \/ \E d \in Dep : PodEnds(d)
    \/ \E d \in Dep : PodExpires(d)
    \/ \E d \in Dep : ChuteStarts(d)
    \/ \E d \in Dep, r \in Repo : Download(d, r)
    \/ \E c \in Chute, r \in Repo : GetsOld(c, r)
    \/ \E d \in Dep : CleanerStarts(d)
    \/ \E d \in Dep : AgeStep(d)
    \/ \E d \in Dep : Rescan(d)
    \/ \E d \in Dep : SizeStep(d)
    \/ \E d \in Dep : Clash(d)

\* Time passes, coroutines and containers go on, pods come to an end and go, and what
\* is wanted is tried again and again (autoscaler, reconcile).
Fairness ==
    /\ WF_vars(InfoExpires)
    /\ \A d \in Dep :
         /\ WF_vars(Choose(d) \/ Verify(d) \/ Create(d) \/ Finish(d) \/ WaitEnds(d))
         /\ WF_vars(PodGone(d) \/ PodEnds(d) \/ PodExpires(d) \/ ChuteStarts(d)
                      \/ CleanerStarts(d) \/ AgeStep(d) \/ Rescan(d) \/ SizeStep(d))

Spec     == Init /\ [][Next]_vars
FairSpec == Spec /\ Fairness

-----------------------------------------------------------------------------
\* Types (a cached answer never promises what is reserved); only a pod in its init
\* container is cleaning, and nothing is in a directory that does not exist.
TypeOK ==
    /\ launch \in [Dep -> {"idle", "chosen", "verified", "created", "wait"}]
    /\ pod \in [Dep -> {"none", "init", "running", "terminating", "ended"}]
    /\ info \in 0 .. Room \cup {NoInfo} /\ raced \in BOOLEAN
    /\ home \in [Chute -> SUBSET Repo] /\ dir \subseteq Chute
    /\ old \subseteq Found
    /\ \A c \in Chute \ dir : home[c] = {}
    /\ \A d \in Dep :
         /\ clean[d].pc \in {"none", "age", "size", "done"}
         /\ clean[d].todo \subseteq Chute \X Repo
         /\ clean[d] # NoClean => pod[d] \in {"init", "terminating"}
    /\ downloads \in 0 .. MaxDownloads /\ faults \in 0 .. MaxFaults

\* The pods of the node do not ask for more storage than it has, unless two launches
\* overlapped or one failed half-way, and the answer of then is still believed: two
\* looks at a cached answer are enough for launches that follow one another.
DiskFits == raced \/ Requested <= Room

\* Storage that is free again is not refused for ever, although nobody tells gepetto
\* when a pod ends or the API process undeploys it.
RoomNoticed == \A d \in Dep : []<>(launch[d] # "idle" \/ pod[d] # "none" \/ Free < Need[d])

\* When the chutes have downloaded what they need, the cleanups bring the caches under
\* their limit, although an error ends a cleanup before its second look.
CacheShrinks == <>[](Cardinality(Found) <= Limit)

\* The cleanup of a launch leaves the cache of the chute that is launched alone.
OwnCacheKept ==
    [][\A d \in Dep : AgeStep(d) \/ SizeStep(d) =>
           home'[ChuteOf[d]] = home[ChuteOf[d]]]_vars
=============================================================================
