------------------------- MODULE NodeStorageProofs -------------------------
(***************************************************************************)
(* The storage of a node: types, and the pods fit on the disk, for every   *)
(* number of deployments, whatever each asks for.                          *)
(*                                                                         *)
(* The disk is counted with a fold over a set, in an order nobody knows.   *)
(* What the invariant needs of it is one fact, Taken: a sum is one of its  *)
(* terms and the sum of the others, whichever term is taken out.           *)
(***************************************************************************)
EXTENDS NodeStorage, FiniteSetTheorems, TLAPS

CleanType == [pc : {"none", "age", "size", "done"}, todo : SUBSET (Chute \X Repo)]

\* A launch that is still to be made has no pod.
Unborn == \A d \in Dep : launch[d] \in {"chosen", "verified"} => pod[d] = "none"

TypeInv == TypeOK /\ clean \in [Dep -> CleanType] /\ Unborn

\* Without a race: launches follow one another; what is cached is no more than is free,
\* but while a pod has been made and the cached answer not yet been forgotten; and there
\* is room for the pod that is about to be made.
Calm ==
    ~raced =>
        /\ Requested <= Room
        /\ \A d, e \in InFlight : d = e
        /\ (\A d \in Dep : launch[d] # "created") => info <= Free
        /\ \A d \in Dep : launch[d] = "verified" => Need[d] <= Free

IInv == TypeInv /\ Calm

\* The parts of TypeInv.
LaunchOK ==
    /\ launch \in [Dep -> {"idle", "chosen", "verified", "created", "wait"}]
    /\ pod \in [Dep -> {"none", "init", "running", "terminating", "ended"}]
    /\ Unborn
InfoOK  == info \in 0 .. Room \cup {NoInfo} /\ raced \in BOOLEAN
CacheOK ==
    /\ home \in [Chute -> SUBSET Repo] /\ dir \subseteq Chute /\ old \subseteq Found
    /\ \A c \in Chute \ dir : home[c] = {}
CleanOK ==
    /\ clean \in [Dep -> CleanType]
    /\ \A d \in Dep : clean[d] # NoClean => pod[d] \in {"init", "terminating"}
CountOK == downloads \in 0 .. MaxDownloads /\ faults \in 0 .. MaxFaults

AllOK == LaunchOK /\ InfoOK /\ CacheOK /\ CleanOK /\ CountOK

-----------------------------------------------------------------------------
(* What a set of pods asks for.                                              *)

Asked(S) == SumFunctionOnSet(Need, S)

Pick(s) == CHOOSE x \in s : TRUE

\* The equation of the fold, for the subsets of S; its solution is the fold.
Folds(it, S) ==
    it = [s \in SUBSET S |-> IF s = {} THEN 0 ELSE Need[Pick(s)] + it[s \ {Pick(s)}]]
Fold(S) == CHOOSE it : Folds(it, S)

LEMMA AskedIsFold == ASSUME NEW S PROVE Asked(S) = Fold(S)[S]
  BY DEF Asked, SumFunctionOnSet, FoldFunctionOnSet, MapThenFoldSet, Folds, Fold, Pick

\* In a finite set, what holds of some subset holds of a smallest one.
LEMMA SmallestSet ==
    ASSUME NEW S, IsFiniteSet(S), NEW T, T \subseteq SUBSET S, T # {}
    PROVE  \E s \in T : \A t \in T : t \subseteq s => t = s
  <1>1. IsWellFoundedOn(StrictSubsetOrdering(S), SUBSET S)
      BY FS_StrictSubsetOrderingWellFounded, FS_FiniteSubsetsOfFinite
  <1>2. PICK s \in T : \A t \in T : ~(<<t, s>> \in StrictSubsetOrdering(S))
      <2> HIDE DEF StrictSubsetOrdering
      <2> QED
          BY <1>1, WFMin
  <1> QED
      BY <1>2 DEF StrictSubsetOrdering

LEMMA Picked ==
    ASSUME NEW s, s # {} PROVE Pick(s) \in s
  BY DEF Pick

LEMMA FoldUnique ==
    ASSUME NEW S, IsFiniteSet(S), NEW f, NEW g, Folds(f, S), Folds(g, S)
    PROVE  f = g
  <1>1. \A s \in SUBSET S : f[s] = g[s]
      <2> SUFFICES ASSUME \E s \in SUBSET S : f[s] # g[s] PROVE FALSE
          OBVIOUS
      <2> DEFINE T == {s \in SUBSET S : f[s] # g[s]}
      <2>0. T \subseteq SUBSET S /\ T # {}
          OBVIOUS
      <2>1. PICK s \in T : \A t \in T : t \subseteq s => t = s
          <3> HIDE DEF T
          <3> QED
              BY <2>0, SmallestSet
      <2>2. s # {}
          BY <2>1 DEF Folds
      <2>3. s \ {Pick(s)} \notin T
          BY <2>1, <2>2, Picked
      <2>4. f[s \ {Pick(s)}] = g[s \ {Pick(s)}]
          BY <2>1, <2>3
      <2> QED
          BY <2>1, <2>2, <2>4 DEF Folds
  <1> QED
      BY <1>1 DEF Folds

\* A solution for S holds the solutions for its subsets.
LEMMA FoldRestricts ==
    ASSUME NEW S, IsFiniteSet(S), NEW it, Folds(it, S), NEW u, u \subseteq S
    PROVE  /\ \E jt : Folds(jt, u)
           /\ it[u] = Asked(u)
  <1> DEFINE jt == [s \in SUBSET u |-> it[s]]
  <1>1. \A s \in SUBSET u : it[s] = IF s = {} THEN 0 ELSE Need[Pick(s)] + it[s \ {Pick(s)}]
      BY DEF Folds
  <1>2. \A s \in SUBSET u : s # {} => s \ {Pick(s)} \in SUBSET u
      OBVIOUS
  <1>3. Folds(jt, u)
      BY <1>1, <1>2 DEF Folds
  <1>4. Folds(Fold(u), u)
      BY <1>3 DEF Fold
  <1>5. IsFiniteSet(u)
      BY FS_Subset
  <1> HIDE DEF jt
  <1>6. Fold(u) = jt
      BY <1>3, <1>4, <1>5, FoldUnique
  <1> QED
      BY <1>3, <1>6, AskedIsFold DEF jt

\* There is a solution for every finite set.
LEMMA FoldExists ==
    ASSUME NEW S, IsFiniteSet(S)
    PROVE  \E it : Folds(it, S)
  <1> SUFFICES ASSUME ~ \E it : Folds(it, S) PROVE FALSE
      OBVIOUS
  <1> DEFINE T == {s \in SUBSET S : ~ \E it : Folds(it, s)}
  <1>0. T \subseteq SUBSET S /\ T # {}
      OBVIOUS
  <1>1. PICK s \in T : \A t \in T : t \subseteq s => t = s
      <2> HIDE DEF T
      <2> QED
          BY <1>0, SmallestSet
  <1>2. \A t : t \subseteq s /\ t # s => \E it : Folds(it, t)
      BY <1>1
  <1> DEFINE it == [t \in SUBSET s |->
                      IF t = {} THEN 0 ELSE Need[Pick(t)] + Asked(t \ {Pick(t)})]
  <1>3. ASSUME NEW t \in SUBSET s, t # s PROVE it[t] = Asked(t)
      <2>1. IsFiniteSet(t)
          BY <1>1, FS_Subset
      <2>2. PICK jt : Folds(jt, t)
          BY <1>2, <1>3
      <2>3. jt[t] = Asked(t)
          BY <2>1, <2>2, FoldRestricts
      <2>4. CASE t = {}
          BY <2>2, <2>3, <2>4 DEF Folds
      <2>5. CASE t # {}
          <3>1. t \ {Pick(t)} \subseteq t
              OBVIOUS
          <3>2. jt[t \ {Pick(t)}] = Asked(t \ {Pick(t)})
              BY <2>1, <2>2, <3>1, FoldRestricts
          <3> QED
              BY <2>2, <2>3, <2>5, <3>2 DEF Folds
      <2> QED
          BY <2>4, <2>5
  <1>4. ASSUME NEW t \in SUBSET s, t # {} PROVE it[t \ {Pick(t)}] = Asked(t \ {Pick(t)})
      <2>1. t \ {Pick(t)} \in SUBSET s /\ t \ {Pick(t)} # s
          BY <1>4, Picked
      <2> HIDE DEF it
      <2> QED
          BY <1>3, <2>1
  <1>5. Folds(it, s)
      BY <1>4 DEF Folds
  <1> QED
      BY <1>1, <1>5

\* So the fold takes out what it picks,
LEMMA AskedStep ==
    ASSUME NEW S, IsFiniteSet(S)
    PROVE  /\ S = {} => Asked(S) = 0
           /\ S # {} => Asked(S) = Need[Pick(S)] + Asked(S \ {Pick(S)})
  <1>1. PICK it : Folds(it, S)
      BY FoldExists
  <1>2. it[S] = Asked(S)
      BY <1>1, FoldRestricts
  <1>3. it[S \ {Pick(S)}] = Asked(S \ {Pick(S)})
      BY <1>1, FoldRestricts
  <1> QED
      BY <1>1, <1>2, <1>3 DEF Folds

\* it is a number,
LEMMA AskedType ==
    ASSUME NEW S, S \subseteq Dep
    PROVE  Asked(S) \in Nat
  <1>. IsFiniteSet(S)
      BY StorageAssumption, FS_Subset
  <1> SUFFICES ASSUME Asked(S) \notin Nat PROVE FALSE
      OBVIOUS
  <1> DEFINE T == {s \in SUBSET S : Asked(s) \notin Nat}
  <1>0. T \subseteq SUBSET S /\ T # {}
      OBVIOUS
  <1>1. PICK s \in T : \A t \in T : t \subseteq s => t = s
      <2> HIDE DEF T
      <2> QED
          BY <1>0, SmallestSet
  <1>2. IsFiniteSet(s)
      BY <1>1, FS_Subset
  <1>3. s # {}
      <2>1. Asked(s) \notin Nat
          BY <1>1
      <2>2. s = {} => Asked(s) = 0
          BY <1>2, AskedStep
      <2> HIDE DEF T, Asked
      <2> QED
          BY <2>1, <2>2
  <1>4. Pick(s) \in s /\ Pick(s) \in Dep
      BY <1>1, <1>3, Picked
  <1>5. Asked(s \ {Pick(s)}) \in Nat
      BY <1>1, <1>4
  <1>6. Asked(s) = Need[Pick(s)] + Asked(s \ {Pick(s)})
      BY <1>2, <1>3, AskedStep
  <1>7. Need[Pick(s)] \in Nat
      BY <1>4, StorageAssumption
  <1> QED
      BY <1>1, <1>5, <1>6, <1>7

\* and any other could be taken out first.
LEMMA Taken ==
    ASSUME NEW S, S \subseteq Dep, NEW x \in S
    PROVE  Asked(S) = Need[x] + Asked(S \ {x})
  <1>. IsFiniteSet(S)
      BY StorageAssumption, FS_Subset
  <1> SUFFICES ASSUME Asked(S) # Need[x] + Asked(S \ {x}) PROVE FALSE
      OBVIOUS
  <1> DEFINE T == {s \in SUBSET S : \E y \in s : Asked(s) # Need[y] + Asked(s \ {y})}
  <1>0. T \subseteq SUBSET S /\ T # {}
      OBVIOUS
  <1>1. PICK s \in T : \A t \in T : t \subseteq s => t = s
      <2> HIDE DEF T
      <2> QED
          BY <1>0, SmallestSet
  <1>2. PICK y \in s : Asked(s) # Need[y] + Asked(s \ {y})
      BY <1>1
  <1> DEFINE p == Pick(s)
  <1>3. IsFiniteSet(s) /\ s \subseteq Dep
      BY <1>1, FS_Subset
  <1>4. p \in s
      BY <1>2, Picked
  <1>5. Asked(s) = Need[p] + Asked(s \ {p})
      BY <1>2, <1>3, AskedStep
  <1> HIDE DEF p
  <1>6. p # y
      BY <1>2, <1>5
  <1>7. Asked(s \ {p}) = Need[y] + Asked((s \ {p}) \ {y})
      <2>1. s \ {p} \notin T /\ s \ {p} \in SUBSET S
          BY <1>1, <1>4
      <2> QED
          BY <1>6, <2>1
  <1>8. Asked(s \ {y}) = Need[p] + Asked((s \ {y}) \ {p})
      <2>1. s \ {y} \notin T /\ s \ {y} \in SUBSET S
          BY <1>1
      <2> QED
          BY <1>4, <1>6, <2>1
  <1>9. Asked((s \ {p}) \ {y}) = Asked((s \ {y}) \ {p})
      <2>1. (s \ {p}) \ {y} = (s \ {y}) \ {p}
          OBVIOUS
      <2> QED
          BY <2>1
  <1>10. Need[p] \in Nat /\ Need[y] \in Nat /\ Asked((s \ {y}) \ {p}) \in Nat
      BY <1>3, <1>4, StorageAssumption, AskedType
  <1>11. \A i, j, k \in Nat : i + (j + k) = j + (i + k)
      OBVIOUS
  <1> HIDE DEF T, Asked
  <1>12. Asked(s) = Need[y] + (Need[p] + Asked((s \ {y}) \ {p}))
      BY <1>5, <1>7, <1>9, <1>10, <1>11
  <1> QED
      BY <1>2, <1>8, <1>12

-----------------------------------------------------------------------------
(* What is free.                                                             *)

LEMMA FreeType == Requested \in Nat /\ Room \in Nat /\ Free \in 0 .. Room
  <1>1. Requested \in Nat
      BY AskedType DEF Asked, Requested, Active
  <1>2. Room \in Nat
      BY StorageAssumption DEF Room
  <1> QED
      BY <1>1, <1>2 DEF Free

LEMMA KnownType == InfoOK => Known \in 0 .. Room
  BY FreeType DEF InfoOK, Known, NoInfo

LEMMA FreeDepends ==
    ASSUME UNCHANGED pod
    PROVE  Active' = Active /\ Requested' = Requested /\ Free' = Free
  BY DEF Active, Requested, Free, Room

LEMMA RoomFixed == Room' = Room
  BY DEF Room

\* A pod more, a pod less.
LEMMA PodMore ==
    ASSUME NEW d \in Dep, d \notin Active, Active' = Active \cup {d}
    PROVE  Requested' = Requested + Need[d]
  <1>1. Active' \subseteq Dep /\ d \in Active' /\ Active' \ {d} = Active
      BY DEF Active
  <1> QED
      BY <1>1, Taken, FreeType, StorageAssumption DEF Requested, Asked

LEMMA PodLess ==
    ASSUME NEW d \in Dep, d \in Active, Active' = Active \ {d}
    PROVE  Requested' <= Requested
  <1>1. Active \subseteq Dep
      BY DEF Active
  <1>2. Requested = Need[d] + Requested'
      BY <1>1, Taken DEF Requested, Asked
  <1>3. Requested' \in Nat /\ Need[d] \in Nat
      BY AskedType, StorageAssumption DEF Requested, Active, Asked
  <1> QED
      BY <1>2, <1>3

-----------------------------------------------------------------------------
(* Types.                                                                    *)

LEMMA TypeParts == TypeInv <=> AllOK
  BY DEF TypeInv, TypeOK, AllOK, LaunchOK, InfoOK, CacheOK, CleanOK, CountOK, CleanType

LEMMA FaultCounted == ASSUME CountOK, Fault, UNCHANGED downloads PROVE CountOK'
  BY StorageAssumption DEF CountOK, Fault

LEMMA RacedType ==
    ASSUME InfoOK, NEW now \in BOOLEAN, Raced(now) PROVE raced' \in BOOLEAN
  BY DEF InfoOK, Raced

LEMMA InitType == Init => AllOK
  <1> SUFFICES ASSUME Init PROVE AllOK
      OBVIOUS
  <1>1. CountOK
      BY StorageAssumption DEF Init, CountOK
  <1>2. NoClean \in CleanType
      BY DEF NoClean, CleanType
  <1> QED
      BY <1>1, <1>2 DEF Init, AllOK, LaunchOK, Unborn, InfoOK, CacheOK, CleanOK, Found

\* The caches do not change.
LEMMA CacheFrame == ASSUME CacheOK, UNCHANGED <<home, dir, old>> PROVE CacheOK'
  BY DEF CacheOK, Found

\* A directory more.
LEMMA DirMore ==
    ASSUME CacheOK, NEW c \in Chute, dir' = dir \cup {c}, UNCHANGED <<home, old>>
    PROVE  CacheOK'
  BY DEF CacheOK, Found

\* A directory less, with all that is in it.
LEMMA DirLess ==
    ASSUME CacheOK, NEW c \in Chute, Remove(c) PROVE CacheOK'
  <1>1. /\ home' = [home EXCEPT ![c] = {}] /\ dir' = dir \ {c}
        /\ old' = {p \in old : p[1] # c}
      BY DEF Remove
  <1>2. old' \subseteq Found'
      BY <1>1 DEF CacheOK, Found
  <1> QED
      BY <1>1, <1>2 DEF CacheOK

\* The coroutine of a deployment goes on and no pod changes.
LEMMA LaunchStepType ==
    ASSUME AllOK, NEW d \in Dep, NEW pc \in {"idle", "chosen", "verified", "created", "wait"},
           pc \in {"chosen", "verified"} => pod[d] = "none",
           To(d, pc), InfoOK', CountOK', UNCHANGED <<pod, cache, clean>>
    PROVE  AllOK'
  <1>1. LaunchOK'
      BY DEF AllOK, LaunchOK, Unborn, To
  <1>2. CacheOK'
      BY CacheFrame DEF AllOK, cache
  <1> QED
      BY <1>1, <1>2 DEF AllOK, CleanOK

\* Nothing happens but to the answer that is cached.
LEMMA InfoStepType ==
    ASSUME AllOK, InfoOK', CountOK', UNCHANGED <<launch, pod, cache, clean>>
    PROVE  AllOK'
  <1>1. CacheOK'
      BY CacheFrame DEF AllOK, cache
  <1> QED
      BY <1>1 DEF AllOK, LaunchOK, Unborn, CleanOK

LEMMA LaunchType ==
    ASSUME AllOK, NEW d \in Dep,
           \/ Choose(d) \/ Verify(d) \/ CreateFails(d) \/ Finish(d) \/ WaitEnds(d) \/ WaitFails(d)
    PROVE  AllOK'
  <1>. InfoOK /\ CountOK /\ LaunchOK
      BY DEF AllOK
  <1>1. raced' \in BOOLEAN
      <2>1. (HasDisk(d) /\ InFlight # {}) \in BOOLEAN
          OBVIOUS
      <2> QED
          BY <2>1, RacedType DEF Choose, Verify, CreateFails, Finish, WaitEnds, WaitFails
  <1>2. info' \in {Known, info, NoInfo}
      BY DEF Choose, Verify, CreateFails, Finish, WaitEnds, WaitFails, Invalidate
  <1>3. InfoOK'
      BY <1>1, <1>2, KnownType, RoomFixed DEF InfoOK, NoInfo
  <1>4. CountOK'
      <2>1. downloads' = downloads /\ (faults' = faults \/ Fault)
          BY DEF Choose, Verify, CreateFails, Finish, WaitEnds, WaitFails, cache
      <2> QED
          BY <2>1, FaultCounted DEF CountOK
  <1>5. UNCHANGED <<pod, cache, clean>>
      BY DEF Choose, Verify, CreateFails, Finish, WaitEnds, WaitFails
  <1>6. CASE Choose(d)
      <2>1. pod[d] = "none" /\ (To(d, "chosen") \/ UNCHANGED launch)
          BY <1>6 DEF Choose
      <2> QED
          BY <1>3, <1>4, <1>5, <2>1, LaunchStepType, InfoStepType
  <1>7. CASE Verify(d)
      <2>1. pod[d] = "none" /\ (To(d, "verified") \/ To(d, "idle"))
          BY <1>7 DEF Verify, LaunchOK, Unborn
      <2> QED
          BY <1>3, <1>4, <1>5, <2>1, LaunchStepType
  <1>8. CASE CreateFails(d) \/ Finish(d) \/ WaitEnds(d) \/ WaitFails(d)
      <2>1. To(d, "idle")
          BY <1>8 DEF CreateFails, Finish, WaitEnds, WaitFails
      <2> QED
          BY <1>3, <1>4, <1>5, <2>1, LaunchStepType
  <1> QED
      BY <1>6, <1>7, <1>8

LEMMA DiskType ==
    ASSUME AllOK, InfoExpires \/ FetchFails \/ GepettoCrash
    PROVE  AllOK'
  <1>. InfoOK /\ CountOK /\ LaunchOK
      BY DEF AllOK
  <1>1. raced' \in BOOLEAN
      BY RacedType DEF InfoExpires, FetchFails, GepettoCrash
  <1>2. InfoOK'
      <2>1. info' \in {0, NoInfo}
          BY DEF InfoExpires, FetchFails, GepettoCrash
      <2>2. 0 \in 0 .. Room
          BY FreeType
      <2> QED
          BY <1>1, <2>1, <2>2, RoomFixed DEF InfoOK
  <1>3. CountOK'
      BY FaultCounted DEF InfoExpires, FetchFails, GepettoCrash, cache, CountOK
  <1>4. CASE InfoExpires \/ FetchFails
      BY <1>2, <1>3, <1>4, InfoStepType DEF InfoExpires, FetchFails
  <1>5. CASE GepettoCrash
      <2>1. LaunchOK' /\ UNCHANGED <<pod, cache, clean>>
          BY <1>5 DEF GepettoCrash, LaunchOK, Unborn
      <2>2. CacheOK'
          BY <2>1, CacheFrame DEF AllOK, cache
      <2> QED
          BY <1>2, <1>3, <2>1, <2>2 DEF AllOK, CleanOK
  <1> QED
      BY <1>4, <1>5

\* What happens to the pods.
LEMMA PodStepType ==
    ASSUME AllOK, NEW d \in Dep,
           \/ Create(d) \/ FinishFails(d) \/ Undeploy(d)
           \/ PodGone(d) \/ PodEnds(d) \/ PodExpires(d) \/ ChuteStarts(d)
    PROVE  AllOK'
  <1>. InfoOK /\ CountOK /\ LaunchOK /\ CacheOK /\ CleanOK /\ ChuteOf[d] \in Chute
      BY StorageAssumption DEF AllOK
  <1>1. CASE Create(d)
      <2>1. LaunchOK'
          BY <1>1 DEF Create, To, LaunchOK, Unborn
      <2>2. CacheOK'
          BY <1>1, DirMore DEF Create
      <2>3. CleanOK'
          BY <1>1 DEF Create, CleanOK, LaunchOK
      <2> QED
          BY <1>1, <2>1, <2>2, <2>3, RoomFixed DEF Create, AllOK, InfoOK, CountOK
  <1>2. CASE FinishFails(d) \/ Undeploy(d)
      <2>1. /\ To(d, "idle") \/ To(d, "wait") \/ UNCHANGED launch
            /\ launch[d] \notin {"chosen", "verified"}
            /\ \/ pod[d] \in {"init", "running"} /\ pod' = [pod EXCEPT ![d] = "terminating"]
               \/ UNCHANGED pod
            /\ UNCHANGED <<info, cache, clean>>
          BY <1>2 DEF FinishFails, Undeploy
      <2>2. LaunchOK'
          BY <2>1 DEF LaunchOK, Unborn, To
      <2>3. CacheOK'
          BY <2>1, CacheFrame DEF cache
      <2>4. CleanOK'
          BY <2>1 DEF CleanOK, LaunchOK
      <2>5. CountOK'
          BY <1>2, <2>1, FaultCounted DEF FinishFails, Undeploy, CountOK, cache
      <2>6. InfoOK'
          <3>1. raced' \in BOOLEAN
              BY <1>2, RacedType DEF FinishFails, Undeploy, InfoOK
          <3> QED
              BY <2>1, <3>1, RoomFixed DEF InfoOK
      <2> QED
          BY <2>2, <2>3, <2>4, <2>5, <2>6 DEF AllOK
  <1>3. ASSUME NEW from \in {"init", "running", "terminating", "ended"},
               NEW to \in {"none", "running", "ended"},
               PodBecomes(d, from, to), UNCHANGED raced, CacheOK'
        PROVE  AllOK'
      <2>1. LaunchOK'
          BY <1>3 DEF PodBecomes, LaunchOK, Unborn
      <2>2. NoClean \in CleanType
          BY DEF NoClean, CleanType
      <2>3. CleanOK'
          BY <1>3, <2>2 DEF PodBecomes, CleanOK, LaunchOK
      <2> QED
          BY <1>3, <2>1, <2>3, RoomFixed DEF PodBecomes, AllOK, InfoOK, CountOK
  <1>4. CASE PodGone(d) \/ PodEnds(d) \/ PodExpires(d)
      <2>1. CacheOK'
          BY <1>4, CacheFrame DEF PodGone, PodEnds, PodExpires, PodBecomes
      <2> QED
          BY <1>3, <1>4, <2>1 DEF PodGone, PodEnds, PodExpires
  <1>5. CASE ChuteStarts(d)
      <2>1. CacheOK'
          BY <1>5, DirMore DEF ChuteStarts, PodBecomes
      <2> QED
          BY <1>3, <1>5, <2>1 DEF ChuteStarts
  <1> QED
      BY <1>1, <1>2, <1>4, <1>5

\* What the chutes and the cleaners do to the caches.
LEMMA DownloadType ==
    ASSUME AllOK, NEW d \in Dep, NEW r \in Repo, Download(d, r)
    PROVE  AllOK'
  <1>. CacheOK /\ ChuteOf[d] \in Chute
      BY StorageAssumption DEF AllOK
  <1>1. CacheOK'
      <2>1. /\ home' = [home EXCEPT ![ChuteOf[d]] = @ \cup {r}] /\ ChuteOf[d] \in dir
            /\ UNCHANGED <<dir, old>>
          BY DEF Download
      <2>2. \A c \in Chute : home[c] \subseteq home'[c] /\ (c \notin dir => home'[c] = home[c])
          BY <2>1 DEF CacheOK
      <2>3. old' \subseteq Found'
          BY <2>1, <2>2 DEF CacheOK, Found
      <2> QED
          BY <2>1, <2>2, <2>3 DEF CacheOK
  <1>2. CountOK'
      BY StorageAssumption DEF AllOK, CountOK, Download
  <1> QED
      BY <1>1, <1>2, RoomFixed DEF Download, disk, AllOK, LaunchOK, Unborn, InfoOK, CleanOK

LEMMA AgeingType ==
    ASSUME AllOK, NEW c \in Chute, NEW r \in Repo, GetsOld(c, r)
    PROVE  AllOK'
  <1>1. CacheOK'
      BY DEF AllOK, CacheOK, GetsOld, Found
  <1> QED
      BY <1>1, RoomFixed DEF GetsOld, disk, AllOK, LaunchOK, Unborn, InfoOK, CleanOK, CountOK

\* A cleaner takes a step in a pod that is in its init container.
LEMMA CleaningType ==
    ASSUME AllOK, NEW d \in Dep, pod[d] = "init",
           NEW pc \in {"age", "size", "done"}, NEW todo \in SUBSET (Chute \X Repo),
           Cleaning(d, pc, todo), CacheOK', UNCHANGED <<disk, pod, downloads, faults>>
    PROVE  AllOK'
  <1>1. [pc |-> pc, todo |-> todo] \in CleanType
      BY DEF CleanType
  <1> DEFINE new == [pc |-> pc, todo |-> todo]
  <1>2. clean' = [clean EXCEPT ![d] = new]
      BY DEF Cleaning
  <1> HIDE DEF new
  <1>3. CleanOK'
      BY <1>1, <1>2 DEF AllOK, CleanOK, new
  <1> QED
      BY <1>3, RoomFixed DEF disk, AllOK, LaunchOK, Unborn, InfoOK, CountOK

LEMMA CleanerType ==
    ASSUME AllOK, NEW d \in Dep,
           CleanerStarts(d) \/ AgeStep(d) \/ Rescan(d) \/ SizeStep(d) \/ Clash(d)
    PROVE  AllOK'
  <1>. CacheOK /\ CleanOK
      BY DEF AllOK
  <1>0. /\ pod[d] = "init" /\ UNCHANGED <<disk, pod, downloads, faults>>
        /\ clean[d].todo \in SUBSET (Chute \X Repo) /\ Found \in SUBSET (Chute \X Repo)
      BY DEF CleanerStarts, AgeStep, Rescan, SizeStep, Clash, cache, CleanOK, CleanType, Found
  <1>1. CASE CleanerStarts(d)
      <2>1. PICK todo \in SUBSET (Chute \X Repo) : Cleaning(d, "age", todo)
          BY <1>0, <1>1 DEF CleanerStarts
      <2> QED
          BY <1>0, <1>1, <2>1, CleaningType, CacheFrame DEF CleanerStarts, cache
  <1>2. CASE AgeStep(d)
      <2>1. PICK p \in clean[d].todo :
              IF p[1] \in dir
              THEN Remove(p[1]) /\ Cleaning(d, "age", clean[d].todo \ {p})
              ELSE Cleaning(d, "done", {}) /\ UNCHANGED <<home, dir, old>>
          BY <1>2 DEF AgeStep
      <2>2. p[1] \in Chute
          BY <1>0, <2>1
      <2>3. CASE p[1] \in dir
          <3>1. CacheOK'
              BY <2>1, <2>2, <2>3, DirLess
          <3> QED
              BY <1>0, <2>1, <2>3, <3>1, CleaningType
      <2>4. CASE p[1] \notin dir
          BY <1>0, <2>1, <2>4, CleaningType, CacheFrame
      <2> QED
          BY <2>3, <2>4
  <1>3. CASE Rescan(d)
      <2>1. \/ \E todo \in SUBSET (Chute \X Repo) : Cleaning(d, "size", todo)
            \/ Cleaning(d, "done", {})
          BY <1>0, <1>3 DEF Rescan
      <2>2. CacheOK'
          BY <1>3, CacheFrame DEF Rescan, cache
      <2> QED
          BY <1>0, <2>1, <2>2, CleaningType
  <1>4. CASE SizeStep(d)
      <2>1. CASE Cleaning(d, "done", {}) /\ UNCHANGED <<home, dir, old>>
          BY <1>0, <2>1, CleaningType, CacheFrame
      <2>2. ASSUME NEW p \in clean[d].todo, p \in Found, Remove(p[1]),
                   Cleaning(d, IF Cardinality(Found') <= Limit THEN "done" ELSE "size",
                            IF Cardinality(Found') <= Limit THEN {} ELSE clean[d].todo \ {p})
            PROVE  AllOK'
          <3>1. CacheOK'
              BY <1>0, <2>2, DirLess
          <3> QED
              BY <1>0, <2>2, <3>1, CleaningType
      <2>3. ASSUME NEW p \in clean[d].todo, Cleaning(d, "size", clean[d].todo \ {p}),
                   UNCHANGED <<home, dir, old>>
            PROVE  AllOK'
          BY <1>0, <2>3, CleaningType, CacheFrame
      <2> QED
          BY <1>4, <2>1, <2>2, <2>3 DEF SizeStep
  <1>5. CASE Clash(d)
      BY <1>0, <1>5, CleaningType, CacheFrame DEF Clash, cache
  <1> QED
      BY <1>1, <1>2, <1>3, <1>4, <1>5

LEMMA NextType == AllOK /\ [Next]_vars => AllOK'
  <1> SUFFICES ASSUME AllOK, [Next]_vars PROVE AllOK'
      OBVIOUS
  <1>1. CASE UNCHANGED vars
      BY <1>1, RoomFixed DEF vars, disk, cache, AllOK, LaunchOK, Unborn, InfoOK, CacheOK, CleanOK,
                             CountOK, Found
  <1>2. CASE InfoExpires \/ FetchFails \/ GepettoCrash
      BY <1>2, DiskType
  <1>3. CASE \E d \in Dep : \/ Choose(d) \/ Verify(d) \/ CreateFails(d) \/ Finish(d)
                            \/ WaitEnds(d) \/ WaitFails(d)
      BY <1>3, LaunchType
  <1>4. CASE \E d \in Dep : \/ Create(d) \/ FinishFails(d) \/ Undeploy(d)
                            \/ PodGone(d) \/ PodEnds(d) \/ PodExpires(d) \/ ChuteStarts(d)
      BY <1>4, PodStepType
  <1>5. CASE \E d \in Dep, r \in Repo : Download(d, r)
      BY <1>5, DownloadType
  <1>6. CASE \E c \in Chute, r \in Repo : GetsOld(c, r)
      BY <1>6, AgeingType
  <1>7. CASE \E d \in Dep : CleanerStarts(d) \/ AgeStep(d) \/ Rescan(d) \/ SizeStep(d) \/ Clash(d)
      BY <1>7, CleanerType
  <1> QED
      BY <1>1, <1>2, <1>3, <1>4, <1>5, <1>6, <1>7 DEF Next

-----------------------------------------------------------------------------
(* There is room.                                                            *)

\* A race is over only when everything is as it should be.
LEMMA SettledIsCalm ==
    ASSUME AllOK', Settled PROVE Calm'
  <1>1. /\ info' = NoInfo /\ InFlight' = {} /\ Requested' <= Room
        /\ Room' = Room
      BY RoomFixed DEF Settled
  <1>2. (Requested \in Nat /\ Room \in Nat /\ Free \in 0 .. Room)'
      BY FreeType, PTL
  <1>3. info' <= Free'
      BY <1>1, <1>2 DEF NoInfo
  <1>4. \A d \in Dep : launch'[d] # "verified"
      BY <1>1 DEF InFlight
  <1> QED
      BY <1>1, <1>3, <1>4 DEF Calm

\* Without a race, no more is believed to be free than is, at any time at which a launch
\* looks or is about to make its pod.
LEMMA KnownIsFree ==
    ASSUME AllOK, Calm, ~raced, \A d \in Dep : launch[d] # "created"
    PROVE  Known <= Free /\ info <= Free
  <1>1. info <= Free
      BY DEF Calm
  <1> QED
      BY <1>1, FreeType DEF Known

\* At most one launch is about to make its pod or to finish.
LEMMA OneVerified ==
    ASSUME Calm, ~raced, NEW d \in Dep, launch[d] = "verified"
    PROVE  /\ \A e \in Dep : e # d => launch[e] \notin {"verified", "created"}
           /\ \A e \in Dep : launch[e] # "created"
  BY DEF Calm, InFlight

\* The pods stay what they are and a race does not begin.
LEMMA StillCalm ==
    ASSUME AllOK, Calm, ~raced, UNCHANGED pod,
           InFlight' \subseteq InFlight,
           \A d \in Dep : launch'[d] = "verified" => launch[d] = "verified",
           (\A d \in Dep : launch'[d] # "created") => info' <= Free
    PROVE  Calm'
  <1>1. Requested' = Requested /\ Free' = Free /\ Room' = Room
      BY FreeDepends, RoomFixed
  <1> QED
      BY <1>1 DEF Calm

LEMMA DiskCalm ==
    ASSUME AllOK, AllOK', Calm, InfoExpires \/ FetchFails \/ GepettoCrash
    PROVE  Calm'
  <1>1. CASE raced
      BY <1>1, SettledIsCalm DEF InfoExpires, FetchFails, GepettoCrash, Raced, Calm
  <1>2. CASE ~raced
      <2>1. info' \in {0, -1}
          BY DEF InfoExpires, FetchFails, GepettoCrash, NoInfo
      <2>2. info' <= Free
          BY <2>1, FreeType
      <2>3. UNCHANGED pod /\ (launch' = launch \/ launch' = [d \in Dep |-> "idle"])
          BY DEF InfoExpires, FetchFails, GepettoCrash
      <2> QED
          BY <1>2, <2>2, <2>3, StillCalm DEF InFlight
  <1> QED
      BY <1>1, <1>2

\* The two looks at the disk.
LEMMA LookCalm ==
    ASSUME AllOK, AllOK', Calm, NEW d \in Dep, Choose(d) \/ Verify(d)
    PROVE  Calm'
  <1>. launch \in [Dep -> {"idle", "chosen", "verified", "created", "wait"}] /\ InfoOK
      BY DEF AllOK, LaunchOK
  <1>1. Choose(d) => Raced(FALSE)
      BY DEF Choose
  <1>2. Verify(d) => Raced(HasDisk(d) /\ InFlight # {})
      BY DEF Verify
  <1>3. CASE raced
      BY <1>1, <1>2, <1>3, SettledIsCalm DEF Raced, Calm
  <1>4. CASE ~raced /\ Choose(d)
      <2>1. /\ info' = Known /\ UNCHANGED pod
            /\ launch[d] = "idle" /\ launch' \in {launch, [launch EXCEPT ![d] = "chosen"]}
          BY <1>4 DEF Choose, To
      <2>2. (\A e \in Dep : launch'[e] # "created") => \A e \in Dep : launch[e] # "created"
          BY <2>1
      <2>3. InFlight' = InFlight
          BY <2>1 DEF InFlight
      <2> QED
          BY <1>4, <2>1, <2>2, <2>3, StillCalm, KnownIsFree
  <1>5. CASE ~raced /\ Verify(d) /\ ~HasDisk(d)
      <2>1. /\ info' = Known /\ UNCHANGED pod
            /\ launch[d] = "chosen" /\ launch' = [launch EXCEPT ![d] = "idle"]
          BY <1>5 DEF Verify, To
      <2>2. (\A e \in Dep : launch'[e] # "created") => \A e \in Dep : launch[e] # "created"
          BY <2>1
      <2>3. InFlight' = InFlight
          BY <2>1 DEF InFlight
      <2> QED
          BY <1>5, <2>1, <2>2, <2>3, StillCalm, KnownIsFree
  <1>6. CASE ~raced /\ Verify(d) /\ HasDisk(d)
      <2>1. /\ info' = Known /\ UNCHANGED pod
            /\ launch[d] = "chosen" /\ launch' = [launch EXCEPT ![d] = "verified"]
          BY <1>6 DEF Verify, To
      <2>2. InFlight' = InFlight \cup {d}
          BY <2>1 DEF InFlight
      <2>3. CASE InFlight # {}
          <3>1. ~Settled
              BY <2>2 DEF Settled
          <3>2. raced'
              BY <1>2, <1>6, <2>3, <3>1 DEF Raced
          <3> QED
              BY <3>2 DEF Calm
      <2>4. CASE InFlight = {}
          <3>1. \A e \in Dep : launch[e] \notin {"created", "verified"}
              BY <2>4 DEF InFlight
          <3>2. Known <= Free
              BY <1>6, <3>1, KnownIsFree
          <3>3. Need[d] <= Free
              BY <1>6, <3>2, FreeType, KnownType, StorageAssumption DEF HasDisk
          <3>4. Requested' = Requested /\ Free' = Free /\ Room' = Room
              BY <2>1, FreeDepends, RoomFixed
          <3>5. \A e \in Dep : launch'[e] = "verified" => e = d
              BY <2>1, <3>1
          <3>6. \A e, f \in InFlight' : e = f
              BY <2>2, <2>4
          <3> QED
              BY <1>6, <2>1, <3>2, <3>3, <3>4, <3>5, <3>6 DEF Calm
      <2> QED
          BY <2>3, <2>4
  <1> QED
      BY <1>3, <1>4, <1>5, <1>6

\* The pod is made: there is room for it, since no other launch came in between.
LEMMA CreateCalm ==
    ASSUME AllOK, AllOK', Calm, NEW d \in Dep, Create(d)
    PROVE  Calm'
  <1>. LaunchOK
      BY DEF AllOK
  <1>1. CASE raced
      BY <1>1 DEF Create, Calm
  <1>2. CASE ~raced
      <2>1. /\ launch[d] = "verified" /\ launch' = [launch EXCEPT ![d] = "created"]
            /\ pod' = [pod EXCEPT ![d] = "init"]
          BY DEF Create, To
      <2>2. Active' = Active \cup {d} /\ d \notin Active
          BY <2>1 DEF LaunchOK, Unborn, Active
      <2>3. Requested' = Requested + Need[d]
          BY <2>2, PodMore
      <2>4. Need[d] <= Free /\ Requested <= Room
          BY <1>2, <2>1 DEF Calm
      <2>5. Requested' <= Room' /\ Room' = Room
          BY <2>3, <2>4, FreeType, RoomFixed, StorageAssumption DEF Free
      <2>6. InFlight' = InFlight
          BY <2>1 DEF InFlight, LaunchOK
      <2>7. \A e \in Dep : launch'[e] # "verified"
          BY <1>2, <2>1, OneVerified DEF LaunchOK
      <2>8. launch'[d] = "created"
          BY <2>1 DEF LaunchOK
      <2> QED
          BY <1>2, <2>5, <2>6, <2>7, <2>8 DEF Calm
  <1> QED
      BY <1>1, <1>2

\* A launch ends, or an undeployment does.
LEMMA EndCalm ==
    ASSUME AllOK, AllOK', Calm, NEW d \in Dep,
           CreateFails(d) \/ Finish(d) \/ WaitEnds(d) \/ WaitFails(d)
    PROVE  Calm'
  <1>. launch \in [Dep -> {"idle", "chosen", "verified", "created", "wait"}] /\ InfoOK
      BY DEF AllOK, LaunchOK
  <1>0. UNCHANGED pod /\ launch' = [launch EXCEPT ![d] = "idle"] /\ Raced(FALSE)
      BY DEF CreateFails, Finish, WaitEnds, WaitFails, To
  <1>1. CASE raced
      BY <1>0, <1>1, SettledIsCalm DEF Raced, Calm
  <1>2. CASE ~raced
      <2>1. InFlight' \subseteq InFlight
          BY <1>0 DEF InFlight
      <2>2. \A e \in Dep : launch'[e] = "verified" => launch[e] = "verified"
          BY <1>0
      <2>3. CASE info' = NoInfo
          BY <1>0, <1>2, <2>1, <2>2, <2>3, FreeType, StillCalm DEF NoInfo
      <2>4. CASE CreateFails(d)
          <3>1. launch[d] = "verified" /\ info' = info
              BY <2>4 DEF CreateFails
          <3>2. info <= Free
              BY <1>2, <3>1, OneVerified, KnownIsFree
          <3> QED
              BY <1>0, <1>2, <2>1, <2>2, <3>1, <3>2, StillCalm
      <2>5. CASE WaitFails(d) /\ info' = info
          <3>1. (\A e \in Dep : launch'[e] # "created") => \A e \in Dep : launch[e] # "created"
              BY <1>0, <2>5 DEF WaitFails
          <3> QED
              BY <1>0, <1>2, <2>1, <2>2, <2>5, <3>1, KnownIsFree, StillCalm
      <2> QED
          BY <2>3, <2>4, <2>5 DEF Finish, WaitEnds, WaitFails, Invalidate
  <1> QED
      BY <1>1, <1>2

\* A pod goes, or none does, and no coroutine looks at the disk.
LEMMA LessCalm ==
    ASSUME AllOK, AllOK', Calm, UNCHANGED <<raced, info>>,
           \A e \in Dep : launch'[e] = launch[e] \/ (launch[e] = "idle" /\ launch'[e] = "wait"),
           Requested' <= Requested
    PROVE  Calm'
  <1>1. CASE raced
      BY <1>1 DEF Calm
  <1>2. CASE ~raced
      <2>1. (Requested \in Nat /\ Room \in Nat /\ Free \in 0 .. Room)'
          BY FreeType, PTL
      <2>2. Room' = Room /\ Requested' <= Room
          BY <1>2, <2>1, FreeType, RoomFixed DEF Calm
      <2>3. Free <= Free'
          <3>1. Requested <= Room /\ Free = Room - Requested
              BY <1>2 DEF Calm, Free
          <3>2. Free' = Room - Requested'
              BY <2>2 DEF Free
          <3>3. Requested \in Nat /\ Requested' \in Nat /\ Room \in Nat
              BY <2>1, FreeType
          <3>4. \A m, n, k \in Nat : n <= m => k - m <= k - n
              OBVIOUS
          <3>5. Room - Requested <= Room - Requested'
              BY <3>3, <3>4
          <3> QED
              BY <3>1, <3>2, <3>5
      <2>4. InFlight' = InFlight
          BY DEF InFlight
      <2>5. (\A e \in Dep : launch'[e] # "created") => info' <= Free'
          <3>1. ASSUME \A e \in Dep : launch'[e] # "created" PROVE info <= Free
              BY <1>2, <3>1 DEF Calm
          <3>2. info \in Int
              BY FreeType DEF AllOK, InfoOK, NoInfo
          <3> QED
              BY <2>1, <2>3, <3>1, <3>2, FreeType
      <2>6. ASSUME NEW e \in Dep, launch'[e] = "verified" PROVE Need[e] <= Free'
          <3>1. Need[e] <= Free
              BY <1>2, <2>6 DEF Calm
          <3> QED
              BY <2>1, <2>3, <3>1, FreeType, StorageAssumption
      <2> QED
          BY <1>2, <2>2, <2>4, <2>5, <2>6 DEF Calm
  <1> QED
      BY <1>1, <1>2

LEMMA PodCalm ==
    ASSUME AllOK, AllOK', Calm, NEW d \in Dep,
           \/ FinishFails(d) \/ Undeploy(d)
           \/ PodGone(d) \/ PodEnds(d) \/ PodExpires(d) \/ ChuteStarts(d)
    PROVE  Calm'
  <1>. LaunchOK
      BY DEF AllOK
  <1>1. CASE FinishFails(d)
      BY <1>1, SettledIsCalm DEF FinishFails, Raced, Calm
  <1>2. CASE Undeploy(d)
      <2>1. /\ pod[d] \in {"init", "running"} /\ pod' = [pod EXCEPT ![d] = "terminating"]
            /\ launch[d] = "idle" /\ launch' \in {launch, [launch EXCEPT ![d] = "wait"]}
            /\ UNCHANGED <<info, raced>>
          BY <1>2 DEF Undeploy, To
      <2>2. Active' = Active
          BY <2>1 DEF Active, LaunchOK
      <2>3. Requested' <= Requested
          BY <2>2, FreeType DEF Requested
      <2> QED
          BY <2>1, <2>3, LessCalm DEF LaunchOK
  <1>3. ASSUME NEW from \in {"init", "running", "terminating", "ended"},
               NEW to \in {"none", "running", "ended"},
               from = "ended" => to = "none",
               PodBecomes(d, from, to), UNCHANGED raced
        PROVE  Calm'
      <2>1. pod[d] = from /\ pod' = [pod EXCEPT ![d] = to] /\ UNCHANGED <<launch, info>>
          BY <1>3 DEF PodBecomes
      <2>2. CASE from # "ended" /\ to # "running"
          <3>1. d \in Active /\ Active' = Active \ {d}
              BY <2>1, <2>2 DEF Active, LaunchOK
          <3> QED
              BY <1>3, <2>1, <3>1, PodLess, LessCalm
      <2>3. CASE from = "ended" \/ to = "running"
          <3>1. Active' = Active
              BY <1>3, <2>1, <2>3 DEF Active, LaunchOK
          <3>2. Requested' <= Requested
              BY <3>1, FreeType DEF Requested
          <3> QED
              BY <1>3, <2>1, <3>2, LessCalm
      <2> QED
          BY <2>2, <2>3
  <1>4. CASE PodGone(d) \/ PodEnds(d) \/ PodExpires(d) \/ ChuteStarts(d)
      BY <1>3, <1>4 DEF PodGone, PodEnds, PodExpires, ChuteStarts
  <1> QED
      BY <1>1, <1>2, <1>4

LEMMA NextCalm == AllOK /\ Calm /\ [Next]_vars => Calm'
  <1> SUFFICES ASSUME AllOK, Calm, [Next]_vars PROVE Calm'
      OBVIOUS
  <1>0. AllOK'
      BY NextType
  <1>1. ASSUME UNCHANGED <<disk, pod>> PROVE Calm'
      <2>1. Requested' = Requested
          BY <1>1, FreeDepends
      <2> QED
          BY <1>0, <1>1, <2>1, FreeType, LessCalm DEF disk
  <1>2. CASE UNCHANGED vars
      BY <1>1, <1>2 DEF vars
  <1>3. CASE InfoExpires \/ FetchFails \/ GepettoCrash
      BY <1>0, <1>3, DiskCalm
  <1>4. CASE \E d \in Dep : Choose(d) \/ Verify(d)
      BY <1>0, <1>4, LookCalm
  <1>5. CASE \E d \in Dep : Create(d)
      BY <1>0, <1>5, CreateCalm
  <1>6. CASE \E d \in Dep : CreateFails(d) \/ Finish(d) \/ WaitEnds(d) \/ WaitFails(d)
      BY <1>0, <1>6, EndCalm
  <1>7. CASE \E d \in Dep : \/ FinishFails(d) \/ Undeploy(d) \/ PodGone(d) \/ PodEnds(d)
                            \/ PodExpires(d) \/ ChuteStarts(d)
      BY <1>0, <1>7, PodCalm
  <1>8. CASE \/ \E d \in Dep, r \in Repo : Download(d, r)
             \/ \E c \in Chute, r \in Repo : GetsOld(c, r)
             \/ \E d \in Dep : CleanerStarts(d) \/ AgeStep(d) \/ Rescan(d) \/ SizeStep(d) \/ Clash(d)
      BY <1>1, <1>8 DEF Download, GetsOld, CleanerStarts, AgeStep, Rescan, SizeStep, Clash
  <1> QED
      BY <1>2, <1>3, <1>4, <1>5, <1>6, <1>7, <1>8 DEF Next

-----------------------------------------------------------------------------
(* The theorems.                                                             *)

LEMMA InitCalm == Init => Calm
  <1> SUFFICES ASSUME Init PROVE Calm
      OBVIOUS
  <1>1. Active = {} /\ InFlight = {}
      BY DEF Init, Active, InFlight
  <1>2. Requested = 0
      BY <1>1, FS_EmptySet, AskedStep DEF Requested, Asked
  <1>3. info <= Free /\ \A d \in Dep : launch[d] # "verified"
      BY FreeType DEF Init, NoInfo
  <1> QED
      BY <1>1, <1>2, <1>3, FreeType DEF Calm

LEMMA Inductive ==
    /\ Init => IInv
    /\ IInv /\ [Next]_vars => IInv'
  <1>1. Init => IInv
      BY InitType, InitCalm, TypeParts DEF IInv
  <1>2. IInv /\ [Next]_vars => IInv'
      <2>1. TypeInv' <=> AllOK'
          BY TypeParts, PTL
      <2> QED
          BY <2>1, TypeParts, NextType, NextCalm DEF IInv
  <1> QED
      BY <1>1, <1>2

\* Types: a cached answer never promises more than the room that is not reserved, only a
\* pod in its init container is cleaned for, and nothing is in a directory that is gone.
THEOREM TypeCorrect == Spec => []TypeOK
  <1>1. IInv => TypeOK
      BY DEF IInv, TypeInv
  <1> QED
      BY <1>1, Inductive, PTL DEF Spec

\* The pods of a node never ask for more storage than it has, but after two launches have
\* overlapped or one has failed half-way, until all is computed afresh.
THEOREM DiskCorrect == Spec => []DiskFits
  <1>1. IInv => DiskFits
      BY DEF IInv, Calm, DiskFits
  <1> QED
      BY <1>1, Inductive, PTL DEF Spec

=============================================================================
