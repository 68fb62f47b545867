-------------------------- MODULE InventoryProofs --------------------------
(***************************************************************************)
(* The inventory: types, and a pass of reconcile deletes no chute that the *)
(* validator has, for every number of chutes, versions, events and         *)
(* failures.                                                               *)
(*                                                                         *)
(* ReconcileSparesCurrent speaks of the tasks a pass has started.  That it *)
(* is kept when they are started needs PassFresh: what the pass has        *)
(* fetched is still what the validator has, of every chute it has not      *)
(* changed since.                                                          *)
(***************************************************************************)
EXTENDS Inventory, SequenceTheorems, TLAPS

\* Events as they are sent: an image has a number; and the texts of a chute are no more
\* than its versions.
Sent == {e \in Event : e.kind = "image" => e.arg \in Rev}
TextsCounted == \A c \in Chute : remote[c].text <= remote[c].ver

RecPc == {"idle", "images", "hash", "update", "rolling", "deployments", "chutes", "gather"}
RecType == [pc : RecPc, img : [Chute -> 0 .. MaxVersion], todo : SUBSET (Chute \X Rev),
            roll : SUBSET Chute, call : Handler \cup {NoHandler}]

\* Handlers are of events that were sent; the tasks of a pass are of its own.
HandlersOK ==
    /\ chan \in Seq(Sent)
    /\ hnd \in Handler => hnd.ev \in Sent
    /\ \A h \in jobs : h.ev \in Sent
    /\ rec.call \in Handler => rec.call.ev \in Sent

TypeInv == TypeOK /\ rec \in RecType /\ TextsCounted /\ HandlersOK

\* Of a chute the validator has not changed since the pass began, the pass knows what the
\* validator has (or the validator has withdrawn everything), and whether it is rolling.
PassFresh ==
    rec.pc # "idle" =>
        \A c \in Chute \ moved :
            /\ remote[c] \in {known[c], NoDef}
            /\ rec.pc \in {"rolling", "deployments", "chutes", "gather"} /\ c \in rolling
                 => c \in rec.roll

IInv == TypeInv /\ PassFresh /\ ReconcileSparesCurrent

\* The parts of TypeInv.
ValidatorOK ==
    /\ remote \in [Chute -> Def \cup {NoDef}] /\ deleted \subseteq Chute
    /\ rolling \subseteq {c \in Chute : remote[c] # NoDef}
    /\ moved \subseteq Chute /\ changes \in 0 .. MaxChanges /\ TextsCounted
StoredOK == row \in [Chute -> Def \cup {NoDef}] /\ dep \in [Chute -> SUBSET Rev]
WireOK ==
    /\ sock \in {"start", "auth", "on", "off"} /\ sub \in {"boot", "off", "on"}
    /\ chan \in Seq(Sent) /\ Len(chan) <= MaxQueue /\ attempts \in 0 .. MaxAttempts
    /\ sub = "boot" => chan = <<>> /\ hnd = NoHandler
    /\ hnd \in Handler \cup {NoHandler} /\ (hnd \in Handler => hnd.ev \in Sent)
PassOK ==
    /\ known \in [Chute -> Def \cup {NoDef}] /\ rec \in RecType
    /\ rec.call # NoHandler => rec.pc = "update"
    /\ rec.call \in Handler => rec.call.ev \in Sent
JobsOK == jobs \subseteq Handler /\ \A h \in jobs : h.ev \in Sent
FaultsOK == faults \in 0 .. MaxFaults

AllOK == ValidatorOK /\ StoredOK /\ WireOK /\ PassOK /\ JobsOK /\ FaultsOK

-----------------------------------------------------------------------------
(* Helpers.                                                                  *)

LEMMA TypeParts == TypeInv <=> AllOK
  <1>1. Seq(Sent) \subseteq Seq(Event)
      BY DEF Sent
  <1> QED
      BY <1>1 DEF TypeInv, TypeOK, HandlersOK, AllOK, ValidatorOK, StoredOK, WireOK, PassOK, JobsOK,
                  FaultsOK, RecType, RecPc

LEMMA FaultCounted ==
    ASSUME FaultsOK, Fault PROVE FaultsOK'
  BY InventoryAssumption DEF FaultsOK, Fault

\* No handler and what is no handler are told apart by their step.
LEMMA NoHandlerApart == NoHandler \notin Handler
  BY DEF NoHandler, Handler

LEMMA HandleType ==
    ASSUME NEW e \in Sent
    PROVE  Handle(e) \in Handler /\ Handle(e).ev = e
  BY DEF Handle, Handler, Sent

LEMMA EventType ==
    ASSUME NEW k \in {"created", "updated", "deleted", "rolling"}, NEW c \in Chute,
           NEW v \in 0 .. MaxVersion, NEW a \in 0 .. MaxVersion
    PROVE  Ev(k, c, v, a) \in Sent
  BY DEF Ev, Sent, Event

LEMMA ImageType ==
    ASSUME NEW c \in Chute, NEW a \in Rev
    PROVE  Ev("image", c, 0, a) \in Sent
  BY InventoryAssumption DEF Ev, Sent, Event, Rev

\* A broadcast arrives whole or not at all.
LEMMA BroadcastType ==
    ASSUME WireOK, NEW e \in Sent, Broadcast(e), UNCHANGED <<sock, sub, attempts, hnd>>
    PROVE  WireOK'
  <1>1. CASE sock = "on" /\ sub = "on"
      <2>1. chan' = Append(chan, e) /\ Len(chan) < MaxQueue
          BY <1>1 DEF Broadcast
      <2>2. chan' \in Seq(Sent) /\ Len(chan') = Len(chan) + 1
          BY <2>1, AppendProperties DEF WireOK
      <2>3. Len(chan) \in Nat /\ MaxQueue \in Nat
          BY InventoryAssumption, LenProperties DEF WireOK
      <2> QED
          BY <1>1, <2>1, <2>2, <2>3 DEF WireOK
  <1>2. CASE ~(sock = "on" /\ sub = "on")
      BY <1>2 DEF Broadcast, WireOK
  <1> QED
      BY <1>1, <1>2

\* What a handler does to the tables, and what becomes of it.
LEMMA HandlerStepType ==
    ASSUME ValidatorOK, StoredOK, FaultsOK, NEW h \in Handler, h.ev \in Sent,
           NEW next \in After(h), HandlerStep(h, next)
    PROVE  /\ StoredOK' /\ FaultsOK' /\ next \in Handler \cup {NoHandler}
           /\ next \in Handler => next.ev = h.ev
  <1>1. /\ h.ev \in Event /\ h.ev.chute \in Chute /\ h.def \in Def \cup {NoDef}
        /\ remote[h.ev.chute] \in Def \cup {NoDef}
      BY DEF Sent, Event, Handler, ValidatorOK
  <1>2. next \in Handler \cup {NoHandler} /\ (next \in Handler => next.ev = h.ev)
      <2>1. CASE next = NoHandler
          BY <2>1, NoHandlerApart
      <2>2. ASSUME NEW p \in {"fetch", "store", "drop"}, NEW d \in {h.def, remote[h.ev.chute]},
                   next = [h EXCEPT !.pc = p, !.def = d]
            PROVE  next \in Handler /\ next.ev = h.ev
          BY <1>1, <2>2 DEF Handler
      <2> QED
          BY <2>1, <2>2 DEF After
  <1>3. FaultsOK'
      <2>1. faults' = faults \/ Fault
          BY DEF HandlerStep, CreatedStep, UpdatedStep, DeletedStep, ImageStep, RollingStep, Fetch
      <2> QED
          BY <2>1, FaultCounted DEF FaultsOK
  <1>4. StoredOK'
      <2>1. CASE CreatedStep(h, next)
          BY <1>1, <2>1 DEF CreatedStep, StoredOK
      <2>2. CASE UpdatedStep(h, next)
          BY <1>1, <2>2 DEF UpdatedStep, StoredOK
      <2>3. CASE DeletedStep(h, next)
          BY <1>1, <2>3 DEF DeletedStep, StoredOK
      <2>4. CASE RollingStep(h, next)
          BY <1>1, <2>4 DEF RollingStep, StoredOK
      <2>5. CASE h.ev.kind = "image" /\ ImageStep(h, next)
          <3>1. h.ev.arg \in Rev /\ dep' = dep
              BY <2>5 DEF Sent, ImageStep
          <3>2. CASE row[h.ev.chute] = NoDef
              BY <2>5, <3>1, <3>2 DEF ImageStep, StoredOK
          <3>3. CASE row[h.ev.chute] # NoDef
              <4> DEFINE d == [row[h.ev.chute] EXCEPT !.img = h.ev.arg]
              <4>1. d \in Def
                  BY <1>1, <3>1, <3>3 DEF StoredOK, Def
              <4>2. row' = [row EXCEPT ![h.ev.chute] = d]
                  BY <2>5, <3>3 DEF ImageStep
              <4> HIDE DEF d
              <4> QED
                  BY <3>1, <4>1, <4>2 DEF StoredOK
          <3> QED
              BY <3>2, <3>3
      <2> QED
          BY <2>1, <2>2, <2>3, <2>4, <2>5 DEF HandlerStep
  <1> QED
      BY <1>2, <1>3, <1>4

-----------------------------------------------------------------------------
(* Types.                                                                    *)

LEMMA InitType == Init => AllOK
  <1> SUFFICES ASSUME Init PROVE AllOK
      OBVIOUS
  <1>1. /\ First \in Def /\ First.text <= First.ver /\ NoDef.text <= NoDef.ver
        /\ 0 \in 0 .. MaxVersion /\ 0 \in 0 .. MaxAttempts /\ 0 \in 0 .. MaxChanges
        /\ 0 \in 0 .. MaxFaults /\ 0 <= MaxQueue
      BY InventoryAssumption DEF First, NoDef, Def, Rev
  <1>2. ValidatorOK
      BY <1>1 DEF Init, ValidatorOK, TextsCounted
  <1>3. <<>> \in Seq(Sent) /\ Len(<<>>) = 0
      BY EmptySeq
  <1>4. WireOK
      BY <1>1, <1>3, NoHandlerApart DEF Init, WireOK
  <1>5. RecIdle \in RecType /\ RecIdle.call = NoHandler
      BY <1>1 DEF RecIdle, RecType, RecPc
  <1> QED
      BY <1>1, <1>2, <1>4, <1>5, NoHandlerApart DEF Init, AllOK, StoredOK, PassOK, JobsOK, FaultsOK

LEMMA ChangesType ==
    ASSUME AllOK, NEW c \in Chute, Changes(c)
    PROVE  /\ StoredOK' /\ PassOK' /\ JobsOK' /\ FaultsOK'
           /\ moved' \subseteq Chute /\ changes' \in 0 .. MaxChanges
           /\ UNCHANGED <<sock, sub, attempts, hnd>>
  <1>1. moved' \subseteq Chute
      BY DEF Changes, Touched, AllOK, ValidatorOK
  <1>2. changes' \in 0 .. MaxChanges
      BY InventoryAssumption DEF Changes, AllOK, ValidatorOK
  <1> QED
      BY <1>1, <1>2 DEF Changes, AllOK, StoredOK, PassOK, JobsOK, FaultsOK

LEMMA ValidatorType ==
    ASSUME AllOK, NEW c \in Chute,
           ChutePublished(c) \/ ChuteChanged(c) \/ ImagePatched(c) \/ ChuteWithdrawn(c)
    PROVE  AllOK'
  <1>. remote[c] \in Def \cup {NoDef} /\ ValidatorOK /\ WireOK
      BY DEF AllOK, ValidatorOK
  <1>1. ASSUME remote' \in [Chute -> Def \cup {NoDef}], TextsCounted', deleted' \subseteq Chute,
               rolling' \subseteq {b \in Chute : remote'[b] # NoDef}, Changes(c), WireOK'
        PROVE  AllOK'
      BY <1>1, ChangesType DEF AllOK, ValidatorOK
  <1>2. CASE ChutePublished(c)
      <2>1. First \in Def /\ First # NoDef /\ First.text <= First.ver /\ 0 \in 0 .. MaxVersion
            /\ 1 \in 0 .. MaxVersion
          BY InventoryAssumption DEF First, NoDef, Def, Rev
      <2>2. WireOK'
          BY <1>2, <2>1, EventType, BroadcastType, ChangesType DEF ChutePublished
      <2> QED
          BY <1>1, <1>2, <2>1, <2>2 DEF ChutePublished, ValidatorOK, TextsCounted
  <1>3. CASE ChuteChanged(c)
      <2>1. remote[c] \in Def /\ remote[c].ver + 1 \in 0 .. MaxVersion /\ 0 \in 0 .. MaxVersion
          BY <1>3, InventoryAssumption DEF ChuteChanged, Def, Rev
      <2>2. PICK text \in {remote[c].text, remote[c].text + 1} :
              remote' = [remote EXCEPT ![c] = [remote[c] EXCEPT !.ver = @ + 1, !.text = text]]
          BY <1>3 DEF ChuteChanged
      <2> DEFINE d == [remote[c] EXCEPT !.ver = @ + 1, !.text = text]
      <2>3. d \in Def /\ d # NoDef /\ d.text <= d.ver
          <3>1. remote[c].text <= remote[c].ver
              BY DEF ValidatorOK, TextsCounted
          <3>2. d \in [ver : {remote[c].ver + 1}, text : {text}, img : Rev]
              BY <2>1 DEF Def
          <3>3. d.ver = remote[c].ver + 1 /\ d.text = text
              BY <3>2
          <3>4. text \in Rev /\ text <= remote[c].ver + 1 /\ remote[c].ver + 1 \in Rev
              BY <2>1, <2>2, <3>1, InventoryAssumption DEF Def, Rev
          <3> HIDE DEF d
          <3>5. d \in Def
              BY <3>2, <3>4 DEF Def
          <3> QED
              BY <3>3, <3>4, <3>5 DEF NoDef, Rev
      <2>4. WireOK'
          <3>1. CASE UNCHANGED chan
              BY <1>3, <3>1, ChangesType DEF ChuteChanged, WireOK
          <3>2. CASE Broadcast(Ev("updated", c, remote[c].ver + 1, 0))
              BY <1>3, <2>1, <3>2, EventType, BroadcastType, ChangesType DEF ChuteChanged
          <3> QED
              BY <1>3, <3>1, <3>2 DEF ChuteChanged
      <2> HIDE DEF d
      <2>5. remote' = [remote EXCEPT ![c] = d]
          BY <2>2 DEF d
      <2>6. Changes(c) /\ deleted' = deleted /\ rolling' \in {rolling, rolling \cup {c}}
          BY <1>3 DEF ChuteChanged
      <2> QED
          BY <1>1, <2>3, <2>4, <2>5, <2>6 DEF ValidatorOK, TextsCounted
  <1>4. CASE ImagePatched(c)
      <2>1. remote[c] \in Def /\ remote[c].img + 1 \in Rev
          BY <1>4, InventoryAssumption DEF ImagePatched, Def, Rev
      <2>2. WireOK'
          BY <1>4, <2>1, ImageType, BroadcastType, ChangesType DEF ImagePatched
      <2> DEFINE d == [remote[c] EXCEPT !.img = @ + 1]
      <2>3. d = [ver |-> remote[c].ver, text |-> remote[c].text, img |-> remote[c].img + 1]
          BY <2>1 DEF Def
      <2>4. d \in Def /\ d # NoDef /\ d.text <= d.ver
          BY <2>1, <2>3 DEF Def, NoDef, Rev, ValidatorOK, TextsCounted
      <2>5. remote' = [remote EXCEPT ![c] = d]
          BY <1>4 DEF ImagePatched
      <2> HIDE DEF d
      <2> QED
          BY <1>1, <1>4, <2>2, <2>4, <2>5 DEF ImagePatched, ValidatorOK, TextsCounted
  <1>5. CASE ChuteWithdrawn(c)
      <2>1. remote[c].ver \in 0 .. MaxVersion /\ 0 \in 0 .. MaxVersion /\ NoDef.text <= NoDef.ver
          BY InventoryAssumption DEF Def, Rev, NoDef
      <2>2. WireOK'
          BY <1>5, <2>1, EventType, BroadcastType, ChangesType DEF ChuteWithdrawn
      <2> QED
          BY <1>1, <1>5, <2>1, <2>2 DEF ChuteWithdrawn, ValidatorOK, TextsCounted
  <1> QED
      BY <1>2, <1>3, <1>4, <1>5

LEMMA RollType ==
    ASSUME AllOK, NEW c \in Chute, InstanceRolls(c) \/ RollingEnds(c)
    PROVE  AllOK'
  <1>1. CASE InstanceRolls(c)
      <2>1. /\ UNCHANGED <<validator, row, dep, sock, sub, attempts, hnd, known, rec, jobs, faults>>
            /\ \E w \in dep[c] : Broadcast(Ev("rolling", c, remote[c].ver, w))
          BY <1>1 DEF InstanceRolls
      <2>2. remote[c].ver \in 0 .. MaxVersion /\ dep[c] \subseteq 0 .. MaxVersion
          BY InventoryAssumption DEF AllOK, ValidatorOK, StoredOK, Def, NoDef, Rev
      <2>3. WireOK'
          BY <2>1, <2>2, EventType, BroadcastType DEF AllOK
      <2> QED
          BY <2>1, <2>3 DEF AllOK, ValidatorOK, StoredOK, PassOK, JobsOK, FaultsOK, validator,
                            TextsCounted
  <1>2. CASE RollingEnds(c)
      BY <1>2 DEF RollingEnds, Touched, AllOK, ValidatorOK, StoredOK, WireOK, PassOK, JobsOK,
                  FaultsOK, wire, TextsCounted
  <1> QED
      BY <1>1, <1>2

LEMMA SocketType ==
    ASSUME AllOK,
           \/ SocketConnects \/ SocketRefused \/ Authenticates \/ AuthFails \/ SocketDrops
           \/ ApiRestarts
    PROVE  AllOK'
  <1>1. /\ sock' \in {"start", "auth", "on", "off"}
        /\ UNCHANGED <<validator, row, dep, chan, sub, attempts, hnd, known, rec, jobs>>
      BY DEF SocketConnects, SocketRefused, Authenticates, AuthFails, SocketDrops, ApiRestarts, Socket
  <1>2. FaultsOK'
      BY FaultCounted DEF AllOK, FaultsOK, SocketConnects, SocketRefused, Authenticates, AuthFails,
                          SocketDrops, ApiRestarts
  <1> QED
      BY <1>1, <1>2 DEF AllOK, ValidatorOK, StoredOK, WireOK, PassOK, JobsOK, validator, TextsCounted

LEMMA RestartType ==
    ASSUME AllOK, Restart, FaultsOK'
    PROVE  AllOK'
  <1>1. <<>> \in Seq(Sent) /\ Len(<<>>) = 0 /\ 0 <= MaxQueue /\ 0 \in 0 .. MaxAttempts
        /\ 0 \in 0 .. MaxVersion
      BY EmptySeq, InventoryAssumption
  <1>2. WireOK'
      BY <1>1, NoHandlerApart DEF Restart, AllOK, WireOK
  <1>3. RecIdle \in RecType /\ RecIdle.call = NoHandler
      BY <1>1 DEF RecIdle, RecType, RecPc
  <1>4. PassOK' /\ JobsOK'
      BY <1>3, NoHandlerApart DEF Restart, PassOK, JobsOK
  <1> QED
      BY <1>2, <1>4 DEF Restart, AllOK, ValidatorOK, StoredOK, validator, TextsCounted

LEMMA ListenerType ==
    ASSUME AllOK,
           \/ GepettoCrash \/ Subscribe \/ ListenerFails \/ ListenerTakes \/ ListenerHandles
    PROVE  AllOK'
  <1>. ValidatorOK /\ StoredOK /\ WireOK /\ PassOK /\ JobsOK /\ FaultsOK
      BY DEF AllOK
  <1>0. 0 \in 0 .. MaxAttempts
      BY InventoryAssumption
  <1>1. CASE GepettoCrash
      BY <1>1, FaultCounted, RestartType DEF GepettoCrash
  <1>2. CASE Subscribe
      BY <1>0, <1>2 DEF Subscribe, AllOK, ValidatorOK, StoredOK, WireOK, PassOK, JobsOK, FaultsOK,
                        validator, TextsCounted
  <1>3. CASE ListenerFails
      <2>1. FaultsOK'
          BY <1>3, FaultCounted DEF ListenerFails, Outage, FaultsOK
      <2>2. CASE attempts < MaxAttempts
          <3>1. /\ sub' = "off" /\ chan' = <<>> /\ attempts' \in 0 .. MaxAttempts
                /\ UNCHANGED <<validator, row, dep, sock, hnd, known, rec, jobs>>
              BY <1>3, <2>2, InventoryAssumption DEF ListenerFails, WireOK
          <3>2. <<>> \in Seq(Sent) /\ Len(<<>>) = 0 /\ 0 <= MaxQueue
              BY EmptySeq, InventoryAssumption
          <3>3. WireOK'
              BY <3>1, <3>2 DEF WireOK
          <3> QED
              BY <2>1, <3>1, <3>3 DEF AllOK, ValidatorOK, StoredOK, PassOK, JobsOK, validator,
                                      TextsCounted
      <2>3. CASE ~(attempts < MaxAttempts)
          BY <1>3, <2>1, <2>3, RestartType DEF ListenerFails
      <2> QED
          BY <2>2, <2>3
  <1>4. CASE ListenerTakes
      <2>1. Head(chan) \in Sent /\ Tail(chan) \in Seq(Sent) /\ Len(Tail(chan)) = Len(chan) - 1
          BY <1>4, HeadTailProperties DEF ListenerTakes, WireOK
      <2>2. Len(chan) \in Nat /\ MaxQueue \in Nat
          BY LenProperties, InventoryAssumption DEF WireOK
      <2>3. Handle(Head(chan)) \in Handler /\ Handle(Head(chan)).ev = Head(chan)
          BY <2>1, HandleType
      <2>4. WireOK'
          BY <1>4, <2>1, <2>2, <2>3 DEF ListenerTakes, WireOK
      <2> QED
          BY <1>4, <2>4 DEF ListenerTakes, AllOK, ValidatorOK, StoredOK, PassOK, JobsOK, FaultsOK,
                            validator, TextsCounted
  <1>5. CASE ListenerHandles
      <2>1. PICK next \in After(hnd) : HandlerStep(hnd, next) /\ hnd' = next
          BY <1>5 DEF ListenerHandles
      <2>2. hnd \in Handler /\ hnd.ev \in Sent /\ sub # "boot"
          BY <1>5 DEF ListenerHandles, WireOK
      <2>3. /\ StoredOK' /\ FaultsOK' /\ hnd' \in Handler \cup {NoHandler}
            /\ hnd' \in Handler => hnd'.ev = hnd.ev
          BY <2>1, <2>2, HandlerStepType
      <2>4. WireOK'
          BY <1>5, <2>2, <2>3 DEF ListenerHandles, WireOK, wire
      <2> QED
          BY <1>5, <2>3, <2>4 DEF ListenerHandles, AllOK, ValidatorOK, PassOK, JobsOK,
                                  validator, TextsCounted
  <1> QED
      BY <1>1, <1>2, <1>3, <1>4, <1>5

LEMMA TaskType ==
    ASSUME AllOK, NEW h \in jobs, TaskRuns(h) \/ TaskRaises(h)
    PROVE  AllOK'
  <1>. ValidatorOK /\ StoredOK /\ WireOK /\ PassOK /\ JobsOK /\ FaultsOK
       /\ h \in Handler /\ h.ev \in Sent
      BY DEF AllOK, JobsOK
  <1>1. CASE TaskRuns(h)
      <2>1. PICK next \in After(h) :
              HandlerStep(h, next) /\ jobs' = (jobs \ {h}) \cup ({next} \ {NoHandler})
          BY <1>1 DEF TaskRuns
      <2>2. /\ StoredOK' /\ FaultsOK' /\ next \in Handler \cup {NoHandler}
            /\ next \in Handler => next.ev = h.ev
          BY <2>1, HandlerStepType
      <2>3. JobsOK'
          BY <2>1, <2>2 DEF JobsOK
      <2> QED
          BY <1>1, <2>2, <2>3 DEF TaskRuns, AllOK, ValidatorOK, WireOK, PassOK, validator, wire,
                                  TextsCounted
  <1>2. CASE TaskRaises(h)
      <2>1. CASE sub = "boot"
          BY <1>2, <2>1, FaultCounted, RestartType DEF TaskRaises
      <2>2. CASE sub # "boot"
          <3>1. RecIdle \in RecType /\ RecIdle.call = NoHandler
              BY InventoryAssumption DEF RecIdle, RecType, RecPc
          <3>2. /\ rec' \in {rec, RecIdle} /\ jobs' = jobs \ {h}
                /\ UNCHANGED <<validator, row, dep, wire, hnd, known, faults>>
              BY <1>2, <2>2 DEF TaskRaises
          <3>3. PassOK'
              BY <3>1, <3>2, NoHandlerApart DEF PassOK
          <3> QED
              BY <3>2, <3>3 DEF AllOK, ValidatorOK, StoredOK, WireOK, JobsOK, FaultsOK, validator,
                                wire, TextsCounted
      <2> QED
          BY <2>1, <2>2
  <1> QED
      BY <1>1, <1>2

LEMMA LaunchType ==
    ASSUME AllOK, NEW c \in Chute, Launch(c)
    PROVE  AllOK'
  <1>1. row[c].ver \in Rev /\ dep[c] \subseteq Rev
      BY DEF Launch, AllOK, StoredOK, Def
  <1>2. StoredOK'
      BY <1>1 DEF Launch, AllOK, StoredOK
  <1> QED
      BY <1>2 DEF Launch, AllOK, ValidatorOK, WireOK, PassOK, JobsOK, FaultsOK, validator, wire,
                  TextsCounted

\* The pass, while it fetches.
LEMMA RefreshType ==
    ASSUME AllOK, RefreshChutes \/ RefreshImages \/ RefreshFails
    PROVE  AllOK'
  <1>. ValidatorOK /\ StoredOK /\ WireOK /\ PassOK /\ JobsOK /\ FaultsOK
      BY DEF AllOK
  <1>0. RecIdle \in RecType /\ RecIdle.call = NoHandler
      BY InventoryAssumption DEF RecIdle, RecType, RecPc
  <1>1. CASE RefreshChutes
      <2>1. known' \in [Chute -> Def \cup {NoDef}]
          BY <1>1 DEF RefreshChutes, ValidatorOK, PassOK
      <2>2. moved' \subseteq Chute
          BY <1>1 DEF RefreshChutes, JobsOK, Handler, Event
      <2>3. rec' \in RecType /\ rec'.call = rec.call /\ rec'.pc = "images"
          BY <1>1 DEF RefreshChutes, Pass, PassOK, RecType, RecPc
      <2>4. rec.call = NoHandler
          BY <1>1 DEF RefreshChutes, Pass, PassOK
      <2>5. PassOK'
          BY <2>1, <2>3, <2>4, NoHandlerApart DEF PassOK
      <2> QED
          BY <1>1, <2>2, <2>5 DEF RefreshChutes, AllOK, ValidatorOK, StoredOK, WireOK, JobsOK,
                                  FaultsOK, wire, TextsCounted
  <1>2. CASE RefreshImages
      <2>1. [c \in Chute |-> remote[c].img] \in [Chute -> 0 .. MaxVersion]
          BY InventoryAssumption DEF ValidatorOK, Def, NoDef, Rev
      <2>2. rec' \in RecType /\ rec'.call = rec.call /\ rec.call = NoHandler
          BY <1>2, <2>1 DEF RefreshImages, PassOK, RecType, RecPc
      <2>3. PassOK'
          BY <1>2, <2>2, NoHandlerApart DEF RefreshImages, PassOK
      <2> QED
          BY <1>2, <2>3 DEF RefreshImages, AllOK, ValidatorOK, StoredOK, WireOK, JobsOK, FaultsOK,
                            validator, wire, TextsCounted
  <1>3. CASE RefreshFails
      <2>1. PassOK'
          BY <1>0, <1>3, NoHandlerApart DEF RefreshFails, PassEnds, PassOK
      <2>2. WireOK'
          BY <1>3 DEF RefreshFails, PassEnds, WireOK
      <2> QED
          BY <1>3, <2>1, <2>2, FaultCounted DEF RefreshFails, AllOK, ValidatorOK, StoredOK, JobsOK,
                                                validator, TextsCounted
  <1> QED
      BY <1>1, <1>2, <1>3

\* The pass, while it brings the rows up to date.
LEMMA RowsType ==
    ASSUME AllOK, HashRows \/ UpdateRow \/ FetchRolling \/ FetchRollingFails \/ UpdateImages
    PROVE  AllOK'
  <1>. ValidatorOK /\ StoredOK /\ WireOK /\ PassOK /\ JobsOK /\ FaultsOK
      BY DEF AllOK
  <1>0. RecIdle \in RecType /\ RecIdle.call = NoHandler
      BY InventoryAssumption DEF RecIdle, RecType, RecPc
  <1>1. CASE HashRows
      <2> DEFINE todo == {<<c, known[c].ver>> : c \in {b \in Chute :
                              /\ NoDef \notin {known[b], row[b]}
                              /\ Hash(known[b]) # Hash(row[b])}}
      <2>1. todo \subseteq Chute \X Rev
          BY DEF PassOK, Def
      <2>2. rec' = [rec EXCEPT !.pc = "update", !.todo = todo] /\ rec.pc = "hash"
          BY <1>1 DEF HashRows
      <2> HIDE DEF todo
      <2>3. rec' \in RecType /\ rec'.call = rec.call /\ rec.call = NoHandler
          BY <2>1, <2>2 DEF PassOK, RecType, RecPc
      <2>4. PassOK'
          BY <1>1, <2>3, NoHandlerApart DEF HashRows, PassOK
      <2> QED
          BY <1>1, <2>4 DEF HashRows, AllOK, ValidatorOK, StoredOK, WireOK, JobsOK, FaultsOK,
                            validator, wire, TextsCounted
  <1>2. CASE UpdateRow
      <2>1. ASSUME rec.call = NoHandler, NEW p \in rec.todo,
                   rec' = [rec EXCEPT !.todo = @ \ {p},
                             !.call = Handle(Ev("updated", p[1], p[2], 0))],
                   UNCHANGED <<row, dep, faults>>
            PROVE  AllOK'
          <3>1. p[1] \in Chute /\ p[2] \in 0 .. MaxVersion /\ 0 \in 0 .. MaxVersion
              BY InventoryAssumption DEF PassOK, RecType, Rev
          <3> DEFINE e == Ev("updated", p[1], p[2], 0)
          <3>2. e \in Sent
              BY <3>1, EventType
          <3> HIDE DEF e
          <3>3. Handle(e) \in Handler /\ Handle(e).ev = e
              BY <3>2, HandleType
          <3>4. rec' = [rec EXCEPT !.todo = @ \ {p}, !.call = Handle(e)]
              BY <2>1 DEF e
          <3>5. rec' \in RecType /\ rec'.call = Handle(e) /\ rec'.pc = rec.pc
              BY <3>3, <3>4 DEF PassOK, RecType
          <3>6. PassOK'
              BY <1>2, <3>2, <3>3, <3>5 DEF UpdateRow, PassOK
          <3> QED
              BY <1>2, <2>1, <3>6 DEF UpdateRow, AllOK, ValidatorOK, StoredOK, WireOK, JobsOK,
                                      FaultsOK, validator, wire, TextsCounted
      <2>2. ASSUME rec.call # NoHandler, NEW next \in After(rec.call),
                   HandlerStep(rec.call, next), rec' = [rec EXCEPT !.call = next]
            PROVE  AllOK'
          <3>1. rec.call \in Handler /\ rec.call.ev \in Sent
              BY <2>2 DEF PassOK, RecType
          <3>2. /\ StoredOK' /\ FaultsOK' /\ next \in Handler \cup {NoHandler}
                /\ next \in Handler => next.ev = rec.call.ev
              BY <2>2, <3>1, HandlerStepType
          <3>3. rec' \in RecType /\ rec'.call = next /\ rec'.pc = rec.pc
              BY <2>2, <3>2 DEF PassOK, RecType
          <3>4. PassOK'
              BY <1>2, <3>1, <3>2, <3>3, NoHandlerApart DEF UpdateRow, PassOK
          <3> QED
              BY <1>2, <3>2, <3>4 DEF UpdateRow, AllOK, ValidatorOK, WireOK, JobsOK, validator, wire,
                                      TextsCounted
      <2> QED
          BY <1>2, <2>1, <2>2 DEF UpdateRow
  <1>3. CASE FetchRolling
      <2>1. rec' \in RecType /\ rec'.call = NoHandler
          BY <1>3 DEF FetchRolling, PassOK, RecType, RecPc, ValidatorOK
      <2>2. PassOK'
          BY <1>3, <2>1, NoHandlerApart DEF FetchRolling, PassOK
      <2> QED
          BY <1>3, <2>2 DEF FetchRolling, AllOK, ValidatorOK, StoredOK, WireOK, JobsOK, FaultsOK,
                            validator, wire, TextsCounted
  <1>4. CASE FetchRollingFails
      <2>1. FaultsOK'
          BY <1>4, FaultCounted DEF FetchRollingFails
      <2>2. CASE sub = "boot"
          BY <1>4, <2>1, <2>2, RestartType DEF FetchRollingFails
      <2>3. CASE sub # "boot"
          <3>1. PassOK'
              BY <1>0, <1>4, <2>3, NoHandlerApart DEF FetchRollingFails, PassOK
          <3> QED
              BY <1>4, <2>1, <2>3, <3>1 DEF FetchRollingFails, AllOK, ValidatorOK, StoredOK, WireOK,
                                            JobsOK, validator, wire, TextsCounted
      <2> QED
          BY <2>2, <2>3
  <1>5. CASE UpdateImages
      <2>1. ASSUME NEW c \in Chute, NoDef # row[c], rec.img[c] # 0
            PROVE  [row[c] EXCEPT !.img = rec.img[c]] \in Def
          <3>1. row[c] \in Def /\ rec.img[c] \in Rev
              BY <2>1, InventoryAssumption DEF StoredOK, PassOK, RecType, Rev
          <3> QED
              BY <3>1 DEF Def
      <2>2. StoredOK'
          BY <1>5, <2>1 DEF UpdateImages, StoredOK
      <2>3. rec' \in RecType /\ rec'.call = rec.call /\ rec.call = NoHandler
          BY <1>5 DEF UpdateImages, Pass, PassOK, RecType, RecPc
      <2>4. PassOK'
          BY <1>5, <2>3, NoHandlerApart DEF UpdateImages, PassOK
      <2> QED
          BY <1>5, <2>2, <2>4 DEF UpdateImages, AllOK, ValidatorOK, WireOK, JobsOK, FaultsOK,
                                  validator, wire, TextsCounted
  <1> QED
      BY <1>1, <1>2, <1>3, <1>4, <1>5

\* The tasks a pass starts.
LEMMA StartedType ==
    ASSUME NEW k \in {"created", "deleted"}, NEW c \in Chute, NEW w \in Rev,
           NEW h, h = Handle(Ev(k, c, w, 0))
    PROVE  /\ h \in Handler /\ h.ev \in Sent
           /\ h.ev.kind = k /\ h.ev.chute = c /\ h.ev.ver = w
  <1>1. 0 \in 0 .. MaxVersion /\ w \in 0 .. MaxVersion
      BY InventoryAssumption DEF Rev
  <1>2. Ev(k, c, w, 0) \in Sent
      BY <1>1, EventType
  <1>3. h.ev = Ev(k, c, w, 0)
      BY DEF Handle
  <1> QED
      BY <1>2, <1>3, HandleType DEF Ev

\* What is judged: the deployments that go, and the rows that go and come.
Gone(c, w) == known[c].ver # w /\ c \notin rec.roll

LEMMA JudgeDeploymentsStep ==
    ASSUME AllOK, JudgeDeployments, NEW h \in jobs' \ jobs
    PROVE  /\ h \in Handler /\ h.ev \in Sent
           /\ h.ev.chute \in Chute /\ h.ev.ver \in Rev /\ Gone(h.ev.chute, h.ev.ver)
  <1>1. PICK p \in (Chute \ rec.roll) \X Rev : known[p[1]].ver # p[2] /\ h = Deleted(p[1], p[2])
      BY DEF JudgeDeployments
  <1> QED
      BY <1>1, StartedType DEF Deleted, Gone

LEMMA JudgeChutesStep ==
    ASSUME AllOK, JudgeChutes, NEW h \in jobs' \ jobs
    PROVE  /\ h \in Handler /\ h.ev \in Sent
           /\ h.ev.kind = "deleted" =>
                h.ev.chute \in Chute /\ h.ev.ver \in Rev /\ Gone(h.ev.chute, h.ev.ver)
  <1>1. ASSUME NEW c \in Chute \ rec.roll, row[c] # NoDef, known[c].ver # row[c].ver,
               h = Deleted(c, row[c].ver)
        PROVE  /\ h \in Handler /\ h.ev \in Sent
               /\ h.ev.chute \in Chute /\ h.ev.ver \in Rev /\ Gone(h.ev.chute, h.ev.ver)
      <2>1. row[c].ver \in Rev
          BY <1>1 DEF AllOK, StoredOK, Def
      <2> QED
          BY <1>1, <2>1, StartedType DEF Deleted, Gone
  <1>2. ASSUME NEW c \in Chute, known[c] # NoDef, h = Handle(Ev("created", c, known[c].ver, 0))
        PROVE  h \in Handler /\ h.ev \in Sent /\ h.ev.kind = "created"
      <2>1. known[c].ver \in Rev
          BY <1>2 DEF AllOK, PassOK, Def
      <2> QED
          BY <1>2, <2>1, StartedType
  <1>3. \/ \E c \in Chute \ rec.roll : row[c] # NoDef /\ known[c].ver # row[c].ver
                                         /\ h = Deleted(c, row[c].ver)
        \/ \E c \in Chute : known[c] # NoDef /\ h = Handle(Ev("created", c, known[c].ver, 0))
      BY DEF JudgeChutes
  <1> QED
      BY <1>1, <1>2, <1>3

\* The pass, while it judges.
LEMMA JudgeType ==
    ASSUME AllOK, JudgeDeployments \/ JudgeChutes \/ Gather
    PROVE  AllOK'
  <1>. ValidatorOK /\ StoredOK /\ WireOK /\ PassOK /\ JobsOK /\ FaultsOK
      BY DEF AllOK
  <1>1. CASE JudgeDeployments
      <2>1. PICK gone \in SUBSET (Chute \X Rev) : rec' = [rec EXCEPT !.pc = "chutes", !.todo = gone]
          BY <1>1 DEF JudgeDeployments
      <2>2. rec' \in RecType /\ rec'.call = rec.call /\ rec.call = NoHandler
          BY <1>1, <2>1 DEF JudgeDeployments, PassOK, RecType, RecPc
      <2>3. PassOK'
          BY <1>1, <2>2, NoHandlerApart DEF JudgeDeployments, PassOK
      <2>4. JobsOK'
          BY <1>1, JudgeDeploymentsStep DEF JobsOK
      <2> QED
          BY <1>1, <2>3, <2>4 DEF JudgeDeployments, AllOK, ValidatorOK, StoredOK, WireOK, FaultsOK,
                                  validator, wire, TextsCounted
  <1>2. CASE JudgeChutes
      <2>1. rec' \in RecType /\ rec'.call = rec.call /\ rec.call = NoHandler
          BY <1>2 DEF JudgeChutes, PassOK, RecType, RecPc
      <2>2. PassOK'
          BY <1>2, <2>1, NoHandlerApart DEF JudgeChutes, PassOK
      <2>3. JobsOK'
          BY <1>2, JudgeChutesStep DEF JobsOK
      <2> QED
          BY <1>2, <2>2, <2>3 DEF JudgeChutes, AllOK, ValidatorOK, StoredOK, WireOK, FaultsOK,
                                  validator, wire, TextsCounted
  <1>3. CASE Gather
      <2>1. RecIdle \in RecType /\ RecIdle.call = NoHandler
          BY InventoryAssumption DEF RecIdle, RecType, RecPc
      <2>2. PassOK'
          BY <1>3, <2>1, NoHandlerApart DEF Gather, PassEnds, PassOK
      <2>3. WireOK'
          BY <1>3 DEF Gather, PassEnds, WireOK
      <2> QED
          BY <1>3, <2>2, <2>3 DEF Gather, AllOK, ValidatorOK, StoredOK, JobsOK, FaultsOK,
                                  TextsCounted
  <1> QED
      BY <1>1, <1>2, <1>3

LEMMA NextType == AllOK /\ [Next]_vars => AllOK'
  <1> SUFFICES ASSUME AllOK, [Next]_vars PROVE AllOK'
      OBVIOUS
  <1>1. CASE UNCHANGED vars
      BY <1>1 DEF vars, validator, wire, AllOK, ValidatorOK, StoredOK, WireOK, PassOK, JobsOK,
                  FaultsOK, TextsCounted
  <1>2. CASE \E c \in Chute : \/ ChutePublished(c) \/ ChuteChanged(c) \/ ImagePatched(c)
                              \/ ChuteWithdrawn(c)
      BY <1>2, ValidatorType
  <1>3. CASE \E c \in Chute : InstanceRolls(c) \/ RollingEnds(c)
      BY <1>3, RollType
  <1>4. CASE \/ SocketConnects \/ SocketRefused \/ Authenticates \/ AuthFails \/ SocketDrops
             \/ ApiRestarts
      BY <1>4, SocketType
  <1>5. CASE GepettoCrash \/ Subscribe \/ ListenerFails \/ ListenerTakes \/ ListenerHandles
      BY <1>5, ListenerType
  <1>6. CASE \E h \in jobs : TaskRuns(h) \/ TaskRaises(h)
      BY <1>6, TaskType
  <1>7. CASE \E c \in Chute : Launch(c)
      BY <1>7, LaunchType
  <1>8. CASE RefreshChutes \/ RefreshImages \/ RefreshFails
      BY <1>8, RefreshType
  <1>9. CASE HashRows \/ UpdateRow \/ FetchRolling \/ FetchRollingFails \/ UpdateImages
      BY <1>9, RowsType
  <1>10. CASE JudgeDeployments \/ JudgeChutes \/ Gather
      BY <1>10, JudgeType
  <1> QED
      BY <1>1, <1>2, <1>3, <1>4, <1>5, <1>6, <1>7, <1>8, <1>9, <1>10 DEF Next

-----------------------------------------------------------------------------
(* What a pass knows, and whom it spares.                                    *)

Late == {"rolling", "deployments", "chutes", "gather"}

Fresh == PassFresh /\ ReconcileSparesCurrent

\* Without a pass and without tasks there is nothing to say.
LEMMA FreshAtRest ==
    ASSUME rec = RecIdle, jobs = {} PROVE Fresh
  BY DEF Fresh, PassFresh, ReconcileSparesCurrent, RecIdle

\* The validator changes c and nothing else: c is excused from then on.
LEMMA ChangeFresh ==
    ASSUME AllOK, Fresh, NEW c \in Chute, Touched(c), UNCHANGED <<known, rec, jobs>>,
           \A b \in Chute \ {c} : remote'[b] = remote[b] /\ (b \in rolling' <=> b \in rolling)
    PROVE  Fresh'
  <1>1. CASE rec = RecIdle /\ jobs = {}
      BY <1>1 DEF Fresh, PassFresh, ReconcileSparesCurrent, RecIdle
  <1>2. CASE ~(rec = RecIdle /\ jobs = {})
      <2>1. moved' = moved \cup {c}
          BY <1>2 DEF Touched
      <2>2. PassFresh'
          BY <2>1 DEF Fresh, PassFresh
      <2>3. \A h \in jobs : h.ev.chute \in Chute
          BY DEF AllOK, JobsOK, Handler, Event
      <2>4. ReconcileSparesCurrent'
          BY <2>1, <2>3 DEF Fresh, ReconcileSparesCurrent
      <2> QED
          BY <2>2, <2>4 DEF Fresh
  <1> QED
      BY <1>1, <1>2

\* The validator is still, the pass ends or goes on with what it knows, and no task is
\* started that deletes.
LEMMA StillFresh ==
    ASSUME AllOK, Fresh, UNCHANGED <<remote, rolling, moved>>,
           \/ rec'.pc = "idle"
           \/ /\ rec.pc # "idle" /\ known' = known /\ rec'.roll = rec.roll
              /\ rec'.pc \in Late => rec.pc \in Late,
           \A h \in jobs' : h.ev.kind = "deleted" => \E g \in jobs : h.ev = g.ev
    PROVE  Fresh'
  <1>1. PassFresh'
      BY DEF Fresh, PassFresh, Late
  <1>2. ReconcileSparesCurrent'
      BY DEF Fresh, ReconcileSparesCurrent
  <1> QED
      BY <1>1, <1>2 DEF Fresh

\* Of what the pass decides to delete, the validator has nothing in that version.
LEMMA GoneIsGone ==
    ASSUME AllOK, Fresh, rec.pc \in Late,
           NEW c \in Chute, NEW w \in Rev, Gone(c, w)
    PROVE  c \in moved \/ (remote[c].ver # w /\ c \notin rolling)
  <1>1. NoDef.ver # w
      BY InventoryAssumption DEF NoDef, Rev
  <1> QED
      BY <1>1 DEF Fresh, PassFresh, Gone, Late

LEMMA ValidatorFresh ==
    ASSUME AllOK, Fresh, NEW c \in Chute,
           \/ ChutePublished(c) \/ ChuteChanged(c) \/ ImagePatched(c) \/ ChuteWithdrawn(c)
           \/ RollingEnds(c)
    PROVE  Fresh'
  <1>1. Touched(c) /\ UNCHANGED <<known, rec, jobs>>
      BY DEF ChutePublished, ChuteChanged, ImagePatched, ChuteWithdrawn, RollingEnds, Changes
  <1>2. ASSUME NEW b \in Chute \ {c}
        PROVE  remote'[b] = remote[b] /\ (b \in rolling' <=> b \in rolling)
      <2>1. remote \in [Chute -> Def \cup {NoDef}]
          BY DEF AllOK, ValidatorOK
      <2>2. CASE ChutePublished(c)
          BY <2>1, <2>2 DEF ChutePublished
      <2>3. CASE ChuteChanged(c)
          BY <2>1, <2>3 DEF ChuteChanged
      <2>4. CASE ImagePatched(c)
          BY <2>1, <2>4 DEF ImagePatched
      <2>5. CASE ChuteWithdrawn(c)
          BY <2>1, <2>5 DEF ChuteWithdrawn
      <2>6. CASE RollingEnds(c)
          BY <2>6 DEF RollingEnds
      <2> QED
          BY <2>2, <2>3, <2>4, <2>5, <2>6
  <1> QED
      BY <1>1, <1>2, ChangeFresh

LEMMA RestartFresh ==
    ASSUME AllOK, Restart PROVE Fresh'
  BY DEF Restart, Fresh, PassFresh, ReconcileSparesCurrent, RecIdle

\* What happens next to the pass.
LEMMA BesideFresh ==
    ASSUME AllOK, Fresh,
           UNCHANGED <<remote, rolling, moved, known, rec, jobs>>
    PROVE  Fresh'
  BY DEF Fresh, PassFresh, ReconcileSparesCurrent

LEMMA TaskFresh ==
    ASSUME AllOK, Fresh, NEW h \in jobs, TaskRuns(h) \/ TaskRaises(h)
    PROVE  Fresh'
  <1>1. CASE TaskRuns(h)
      <2>1. PICK next \in After(h) :
              HandlerStep(h, next) /\ jobs' = (jobs \ {h}) \cup ({next} \ {NoHandler})
          BY <1>1 DEF TaskRuns
      <2>2. h \in Handler /\ h.ev \in Sent
          BY DEF AllOK, JobsOK
      <2>3. next \in Handler \cup {NoHandler} /\ (next \in Handler => next.ev = h.ev)
          BY <2>1, <2>2, HandlerStepType DEF AllOK
      <2>4. UNCHANGED <<remote, rolling, moved, known, rec>>
          BY <1>1 DEF TaskRuns, validator
      <2>5. \A g \in jobs' : g \in jobs \/ g.ev = h.ev
          BY <2>1, <2>3
      <2>6. ReconcileSparesCurrent'
          BY <2>4, <2>5 DEF Fresh, ReconcileSparesCurrent
      <2> QED
          BY <2>4, <2>6 DEF Fresh, PassFresh
  <1>2. CASE TaskRaises(h)
      <2>1. CASE sub = "boot"
          BY <1>2, <2>1, RestartFresh DEF TaskRaises
      <2>2. CASE sub # "boot"
          <3>1. /\ rec' \in {rec, RecIdle} /\ jobs' = jobs \ {h}
                /\ UNCHANGED <<remote, rolling, moved, known>>
              BY <1>2, <2>2 DEF TaskRaises, validator
          <3> QED
              BY <3>1, StillFresh DEF RecIdle
      <2> QED
          BY <2>1, <2>2
  <1> QED
      BY <1>1, <1>2

LEMMA PassStepFresh ==
    ASSUME AllOK, Fresh,
           \/ RefreshChutes \/ RefreshImages \/ RefreshFails \/ HashRows \/ UpdateRow
           \/ FetchRolling \/ FetchRollingFails \/ UpdateImages \/ JudgeDeployments
           \/ JudgeChutes \/ Gather
    PROVE  Fresh'
  <1>0. PassOK /\ rec \in RecType /\ jobs \subseteq Handler
      BY DEF AllOK, PassOK, JobsOK
  <1>1. CASE RefreshChutes
      <2>1. rec'.pc = "images" /\ UNCHANGED <<remote, rolling, jobs>>
          BY <1>0, <1>1 DEF RefreshChutes, Pass, RecType
      <2>2. known' = remote \/ \A c \in Chute : remote[c] = NoDef
          BY <1>1 DEF RefreshChutes
      <2>3. \A h \in jobs : h.ev.chute \in moved'
          BY <1>1 DEF RefreshChutes
      <2>4. ReconcileSparesCurrent'
          BY <2>1, <2>3 DEF ReconcileSparesCurrent
      <2> QED
          BY <2>1, <2>2, <2>4 DEF Fresh, PassFresh
  <1>2. CASE RefreshImages \/ HashRows \/ UpdateRow \/ UpdateImages
      <2>1. /\ UNCHANGED <<remote, rolling, moved, jobs, known>>
            /\ rec.pc # "idle" /\ rec'.roll = rec.roll /\ (rec'.pc \in Late => rec.pc \in Late)
          BY <1>0, <1>2 DEF RefreshImages, HashRows, UpdateRow, UpdateImages, Pass, RecType, Late,
                            validator
      <2> QED
          BY <2>1, StillFresh
  <1>3. CASE RefreshFails
      BY <1>3, StillFresh DEF RefreshFails, PassEnds, RecIdle, validator
  <1>4. CASE FetchRolling
      <2>1. /\ UNCHANGED <<remote, rolling, moved, jobs, known>>
            /\ rec.pc = "update" /\ rec'.roll = rolling
          BY <1>0, <1>4 DEF FetchRolling, RecType, validator
      <2>2. PassFresh'
          BY <2>1 DEF Fresh, PassFresh
      <2> QED
          BY <2>1, <2>2 DEF Fresh, ReconcileSparesCurrent
  <1>5. CASE FetchRollingFails
      <2>1. CASE sub = "boot"
          BY <1>5, <2>1, RestartFresh DEF FetchRollingFails
      <2>2. CASE sub # "boot"
          BY <1>5, <2>2, StillFresh DEF FetchRollingFails, RecIdle, validator
      <2> QED
          BY <2>1, <2>2
  <1>6. ASSUME rec.pc \in Late, rec'.pc \in Late, rec'.roll = rec.roll,
               UNCHANGED <<remote, rolling, moved, known>>,
               \A h \in jobs' \ jobs : h.ev.kind = "deleted" =>
                   h.ev.chute \in Chute /\ h.ev.ver \in Rev /\ Gone(h.ev.chute, h.ev.ver)
        PROVE  Fresh'
      <2>1. PassFresh'
          BY <1>6 DEF Fresh, PassFresh, Late
      <2>2. \A h \in jobs' \ jobs : h.ev.kind = "deleted" =>
                h.ev.chute \in moved
                  \/ (remote[h.ev.chute].ver # h.ev.ver /\ h.ev.chute \notin rolling)
          BY <1>6, GoneIsGone
      <2>3. ReconcileSparesCurrent'
          BY <1>6, <2>2 DEF Fresh, ReconcileSparesCurrent
      <2> QED
          BY <2>1, <2>3 DEF Fresh
  <1>7. CASE JudgeDeployments
      <2>1. /\ rec.pc \in Late /\ rec'.pc \in Late /\ rec'.roll = rec.roll
            /\ UNCHANGED <<remote, rolling, moved, known>>
          BY <1>0, <1>7 DEF JudgeDeployments, RecType, Late, validator
      <2> QED
          BY <1>6, <1>7, <2>1, JudgeDeploymentsStep
  <1>8. CASE JudgeChutes
      <2>1. /\ rec.pc \in Late /\ rec'.pc \in Late /\ rec'.roll = rec.roll
            /\ UNCHANGED <<remote, rolling, moved, known>>
          BY <1>0, <1>8 DEF JudgeChutes, RecType, Late, validator
      <2> QED
          BY <1>6, <1>8, <2>1, JudgeChutesStep
  <1>9. CASE Gather
      BY <1>9 DEF Gather, PassEnds, RecIdle, Fresh, PassFresh, ReconcileSparesCurrent
  <1> QED
      BY <1>1, <1>2, <1>3, <1>4, <1>5, <1>7, <1>8, <1>9

LEMMA NextFresh == AllOK /\ Fresh /\ [Next]_vars => Fresh'
  <1> SUFFICES ASSUME AllOK, Fresh, [Next]_vars PROVE Fresh'
      OBVIOUS
  <1>1. CASE UNCHANGED vars
      BY <1>1, BesideFresh DEF vars, validator
  <1>2. CASE \E c \in Chute : \/ ChutePublished(c) \/ ChuteChanged(c) \/ ImagePatched(c)
                              \/ ChuteWithdrawn(c) \/ RollingEnds(c)
      BY <1>2, ValidatorFresh
  <1>3. CASE \E c \in Chute : InstanceRolls(c) \/ Launch(c)
      BY <1>3, BesideFresh DEF InstanceRolls, Launch, validator
  <1>4. CASE \/ SocketConnects \/ SocketRefused \/ Authenticates \/ AuthFails \/ SocketDrops
             \/ ApiRestarts
      BY <1>4, BesideFresh DEF SocketConnects, SocketRefused, Authenticates, AuthFails, SocketDrops,
                               ApiRestarts, Socket, validator
  <1>5. CASE GepettoCrash
      BY <1>5, RestartFresh DEF GepettoCrash
  <1>6. CASE Subscribe \/ ListenerTakes \/ ListenerHandles
      BY <1>6, BesideFresh DEF Subscribe, ListenerTakes, ListenerHandles, validator
  <1>7. CASE ListenerFails
      <2>1. CASE attempts < MaxAttempts
          BY <1>7, <2>1, BesideFresh DEF ListenerFails, validator
      <2>2. CASE ~(attempts < MaxAttempts)
          BY <1>7, <2>2, RestartFresh DEF ListenerFails
      <2> QED
          BY <2>1, <2>2
  <1>8. CASE \E h \in jobs : TaskRuns(h) \/ TaskRaises(h)
      BY <1>8, TaskFresh
  <1>9. CASE \/ RefreshChutes \/ RefreshImages \/ RefreshFails \/ HashRows \/ UpdateRow
             \/ FetchRolling \/ FetchRollingFails \/ UpdateImages \/ JudgeDeployments
             \/ JudgeChutes \/ Gather
      BY <1>9, PassStepFresh
  <1> QED
      BY <1>1, <1>2, <1>3, <1>4, <1>5, <1>6, <1>7, <1>8, <1>9 DEF Next

-----------------------------------------------------------------------------
(* The theorems.                                                             *)

LEMMA Inductive ==
    /\ Init => IInv
    /\ IInv /\ [Next]_vars => IInv'
  <1>1. Init => IInv
      <2> SUFFICES ASSUME Init PROVE IInv
          OBVIOUS
      <2>1. TypeInv
          BY InitType, TypeParts
      <2>2. Fresh
          BY FreshAtRest DEF Init
      <2> QED
          BY <2>1, <2>2 DEF IInv, Fresh
  <1>2. IInv /\ [Next]_vars => IInv'
      <2> SUFFICES ASSUME IInv, [Next]_vars PROVE IInv'
          OBVIOUS
      <2>1. AllOK /\ Fresh
          BY TypeParts DEF IInv, Fresh
      <2>2. AllOK' /\ Fresh'
          BY <2>1, NextType, NextFresh
      <2>3. TypeInv' <=> AllOK'
          BY TypeParts, PTL
      <2> QED
          BY <2>2, <2>3 DEF IInv, Fresh
  <1> QED
      BY <1>1, <1>2

\* Types: the tables, the wire and the pass stay what they are meant to be, no image
\* number is taken from an event of another kind, the pass has a call under way only while
\* it updates rows, and nothing is listened to before the first pass has ended.
THEOREM TypeCorrect == Spec => []TypeOK
  <1>1. IInv => TypeOK
      BY DEF IInv, TypeInv
  <1> QED
      BY <1>1, Inductive, PTL DEF Spec

\* A pass of reconcile deletes no chute the validator has in that version and none it is
\* rolling, unless the validator changed the chute while the pass was under way: whatever
\* events are lost, however many tasks of an earlier pass still run, and across crashes.
THEOREM SparesCorrect == Spec => []ReconcileSparesCurrent
  <1>1. IInv => ReconcileSparesCurrent
      BY DEF IInv
  <1> QED
      BY <1>1, Inductive, PTL DEF Spec

=============================================================================
