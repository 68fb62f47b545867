-------------------------- MODULE OnboardingProofs --------------------------
(***************************************************************************)
(* Onboarding keeps its types, and verified GPUs belong to a server the    *)
(* validator knows, for every number of requests, deletions, attempts and  *)
(* failures, if the operator adds a node once at a time.                   *)
(*                                                                         *)
(* VerifiedIsRegistered is not inductive: the step that marks the GPUs     *)
(* comes long after the one that registered the server, and a deletion may *)
(* fall in between.  The strengthening carries what the validator answered *)
(* along the request (PassedIsKnown), which needs that no other request    *)
(* can take it back or bring the row back (SoleRequest).                   *)
(***************************************************************************)
EXTENDS Onboarding, TLAPS

\* Of all requests at most one is in flight.
SoleRequest == \A r, q \in Add : InFlight(r) /\ InFlight(q) => r = q

\* The validator accepted the GPUs of this request, which is about to mark them.
Passed(r) == add[r] \in {"mark", "last"} \/ (add[r] = "stream" /\ run[r] = "passed")

\* What the validator accepted it still knows, or the rows are gone.
PassedIsKnown == \A r \in Add : Passed(r) => Known \/ ~server

\* A task that has not failed may try once more; there is none before its strategy.
AttemptsLeft ==
    \A r \in Add :
        /\ add[r] \in {"idle", "track", "monitor", "strategy"} => run[r] = "none"
        /\ run[r] # "failed" => tries[r] < MaxTries

TypeInv == TypeOK /\ AttemptsLeft

\* A request deregisters the server only when its row is gone.
RowIsGone == \A r \in Add : add[r] = "unregister" => ~server

KnownInv == SoleRequest /\ PassedIsKnown /\ RowIsGone /\ VerifiedIsRegistered
IInv == TypeInv /\ KnownInv

USE DEF vars, rows, task, request

-----------------------------------------------------------------------------
(* Type correctness.                                                         *)

\* The count of failures stays within its bound.
LEMMA FaultCounted ==
    ASSUME TypeOK, Fault PROVE faults' \in 0 .. MaxFaults
  BY OnboardingAssumption DEF TypeOK, Fault

LEMMA RequestType ==
    ASSUME TypeOK, NEW r \in Add, Request(r) PROVE TypeOK'
  BY DEF TypeOK, Streaming, RollingBack, Request

LEMMA AddStepType ==
    ASSUME TypeOK, NEW r \in Add, AddStep(r) PROVE TypeOK'
  <1> USE DEF TypeOK, Streaming, RollingBack
  <1>1. CASE Track(r) \/ StartMonitoring(r)
      BY <1>1 DEF Track, StartMonitoring
  <1>2. CASE TrackFails(r) \/ StartMonitoringFails(r) \/ CreateStrategyRefuses(r)
      BY <1>2, FaultCounted DEF TrackFails, StartMonitoringFails, CreateStrategyRefuses
  <1>3. CASE CreateStrategy(r)
      BY <1>3 DEF CreateStrategy
  <1>4. CASE StreamEnds(r)
      BY <1>4 DEF StreamEnds
  <1>5. CASE MarkVerified(r) \/ Succeed(r)
      BY <1>5 DEF MarkVerified, Succeed
  <1>6. CASE Forget(r)
      BY <1>6 DEF Forget, DropServer
  <1>7. CASE Unregister(r)
      BY <1>7, FaultCounted DEF Unregister
  <1>8. CASE Unwatch(r)
      BY <1>8, FaultCounted DEF Unwatch, StopAgent, StopAgentFails
  <1> QED
      BY <1>1, <1>2, <1>3, <1>4, <1>5, <1>6, <1>7, <1>8 DEF AddStep

LEMMA RunStepType ==
    ASSUME TypeInv, NEW r \in Add, RunStep(r) PROVE TypeOK'
  <1> USE DEF TypeInv, TypeOK, Enter, Fails
  <1>1. CASE Prepare(r) \/ GatherDevices(r)
      BY <1>1 DEF Prepare, GatherDevices
  <1>2. CASE AttestationFails(r) \/ AdvertiseRefused(r)
      BY <1>2, FaultCounted DEF AttestationFails, AdvertiseRefused
  <1>3. CASE TrackGpus(r)
      BY <1>3 DEF TrackGpus
  <1>4. CASE Advertise(r)
      BY <1>4 DEF Advertise
  <1>5. CASE AdvertiseLost(r)
      <2>1. faults' \in 0 .. MaxFaults
          BY <1>5, FaultCounted DEF AdvertiseLost
      <2>2. tries[r] + 1 \in 0 .. MaxTries
          BY <1>5, OnboardingAssumption DEF AdvertiseLost, AttemptsLeft
      <2> QED
          BY <1>5, <2>1, <2>2 DEF AdvertiseLost
  <1> QED
      BY <1>1, <1>2, <1>3, <1>4, <1>5 DEF RunStep

LEMMA DeleteType ==
    ASSUME TypeOK, NEW w \in Del \cup Rec, DeleteRequest(w) \/ DeleteStep(w) PROVE TypeOK'
  <1> USE DEF TypeOK, DelStep
  <1>1. CASE DeleteRequest(w) \/ DeleteLoad(w)
      BY <1>1 DEF DeleteRequest, DeleteLoad
  <1>2. CASE DeleteStop(w) \/ DeleteStopFails(w)
      BY <1>2, FaultCounted DEF DeleteStop, DeleteStopFails, StopAgent, StopAgentFails
  <1>3. CASE DeleteClear(w) \/ DeleteDrop(w)
      BY <1>3 DEF DeleteClear, DeleteDrop, DropServer
  <1>4. CASE DeleteDeregister(w)
      BY <1>4, FaultCounted DEF DeleteDeregister
  <1> QED
      BY <1>1, <1>2, <1>3, <1>4 DEF DeleteStep

\* The client, the agent, reconcile, and crashes.
LEMMA OtherType ==
    ASSUME TypeOK,
           \/ \E r \in Add : Disconnect(r)
           \/ ReconcileNodes \/ ReconcileServers \/ AgentReports \/ AgentDies \/ AgentRestarts
           \/ ApiCrash \/ GepettoCrash
    PROVE  TypeOK'
  <1> USE DEF TypeOK, Streaming, RollingBack
  <1>1. ASSUME NEW r \in Add, Disconnect(r) PROVE TypeOK'
      BY <1>1, FaultCounted DEF Disconnect
  <1>2. CASE ReconcileNodes \/ ReconcileServers
      BY <1>2 DEF ReconcileNodes, ReconcileServers, DelStep
  <1>3. CASE AgentReports \/ AgentDies \/ AgentRestarts
      BY <1>3, FaultCounted DEF AgentReports, AgentDies, AgentRestarts
  <1>4. CASE ApiCrash
      BY <1>4, FaultCounted DEF ApiCrash
  <1>5. CASE GepettoCrash
      BY <1>5, FaultCounted DEF GepettoCrash
  <1> QED
      BY <1>1, <1>2, <1>3, <1>4, <1>5

\* Attempts: steps that touch neither the tasks nor the early steps of a request ...
LEMMA AttemptsFrame ==
    ASSUME TypeInv, UNCHANGED <<run, tries>>,
           \A r \in Add : add'[r] \in {"idle", "track", "monitor", "strategy"}
               => add[r] \in {"idle", "track", "monitor", "strategy"}
    PROVE  AttemptsLeft'
  BY DEF TypeInv, AttemptsLeft

\* ... and all steps.
LEMMA AttemptsKept ==
    ASSUME TypeInv, [Next]_vars PROVE AttemptsLeft'
  <1> USE DEF TypeInv, TypeOK
  <1>1. ASSUME NEW r \in Add, Request(r) \/ Disconnect(r) PROVE AttemptsLeft'
      BY <1>1, AttemptsFrame DEF Request, Disconnect
  <1>2. ASSUME NEW r \in Add, AddStep(r) PROVE AttemptsLeft'
      <2>1. CASE CreateStrategy(r)
          BY <1>2, <2>1 DEF AttemptsLeft, CreateStrategy
      <2>2. CASE ~CreateStrategy(r)
          BY <1>2, <2>2, AttemptsFrame
          DEF AddStep, Track, TrackFails, StartMonitoring, StartMonitoringFails,
              CreateStrategyRefuses, StreamEnds, MarkVerified, Succeed, Forget, Unregister, Unwatch
      <2> QED
          BY <2>1, <2>2
  <1>3. ASSUME NEW r \in Add, RunStep(r) PROVE AttemptsLeft'
      <2> USE DEF AttemptsLeft, Enter, Fails
      <2>1. CASE Prepare(r) \/ GatherDevices(r) \/ AttestationFails(r)
          BY <1>3, <2>1 DEF Prepare, GatherDevices, AttestationFails
      <2>2. CASE TrackGpus(r) \/ Advertise(r) \/ AdvertiseRefused(r)
          BY <1>3, <2>2 DEF TrackGpus, Advertise, AdvertiseRefused
      <2>3. CASE AdvertiseLost(r)
          BY <1>3, <2>3 DEF AdvertiseLost
      <2> QED
          BY <1>3, <2>1, <2>2, <2>3 DEF RunStep
  <1>4. ASSUME NEW w \in Del \cup Rec, DeleteRequest(w) \/ DeleteStep(w) PROVE AttemptsLeft'
      BY <1>4, AttemptsFrame
      DEF DeleteRequest, DeleteStep, DeleteLoad, DeleteStop, DeleteStopFails, DeleteClear,
          DeleteDeregister, DeleteDrop
  <1>5. CASE ReconcileNodes \/ ReconcileServers \/ AgentReports \/ AgentDies \/ AgentRestarts
      BY <1>5, AttemptsFrame
      DEF ReconcileNodes, ReconcileServers, AgentReports, AgentDies, AgentRestarts
  <1>6. CASE ApiCrash
      BY <1>6 DEF ApiCrash, AttemptsLeft
  <1>7. CASE GepettoCrash \/ UNCHANGED vars
      BY <1>7, AttemptsFrame DEF GepettoCrash
  <1> QED
      BY <1>1, <1>2, <1>3, <1>4, <1>5, <1>6, <1>7 DEF Next

LEMMA InitType == Init => TypeInv
  <1> SUFFICES ASSUME Init PROVE TypeInv
      OBVIOUS
  <1>1. 0 \in 0 .. MaxTries /\ 0 < MaxTries /\ 0 \in 0 .. MaxFaults
      BY OnboardingAssumption
  <1>2. TypeOK
      BY <1>1 DEF Init, TypeOK, Streaming, RollingBack
  <1>3. AttemptsLeft
      BY <1>1 DEF Init, AttemptsLeft
  <1> QED
      BY <1>2, <1>3 DEF TypeInv

LEMMA NextType == TypeInv /\ [Next]_vars => TypeInv'
  <1> SUFFICES ASSUME TypeInv, [Next]_vars PROVE TypeInv'
      OBVIOUS
  <1>1. CASE UNCHANGED vars
      BY <1>1 DEF TypeInv, TypeOK, AttemptsLeft
  <1>2. TypeOK
      BY DEF TypeInv
  <1> QED
      BY <1>1, <1>2, RequestType, AddStepType, RunStepType, DeleteType, OtherType, AttemptsKept
      DEF Next, TypeInv

\* Every variable keeps its type: GPU rows exist only under a server row, and a task
\* never tries more often than it may.
THEOREM TypeCorrect == Spec => []TypeOK
  <1>1. TypeInv => TypeOK
      BY DEF TypeInv
  <1> QED
      BY <1>1, InitType, NextType, PTL DEF Spec

-----------------------------------------------------------------------------
(* What is verified is known.                                                *)

\* A step that brings no request into flight, no row back and no GPUs to
\* verification, and that forgets the server only with its row, keeps all of it.
LEMMA KnownFrame ==
    ASSUME IInv,
           \A r \in Add : /\ InFlight(r)' => InFlight(r)
                          /\ Passed(r)' => Passed(r)
                          /\ add'[r] = "unregister" => add[r] = "unregister" \/ ~server',
           server' => server,
           gpus' = "verified" => gpus = "verified",
           Known => Known' \/ (~server' /\ gpus' = "none")
    PROVE  KnownInv'
  BY DEF IInv, KnownInv, SoleRequest, PassedIsKnown, RowIsGone, VerifiedIsRegistered

\* A new request starts when no other is in flight.
LEMMA RequestKnown ==
    ASSUME ~Overlap, IInv, NEW r \in Add, Request(r) PROVE KnownInv'
  <1> USE DEF IInv, KnownInv, TypeInv, TypeOK, Request
  <1>1. \A q \in Add : ~InFlight(q)
      OBVIOUS
  <1>2. SoleRequest'
      BY <1>1 DEF SoleRequest, InFlight
  <1>3. PassedIsKnown' /\ RowIsGone' /\ VerifiedIsRegistered'
      BY DEF PassedIsKnown, Passed, RowIsGone, VerifiedIsRegistered, Known
  <1> QED
      BY <1>2, <1>3

\* A row comes into being while no other request has passed or is rolling back.
LEMMA TrackKnown ==
    ASSUME IInv, NEW r \in Add, Track(r) PROVE KnownInv'
  <1> USE DEF IInv, KnownInv, TypeInv, TypeOK, Track, InFlight, Streaming, RollingBack
  <1>1. SoleRequest'
      BY DEF SoleRequest
  <1>2. \A q \in Add : ~Passed(q)' /\ add'[q] # "unregister"
      BY DEF SoleRequest, Passed
  <1>3. VerifiedIsRegistered'
      BY DEF VerifiedIsRegistered, Known
  <1> QED
      BY <1>1, <1>2, <1>3 DEF PassedIsKnown, RowIsGone

\* The validator's 201 is what the request will go by.
LEMMA AdvertiseKnown ==
    ASSUME IInv, NEW r \in Add, Advertise(r) PROVE KnownInv'
  <1>1. Known'
      BY DEF Advertise, Known
  <1>2. SoleRequest' /\ RowIsGone'
      BY DEF IInv, KnownInv, Advertise, SoleRequest, InFlight, RowIsGone
  <1> QED
      BY <1>1, <1>2 DEF KnownInv, PassedIsKnown, VerifiedIsRegistered

\* GPUs become verified for a request that has passed.
LEMMA MarkKnown ==
    ASSUME IInv, NEW r \in Add, MarkVerified(r) PROVE KnownInv'
  <1> USE DEF IInv, KnownInv, TypeInv, TypeOK, MarkVerified
  <1>1. SoleRequest' /\ RowIsGone' /\ PassedIsKnown'
      BY DEF SoleRequest, InFlight, Streaming, RollingBack, RowIsGone, PassedIsKnown, Passed, Known
  <1>2. VerifiedIsRegistered'
      BY DEF PassedIsKnown, Passed, VerifiedIsRegistered, Known
  <1> QED
      BY <1>1, <1>2

\* The rollback drops the row first, and deregisters the server then.
LEMMA ForgetKnown ==
    ASSUME IInv, NEW r \in Add, Forget(r) PROVE KnownInv'
  <1> USE DEF IInv, KnownInv, TypeInv, TypeOK, Forget, DropServer
  <1>1. SoleRequest'
      BY DEF SoleRequest, InFlight, Streaming, RollingBack
  <1> QED
      BY <1>1 DEF PassedIsKnown, RowIsGone, VerifiedIsRegistered

LEMMA UnregisterKnown ==
    ASSUME IInv, NEW r \in Add, Unregister(r) PROVE KnownInv'
  <1> USE DEF IInv, KnownInv, TypeInv, TypeOK, Unregister
  <1>1. SoleRequest'
      BY DEF SoleRequest, InFlight, Streaming, RollingBack
  <1>2. ~server' /\ gpus' # "verified"
      BY DEF RowIsGone
  <1> QED
      BY <1>1, <1>2 DEF PassedIsKnown, RowIsGone, VerifiedIsRegistered

\* The other steps of a request.
LEMMA OtherAddKnown ==
    ASSUME IInv, NEW r \in Add,
           \/ TrackFails(r) \/ StartMonitoring(r) \/ StartMonitoringFails(r) \/ CreateStrategy(r)
           \/ CreateStrategyRefuses(r) \/ StreamEnds(r) \/ Succeed(r) \/ Unwatch(r) \/ Disconnect(r)
    PROVE  KnownInv'
  <1> USE DEF IInv, TypeInv, TypeOK
  <1>1. \A q \in Add : /\ InFlight(q)' => InFlight(q)
                       /\ Passed(q)' => Passed(q)
                       /\ add'[q] = "unregister" => add[q] = "unregister"
      BY DEF InFlight, Streaming, RollingBack, Passed, TrackFails, StartMonitoring,
             StartMonitoringFails, CreateStrategy, CreateStrategyRefuses, StreamEnds, Succeed,
             Unwatch, Disconnect
  <1>2. UNCHANGED <<server, gpus, halfway, registered, del>>
      BY DEF TrackFails, StartMonitoring, StartMonitoringFails, CreateStrategy,
             CreateStrategyRefuses, StreamEnds, Succeed, Unwatch, Disconnect
  <1> QED
      BY <1>1, <1>2, KnownFrame DEF Known

\* The other steps of a verification task.
LEMMA OtherRunKnown ==
    ASSUME IInv, NEW r \in Add,
           \/ Prepare(r) \/ GatherDevices(r) \/ AttestationFails(r) \/ TrackGpus(r)
           \/ AdvertiseRefused(r) \/ AdvertiseLost(r)
    PROVE  KnownInv'
  <1> USE DEF IInv, TypeInv, TypeOK
  <1>1. \A q \in Add : /\ InFlight(q)' => InFlight(q)
                       /\ Passed(q)' => Passed(q)
                       /\ add'[q] = "unregister" => add[q] = "unregister"
      BY DEF InFlight, Passed, Prepare, GatherDevices, AttestationFails, TrackGpus,
             AdvertiseRefused, AdvertiseLost, Enter, Fails
  <1>2. /\ UNCHANGED <<server, halfway, del>> /\ (registered => registered')
        /\ gpus' = "verified" => gpus = "verified"
      BY DEF Prepare, GatherDevices, AttestationFails, TrackGpus, AdvertiseRefused,
             AdvertiseLost, Enter, Fails
  <1> QED
      BY <1>1, <1>2, KnownFrame DEF Known

\* A deletion tells the validator, and is then about to drop the row, until it does.
LEMMA DeleteKnown ==
    ASSUME IInv, NEW w \in Del \cup Rec, DeleteRequest(w) \/ DeleteStep(w)
    PROVE  KnownInv'
  <1> USE DEF IInv, TypeInv, TypeOK, DelStep
  <1>1. \A q \in Add : /\ InFlight(q)' => InFlight(q)
                       /\ Passed(q)' => Passed(q)
                       /\ add'[q] = "unregister" => add[q] = "unregister"
      BY DEF InFlight, Passed, DeleteRequest, DeleteStep, DeleteLoad, DeleteStop,
             DeleteStopFails, DeleteClear, DeleteDeregister, DeleteDrop
  <1>2. CASE DeleteRequest(w) \/ DeleteLoad(w) \/ DeleteStop(w) \/ DeleteStopFails(w) \/ DeleteClear(w)
      <2>1. UNCHANGED <<server, gpus, halfway, registered>> /\ (Known => Known')
          BY <1>2 DEF Known, DeleteRequest, DeleteLoad, DeleteStop, DeleteStopFails, DeleteClear
      <2> QED
          BY <1>1, <2>1, KnownFrame
  <1>3. CASE DeleteDeregister(w)
      <2>1. UNCHANGED <<server, gpus>> /\ Known'
          BY <1>3 DEF Known, DeleteDeregister
      <2> QED
          BY <1>1, <2>1, KnownFrame
  <1>4. CASE DeleteDrop(w)
      <2>1. ~server' /\ gpus' = "none"
          BY <1>4 DEF DeleteDrop, DropServer
      <2> QED
          BY <1>1, <2>1, KnownFrame
  <1> QED
      BY <1>2, <1>3, <1>4 DEF DeleteStep

\* Reconcile, the agent, and crashes.
LEMMA OtherKnown ==
    ASSUME IInv,
           \/ ReconcileNodes \/ ReconcileServers \/ AgentReports \/ AgentDies \/ AgentRestarts
           \/ ApiCrash \/ GepettoCrash \/ UNCHANGED vars
    PROVE  KnownInv'
  <1> USE DEF IInv, TypeInv, TypeOK
  <1>1. \A q \in Add : /\ InFlight(q)' => InFlight(q)
                       /\ Passed(q)' => Passed(q)
                       /\ add'[q] = "unregister" => add[q] = "unregister"
      BY DEF InFlight, Streaming, RollingBack, Passed, ReconcileNodes, ReconcileServers,
             AgentReports, AgentDies, AgentRestarts, ApiCrash, GepettoCrash
  <1>2. UNCHANGED <<server, gpus, registered>>
      BY DEF ReconcileNodes, ReconcileServers, AgentReports, AgentDies, AgentRestarts,
             ApiCrash, GepettoCrash
  <1>3. Known => Known'
      BY <1>2 DEF Known, ReconcileNodes, ReconcileServers, DelStep, AgentReports, AgentDies,
             AgentRestarts, ApiCrash, GepettoCrash
  <1> QED
      BY <1>1, <1>2, <1>3, KnownFrame

\* GPUs that launches may use belong to a server the validator knows, unless a deletion
\* is about to drop them or was cut by a crash, if no two requests are in flight at once.
THEOREM VerifiedIsKnown ==
    ASSUME ~Overlap
    PROVE  Spec => []VerifiedIsRegistered
  <1>1. Init => IInv
      <2> SUFFICES ASSUME Init PROVE KnownInv
          BY InitType DEF IInv
      <2> QED
          BY DEF Init, KnownInv, SoleRequest, InFlight, Streaming, RollingBack, PassedIsKnown,
                 Passed, RowIsGone, VerifiedIsRegistered
  <1>2. IInv /\ [Next]_vars => IInv'
      <2> SUFFICES ASSUME IInv, [Next]_vars PROVE KnownInv'
          BY NextType DEF IInv
      <2>1. ASSUME NEW r \in Add, Request(r) \/ AddStep(r) \/ RunStep(r) \/ Disconnect(r)
            PROVE  KnownInv'
          BY <2>1, RequestKnown, TrackKnown, AdvertiseKnown, MarkKnown, ForgetKnown,
             UnregisterKnown, OtherAddKnown, OtherRunKnown DEF AddStep, RunStep
      <2> QED
          BY <2>1, DeleteKnown, OtherKnown DEF Next
  <1>3. IInv => VerifiedIsRegistered
      BY DEF IInv, KnownInv
  <1> QED
      BY <1>1, <1>2, <1>3, PTL DEF Spec
=============================================================================
