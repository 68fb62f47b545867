----------------------------- MODULE Onboarding -----------------------------
(***************************************************************************)
(* How one worker node becomes a server of the miner and ceases to be one: *)
(* the add-node request of the miner API (api/server/router.py, util.py,   *)
(* verification.py), gepetto's server_deleted handler and the part of      *)
(* reconcile that compares servers with the nodes in redis.                *)
(*                                                                         *)
(* An add spans five stores: the server row and its GPU rows, the          *)
(* validator's registry, the monitoring agent on the node, and the redis   *)
(* cache the agent fills. Its rollback and a deletion undo them one by one.*)
(***************************************************************************)
EXTENDS Integers

CONSTANTS
    Add,            \* requests to add the node
    Del,            \* runs of server_deleted started by the operator
    Rec,            \* runs of server_deleted started by reconcile
    MaxTries,       \* attempts to reach the validator
    Overlap,        \* whether the operator starts an add while another is in flight
    MaxFaults       \* bound on crashes, failed calls and disconnects

ASSUME OnboardingAssumption ==
    /\ MaxTries \in Nat \ {0} /\ MaxFaults \in Nat
    /\ Overlap \in BOOLEAN
    /\ Del \cap Rec = {}

VARIABLES
    server,     \* whether the node has a server row
    gpus,       \* its GPU rows: "none", "unverified", "verified"
    registered, \* whether the validator knows the server
    agent,      \* the node's agent: "off", "on" (monitoring), "dead"
    cached,     \* whether redis holds the node of the cluster
    add,        \* step of each request
    run,        \* step of the verification task of each request
    tries,      \* attempts of that task to advertise the server
    found,      \* whether the rollback of the request found the row
    del,        \* step of each server_deleted
    nodes,      \* the node list reconcile read: "none", "in", "out"
    halfway,    \* history: a crash cut a deletion the validator knows of
    faults

vars == <<server, gpus, registered, agent, cached, add, run, tries, found, del, nodes, halfway, faults>>

rows    == <<server, gpus, halfway>>
task    == <<run, tries>>
request == <<add, found>>

Fault == faults < MaxFaults /\ faults' = faults + 1

\* Where the response is being streamed, so that the client's disconnect is seen.
Streaming == {"track", "monitor", "strategy", "stream", "mark", "last"}
RollingBack == {"forget", "unregister", "unwatch"}
InFlight(r) == add[r] \in Streaming \cup RollingBack

\* Variant: the GPU rows have no cascade.
DropServerOnly == server' = FALSE /\ UNCHANGED gpus /\ halfway' = FALSE

\* The deletion of a server cascades to its GPUs.
DropServer == server' = FALSE /\ gpus' = "none" /\ halfway' = FALSE

-----------------------------------------------------------------------------
Init ==
    /\ server = FALSE /\ gpus = "none" /\ registered = FALSE
    /\ agent = "off" /\ cached = FALSE
    /\ add = [r \in Add |-> "idle"]
    /\ run = [r \in Add |-> "none"]
    /\ tries = [r \in Add |-> 0]
    /\ found = [r \in Add |-> FALSE]
    /\ del = [w \in Del \cup Rec |-> "idle"]
    /\ nodes = "none" /\ halfway = FALSE /\ faults = 0

(***************************************************************************)
(* The request.                                                            *)
(***************************************************************************)
\* create_server: nothing is changed before the response starts; a node that
\* is already a server, or cannot be reached, is refused.
Request(r) ==
    /\ add[r] = "idle"
    /\ Overlap \/ \A q \in Add : ~InFlight(q)
    /\ add' = [add EXCEPT ![r] = IF server THEN "done" ELSE "track"]
    /\ UNCHANGED <<rows, registered, agent, cached, task, found, del, nodes, faults>>

\* track_server: a row another request has added meanwhile makes it DuplicateServer.
Track(r) ==
    /\ add[r] = "track"
    /\ server' = TRUE
    /\ add' = [add EXCEPT ![r] = IF server THEN "unwatch" ELSE "monitor"]
    /\ UNCHANGED <<gpus, halfway, registered, agent, cached, task, found, del, nodes, faults>>

\* The node is not Ready, or its labels cannot be patched.
TrackFails(r) ==
    /\ add[r] = "track" /\ Fault
    /\ add' = [add EXCEPT ![r] = "unwatch"]
    /\ UNCHANGED <<rows, registered, agent, cached, task, found, del, nodes>>

StartMonitoring(r) ==
    /\ add[r] = "monitor" /\ agent # "dead"
    /\ agent' = "on"
    /\ add' = [add EXCEPT ![r] = "strategy"]
    /\ UNCHANGED <<rows, registered, cached, task, found, del, nodes, faults>>

\* The agent cannot be reached, refuses, or its answer is lost.
StartMonitoringFails(r) ==
    /\ add[r] = "monitor" /\ Fault
    /\ agent' \in IF agent = "dead" THEN {agent} ELSE {agent, "on"}
    /\ add' = [add EXCEPT ![r] = "unwatch"]
    /\ UNCHANGED <<rows, registered, cached, task, found, del, nodes>>

\* VerificationStrategy.create, and the verification as a task of its own.
CreateStrategy(r) ==
    /\ add[r] = "strategy"
    /\ add' = [add EXCEPT ![r] = "stream"]
    /\ run' = [run EXCEPT ![r] = "prepare"]
    /\ UNCHANGED <<rows, registered, agent, cached, tries, found, del, nodes, faults>>

\* The node is not labelled as a confidential VM: the GraVal path is closed.
CreateStrategyRefuses(r) ==
    /\ add[r] = "strategy" /\ Fault
    /\ add' = [add EXCEPT ![r] = "unwatch"]
    /\ UNCHANGED <<rows, registered, agent, cached, task, found, del, nodes>>

\* Variant: the outcome of the task is not awaited.
StreamEndsUnawaited(r) ==
    /\ add[r] = "stream" /\ run[r] \in {"passed", "failed"}
    /\ add' = [add EXCEPT ![r] = "mark"]
    /\ UNCHANGED <<rows, registered, agent, cached, task, found, del, nodes, faults>>

\* stream_messages ends when the task has; await task raises what it raised.
StreamEnds(r) ==
    /\ add[r] = "stream" /\ run[r] \in {"passed", "failed"}
    /\ add' = [add EXCEPT ![r] = IF run[r] = "passed" THEN "mark" ELSE "forget"]
    /\ UNCHANGED <<rows, registered, agent, cached, task, found, del, nodes, faults>>

\* Every GPU row of the server becomes verified, whoever inserted it.
MarkVerified(r) ==
    /\ add[r] = "mark"
    /\ gpus' = IF gpus = "none" THEN "none" ELSE "verified"
    /\ add' = [add EXCEPT ![r] = "last"]
    /\ UNCHANGED <<server, halfway, registered, agent, cached, task, found, del, nodes, faults>>

\* The last message is sent: success, and nothing is rolled back.
Succeed(r) ==
    /\ add[r] = "last"
    /\ add' = [add EXCEPT ![r] = "done"]
    /\ UNCHANGED <<rows, registered, agent, cached, task, found, del, nodes, faults>>

\* The client goes away. Either the generator is closed while it yields and
\* runs its finally, or it is cancelled and the rollback ends at its first
\* await. The verification task is not cancelled in either case.
Disconnect(r) ==
    /\ add[r] \in Streaming /\ Fault
    /\ \/ add' = [add EXCEPT ![r] = IF run[r] = "none" THEN "unwatch" ELSE "forget"]
       \/ add' = [add EXCEPT ![r] = "done"]
    /\ UNCHANGED <<rows, registered, agent, cached, task, found, del, nodes>>

-----------------------------------------------------------------------------
(***************************************************************************)
(* The verification task (TEEVerificationStrategy.run).                    *)
(***************************************************************************)
Enter(r, s) == run' = [run EXCEPT ![r] = s]

\* Variant: _finished is set only after a successful run.
FailsUnfinished(r) == Enter(r, "none")

\* The finally of run: _finished is set whatever happened.
Fails(r) == Enter(r, "failed")

\* _verify_attestation_service, then _fetch_devices and the count of the GPUs.
Prepare(r) ==
    /\ run[r] = "prepare" /\ Enter(r, "devices")
    /\ UNCHANGED <<rows, registered, agent, cached, request, tries, del, nodes, faults>>

GatherDevices(r) ==
    /\ run[r] = "devices" /\ Enter(r, "store")
    /\ UNCHANGED <<rows, registered, agent, cached, request, tries, del, nodes, faults>>

\* The attestation service does not answer, or reports other devices.
AttestationFails(r) ==
    /\ run[r] \in {"prepare", "devices"} /\ Fault /\ Fails(r)
    /\ UNCHANGED <<rows, registered, agent, cached, request, tries, del, nodes>>

\* _track_gpus: a GPU row needs its server row, and its id is unique.
TrackGpus(r) ==
    /\ run[r] = "store"
    /\ IF server /\ gpus = "none"
       THEN gpus' = "unverified" /\ Enter(r, "post")
       ELSE UNCHANGED gpus /\ Fails(r)
    /\ UNCHANGED <<server, halfway, registered, agent, cached, request, tries, del, nodes, faults>>

\* _advertise_server: the validator answers 201, or 409 for a server it knows.
Advertise(r) ==
    /\ run[r] = "post"
    /\ IF registered THEN Fails(r) ELSE Enter(r, "passed")
    /\ registered' = TRUE
    /\ UNCHANGED <<rows, agent, cached, request, tries, del, nodes, faults>>

\* Another status is not retried.
AdvertiseRefused(r) ==
    /\ run[r] = "post" /\ Fault /\ Fails(r)
    /\ UNCHANGED <<rows, registered, agent, cached, request, tries, del, nodes>>

\* A connection error or timeout is retried, though the validator may have
\* registered the server.
AdvertiseLost(r) ==
    /\ run[r] = "post" /\ Fault
    /\ registered' \in {registered, TRUE}
    /\ tries' = [tries EXCEPT ![r] = @ + 1]
    /\ IF tries'[r] < MaxTries THEN UNCHANGED run ELSE Fails(r)
    /\ UNCHANGED <<rows, agent, cached, request, del, nodes>>

-----------------------------------------------------------------------------
(***************************************************************************)
(* The rollback: strategy.cleanup (if there is a strategy), then _cleanup. *)
(***************************************************************************)
Forget(r) ==
    /\ add[r] = "forget"
    /\ DropServer
    /\ found' = [found EXCEPT ![r] = server]
    /\ add' = [add EXCEPT ![r] = "unregister"]
    /\ UNCHANGED <<registered, agent, cached, task, del, nodes, faults>>

\* The DELETE names the server only if the row was found; its failure is logged.
Unregister(r) ==
    /\ add[r] = "unregister"
    /\ \/ registered' = (registered /\ ~found[r]) /\ UNCHANGED faults
       \/ UNCHANGED registered /\ Fault
    /\ add' = [add EXCEPT ![r] = "unwatch"]
    /\ UNCHANGED <<rows, agent, cached, task, found, del, nodes>>

\* stop_server_monitoring: the agent leaves the cache before it answers.
StopAgent == agent = "on" /\ agent' = "off" /\ cached' = FALSE

\* It is not monitoring (409), or cannot be reached, or its answer is lost.
StopAgentFails ==
    \/ agent # "on" /\ UNCHANGED <<agent, cached, faults>>
    \/ /\ agent = "on" /\ Fault
       /\ \/ UNCHANGED <<agent, cached>>
          \/ agent' = "off" /\ cached' = FALSE

Unwatch(r) ==
    /\ add[r] = "unwatch"
    /\ \/ StopAgent /\ UNCHANGED faults
       \/ StopAgentFails
    /\ add' = [add EXCEPT ![r] = "done"]
    /\ UNCHANGED <<rows, registered, task, found, del, nodes>>

-----------------------------------------------------------------------------
(***************************************************************************)
(* server_deleted, and who starts it.                                      *)
(***************************************************************************)
DelStep(w, from, to) == del[w] = from /\ del' = [del EXCEPT ![w] = to]

\* delete_server publishes an event; gepetto loads the row when it arrives.
DeleteRequest(w) ==
    /\ w \in Del /\ server
    /\ DelStep(w, "idle", "load")
    /\ UNCHANGED <<rows, registered, agent, cached, task, request, nodes, faults>>

DeleteLoad(w) ==
    /\ DelStep(w, "load", IF server THEN "stop" ELSE "idle")
    /\ UNCHANGED <<rows, registered, agent, cached, task, request, nodes, faults>>

DeleteStop(w) ==
    /\ StopAgent /\ DelStep(w, "stop", "deregister")
    /\ UNCHANGED <<rows, registered, task, request, nodes, faults>>

DeleteStopFails(w) ==
    /\ StopAgentFails /\ DelStep(w, "stop", "clear")
    /\ UNCHANGED <<rows, registered, task, request, nodes>>

\* clear_server_cache.
DeleteClear(w) ==
    /\ DelStep(w, "clear", "deregister")
    /\ cached' = FALSE
    /\ UNCHANGED <<rows, registered, agent, task, request, nodes, faults>>

\* remove_server_from_validator: its failure is logged.
DeleteDeregister(w) ==
    /\ DelStep(w, "deregister", "drop")
    /\ \/ registered' = FALSE /\ UNCHANGED faults
       \/ UNCHANGED registered /\ Fault
    /\ UNCHANGED <<rows, agent, cached, task, request, nodes>>

\* Refreshing a row that has gone raises; otherwise the row is deleted.
DeleteDrop(w) ==
    /\ DelStep(w, "drop", "idle")
    /\ DropServer
    /\ UNCHANGED <<registered, agent, cached, task, request, nodes, faults>>

\* reconcile: the node list from redis, then the server rows.
ReconcileNodes ==
    /\ nodes = "none"
    /\ nodes' = IF cached THEN "in" ELSE "out"
    /\ UNCHANGED <<rows, registered, agent, cached, task, request, del, faults>>

\* Variant: only servers with GPU rows are compared.
ReconcileServersWithGpus ==
    /\ nodes # "none" /\ nodes' = "none"
    /\ IF gpus = "verified" /\ nodes = "out"
       THEN \E w \in Rec : DelStep(w, "idle", "load")
       ELSE UNCHANGED del
    /\ UNCHANGED <<rows, registered, agent, cached, task, request, faults>>

ReconcileServers ==
    /\ nodes # "none" /\ nodes' = "none"
    /\ IF server /\ nodes = "out"
       THEN \E w \in Rec : DelStep(w, "idle", "load")
       ELSE UNCHANGED del
    /\ UNCHANGED <<rows, registered, agent, cached, task, request, faults>>

-----------------------------------------------------------------------------
(***************************************************************************)
(* The agent and crashes.                                                  *)
(***************************************************************************)
\* The agent sends the cluster's resources, nodes included.
AgentReports ==
    /\ agent = "on" /\ ~cached /\ cached' = TRUE
    /\ UNCHANGED <<rows, registered, agent, task, request, del, nodes, faults>>

AgentDies ==
    /\ agent = "on" /\ Fault /\ agent' = "dead"
    /\ UNCHANGED <<rows, registered, cached, task, request, del, nodes>>

\* It resumes from the URL it persisted.
AgentRestarts ==
    /\ agent = "dead" /\ agent' = "on"
    /\ UNCHANGED <<rows, registered, cached, task, request, del, nodes, faults>>

\* The API process dies with its requests and their verification tasks.
ApiCrash ==
    /\ Fault
    /\ \E r \in Add : InFlight(r) \/ run[r] \notin {"none", "passed", "failed"}
    /\ add' = [r \in Add |-> IF add[r] = "idle" THEN "idle" ELSE "done"]
    /\ run' = [r \in Add |-> IF run[r] \in {"none", "passed"} THEN run[r] ELSE "failed"]
    /\ UNCHANGED <<rows, registered, agent, cached, tries, found, del, nodes>>

\* gepetto dies: its events and its reconcile pass are gone.
GepettoCrash ==
    /\ Fault
    /\ \E w \in Del \cup Rec : del[w] # "idle"
    /\ del' = [w \in Del \cup Rec |-> "idle"] /\ nodes' = "none"
    /\ halfway' = (halfway \/ \E w \in Del \cup Rec : del[w] = "drop")
    /\ UNCHANGED <<server, gpus, registered, agent, cached, task, request>>

-----------------------------------------------------------------------------
AddStep(r) ==
    \/ Track(r) \/ TrackFails(r) \/ StartMonitoring(r) \/ StartMonitoringFails(r)
    \/ CreateStrategy(r) \/ CreateStrategyRefuses(r) \/ StreamEnds(r)
    \/ MarkVerified(r) \/ Succeed(r) \/ Forget(r) \/ Unregister(r) \/ Unwatch(r)

RunStep(r) ==
    \/ Prepare(r) \/ GatherDevices(r) \/ AttestationFails(r) \/ TrackGpus(r)
    \/ Advertise(r) \/ AdvertiseRefused(r) \/ AdvertiseLost(r)

DeleteStep(w) ==
    \/ DeleteLoad(w) \/ DeleteStop(w) \/ DeleteStopFails(w) \/ DeleteClear(w)
    \/ DeleteDeregister(w) \/ DeleteDrop(w)

Next ==
    \/ \E r \in Add : Request(r) \/ AddStep(r) \/ RunStep(r) \/ Disconnect(r)
    \/ \E w \in Del \cup Rec : DeleteRequest(w) \/ DeleteStep(w)
    \/ ReconcileNodes \/ ReconcileServers
    \/ AgentReports \/ AgentDies \/ AgentRestarts
    \/ ApiCrash \/ GepettoCrash

\* The processes go on, reconcile runs every minute, a dead agent is restarted
\* by kubernetes and a monitoring agent reports.
Fairness ==
    /\ \A r \in Add : WF_vars(AddStep(r)) /\ WF_vars(RunStep(r))
    /\ \A w \in Del \cup Rec : WF_vars(DeleteStep(w))
    /\ WF_vars(ReconcileNodes) /\ WF_vars(ReconcileServers)
    /\ WF_vars(AgentReports) /\ WF_vars(AgentRestarts)

Spec == Init /\ [][Next]_vars
FairSpec == Spec /\ Fairness

-----------------------------------------------------------------------------
(***************************************************************************)
(* Properties.                                                             *)
(***************************************************************************)
\* Every variable has its type, and GPU rows exist only under a server row.
TypeOK ==
    /\ server \in BOOLEAN /\ registered \in BOOLEAN /\ cached \in BOOLEAN
    /\ gpus \in {"none", "unverified", "verified"}
    /\ agent \in {"off", "on", "dead"}
    /\ add \in [Add -> {"idle", "done"} \cup Streaming \cup RollingBack]
    /\ run \in [Add -> {"none", "prepare", "devices", "store", "post", "passed", "failed"}]
    /\ tries \in [Add -> 0 .. MaxTries]
    /\ found \in [Add -> BOOLEAN]
    /\ del \in [Del \cup Rec -> {"idle", "load", "stop", "clear", "deregister", "drop"}]
    /\ nodes \in {"none", "in", "out"} /\ halfway \in BOOLEAN
    /\ faults \in 0 .. MaxFaults
    /\ gpus # "none" => server

\* The validator knows the server, is about to be told that it goes, or was told and
\* a crash left the deletion halfway.
Known ==
    \/ registered \/ halfway
    \/ \E w \in Del \cup Rec : del[w] = "drop"

\* GPUs that launches may use belong to a server the validator knows, except
\* while a deletion is at work on them, or a crash left one halfway
\* (bootstrap_server marks GPUs verified only after the validator accepted them,
\* and every way back drops the row before it deregisters the server).
VerifiedIsRegistered == gpus = "verified" => Known

\* Every add comes to an end, however its verification fails.
AddEnds == \A r \in Add : InFlight(r) ~> add[r] = "done"

\* A server row whose node is not in redis does not stay that way: its agent
\* reports, or reconcile removes the row (left by an add that failed before it
\* had a strategy, or by a crash).
UnreportedServerSettles == (server /\ ~cached) ~> (~server \/ cached)

\* "This will happen when you remove a node intentionally, but otherwise should
\* not really happen": reconcile does not delete a server that is being added.
OnboardingKept ==
    [][\A w \in Rec : del[w] = "drop" /\ server /\ ~server'
         => \A r \in Add : add[r] \notin Streaming]_vars
=============================================================================
