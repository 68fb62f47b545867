------------------------------ MODULE Inventory ------------------------------
(***************************************************************************)
(* How the miner's table of chutes follows the validator's inventory:      *)
(* the broadcasts that reach gepetto through the API's socket client and   *)
(* redis pub/sub (socket_client.py, redis_pubsub.py), the handlers of the  *)
(* chute and image events, and the pass of reconcile that repairs what the *)
(* broadcasts did not (gepetto.py).                                        *)
(*                                                                         *)
(* Two facts shape it.  The listener handles one event after another, but  *)
(* reconcile and the handlers it starts as tasks run next to it; an action *)
(* is the code between two awaits.  And a broadcast that finds the socket, *)
(* redis or gepetto down is lost: nothing keeps it.                        *)
(*                                                                         *)
(* How many deployments a chute gets, and on which GPUs, is not said here  *)
(* (LaunchPolicy, Deployments), nor where its code is (ConfigMaps); dep    *)
(* only says of which versions of the chute there are deployments.         *)
(***************************************************************************)
EXTENDS Integers, Sequences, FiniteSets

CONSTANTS
    Chute,
    Alone,          \* TRUE: the validator has no chutes but these
    MaxVersion,     \* bound on versions, texts and images of a chute
    MaxQueue,       \* bound on the broadcasts on their way
    MaxAttempts,    \* reconnection attempts of the listener (10 in the code)
    MaxChanges,     \* bound on what happens at the validator
    MaxFaults       \* bound on failed calls, lost connections and crashes

ASSUME InventoryAssumption ==
    /\ Alone \in BOOLEAN
    /\ {MaxVersion, MaxQueue, MaxAttempts, MaxChanges, MaxFaults} \subseteq Nat
    /\ MaxVersion > 0

VARIABLES
    remote,     \* the validator's chutes
    deleted,    \* chutes deleted at the validator (ids are not used again)
    rolling,    \* chutes the validator says are being updated instance by instance
    row,        \* the miner's chutes table
    dep,        \* versions of each chute that are deployed
    sock,       \* the socket client of the API process
    chan,       \* broadcasts in redis' connection to the listener
    sub,        \* the listener ("boot": gepetto has not started it yet)
    attempts,   \* its failed reconnections in a row
    hnd,        \* the handler it is awaiting
    known,      \* remote_chutes: the inventory as gepetto last fetched it
    rec,        \* the pass of reconcile
    jobs,       \* handlers it has started as tasks
    moved,      \* (history) chutes the validator changed since the pass began
    changes, faults

validator == <<remote, deleted, rolling, moved, changes>>
wire      == <<sock, chan, sub, attempts>>
vars == <<validator, row, dep, wire, hnd, known, rec, jobs, faults>>

Rev == 1 .. MaxVersion

\* What the miner keeps of a chute: its version; the code and everything else the
\* hash of reconcile covers (text); its image, which changes without the version.
Def   == [ver : Rev, text : Rev, img : Rev]
First == [ver |-> 1, text |-> 1, img |-> 1]
NoDef == [ver |-> 0, text |-> 0, img |-> 0]

Hash(d) == <<d.text, d.img>>

\* Events, and the handlers that are called with them.
Event == [kind : {"created", "updated", "deleted", "image", "rolling"},
          chute : Chute, ver : 0 .. MaxVersion, arg : 0 .. MaxVersion]

Ev(kind, c, v, arg) == [kind |-> kind, chute |-> c, ver |-> v, arg |-> arg]

Handler == [ev : Event, pc : {"go", "fetch", "store", "drop"}, def : Def \cup {NoDef}]

Handle(e) == [ev |-> e, pc |-> "go", def |-> NoDef]
NoHandler == [pc |-> "none"]

RecIdle == [pc |-> "idle", img |-> [c \in Chute |-> 0], todo |-> {}, roll |-> {},
            call |-> NoHandler]

Fault == faults < MaxFaults /\ faults' = faults + 1

-----------------------------------------------------------------------------
\* A miner that is set up, at any time in the life of the chutes.
Init ==
    /\ remote \in [Chute -> {NoDef, First}] /\ deleted = {} /\ rolling = {}
    /\ row = [c \in Chute |-> NoDef] /\ dep = [c \in Chute |-> {}]
    /\ sock = "start" /\ chan = <<>> /\ sub = "boot" /\ attempts = 0
    /\ hnd = NoHandler
    /\ known = [c \in Chute |-> NoDef]
    /\ rec = RecIdle /\ jobs = {} /\ moved = {} /\ changes = 0 /\ faults = 0

-----------------------------------------------------------------------------
(* The validator.                                                            *)

\* What the socket client relays, it publishes at once; without it or without a
\* subscriber the broadcast is gone.
Broadcast(e) ==
    IF sock = "on" /\ sub = "on"
    THEN Len(chan) < MaxQueue /\ chan' = Append(chan, e)
    ELSE UNCHANGED chan

Touched(c) == moved' = IF rec = RecIdle /\ jobs = {} THEN {} ELSE moved \cup {c}

Changes(c) ==
    /\ changes < MaxChanges /\ changes' = changes + 1
    /\ Touched(c)
    /\ UNCHANGED <<row, dep, sock, sub, attempts, hnd, known, rec, jobs, faults>>

ChutePublished(c) ==
    /\ remote[c] = NoDef /\ c \notin deleted /\ Changes(c)
    /\ remote' = [remote EXCEPT ![c] = First]
    /\ Broadcast(Ev("created", c, 1, 0))
    /\ UNCHANGED <<deleted, rolling>>

\* A new version, with or without another text, announced to all miners at once
\* or instance by instance.
ChuteChanged(c) ==
    LET d == remote[c] IN
    /\ d # NoDef /\ d.ver < MaxVersion /\ Changes(c)
    /\ \E text \in {d.text, d.text + 1} :
         remote' = [remote EXCEPT ![c] = [d EXCEPT !.ver = @ + 1, !.text = text]]
    /\ \/ Broadcast(Ev("updated", c, d.ver + 1, 0)) /\ UNCHANGED rolling
       \/ rolling' = rolling \cup {c} /\ UNCHANGED chan
    /\ UNCHANGED deleted

InstanceRolls(c) ==
    /\ c \in rolling
    /\ \E w \in dep[c] \ {remote[c].ver} :
         /\ Ev("rolling", c, remote[c].ver, w) \notin {chan[i] : i \in 1 .. Len(chan)}
         /\ Broadcast(Ev("rolling", c, remote[c].ver, w))
    /\ UNCHANGED <<validator, row, dep, sock, sub, attempts, hnd, known, rec, jobs, faults>>

RollingEnds(c) ==
    /\ c \in rolling
    /\ rolling' = rolling \ {c} /\ Touched(c)
    /\ UNCHANGED <<remote, deleted, changes, row, dep, wire, hnd, known, rec, jobs, faults>>

ImagePatched(c) ==
    /\ remote[c] # NoDef /\ remote[c].img < MaxVersion /\ Changes(c)
    /\ remote' = [remote EXCEPT ![c].img = @ + 1]
    /\ Broadcast(Ev("image", c, 0, remote[c].img + 1))
    /\ UNCHANGED <<deleted, rolling>>

ChuteWithdrawn(c) ==
    /\ remote[c] # NoDef /\ Changes(c)
    /\ remote' = [remote EXCEPT ![c] = NoDef]
    /\ deleted' = deleted \cup {c} /\ rolling' = rolling \ {c}
    /\ Broadcast(Ev("deleted", c, remote[c].ver, 0))

-----------------------------------------------------------------------------
(* The socket client, in the API process.                                    *)

Socket(from, to) ==
    /\ sock = from /\ sock' = to
    /\ UNCHANGED <<validator, row, dep, chan, sub, attempts, hnd, known, rec, jobs>>

\* connect_and_run is called once, when the API process starts; the library
\* reconnects by itself after a drop, but when the first connection cannot be made
\* or the validator refuses the signature, the client is done.
SocketConnects == Socket("start", "auth") /\ UNCHANGED faults
SocketRefused  == Socket("start", "off")  /\ Fault
Authenticates  == Socket("auth", "on")    /\ UNCHANGED faults
AuthFails      == Socket("auth", "off")   /\ Fault
SocketDrops    == Socket("on", "auth")    /\ Fault
ApiRestarts    == sock # "start" /\ Socket(sock, "start") /\ Fault

-----------------------------------------------------------------------------
(* The listener, and the process it keeps alive.                             *)

\* The process is restarted: reconcile first, then the listener.
Restart ==
    /\ sub' = "boot" /\ chan' = <<>> /\ attempts' = 0
    /\ hnd' = NoHandler /\ rec' = RecIdle /\ jobs' = {}
    /\ known' = [c \in Chute |-> NoDef]
    /\ UNCHANGED <<validator, row, dep, sock>>

GepettoCrash == Fault /\ Restart

Subscribe ==
    /\ sub = "off"
    /\ sub' = "on" /\ attempts' = 0
    /\ UNCHANGED <<validator, row, dep, sock, chan, hnd, known, rec, jobs, faults>>

\* One outage of redis is one fault, however many attempts it lasts.
Outage == IF attempts = 0 THEN Fault ELSE UNCHANGED faults

\* Variant: the listener gives up and the process goes on without it.
ListenerFailsQuietly ==
    /\ sub \in {"off", "on"} /\ hnd = NoHandler /\ Outage
    /\ sub' = IF attempts < MaxAttempts THEN "off" ELSE "stopped"
    /\ chan' = <<>> /\ attempts' = IF attempts < MaxAttempts THEN attempts + 1 ELSE 0
    /\ UNCHANGED <<validator, row, dep, sock, hnd, known, rec, jobs>>

\* _handle_connection_error: what was on its way is lost.  After the last attempt
\* the listener stops; with it run() and the process end.
ListenerFails ==
    /\ sub \in {"off", "on"} /\ hnd = NoHandler /\ Outage
    /\ IF attempts < MaxAttempts
       THEN /\ sub' = "off" /\ chan' = <<>> /\ attempts' = attempts + 1
            /\ UNCHANGED <<validator, row, dep, sock, hnd, known, rec, jobs>>
       ELSE Restart

\* _listen: the handlers of one event are awaited before the next is taken.
ListenerTakes ==
    /\ sub = "on" /\ hnd = NoHandler /\ chan # <<>>
    /\ hnd' = Handle(Head(chan)) /\ chan' = Tail(chan)
    /\ UNCHANGED <<validator, row, dep, sock, sub, attempts, known, rec, jobs, faults>>

-----------------------------------------------------------------------------
(* The handlers: h takes a step and becomes next.                            *)

\* GET /miner/chutes/<id>/<version>; an error is logged and ends the handler.
Fetch(h, next) ==
    LET d == remote[h.ev.chute] IN
    IF d.ver = h.ev.ver
    THEN \/ next = [h EXCEPT !.pc = "store", !.def = d] /\ UNCHANGED faults
         \/ next = NoHandler /\ Fault
    ELSE next = NoHandler /\ UNCHANGED faults

\* load_chute: by id and version.
Tracked(c, v) == row[c].ver = v

\* chute_created: nothing if this version is in the table; else the details are
\* fetched and inserted, which raises if there is a row of another version.
CreatedStep(h, next) ==
    LET c == h.ev.chute IN
    \/ /\ h.pc = "go"
       /\ IF Tracked(c, h.ev.ver)
          THEN next = NoHandler /\ UNCHANGED faults
          ELSE Fetch(h, next)
       /\ UNCHANGED <<row, dep>>
    \/ /\ h.pc = "store"
       /\ row' = IF row[c] = NoDef THEN [row EXCEPT ![c] = h.def] ELSE row
       /\ next = NoHandler /\ UNCHANGED <<dep, faults>>

\* chute_updated: whatever is in the table is overwritten with what was fetched.
UpdatedStep(h, next) ==
    \/ h.pc = "go" /\ Fetch(h, next) /\ UNCHANGED <<row, dep>>
    \/ /\ h.pc = "store"
       /\ row' = [row EXCEPT ![h.ev.chute] = h.def]
       /\ next = NoHandler /\ UNCHANGED <<dep, faults>>

\* Variant: the row is deleted only if it has no deployments.
DeletedStepIdleOnly(h, next) ==
    LET c == h.ev.chute IN
    /\ IF h.pc = "go" /\ row[c].ver = h.ev.ver /\ dep[c] = {}
       THEN row' = [row EXCEPT ![c] = NoDef] ELSE UNCHANGED row
    /\ next = NoHandler /\ UNCHANGED <<dep, faults>>

\* chute_deleted: the row of that very version is looked up, its deployments are
\* undeployed, and then the row is deleted by the id of the chute, whatever its
\* version by now; deployments made meanwhile go by the cascade.
DeletedStep(h, next) ==
    LET c == h.ev.chute IN
    \/ /\ h.pc = "go"
       /\ IF row[c].ver = h.ev.ver
          THEN dep' = [dep EXCEPT ![c] = {}] /\ next = [h EXCEPT !.pc = "drop"]
          ELSE UNCHANGED dep /\ next = NoHandler
       /\ UNCHANGED <<row, faults>>
    \/ /\ h.pc = "drop"
       /\ row' = [row EXCEPT ![c] = NoDef] /\ dep' = [dep EXCEPT ![c] = {}]
       /\ next = NoHandler /\ UNCHANGED faults

\* image_updated: an UPDATE of the chutes it names.
ImageStep(h, next) ==
    LET c == h.ev.chute IN
    /\ row' = IF row[c] = NoDef THEN row ELSE [row EXCEPT ![c].img = h.ev.arg]
    /\ next = NoHandler /\ UNCHANGED <<dep, faults>>

\* rolling_update: the instance is undeployed; then the row is made to be of the
\* new version.  (The launch that follows is a Launch.)
RollingStep(h, next) ==
    LET c == h.ev.chute IN
    \/ /\ h.pc = "go"
       /\ dep' = [dep EXCEPT ![c] = @ \ {h.ev.arg}]
       /\ next = [h EXCEPT !.pc = "fetch"] /\ UNCHANGED <<row, faults>>
    \/ /\ h.pc = "fetch"
       /\ IF Tracked(c, h.ev.ver)
          THEN next = NoHandler /\ UNCHANGED faults
          ELSE Fetch(h, next)
       /\ UNCHANGED <<row, dep>>
    \/ /\ h.pc = "store"
       /\ row' = [row EXCEPT ![c] = h.def]
       /\ next = NoHandler /\ UNCHANGED <<dep, faults>>

HandlerStep(h, next) ==
    \/ h.ev.kind = "created" /\ CreatedStep(h, next)
    \/ h.ev.kind = "updated" /\ UpdatedStep(h, next)
    \/ h.ev.kind = "deleted" /\ DeletedStep(h, next)
    \/ h.ev.kind = "image"   /\ ImageStep(h, next)
    \/ h.ev.kind = "rolling" /\ RollingStep(h, next)

\* What a handler may become.
After(h) == {NoHandler} \cup
    {[h EXCEPT !.pc = p, !.def = d] : p \in {"fetch", "store", "drop"},
                                      d \in {h.def, remote[h.ev.chute]}}

ListenerHandles ==
    /\ hnd # NoHandler
    /\ \E next \in After(hnd) : HandlerStep(hnd, next) /\ hnd' = next
    /\ UNCHANGED <<validator, wire, known, rec, jobs>>

\* A chute_created that runs into the row chute_deleted is about to remove.
Conflict(h) == h.ev.kind = "created" /\ h.pc = "store" /\ row[h.ev.chute] # NoDef

TaskRuns(h) ==
    /\ ~Conflict(h)
    /\ \E next \in After(h) :
         /\ HandlerStep(h, next)
         /\ jobs' = (jobs \ {h}) \cup ({next} \ {NoHandler})
    /\ UNCHANGED <<validator, wire, hnd, known, rec>>

\* The exception ends the pass, and the tasks it has started run on.  The loop logs
\* it; but the first pass is made by run() itself, and the process ends (a fault,
\* since it does not happen at every start for ever).
TaskRaises(h) ==
    /\ Conflict(h)
    /\ IF sub = "boot"
       THEN Fault /\ Restart
       ELSE /\ rec' = IF rec.pc = "gather" THEN RecIdle ELSE rec
            /\ jobs' = jobs \ {h}
            /\ UNCHANGED <<validator, row, dep, wire, hnd, known, faults>>

\* A launch by scale_chute or rolling_update: of the version in the table.
Launch(c) ==
    /\ row[c] # NoDef
    /\ dep' = [dep EXCEPT ![c] = @ \cup {row[c].ver}]
    /\ UNCHANGED <<validator, row, wire, hnd, known, rec, jobs, faults>>

-----------------------------------------------------------------------------
(* A pass of reconcile.                                                      *)

Pass(from, to) == rec.pc = from /\ rec' = [rec EXCEPT !.pc = to]

\* The pass returns, or raises: after the first one the listener is started.
PassEnds ==
    /\ rec' = RecIdle
    /\ sub' = IF sub = "boot" THEN "off" ELSE sub

\* Variant: what the validator sends is merged into what is known.
RefreshChutesMerges ==
    /\ Pass("idle", "images")
    /\ known' = [c \in Chute |-> IF remote[c] = NoDef THEN known[c] ELSE remote[c]]
    /\ moved' = {h.ev.chute : h \in jobs}
    /\ UNCHANGED <<remote, deleted, rolling, changes, row, dep, wire, hnd, jobs, faults>>

\* remote_refresh_all; a stream without items leaves remote_chutes as it was, and
\* "explicit_null" is asked for instances only.
RefreshChutes ==
    /\ Pass("idle", "images")
    /\ known' = IF Alone /\ \A c \in Chute : remote[c] = NoDef THEN known ELSE remote
    /\ moved' = {h.ev.chute : h \in jobs}
    /\ UNCHANGED <<remote, deleted, rolling, changes, row, dep, wire, hnd, jobs,
                   faults>>

RefreshImages ==
    /\ rec.pc = "images"
    /\ rec' = [rec EXCEPT !.pc = "hash", !.img = [c \in Chute |-> remote[c].img]]
    /\ UNCHANGED <<validator, row, dep, wire, hnd, known, jobs, faults>>

RefreshFails ==
    /\ rec.pc \in {"idle", "images"} /\ Fault /\ PassEnds
    /\ UNCHANGED <<validator, row, dep, sock, chan, attempts, hnd, known, jobs>>

\* The rows, all read at once, whose hash is not that of the inventory.
HashRows ==
    /\ rec.pc = "hash"
    /\ rec' = [rec EXCEPT !.pc = "update",
                 !.todo = {<<c, known[c].ver>> : c \in {b \in Chute :
                     /\ NoDef \notin {known[b], row[b]}
                     /\ Hash(known[b]) # Hash(row[b])}}]
    /\ UNCHANGED <<validator, row, dep, wire, hnd, known, jobs, faults>>

\* They are given to chute_updated one after another.
UpdateRow ==
    /\ rec.pc = "update"
    /\ \/ /\ rec.call = NoHandler
          /\ \E p \in rec.todo :
               rec' = [rec EXCEPT !.todo = @ \ {p}, !.call = Handle(Ev("updated", p[1], p[2], 0))]
          /\ UNCHANGED <<row, dep, faults>>
       \/ /\ rec.call # NoHandler
          /\ \E next \in After(rec.call) :
               HandlerStep(rec.call, next) /\ rec' = [rec EXCEPT !.call = next]
    /\ UNCHANGED <<validator, wire, hnd, known, jobs>>

\* Variant: chute_updated is started, not awaited.
FetchRollingUnawaited ==
    /\ rec.pc = "update" /\ rec.todo = {}
    /\ rec' = [rec EXCEPT !.pc = "rolling", !.roll = rolling]
    /\ UNCHANGED <<validator, row, dep, wire, hnd, known, jobs, faults>>

FetchRolling ==
    /\ rec.pc = "update" /\ rec.todo = {} /\ rec.call = NoHandler
    /\ rec' = [rec EXCEPT !.pc = "rolling", !.roll = rolling]
    /\ UNCHANGED <<validator, row, dep, wire, hnd, known, jobs, faults>>

\* Nothing catches this one below the loop.
FetchRollingFails ==
    /\ rec.pc = "update" /\ rec.todo = {} /\ rec.call = NoHandler /\ Fault
    /\ IF sub = "boot"
       THEN Restart
       ELSE /\ rec' = RecIdle
            /\ UNCHANGED <<validator, row, dep, wire, hnd, known, jobs>>

UpdateImages ==
    /\ Pass("rolling", "deployments")
    /\ row' = [c \in Chute |->
                 IF NoDef \in {row[c], known[c]} \/ rec.img[c] = 0 THEN row[c]
                 ELSE [row[c] EXCEPT !.img = rec.img[c]]]
    /\ UNCHANGED <<validator, dep, wire, hnd, known, jobs, faults>>

Deleted(c, w) == Handle(Ev("deleted", c, w, 0))

\* Deployments of a chute that is not in the inventory, or there in another version,
\* unless the validator is rolling it.
JudgeDeployments ==
    /\ rec.pc = "deployments"
    /\ LET gone == {p \in (Chute \ rec.roll) \X Rev :
                       p[2] \in dep[p[1]] /\ known[p[1]].ver # p[2]}
       IN /\ rec' = [rec EXCEPT !.pc = "chutes", !.todo = gone]
          /\ jobs' = jobs \cup {Deleted(p[1], p[2]) : p \in gone}
    /\ UNCHANGED <<validator, row, dep, wire, hnd, known, faults>>

\* Variant: also the chutes that are being rolled.
JudgeChutesRolling ==
    /\ rec.pc = "chutes"
    /\ rec' = [rec EXCEPT !.pc = "gather", !.todo = {}]
    /\ LET gone == {c \in Chute : row[c] # NoDef /\ known[c].ver # row[c].ver}
           new  == {c \in Chute \ rec.roll : known[c] # NoDef /\ known[c].ver # row[c].ver}
       IN jobs' = jobs \cup {Deleted(c, row[c].ver) : c \in gone}
                       \cup {Handle(Ev("created", c, known[c].ver, 0)) : c \in new}
    /\ UNCHANGED <<validator, row, dep, wire, hnd, known, faults>>

\* The rows and the inventory are compared in both directions: what is only here is
\* deleted, what is only there created; another version is both at once.
JudgeChutes ==
    /\ rec.pc = "chutes"
    /\ rec' = [rec EXCEPT !.pc = "gather", !.todo = {}]
    /\ LET other == {c \in Chute \ rec.roll : known[c].ver # row[c].ver}
           gone  == {c \in other : row[c] # NoDef /\ <<c, row[c].ver>> \notin rec.todo}
           new   == {c \in other : known[c] # NoDef}
       IN jobs' = jobs \cup {Deleted(c, row[c].ver) : c \in gone}
                       \cup {Handle(Ev("created", c, known[c].ver, 0)) : c \in new}
    /\ UNCHANGED <<validator, row, dep, wire, hnd, known, faults>>

Gather ==
    /\ rec.pc = "gather" /\ jobs = {} /\ PassEnds /\ moved' = {}
    /\ UNCHANGED <<remote, deleted, rolling, changes, row, dep, sock, chan, attempts, hnd, known, jobs, faults>>

-----------------------------------------------------------------------------
Reconcile ==
    \/ RefreshChutes \/ RefreshImages \/ HashRows \/ UpdateRow \/ FetchRolling
    \/ UpdateImages \/ JudgeDeployments \/ JudgeChutes \/ Gather

Next ==
    \/ \E c \in Chute : ChutePublished(c)
    \/ \E c \in Chute : ChuteChanged(c)
    \/ \E c \in Chute : InstanceRolls(c)
    \/ \E c \in Chute : RollingEnds(c)
    \/ \E c \in Chute : ImagePatched(c)
    \/ \E c \in Chute : ChuteWithdrawn(c)
    \/ SocketConnects \/ SocketRefused \/ Authenticates \/ AuthFails \/ SocketDrops
    \/ ApiRestarts
    \/ GepettoCrash \/ Subscribe \/ ListenerFails \/ ListenerTakes \/ ListenerHandles
    \/ \E h \in jobs : TaskRuns(h)
    \/ \E h \in jobs : TaskRaises(h)
    \/ \E c \in Chute : Launch(c)
    \/ RefreshChutes \/ RefreshImages \/ RefreshFails \/ HashRows \/ UpdateRow
    \/ FetchRolling \/ FetchRollingFails \/ UpdateImages \/ JudgeDeployments
    \/ JudgeChutes \/ Gather

\* The loops go on, calls are answered, every task gets its turn, the listener is
\* started; and the validator ends its rolling updates.  Nothing is assumed of the socket client.
Fairness ==
    /\ WF_vars(Reconcile) /\ WF_vars(Subscribe)
    /\ WF_vars(ListenerTakes) /\ WF_vars(ListenerHandles)
    /\ \A kind \in {"created", "deleted"}, p \in {"go", "store", "drop"} :
          WF_vars(\E h \in jobs : h.ev.kind = kind /\ h.pc = p /\ (TaskRuns(h) \/ TaskRaises(h)))
    /\ \A c \in Chute : WF_vars(RollingEnds(c))

Spec     == Init /\ [][Next]_vars
FairSpec == Spec /\ Fairness

-----------------------------------------------------------------------------
\* Types; an event has a version its chute has had, a pass judges only when no call
\* of its own is under way, and nothing is listened to before the first pass ends.
TypeOK ==
    /\ remote \in [Chute -> Def \cup {NoDef}] /\ row \in [Chute -> Def \cup {NoDef}]
    /\ deleted \subseteq Chute /\ rolling \subseteq {c \in Chute : remote[c] # NoDef}
    /\ dep \in [Chute -> SUBSET Rev]
    /\ sock \in {"start", "auth", "on", "off"} /\ sub \in {"boot", "off", "on"}
    /\ chan \in Seq(Event) /\ Len(chan) <= MaxQueue /\ attempts \in 0 .. MaxAttempts
    /\ hnd \in Handler \cup {NoHandler} /\ jobs \subseteq Handler
    /\ known \in [Chute -> Def \cup {NoDef}] /\ rec.img \in [Chute -> 0 .. MaxVersion]
    /\ rec.pc \in {"idle", "images", "hash", "update", "rolling", "deployments", "chutes",
                   "gather"}
    /\ rec.roll \subseteq Chute /\ rec.todo \subseteq Chute \X Rev
    /\ rec.call \in Handler \cup {NoHandler}
    /\ rec.call # NoHandler => rec.pc = "update"
    /\ sub = "boot" => chan = <<>> /\ hnd = NoHandler
    /\ moved \subseteq Chute /\ changes \in 0 .. MaxChanges /\ faults \in 0 .. MaxFaults

\* Reconcile deletes no chute the validator has in that version, and none that it is
\* rolling, unless the validator changed the chute while the pass was under way.
ReconcileSparesCurrent ==
    \A h \in jobs : h.ev.kind = "deleted" =>
        LET c == h.ev.chute IN
        c \in moved \/ (remote[c].ver # h.ev.ver /\ c \notin rolling)

\* However many broadcasts were lost, in the end the chutes table says what the
\* validator says: code, version and image.
ChutesFollow == <>[](row = remote)

\* What runs of a chute the validator has withdrawn is undeployed.
WithdrawnUndeployed ==
    \A c \in Chute : (remote[c] = NoDef /\ dep[c] # {}) ~> (dep[c] = {})

\* A listener that lost its connection is back in the end: in this process, or in the
\* one that replaces it when the listener has given up.
ListenerReturns == (sub # "on") ~> (sub = "on")

\* Nothing deletes a chute that the validator has in the very version of the row.
ChuteKept ==
    [][\A c \in Chute : row[c] # NoDef /\ row'[c] = NoDef => row[c].ver # remote[c].ver]_vars

=============================================================================
