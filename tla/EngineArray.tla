----------------------------- MODULE EngineArray ------------------------------
(***************************************************************************)
(* The data path of one volume: the engine controller, the engine pod with *)
(* its two containers (the sidecar and SPDK), and the RAID-1 array that    *)
(* the sidecar builds in SPDK over the local file and the replicas.        *)
(*                                                                         *)
(* SPDK is external; it is modelled by the calls of spdk/client.go.  The   *)
(* bdev of controller nvme<i> is named nvme<i>n1 (client.go:93), detaching *)
(* a controller takes its bdev out of the array, and an array without      *)
(* members, like a namespace without its bdev, is gone.                    *)
(***************************************************************************)
EXTENDS Integers, Sequences

CONSTANTS
    Replicas,      \* names of replicas
    LocalReplica,  \* the one whose file is on the engine's node
    NoReplica,     \* the controller of a slot that has none
    StartLists,    \* names in engine.Spec.Replicas at first, in order
    MaxLen,        \* bound: the length of that list
    MaxMoves,      \* bound: new addresses of a replica's pod
    MaxChanges,    \* bound: attachments, detachments and files formatted again
    MaxFaults,     \* bound: failures
    MaxPosts       \* bound: /reconfigure requests in the sidecar at a time

ASSUME EngineAssumption ==
    /\ LocalReplica \in Replicas /\ NoReplica \notin [name : Replicas, addr : Nat]
    /\ MaxLen \in Nat /\ MaxMoves \in Nat
    /\ MaxChanges \in Nat /\ MaxFaults \in Nat /\ MaxPosts \in Nat
    /\ StartLists \subseteq Seq(Replicas)
    /\ \A s \in StartLists :
          /\ Len(s) <= MaxLen
          /\ \A p, q \in 1 .. Len(s) : p # q => s[p] # s[q]

VARIABLES
    reps,       \* pods of the replicas and the addresses published for them
    list,       \* engine.Spec.Replicas
    podRef,     \* engine.Status.PodRef is set
    phase,      \* engine.Status.Phase
    hash,       \* the list, if any, that engine.Status.LastReplicasHash is of
    erun,       \* the reconcile of the engine in progress
    pod,        \* the engine's pod and its KDFS_REPLICAS
    side,       \* the sidecar process
    posts,      \* its handlers of /reconfigure
    aio, ctrl, raid, ns,   \* SPDK: aio0, the controllers, raid0, the namespace
    written, behind,       \* a write was acknowledged; the copies that lack one
    changes, faults        \* what may still happen

engine == <<list, podRef, phase, hash>>
spdk == <<aio, ctrl, raid, ns>>
content == <<written, behind>>
bounds == <<changes, faults>>
vars == <<reps, engine, erun, pod, side, posts, spdk, content, bounds>>

-----------------------------------------------------------------------------
Slots == 1 .. MaxLen              \* slot p is controller nvme<p-1>
Aio == 0                          \* the local bdev, aio0
Handlers == 1 .. MaxPosts
Addrs == 1 .. (MaxMoves + 1)
Attachment == [name : Replicas, addr : 0 .. (MaxMoves + 1)]   \* 0: not filled in
Lists == {l \in Seq(Attachment) : Len(l) <= MaxLen}

(* Faulty variant of BdevName: the array lists its members by controller.  *)
BareName(b) == <<b, 0>>

(* <<p, 1>> is the bdev nvme<p-1>n1, and <<p, 0>> the controller's name    *)
(* nvme<p-1>, which is what Reconfigure looks up in the array and asks it  *)
(* to add.                                                                 *)
BdevName(b) == <<b, 1>>

CtrlName(p) == <<p, 0>>

IsLocal(a) == a.name = LocalReplica
NamesOf(l) == {l[p].name : p \in DOMAIN l}

EIdle == [pc |-> "idle", list |-> <<>>, fresh |-> FALSE, req |-> 0]
NoPod == [here |-> FALSE, env |-> <<>>]
Down == [pc |-> "down", k |-> 1, base |-> {}, cfg |-> <<>>]
NoPost == [pc |-> "free", list |-> <<>>, cur |-> {}, k |-> 1]

Init ==
    /\ reps = [r \in Replicas |-> [up |-> TRUE, at |-> 1, pub |-> 0]]
    /\ \E s \in StartLists : list = [p \in 1 .. Len(s) |-> [name |-> s[p], addr |-> 0]]
    /\ podRef = FALSE /\ phase = "" /\ hash = {}
    /\ erun = EIdle /\ pod = NoPod /\ side = Down
    /\ posts = [h \in Handlers |-> NoPost]
    /\ aio = FALSE /\ ctrl = [p \in Slots |-> NoReplica]
    /\ raid = {} /\ ns = "none"
    /\ written = FALSE /\ behind = {} /\ changes = MaxChanges /\ faults = MaxFaults

-----------------------------------------------------------------------------
(* SPDK.  In an array without members nothing is left to serve.            *)

Bdevs == (IF aio THEN {Aio} ELSE {}) \cup {p \in Slots : ctrl[p] # NoReplica}

ArrayBecomes(members) ==
    /\ raid' = members
    /\ ns' = IF ns = "raid0" /\ members = {} THEN "none" ELSE ns

(* The replica answers at that address, and SPDK is still the one that the *)
(* sidecar is connected to.                                                *)
Alive(a) == reps[a.name].up /\ reps[a.name].at = a.addr
Reachable(a) == aio /\ Alive(a)

(* Faulty variant of AttachNVMeController: a controller that is there is   *)
(* kept, whichever replica it belongs to.                                  *)
AttachUnlessThere(p, a) ==
    /\ ctrl' = [ctrl EXCEPT ![p] = IF @ # NoReplica THEN @ ELSE
                                    IF Reachable(a) THEN a ELSE NoReplica]
    /\ UNCHANGED <<aio, raid, ns>>

(* Up to five attempts.  A controller of that name is detached first, and  *)
(* its bdev leaves the array, whether or not the new attach succeeds.      *)
AttachNVMeController(p, a) ==
    /\ ctrl' = [ctrl EXCEPT ![p] = IF Reachable(a) THEN a ELSE NoReplica]
    /\ ArrayBecomes(raid \ {p})
    /\ UNCHANGED aio

SPDKEmpty ==
    /\ aio' = FALSE /\ ctrl' = [p \in Slots |-> NoReplica]
    /\ raid' = {} /\ ns' = "none"

(* The copies behind these members, and those that the namespace reads and *)
(* writes: members that do not answer take part in neither.                *)
Copies(members) == {IF b = Aio THEN LocalReplica ELSE ctrl[b].name : b \in members}
Answering == {b \in raid : b = Aio \/ Alive(ctrl[b])}
Receiving ==
    CASE ns = "aio0"  -> {LocalReplica}
      [] ns = "raid0" -> Copies(Answering)
      [] OTHER -> {}

(* A write that some members take is acknowledged, and the members that it *)
(* fails on leave the array.                                               *)
ClientWrites ==
    /\ Receiving # {}
    /\ written' = TRUE /\ behind' = behind \cup (Replicas \ Receiving)
    /\ ArrayBecomes(Answering)
    /\ UNCHANGED <<reps, engine, erun, pod, side, posts, aio, ctrl, bounds>>

-----------------------------------------------------------------------------
(* The sidecar: main and ConfigureEngine.  An error is fatal, and the      *)
(* container is started again with the same KDFS_REPLICAS.                 *)

others == <<reps, engine, erun, pod, posts, content, bounds>>

(* The file is opened anew: an aio0 of an earlier process is deleted.      *)
StartEngine ==
    /\ pod.here /\ side.pc = "down"
    /\ side' = [pc |-> "attach", k |-> 1, base |-> {}, cfg |-> pod.env]
    /\ aio' = TRUE
    /\ raid' = raid \ {Aio}
    /\ ns' = IF ns = "aio0" \/ raid' = {} THEN "none" ELSE ns
    /\ UNCHANGED <<ctrl, others>>

ConfigureLocal ==
    /\ side.pc = "attach" /\ side.k <= Len(side.cfg) /\ IsLocal(side.cfg[side.k])
    /\ side' = [side EXCEPT !.k = @ + 1]
    /\ UNCHANGED <<spdk, others>>

(* A replica that cannot be reached is left out.                           *)
ConfigureRemote ==
    /\ side.pc = "attach" /\ side.k <= Len(side.cfg) /\ ~IsLocal(side.cfg[side.k])
    /\ AttachNVMeController(side.k, side.cfg[side.k])
    /\ side' = [side EXCEPT !.k = @ + 1,
                            !.base = IF Reachable(side.cfg[side.k])
                                     THEN @ \cup {side.k} ELSE @]
    /\ UNCHANGED others

(* Faulty variant of CreateMirror: over the remote bdevs only.             *)
CreateRemoteMirror ==
    /\ side.pc = "attach" /\ side.k > Len(side.cfg)
    /\ side' = [side EXCEPT !.pc = "export"] /\ raid' = side.base
    /\ UNCHANGED <<aio, ctrl, ns, others>>

(* With the local bdev alone there is no array.                            *)
CreateMirror ==
    /\ side.pc = "attach" /\ side.k > Len(side.cfg)
    /\ IF side.base = {}
       THEN side' = [side EXCEPT !.pc = "export"] /\ UNCHANGED raid
       ELSE IF raid # {} \/ ~aio
       THEN side' = Down /\ UNCHANGED raid
       ELSE side' = [side EXCEPT !.pc = "export"] /\ raid' = {Aio} \cup side.base
    /\ UNCHANGED <<aio, ctrl, ns, others>>

(* Subsystem, namespace and listener; each may be there already.           *)
Export ==
    /\ side.pc = "export"
    /\ IF aio
       THEN /\ ns' = IF ns # "none" THEN ns
                     ELSE IF side.base = {} THEN "aio0" ELSE "raid0"
            /\ side' = [side EXCEPT !.pc = "serving"]
       ELSE side' = Down /\ UNCHANGED ns
    /\ UNCHANGED <<aio, ctrl, raid, others>>

SidecarStep == StartEngine \/ ConfigureLocal \/ ConfigureRemote \/ CreateMirror \/ Export

-----------------------------------------------------------------------------
(* Reconfigure.  Handlers run side by side: nothing serialises them, and   *)
(* one goes on when the controller no longer waits for it.                 *)

(* Handler h ends; the reconcile that waits for it, if any, goes on.       *)
Answer(h, next) ==
    /\ posts' = [posts EXCEPT ![h] = NoPost]
    /\ erun' = IF erun.pc = "waiting" /\ erun.req = h
               THEN [erun EXCEPT !.pc = next] ELSE erun

(* Attachments of the old list that the new one lacks, if in the array.    *)
Unneeded(l, cur) ==
    {p \in DOMAIN side.cfg : /\ ~IsLocal(side.cfg[p])
                             /\ side.cfg[p].name \notin NamesOf(l)
                             /\ CtrlName(p) \in cur}

(* Reads the array's members once, and goes on without them if that fails; *)
(* removes those no longer needed.                                         *)
ReconfigureRemoves(h) ==
    /\ posts[h].pc = "start"
    /\ \E cur \in {{BdevName(b) : b \in raid}, {}} :
       LET gone == Unneeded(posts[h].list, cur)
       IN  /\ posts' = [posts EXCEPT ![h].pc = "attach", ![h].cur = cur]
           /\ ctrl' = [p \in Slots |-> IF p \in gone THEN NoReplica ELSE ctrl[p]]
           /\ ArrayBecomes(raid \ gone)
    /\ UNCHANGED <<reps, engine, erun, pod, side, aio, content, bounds>>

Attaching(h) == posts[h].pc = "attach" /\ posts[h].k <= Len(posts[h].list)
Skips(h) ==
    \/ IsLocal(posts[h].list[posts[h].k])
    \/ CtrlName(posts[h].k) \in posts[h].cur

ReconfigureSkips(h) ==
    /\ Attaching(h) /\ Skips(h)
    /\ posts' = [posts EXCEPT ![h].k = @ + 1]
    /\ UNCHANGED <<reps, engine, erun, pod, side, spdk, content, bounds>>

ReconfigureAttaches(h) ==
    /\ Attaching(h) /\ ~Skips(h)
    /\ LET a == posts[h].list[posts[h].k]
       IN  /\ AttachNVMeController(posts[h].k, a)
           /\ IF Reachable(a)
              THEN posts' = [posts EXCEPT ![h].pc = "add"] /\ UNCHANGED erun
              ELSE Answer(h, "failed")
    /\ UNCHANGED <<reps, engine, pod, side, content, bounds>>

(* Faulty variant of ReconfigureAdds: the bdev joins as it is.             *)
ReconfigureAddsAsIs(h) ==
    /\ posts[h].pc = "add"
    /\ IF raid # {} /\ posts[h].k \in Bdevs
       THEN /\ raid' = raid \cup {posts[h].k}
            /\ posts' = [posts EXCEPT ![h].pc = "attach", ![h].k = @ + 1]
            /\ UNCHANGED erun
       ELSE Answer(h, "failed") /\ UNCHANGED raid
    /\ UNCHANGED <<reps, engine, pod, side, aio, ctrl, ns, content, bounds>>

(* AddBaseBdev, by the name of the controller.  Joining, a bdev is rebuilt. *)
ReconfigureAdds(h) ==
    /\ posts[h].pc = "add"
    /\ LET found == {b \in Bdevs : BdevName(b) = CtrlName(posts[h].k)}
       IN  IF raid # {} /\ found # {}
           THEN /\ raid' = raid \cup found
                /\ behind' = behind \ Copies(found)
                /\ posts' = [posts EXCEPT ![h].pc = "attach", ![h].k = @ + 1]
                /\ UNCHANGED erun
           ELSE Answer(h, "failed") /\ UNCHANGED <<raid, behind>>
    /\ UNCHANGED <<reps, engine, pod, side, aio, ctrl, ns, written, bounds>>

ReconfigureDone(h) ==
    /\ posts[h].pc = "attach" /\ posts[h].k > Len(posts[h].list)
    /\ side' = [side EXCEPT !.cfg = posts[h].list]
    /\ Answer(h, "publish")
    /\ UNCHANGED <<reps, engine, pod, spdk, content, bounds>>

HandlerStep(h) ==
    \/ ReconfigureRemoves(h) \/ ReconfigureSkips(h) \/ ReconfigureAttaches(h)
    \/ ReconfigureAdds(h) \/ ReconfigureDone(h)

-----------------------------------------------------------------------------
(* EngineReconciler.Reconcile.                                             *)

ReplicaReady(r) == reps[r].pub # 0 /\ (r = LocalReplica \/ reps[r].up)
AllReady == \A r \in NamesOf(list) : ReplicaReady(r)

FillIn(a) ==
    IF ~IsLocal(a) /\ ReplicaReady(a.name)
    THEN [a EXCEPT !.addr = reps[a.name].pub] ELSE a
Filled == [p \in DOMAIN list |-> FillIn(list[p])]

data == <<reps, side, spdk, content, bounds>>

(* replicaStatus writes the addresses; the reconcile then goes on like one *)
(* that finds nothing to fill in.                                          *)
ReplicaStatus ==
    /\ erun.pc = "idle" /\ Filled # list
    /\ list' = Filled
    /\ UNCHANGED <<podRef, phase, hash, erun, pod, posts, data>>

Begin(next, h) ==
    /\ erun.pc = "idle" /\ Filled = list /\ AllReady
    /\ erun' = [pc |-> next, list |-> list, fresh |-> TRUE, req |-> h]

CreateEnginePod ==
    /\ ~podRef /\ Begin("created", 0)
    /\ pod' = IF pod.here THEN pod ELSE [here |-> TRUE, env |-> list]
    /\ UNCHANGED <<engine, posts, data>>

(* Faulty variant of ForgetPod: the reference is kept.                     *)
ForgetPhaseOnly ==
    /\ podRef /\ ~pod.here
    /\ erun.pc = "idle" /\ Filled = list /\ AllReady
    /\ phase' = ""
    /\ UNCHANGED <<list, podRef, hash, erun, pod, posts, data>>

(* The pod is gone: a new one is made.  The hash is left alone.            *)
ForgetPod ==
    /\ podRef /\ ~pod.here
    /\ erun.pc = "idle" /\ Filled = list /\ AllReady
    /\ podRef' = FALSE /\ phase' = ""
    /\ UNCHANGED <<list, hash, erun, pod, posts, data>>

NeedsReconfigure == hash # {} /\ hash # {list}

(* The sidecar answers /status.                                            *)
EngineAnswers == podRef /\ pod.here /\ side.pc = "serving"

SkipReconfigure ==
    /\ EngineAnswers /\ ~NeedsReconfigure
    /\ Begin("publish", 0)
    /\ UNCHANGED <<engine, pod, posts, data>>

TriggerReconfigure(h) ==
    /\ EngineAnswers /\ NeedsReconfigure
    /\ posts[h].pc = "free" /\ Begin("waiting", h)
    /\ posts' = [posts EXCEPT ![h] = [pc |-> "start", list |-> list, cur |-> {}, k |-> 1]]
    /\ UNCHANGED <<engine, pod, data>>

(* The Status().Update that ends a reconcile, unless it is a conflict.     *)
UpdateStatus ==
    /\ erun.pc \in {"created", "failed", "publish"}
    /\ erun' = EIdle
    /\ IF erun.fresh
       THEN /\ podRef' = (podRef \/ erun.pc = "created")
            /\ phase' = [created |-> "Pending", failed |-> "Degraded",
                         publish |-> "Running"][erun.pc]
            /\ hash' = IF erun.pc = "publish" THEN {erun.list} ELSE hash
       ELSE UNCHANGED <<podRef, phase, hash>>
    /\ UNCHANGED <<list, pod, posts, data>>

EngineStep ==
    \/ ReplicaStatus \/ CreateEnginePod \/ ForgetPod \/ SkipReconfigure
    \/ (\E h \in Handlers : TriggerReconfigure(h)) \/ UpdateStatus

-----------------------------------------------------------------------------
(* The volume controller edits the list: scaleUp appends, scaleDown and    *)
(* healing remove.  A reconcile's copy of the engine is then out of date.  *)

Change == changes > 0 /\ changes' = changes - 1 /\ UNCHANGED faults
Fault == faults > 0 /\ faults' = faults - 1 /\ UNCHANGED changes

Edit(l) ==
    /\ Change
    /\ list' = l
    /\ erun' = [erun EXCEPT !.fresh = FALSE]
    /\ UNCHANGED <<reps, podRef, phase, hash, pod, side, posts, spdk, content>>

AttachReplica(r) ==
    /\ r \notin NamesOf(list) /\ Len(list) < MaxLen
    /\ Edit(Append(list, [name |-> r, addr |-> 0]))

(* The only replica of a volume is removed like any other.                 *)
DetachReplica(p) ==
    Edit(SubSeq(list, 1, p - 1) \o SubSeq(list, p + 1, Len(list)))

-----------------------------------------------------------------------------
(* Replicas and failures.                                                  *)

(* The replica controller has made the file and finds the replica exported. *)
ReplicaPublishes(r) ==
    /\ reps[r].up /\ reps[r].pub = 0
    /\ reps' = [reps EXCEPT ![r].pub = reps[r].at]
    /\ UNCHANGED <<engine, erun, pod, side, posts, spdk, content, bounds>>

(* The agent's mkfs.xfs -f; what was written is no longer there.           *)
Formatted(r) ==
    /\ behind' = IF written THEN behind \cup {r} ELSE behind
    /\ UNCHANGED written

(* A new pod at another address.  A replica that says Running is           *)
(* provisioned again, which formats its file, and published again, only if *)
(* it is looked at while the pod has no address yet.                       *)
ReplicaReturns(r) ==
    /\ ~reps[r].up /\ reps[r].at <= MaxMoves
    /\ \E again \in BOOLEAN :
          LET at == reps[r].at + 1
          IN  /\ reps' = [reps EXCEPT ![r] = [up |-> TRUE, at |-> at,
                              pub |-> IF again THEN at ELSE reps[r].pub]]
              /\ IF again THEN Formatted(r) ELSE UNCHANGED content
    /\ UNCHANGED <<engine, erun, pod, side, posts, spdk, bounds>>

(* A reconcile of a replica that is Running formats its file again: of a   *)
(* Local one always, of a Remote one when the read of its pod fails.       *)
ReprovisionReplica(r) ==
    /\ Change /\ reps[r].pub # 0
    /\ reps' = [reps EXCEPT ![r].pub = IF reps[r].up THEN reps[r].at ELSE @]
    /\ Formatted(r)
    /\ UNCHANGED <<engine, erun, pod, side, posts, spdk>>

ReplicaStops(r) ==
    /\ Fault /\ reps[r].up /\ r # LocalReplica
    /\ reps' = [reps EXCEPT ![r].up = FALSE]
    /\ UNCHANGED <<engine, erun, pod, side, posts, spdk, content>>

(* The process ends, and with it its handlers and connections.             *)
SidecarGone ==
    /\ side' = Down
    /\ posts' = [h \in Handlers |-> NoPost]
    /\ erun' = IF erun.pc = "waiting" THEN [erun EXCEPT !.pc = "failed"] ELSE erun

SidecarCrashes ==
    /\ Fault /\ side.pc # "down"
    /\ SidecarGone
    /\ UNCHANGED <<reps, engine, pod, spdk, content>>

(* SPDK starts again, empty; the sidecar does not notice.                  *)
SPDKRestarts ==
    /\ Fault /\ aio
    /\ SPDKEmpty
    /\ UNCHANGED <<reps, engine, erun, pod, side, posts, content>>

PodLost ==
    /\ Fault /\ pod.here
    /\ pod' = NoPod
    /\ SidecarGone /\ SPDKEmpty
    /\ UNCHANGED <<reps, engine, content>>

(* 30 seconds have passed, less than two legs may take to attach.          *)
PostTimesOut ==
    /\ Fault /\ erun.pc = "waiting"
    /\ erun' = [erun EXCEPT !.pc = "failed"]
    /\ UNCHANGED <<reps, engine, pod, side, posts, spdk, content>>

ControllerRestarts ==
    /\ Fault /\ erun.pc # "idle"
    /\ erun' = EIdle
    /\ UNCHANGED <<reps, engine, pod, side, posts, spdk, content>>

(* The read of the pod fails, for whatever reason, and the pod is taken to *)
(* be gone; the one that is there is adopted again.                        *)
PodUnread ==
    /\ Fault /\ podRef /\ pod.here
    /\ erun.pc = "idle" /\ Filled = list /\ AllReady
    /\ podRef' = FALSE /\ phase' = ""
    /\ UNCHANGED <<reps, list, hash, erun, pod, side, posts, spdk, content>>

Environment ==
    \/ \E r \in Replicas : \/ AttachReplica(r) \/ ReplicaPublishes(r)
                            \/ ReplicaReturns(r) \/ ReprovisionReplica(r)
                            \/ ReplicaStops(r)
    \/ \E p \in DOMAIN list : DetachReplica(p)
    \/ SidecarCrashes \/ SPDKRestarts \/ PodLost \/ PostTimesOut \/ ControllerRestarts
    \/ PodUnread \/ ClientWrites

-----------------------------------------------------------------------------
Next ==
    \/ EngineStep \/ SidecarStep \/ (\E h \in Handlers : HandlerStep(h))
    \/ Environment

Spec == Init /\ [][Next]_vars

(* The engine is reconciled again when it asks for it and at the resync;   *)
(* the kubelet starts containers; calls to SPDK return; replicas are       *)
(* reconciled.                                                             *)
Fairness ==
    /\ WF_vars(EngineStep) /\ WF_vars(SidecarStep)
    /\ \A h \in Handlers : WF_vars(HandlerStep(h))
    /\ \A r \in Replicas : WF_vars(ReplicaPublishes(r))

FairSpec == Spec /\ Fairness

-----------------------------------------------------------------------------
EngineRuns == [pc : {"idle", "created", "waiting", "failed", "publish"},
               list : Lists, fresh : BOOLEAN, req : Handlers \cup {0}]
Sidecars == [pc : {"down", "attach", "export", "serving"}, k : 1 .. (MaxLen + 1),
             base : SUBSET Slots, cfg : Lists]
Posts == [pc : {"free", "start", "attach", "add"}, list : Lists,
          cur : SUBSET ((Slots \cup {Aio}) \X {1}), k : 1 .. (MaxLen + 1)]

(* Controllers and bdevs go by the slot of the list they were made for,    *)
(* and what a reconfigure finds in the array are names of bdevs.           *)
TypeOK ==
    /\ reps \in [Replicas -> [up : BOOLEAN, at : Addrs, pub : 0 .. (MaxMoves + 1)]]
    /\ list \in Lists
    /\ podRef \in BOOLEAN
    /\ phase \in {"", "Pending", "Running", "Degraded"}
    /\ hash \in SUBSET Lists
    /\ erun \in EngineRuns
    /\ pod \in [here : BOOLEAN, env : Lists]
    /\ side \in Sidecars
    /\ posts \in [Handlers -> Posts]
    /\ aio \in BOOLEAN
    /\ ctrl \in [Slots -> Attachment \cup {NoReplica}]
    /\ raid \in SUBSET (Slots \cup {Aio})
    /\ ns \in {"none", "aio0", "raid0"}
    /\ written \in BOOLEAN /\ behind \in SUBSET Replicas
    /\ changes \in 0 .. MaxChanges /\ faults \in 0 .. MaxFaults

Volume == INSTANCE Mirror WITH
    Holders <- Replicas, Keeper <- LocalReplica, legs <- Receiving

(* The engine's data path, restarts and reconfigures side by side          *)
(* included, is a mirror: while the volume is served no copy joins it      *)
(* unless it has been rebuilt, and a new array is made only when nothing   *)
(* is served.                                                              *)
IsMirror == Volume!MSpec

(* No reconfigure, and no two of them, take the local copy out of a volume *)
(* that is served, and with it the volume offline: a sidecar that answers  *)
(* serves at least the local copy, unless SPDK was restarted under it.     *)
AnswersWhileServing == side.pc = "serving" /\ aio => LocalReplica \in Receiving

(* A sidecar that starts again over what it had built before finds the     *)
(* array gone by the time it makes it, or else would fail for ever.        *)
ArrayNameIsFree ==
    side.pc = "attach" /\ side.k > Len(side.cfg) => raid = {}

(* No replica is in the array twice, and the local file is not in it under *)
(* another name as well: controllers go by positions of the list, which    *)
(* shift when one is removed, so that a reconfigure attaches a replica     *)
(* once more that is still there at its former position.                   *)
OneLegPerReplica == \A b, c \in raid : b # c => Copies({b}) # Copies({c})

(* Copies that agree go on agreeing until the volume is no longer served:  *)
(* whatever fails, restarts or is reconfigured meanwhile, no copy without  *)
(* the latest writes is read, unless the file of one is formatted again.   *)
StaysInSync ==
    [][Receiving # {} /\ Volume!InSync /\ ~(\E r \in Replicas : ReprovisionReplica(r))
          => Volume!InSync']_vars

(* With its replicas ready and the list that it last ran with, the engine  *)
(* comes back to Running whatever has failed.                              *)
EngineRecovers ==
    []<>(phase = "Running" \/ ~AllReady \/ NeedsReconfigure)
=============================================================================
