----------------------------- MODULE NodeStaging ------------------------------
(***************************************************************************)
(* The CSI node service on one node, for one volume: NodeStageVolume,      *)
(* NodePublishVolume (which stages again), NodeUnpublishVolume and         *)
(* NodeUnstageVolume, called by the kubelet, over the mounts and the NVMe  *)
(* controllers of the kernel.                                              *)
(*                                                                         *)
(* The kubelet has one call at a time for a volume, but gives up on one    *)
(* that takes long, while the driver goes on with it.  The kernel mounts a *)
(* file system once per mount point and either read-only or read-write,    *)
(* refuses a read-write XFS whose UUID is mounted so from another device,  *)
(* and queues requests to a device whose controllers are not live.         *)
(***************************************************************************)
EXTENDS Integers, Sequences, FiniteSets

CONSTANTS
    Pods,       \* pods of the node that use the volume
    Readers,    \* the pods among them that ask for it readOnly
    Host,       \* stands for the node's own disk
    Starts,     \* how the attachment is accessed ("rw", "ro" or "nfs"), and as bounds,
                \* which of the pods come and how many failures there are
    MaxMoves,   \* bound: new addresses of the engine
    MaxCalls    \* bound: calls in the driver at a time

ASSUME NodeAssumption ==
    /\ IsFiniteSet(Pods) /\ Readers \subseteq Pods
    /\ Host \notin Pods \cup (Nat \X Nat \X BOOLEAN)
    /\ Starts \subseteq {"rw", "ro", "nfs"} \X (SUBSET Pods) \X Nat
    /\ MaxMoves \in Nat /\ MaxCalls \in Nat

VARIABLES
    mode,          \* of this attachment
    eng, up,       \* the address in the engine's status, and whether it answers
    ctx,           \* the address in the publish context; 0: not attached
    pods,          \* what the kubelet makes of each pod
    kub,           \* the kubelet: the volume is staged, the call it waits for
    calls,         \* calls in the driver
    ctrls, dev,    \* addresses of the NVMe controllers, and their block device
    stage, bound,  \* mounts at the staging path and at each pod's target path
    disk, gen,     \* what is on the volume, and the UUID of its file system
    comings,       \* pods that are still to come, each with its own target path
    faults

kernel == <<ctrls, dev, stage, bound, disk, gen>>
kubelet == <<pods, kub>>
engine == <<eng, up>>
vars == <<mode, engine, ctx, kubelet, calls, kernel, comings, faults>>

-----------------------------------------------------------------------------
Calls == 1 .. MaxCalls
Addrs == 1 .. (MaxMoves + 1)
On(s) == {s[i] : i \in DOMAIN s}
Top(s) == s[Len(s)]
Pop(s) == IF s = <<>> THEN s ELSE SubSeq(s, 1, Len(s) - 1)

(* Two parts of a call that only properties read: "alone", no other call   *)
(* has been at work in the driver since it came in; "failed", an Unmount   *)
(* or a Mount of its own has, without a reason that the model knows.       *)
Free == [pc |-> "free", op |-> "stage", pod |-> Host, ro |-> FALSE, addr |-> 0,
         dev |-> 0, tries |-> 0, alone |-> FALSE, failed |-> FALSE]

Init ==
    /\ \E s \in Starts : mode = s[1] /\ comings = s[2] /\ faults = s[3]
    /\ eng = 1 /\ up = TRUE /\ ctx = 0
    /\ pods = [p \in Pods |-> "absent"]
    /\ kub = [staged |-> FALSE, call |-> 0]
    /\ calls = [c \in Calls |-> Free]
    /\ ctrls = {} /\ dev = 0
    /\ stage = <<>> /\ bound = [p \in Pods |-> <<>>]
    /\ disk \in (IF mode = "rw" THEN {"blank", "data"} ELSE {"data"}) /\ gen = 1

-----------------------------------------------------------------------------
(* The kernel.  A mount has a device, the UUID it was mounted with, and is *)
(* read-only or not; or it is Host.  For NFS there is an address instead.  *)

Mounts == On(stage) \cup UNION {On(bound[p]) : p \in Pods}
Live == up /\ eng \in ctrls
MountedFrom(d) == {m \in Mounts \ {Host} : m[1] = d}

(* Devices and UUIDs that are in use are not given out again.              *)
Fresh(used) == CHOOSE n \in 1 .. (Cardinality(used) + 1) : n \notin used
NewDevice == Fresh({m[1] : m \in Mounts \ {Host}} \cup {calls[c].dev : c \in Calls})
NewUUID == Fresh({m[2] : m \in Mounts \ {Host}})

There(d) == d = dev /\ d # 0
Answers(d) == There(d) => Live     \* otherwise the request waits

(* Without controllers the device is gone.                                 *)
Controllers(cs) == ctrls' = cs /\ dev' = IF cs = {} THEN 0 ELSE dev

(* A read-only mount is made with nouuid, and not entered in the kernel's  *)
(* table of UUIDs.                                                         *)
UUIDTaken(d) == \E m \in Mounts \ {Host} : m[1] # d /\ m[2] = gen /\ ~m[3]

CanMount(d, ro) ==
    /\ There(d) /\ disk # "blank"
    /\ stage = <<>> \/ Top(stage)[1] # d
    /\ \A m \in MountedFrom(d) : m[3] = ro
    /\ ro \/ ~UUIDTaken(d)

-----------------------------------------------------------------------------
(* ensureNVMeStaged, step by step.                                         *)

Go(c, pc) == calls' = [calls EXCEPT ![c].pc = pc]

(* Call c returns; the kubelet learns of it if it still waits for it.      *)
Return(c, ok) ==
    /\ calls' = [calls EXCEPT ![c] = Free]
    /\ kub' = IF kub.call = c
              THEN [staged |-> kub.staged \/ (ok /\ calls[c].op = "stage"), call |-> 0]
              ELSE kub
    /\ pods' = IF kub.call = c /\ ok /\ calls[c].op = "publish"
                  /\ pods[calls[c].pod] = "wanted"
               THEN [pods EXCEPT ![calls[c].pod] = "running"] ELSE pods

others == <<mode, engine, ctx, comings, faults>>

(* The device that call c has, at the staging path.                        *)
CanStage(c) == CanMount(calls[c].dev, calls[c].ro)
MountStage(c) == stage' = Append(stage, <<calls[c].dev, gen, calls[c].ro>>)

(* A stage call is done when the volume is mounted; a publish call binds.  *)
Staged(c) ==
    IF calls[c].op = "stage" THEN Return(c, TRUE)
    ELSE Go(c, "bind") /\ UNCHANGED kubelet

FindExistingNVMEDevice(c) ==
    /\ calls[c].pc = "find"
    /\ calls' = [calls EXCEPT ![c].pc = IF Live THEN "tryMount" ELSE "connect",
                              ![c].dev = IF Live THEN dev ELSE 0]
    /\ UNCHANGED <<kubelet, kernel, others>>

(* Faulty variant of TryMount: an error is returned.                       *)
TryMountOnly(c) ==
    /\ calls[c].pc = "tryMount" /\ Answers(calls[c].dev)
    /\ IF CanStage(c)
       THEN MountStage(c) /\ Staged(c)
       ELSE Return(c, FALSE) /\ UNCHANGED stage
    /\ UNCHANGED <<ctrls, dev, bound, disk, gen, others>>

(* Faulty variant of TryMount: the path is removed and the mount repeated, *)
(* on the connection that is there.                                        *)
TryMountAgain(c) ==
    /\ calls[c].pc = "tryMount" /\ Answers(calls[c].dev)
    /\ IF CanStage(c)
       THEN MountStage(c) /\ Staged(c)
       ELSE Go(c, "remove") /\ UNCHANGED <<stage, kubelet>>
    /\ UNCHANGED <<ctrls, dev, bound, disk, gen, others>>

TryMount(c) ==
    /\ calls[c].pc = "tryMount" /\ Answers(calls[c].dev)
    /\ IF CanStage(c)
       THEN MountStage(c) /\ Staged(c)
       ELSE Go(c, "clear") /\ UNCHANGED <<stage, kubelet>>
    /\ UNCHANGED <<ctrls, dev, bound, disk, gen, others>>

ClearNVMeSubsystem(c) ==
    /\ calls[c].pc = "clear"
    /\ Controllers({})
    /\ calls' = [calls EXCEPT ![c].pc = "connect", ![c].dev = 0]
    /\ UNCHANGED <<stage, bound, disk, gen, kubelet, others>>

(* There is a controller for that address: it is cleared, at most twice.   *)
ConnectInProgress(c) ==
    /\ calls[c].pc = "connect" /\ calls[c].addr \in ctrls
    /\ IF calls[c].tries < 2
       THEN /\ Controllers({})
            /\ calls' = [calls EXCEPT ![c].tries = @ + 1]
            /\ UNCHANGED kubelet
       ELSE Return(c, FALSE) /\ UNCHANGED <<ctrls, dev>>
    /\ UNCHANGED <<stage, bound, disk, gen, others>>

Connect(c) ==
    /\ calls[c].pc = "connect" /\ calls[c].addr \notin ctrls
    /\ IF up /\ calls[c].addr = eng
       THEN /\ ctrls' = ctrls \cup {eng}
            /\ dev' = IF ctrls = {} THEN NewDevice ELSE dev
            /\ Go(c, "poll") /\ UNCHANGED kubelet
       ELSE Return(c, FALSE) /\ UNCHANGED <<ctrls, dev>>
    /\ UNCHANGED <<stage, bound, disk, gen, others>>

(* Faulty variant of WaitForDevice: goes on without a device.              *)
WaitInVain(c) ==
    /\ calls[c].pc = "poll"
    /\ calls' = [calls EXCEPT ![c].pc = "unmount", ![c].dev = IF Live THEN dev ELSE 0]
    /\ UNCHANGED <<kubelet, kernel, others>>

WaitForDevice(c) ==
    /\ calls[c].pc = "poll"
    /\ IF Live
       THEN /\ calls' = [calls EXCEPT ![c].pc = "unmount", ![c].dev = dev]
            /\ UNCHANGED kubelet
       ELSE Return(c, FALSE)
    /\ UNCHANGED <<kernel, others>>

UnmountTarget(c) ==
    /\ calls[c].pc = "unmount"
    /\ stage' = Pop(stage)
    /\ Go(c, "remove")
    /\ UNCHANGED <<ctrls, dev, bound, disk, gen, kubelet, others>>

(* The RemoveAll of the staging path, and of what is mounted there still,  *)
(* or again.                                                               *)
RemoveTarget(c) ==
    /\ calls[c].pc = "remove" /\ (stage # <<>> => Answers(Top(stage)[1]))
    /\ disk' = IF stage # <<>> /\ There(Top(stage)[1]) /\ ~Top(stage)[3]
               THEN "lost" ELSE disk
    /\ Go(c, "mount")
    /\ UNCHANGED <<ctrls, dev, stage, bound, gen, kubelet, others>>

(* EnsureMounted; with read-only access it is the mount alone.             *)
Mount(c) ==
    /\ calls[c].pc = "mount" /\ Answers(calls[c].dev)
    /\ IF CanStage(c)
       THEN MountStage(c) /\ Staged(c)
       ELSE /\ IF calls[c].ro THEN Return(c, FALSE)
               ELSE Go(c, "mkfs") /\ UNCHANGED kubelet
            /\ UNCHANGED stage
    /\ UNCHANGED <<ctrls, dev, bound, disk, gen, others>>

(* mkfs.xfs refuses a device that is mounted.                              *)
Format(c) ==
    /\ calls[c].pc = "mkfs" /\ Answers(calls[c].dev)
    /\ IF There(calls[c].dev) /\ MountedFrom(calls[c].dev) = {}
       THEN /\ disk' = IF disk \in {"data", "lost"} THEN "lost" ELSE "empty"
            /\ gen' = NewUUID
            /\ Go(c, "remount") /\ UNCHANGED kubelet
       ELSE Return(c, FALSE) /\ UNCHANGED <<disk, gen>>
    /\ UNCHANGED <<ctrls, dev, stage, bound, others>>

MountAfterFormat(c) ==
    /\ calls[c].pc = "remount" /\ Answers(calls[c].dev)
    /\ IF CanStage(c)
       THEN MountStage(c) /\ Staged(c)
       ELSE Return(c, FALSE) /\ UNCHANGED stage
    /\ UNCHANGED <<ctrls, dev, bound, disk, gen, others>>

(* The bind mount of NodePublishVolume shows what is at the staging path.  *)
BindMount(c) ==
    /\ calls[c].pc = "bind"
    /\ bound' = [bound EXCEPT ![calls[c].pod] =
                    Append(@, IF stage = <<>> THEN Host ELSE Top(stage))]
    /\ Return(c, TRUE)
    /\ UNCHANGED <<ctrls, dev, stage, disk, gen, others>>

(* stageNFS: one mount, refused where it is there already.                 *)
StageNFS(c) ==
    /\ calls[c].pc = "nfs"
    /\ IF /\ up /\ calls[c].addr = eng
          /\ stage = <<>> \/ Top(stage) # <<0, eng, FALSE>>
       THEN stage' = Append(stage, <<0, eng, FALSE>>) /\ Return(c, TRUE)
       ELSE Return(c, FALSE) /\ UNCHANGED stage
    /\ UNCHANGED <<ctrls, dev, bound, disk, gen, others>>

DriverStep(c) ==
    \/ FindExistingNVMEDevice(c) \/ TryMount(c) \/ ClearNVMeSubsystem(c)
    \/ ConnectInProgress(c) \/ Connect(c) \/ WaitForDevice(c)
    \/ UnmountTarget(c) \/ RemoveTarget(c) \/ Mount(c) \/ Format(c)
    \/ MountAfterFormat(c) \/ BindMount(c) \/ StageNFS(c)

Fault == faults > 0 /\ faults' = faults - 1

(* A call of the kernel, or mkfs before it has written, fails for a reason *)
(* of its own (EIO, ENOMEM, EUCLEAN, ...).  The driver takes every failure *)
(* of a Mount alike, and ignores that of a clear and of an Unmount.        *)
KernelCallFails(c) ==
    /\ Fault
    /\ \/ /\ calls[c].pc \in {"find", "clear"} /\ UNCHANGED kubelet
          /\ calls' = [calls EXCEPT ![c].pc = "connect", ![c].dev = 0]
       \/ calls[c].pc = "tryMount" /\ Go(c, "clear") /\ UNCHANGED kubelet
       \/ /\ calls[c].pc = "unmount" /\ UNCHANGED kubelet
          /\ calls' = [calls EXCEPT ![c].pc = "remove", ![c].failed = TRUE]
       \/ /\ calls[c].pc = "mount" /\ ~calls[c].ro /\ UNCHANGED kubelet
          /\ calls' = [calls EXCEPT ![c].pc = "mkfs", ![c].failed = TRUE]
       \/ /\ \/ calls[c].pc \in {"find", "connect", "mkfs", "remount", "bind", "nfs"}
             \/ calls[c].pc = "mount" /\ calls[c].ro
          /\ Return(c, FALSE)
    /\ UNCHANGED <<mode, engine, ctx, kernel, comings>>

-----------------------------------------------------------------------------
(* The kubelet and the attacher.                                           *)

Users == {p \in Pods : pods[p] # "absent"}
Idle == kub.call = 0

(* ControllerPublishVolume: the endpoint of an engine that says Running.   *)
ControllerPublishVolume ==
    /\ ctx = 0 /\ Users # {}
    /\ ctx' = eng
    /\ UNCHANGED <<mode, engine, kubelet, calls, kernel, comings, faults>>

ControllerUnpublishVolume ==
    /\ ctx # 0 /\ Users = {} /\ ~kub.staged /\ Idle
    /\ ctx' = 0
    /\ UNCHANGED <<mode, engine, kubelet, calls, kernel, comings, faults>>

(* The calls at work are no longer alone.                                  *)
Joined == [b \in Calls |-> [calls[b] EXCEPT !.alone = FALSE]]

Start(c, op, p, ro, pc) ==
    /\ Idle /\ calls[c].pc = "free" /\ \A b \in Calls : calls[b].pc = "free" => c <= b
    /\ calls' = [Joined EXCEPT ![c] =
          [Free EXCEPT !.pc = pc, !.op = op, !.pod = p, !.ro = ro, !.addr = ctx,
                       !.alone = \A b \in Calls : calls[b].pc = "free"]]
    /\ kub' = [kub EXCEPT !.call = c]
    /\ UNCHANGED <<pods, kernel, others>>

NodeStageVolume(c) ==
    /\ ctx # 0 /\ ~kub.staged /\ \E p \in Pods : pods[p] = "wanted"
    /\ Start(c, "stage", Host, mode = "ro", IF mode = "nfs" THEN "nfs" ELSE "find")

ReadOnly(p) == mode = "ro" \/ p \in Readers

(* Faulty variant of NodePublishVolume: the staging path is taken as it is. *)
PublishOnly(c, p) ==
    /\ kub.staged /\ pods[p] = "wanted"
    /\ Start(c, "publish", p, ReadOnly(p), "bind")

(* NodePublishVolume makes sure once more that an NVMe volume is staged.   *)
(* Also where a call given up on has published it.                         *)
NodePublishVolume(c, p) ==
    /\ kub.staged /\ pods[p] = "wanted"
    /\ Start(c, "publish", p, ReadOnly(p), IF mode = "nfs" THEN "bind" ELSE "find")

(* While something is mounted at the target, the kubelet may clean it up   *)
(* again, or forget about it.                                              *)
NodeUnpublishVolume(p) ==
    /\ Idle /\ pods[p] = "leaving"
    /\ bound' = [bound EXCEPT ![p] = Pop(@)]
    /\ \/ pods' = [pods EXCEPT ![p] = "absent"]
       \/ bound'[p] # <<>> /\ pods' = pods
    /\ calls' = Joined
    /\ UNCHANGED <<kub, ctrls, dev, stage, disk, gen, others>>

(* The connection is left alone.                                           *)
NodeUnstageVolume ==
    /\ Idle /\ kub.staged /\ Users = {}
    /\ stage' = Pop(stage)
    /\ kub' = [kub EXCEPT !.staged = FALSE]
    /\ calls' = Joined
    /\ UNCHANGED <<pods, ctrls, dev, bound, disk, gen, others>>

(* Both report no error when the Unmount fails.                            *)
CleanupFails ==
    /\ Fault /\ Idle
    /\ \/ \E p \in Pods : /\ pods[p] = "leaving" /\ UNCHANGED kub
                          /\ pods' = [pods EXCEPT ![p] = "absent"]
       \/ /\ kub.staged /\ Users = {} /\ UNCHANGED pods
          /\ kub' = [kub EXCEPT !.staged = FALSE]
    /\ calls' = Joined
    /\ UNCHANGED <<mode, engine, ctx, kernel, comings>>

KubeletStep ==
    \/ ControllerPublishVolume \/ ControllerUnpublishVolume \/ NodeUnstageVolume
    \/ \E c \in Calls : NodeStageVolume(c)
    \/ \E c \in Calls, p \in Pods : NodePublishVolume(c, p)
    \/ \E p \in Pods : NodeUnpublishVolume(p)

-----------------------------------------------------------------------------
PodComes(p) ==
    /\ p \in comings /\ comings' = comings \ {p}
    /\ pods' = [pods EXCEPT ![p] = "wanted"]
    /\ UNCHANGED <<mode, engine, ctx, kub, calls, kernel, faults>>

PodLeaves(p) ==
    /\ pods[p] \in {"wanted", "running"}
    /\ pods' = [pods EXCEPT ![p] = "leaving"]
    /\ UNCHANGED <<kub, calls, kernel, others>>

PodWrites(p) ==
    /\ pods[p] = "running" /\ disk = "empty"
    /\ bound[p] # <<>> /\ Live /\ Top(bound[p]) = <<dev, gen, FALSE>>
    /\ disk' = "data"
    /\ UNCHANGED <<kubelet, calls, ctrls, dev, stage, bound, gen, others>>

EngineStops ==
    /\ Fault /\ up
    /\ up' = FALSE
    /\ UNCHANGED <<mode, eng, ctx, kubelet, calls, kernel, comings>>

(* At the same address, or, rescheduled, at another.                       *)
EngineReturns ==
    /\ ~up
    /\ up' = TRUE
    /\ eng' \in {eng, eng + 1} /\ eng' \in Addrs
    /\ UNCHANGED <<mode, ctx, kubelet, calls, kernel, comings, faults>>

(* The kernel gives up on the controllers that do not answer.              *)
ControllerLossTimeout ==
    /\ \E x \in ctrls : ~up \/ x # eng
    /\ Controllers({x \in ctrls : up /\ x = eng})
    /\ UNCHANGED <<stage, bound, disk, gen, kubelet, calls, others>>

CallTimesOut ==
    /\ Fault /\ ~Idle
    /\ kub' = [kub EXCEPT !.call = 0]
    /\ UNCHANGED <<mode, engine, ctx, pods, calls, kernel, comings>>

DriverCrashes ==
    /\ Fault /\ \E c \in Calls : calls[c].pc # "free"
    /\ calls' = [c \in Calls |-> Free]
    /\ kub' = [kub EXCEPT !.call = 0]
    /\ UNCHANGED <<mode, engine, ctx, pods, kernel, comings>>

NodeReboots ==
    /\ Fault /\ Controllers({}) /\ stage' = <<>> /\ bound' = [p \in Pods |-> <<>>]
    /\ calls' = [c \in Calls |-> Free]
    /\ kub' = [staged |-> FALSE, call |-> 0]
    /\ pods' = [p \in Pods |-> IF pods[p] = "running" THEN "wanted" ELSE pods[p]]
    /\ UNCHANGED <<mode, engine, ctx, disk, gen, comings>>

Environment ==
    \/ \E p \in Pods : PodComes(p) \/ PodLeaves(p) \/ PodWrites(p)
    \/ EngineStops \/ EngineReturns \/ ControllerLossTimeout
    \/ CallTimesOut \/ DriverCrashes \/ NodeReboots \/ CleanupFails
    \/ \E c \in Calls : KernelCallFails(c)

Next == KubeletStep \/ (\E c \in Calls : DriverStep(c)) \/ Environment

Spec == Init /\ [][Next]_vars

(* The kubelet retries for as long as it wants a pod; calls go on; the     *)
(* engine is started again.                                                *)
Fairness ==
    /\ WF_vars(KubeletStep) /\ WF_vars(EngineReturns)
    /\ \A c \in Calls : WF_vars(DriverStep(c))

FairSpec == Spec /\ Fairness

-----------------------------------------------------------------------------
(* A call goes on to mount only with a device that it has found.           *)
TypeOK ==
    /\ mode \in {"rw", "ro", "nfs"} /\ eng \in Addrs /\ up \in BOOLEAN /\ ctx \in Addrs \cup {0}
    /\ pods \in [Pods -> {"absent", "wanted", "running", "leaving"}]
    /\ kub \in [staged : BOOLEAN, call : Calls \cup {0}]
    /\ calls \in [Calls -> [pc : {"free", "find", "tryMount", "clear", "connect", "poll",
                                  "unmount", "remove", "mount", "mkfs", "remount",
                                  "bind", "nfs"},
                            op : {"stage", "publish"}, pod : Pods \cup {Host},
                            ro : BOOLEAN, addr : Addrs \cup {0}, dev : Nat,
                            tries : 0 .. 2, alone : BOOLEAN, failed : BOOLEAN]]
    /\ \A c \in Calls :
          calls[c].pc \in {"tryMount", "unmount", "remove", "mount", "mkfs", "remount"} =>
              calls[c].dev # 0
    /\ ctrls \in SUBSET Addrs /\ dev \in Nat
    /\ stage \in Seq(Nat \X Nat \X BOOLEAN)
    /\ bound \in [Pods -> Seq((Nat \X Nat \X BOOLEAN) \cup {Host})]
    /\ disk \in {"blank", "empty", "data", "lost"} /\ gen \in Nat
    /\ comings \in SUBSET Pods /\ faults \in Nat

(* Staging costs a volume its data only if an Unmount or a Mount of the    *)
(* call fails by itself, if another call has been at work meanwhile, or if *)
(* a read-write mount of the volume from an earlier device is still there, *)
(* of a pod or beneath the staging path, when mkfs follows the Mount.      *)
LossNeedsACause ==
    [][disk = "data" /\ disk' = "lost" =>
          \E c \in Calls :
             /\ calls'[c] # calls[c]
             /\ \/ calls[c].failed \/ ~calls[c].alone
                \/ calls[c].pc = "mkfs" /\ UUIDTaken(dev)]_vars

(* A pod is started on the volume as it is now, with the access it has     *)
(* asked for, and not on an earlier mount or on the node's own disk,       *)
(* whatever earlier calls have left behind and whatever fails, unless      *)
(* another call has been at work meanwhile.                                *)
PublishShowsTheVolume ==
    [][\A p \in Pods :
          pods[p] = "wanted" /\ pods'[p] = "running" =>
             \/ ~calls[kub.call].alone
             \/ /\ Top(bound'[p]) # Host
                /\ dev # 0 => Top(bound'[p]) = <<dev, gen, calls[kub.call].ro>>]_vars

(* While the engine answers where the kubelet was told, a pod that waits   *)
(* for an NVMe volume gets it.                                             *)
PodStarts ==
    \A p \in Pods : []<>(pods[p] # "wanted" \/ ~up \/ ctx # eng \/ mode = "nfs")

(* "Connects to the NVMe-oF subsystem, waits for the device node, and      *)
(* mounts it": staging a volume leaves what is on it alone.  The code      *)
(* formats a volume that it cannot mount, also when it cannot because      *)
(* another pod of the node has it mounted from an earlier connection.      *)
StagingKeepsData == disk # "lost"
=============================================================================
