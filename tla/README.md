# Verification of KDFS: control plane, data path and node service

KDFS keeps replicated block volumes on Kubernetes: an SPDK engine per volume
mirrors the writes to replicas on other nodes over NVMe-oF, and a set of
controllers, sidecars, a node agent, a CSI driver and a dashboard keep the
Kubernetes objects and the data path together. This directory holds TLA+ models
of that code, the TLC runs that check them, and TLAPS proofs.

Paths below are relative to the repository (`src/` in `PROJECT.json`).

## 1. Inventory

| Component | Code | State it keeps | Operations |
|---|---|---|---|
| Volume controller | `internal/controller/volume_*.go` | Volume status (phase, EngineRef, ReplicaHealth), the engine's replica list | create children, adopt, mark Ready, repair types, scale, heal |
| Replica controller | `internal/controller/replica_controller.go` | Replica status, the replica's pod | provision through the agent, create pod, publish endpoint |
| Engine controller | `internal/controller/engine_controller.go` | Engine status, its pod, LastReplicasHash | fill in endpoints, run the pod, reconfigure the sidecar |
| Snapshot controller | `internal/controller/snapshot_controller.go` | Snapshot status and finalizer | start, ask the sidecar, conclude, delete |
| Engine sidecar | `internal/sidecar/engine.go`, `reconfigure.go` | the RAID-1 array, the list it was built from | configure, reconfigure |
| Sidecar snapshot service | `internal/sidecar/snapshot*.go`, `internal/reflink` | the snapshot file | stat, clone or copy |
| Replica sidecar | `internal/sidecar/replica.go` | an exported bdev | start, status |
| Node agent | `internal/agent`, `internal/xfs` | backing files, loop devices | create/delete replica, delete snapshot |
| Dashboard | `internal/dashboard` | none | create, scale, delete, delete replica, snapshot, restore |
| CSI driver | `internal/csi` | mounts and NVMe connections on the node | volumes, snapshots, publish, stage |
| NFS | `internal/sidecar/nfs.go`, `internal/third_party/go-nfs` | vendored server | |
| Helpers | `names`, `network`, `status`, `logging`, `cmd` | none | |

**Interaction.** The controllers, the dashboard and CSI share only Kubernetes
objects. Each reads a copy and writes it back some calls later; an `Update` or
`Status().Update` of an outdated copy is a conflict, a merge patch and a `Delete`
never are. The controllers reach the sidecars (`/status`, `/reconfigure`,
`/snapshot`) and the node agent by HTTP, with a time limit on their side only. The
sidecar drives SPDK over a socket and is restarted independently of it. The CSI
driver shares nothing with the controllers but the engine's published endpoint;
its state is the node's mounts and NVMe controllers.

**What is hard here.** Handlers of many writes that other writers come between;
copies that are stale when used; objects and pods deleted and created again under
one name; crashes and failed calls between two writes; a time-out on one side of a
request while the other side goes on (the sidecar with two reconfigures or two
snapshots, the CSI driver with a call that the kubelet repeats); names by position
that shift; and that all of it must come to rest.
`PROJECT.json` lists these one by one under `hazards`, at the line where each
bites and with the property that covers it.

**What makes it correct.** The engine's list names no replica twice and, where
there are nodes enough, its replicas are on different nodes; it is edited as it is,
so that what was detached stays detached until attached again and what was filled in
stays; Ready means that there is an engine; pods belong to the object
they were made for; volumes settle and losses are repaired; a snapshot's verdict
is final, its file complete, and it can be deleted in every phase; the engine's
array behaves like a mirror, with one leg for a replica and legs that agree while
it is served, whatever restarts or is reconfigured meanwhile; staging a volume on a node shows the pod
the volume as it is and costs it nothing.

## 2. Modules

| Module | Models | State | Actions |
|---|---|---|---|
| `Cluster` | API objects of one volume, versions, garbage collector, kubelet; placement helpers | `vol`, `eng`, `reps`, `pods`, `doomed`, `cooling`, `fresh`, budgets | `PodStarts`, `PodFails`, `CollectPod`, `CooldownEnds`; `Hold`/`Wrote`/`Release` |
| `VolumeController` | `VolumeReconciler.Reconcile` and its helpers | `vrun` | one per API write of the reconcile |
| `ReplicaController` | `ReplicaReconciler.Reconcile` | `rrun` | `Provision`, `CreatePod`, `RemoteRunning`, ... |
| `Dashboard` | requests that change a volume's objects | `drun` | `HandleScale`, `DeleteReplicaRequest`, `RestoreRequest`, ... |
| `ControlPlane` | composes the four; the engine controller as the others see it | - | `EngineFillsIn`, `EngineRuns`, `EngineDegrades`, `EngineReports` |
| `Roster` | abstract: what the engine's list promises, whoever edits it; `ControlPlane` implements it | `posted`, `roster` | `Post`, `Extend`, `Strike`, `Cut`, `FillIn`, `Withdraw` |
| `Mirror` | abstract: what a mirrored volume promises | `legs`, `behind` | `Build`, `ClientWrites`, `Join`, `Leave`, `Overwritten`, `Stop` |
| `EngineArray` | `EngineReconciler.Reconcile`, the engine pod, the sidecar's `ConfigureEngine` and `Reconfigure`, SPDK; implements `Mirror` | `list`, `podRef`, `phase`, `hash`, `erun`; `pod`, `side`, `posts`; `aio`, `ctrl`, `raid`, `ns`; `reps`, `behind` | one per call to SPDK or write to the API; crashes of the sidecar, SPDK, the pod, the controller, replicas |
| `NodeStaging` | the CSI node service, publication by the controller service, kubelet, kernel | `calls`, `kub`, `pods`, `ctx`; `ctrls`, `dev`, `stage`, `bound`, `disk`, `gen` | one per system call of `ensureNVMeStaged` and its callers; system calls that fail by themselves, time-outs, driver crashes, reboots, a moving engine |
| `Claims`, `ArrayClaims` | statements of comments and messages that the code does not keep | - | - |
| `Snapshots` | Snapshot object, snapshot controller, sidecar service, reflink, deletion by the agent, volume made from a snapshot, deletion of the volume | `snap`, `srun`, `posts`, `file`, `engine`, `clone`; history `cut` | one per write, request and system call |
| `AttachmentLists_proofs`, `ControlPlane_proofs`, `Roster_proofs`, `Snapshots_proofs`, `EngineArray_proofs`, `NodeStaging_proofs` | proofs | - | - |
| `MCControlPlane`, `MCSnapshots`, `MCEngineArray`, `MCNodeStaging` | TLC instances | - | - |

**Optimistic concurrency.** Instead of version numbers, `fresh[c]` is the set of
objects of which client `c` (a reconcile or a request in progress) holds a copy
that nobody has written since. A write needs its key in there and removes it from
everybody else's. Deleting and creating an object again is a different object: the
`UidKey` of a replica stands for its UID.

**Copies.** `vrun` holds what `Reconcile` read: the engine's list as of then, the
target count, the restart counts, the position it works on. The reads of the other
objects happen when the reconcile begins or decides (`BeginReconcile`, `Decide`);
writes are steps of their own. A `Get` directly followed by the `Update` of the
same object is one step: a conflict between the two has no effect but a retry.

**The data path.** `EngineArray` takes the engine controller apart that
`ControlPlane` keeps coarse. A replica is up or not, at an address that changes with
its pod; `pub` is the address its status says. `raid` is the set of array members by
slot, `BdevName` and `CtrlName` keep the two names apart that the code mixes. SPDK is
external, known by the calls of `spdk/client.go`: detaching a controller takes its
bdev out of the array, adding one rebuilds it, a member that a write fails on leaves.
`behind` is the set of copies that lack an acknowledged write or were formatted. What
is simplified: the hash is the list it is computed from, none or one; five attach attempts are
one step; `GetRAIDInfo` and the removal loop of `Reconfigure` are one step, since
the removal loop never finds anything to remove (`nvme<i>` is not a listed name), so
that nothing can come between; the entries of `KDFS_REPLICAS` always have an address
because the pod is only made when all are filled in. The list may be empty: a
dashboard can detach the last replica, and the engine controller then goes on with
nothing to wait for.

**The node.** `NodeStaging` keeps stacks of mounts, each a device and the UUID it
was mounted with. The kernel, mkfs and the kubelet are external: a superblock is
mounted once per mount point (EBUSY), a read-write XFS whose UUID is mounted from
another device is refused, `mkfs.xfs` refuses a mounted device, requests to a device
without a live controller wait, names of devices and UUIDs are reused only when
unused. The kubelet has one call at a time for a volume and gives up on slow ones
while the driver goes on; a publish whose answer was lost is sent again. Every system
call of the driver may also fail by itself (`KernelCallFails`, `CleanupFails`), as
often as the bound on failures says: `EnsureMounted` formats after any failed mount, and the errors
of an unmount are ignored. A pod may ask for the volume readOnly where the attachment
is writable (`Readers`). Two parts of a call are history and only read by properties:
`alone`, no other call has been at work in the driver since it came in, and `failed`, a
mount or an unmount of its own has failed without a reason that the model knows. Left
out: the validation of endpoints and NQNs.

**Abstractions of the control plane and snapshots.** One volume. An attachment is its replica's index, its node and
whether its endpoint is filled in (`known`); addresses and NQNs are set or not.
Backoff times are a set of replicas that are `cooling`. Nodes are `1..NumWorkers`,
and `NumWorkers + 1` is a node that is not a worker. The engine's node is the
volume's, which never changes once it is set. `pickUnusedNode` may find no node
(`ScaleUpNowhere`), and the replica is then one that no agent provisions. The engine
controller is coarse: it becomes Running when all replicas are reachable and the list
is the one it last ran with (`last`; `hashed` says that there is one), and Degraded
when the list is another and has a remote replica, since `EngineArray` shows that such
a reconfigure fails every time; it may also report a failure. `moved` says that a replica has
published another address than the one that was filled in. Requests of the dashboard
are served one at a time, though its handlers are concurrent: each interleaves with
the controllers, not with another request; two detaches from one copy of the engine
would be the conflict that `DetachConflicts` models. `Snapshots` has one snapshot
name (object and file), created and deleted any number of times, of one volume that
may be deleted and is not created again, so that the node which `startCreate` notes is
the engine's; contents are
complete or not, so an older complete file counts as complete. A reconcile is `parked`
when nothing brings it back but a write of the object or a restart. `cut` is a history
variable, which no action looks at: it becomes true when the controller gives up on a
request that the sidecar is at work on, and when the sidecar fails or stops while it
is making the file. `FICLONE` may
succeed or be refused at every call. Mutants used to validate the properties stand
next to the definition they vary, as "Faulty variant of ...".

## 3. Runs

Bounds are small because each finding and each mutant needs at most one lost
call, one user request and two or three replicas. Workers are as many as the
properties need: three where a node is chosen among several, one in `control_safety`,
none of whose properties speaks of nodes and each of which is proved for every number
of them. `MaxAttempts` is 5 in the code and 1 or 2 here: it is
only compared with a counter that the same handler increments.

| Run | Instance | Checks | Result |
|---|---|---|---|
| `control_safety` | 1 worker; 2 Local or 1 Remote replica with one request of any kind and one failure, 2 Remote ones with one failure | `TypeOK`, `DistinctAttachments`, `ReadyHasEngineRef`, `PodsAreOwned`, `NoLostDetach`, `IsRoster` | holds (1.2 M states) |
| `control_settle` | 2 workers, up to 2 replicas, one scaling, deletion of a replica or failure, with and without a Local replica | `VolumeSettles`, `CountRecovers` | holds (379 k states) |
| `snapshot_life` | 2 requests in the sidecar, 5 requests of users, 3 failures | `TypeOK`, `FinalizerGuardsFile`, `ReadyIsCompleteUnlessCut`, `VerdictIsFinal`, `DeletionCompletes`, `RequestDecided` | holds (30 k states) |
| `engine_array` | 3 replicas (one local), 1 or 2 listed at first, 2 handlers, one edit of the list, 2 failures | `TypeOK`, `AnswersWhileServing`, `ArrayNameIsFree`, `OneLegPerReplica`, `IsMirror`, `StaysInSync`, `EngineRecovers` | holds (360 k states) |
| `node_staging` | 3 pods, one of them readOnly, 2 calls; all three pods without failures, two or one with one; all access modes | `TypeOK`, `LossNeedsACause`, `PublishShowsTheVolume`, `PodStarts` | holds (663 k states) |
| `scale_nodes` | 3 workers, one scaling, one failure | `ReplicasOnUnusedNodes` | violated |
| `heal_local` | one Local replica | `HealsOnlyUnhealthy` | violated |
| `snapshot_torn` | one failure | `ReadyIsComplete` | violated |
| `snapshot_restore` | no failure | `RestoreHoldsSnapshot` | violated |
| `engine_in_sync` | 2 failures | `LegsHoldTheData` | violated |
| `engine_keeps_legs` | one edit of the list | `ReconfigureKeepsLegs` | violated |
| `node_keeps_data` | 2 pods, no failure | `StagingKeepsData` | violated |

`VolumeSettles` is stated for an engine on a node without replicas: with a Local
replica a volume does not settle, because healing recreates that replica again and
again (`heal_local`). It is stated without failures and deletions: a replica that is
recreated may take the doomed pod of its predecessor for its own, again and again, as
long as the garbage collector comes after it each time. Its last disjunct is what the
hash does: a volume that is scaled after its engine has run stays Degraded, because no
reconfigure with a remote replica succeeds. `CountRecovers` excuses the states in which
fewer than N-1 replicas are healthy, because there `healReplicas` refuses to act by
design (`volume_heal.go:33`). `engine_array` needs two handlers for a reconfigure that is
given up on beside its successor, and two failures for a crash on top of it; it
starts with one replica or two, so that one edit empties the list, or shifts the
positions in it. In
`node_staging` a pod comes once, with a target path of its own; three let one come
after another has left, and two calls are one that was given up on and one that the
kubelet waits for. The runs of
`Snapshots`, `EngineArray` and `NodeStaging` do not check for deadlock: with nothing
left to ask and all bounds used up, those systems are at rest.

`StaysInSync` leaves out the step that formats a file in use
(`ReprovisionReplica`, `replica_controller.go:62`): it speaks of the array, and the
formatting is a hazard of its own. `EngineRecovers` excuses a list that differs from
the one last recorded: every reconfigure that has a remote replica to attach fails
(`engine_keeps_legs`), and the engine stays Degraded. `AnswersWhileServing` excuses
an SPDK that was restarted under its sidecar, which no line of the code looks at.
`PodStarts` is stated for NVMe volumes and a publish context with the engine's
present address: nothing renews the address, and an NFS stage whose answer was lost
is not repeatable. `LossNeedsACause` bounds what `node_keeps_data` shows: staging
costs a volume its data only after a mount or an unmount of the call has failed by
itself, beside another call, or where a read-write mount of an earlier device is left
when mkfs follows. It does not say that each of these does cost the data.
`PublishShowsTheVolume` excepts a call beside which another was at work: what a call
that was given up on does in between is not the publish's own.
`ReadyIsCompleteUnlessCut` does the same for `snapshot_torn`: a failed read of the
engine, an answer that cannot be decoded, a failed deletion, a sidecar that fails
before it has created the file or stops then, and an answer that is lost after the
work was done are all harmless. `RequestDecided` starts when the snapshot is created
and names the two ways in which the code leaves one undecided: the dropped write of
`startCreate`, and a volume that is deleted while the snapshot is Creating, which has
no owner reference and is polled for ever.

`IsRoster` is a refinement: the engine's list, under the mapping
`posted <- eng.here, roster <- eng.atts`, behaves like `Roster`. It implies that no
write from an old copy undoes another's, in either direction: it covers removals
(`NoLostDetach`), additions and what the engine controller has filled in.

**Fairness.** Weak fairness of each controller's steps: a reconcile that fails or
asks for it is queued again, and every object is at the informers' resync. Strong
fairness of `Provision(i)`: the queue is first in first out, so no replica is
passed over for ever. Pods start, garbage is collected, backoffs pass (`kubelet`,
the garbage collector, time). In `Snapshots`: queued reconciles run, the sidecar
finishes a request it has begun (local file operations), and the engine comes back
(the engine controller) as long as the volume is there. In `EngineArray`: the engine is reconciled (it asks to be
queued again while not Running), the kubelet starts containers again, SPDK calls
return, replicas are reconciled until published. In `NodeStaging`: the kubelet
retries while it wants a pod, calls in the driver go on, and the engine is started
again; not the clearing of dead controllers by the kernel. Users and failures are
never forced.

**What the violated runs show** (the quoted lines are in `findings`):

- `scale_nodes`: used nodes are those that the engine's list names; a replica that a
  broken off scale-up has left is listed for another node than it lives on.
- `heal_local`: a Running Local replica has no pod and no NQN; healing takes that
  for a loss and deletes it.
- `snapshot_torn`: after a lost answer or a crash the file found is taken for the
  snapshot, complete or not.
- `snapshot_restore`: the copy of the snapshot is formatted.
- `engine_in_sync`: the array is put together from the members that can be reached,
  without a rebuild, also when one of them has missed writes.
- `engine_keeps_legs`: members are looked up by the controller's name and listed by
  the bdev's, so that a reconfigure detaches the ones it should keep.
- `node_keeps_data`: publishing to a second pod of the node stages again; each
  failed mount leads to the next, more destructive attempt, and in the end to mkfs.

## 4. Proofs

All for every value of the constants allowed by the named assumptions
(`ClusterAssumption`, `StartAssumption`, `RequestsAssumption`,
`SnapshotsAssumption`, `EngineAssumption`, `NodeAssumption`). `NumWorkers <= MaxReplicas` is there because a volume
without a count asks for as many replicas as there are workers.

`ControlPlane_proofs` proves `TypeCorrect`, `AttachmentsDistinct`,
`ReadyRefersToEngine`, `PodsHaveOwners` and the action property
`DetachIsNotLost`. None of these is inductive, because controllers write what they
hold in memory. The inductive invariant adds

- `RunOK`: positions and counts in `vrun` fit the list it holds, and a restart is
  only counted for a replica that has one left;
- `ListsDistinct`: what is claimed of the engine's list holds of the list in memory
  too;
- `VolumeCopies`, `ReplicaCopies`: a copy that is still fresh agrees with the
  object. This is what turns a statement about the memory of a reconcile into one
  about the object when the write succeeds.

`Roster_proofs` proves `ListIsARoster`, the refinement `Spec => IsRoster`. It needs
one more invariant, `NewOnesBlank`: what a creation or a scale-up has added to its
list says nothing yet on how to reach the replica, and a scale-up adds something.
Then every write of the engine is an edit of the list as it is: `VolumeCopies` turns
`scaleUp` into `Extend`, `scaleDown` into `Cut` and a detach by healing into
`Strike`; creation writes only where there is no engine (`Post`); the dashboard
reads and writes in one step (`Strike`) or deletes (`Withdraw`), and the engine
controller keeps what it knew (`FillIn`).

One lemma per action group shows each part preserved. `AttachmentLists_proofs` has
the facts about lists: removing a position, cutting, appending, and that
`NextIndex` is free (a pigeonhole argument on the used indices).

`Snapshots_proofs` proves `SnapshotTypes`, `FinalizerIsSet`, `VerdictsAreFinal` and
`UncutSnapshotsAreComplete`, for any number of concurrent requests. The invariant `Guarded` relates the phase,
the finalizer, the deletion mark and what the reconcile is in the middle of: one
that waits or is parked has an undecided snapshot, one that removes the finalizer a
deleted one.
`UncutSnapshotsAreComplete` (`ReadyIsCompleteUnlessCut`) needs `CalmInv` on top:
while no request was cut, at most one is in the sidecar and it is the one the
reconcile waits for (`Alone`); the file is incomplete only while that request makes
it (`CalmFile`); so what a request finds, and what it answers for, is complete
(`CalmAnswers`). Each failure that does not cut a request has a lemma of its own.
`snapshot_torn` shows that one that does is enough to break this.

`EngineArray_proofs` proves `TypeCorrect`, `ServesLocalCopy`, `NameIsFree`,
`NoReplicaTwice`, `CopiesStayInSync` and, with `ImplementsMirror`, the refinement `Spec => IsMirror`,
for any replicas, list, handlers and failures. The inductive invariant adds to the
types

- `ControllersOK`: a controller belongs to a remote replica, at an address that the
  replica has or had, so one that was left behind never answers again;
- `ArrayOK`: members have controllers, at slots of the pod's `KDFS_REPLICAS`: since
  the two names differ (`NamesDiffer`), no reconfigure adds a member;
- `SidecarOK`: where the sidecar is in `ConfigureEngine` and what of its
  predecessor's array can still be there. This is what makes the array's name free:
  each attach detaches the old controller of its slot and so takes one member out.

`NoReplicaTwice` (`OneLegPerReplica`) adds `LegsOK`: the engine's list and the
one that its pod was made with name no replica twice, and the controller of a member
is the one that the pod's list has at that position. Positions shift in the list that a
reconfigure is sent, but the members stay those of the list the pod was made with,
and a controller that a reconfigure replaces has lost its member by then.

The refinement is then one lemma: every step does nothing to what is served, removes
from it, assembles it where nothing was served, writes to all of it, or overwrites
one copy (`DataStep`). Each of these is a step of `Mirror` or a stutter.

`NodeStaging_proofs` proves `TypeCorrect`, `LossHasACause` and
`PublishedIsTheVolume`, for any pods, readOnly or not, calls, failures and moves of
the engine. The invariant says what a call at each step may rely on: `StageOK` (the
present device is at the staging path only on top, so what an unmount uncovers is of
an earlier one) and `AloneOK` (while a call has the driver to itself all others are
free, and what it has found stays as it found it: past its unmount nothing of the
present device is staged, and it binds only what it has found or mounted). Then a
call that is alone and whose mounts and unmounts have not failed by themselves
removes nothing of the volume, and reaches mkfs of a volume with data only past a
mount with its UUID from an earlier device. `KernelOK`, `CallsOK`
and `WaitOK` tie devices to controllers and the kubelet to its call.

Only model-checked: the liveness properties (`VolumeSettles`, `CountRecovers`,
`DeletionCompletes`, `RequestDecided`, `EngineRecovers`, `PodStarts`), which are out
of the prover's reach.

## 5. Not modelled

Loop devices (`CreateReplica` attaches one for its mkfs and the agent never detaches
it, `loop_linux.go:86-87`); deletion of a volume other than in `Snapshots` (owner
references remove its engine, replicas and pods; its Snapshots have none and stay);
requests of the dashboard beside one another; which snapshot a replica is made from when a
restore and the volume controller interleave; informer caches, other than as copies
that are stale when used; the NFS server
(third-party), network policies (pure parsing, covered by table tests), start-up,
logging and rendering. The reason is given for each component in `PROJECT.json`.

## 6. Plan

1. Done: `Cluster`, `VolumeController`, `ReplicaController`, `Dashboard`,
   `ControlPlane`, `Snapshots`, `EngineArray` with `Mirror`, `NodeStaging`; proofs as
   in section 4.
2. Done: the refinements `ControlPlane => Roster` and `EngineArray => Mirror`, and
   bounds on the losses (`ReadyIsCompleteUnlessCut`, `LossNeedsACause`).
3. Proofs: what a restart count belongs to (`RestartAttempts` across a replica that
   is recreated), and a volume restored while the controller works on old copies.
4. `NodeAgent`: loop devices at their limit.
5. A composition of `EngineArray` and `NodeStaging`: the writes of a pod across a
   restart of the engine.
