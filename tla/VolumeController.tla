--------------------------- MODULE VolumeController ---------------------------
(***************************************************************************)
(* VolumeReconciler.Reconcile: create the children of a volume, keep the   *)
(* number of attachments equal to the replica count, heal replicas.        *)
(*                                                                         *)
(* One reconcile of a volume runs at a time.  It reads the volume and the  *)
(* engine when it begins and keeps working on those copies (vrun); every   *)
(* API write after that is a step of its own, so that the other            *)
(* controllers, the dashboard and failures come in between.                *)
(***************************************************************************)
EXTENDS Cluster

VARIABLE vrun   \* the reconcile in progress: where it is and what it holds

VolumePCs ==
    {"idle", "create", "adopt", "ready", "drop", "types", "scaleUp",
     "scaleDown", "degrade", "below", "recreate", "detach", "restart",
     "count", "note"}

VRuns == [pc : VolumePCs, atts : Seq(Attachment), want : 0 .. MaxReplicas,
          ready : BOOLEAN, attempts : [Idx -> 0 .. MaxAttempts],
          k : 0 .. MaxReplicas, snap : BOOLEAN]

VIdle == [pc |-> "idle", atts |-> <<>>, want |-> 0, ready |-> FALSE,
          attempts |-> NoAttempts, k |-> 0, snap |-> FALSE]

(* The object key can be written with the copy this reconcile holds.       *)
Fresh(key) == key \in fresh["volume"]

-----------------------------------------------------------------------------
(* Volume without EngineRef: pick a node, create the children, adopt them. *)

(* pickAnyWorkerNode and the Update that records it.  The volume is read   *)
(* and written back at once: a conflict in between only restarts it.       *)
PickNode ==
    /\ vrun.pc = "idle" /\ ~vol.ref /\ vol.node = NoNode
    /\ \E n \in Workers : vol' = [vol EXCEPT !.node = n]
    /\ vrun' = [VIdle EXCEPT !.pc = "create", !.want = ReplicasForVolume(vol),
                             !.snap = vol.snap]
    /\ Hold("volume", {VolKey}, {VolKey})
    /\ UNCHANGED <<eng, reps, pods, doomed, cooling, userOps, faults>>

BeginCreate ==
    /\ vrun.pc = "idle" /\ ~vol.ref /\ vol.node # NoNode
    /\ vrun' = [VIdle EXCEPT !.pc = "create", !.want = ReplicasForVolume(vol),
                             !.snap = vol.snap]
    /\ Hold("volume", {VolKey}, {})
    /\ UNCHANGED <<vol, eng, reps, pods, doomed, cooling, userOps, faults>>

(* The node of the next attachment: the volume's own for a volume that     *)
(* starts from a snapshot, the given one otherwise.                        *)
PlacedOn(node) == IF vrun.snap THEN vol.node ELSE node

NewReplica(node) ==
    [phase |-> "", node |-> node, type |-> TypeFor(node), nqn |-> FALSE,
     snap |-> vrun.snap, moved |-> FALSE]

(* createIfMissing of replica i, and the attachment that goes with it.     *)
Attach(i, node) ==
    /\ CreateIfMissing(i, NewReplica(node))
    /\ vrun' = [vrun EXCEPT !.atts = Append(@, [idx |-> i, node |-> node,
                                               known |-> FALSE])]

ChildNodes == PickWorkerNodes(vrun.want)

(* ensureChildren: one replica.                                            *)
CreateChild ==
    /\ vrun.pc = "create" /\ Len(vrun.atts) < Len(ChildNodes)
    /\ Attach(Len(vrun.atts), PlacedOn(ChildNodes[Len(vrun.atts) + 1]))
    /\ UNCHANGED <<vol, eng, pods, doomed, cooling, fresh, userOps, faults>>

(* Faulty variant of CreateEngine: replaces an engine that there is.       *)
ReplaceEngine ==
    /\ vrun.pc = "create" /\ Len(vrun.atts) = Len(ChildNodes)
    /\ eng' = [NoEngine EXCEPT !.here = TRUE, !.atts = vrun.atts]
    /\ vrun' = [vrun EXCEPT !.pc = "adopt"]
    /\ UNCHANGED <<vol, reps, pods, doomed, cooling, fresh, userOps, faults>>

(* ensureChildren: the engine, after the last replica.                     *)
CreateEngine ==
    /\ vrun.pc = "create" /\ Len(vrun.atts) = Len(ChildNodes)
    /\ eng' = IF eng.here THEN eng
              ELSE [NoEngine EXCEPT !.here = TRUE, !.atts = vrun.atts]
    /\ vrun' = [vrun EXCEPT !.pc = "adopt"]
    /\ UNCHANGED <<vol, reps, pods, doomed, cooling, fresh, userOps, faults>>

(* Faulty variant of SaveStatus: a write that ignores the version.         *)
SaveStatusBlindly(v) ==
    /\ vol' = v
    /\ vrun' = VIdle
    /\ Release("volume", {VolKey})
    /\ UNCHANGED <<eng, reps, pods, doomed, userOps, faults>>

(* A Status().Update of the volume that ends the reconcile.                *)
SaveStatus(v) ==
    /\ Fresh(VolKey)
    /\ vol' = v
    /\ vrun' = VIdle
    /\ Release("volume", {VolKey})
    /\ UNCHANGED <<eng, reps, pods, doomed, userOps, faults>>

AdoptEngine ==
    /\ vrun.pc = "adopt"
    /\ SaveStatus([vol EXCEPT !.ref = TRUE, !.phase = "Creating"])
    /\ UNCHANGED cooling

-----------------------------------------------------------------------------
(* Volume with EngineRef.                                                  *)

(* childrenReady: only the phases of the objects, never the pods.          *)
ChildrenReady ==
    /\ eng.here /\ eng.running
    /\ \A i \in Names(eng.atts) : Running(i)

BeginReconcile ==
    /\ vrun.pc = "idle" /\ vol.ref
    /\ vrun' = [pc |-> CASE ChildrenReady /\ vol.phase # "Ready" -> "ready"
                         [] ~eng.here -> "drop"
                         [] OTHER -> "types",
                atts |-> eng.atts, want |-> ReplicasForVolume(vol),
                ready |-> ChildrenReady, attempts |-> vol.attempts,
                k |-> 0, snap |-> vol.snap]
    /\ Hold("volume", {VolKey, EngKey}, {})
    /\ UNCHANGED <<vol, eng, reps, pods, doomed, cooling, userOps, faults>>

MarkReady ==
    /\ vrun.pc = "ready"
    /\ SaveStatus([vol EXCEPT !.phase = "Ready"])
    /\ UNCHANGED cooling

DropEngineRef ==
    /\ vrun.pc = "drop"
    /\ SaveStatus([vol EXCEPT !.ref = FALSE, !.phase = "Creating"])
    /\ UNCHANGED cooling

(* Attachments whose replica has the wrong type for the attachment's node. *)
Mistyped ==
    {i \in Idx : \E p \in DOMAIN vrun.atts :
        /\ vrun.atts[p].idx = i /\ Present(i)
        /\ reps[i].type # TypeFor(vrun.atts[p].node)}

(* Get and Update of one such replica.                                     *)
FixType ==
    /\ vrun.pc = "types"
    /\ \E i \in Mistyped :
         /\ reps' = [reps EXCEPT ![i].type =
                        IF @ = "Local" THEN "Remote" ELSE "Local"]
         /\ Wrote("volume", {RepKey(i)})
    /\ UNCHANGED <<vrun, vol, eng, pods, doomed, cooling, userOps, faults>>

-----------------------------------------------------------------------------
(* healReplicas: what it finds out before it writes anything.              *)

(* A replica counts as healthy only with a running pod and an NQN, which a *)
(* Local replica never has.                                                *)
Healthy(i) == Running(i) /\ pods[i] = "running" /\ reps[i].nqn

HealthyCount == Cardinality({p \in DOMAIN vrun.atts : Healthy(vrun.atts[p].idx)})

(* "Failed", "Pending": a Running replica that is not healthy.             *)
Unhealthy(i) == Running(i) /\ ~Healthy(i)

Exhausted(attempts) == attempts >= MaxAttempts

(* What the second loop does at attachment position p, "" for nothing.     *)
HealAction(p) ==
    LET i == vrun.atts[p].idx IN
    CASE ~Present(i) -> "detach"
      [] Unhealthy(i) /\ ~PodHasIP(i) -> "recreate"
      [] Unhealthy(i) /\ PodHasIP(i) /\ Exhausted(vrun.attempts[i]) -> "recreate"
      [] Unhealthy(i) /\ PodHasIP(i) /\ ~Exhausted(vrun.attempts[i])
            /\ i \notin cooling -> "restart"
      [] OTHER -> ""

ToHeal == {p \in DOMAIN vrun.atts : HealAction(p) # ""}

(* The replica count is met, or not, once the types are right.             *)
Decide ==
    /\ vrun.pc = "types" /\ Mistyped = {}
    /\ \/ /\ vrun.want > Len(vrun.atts)
          /\ vrun' = [vrun EXCEPT !.pc = "scaleUp", !.k = Len(vrun.atts)]
       \/ /\ vrun.want < Len(vrun.atts)
          /\ vrun' = [vrun EXCEPT !.pc = "scaleDown", !.k = vrun.want]
       \/ /\ vrun.want = Len(vrun.atts) /\ ~vrun.ready
          /\ HealthyCount < vrun.want - 1
          /\ vrun' = [vrun EXCEPT !.pc = "below"]
       \/ /\ vrun.want = Len(vrun.atts) /\ ~vrun.ready
          /\ HealthyCount >= vrun.want - 1
          /\ IF ToHeal = {}
             THEN vrun' = [vrun EXCEPT !.pc = "note"]
             ELSE \E p \in ToHeal :
                    /\ \A q \in ToHeal : p <= q
                    /\ vrun' = [vrun EXCEPT !.pc = HealAction(p), !.k = p]
    /\ UNCHANGED <<vol, eng, reps, pods, doomed, cooling, fresh, userOps, faults>>

(* Nothing to do: the reconcile returns without writing.                   *)
NothingToDo ==
    /\ vrun.pc = "types" /\ Mistyped = {}
    /\ vrun.want = Len(vrun.atts) /\ vrun.ready
    /\ vrun' = VIdle
    /\ Release("volume", {})
    /\ UNCHANGED <<vol, eng, reps, pods, doomed, cooling, userOps, faults>>

-----------------------------------------------------------------------------
(* scaleUp, scaleDown.                                                     *)

(* usedIndices: the indices below desired+10 whose names are attached.     *)
UsedIndices == {i \in Names(vrun.atts) : i < vrun.want + 10}

(* Faulty variant of NextIndex: the number of replicas as the next index.  *)
CountAsIndex(used) == Cardinality(used)

(* The lowest index that is not used.                                      *)
NextIndex(used) == CHOOSE i \in 0 .. Cardinality(used) :
                      /\ i \notin used
                      /\ \A j \in 0 .. Cardinality(used) : j \notin used => i <= j

ScaleUpReplica ==
    /\ vrun.pc = "scaleUp" /\ Len(vrun.atts) < vrun.want
    /\ \E n \in PickUnusedNode(NodesOf(vrun.atts)) :
          Attach(NextIndex(UsedIndices), PlacedOn(n))
    /\ UNCHANGED <<vol, eng, pods, doomed, cooling, fresh, userOps, faults>>

(* pickUnusedNode could not list the nodes, and nobody asks whether it     *)
(* found one: the replica is created for no node.                          *)
ScaleUpNowhere ==
    /\ vrun.pc = "scaleUp" /\ Len(vrun.atts) < vrun.want
    /\ faults > 0
    /\ faults' = faults - 1
    /\ Attach(NextIndex(UsedIndices), PlacedOn(NoNode))
    /\ UNCHANGED <<vol, eng, pods, doomed, cooling, fresh, userOps>>

(* Deletes the replicas from desired to current-1, by index.               *)
ScaleDownReplica ==
    /\ vrun.pc = "scaleDown" /\ vrun.k < Len(vrun.atts)
    /\ DeleteReplica(vrun.k)
    /\ vrun' = [vrun EXCEPT !.k = @ + 1]
    /\ Wrote("volume", Deleted(vrun.k))
    /\ UNCHANGED <<vol, eng, pods, cooling, userOps, faults>>

(* Faulty variant of UpdateEngine: a write that ignores the version.       *)
UpdateEngineBlindly(atts, pc) ==
    /\ eng' = [eng EXCEPT !.atts = atts]
    /\ vrun' = [vrun EXCEPT !.pc = pc]
    /\ Wrote("volume", {EngKey})
    /\ UNCHANGED <<vol, reps, pods, doomed, cooling, userOps, faults>>

(* Update of the engine with a new attachment list.                        *)
UpdateEngine(atts, pc) ==
    /\ Fresh(EngKey)
    /\ eng' = [eng EXCEPT !.atts = atts]
    /\ vrun' = [vrun EXCEPT !.pc = pc]
    /\ Wrote("volume", {EngKey})
    /\ UNCHANGED <<vol, reps, pods, doomed, cooling, userOps, faults>>

ScaleEngine ==
    \/ /\ vrun.pc = "scaleUp" /\ Len(vrun.atts) = vrun.want
       /\ UpdateEngine(vrun.atts, "degrade")
    \/ /\ vrun.pc = "scaleDown" /\ vrun.k = Len(vrun.atts)
       /\ UpdateEngine(SubSeq(vrun.atts, 1, vrun.want), "degrade")

Degrade ==
    /\ vrun.pc = "degrade"
    /\ SaveStatus([vol EXCEPT !.phase = "Degraded"])
    /\ UNCHANGED cooling

-----------------------------------------------------------------------------
(* healReplicas: the writes.                                               *)

Ailing == vrun.atts[vrun.k].idx

(* Faulty variant of NewAttempts: every pass counts as a restart.          *)
CountEveryPass ==
    [i \in Idx |-> IF i \in Names(vrun.atts) THEN vrun.attempts[i] + 1 ELSE 0]

(* newHealth: entries for the attached replicas only, attempts carried on. *)
NewAttempts ==
    [i \in Idx |-> IF i \in Names(vrun.atts) THEN vrun.attempts[i] ELSE 0]

HealDeletesReplica ==
    /\ vrun.pc = "recreate"
    /\ DeleteReplica(Ailing)
    /\ vrun' = [vrun EXCEPT !.pc = "detach"]
    /\ Wrote("volume", Deleted(Ailing))
    /\ UNCHANGED <<vol, eng, pods, cooling, userOps, faults>>

(* Faulty variant of HealDetaches: writes the list it has read.            *)
HealKeepsAttachment ==
    /\ vrun.pc = "detach"
    /\ UpdateEngine(vrun.atts, "note")

HealDetaches ==
    /\ vrun.pc = "detach"
    /\ UpdateEngine(Without(vrun.atts, vrun.k), "note")

HealRestartsPod ==
    /\ vrun.pc = "restart"
    /\ DeletePod(Ailing)
    /\ vrun' = [vrun EXCEPT !.pc = "count"]
    /\ UNCHANGED <<vol, eng, reps, cooling, fresh, userOps, faults>>

(* Status().Update with the new ReplicaHealth, at the end of a heal pass.  *)
HealSaves ==
    \/ /\ vrun.pc = "below"
       /\ SaveStatus([vol EXCEPT !.attempts = NewAttempts, !.phase = "Degraded"])
       /\ cooling' = cooling \cap Names(vrun.atts)
    \/ /\ vrun.pc = "note"
       /\ SaveStatus([vol EXCEPT !.attempts = NewAttempts])
       /\ cooling' = cooling \cap Names(vrun.atts)
    \/ /\ vrun.pc = "count"
       /\ SaveStatus([vol EXCEPT !.attempts = [NewAttempts EXCEPT ![Ailing] = @ + 1]])
       /\ cooling' = (cooling \cap Names(vrun.atts)) \cup {Ailing}

-----------------------------------------------------------------------------
(* A write of an object that somebody else wrote first returns a conflict, *)
(* and the reconcile ends with an error and is queued again.               *)
Conflict ==
    /\ \/ /\ vrun.pc \in {"adopt", "ready", "drop", "degrade", "below", "note", "count"}
          /\ ~Fresh(VolKey)
       \/ /\ vrun.pc = "scaleUp" /\ Len(vrun.atts) = vrun.want /\ ~Fresh(EngKey)
       \/ /\ vrun.pc = "scaleDown" /\ vrun.k = Len(vrun.atts) /\ ~Fresh(EngKey)
       \/ /\ vrun.pc = "detach" /\ ~Fresh(EngKey)
    /\ vrun' = VIdle
    /\ Release("volume", {})
    /\ UNCHANGED <<vol, eng, reps, pods, doomed, cooling, userOps, faults>>

(* The controller-manager restarts, or an API call fails: the reconcile    *)
(* ends wherever it is.                                                    *)
VolumeFails ==
    /\ vrun.pc # "idle"
    /\ faults > 0
    /\ faults' = faults - 1
    /\ vrun' = VIdle
    /\ Release("volume", {})
    /\ UNCHANGED <<vol, eng, reps, pods, doomed, cooling, userOps>>

VolumeStep ==
    \/ PickNode \/ BeginCreate \/ CreateChild \/ CreateEngine \/ AdoptEngine
    \/ BeginReconcile \/ MarkReady \/ DropEngineRef \/ FixType \/ Decide
    \/ NothingToDo \/ ScaleUpReplica \/ ScaleDownReplica \/ ScaleEngine
    \/ Degrade \/ HealDeletesReplica \/ HealDetaches \/ HealRestartsPod
    \/ HealSaves \/ Conflict
=============================================================================
