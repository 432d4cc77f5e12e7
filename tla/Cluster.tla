------------------------------- MODULE Cluster -------------------------------
(***************************************************************************)
(* The Kubernetes objects that the KDFS controllers share, for one volume. *)
(*                                                                         *)
(* The API server is modelled by what the controllers rely on.  A client   *)
(* Gets an object, keeps the copy in memory and later writes it back with  *)
(* Update or Status().Update; the write succeeds only when nobody else has *)
(* written the object since (resourceVersion).  Instead of version numbers *)
(* the variable fresh records, for every client in the middle of a         *)
(* handler, which of its copies are still current.  Create reports         *)
(* AlreadyExists, Delete is unconditional, and the garbage collector       *)
(* removes a pod some time after the object that owns it.                  *)
(***************************************************************************)
EXTENDS Integers, Sequences, FiniteSets

CONSTANTS
    NumWorkers,    \* nodes without the control-plane label, named 1..NumWorkers
    MaxReplicas,   \* bound: the largest replicaCount anybody asks for
    MaxAttempts,   \* maxAttempts of healingBackoff (5 in the code)
    MaxUserOps,    \* bound: dashboard requests in a behaviour
    MaxFaults      \* bound: crashes, failed calls and pod failures

ASSUME ClusterAssumption ==
    /\ NumWorkers \in Nat \ {0}
    /\ MaxReplicas \in Nat /\ NumWorkers <= MaxReplicas
    /\ MaxAttempts \in Nat \ {0}
    /\ MaxUserOps \in Nat
    /\ MaxFaults \in Nat

VARIABLES
    vol,       \* the Volume object
    eng,       \* the Engine object
    reps,      \* the Replica objects, by index
    pods,      \* the pod of each replica, by index
    doomed,    \* replica pods whose owner is gone: the garbage collector's work
    cooling,   \* replicas whose LastHealTime is less than one backoff ago
    fresh,     \* fresh[c]: the copies client c holds that are still current
    userOps,   \* dashboard requests still to come
    faults     \* failures still to come

cluster == <<vol, eng, reps, pods, doomed, cooling, fresh, userOps, faults>>

-----------------------------------------------------------------------------
(* Nodes.  A volume whose NodeID is not a worker (a control-plane node, by *)
(* topology) has all its replicas elsewhere.                               *)

Workers == 1 .. NumWorkers
NoNode == 0                       \* NodeID ""
OtherNode == NumWorkers + 1       \* a node that is not a worker
NodeIDs == 0 .. (NumWorkers + 1)

Idx == 0 .. (MaxReplicas - 1)     \* replica i is named <volume>-replica-<i>

(* A ReplicaAttachment of the engine: known when the engine controller has *)
(* filled in how to reach the replica (IsLocal, NQN, address).  The engine *)
(* keeps, as LastReplicasHash, the list it last ran with, if any.  A       *)
(* replica has moved when its status has another address than the list.    *)
Attachment == [idx : Idx, node : NodeIDs, known : BOOLEAN]

ReplicaPhases == {"absent", "", "Running"}
PodPhases == {"none", "noIP", "notRunning", "running"}

Volumes == [node : NodeIDs, count : 0 .. MaxReplicas, snap : BOOLEAN,
            ref : BOOLEAN, phase : {"", "Creating", "Ready", "Degraded"},
            attempts : [Idx -> 0 .. MaxAttempts]]
Engines == [here : BOOLEAN, atts : Seq(Attachment), running : BOOLEAN,
            hashed : BOOLEAN, last : Seq(Attachment)]
Replicas == [phase : ReplicaPhases, node : NodeIDs,
             type : {"Local", "Remote"}, nqn : BOOLEAN, snap : BOOLEAN,
             moved : BOOLEAN]

NoReplica == [phase |-> "absent", node |-> NoNode, type |-> "Remote",
              nqn |-> FALSE, snap |-> FALSE, moved |-> FALSE]
NoEngine == [here |-> FALSE, atts |-> <<>>, running |-> FALSE,
             hashed |-> FALSE, last |-> <<>>]
NoAttempts == [i \in Idx |-> 0]

(* Names of the replicas in an attachment list.                            *)
Names(atts) == {atts[p].idx : p \in DOMAIN atts}
NodesOf(atts) == {atts[p].node : p \in DOMAIN atts}

(* No two attachments of the same replica.                                 *)
Distinct(atts) == \A p, q \in DOMAIN atts : p # q => atts[p].idx # atts[q].idx

(* An attachment list without the attachment at position p.                *)
Without(atts, p) == SubSeq(atts, 1, p - 1) \o SubSeq(atts, p + 1, Len(atts))

Present(i) == reps[i].phase # "absent"
Running(i) == reps[i].phase = "Running"
PodHasIP(i) == pods[i] \in {"notRunning", "running"}

-----------------------------------------------------------------------------
(* Optimistic concurrency.  <<"uid", i>> stands for the identity of the    *)
(* Replica object: a deletion changes it, an update does not.              *)

Clients == {"volume", "replica", "dashboard"}
VolKey == <<"vol", 0>>
EngKey == <<"eng", 0>>
RepKey(i) == <<"rep", i>>
UidKey(i) == <<"uid", i>>
Keys == {VolKey, EngKey} \cup {RepKey(i) : i \in Idx} \cup {UidKey(i) : i \in Idx}

(* Client c now holds the copies in held, and has just written the objects *)
(* in written, so that every other copy of those is out of date.           *)
Hold(c, held, written) ==
    fresh' = [d \in Clients |-> IF d = c THEN held ELSE fresh[d] \ written]

(* Client c writes without starting or ending a handler.                   *)
Wrote(c, written) == Hold(c, fresh[c], written)
Release(c, written) == Hold(c, {}, written)

CreateIfMissing(i, r) ==
    reps' = IF Present(i) THEN reps ELSE [reps EXCEPT ![i] = r]

(* Delete of replica i: its pod is left to the garbage collector.          *)
DeleteReplica(i) ==
    /\ reps' = [reps EXCEPT ![i] = NoReplica]
    /\ doomed' = IF pods[i] = "none" THEN doomed ELSE doomed \cup {i}

DeletePod(i) ==
    /\ pods' = [pods EXCEPT ![i] = "none"]
    /\ doomed' = doomed \ {i}

(* The keys that deleting replica i outdates.                              *)
Deleted(i) == {RepKey(i), UidKey(i)}

-----------------------------------------------------------------------------
(* replicasForVolume: count 0 is "auto" (or ""), one replica per worker.   *)
ReplicasForVolume(v) == IF v.count = 0 THEN NumWorkers ELSE v.count

(* pickWorkerNodes: the worker names sorted, at most n of them.            *)
PickWorkerNodes(n) ==
    [p \in 1 .. (IF n > NumWorkers THEN NumWorkers ELSE n) |-> p]

(* pickUnusedNode: the node list has no particular order, so any unused    *)
(* worker may come first; when all are used, any worker.  When the nodes   *)
(* cannot be listed, or none is left, it is NoNode: ScaleUpNowhere.        *)
PickUnusedNode(used) ==
    IF Workers \subseteq used THEN Workers ELSE Workers \ used

TypeFor(node) == IF node = vol.node THEN "Local" ELSE "Remote"

-----------------------------------------------------------------------------
(* The kubelet, the garbage collector and the clock.                       *)

PodStarts(i) ==
    /\ pods[i] \in {"noIP", "notRunning"}
    /\ pods' = [pods EXCEPT ![i] = "running"]
    /\ UNCHANGED <<vol, eng, reps, doomed, cooling, fresh, userOps, faults>>

(* A pod has an address but does not run (it is slow to start, or its      *)
(* containers crash), or is lost with its node or by an eviction.          *)
PodFails(i) ==
    /\ pods[i] \in {"noIP", "running"}
    /\ faults > 0
    /\ faults' = faults - 1
    /\ \/ pods' = [pods EXCEPT ![i] = "notRunning"] /\ UNCHANGED doomed
       \/ DeletePod(i)
    /\ UNCHANGED <<vol, eng, reps, cooling, fresh, userOps>>

CollectPod(i) ==
    /\ i \in doomed
    /\ DeletePod(i)
    /\ UNCHANGED <<vol, eng, reps, cooling, fresh, userOps, faults>>

CooldownEnds(i) ==
    /\ i \in cooling
    /\ cooling' = cooling \ {i}
    /\ UNCHANGED <<vol, eng, reps, pods, doomed, fresh, userOps, faults>>

Environment ==
    \E i \in Idx : \/ PodStarts(i) \/ PodFails(i)
                   \/ CollectPod(i) \/ CooldownEnds(i)
=============================================================================
