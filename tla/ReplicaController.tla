-------------------------- MODULE ReplicaController --------------------------
(***************************************************************************)
(* ReplicaReconciler.Reconcile: provision the backing file through the     *)
(* node agent, run the pod of a Remote replica, publish Running.           *)
(* One Replica is reconciled at a time.                                    *)
(***************************************************************************)
EXTENDS Cluster

VARIABLE rrun   \* the reconcile in progress

RRuns == [pc : {"idle", "pod", "poll", "local"}, i : Idx]

RIdle == [pc |-> "idle", i |-> 0]

RFresh(key) == key \in fresh["replica"]

(* Nothing to do for a Running Remote replica whose pod has an address     *)
(* (the early return), nor, as far as Kubernetes objects go, for a Running *)
(* Local one without a pod, although its file is provisioned once more.    *)
UpToDate(i) ==
    /\ Running(i)
    /\ \/ reps[i].type = "Remote" /\ PodHasIP(i)
       \/ reps[i].type = "Local" /\ pods[i] = "none" /\ ~reps[i].nqn

(* Reads the replica and has the node agent create the backing file; there *)
(* is no agent of no node, and the reconcile ends with that error.         *)
Provision(i) ==
    /\ rrun.pc = "idle" /\ Present(i) /\ ~UpToDate(i) /\ reps[i].node # NoNode
    /\ rrun' = [pc |-> IF reps[i].type = "Remote" THEN "pod" ELSE "local", i |-> i]
    /\ Hold("replica", {RepKey(i), UidKey(i)}, {})
    /\ UNCHANGED <<vol, eng, reps, pods, doomed, cooling, userOps, faults>>

(* Faulty variant of CreatePod: owned by whichever replica has the name.   *)
CreatePodByName ==
    /\ rrun.pc = "pod"
    /\ pods' = [pods EXCEPT ![rrun.i] = IF @ = "none" THEN "noIP" ELSE @]
    /\ rrun' = [rrun EXCEPT !.pc = "poll"]
    /\ UNCHANGED <<vol, eng, reps, doomed, cooling, fresh, userOps, faults>>

(* Creates the pod, owned by the Replica object that was read: when that   *)
(* object has been deleted since, the pod is garbage from the start.       *)
CreatePod ==
    /\ rrun.pc = "pod"
    /\ IF pods[rrun.i] = "none"
       THEN /\ pods' = [pods EXCEPT ![rrun.i] = "noIP"]
            /\ doomed' = IF RFresh(UidKey(rrun.i)) THEN doomed
                         ELSE doomed \cup {rrun.i}
       ELSE UNCHANGED <<pods, doomed>>
    /\ rrun' = [rrun EXCEPT !.pc = "poll"]
    /\ UNCHANGED <<vol, eng, reps, cooling, fresh, userOps, faults>>

(* Status().Update of the replica that was read.                           *)
PublishRunning(nqn, moved) ==
    /\ RFresh(RepKey(rrun.i))
    /\ reps' = [reps EXCEPT ![rrun.i].phase = "Running", ![rrun.i].nqn = nqn,
                            ![rrun.i].moved = moved]
    /\ rrun' = RIdle
    /\ Release("replica", {RepKey(rrun.i)})
    /\ UNCHANGED <<vol, eng, pods, doomed, cooling, userOps, faults>>

(* Faulty variant of RemoteRunning: publishes no NQN.                      *)
RemoteRunningWithoutNQN ==
    /\ rrun.pc = "poll" /\ PodHasIP(rrun.i)
    /\ PublishRunning(FALSE, FALSE)

(* The address of an earlier pod of the replica is in the engine's list.   *)
Listed(i) == \E p \in DOMAIN eng.atts : eng.atts[p].idx = i /\ eng.atts[p].known

(* The pod has an address and its sidecar answers with a valid status.     *)
RemoteRunning ==
    /\ rrun.pc = "poll" /\ PodHasIP(rrun.i)
    /\ \E moved \in BOOLEAN :
          /\ moved => Listed(rrun.i)
          /\ PublishRunning(TRUE, moved)

(* No pod, no address yet, or no valid answer: come back in 2 seconds.     *)
SidecarSilent ==
    /\ rrun.pc = "poll" /\ pods[rrun.i] # "running"
    /\ rrun' = RIdle
    /\ Release("replica", {})
    /\ UNCHANGED <<vol, eng, reps, pods, doomed, cooling, userOps, faults>>

(* A Local replica is served by the engine itself and keeps no pod.        *)
CleanPod ==
    /\ rrun.pc = "local" /\ pods[rrun.i] # "none"
    /\ DeletePod(rrun.i)
    /\ UNCHANGED <<rrun, vol, eng, reps, cooling, fresh, userOps, faults>>

LocalRunning ==
    /\ rrun.pc = "local" /\ pods[rrun.i] = "none"
    /\ PublishRunning(FALSE, FALSE)

ReplicaConflict ==
    /\ \/ rrun.pc = "poll" /\ PodHasIP(rrun.i)
       \/ rrun.pc = "local" /\ pods[rrun.i] = "none"
    /\ ~RFresh(RepKey(rrun.i))
    /\ rrun' = RIdle
    /\ Release("replica", {})
    /\ UNCHANGED <<vol, eng, reps, pods, doomed, cooling, userOps, faults>>

ReplicaFails ==
    /\ rrun.pc # "idle"
    /\ faults > 0
    /\ faults' = faults - 1
    /\ rrun' = RIdle
    /\ Release("replica", {})
    /\ UNCHANGED <<vol, eng, reps, pods, doomed, cooling, userOps>>

ReplicaStep ==
    \/ \E i \in Idx : Provision(i)
    \/ CreatePod \/ RemoteRunning \/ SidecarSilent \/ CleanPod
    \/ LocalRunning \/ ReplicaConflict
=============================================================================
