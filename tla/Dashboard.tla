------------------------------ MODULE Dashboard ------------------------------
(***************************************************************************)
(* The dashboard's requests that change objects of a volume: scale, delete *)
(* a replica, restore a snapshot.  One request at a time; a handler that   *)
(* fails reports an error and leaves what it has done.                     *)
(***************************************************************************)
EXTENDS Cluster

CONSTANT Requests   \* the kinds of request users make

ASSUME RequestsAssumption == Requests \subseteq {"scale", "delete", "restore"}

VARIABLE drun   \* the request in progress

DRuns == [pc : {"idle", "detach", "poke", "clear", "list", "purge"},
          i : Idx, todo : SUBSET Idx]

DIdle == [pc |-> "idle", i |-> 0, todo |-> {}]

DFresh(key) == key \in fresh["dashboard"]

(* HandleScale: a merge patch, which no version can make fail.             *)
HandleScale(n) ==
    /\ drun.pc = "idle" /\ userOps > 0 /\ n # vol.count
    /\ userOps' = userOps - 1
    /\ vol' = [vol EXCEPT !.count = n]
    /\ Release("dashboard", {VolKey})
    /\ UNCHANGED <<drun, eng, reps, pods, doomed, cooling, faults>>

(* HandleDeleteReplica: the Replica object first.                          *)
DeleteReplicaRequest(i) ==
    /\ drun.pc = "idle" /\ userOps > 0 /\ Present(i)
    /\ userOps' = userOps - 1
    /\ DeleteReplica(i)
    /\ drun' = [DIdle EXCEPT !.pc = "detach", !.i = i]
    /\ Release("dashboard", Deleted(i))
    /\ UNCHANGED <<vol, eng, pods, cooling, faults>>

(* The volume refers to an engine that attaches the replica.               *)
Attached == vol.ref /\ eng.here /\ drun.i \in Names(eng.atts)

(* Then the engine's attachment is filtered out (no name occurs twice).    *)
DetachReplica ==
    /\ drun.pc = "detach"
    /\ \/ /\ Attached
          /\ \E p \in DOMAIN eng.atts :
               /\ eng.atts[p].idx = drun.i
               /\ eng' = [eng EXCEPT !.atts = Without(@, p)]
          /\ Release("dashboard", {EngKey})
       \/ ~Attached /\ UNCHANGED <<eng, fresh>>
    /\ drun' = [drun EXCEPT !.pc = "poke"]
    /\ UNCHANGED <<vol, reps, pods, doomed, cooling, userOps, faults>>

(* The engine was written between the handler's Get and its Update: the    *)
(* request ends with "Engine update failed".                               *)
DetachConflicts ==
    /\ drun.pc = "detach" /\ Attached
    /\ drun' = DIdle
    /\ UNCHANGED cluster

(* The annotation patch that makes the volume controller look again.       *)
PokeVolume ==
    /\ drun.pc = "poke"
    /\ drun' = DIdle
    /\ Release("dashboard", {VolKey})
    /\ UNCHANGED <<vol, eng, reps, pods, doomed, cooling, userOps, faults>>

(* HandleSnapshotRestore: read the volume, delete the engine, ...  The     *)
(* snapshot may be one of an earlier volume of that name.                  *)
RestoreRequest ==
    /\ drun.pc = "idle" /\ userOps > 0
    /\ userOps' = userOps - 1
    /\ eng' = NoEngine
    /\ drun' = [DIdle EXCEPT !.pc = "clear"]
    /\ Hold("dashboard", {VolKey}, IF eng.here THEN {EngKey} ELSE {})
    /\ UNCHANGED <<vol, reps, pods, doomed, cooling, faults>>

(* ... clear the volume's status, ...                                      *)
RestoreClears ==
    /\ drun.pc = "clear" /\ DFresh(VolKey)
    /\ vol' = [vol EXCEPT !.ref = FALSE, !.phase = "", !.attempts = NoAttempts]
    /\ cooling' = {}
    /\ drun' = [drun EXCEPT !.pc = "list"]
    /\ Wrote("dashboard", {VolKey})
    /\ UNCHANGED <<eng, reps, pods, doomed, userOps, faults>>

(* ... delete the replicas there are, ...                                  *)
RestoreLists ==
    /\ drun.pc = "list"
    /\ drun' = [drun EXCEPT !.pc = "purge", !.todo = {i \in Idx : Present(i)}]
    /\ UNCHANGED cluster

RestorePurges(i) ==
    /\ drun.pc = "purge" /\ i \in drun.todo
    /\ DeleteReplica(i)
    /\ drun' = [drun EXCEPT !.todo = @ \ {i}]
    /\ Wrote("dashboard", Deleted(i))
    /\ UNCHANGED <<vol, eng, pods, cooling, userOps, faults>>

(* ... and only then name the snapshot in the volume's spec.               *)
RestoreSetsSource ==
    /\ drun.pc = "purge" /\ drun.todo = {} /\ DFresh(VolKey)
    /\ vol' = [vol EXCEPT !.snap = TRUE]
    /\ drun' = DIdle
    /\ Release("dashboard", {VolKey})
    /\ UNCHANGED <<eng, reps, pods, doomed, cooling, userOps, faults>>

RestoreConflicts ==
    /\ \/ drun.pc = "clear"
       \/ drun.pc = "purge" /\ drun.todo = {}
    /\ ~DFresh(VolKey)
    /\ drun' = DIdle
    /\ Release("dashboard", {})
    /\ UNCHANGED <<vol, eng, reps, pods, doomed, cooling, userOps, faults>>

(* The part of a request that has begun and will run to its end.           *)
DashboardStep ==
    \/ DetachReplica \/ DetachConflicts \/ PokeVolume
    \/ RestoreClears \/ RestoreLists \/ (\E i \in Idx : RestorePurges(i))
    \/ RestoreSetsSource \/ RestoreConflicts

DashboardRequest ==
    \/ "scale" \in Requests /\ \E n \in 1 .. MaxReplicas : HandleScale(n)
    \/ "delete" \in Requests /\ \E i \in Idx : DeleteReplicaRequest(i)
    \/ "restore" \in Requests /\ RestoreRequest
=============================================================================
