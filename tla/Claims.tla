-------------------------------- MODULE Claims --------------------------------
(***************************************************************************)
(* What comments of the repository say of the control plane and the code   *)
(* does not do.  Two runs refute them.                                     *)
(***************************************************************************)
EXTENDS ControlPlane

(* healReplicas has just chosen replica i for deletion and recreation.     *)
ChoosesToRecreate(i) ==
    /\ vrun.pc = "types" /\ vrun'.pc = "recreate"
    /\ i = vrun'.atts[vrun'.k].idx

(* "healReplicas attempts to heal unhealthy replicas": healing never       *)
(* deletes a replica that the engine controller counts as ready.  The code *)
(* requires a pod and an NQN of every replica, and the replica controller  *)
(* gives a Local replica neither.                                          *)
HealsOnlyUnhealthy ==
    [][\A i \in Idx : ChoosesToRecreate(i) => ~Reachable(i)]_vars

(* "Adds new replica CRs on unused nodes": as long as there are workers    *)
(* enough, no two replicas of the engine's list live on the same one.  The *)
(* code compares the nodes that the list names; a replica that a broken    *)
(* off scaleUp has left is kept where it is, and listed for the node that  *)
(* is picked the next time.                                                *)
ReplicasOnUnusedNodes ==
    MaxReplicas <= NumWorkers /\ ~vol.snap =>
        \A i, j \in Names(eng.atts) :
            i # j /\ Present(i) /\ Present(j) => reps[i].node # reps[j].node
=============================================================================
