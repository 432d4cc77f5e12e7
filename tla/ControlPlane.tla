----------------------------- MODULE ControlPlane -----------------------------
(***************************************************************************)
(* The volume controller, the replica controller and the dashboard over    *)
(* the same objects.  The engine controller appears here only by what the  *)
(* others see of it: the phase it publishes in Engine.Status.              *)
(***************************************************************************)
EXTENDS VolumeController, ReplicaController, Dashboard

CONSTANT
    Starts   \* the NodeID and the replica count that a volume is created with,
             \* and how many dashboard requests and failures it then meets

ASSUME StartAssumption ==
    Starts \subseteq NodeIDs \X (0 .. MaxReplicas) \X (0 .. MaxUserOps) \X (0 .. MaxFaults)

vars == <<cluster, vrun, rrun, drun>>

Init ==
    /\ \E s \in Starts :
          /\ vol = [node |-> s[1], count |-> s[2], snap |-> FALSE, ref |-> FALSE,
                    phase |-> "", attempts |-> NoAttempts]
          /\ userOps = s[3] /\ faults = s[4]
    /\ eng = NoEngine
    /\ reps = [i \in Idx |-> NoReplica]
    /\ pods = [i \in Idx |-> "none"]
    /\ doomed = {} /\ cooling = {}
    /\ fresh = [c \in Clients |-> {}]
    /\ vrun = VIdle /\ rrun = RIdle /\ drun = DIdle

(* A write of the engine controller outdates everybody's copy.             *)
EngineWritten == fresh' = [c \in Clients |-> fresh[c] \ {EngKey}]

(* replicaStatus: a replica on the engine's node (which is the volume's)   *)
(* must be Running, another one must export and have a pod too.            *)
Reachable(i) ==
    /\ Running(i)
    /\ reps[i].node = vol.node \/ (reps[i].nqn /\ pods[i] # "none")

AllReachable == \A i \in Names(eng.atts) : Reachable(i)

(* What replicaStatus can fill in of attachment a: nothing that is there   *)
(* already, and of a remote replica only what that has published.          *)
ToFillRemote(a) ==
    /\ ~a.known \/ reps[a.idx].moved
    /\ reps[a.idx].node # vol.node /\ Reachable(a.idx)

ToFill(a) == ToFillRemote(a) \/ (~a.known /\ reps[a.idx].node = vol.node)

Filled(a) == [a EXCEPT !.known = a.known \/ ToFill(a)]

(* Update of the engine's spec; not reached when a replica is missing.     *)
(* With another address in it, it is not the list that the engine last ran *)
(* with, even if it has the same replicas.                                 *)
EngineFillsIn ==
    /\ eng.here
    /\ \A i \in Names(eng.atts) : Present(i)
    /\ \E p \in DOMAIN eng.atts : ToFill(eng.atts[p])
    /\ \E last \in {eng.last, <<>>} :
          /\ last # eng.last => \E p \in DOMAIN eng.atts : ToFillRemote(eng.atts[p])
          /\ eng' = [eng EXCEPT !.last = last, !.atts =
                        [p \in DOMAIN eng.atts |-> Filled(eng.atts[p])]]
    /\ reps' = [i \in Idx |-> IF \E p \in DOMAIN eng.atts :
                                    eng.atts[p].idx = i /\ ToFill(eng.atts[p])
                             THEN [reps[i] EXCEPT !.moved = FALSE] ELSE reps[i]]
    /\ EngineWritten
    /\ UNCHANGED <<vol, pods, doomed, cooling, userOps, faults>>

(* The list is not the one that the engine last ran with: its sidecar must *)
(* reconfigure the array first.  That fails as soon as there is a remote   *)
(* replica to be added, under the wrong name (see EngineArray), and all of *)
(* them are, under that name.                                              *)
ListChanged == eng.hashed /\ eng.last # eng.atts
HasRemote == \E i \in Names(eng.atts) : reps[i].node # vol.node
CannotReconfigure == ListChanged /\ HasRemote

(* All replicas are ready, the engine's sidecar answers, and its array is  *)
(* made of this list: Running.                                             *)
EngineRuns ==
    /\ eng.here /\ AllReachable /\ ~CannotReconfigure
    /\ ~eng.running \/ ListChanged
    /\ eng' = [eng EXCEPT !.running = TRUE, !.hashed = TRUE, !.last = eng.atts]
    /\ EngineWritten
    /\ UNCHANGED <<vol, reps, pods, doomed, cooling, userOps, faults>>

(* The reconfigure fails: Degraded, and retried every 5 seconds.           *)
EngineDegrades ==
    /\ eng.here /\ eng.running /\ AllReachable /\ CannotReconfigure
    /\ eng' = [eng EXCEPT !.running = FALSE]
    /\ EngineWritten
    /\ UNCHANGED <<vol, reps, pods, doomed, cooling, userOps, faults>>

(* The engine loses its pod, or the reconfigure fails for another reason,  *)
(* and it is no longer Running; or it writes the same status with new      *)
(* timestamps.                                                             *)
EngineReports ==
    /\ eng.here /\ eng.running /\ AllReachable
    /\ faults > 0
    /\ faults' = faults - 1
    /\ \E up \in BOOLEAN : eng' = [eng EXCEPT !.running = up]
    /\ EngineWritten
    /\ UNCHANGED <<vol, reps, pods, doomed, cooling, userOps>>

EngineStep == EngineFillsIn \/ EngineRuns \/ EngineDegrades

Next ==
    \/ (VolumeStep \/ ScaleUpNowhere \/ VolumeFails) /\ UNCHANGED <<rrun, drun>>
    \/ (ReplicaStep \/ ReplicaFails) /\ UNCHANGED <<vrun, drun>>
    \/ (DashboardStep \/ DashboardRequest) /\ UNCHANGED <<vrun, rrun>>
    \/ (EngineStep \/ EngineReports \/ Environment)
          /\ UNCHANGED <<vrun, rrun, drun>>

Spec == Init /\ [][Next]_vars

(* Queued work is done: a failed or requeued reconcile comes back, and     *)
(* every object is reconciled again at the informers' resync.  The replica *)
(* queue is first in, first out, so no replica is passed over forever.     *)
Fairness ==
    /\ WF_vars(VolumeStep /\ UNCHANGED <<rrun, drun>>)
    /\ WF_vars(ReplicaStep /\ UNCHANGED <<vrun, drun>>)
    /\ \A i \in Idx : SF_vars(Provision(i) /\ UNCHANGED <<vrun, drun>>)
    /\ WF_vars(DashboardStep /\ UNCHANGED <<vrun, rrun>>)
    /\ WF_vars(EngineStep /\ UNCHANGED <<vrun, rrun, drun>>)
    /\ \A i \in Idx :
          /\ WF_vars(PodStarts(i) /\ UNCHANGED <<vrun, rrun, drun>>)
          /\ WF_vars(CollectPod(i) /\ UNCHANGED <<vrun, rrun, drun>>)
          /\ WF_vars(CooldownEnds(i) /\ UNCHANGED <<vrun, rrun, drun>>)

FairSpec == Spec /\ Fairness

-----------------------------------------------------------------------------
(* The values every variable takes, in-memory copies included; in          *)
(* particular RestartAttempts never passes maxAttempts.                    *)
TypeOK ==
    /\ vol \in Volumes
    /\ eng \in Engines
    /\ reps \in [Idx -> Replicas]
    /\ pods \in [Idx -> PodPhases]
    /\ doomed \subseteq Idx /\ cooling \subseteq Idx
    /\ fresh \in [Clients -> SUBSET Keys]
    /\ userOps \in 0 .. MaxUserOps /\ faults \in 0 .. MaxFaults
    /\ vrun \in VRuns /\ rrun \in RRuns /\ drun \in DRuns

(* engine.Spec.Replicas never names the same replica twice, whatever       *)
(* scaling, healing and the dashboard do to it: scaleUp's usedIndices only *)
(* covers indices below desired+10, and it skips those.                    *)
DistinctAttachments == Distinct(eng.atts)

(* The indices that the scaleUp in progress adds to what it read.          *)
Added == {vrun.atts[p].idx : p \in (vrun.k + 1) .. Len(vrun.atts)}

(* An attachment that somebody removed from the engine does not come back  *)
(* with another controller's write of an older copy: only scaleUp attaches *)
(* a replica, and only one that it has just created or found.              *)
NoLostDetach ==
    [][eng.here /\ eng'.here =>
         \A i \in Names(eng'.atts) \ Names(eng.atts) :
             vrun.pc = "scaleUp" /\ i \in Added]_vars

List == INSTANCE Roster WITH posted <- eng.here, roster <- eng.atts

(* However old the copies that its writers work from, engine.Spec.Replicas *)
(* is a roster: it changes by one edit of the present list at a time, so   *)
(* that no writer undoes what another has removed, added or filled in.     *)
IsRoster == List!RSpec

(* A volume that says Ready refers to its engine: a reconcile that found   *)
(* everything running cannot overwrite a status cleared by a restore.      *)
ReadyHasEngineRef == vol.phase = "Ready" => vol.ref

(* Every replica pod belongs to a Replica object that exists, or is        *)
(* garbage: the pod carries the UID of the object that was read, not of a  *)
(* successor with the same name.                                           *)
PodsAreOwned == \A i \in Idx : pods[i] # "none" /\ i \notin doomed => Present(i)

(* Without failures and deletions, a volume whose replicas are all remote  *)
(* settles, also when it is scaled: it has as many running replicas as     *)
(* asked for, and is Ready, unless it was scaled after the engine had run, *)
(* which then cannot reconfigure its array.                                *)
VolumeSettles ==
    vol.node = OtherNode /\ faults = 0 /\ [](drun.pc = "idle") =>
        <>[](/\ eng.here /\ Len(eng.atts) = ReplicasForVolume(vol)
             /\ \A i \in Names(eng.atts) : Running(i)
             /\ vol.phase = "Ready" \/ CannotReconfigure)

(* After failures and deletions, healing and scaling do not leave the      *)
(* engine short of attachments, or with attachments to replicas that are   *)
(* gone: again and again it has the number asked for, unless fewer than    *)
(* desired-1 replicas are healthy, when the N-1 guard stops all healing.   *)
CountRecovers ==
    []<>(\/ /\ eng.here /\ Len(eng.atts) = ReplicasForVolume(vol)
            /\ \A i \in Names(eng.atts) : Present(i)
         \/ Cardinality({i \in Names(eng.atts) : Healthy(i)})
               < ReplicasForVolume(vol) - 1)
=============================================================================
