------------------------------ MODULE Snapshots ------------------------------
(***************************************************************************)
(* The life of a snapshot: the Snapshot object and its finalizer, the      *)
(* snapshot controller, the engine's sidecar that makes the file, the node *)
(* agent that deletes it, and a volume restored from it.                   *)
(*                                                                         *)
(* There is one snapshot name, so one object at a time and one file: the   *)
(* name of the file is that of the object.  A deleted snapshot may be      *)
(* created again.  The controller stops waiting for the sidecar after 30   *)
(* seconds, but the sidecar goes on with the request; the sidecar serves   *)
(* requests concurrently.                                                  *)
(***************************************************************************)
EXTENDS Integers, FiniteSets

CONSTANTS
    Slots,         \* bound: requests that the sidecar works on at a time
    MaxRequests,   \* bound: requests of users
    MaxFaults      \* bound: lost answers, crashes and failed calls

ASSUME SnapshotsAssumption ==
    /\ IsFiniteSet(Slots)
    /\ MaxRequests \in Nat /\ MaxFaults \in Nat

VARIABLES
    snap,       \* the Snapshot object
    file,       \* the snapshot's file
    engine,     \* the engine of the volume: see Engines
    posts,      \* the requests in the sidecar
    srun,       \* the reconcile in progress that waits for somebody's answer
    clone,      \* the backing file of a volume restored from the snapshot
    requests,   \* requests of users still to come
    faults,     \* failures still to come
    cut         \* history: a request was left alone or broken off at work

vars == <<snap, file, engine, posts, srun, clone, requests, faults, cut>>

Decided == {"Ready", "Failed"}
Phases == {"absent", "", "Pending", "Creating"} \cup Decided

(* path: Status.SnapshotPath is set.                                       *)
Snaps == [phase : Phases, fin : BOOLEAN, del : BOOLEAN, path : BOOLEAN]
NoSnap == [phase |-> "absent", fin |-> FALSE, del |-> FALSE, path |-> FALSE]
Present == snap.phase # "absent"

(* by: the request that created or truncated the file last; the file is    *)
(* complete when that request is done.                                     *)
NoFile == [here |-> FALSE, full |-> FALSE, by |-> {}]
MadeBy(k, full) == [here |-> TRUE, full |-> full, by |-> {k}]

Answers == {"ok", "error"}
PostPCs == {"free", "stat", "open", "clone", "copy", "fill"} \cup Answers

(* No object, until the volume controller makes it again; no object and no *)
(* volume; no running pod; up.                                             *)
Engines == {"gone", "deleted", "noPod", "up"}
NoEngine == engine \in {"gone", "deleted"}

(* parked: nothing brings the reconcile back but a write of the object or  *)
(* a restart of the controller.                                            *)
SRuns == [pc : {"idle", "parked", "wait", "remove"}, slot : SUBSET Slots,
          fresh : BOOLEAN]
SIdle == [pc |-> "idle", slot |-> {}, fresh |-> FALSE]

Clones == [pc : {"none", "asked", "made", "ready"},
           image : {"none", "snapshot", "blank"}]

Init ==
    /\ snap = NoSnap /\ file = NoFile /\ engine = "up"
    /\ posts = [k \in Slots |-> "free"]
    /\ srun = SIdle
    /\ clone = [pc |-> "none", image |-> "none"]
    /\ requests = MaxRequests /\ faults = MaxFaults /\ cut = FALSE

-----------------------------------------------------------------------------
(* Users, by the dashboard or CSI.                                         *)

Ask == requests > 0 /\ requests' = requests - 1
Fault == faults > 0 /\ faults' = faults - 1

CreateSnapshot ==
    /\ Ask /\ ~Present
    /\ snap' = [NoSnap EXCEPT !.phase = ""]
    /\ UNCHANGED <<file, engine, posts, srun, clone, faults, cut>>

(* An object with a finalizer is only marked, which outdates the copy that *)
(* a reconcile holds.                                                      *)
DeleteSnapshot ==
    /\ Ask /\ Present /\ ~snap.del
    /\ snap' = IF snap.fin THEN [snap EXCEPT !.del = TRUE] ELSE NoSnap
    /\ srun' = IF srun.pc = "parked" THEN SIdle ELSE [srun EXCEPT !.fresh = FALSE]
    /\ UNCHANGED <<file, engine, posts, clone, faults, cut>>

(* A new volume from a snapshot that is ReadyToUse.                        *)
CreateFromSnapshot ==
    /\ Ask /\ snap.phase = "Ready" /\ clone.pc = "none"
    /\ clone' = [clone EXCEPT !.pc = "asked"]
    /\ UNCHANGED <<snap, file, engine, posts, srun, faults, cut>>

(* The engine ends as e says, and with its pod what the sidecar was doing. *)
StopEngine(e) ==
    /\ engine' = e
    /\ posts' = [k \in Slots |-> "free"]
    /\ srun' = IF srun.pc = "wait" THEN SIdle ELSE srun
    /\ cut' = (cut \/ \E k \in Slots : posts[k] \in {"clone", "fill"})

(* The volume's engine is its own and goes with it, the volume's snapshots *)
(* have no owner and stay.  The volume is not created again.               *)
DeleteVolume ==
    /\ Ask /\ engine # "deleted"
    /\ StopEngine("deleted")
    /\ UNCHANGED <<snap, file, clone, faults>>

Users == CreateSnapshot \/ DeleteSnapshot \/ CreateFromSnapshot \/ DeleteVolume

-----------------------------------------------------------------------------
(* The snapshot controller.                                                *)

Reconciles == srun.pc = "idle" /\ Present /\ ~snap.del

(* Faulty variant of ReconcilesPhase: does not look at the finalizer.      *)
ReconcilesAnyPhase == Reconciles

(* The phase is only looked at when the finalizer is there.                *)
ReconcilesPhase == Reconciles /\ snap.fin

AddFinalizer ==
    /\ Reconciles /\ ~snap.fin
    /\ snap' = [snap EXCEPT !.fin = TRUE]
    /\ UNCHANGED <<file, engine, posts, srun, clone, requests, faults, cut>>

(* Faulty variant of MarkPending: a phase that no case handles.            *)
MarkQueued ==
    /\ ReconcilesPhase /\ snap.phase = ""
    /\ snap' = [snap EXCEPT !.phase = "Queued"]
    /\ UNCHANGED <<file, engine, posts, srun, clone, requests, faults, cut>>

MarkPending ==
    /\ ReconcilesPhase /\ snap.phase = ""
    /\ snap' = [snap EXCEPT !.phase = "Pending"]
    /\ UNCHANGED <<file, engine, posts, srun, clone, requests, faults, cut>>

(* startCreate: an engine that cannot be read, for whatever reason, is the *)
(* end of the snapshot.  The error of the write that says so is dropped:   *)
(* after a missing engine, which is no error either, nobody comes back.    *)
StartCreate ==
    /\ ReconcilesPhase /\ snap.phase = "Pending"
    /\ \/ ~NoEngine /\ snap' = [snap EXCEPT !.phase = "Creating"]
          /\ UNCHANGED <<srun, faults>>
       \/ ((NoEngine /\ UNCHANGED faults) \/ Fault)
          /\ snap' = [snap EXCEPT !.phase = "Failed"] /\ UNCHANGED srun
       \/ NoEngine /\ Fault
          /\ srun' = [SIdle EXCEPT !.pc = "parked"] /\ UNCHANGED snap
    /\ UNCHANGED <<file, engine, posts, clone, requests, cut>>

(* Faulty variant of PostSnapshot: tries again after a failure.            *)
PostSnapshotAgain(k) ==
    /\ ReconcilesPhase /\ snap.phase \in {"Creating", "Failed"}
    /\ engine = "up" /\ posts[k] = "free"
    /\ posts' = [posts EXCEPT ![k] = "stat"]
    /\ srun' = [pc |-> "wait", slot |-> {k}, fresh |-> TRUE]
    /\ UNCHANGED <<snap, file, engine, clone, requests, faults, cut>>

(* pollCreate: posts the snapshot's name to the sidecar and waits.         *)
PostSnapshot(k) ==
    /\ ReconcilesPhase /\ snap.phase = "Creating"
    /\ engine = "up" /\ posts[k] = "free"
    /\ posts' = [posts EXCEPT ![k] = "stat"]
    /\ srun' = [pc |-> "wait", slot |-> {k}, fresh |-> TRUE]
    /\ UNCHANGED <<snap, file, engine, clone, requests, faults, cut>>

(* Faulty variant of Outcome: forgets the phase.                           *)
OutcomeWithoutPhase(answer) == [snap EXCEPT !.path = answer = "ok"]

(* The verdict that an answer leads to.                                    *)
Outcome(answer) ==
    IF answer = "ok" THEN [snap EXCEPT !.phase = "Ready", !.path = TRUE]
    ELSE [snap EXCEPT !.phase = "Failed"]

(* The answer to the request it waits for, and the Status().Update, which  *)
(* is a conflict when the object was written in between.                   *)
Conclude(k, answer) ==
    /\ srun.pc = "wait" /\ srun.slot = {k} /\ posts[k] \in Answers
    /\ snap' = IF srun.fresh THEN Outcome(answer) ELSE snap
    /\ posts' = [posts EXCEPT ![k] = "free"]
    /\ srun' = SIdle
    /\ UNCHANGED <<file, engine, clone, requests, cut>>

TakeAnswer(k) == Conclude(k, posts[k]) /\ UNCHANGED faults

(* An answer that cannot be decoded is an error too.                       *)
MisreadAnswer(k) == Conclude(k, "error") /\ Fault

(* No answer in time, or the controller restarts: it will come back.  The  *)
(* sidecar goes on.                                                        *)
GiveUp ==
    /\ srun.pc # "idle" /\ Fault
    /\ posts' = [k \in Slots |-> IF srun.slot = {k} /\ posts[k] \in Answers
                                 THEN "free" ELSE posts[k]]
    /\ srun' = SIdle
    /\ cut' = (cut \/ \E k \in srun.slot : posts[k] \notin Answers)
    /\ UNCHANGED <<snap, file, engine, clone, requests>>

(* reconcileDelete: the file is deleted by the node agent, if its path is  *)
(* known; an error of the agent is ignored.  The node is the one that      *)
(* startCreate noted, which is the engine's as long as there is a volume:  *)
(* its Spec.NodeID is chosen once.                                         *)
DeleteFile ==
    /\ srun.pc = "idle" /\ Present /\ snap.del
    /\ \/ snap.path /\ file' = NoFile /\ UNCHANGED faults
       \/ snap.path /\ Fault /\ UNCHANGED file
       \/ ~snap.path /\ UNCHANGED <<file, faults, cut>>
    /\ srun' = [SIdle EXCEPT !.pc = "remove"]
    /\ UNCHANGED <<snap, engine, posts, clone, requests, cut>>

(* Faulty variant of RemoveFinalizer: only when there was a file.          *)
RemoveFinalizerWithFile ==
    /\ srun.pc = "remove" /\ snap.path
    /\ snap' = NoSnap
    /\ srun' = SIdle
    /\ UNCHANGED <<file, engine, posts, clone, requests, faults, cut>>

RemoveFinalizer ==
    /\ srun.pc = "remove"
    /\ snap' = NoSnap
    /\ srun' = SIdle
    /\ UNCHANGED <<file, engine, posts, clone, requests, faults, cut>>

Controller ==
    \/ AddFinalizer \/ MarkPending \/ StartCreate
    \/ (\E k \in Slots : PostSnapshot(k) \/ TakeAnswer(k) \/ MisreadAnswer(k))
    \/ DeleteFile \/ RemoveFinalizer

-----------------------------------------------------------------------------
(* The sidecar: CreateSnapshot for the request in slot k.                  *)

(* The request ends; nobody may be waiting for the answer any more.        *)
Reply(k, answer) ==
    posts' = [posts EXCEPT ![k] = IF srun.slot = {k} THEN answer ELSE "free"]

Goto(k, pc) == posts' = [posts EXCEPT ![k] = pc]

(* A file of that name is taken to be the snapshot.                        *)
StatDestination(k) ==
    /\ posts[k] = "stat"
    /\ IF file.here THEN Reply(k, "ok") ELSE Goto(k, "open")
    /\ UNCHANGED <<snap, file, engine, srun, clone, requests, faults, cut>>

(* Opened with O_EXCL.                                                     *)
OpenDestination(k) ==
    /\ posts[k] = "open"
    /\ \/ file.here /\ Reply(k, "error") /\ UNCHANGED file
       \/ ~file.here /\ Goto(k, "clone") /\ file' = MadeBy(k, FALSE)
    /\ UNCHANGED <<snap, engine, srun, clone, requests, faults, cut>>

(* What request k has written is the file only if the file is still its.   *)
Complete(k) == file' = IF file.by = {k} THEN MadeBy(k, TRUE) ELSE file

(* Faulty variant of CloneFile: answers before it has copied anything.     *)
CloneFileEarly(k) ==
    /\ posts[k] = "clone"
    /\ Reply(k, "ok")
    /\ UNCHANGED <<snap, file, engine, srun, clone, requests, faults, cut>>

(* FICLONE; when the file system refuses, the file is removed, to be       *)
(* copied instead.                                                         *)
CloneFile(k) ==
    /\ posts[k] = "clone"
    /\ \/ Complete(k) /\ Reply(k, "ok")
       \/ file' = NoFile /\ Goto(k, "copy")
    /\ UNCHANGED <<snap, engine, srun, clone, requests, faults, cut>>

(* CopyFile: opened with O_TRUNC, filled, closed.                          *)
OpenCopy(k) ==
    /\ posts[k] = "copy"
    /\ file' = MadeBy(k, FALSE)
    /\ Goto(k, "fill")
    /\ UNCHANGED <<snap, engine, srun, clone, requests, faults, cut>>

FillCopy(k) ==
    /\ posts[k] = "fill"
    /\ Complete(k) /\ Reply(k, "ok")
    /\ UNCHANGED <<snap, engine, srun, clone, requests, faults, cut>>

(* stat, open, or the copy fails; what has been written of it stays.       *)
SidecarFails(k) ==
    /\ posts[k] \in {"stat", "open", "copy", "fill"} /\ Fault
    /\ Reply(k, "error")
    /\ cut' = (cut \/ posts[k] = "fill")
    /\ UNCHANGED <<snap, file, engine, srun, clone, requests>>

Sidecar(k) ==
    \/ StatDestination(k) \/ OpenDestination(k) \/ CloneFile(k)
    \/ OpenCopy(k) \/ FillCopy(k)

-----------------------------------------------------------------------------
(* The engine's pod stops, or the engine is deleted by a restore; the      *)
(* other controllers bring it back.                                        *)
EngineStops ==
    /\ engine = "up" /\ Fault
    /\ \E e \in {"gone", "noPod"} : StopEngine(e)
    /\ UNCHANGED <<snap, file, clone, requests>>

(* A deleted volume has nobody who would make its engine.                  *)
EngineStarts ==
    /\ engine \in {"gone", "noPod"}
    /\ engine' = "up"
    /\ UNCHANGED <<snap, file, posts, srun, clone, requests, faults, cut>>

(* The replica controller looks the path up (no snapshot, no path) and has *)
(* the node agent create the file of the new volume: a copy of the         *)
(* snapshot, or an empty file; a path without a file is an error.          *)
ProvisionClone ==
    /\ clone.pc = "asked"
    /\ \/ snap.path /\ file.here
          /\ clone' = [pc |-> "made", image |-> "snapshot"]
       \/ ~snap.path /\ clone' = [pc |-> "made", image |-> "none"]
    /\ UNCHANGED <<snap, file, engine, posts, srun, requests, faults, cut>>

(* The node agent then makes a file system on it, in either case.          *)
FormatClone ==
    /\ clone.pc = "made"
    /\ clone' = [pc |-> "ready", image |-> "blank"]
    /\ UNCHANGED <<snap, file, engine, posts, srun, requests, faults, cut>>

Next ==
    \/ Users \/ Controller \/ GiveUp
    \/ (\E k \in Slots : Sidecar(k) \/ SidecarFails(k))
    \/ EngineStops \/ EngineStarts \/ ProvisionClone \/ FormatClone

Spec == Init /\ [][Next]_vars

(* Queued reconciles run, the sidecar finishes what it has begun, and the  *)
(* engine of a volume comes back.                                          *)
Fairness ==
    /\ WF_vars(Controller)
    /\ \A k \in Slots : WF_vars(Sidecar(k))
    /\ WF_vars(EngineStarts)

FairSpec == Spec /\ Fairness

-----------------------------------------------------------------------------
(* The values of the variables.                                            *)
TypeOK ==
    /\ snap \in Snaps
    /\ file \in [here : BOOLEAN, full : BOOLEAN, by : SUBSET Slots]
    /\ engine \in Engines
    /\ posts \in [Slots -> PostPCs]
    /\ srun \in SRuns /\ clone \in Clones
    /\ requests \in 0 .. MaxRequests /\ faults \in 0 .. MaxFaults
    /\ cut \in BOOLEAN

(* A sidecar is only asked for the file of a snapshot whose finalizer is   *)
(* set, and the finalizer stays until reconcileDelete has had its turn: a  *)
(* user's Delete cannot remove an object that may have a file.             *)
FinalizerGuardsFile ==
    snap.phase \in {"Creating"} \cup Decided \/ srun.pc # "idle" => snap.fin

(* Ready and Failed are final, whatever requests are still under way in    *)
(* the sidecar and whatever it answers: the object leaves its verdict only *)
(* by being removed, which takes a user's Delete.                          *)
VerdictIsFinal ==
    [][snap.phase \in Decided =>
          \/ snap'.phase = snap.phase /\ snap'.path = snap.path
          \/ snap'.phase = "absent" /\ snap.del]_vars

(* "snapshot file is ready": a snapshot that is Ready has a complete file. *)
(* The code does not ensure it: after a lost answer or a crash the sidecar *)
(* answers for the file it finds.                                          *)
ReadyIsComplete == snap.phase = "Ready" /\ ~snap.del => file.full

(* It does unless the controller gave up on a request at work, or the      *)
(* sidecar failed or stopped while it was making the file: no other        *)
(* failure, conflict, deletion or re-creation makes a torn file Ready.     *)
ReadyIsCompleteUnlessCut == cut \/ ReadyIsComplete

(* A snapshot that is deleted disappears, in whatever phase it was, with   *)
(* or without its file.                                                    *)
DeletionCompletes == snap.del ~> ~Present

(* The two ends without a verdict: the write that the snapshot has failed  *)
(* was dropped, or the volume was deleted after startCreate and pollCreate *)
(* asks for its engine every two seconds, for ever.                        *)
LeftUndecided ==
    srun.pc = "parked" \/ (engine = "deleted" /\ snap.phase = "Creating")

(* From its creation on, every snapshot becomes Ready or Failed, unless it *)
(* is deleted or left undecided in one of these two ways: no other failed  *)
(* call, lost answer, crash or conflict holds it up.                       *)
RequestDecided ==
    Present ~> (snap.phase \in Decided \/ snap.del \/ ~Present \/ LeftUndecided)

(* "created from snapshot": the file of a volume made from a snapshot      *)
(* holds the snapshot.                                                     *)
RestoreHoldsSnapshot == clone.pc = "ready" => clone.image = "snapshot"
=============================================================================
