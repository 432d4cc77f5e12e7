--------------------------- MODULE Snapshots_proofs ---------------------------
(***************************************************************************)
(* Proofs about the life of a snapshot, for any number of requests in the  *)
(* sidecar, of users and of failures.                                      *)
(***************************************************************************)
EXTENDS Snapshots, TLAPS

(* The finalizer is set from the first phase on, and on every object that  *)
(* is being deleted; a reconcile that is removing it works on such an      *)
(* object, one that waits or is parked on a snapshot without a verdict.    *)
Guarded ==
    /\ snap.phase \notin {"absent", ""} => snap.fin
    /\ snap.del => snap.fin /\ Present
    /\ srun.pc = "remove" => snap.del
    /\ srun.pc = "wait" => snap.phase = "Creating"
    /\ srun.pc = "parked" => snap.phase = "Pending"
    /\ snap.fin => Present

IndInv == TypeOK /\ Guarded

(* The invariant holds at the start.                                       *)
LEMMA InitIndInv == Init => IndInv
<1> SUFFICES ASSUME Init PROVE IndInv
  OBVIOUS
<1>1. cut \in BOOLEAN
  BY Zenon DEF Init
<1>2. /\ snap = NoSnap /\ file = NoFile /\ engine = "up" /\ srun = SIdle
      /\ posts = [k \in Slots |-> "free"]
      /\ clone = [pc |-> "none", image |-> "none"]
      /\ requests = MaxRequests /\ faults = MaxFaults
  BY Zenon DEF Init
<1>3. TypeOK
  BY <1>1, <1>2, SnapshotsAssumption
     DEF TypeOK, Snaps, NoSnap, NoFile, SIdle, SRuns, Clones, PostPCs, Phases, Decided,
         Engines
<1>4. Guarded
  BY <1>2 DEF Guarded, NoSnap, SIdle, Present
<1> QED BY <1>3, <1>4 DEF IndInv

(* A bounded counter that is counted down stays within its bounds.         *)
LEMMA CountDown == ASSUME NEW n \in Nat, NEW c \in 0 .. n, c > 0 PROVE c - 1 \in 0 .. n
OBVIOUS

(* What the end of the engine leaves.                                      *)
LEMMA Stopped ==
    ASSUME EngineStops \/ DeleteVolume
    PROVE  /\ snap' = snap /\ file' = file /\ clone' = clone
           /\ srun' = srun \/ srun' = SIdle
           /\ posts' = [k \in Slots |-> "free"]
           /\ engine' \in Engines
<1>1. PICK e \in {"gone", "noPod", "deleted"} : StopEngine(e)
  BY Zenon DEF EngineStops, DeleteVolume
<1>2. snap' = snap /\ file' = file /\ clone' = clone
  BY Zenon DEF EngineStops, DeleteVolume
<1>3. /\ engine' = e /\ posts' = [k \in Slots |-> "free"]
      /\ srun' = srun \/ srun' = SIdle
  BY <1>1, Zenon DEF StopEngine
<1> QED BY <1>2, <1>3 DEF Engines

(* The history keeps its type.                                             *)
LEMMA StepCut == ASSUME cut \in BOOLEAN, [Next]_vars PROVE cut' \in BOOLEAN
<1>1. CASE Users
  BY <1>1, Zenon DEF Users, CreateSnapshot, DeleteSnapshot, CreateFromSnapshot,
     DeleteVolume, StopEngine
<1>2. CASE Controller
  BY <1>2, Zenon DEF Controller, AddFinalizer, MarkPending, StartCreate, PostSnapshot,
     TakeAnswer, MisreadAnswer, Conclude, DeleteFile, RemoveFinalizer
<1>3. CASE GiveUp \/ EngineStops \/ (\E k \in Slots : SidecarFails(k))
  BY <1>3, Zenon DEF GiveUp, EngineStops, StopEngine, SidecarFails
<1>4. CASE \E k \in Slots : Sidecar(k)
  BY <1>4, Zenon DEF Sidecar, StatDestination, OpenDestination, CloneFile, OpenCopy, FillCopy
<1>5. CASE EngineStarts \/ ProvisionClone \/ FormatClone \/ UNCHANGED vars
  BY <1>5, Zenon DEF EngineStarts, ProvisionClone, FormatClone, vars
<1> QED BY <1>1, <1>2, <1>3, <1>4, <1>5 DEF Next

(* The types are preserved by every step.                                  *)
LEMMA StepType == TypeOK /\ [Next]_vars => TypeOK'
<1> SUFFICES ASSUME TypeOK, [Next]_vars PROVE TypeOK'
  OBVIOUS
<1>a. Ask => requests' \in 0 .. MaxRequests
  BY SnapshotsAssumption, CountDown DEF Ask, TypeOK
<1>b. Fault => faults' \in 0 .. MaxFaults
  BY SnapshotsAssumption, CountDown DEF Fault, TypeOK
<1>c. cut' \in BOOLEAN
  BY StepCut DEF TypeOK
<1> USE <1>c DEF TypeOK, Snaps, NoSnap, SIdle, SRuns, Phases, Decided, Answers, PostPCs
<1>1. CASE CreateSnapshot
  BY <1>a, <1>1 DEF CreateSnapshot
<1>2. CASE DeleteSnapshot
  BY <1>a, <1>2 DEF DeleteSnapshot
<1>3. CASE CreateFromSnapshot
  BY <1>a, <1>3 DEF CreateFromSnapshot, Clones
<1>4. CASE AddFinalizer
  BY <1>4 DEF AddFinalizer
<1>5. CASE MarkPending
  BY <1>5 DEF MarkPending
<1>6. CASE StartCreate
  <2>1. snap' \in Snaps
    BY <1>6 DEF StartCreate
  <2>2. faults' \in 0 .. MaxFaults
    BY <1>b, <1>6 DEF StartCreate
  <2>3. srun' \in SRuns
    BY <1>6 DEF StartCreate
  <2> QED BY <1>6, <2>1, <2>2, <2>3 DEF StartCreate
<1>7. CASE RemoveFinalizer
  BY <1>7 DEF RemoveFinalizer
<1>8. ASSUME NEW k \in Slots, PostSnapshot(k) PROVE TypeOK'
  BY <1>8 DEF PostSnapshot
<1>9. ASSUME NEW k \in Slots, TakeAnswer(k) \/ MisreadAnswer(k) PROVE TypeOK'
  <2>1. PICK answer : Conclude(k, answer)
    BY <1>9 DEF TakeAnswer, MisreadAnswer
  <2>2. snap' \in Snaps
    BY <2>1 DEF Conclude, Outcome
  <2>3. faults' \in 0 .. MaxFaults
    BY <1>b, <1>9 DEF TakeAnswer, MisreadAnswer
  <2>4. posts' \in [Slots -> PostPCs] /\ srun' \in SRuns
    BY <2>1 DEF Conclude
  <2> QED BY <2>1, <2>2, <2>3, <2>4 DEF Conclude
<1>10. CASE DeleteFile
  <2>1. file' \in [here : BOOLEAN, full : BOOLEAN, by : SUBSET Slots]
    <3>1. file' = NoFile \/ file' = file
      BY <1>10 DEF DeleteFile
    <3>2. NoFile \in [here : BOOLEAN, full : BOOLEAN, by : SUBSET Slots]
      BY DEF NoFile
    <3> QED BY <3>1, <3>2
  <2>2. faults' \in 0 .. MaxFaults
    BY <1>b, <1>10 DEF DeleteFile
  <2>3. srun' \in SRuns
    BY <1>10 DEF DeleteFile
  <2> QED BY <1>10, <2>1, <2>2, <2>3 DEF DeleteFile
<1>11. CASE GiveUp
  <2>1. faults' \in 0 .. MaxFaults
    BY <1>b, <1>11 DEF GiveUp
  <2> QED BY <1>11, <2>1 DEF GiveUp
<1>12. ASSUME NEW k \in Slots, Sidecar(k) \/ SidecarFails(k) PROVE TypeOK'
  <2>1. ASSUME NEW answer \in Answers, Reply(k, answer) PROVE posts' \in [Slots -> PostPCs]
    BY <1>12, <2>1 DEF Reply
  <2>2. ASSUME NEW pc \in PostPCs, Goto(k, pc) PROVE posts' \in [Slots -> PostPCs]
    BY <1>12, <2>2 DEF Goto
  <2> DEFINE Files == [here : BOOLEAN, full : BOOLEAN, by : SUBSET Slots]
  <2>3. ASSUME NEW full \in BOOLEAN PROVE MadeBy(k, full) \in Files
    BY <1>12 DEF MadeBy
  <2>4. Complete(k) => file' \in Files
    BY <2>3 DEF Complete
  <2>5. NoFile \in Files
    BY DEF NoFile
  <2> HIDE DEF Files
  <2>6. file \in Files
    BY DEF Files
  <2>7. CASE StatDestination(k)
    BY <2>1, <2>2, <2>7 DEF StatDestination
  <2>8. CASE OpenDestination(k)
    <3>1. posts' \in [Slots -> PostPCs]
      BY <2>1, <2>2, <2>8 DEF OpenDestination
    <3>2. file' \in Files
      BY <2>3, <2>6, <2>8 DEF OpenDestination
    <3> QED BY <2>8, <3>1, <3>2 DEF OpenDestination, Files
  <2>9. CASE CloneFile(k)
    <3>1. posts' \in [Slots -> PostPCs]
      BY <2>1, <2>2, <2>9 DEF CloneFile
    <3>2. file' \in Files
      BY <2>4, <2>5, <2>9 DEF CloneFile
    <3> QED BY <2>9, <3>1, <3>2 DEF CloneFile, Files
  <2>10. CASE OpenCopy(k)
    <3>1. posts' \in [Slots -> PostPCs]
      BY <2>2, <2>10 DEF OpenCopy
    <3>2. file' \in Files
      BY <2>3, <2>10 DEF OpenCopy
    <3> QED BY <2>10, <3>1, <3>2 DEF OpenCopy, Files
  <2>11. CASE FillCopy(k)
    <3>1. posts' \in [Slots -> PostPCs]
      BY <2>1, <2>11 DEF FillCopy
    <3>2. file' \in Files
      BY <2>4, <2>11 DEF FillCopy
    <3> QED BY <2>11, <3>1, <3>2 DEF FillCopy, Files
  <2>12. CASE SidecarFails(k)
    <3>1. posts' \in [Slots -> PostPCs]
      BY <2>1, <2>12 DEF SidecarFails
    <3>2. faults' \in 0 .. MaxFaults
      BY <1>b, <2>12 DEF SidecarFails
    <3> QED BY <2>12, <3>1, <3>2 DEF SidecarFails
  <2> QED BY <1>12, <2>7, <2>8, <2>9, <2>10, <2>11, <2>12 DEF Sidecar
<1>13. CASE EngineStops
  <2>1. faults' \in 0 .. MaxFaults
    BY <1>b, <1>13 DEF EngineStops
  <2>2. requests' = requests
    BY <1>13 DEF EngineStops
  <2>3. /\ snap' = snap /\ file' = file /\ clone' = clone
        /\ srun' = srun \/ srun' = SIdle
        /\ posts' = [k \in Slots |-> "free"]
        /\ engine' \in Engines
    BY <1>13, Stopped, Zenon
  <2>4. SIdle \in SRuns
    OBVIOUS
  <2> QED BY <2>1, <2>2, <2>3, <2>4
<1>14. CASE EngineStarts
  BY <1>14 DEF EngineStarts, Engines
<1>15. CASE ProvisionClone
  <2>1. clone' \in Clones
    <3>1. \/ clone' = [pc |-> "made", image |-> "snapshot"]
          \/ clone' = [pc |-> "made", image |-> "none"]
      BY <1>15 DEF ProvisionClone
    <3>2. /\ [pc |-> "made", image |-> "snapshot"] \in Clones
          /\ [pc |-> "made", image |-> "none"] \in Clones
      BY DEF Clones
    <3> QED BY <3>1, <3>2
  <2> QED BY <1>15, <2>1 DEF ProvisionClone
<1>16. CASE FormatClone
  <2>1. clone' \in Clones
    BY <1>16 DEF FormatClone, Clones
  <2> QED BY <1>16, <2>1 DEF FormatClone
<1>17. CASE DeleteVolume
  <2>1. requests' \in 0 .. MaxRequests /\ faults' = faults
    BY <1>a, <1>17 DEF DeleteVolume
  <2>2. /\ snap' = snap /\ file' = file /\ clone' = clone
        /\ srun' = srun \/ srun' = SIdle
        /\ posts' = [k \in Slots |-> "free"]
        /\ engine' \in Engines
    BY <1>17, Stopped, Zenon
  <2>3. SIdle \in SRuns
    OBVIOUS
  <2> QED BY <2>1, <2>2, <2>3
<1>18. CASE UNCHANGED vars
  BY <1>18 DEF vars
<1> QED
  BY <1>1, <1>2, <1>3, <1>4, <1>5, <1>6, <1>7, <1>8, <1>9, <1>10, <1>11, <1>12,
     <1>13, <1>14, <1>15, <1>16, <1>17, <1>18 DEF Next, Users, Controller

(* So is the guard of the finalizer.                                       *)
LEMMA StepGuarded == IndInv /\ [Next]_vars => Guarded'
<1> SUFFICES ASSUME TypeOK, Guarded, [Next]_vars PROVE Guarded'
  BY DEF IndInv
<1> USE DEF TypeOK, Guarded, Snaps, SRuns, Phases, Decided, Present, NoSnap, SIdle
<1>1. CASE CreateSnapshot
  BY <1>1 DEF CreateSnapshot
<1>2. CASE DeleteSnapshot
  BY <1>2 DEF DeleteSnapshot
<1>3. CASE CreateFromSnapshot
  BY <1>3 DEF CreateFromSnapshot
<1>4. CASE AddFinalizer
  BY <1>4 DEF AddFinalizer, Reconciles
<1>5. CASE MarkPending
  BY <1>5 DEF MarkPending, ReconcilesPhase, Reconciles
<1>6. CASE StartCreate
  BY <1>6 DEF StartCreate, ReconcilesPhase, Reconciles
<1>7. CASE RemoveFinalizer
  BY <1>7 DEF RemoveFinalizer
<1>8. ASSUME NEW k \in Slots, PostSnapshot(k) PROVE Guarded'
  BY <1>8 DEF PostSnapshot, ReconcilesPhase, Reconciles
<1>9. ASSUME NEW k \in Slots, TakeAnswer(k) \/ MisreadAnswer(k) PROVE Guarded'
  <2>1. PICK answer : Conclude(k, answer)
    BY <1>9 DEF TakeAnswer, MisreadAnswer
  <2>2. srun.pc = "wait" /\ srun'.pc = "idle" /\ snap.fin
    BY <2>1 DEF Conclude
  <2>3. snap' = Outcome(answer) \/ snap' = snap
    BY <2>1 DEF Conclude
  <2>4. /\ snap'.fin = snap.fin /\ snap'.del = snap.del
        /\ snap'.phase \in {"Ready", "Failed", snap.phase}
    BY <2>3 DEF Outcome
  <2> QED BY <2>2, <2>4
<1>10. CASE DeleteFile
  BY <1>10 DEF DeleteFile
<1>11. CASE GiveUp
  BY <1>11 DEF GiveUp
<1>12. ASSUME NEW k \in Slots, Sidecar(k) \/ SidecarFails(k) PROVE Guarded'
  <2>1. snap' = snap /\ srun' = srun
    BY <1>12, Zenon DEF Sidecar, StatDestination, OpenDestination, CloneFile, OpenCopy,
       FillCopy, SidecarFails
  <2> QED BY <2>1
<1>13. CASE EngineStops \/ DeleteVolume
  <2>1. snap' = snap /\ (srun'.pc = srun.pc \/ srun'.pc = "idle")
    <3>1. snap' = snap /\ (srun' = srun \/ srun' = SIdle)
      BY <1>13, Stopped, Zenon
    <3>2. SIdle.pc = "idle"
      OBVIOUS
    <3> HIDE DEF SIdle
    <3> QED BY <3>1, <3>2, Zenon
  <2> QED BY <2>1
<1>14. CASE EngineStarts
  BY <1>14 DEF EngineStarts
<1>15. CASE ProvisionClone
  BY <1>15 DEF ProvisionClone
<1>16. CASE FormatClone
  BY <1>16 DEF FormatClone
<1>17. CASE UNCHANGED vars
  BY <1>17 DEF vars
<1> QED
  BY <1>1, <1>2, <1>3, <1>4, <1>5, <1>6, <1>7, <1>8, <1>9, <1>10, <1>11, <1>12,
     <1>13, <1>14, <1>15, <1>16, <1>17 DEF Next, Users, Controller

(* IndInv is an invariant of the specification.                            *)
LEMMA Inductive == Spec => []IndInv
<1>1. IndInv /\ [Next]_vars => IndInv'
  BY StepType, StepGuarded DEF IndInv
<1> QED BY InitIndInv, <1>1, PTL DEF Spec

(* For any number of sidecar requests, users and failures: the variables   *)
(* of the snapshot's life keep their types.                                *)
THEOREM SnapshotTypes == Spec => []TypeOK
BY Inductive, PTL DEF IndInv

(* No snapshot is ever made for, and no reconcile ever waits on, an object *)
(* that a user's Delete could remove without reconcileDelete.              *)
THEOREM FinalizerIsSet == Spec => []FinalizerGuardsFile
<1>1. IndInv => FinalizerGuardsFile
  BY DEF IndInv, Guarded, FinalizerGuardsFile, TypeOK, SRuns, Decided, Present
<1> QED BY Inductive, <1>1, PTL

(* Ready and Failed are final: no late answer and no conflicting write     *)
(* changes a verdict, and only a deletion a user asked for ends it.        *)
THEOREM VerdictsAreFinal == Spec => VerdictIsFinal
<1> DEFINE Final == snap.phase \in Decided =>
                       \/ snap'.phase = snap.phase /\ snap'.path = snap.path
                       \/ snap'.phase = "absent" /\ snap.del
<1>1. ASSUME IndInv, [Next]_vars PROVE Final \/ UNCHANGED vars
  <2> USE <1>1 DEF IndInv, TypeOK, Guarded, Snaps, SRuns, Decided, Phases, Present, NoSnap
  <2>1. CASE CreateSnapshot
    BY <2>1 DEF CreateSnapshot
  <2>2. CASE DeleteSnapshot
    BY <2>2 DEF DeleteSnapshot
  <2>3. CASE AddFinalizer
    BY <2>3 DEF AddFinalizer
  <2>4. CASE MarkPending
    BY <2>4 DEF MarkPending
  <2>5. CASE StartCreate
    BY <2>5 DEF StartCreate
  <2>6. CASE RemoveFinalizer
    BY <2>6 DEF RemoveFinalizer
  <2>7. ASSUME NEW k \in Slots, TakeAnswer(k) \/ MisreadAnswer(k) PROVE Final
    BY <2>7 DEF TakeAnswer, MisreadAnswer, Conclude
  <2>8. ASSUME snap' = snap PROVE Final
    BY <2>8
  <2>9. ASSUME NEW k \in Slots, PostSnapshot(k) \/ Sidecar(k) \/ SidecarFails(k)
        PROVE Final
    <3>1. snap' = snap
      BY <2>9 DEF PostSnapshot, Sidecar, StatDestination, OpenDestination, CloneFile,
         OpenCopy, FillCopy, SidecarFails
    <3> QED BY <2>8, <3>1
  <2>10. CASE CreateFromSnapshot \/ DeleteFile \/ GiveUp
    BY <2>8, <2>10 DEF CreateFromSnapshot, DeleteFile, GiveUp
  <2>11. CASE EngineStops \/ EngineStarts \/ DeleteVolume \/ ProvisionClone \/ FormatClone
    BY <2>8, <2>11 DEF EngineStops, EngineStarts, DeleteVolume, ProvisionClone, FormatClone
  <2> HIDE DEF Final
  <2> QED
    BY <1>1, <2>1, <2>2, <2>3, <2>4, <2>5, <2>6, <2>7, <2>9, <2>10, <2>11
       DEF Next, Users, Controller
<1>2. IndInv /\ [Next]_vars => [Final]_vars
  BY <1>1
<1> QED BY Inductive, <1>2, PTL DEF VerdictIsFinal, Spec
-----------------------------------------------------------------------------
(* While no request was cut there is one in the sidecar at most, the one   *)
(* that the reconcile waits for; the file is its own while it makes it,    *)
(* and complete when nobody does.                                          *)
Alone == \A k \in Slots : posts[k] # "free" => srun.pc = "wait" /\ srun.slot = {k}
Makes(k) == posts[k] \in {"clone", "fill"}
CalmFile ==
    /\ \A k \in Slots : Makes(k) => file.by = {k}
    /\ \A k \in Slots : posts[k] \in {"open", "copy"} => ~file.here
    /\ file.here /\ ~file.full => \E k \in Slots : Makes(k)
CalmAnswers ==
    /\ \A k \in Slots : posts[k] = "ok" => file.full
    /\ ReadyIsComplete
Calm == Alone /\ CalmFile /\ CalmAnswers
CalmInv == cut \/ Calm

(* The invariant of the calm holds at the start.                           *)
LEMMA InitCalm == Init => CalmInv
BY DEF Init, CalmInv, Calm, Alone, CalmFile, CalmAnswers, Makes, ReadyIsComplete,
   NoFile, NoSnap

(* A request that has been cut stays so.                                   *)
LEMMA CutStays == ASSUME [Next]_vars, cut PROVE cut'
<1>1. CASE Users
  BY <1>1 DEF Users, CreateSnapshot, DeleteSnapshot, CreateFromSnapshot,
     DeleteVolume, StopEngine
<1>2. CASE Controller
  BY <1>2 DEF Controller, AddFinalizer, MarkPending, StartCreate, PostSnapshot,
     TakeAnswer, MisreadAnswer, Conclude, DeleteFile, RemoveFinalizer
<1>3. CASE GiveUp \/ EngineStops \/ (\E k \in Slots : SidecarFails(k))
  BY <1>3 DEF GiveUp, EngineStops, StopEngine, SidecarFails
<1>4. CASE \E k \in Slots : Sidecar(k)
  BY <1>4 DEF Sidecar, StatDestination, OpenDestination, CloneFile, OpenCopy, FillCopy
<1>5. CASE EngineStarts \/ ProvisionClone \/ FormatClone \/ UNCHANGED vars
  BY <1>5 DEF EngineStarts, ProvisionClone, FormatClone, vars
<1> QED BY <1>1, <1>2, <1>3, <1>4, <1>5 DEF Next

(* Steps that touch neither the file nor the requests nor what a waiting   *)
(* reconcile waits for.                                                    *)
LEMMA CalmElsewhere ==
    ASSUME Calm, posts' = posts, file' = file, ReadyIsComplete',
           srun.pc = "wait" => srun'.pc = srun.pc /\ srun'.slot = srun.slot
    PROVE  Calm'
BY DEF Calm, Alone, CalmFile, CalmAnswers, Makes

(* Steps that leave the sidecar nothing to do.                             *)
LEMMA CalmAtRest ==
    ASSUME \A k \in Slots : posts'[k] = "free", file'.here => file'.full,
           ReadyIsComplete'
    PROVE  Calm'
BY DEF Calm, Alone, CalmFile, CalmAnswers, Makes

(* The sidecar works on request k: nobody else does, and the reconcile     *)
(* waits.                                                                  *)
LEMMA CalmSidecar ==
    ASSUME IndInv, Calm, NEW k \in Slots, Sidecar(k) PROVE Calm'
<1>1. /\ srun' = srun /\ snap' = snap /\ posts[k] # "free"
      /\ posts[k] \in {"stat", "open", "clone", "copy", "fill"}
  BY DEF Sidecar, StatDestination, OpenDestination, CloneFile, OpenCopy, FillCopy
<1>2. srun.pc = "wait" /\ srun.slot = {k}
  BY <1>1 DEF Calm, Alone
<1>3. \A j \in Slots : j # k => posts[j] = "free"
  BY <1>2 DEF Calm, Alone
<1>4. ReadyIsComplete'
  BY <1>1, <1>2 DEF IndInv, Guarded, ReadyIsComplete
<1>5. \A j \in Slots : j # k => posts'[j] = "free"
  <2>1. \E pc \in PostPCs : posts' = [posts EXCEPT ![k] = pc]
    BY <1>2 DEF Sidecar, StatDestination, OpenDestination, CloneFile, OpenCopy, FillCopy,
       Reply, Goto, PostPCs, Answers
  <2> QED BY <1>3, <2>1 DEF IndInv, TypeOK
<1>6. /\ posts'[k] = "ok" => file'.full
      /\ posts'[k] \in {"clone", "fill"} => file'.by = {k}
      /\ posts'[k] \in {"open", "copy"} => ~file'.here
      /\ file'.here /\ ~file'.full => posts'[k] \in {"clone", "fill"}
  <2>1. posts \in [Slots -> PostPCs]
    BY DEF IndInv, TypeOK
  <2>2. /\ Makes(k) => file.by = {k}
        /\ posts[k] \in {"open", "copy"} => ~file.here
        /\ file.here /\ ~file.full => Makes(k)
    BY <1>3 DEF Calm, CalmFile, Makes
  <2>3. ASSUME NEW pc, Reply(k, pc) \/ Goto(k, pc) PROVE posts'[k] = pc
    BY <1>2, <2>1, <2>3 DEF Reply, Goto
  <2>4. CASE StatDestination(k)
    BY <2>2, <2>3, <2>4 DEF StatDestination, Makes
  <2>5. CASE OpenDestination(k)
    BY <2>2, <2>3, <2>5 DEF OpenDestination, MadeBy
  <2>6. CASE CloneFile(k)
    <3>1. file.by = {k}
      BY <2>2, <2>6 DEF CloneFile, Makes
    <3>2. CASE Complete(k) /\ Reply(k, "ok")
      BY <2>3, <3>1, <3>2 DEF Complete, MadeBy
    <3>3. CASE file' = NoFile /\ Goto(k, "copy")
      BY <2>3, <3>3 DEF NoFile
    <3> QED BY <2>6, <3>2, <3>3 DEF CloneFile
  <2>7. CASE OpenCopy(k)
    BY <2>3, <2>7 DEF OpenCopy, MadeBy
  <2>8. CASE FillCopy(k)
    <3>1. file.by = {k}
      BY <2>2, <2>8 DEF FillCopy, Makes
    <3> QED BY <2>3, <2>8, <3>1 DEF FillCopy, Complete, MadeBy
  <2> QED BY <2>4, <2>5, <2>6, <2>7, <2>8 DEF Sidecar
<1>7. Alone'
  BY <1>1, <1>2, <1>5 DEF Alone
<1>8. CalmFile'
  BY <1>5, <1>6 DEF CalmFile, Makes
<1>9. CalmAnswers'
  BY <1>4, <1>5, <1>6 DEF CalmAnswers
<1> QED BY <1>7, <1>8, <1>9 DEF Calm

(* The reconcile takes the answer, or takes it for an error.               *)
LEMMA CalmAnswered ==
    ASSUME IndInv, Calm, NEW k \in Slots, TakeAnswer(k) \/ MisreadAnswer(k) PROVE Calm'
<1>1. PICK answer : Conclude(k, answer) /\ (answer = posts[k] \/ answer = "error")
  BY DEF TakeAnswer, MisreadAnswer
<1>2. /\ srun.slot = {k} /\ posts[k] \in Answers /\ file' = file
      /\ posts' = [posts EXCEPT ![k] = "free"]
      /\ snap' = Outcome(answer) \/ snap' = snap
  BY <1>1 DEF Conclude
<1>3. posts[k] = "ok" => file.full
  BY DEF Calm, CalmAnswers
<1>4. file.here => file.full
  <2>1. \A j \in Slots : ~Makes(j)
    BY <1>2 DEF Calm, Alone, Makes, Answers
  <2> QED BY <2>1 DEF Calm, CalmFile, IndInv, TypeOK
<1>5. \A j \in Slots : posts'[j] = "free"
  BY <1>2 DEF IndInv, TypeOK, Calm, Alone
<1>6. ReadyIsComplete'
  <2>1. CASE snap' = snap
    BY <1>2, <2>1 DEF ReadyIsComplete, Calm, CalmAnswers
  <2>2. CASE snap' = Outcome(answer) /\ answer = "ok"
    BY <1>1, <1>2, <1>3, <2>2 DEF ReadyIsComplete
  <2>3. CASE snap' = Outcome(answer) /\ answer # "ok"
    BY <2>3 DEF ReadyIsComplete, Outcome, IndInv, TypeOK, Snaps
  <2> QED BY <1>2, <2>1, <2>2, <2>3
<1> QED BY <1>2, <1>4, <1>5, <1>6, CalmAtRest

(* The sidecar fails before there is anything of its file.                 *)
LEMMA CalmFailure ==
    ASSUME IndInv, Calm, NEW k \in Slots, SidecarFails(k), posts[k] # "fill" PROVE Calm'
<1>1. /\ srun' = srun /\ snap' = snap /\ file' = file
      /\ posts[k] \in {"stat", "open", "copy"}
      /\ Reply(k, "error")
  BY DEF SidecarFails
<1>2. srun.pc = "wait" /\ srun.slot = {k}
  BY <1>1 DEF Calm, Alone
<1>3. /\ \A j \in Slots : j # k => posts[j] = "free" /\ posts'[j] = "free"
      /\ posts'[k] = "error"
  BY <1>1, <1>2 DEF Calm, Alone, Reply, IndInv, TypeOK
<1>4. file'.here => file'.full
  <2>1. \A j \in Slots : ~Makes(j)
    BY <1>1, <1>3 DEF Makes
  <2> QED BY <1>1, <2>1 DEF Calm, CalmFile, IndInv, TypeOK
<1>5. ReadyIsComplete'
  BY <1>1 DEF Calm, CalmAnswers, ReadyIsComplete
<1>6. Alone'
  BY <1>1, <1>2, <1>3 DEF Alone
<1> QED BY <1>3, <1>4, <1>5, <1>6 DEF Calm, CalmFile, CalmAnswers, Makes

(* The engine ends, or the reconcile is given up, and  the sidecar is not  *)
(* at work on the file.                                                    *)
LEMMA CalmStop ==
    ASSUME IndInv, Calm,
           \/ (EngineStops \/ DeleteVolume) /\ \A k \in Slots : ~Makes(k)
           \/ GiveUp /\ \A k \in srun.slot : posts[k] \in Answers
    PROVE  Calm'
<1>1. snap' = snap /\ file' = file
  BY DEF EngineStops, DeleteVolume, GiveUp
<1>2. \A k \in Slots : ~Makes(k)
  <2>1. ASSUME NEW k \in Slots, GiveUp, \A j \in srun.slot : posts[j] \in Answers
        PROVE  ~Makes(k)
    BY <2>1 DEF Calm, Alone, Makes, Answers
  <2> QED BY <2>1
<1>3. file'.here => file'.full
  BY <1>1, <1>2 DEF Calm, CalmFile, IndInv, TypeOK
<1>4. \A k \in Slots : posts'[k] = "free"
  <2>1. CASE EngineStops \/ DeleteVolume
    BY <2>1, Stopped
  <2>2. CASE GiveUp /\ \A k \in srun.slot : posts[k] \in Answers
    <3> SUFFICES ASSUME NEW k \in Slots PROVE posts'[k] = "free"
      OBVIOUS
    <3>1. posts[k] # "free" => srun.slot = {k} /\ posts[k] \in Answers
      BY <2>2 DEF Calm, Alone
    <3> QED BY <2>2, <3>1 DEF GiveUp
  <2> QED BY <2>1, <2>2
<1>5. ReadyIsComplete'
  BY <1>1 DEF Calm, CalmAnswers, ReadyIsComplete
<1> QED BY <1>3, <1>4, <1>5, CalmAtRest

(* The calm is preserved by every step that does not cut a request.        *)
LEMMA StepCalm == IndInv /\ CalmInv /\ [Next]_vars => CalmInv'
<1> SUFFICES ASSUME IndInv, CalmInv, [Next]_vars, ~cut' PROVE Calm'
  BY DEF CalmInv
<1>a. Calm
  BY CutStays DEF CalmInv
<1>b. ReadyIsComplete
  BY <1>a DEF Calm, CalmAnswers
<1>c. srun.pc # "wait" =>
        (\A k \in Slots : posts[k] = "free") /\ (file.here => file.full)
  <2> SUFFICES ASSUME srun.pc # "wait"
               PROVE  (\A k \in Slots : posts[k] = "free") /\ (file.here => file.full)
    OBVIOUS
  <2>1. \A k \in Slots : posts[k] = "free"
    BY <1>a DEF Calm, Alone
  <2>2. \A k \in Slots : ~Makes(k)
    BY <2>1 DEF Makes
  <2>3. file \in [here : BOOLEAN, full : BOOLEAN, by : SUBSET Slots]
    BY DEF IndInv, TypeOK
  <2> QED BY <1>a, <2>1, <2>2, <2>3 DEF Calm, CalmFile
<1>d. snap \in Snaps /\ srun \in SRuns
  BY DEF IndInv, TypeOK
<1>1. CASE CreateSnapshot
  BY <1>a, <1>1, CalmElsewhere DEF CreateSnapshot, ReadyIsComplete, NoSnap
<1>2. CASE DeleteSnapshot
  <2>1. /\ posts' = posts /\ file' = file
        /\ srun.pc = "wait" => srun'.pc = srun.pc /\ srun'.slot = srun.slot
    BY <1>d, <1>2 DEF DeleteSnapshot, SRuns, SIdle
  <2>2. snap'.del \/ snap'.phase = "absent"
    BY <1>d, <1>2 DEF DeleteSnapshot, Snaps, NoSnap
  <2>3. ReadyIsComplete'
    BY <2>2 DEF ReadyIsComplete
  <2> QED BY <1>a, <2>1, <2>3, CalmElsewhere
<1>3. CASE AddFinalizer
  <2>1. snap'.phase = snap.phase /\ snap'.del = snap.del /\ file' = file
    BY <1>d, <1>3 DEF AddFinalizer, Snaps
  <2>2. ReadyIsComplete'
    BY <1>b, <2>1 DEF ReadyIsComplete
  <2> QED BY <1>a, <1>3, <2>2, CalmElsewhere DEF AddFinalizer
<1>4. CASE MarkPending
  <2>1. ReadyIsComplete'
    BY <1>d, <1>4 DEF MarkPending, Snaps, ReadyIsComplete
  <2> QED BY <1>a, <1>4, <2>1, CalmElsewhere DEF MarkPending
<1>5. CASE StartCreate
  <2>1. ReadyIsComplete'
    BY <1>d, <1>5 DEF StartCreate, Snaps, ReadyIsComplete
  <2>2. posts' = posts /\ file' = file /\ srun.pc # "wait"
    BY <1>5 DEF StartCreate, ReconcilesPhase, Reconciles
  <2> QED BY <1>a, <2>1, <2>2, CalmElsewhere
<1>6. ASSUME NEW k \in Slots, PostSnapshot(k) PROVE Calm'
  <2>1. /\ posts' = [posts EXCEPT ![k] = "stat"]
        /\ srun'.pc = "wait" /\ srun'.slot = {k} /\ file' = file /\ snap' = snap
        /\ srun.pc = "idle"
    BY <1>6 DEF PostSnapshot, ReconcilesPhase, Reconciles
  <2>2. posts'[k] = "stat" /\ \A j \in Slots : j # k => posts'[j] = "free"
    BY <1>c, <2>1 DEF IndInv, TypeOK
  <2>3. ReadyIsComplete'
    BY <1>b, <2>1 DEF ReadyIsComplete
  <2>4. Alone'
    BY <2>1, <2>2 DEF Alone
  <2>5. CalmFile' /\ CalmAnswers'
    BY <1>c, <2>1, <2>2, <2>3 DEF CalmFile, CalmAnswers, Makes
  <2> QED BY <2>4, <2>5 DEF Calm
<1>7. ASSUME NEW k \in Slots, TakeAnswer(k) \/ MisreadAnswer(k) PROVE Calm'
  BY <1>a, <1>7, CalmAnswered
<1>8. CASE DeleteFile
  <2>1. /\ srun.pc # "wait" /\ posts' = posts /\ snap' = snap /\ snap.del
        /\ file' = NoFile \/ file' = file
    BY <1>8 DEF DeleteFile
  <2>2. ReadyIsComplete'
    BY <2>1 DEF ReadyIsComplete
  <2>3. file'.here => file'.full
    BY <1>c, <2>1 DEF NoFile
  <2> QED BY <1>c, <2>1, <2>2, <2>3, CalmAtRest
<1>9. CASE RemoveFinalizer
  <2>1. ReadyIsComplete'
    BY <1>9 DEF RemoveFinalizer, NoSnap, ReadyIsComplete
  <2> QED BY <1>9, <1>c, <2>1, CalmAtRest DEF RemoveFinalizer
<1>10. ASSUME NEW k \in Slots, Sidecar(k) PROVE Calm'
  BY <1>a, <1>10, CalmSidecar
<1>11. CASE CreateFromSnapshot \/ EngineStarts \/ ProvisionClone \/ FormatClone
            \/ UNCHANGED vars
  <2>1. posts' = posts /\ file' = file /\ srun' = srun /\ snap' = snap
    BY <1>11 DEF CreateFromSnapshot, EngineStarts, ProvisionClone, FormatClone, vars
  <2>2. ReadyIsComplete'
    BY <1>b, <2>1 DEF ReadyIsComplete
  <2> QED BY <1>a, <2>1, <2>2, CalmElsewhere
<1>12. ASSUME NEW k \in Slots, SidecarFails(k) PROVE Calm'
  <2>1. posts[k] # "fill"
    BY <1>12 DEF SidecarFails
  <2> QED BY <1>a, <1>12, <2>1, CalmFailure
<1>13. CASE EngineStops \/ DeleteVolume
  <2>1. \A k \in Slots : ~Makes(k)
    BY <1>13 DEF EngineStops, DeleteVolume, StopEngine, Makes
  <2> QED BY <1>a, <1>13, <2>1, CalmStop
<1>14. CASE GiveUp
  <2>1. \A k \in srun.slot : posts[k] \in Answers
    BY <1>14 DEF GiveUp
  <2> QED BY <1>a, <1>14, <2>1, CalmStop
<1> QED
  BY <1>1, <1>2, <1>3, <1>4, <1>5, <1>6, <1>7, <1>8, <1>9, <1>10, <1>11, <1>12,
     <1>13, <1>14 DEF Next, Users, Controller

(* A Ready snapshot has a complete file, however often it is deleted and   *)
(* created again and whichever calls fail, unless the controller gave up   *)
(* on a request at work, or the sidecar failed or stopped while it was     *)
(* making the file: until then the sidecar works on one request at a time, *)
(* and the file that it finds is complete.                                 *)
THEOREM UncutSnapshotsAreComplete == Spec => []ReadyIsCompleteUnlessCut
<1>1. CalmInv => ReadyIsCompleteUnlessCut
  BY DEF CalmInv, Calm, CalmAnswers, ReadyIsCompleteUnlessCut
<1> QED BY Inductive, InitCalm, StepCalm, <1>1, PTL DEF Spec
=============================================================================
