---------------------------- MODULE Roster_proofs ----------------------------
(***************************************************************************)
(* The engine's attachment list, as its writers edit it from the copies    *)
(* they hold, is a Roster.                                                 *)
(***************************************************************************)
EXTENDS ControlPlane_proofs

(* What a reconcile has added to its list says nothing yet on how to reach *)
(* the replica, and a scaleUp adds at least one attachment.                *)
NewOnesBlank ==
    /\ vrun.pc = "create" => \A p \in DOMAIN vrun.atts : ~vrun.atts[p].known
    /\ vrun.pc = "scaleUp" =>
          /\ vrun.k < vrun.want
          /\ \A p \in DOMAIN vrun.atts : p > vrun.k => ~vrun.atts[p].known

RosterInv == IndInv /\ NewOnesBlank

-----------------------------------------------------------------------------
(* The additional invariant.                                               *)

(* The step that adds an attachment leaves it blank.                       *)
LEMMA AddingBlank ==
    ASSUME TypeOK, RunOK, NewOnesBlank,
           CreateChild \/ ScaleUpReplica \/ ScaleUpNowhere
    PROVE  NewOnesBlank'
<1>0. vrun \in VRuns /\ vrun.atts \in Seq(Attachment)
  BY DEF TypeOK, VRuns
<1>1. PICK a \in Attachment :
         vrun' = [vrun EXCEPT !.atts = Append(vrun.atts, a)] /\ ~a.known
  BY NewAttachment
<1> DEFINE new == Append(vrun.atts, a)
<1>2. /\ vrun'.atts = new /\ vrun'.pc = vrun.pc /\ vrun'.k = vrun.k
      /\ vrun'.want = vrun.want
  BY <1>0, <1>1 DEF VRuns
<1>3. /\ new \in Seq(Attachment) /\ Len(new) = Len(vrun.atts) + 1
      /\ \A i \in 1 .. Len(vrun.atts) : new[i] = vrun.atts[i]
      /\ new[Len(vrun.atts) + 1] = a
  BY <1>0, AppendProperties
<1>4. /\ Len(vrun.atts) \in Nat /\ DOMAIN vrun.atts = 1 .. Len(vrun.atts)
      /\ DOMAIN new = 1 .. (Len(vrun.atts) + 1)
  BY <1>0, <1>3, LenProperties
<1> HIDE DEF new
<1>5. \A p \in DOMAIN new : (p \in DOMAIN vrun.atts /\ new[p] = vrun.atts[p]) \/ new[p] = a
  BY <1>3, <1>4
<1> QED BY <1>1, <1>2, <1>5 DEF NewOnesBlank

(* Every step of the volume controller keeps it.                           *)
LEMMA VolumeStepBlank ==
    ASSUME TypeOK, RunOK, NewOnesBlank, VolumeStep \/ ScaleUpNowhere \/ VolumeFails
    PROVE  NewOnesBlank'
<1>0. /\ vrun \in VRuns /\ vrun.atts \in Seq(Attachment)
      /\ Len(vrun.atts) \in Nat /\ DOMAIN vrun.atts = 1 .. Len(vrun.atts)
      /\ vrun.want \in 0 .. MaxReplicas
  <2>1. vrun.atts \in Seq(Attachment)
    BY DEF TypeOK, VRuns
  <2> QED BY <2>1, LenProperties DEF TypeOK, VRuns
<1>1. ASSUME vrun'.pc \notin {"create", "scaleUp"} PROVE NewOnesBlank'
  BY <1>1 DEF NewOnesBlank
<1>2. CASE PickNode \/ BeginCreate
  <2>1. vrun'.pc = "create" /\ vrun'.atts = << >>
    BY <1>2 DEF PickNode, BeginCreate, VIdle
  <2>2. DOMAIN << >> = {}
    OBVIOUS
  <2> QED BY <2>1, <2>2 DEF NewOnesBlank
<1>3. CASE CreateChild \/ ScaleUpReplica \/ ScaleUpNowhere
  BY <1>3, AddingBlank
<1>4. CASE \/ AdoptEngine \/ MarkReady \/ DropEngineRef \/ Degrade \/ HealSaves
           \/ NothingToDo \/ Conflict \/ VolumeFails
  <2>1. vrun' = VIdle
    BY <1>4 DEF AdoptEngine, MarkReady, DropEngineRef, Degrade, HealSaves, SaveStatus,
       NothingToDo, Conflict, VolumeFails
  <2> QED BY <1>1, <2>1 DEF VIdle
<1>5. CASE \/ CreateEngine \/ ScaleEngine \/ HealDetaches \/ ScaleDownReplica
           \/ HealDeletesReplica \/ HealRestartsPod
  <2>1. vrun'.pc \in {"adopt", "degrade", "note", "scaleDown", "detach", "count"}
    BY <1>0, <1>5 DEF CreateEngine, ScaleEngine, HealDetaches, UpdateEngine, ScaleDownReplica,
       HealDeletesReplica, HealRestartsPod, VRuns
  <2> QED BY <1>1, <2>1
<1>6. CASE BeginReconcile
  <2>1. vrun'.pc \in {"ready", "drop", "types"}
    BY <1>6 DEF BeginReconcile
  <2> QED BY <1>1, <2>1
<1>7. CASE FixType
  BY <1>7 DEF FixType, NewOnesBlank
<1>8. CASE Decide
  <2>1. CASE /\ vrun.want > Len(vrun.atts)
             /\ vrun' = [vrun EXCEPT !.pc = "scaleUp", !.k = Len(vrun.atts)]
    <3>1. /\ vrun'.pc = "scaleUp" /\ vrun'.k = Len(vrun.atts)
          /\ vrun'.atts = vrun.atts /\ vrun'.want = vrun.want
      BY <1>0, <2>1 DEF VRuns
    <3> QED BY <1>0, <2>1, <3>1 DEF NewOnesBlank
  <2>2. CASE vrun'.pc \in {"scaleDown", "below", "note"}
    BY <1>1, <2>2
  <2>3. CASE \E p \in ToHeal : vrun' = [vrun EXCEPT !.pc = HealAction(p), !.k = p]
    <3>1. \A p : HealAction(p) \notin {"create", "scaleUp"}
      BY DEF HealAction
    <3>2. vrun'.pc \notin {"create", "scaleUp"}
      BY <1>0, <2>3, <3>1 DEF VRuns
    <3> QED BY <1>1, <3>2
  <2>4. \/ /\ vrun.want > Len(vrun.atts)
           /\ vrun' = [vrun EXCEPT !.pc = "scaleUp", !.k = Len(vrun.atts)]
        \/ vrun' = [vrun EXCEPT !.pc = "scaleDown", !.k = vrun.want]
        \/ \E pc \in {"below", "note"} : vrun' = [vrun EXCEPT !.pc = pc]
        \/ \E p \in ToHeal : vrun' = [vrun EXCEPT !.pc = HealAction(p), !.k = p]
    BY <1>8 DEF Decide
  <2> QED BY <1>0, <2>1, <2>2, <2>3, <2>4 DEF VRuns
<1> QED
  BY <1>2, <1>3, <1>4, <1>5, <1>6, <1>7, <1>8 DEF VolumeStep

(* RosterInv is an invariant of the specification.                         *)
LEMMA RosterInductive == Spec => []RosterInv
<1>1. Init => NewOnesBlank
  <2> SUFFICES ASSUME Init PROVE NewOnesBlank
    OBVIOUS
  <2>1. vrun = VIdle
    BY DEF Init
  <2>2. vrun.pc = "idle"
    BY <2>1 DEF VIdle
  <2> QED BY <2>2 DEF NewOnesBlank
<1>2. IndInv /\ NewOnesBlank /\ [Next]_vars => NewOnesBlank'
  <2> SUFFICES ASSUME IndInv, NewOnesBlank, [Next]_vars PROVE NewOnesBlank'
    OBVIOUS
  <2>1. CASE VolumeStep \/ ScaleUpNowhere \/ VolumeFails
    BY <2>1, VolumeStepBlank DEF IndInv
  <2>2. CASE UNCHANGED vrun
    BY <2>2 DEF NewOnesBlank
  <2> QED BY <2>1, <2>2 DEF Next, vars
<1> QED BY <1>1, <1>2, Inductive, PTL DEF Spec, RosterInv

-----------------------------------------------------------------------------
(* Every step is an edit of the list, or leaves it alone.                  *)

ListKept == eng'.here = eng.here /\ eng'.atts = eng.atts

(* The volume controller writes from a current copy, or posts a first list.*)
LEMMA VolumeEdits ==
    ASSUME RosterInv, VolumeStep \/ ScaleUpNowhere \/ VolumeFails
    PROVE  List!RNext \/ ListKept
<1>0. /\ TypeOK /\ RunOK /\ ListsDistinct /\ VolumeCopies /\ NewOnesBlank
      /\ eng \in Engines /\ vrun \in VRuns /\ vrun.atts \in Seq(Attachment)
      /\ Len(vrun.atts) \in Nat /\ DOMAIN vrun.atts = 1 .. Len(vrun.atts)
      /\ vrun.want \in Nat /\ vrun.k \in Nat
  <2>1. vrun \in VRuns /\ eng \in Engines /\ TypeOK
    BY DEF RosterInv, IndInv, TypeOK
  <2>2. vrun.want \in 0 .. MaxReplicas /\ vrun.k \in 0 .. MaxReplicas
        /\ vrun.atts \in Seq(Attachment) /\ MaxReplicas \in Nat
    BY <2>1, ClusterAssumption DEF VRuns
  <2>3. vrun.want \in Nat /\ vrun.k \in Nat
    BY <2>2
  <2> QED BY <2>1, <2>2, <2>3, LenProperties DEF RosterInv, IndInv
<1>1. ASSUME NEW atts, NEW pc, UpdateEngine(atts, pc),
             vrun.pc \in {"scaleUp", "scaleDown", "detach"}
      PROVE  eng.here /\ eng'.here /\ eng'.atts = atts /\ EngKey \in fresh["volume"]
  <2>1. EngKey \in fresh["volume"] /\ eng' = [eng EXCEPT !.atts = atts]
    BY <1>1 DEF UpdateEngine, Fresh
  <2> QED BY <1>0, <1>1, <2>1 DEF VolumeCopies, Engines
<1>2. CASE CreateEngine
  <2>1. vrun.pc = "create" /\ (eng' = eng \/ (~eng.here /\ eng'.here /\ eng'.atts = vrun.atts))
    BY <1>2 DEF CreateEngine, NoEngine
  <2>2. CASE ~eng.here /\ eng'.here /\ eng'.atts = vrun.atts
    <3>1. List!OneEach(eng'.atts)
      BY <1>0, <2>2 DEF ListsDistinct, Distinct, List!OneEach
    <3>2. List!BlankFrom(eng'.atts, 1)
      BY <1>0, <2>1, <2>2 DEF NewOnesBlank, List!BlankFrom
    <3> QED BY <2>2, <3>1, <3>2 DEF List!RNext, List!Post
  <2> QED BY <2>1, <2>2 DEF ListKept
<1>3. CASE ScaleEngine /\ vrun.pc = "scaleUp"
  <2>1. UpdateEngine(vrun.atts, "degrade") /\ Len(vrun.atts) = vrun.want
    BY <1>3 DEF ScaleEngine
  <2>2. eng.here /\ eng'.here /\ eng'.atts = vrun.atts /\ EngKey \in fresh["volume"]
    BY <1>1, <1>3, <2>1
  <2>3. vrun.k < Len(vrun.atts) /\ eng.atts = SubSeq(vrun.atts, 1, vrun.k)
    BY <1>0, <1>3, <2>1, <2>2 DEF VolumeCopies, NewOnesBlank
  <2>4. Len(eng.atts) = vrun.k
    <3>1. vrun.k \in 0 .. Len(vrun.atts)
      BY <1>0, <2>3
    <3> QED BY <1>0, <2>3, <3>1, PrefixKeeps
  <2>5. List!OneEach(eng'.atts)
    BY <1>0, <2>2 DEF ListsDistinct, Distinct, List!OneEach
  <2>6. List!BlankFrom(eng'.atts, Len(eng.atts) + 1)
    BY <1>0, <1>3, <2>2, <2>4 DEF NewOnesBlank, List!BlankFrom
  <2> QED BY <2>2, <2>3, <2>4, <2>5, <2>6 DEF List!RNext, List!Extend
<1>4. CASE ScaleEngine /\ vrun.pc = "scaleDown"
  <2>1. UpdateEngine(SubSeq(vrun.atts, 1, vrun.want), "degrade")
    BY <1>4 DEF ScaleEngine
  <2>2. /\ eng.here /\ eng'.here /\ EngKey \in fresh["volume"]
        /\ eng'.atts = SubSeq(vrun.atts, 1, vrun.want)
    BY <1>1, <1>4, <2>1
  <2>3. eng.atts = vrun.atts /\ vrun.want \in 0 .. Len(vrun.atts)
    BY <1>0, <1>4, <2>2 DEF VolumeCopies, RunOK
  <2> QED BY <2>2, <2>3 DEF List!RNext, List!Cut
<1>5. CASE HealDetaches
  <2>1. vrun.pc = "detach" /\ UpdateEngine(Without(vrun.atts, vrun.k), "note")
    BY <1>5 DEF HealDetaches
  <2>2. /\ eng.here /\ eng'.here /\ EngKey \in fresh["volume"]
        /\ eng'.atts = Without(vrun.atts, vrun.k)
    BY <1>1, <2>1
  <2>3. eng.atts = vrun.atts /\ vrun.k \in DOMAIN eng.atts
    BY <1>0, <2>1, <2>2 DEF VolumeCopies, RunOK
  <2> QED BY <2>2, <2>3 DEF List!RNext, List!Strike, Without
<1>6. ASSUME eng' = eng PROVE ListKept
  BY <1>6 DEF ListKept
<1>7. CASE \/ PickNode \/ BeginCreate \/ CreateChild \/ BeginReconcile \/ FixType \/ Decide
           \/ NothingToDo \/ ScaleUpReplica \/ ScaleUpNowhere \/ ScaleDownReplica
           \/ HealDeletesReplica \/ HealRestartsPod \/ Conflict \/ VolumeFails
  BY <1>6, <1>7 DEF PickNode, BeginCreate, CreateChild, BeginReconcile, FixType, Decide,
     NothingToDo, ScaleUpReplica, ScaleUpNowhere, ScaleDownReplica, HealDeletesReplica,
     HealRestartsPod, Conflict, VolumeFails
<1>8. CASE AdoptEngine \/ MarkReady \/ DropEngineRef \/ Degrade \/ HealSaves
  BY <1>6, <1>8 DEF AdoptEngine, MarkReady, DropEngineRef, Degrade, HealSaves, SaveStatus
<1>9. ScaleEngine => vrun.pc \in {"scaleUp", "scaleDown"}
  BY DEF ScaleEngine
<1> QED
  BY <1>2, <1>3, <1>4, <1>5, <1>7, <1>8, <1>9 DEF VolumeStep

(* The dashboard strikes the entry or withdraws the list, the engine       *)
(* controller fills in; the others do not write the engine.                *)
LEMMA OthersEdit ==
    ASSUME TypeOK, OthersStep
    PROVE  List!RNext \/ ListKept
<1>0. ClusterOK /\ eng \in Engines
  BY DEF TypeOK, ClusterOK
<1>1. CASE EngineFillsIn
  <2>1. /\ eng.here /\ eng'.here /\ DOMAIN eng'.atts = DOMAIN eng.atts
        /\ \A p \in DOMAIN eng.atts :
              /\ eng'.atts[p].idx = eng.atts[p].idx /\ eng'.atts[p].node = eng.atts[p].node
              /\ eng.atts[p].known => eng'.atts[p].known
    <3>1. eng.here
      BY <1>1 DEF EngineFillsIn
    <3> QED BY <1>0, <1>1, <3>1, FillFacts
  <2> QED BY <2>1 DEF List!RNext, List!FillIn
<1>2. CASE EngineRuns \/ EngineDegrades \/ EngineReports
  BY <1>0, <1>2 DEF EngineRuns, EngineDegrades, EngineReports, Engines, ListKept
<1>3. CASE RestoreRequest
  <2>1. eng'.here = FALSE /\ eng'.atts = << >>
    BY <1>3 DEF RestoreRequest, NoEngine
  <2> QED BY <2>1 DEF List!RNext, List!Withdraw
<1>4. CASE DetachReplica
  <2>1. CASE Attached
    <3>1. PICK p \in DOMAIN eng.atts : eng' = [eng EXCEPT !.atts = Without(eng.atts, p)]
      BY <1>4, <2>1 DEF DetachReplica
    <3>2. eng.here /\ eng'.here /\ eng'.atts = Without(eng.atts, p)
      BY <1>0, <2>1, <3>1 DEF Attached, Engines
    <3> QED BY <3>2 DEF List!RNext, List!Strike, Without
  <2> QED BY <1>4, <2>1 DEF DetachReplica, ListKept
<1>5. CASE ReplicaStep \/ ReplicaFails \/ Environment
  BY <1>5 DEF ReplicaStep, Provision, CreatePod, RemoteRunning, SidecarSilent, CleanPod,
     LocalRunning, ReplicaConflict, ReplicaFails, PublishRunning, Environment, PodStarts,
     PodFails, CollectPod, CooldownEnds, ListKept
<1>6. CASE \/ DetachConflicts \/ PokeVolume \/ RestoreClears \/ RestoreLists
           \/ RestoreSetsSource \/ RestoreConflicts \/ (\E i \in Idx : RestorePurges(i))
           \/ (\E n \in 1 .. MaxReplicas : HandleScale(n))
           \/ (\E i \in Idx : DeleteReplicaRequest(i))
  BY <1>6 DEF DetachConflicts, PokeVolume, RestoreClears, RestoreLists, RestoreSetsSource,
     RestoreConflicts, RestorePurges, HandleScale, DeleteReplicaRequest, cluster, ListKept
<1> QED BY <1>1, <1>2, <1>3, <1>4, <1>5, <1>6
  DEF OthersStep, EngineStep, DashboardStep, DashboardRequest

(* However old the copies that the volume controller and the dashboard     *)
(* work from, and whatever fails on the way, engine.Spec.Replicas changes  *)
(* only by one edit of the present list at a time: no writer undoes what   *)
(* another has removed, added or filled in.                                *)
THEOREM ListIsARoster == Spec => IsRoster
<1>1. Init => List!RInit
  <2> SUFFICES ASSUME Init PROVE List!RInit
    OBVIOUS
  <2>1. eng = NoEngine
    BY DEF Init
  <2>2. eng.here = FALSE /\ eng.atts = << >>
    BY <2>1 DEF NoEngine
  <2> QED BY <2>2 DEF List!RInit
<1>2. RosterInv /\ [Next]_vars => [List!RNext]_(List!rvars)
  <2> SUFFICES ASSUME RosterInv, [Next]_vars PROVE List!RNext \/ ListKept
    BY DEF ListKept, List!rvars
  <2>1. CASE VolumeStep \/ ScaleUpNowhere \/ VolumeFails
    BY <2>1, VolumeEdits
  <2>2. CASE OthersStep
    BY <2>2, OthersEdit DEF RosterInv, IndInv
  <2>3. CASE UNCHANGED vars
    BY <2>3 DEF vars, cluster, ListKept
  <2> QED BY <2>1, <2>2, <2>3 DEF Next, OthersStep
<1> QED BY <1>1, <1>2, RosterInductive, PTL DEF Spec, IsRoster, List!RSpec
=============================================================================
