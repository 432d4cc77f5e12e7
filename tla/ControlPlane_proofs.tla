------------------------- MODULE ControlPlane_proofs -------------------------
(***************************************************************************)
(* The safety properties of ControlPlane, proved for every number of       *)
(* workers, replicas, restarts, requests and failures.                     *)
(***************************************************************************)
EXTENDS ControlPlane, AttachmentLists_proofs

(* What a reconcile of the volume knows of its own copies: where it has    *)
(* got to in the attachment list, and that it counts restarts only of a    *)
(* replica that has some left.                                             *)
RunOK ==
    /\ Len(eng.atts) <= MaxReplicas /\ Len(vrun.atts) <= MaxReplicas
    /\ vrun.pc = "create" =>
          /\ Len(vrun.atts) <= Len(ChildNodes)
          /\ \A p \in DOMAIN vrun.atts : vrun.atts[p].idx = p - 1
    /\ vrun.pc = "scaleUp" => Len(vrun.atts) <= vrun.want
    /\ vrun.pc = "scaleDown" => vrun.want <= vrun.k /\ vrun.k <= Len(vrun.atts)
    /\ vrun.pc \in {"recreate", "detach", "restart", "count"} =>
          vrun.k \in 1 .. Len(vrun.atts)
    /\ vrun.pc \in {"restart", "count"} => vrun.attempts[Ailing] < MaxAttempts

(* No list names a replica twice, in the engine or in memory.              *)
ListsDistinct == Distinct(eng.atts) /\ Distinct(vrun.atts)

(* A copy that is still current agrees with the object: this is what       *)
(* optimistic concurrency buys.  The reconcile of the volume relies on its *)
(* copies of the engine and the volume, ...                                *)
VolumeCopies ==
    /\ EngKey \in fresh["volume"] =>
          /\ vrun.pc \in {"types", "scaleDown", "recreate", "detach"} =>
                eng.here /\ eng.atts = vrun.atts
          /\ vrun.pc = "scaleUp" =>
                /\ eng.here /\ vrun.k <= Len(vrun.atts)
                /\ eng.atts = SubSeq(vrun.atts, 1, vrun.k)
    /\ VolKey \in fresh["volume"] /\ vrun.pc = "ready" => vol.ref

(* ... and that of a replica on the identity of its object.                *)
ReplicaCopies ==
    rrun.pc # "idle" /\ UidKey(rrun.i) \in fresh["replica"] => Present(rrun.i)

(* The inductive invariant.                                                *)
IndInv == /\ TypeOK /\ RunOK /\ ListsDistinct
          /\ VolumeCopies /\ ReplicaCopies
          /\ PodsAreOwned /\ ReadyHasEngineRef

-----------------------------------------------------------------------------
(* Optimistic concurrency.                                                 *)

(* The objects have different keys, and every key is one of Keys.          *)
LEMMA KeyFacts ==
    /\ VolKey \in Keys /\ EngKey \in Keys /\ VolKey # EngKey
    /\ \A i \in Idx : /\ RepKey(i) \in Keys /\ UidKey(i) \in Keys
                       /\ VolKey \notin Deleted(i) /\ EngKey \notin Deleted(i)
                       /\ RepKey(i) # VolKey /\ RepKey(i) # EngKey
                       /\ UidKey(i) # VolKey /\ UidKey(i) # EngKey
    /\ \A i, j \in Idx : /\ UidKey(i) # RepKey(j)
                          /\ i # j => UidKey(i) # UidKey(j)
  BY DEF Keys, VolKey, EngKey, RepKey, UidKey, Deleted

(* A client's copies after one of the writes of Cluster.                   *)
LEMMA HoldFacts ==
    ASSUME fresh \in [Clients -> SUBSET Keys], NEW c \in Clients,
           NEW held \in SUBSET Keys, NEW written, Hold(c, held, written)
    PROVE  /\ fresh' \in [Clients -> SUBSET Keys]
           /\ fresh'[c] = held
           /\ \A d \in Clients \ {c} : fresh'[d] = fresh[d] \ written
  BY DEF Hold

(* A write in the middle of a handler leaves the writer's own copies, and  *)
(* takes the written objects from everybody else's.                        *)
LEMMA WroteFacts ==
    ASSUME fresh \in [Clients -> SUBSET Keys], NEW c \in Clients,
           NEW written, Wrote(c, written)
    PROVE  /\ fresh' \in [Clients -> SUBSET Keys]
           /\ fresh'[c] = fresh[c]
           /\ \A d \in Clients \ {c} : fresh'[d] = fresh[d] \ written
  BY HoldFacts DEF Wrote

(* A write, or a return, that ends a handler leaves the client no copy.    *)
LEMMA ReleaseFacts ==
    ASSUME fresh \in [Clients -> SUBSET Keys], NEW c \in Clients,
           NEW written, Release(c, written)
    PROVE  /\ fresh' \in [Clients -> SUBSET Keys]
           /\ fresh'[c] = {}
           /\ \A d \in Clients \ {c} : fresh'[d] = fresh[d] \ written
  BY HoldFacts DEF Release

-----------------------------------------------------------------------------
(* Type correctness.                                                       *)

(* The basic sets are what they look like.                                 *)
LEMMA BasicFacts ==
    /\ VIdle \in VRuns /\ RIdle \in RRuns /\ DIdle \in DRuns
    /\ NoEngine \in Engines /\ NoReplica \in Replicas
    /\ NoAttempts \in [Idx -> 0 .. MaxAttempts]
    /\ {"volume", "replica", "dashboard"} = Clients
    /\ Idx \subseteq Nat /\ 0 \in Idx
    /\ Workers \subseteq NodeIDs /\ NoNode \notin Workers /\ NoNode # OtherNode
    /\ NodeIDs = Workers \cup {NoNode, OtherNode}
<1>1. MaxReplicas \in Nat \ {0} /\ NumWorkers \in Nat \ {0} /\ MaxAttempts \in Nat \ {0}
  BY ClusterAssumption
<1>2. NoAttempts \in [Idx -> 0 .. MaxAttempts]
  BY <1>1 DEF NoAttempts
<1>3. << >> \in Seq(Attachment)
  BY EmptySeq
<1>4. 0 \in Idx /\ Idx \subseteq Nat
  BY <1>1 DEF Idx
<1>5. NodeIDs = Workers \cup {NoNode, OtherNode} /\ NoNode \notin Workers /\ NoNode # OtherNode
  BY <1>1 DEF NodeIDs, Workers, NoNode, OtherNode
<1>6. VIdle \in VRuns
  BY <1>1, <1>2, <1>3 DEF VIdle, VRuns, VolumePCs
<1> QED
  BY <1>1, <1>2, <1>3, <1>4, <1>5, <1>6 DEF RIdle, RRuns, DIdle, DRuns,
     NoEngine, Engines, NoReplica, Replicas, ReplicaPhases, Clients, NodeIDs, NoNode

(* Parts of TypeOK: what the cluster holds, and the runs in progress.      *)
ClusterOK ==
    /\ vol \in Volumes
    /\ eng \in Engines
    /\ reps \in [Idx -> Replicas]
    /\ pods \in [Idx -> PodPhases]
    /\ doomed \subseteq Idx /\ cooling \subseteq Idx
    /\ fresh \in [Clients -> SUBSET Keys]
    /\ userOps \in 0 .. MaxUserOps /\ faults \in 0 .. MaxFaults

(* The edits of one Replica object that the controllers make.              *)
LEMMA ReplicaEdits ==
    ASSUME NEW r \in Replicas
    PROVE  /\ \A t \in {"Local", "Remote"} :
                 [r EXCEPT !.type = t] \in Replicas /\ [r EXCEPT !.type = t].phase = r.phase
           /\ \A nqn, moved \in BOOLEAN :
                 [r EXCEPT !.phase = "Running", !.nqn = nqn, !.moved = moved] \in Replicas
           /\ [r EXCEPT !.moved = FALSE] \in Replicas
           /\ [r EXCEPT !.moved = FALSE].phase = r.phase
<1>1. "Running" \in ReplicaPhases
  BY DEF ReplicaPhases
<1>2. \A t \in {"Local", "Remote"} :
         [r EXCEPT !.type = t] \in Replicas /\ [r EXCEPT !.type = t].phase = r.phase
  BY Zenon DEF Replicas
<1>3. \A nqn, moved \in BOOLEAN :
         [r EXCEPT !.phase = "Running", !.nqn = nqn, !.moved = moved] \in Replicas
  BY <1>1, Zenon DEF Replicas
<1>4. [r EXCEPT !.moved = FALSE] \in Replicas /\ [r EXCEPT !.moved = FALSE].phase = r.phase
  BY Zenon DEF Replicas
<1> QED BY <1>2, <1>3, <1>4

(* The new index of scaleUp is a legal one, below the count asked for, and *)
(* attached nowhere.                                                       *)
LEMMA NextIndexFacts ==
    ASSUME TypeOK, RunOK, vrun.pc = "scaleUp", Len(vrun.atts) < vrun.want
    PROVE  /\ NextIndex(UsedIndices) \in Idx
           /\ NextIndex(UsedIndices) \notin Names(vrun.atts)
<1>1. vrun.atts \in Seq(Attachment) /\ vrun.want \in 0 .. MaxReplicas /\ MaxReplicas \in Nat
  BY ClusterAssumption DEF TypeOK, VRuns
<1>2. Len(vrun.atts) \in Nat /\ DOMAIN vrun.atts = 1 .. Len(vrun.atts)
      /\ \A p \in 1 .. Len(vrun.atts) : vrun.atts[p] \in Attachment
  BY <1>1, LenProperties, ElementOfSeq
<1>3. Names(vrun.atts) \subseteq Idx
  BY <1>2 DEF Names, Attachment
<1>4. IsFiniteSet(Names(vrun.atts)) /\ Cardinality(Names(vrun.atts)) <= Len(vrun.atts)
  BY <1>1, NamesBound
<1>5. UsedIndices \in SUBSET Names(vrun.atts)
  BY DEF UsedIndices
<1>6. IsFiniteSet(UsedIndices) /\ Cardinality(UsedIndices) <= Cardinality(Names(vrun.atts))
  BY <1>4, <1>5, FS_Subset
<1>7. Cardinality(UsedIndices) \in Nat /\ Cardinality(Names(vrun.atts)) \in Nat
  BY <1>4, <1>6, FS_CardinalityType
<1>8. UsedIndices \subseteq Nat
  BY <1>3, <1>5, BasicFacts
<1>9. NextIndex(UsedIndices) \in 0 .. Cardinality(UsedIndices) /\ NextIndex(UsedIndices) \notin UsedIndices
  BY <1>6, <1>8, NextIndexIsFree
<1>10. NextIndex(UsedIndices) \in Nat /\ NextIndex(UsedIndices) < vrun.want
  BY <1>1, <1>2, <1>4, <1>6, <1>7, <1>9
<1>11. NextIndex(UsedIndices) < vrun.want + 10
  BY <1>1, <1>10
<1>12. NextIndex(UsedIndices) \notin Names(vrun.atts)
  BY <1>9, <1>11 DEF UsedIndices
<1> QED BY <1>1, <1>10, <1>12 DEF Idx

(* The nodes on which children are created: workers, as many as asked for  *)
(* or as there are.                                                        *)
LEMMA ChildNodesFacts ==
    ASSUME vrun \in VRuns
    PROVE  /\ Len(ChildNodes) \in 0 .. MaxReplicas /\ Len(ChildNodes) <= NumWorkers
           /\ \A p \in 1 .. Len(ChildNodes) : ChildNodes[p] = p /\ p \in Workers
<1> DEFINE n == IF vrun.want > NumWorkers THEN NumWorkers ELSE vrun.want
<1>1. n \in 0 .. MaxReplicas /\ n <= NumWorkers /\ n \in Nat
  BY ClusterAssumption DEF VRuns
<1>2. ChildNodes = [p \in 1 .. n |-> p]
  BY DEF ChildNodes, PickWorkerNodes
<1> HIDE DEF n
<1>3. ChildNodes \in Seq(Nat) /\ Len(ChildNodes) = n
  BY <1>1, <1>2
<1> QED BY <1>1, <1>2, <1>3, ClusterAssumption DEF Workers

(* A new attachment of a replica that exists afterwards.                   *)
LEMMA AttachType ==
    ASSUME TypeOK, NEW i \in Idx, NEW node \in NodeIDs, Attach(i, node)
    PROVE  /\ reps' \in [Idx -> Replicas]
           /\ vrun' \in VRuns
           /\ vrun'.atts = Append(vrun.atts, [idx |-> i, node |-> node, known |-> FALSE])
           /\ vrun' = [vrun EXCEPT !.atts = vrun'.atts]
<1>1. NewReplica(node) \in Replicas
  BY BasicFacts DEF TypeOK, NewReplica, Replicas, ReplicaPhases, TypeFor, VRuns
<1>2. reps' \in [Idx -> Replicas]
  BY <1>1 DEF TypeOK, Attach, CreateIfMissing
<1>3. [idx |-> i, node |-> node, known |-> FALSE] \in Attachment
  BY DEF Attachment
<1>4. Append(vrun.atts, [idx |-> i, node |-> node, known |-> FALSE]) \in Seq(Attachment)
  BY <1>3, AppendKeeps DEF TypeOK, VRuns
<1> QED BY <1>2, <1>4 DEF TypeOK, Attach, VRuns

(* scaleUp's next attachment is on some node, or on none.                  *)
LEMMA ScaleUpFacts ==
    ASSUME TypeOK, ScaleUpReplica \/ ScaleUpNowhere
    PROVE  /\ vrun.pc = "scaleUp" /\ Len(vrun.atts) < vrun.want
           /\ \E node \in NodeIDs : Attach(NextIndex(UsedIndices), node)
           /\ UNCHANGED <<vol, eng, pods, doomed, cooling, fresh, userOps>>
           /\ faults' \in 0 .. MaxFaults
<1>0. vol.node \in NodeIDs /\ faults \in 0 .. MaxFaults /\ MaxFaults \in Nat
  BY ClusterAssumption DEF TypeOK, Volumes
<1>1. \A n \in Workers \cup {NoNode} : PlacedOn(n) \in NodeIDs
  BY <1>0, BasicFacts DEF PlacedOn
<1>2. CASE ScaleUpReplica
  <2>1. PICK n \in PickUnusedNode(NodesOf(vrun.atts)) :
           Attach(NextIndex(UsedIndices), PlacedOn(n))
    BY <1>2 DEF ScaleUpReplica
  <2>2. n \in Workers
    BY <2>1 DEF PickUnusedNode
  <2> QED BY <1>0, <1>1, <1>2, <2>1, <2>2 DEF ScaleUpReplica
<1>3. CASE ScaleUpNowhere
  <2>1. faults' \in 0 .. MaxFaults
    BY <1>0, <1>3 DEF ScaleUpNowhere
  <2>2. PlacedOn(NoNode) \in NodeIDs
    BY <1>1
  <2> QED BY <1>3, <2>1, <2>2 DEF ScaleUpNowhere
<1> QED BY <1>2, <1>3

(* Deleting a replica, or a pod.                                           *)
LEMMA DeleteTypes ==
    ASSUME reps \in [Idx -> Replicas], pods \in [Idx -> PodPhases], doomed \subseteq Idx
    PROVE  /\ \A i \in Idx : DeleteReplica(i) =>
                 reps' \in [Idx -> Replicas] /\ doomed' \subseteq Idx
           /\ \A i \in Idx : DeletePod(i) =>
                 pods' \in [Idx -> PodPhases] /\ doomed' \subseteq Idx
  BY BasicFacts DEF DeleteReplica, DeletePod, PodPhases

(* How many replicas a volume asks for.                                    *)
LEMMA WantType ==
    ASSUME vol \in Volumes
    PROVE  ReplicasForVolume(vol) \in 0 .. MaxReplicas
<1>1. vol.count \in 0 .. MaxReplicas
  BY DEF Volumes
<1> QED BY <1>1, ClusterAssumption DEF ReplicasForVolume

(* The attachment that a heal pass works on.                               *)
LEMMA AilingType ==
    ASSUME TypeOK, vrun.k \in 1 .. Len(vrun.atts)
    PROVE  Ailing \in Idx
<1>1. vrun.atts \in Seq(Attachment)
  BY DEF TypeOK, VRuns
<1>2. vrun.atts[vrun.k] \in Attachment
  BY <1>1, ElementOfSeq
<1> QED BY <1>2 DEF Ailing, Attachment

(* Every step of the volume controller keeps the types.                    *)
LEMMA VolumeStepType ==
    ASSUME TypeOK, RunOK, VolumeStep \/ ScaleUpNowhere \/ VolumeFails
    PROVE  ClusterOK' /\ vrun' \in VRuns
<1> USE ClusterAssumption, BasicFacts, KeyFacts
<1>0. /\ ClusterOK /\ vrun \in VRuns
      /\ vrun.atts \in Seq(Attachment) /\ Len(vrun.atts) \in 0 .. MaxReplicas
  BY LenProperties DEF TypeOK, ClusterOK, RunOK, VRuns
<1>1. CASE PickNode
  <2>1. vrun' \in VRuns
    BY <1>0, <1>1, WantType DEF PickNode, ClusterOK, VIdle, VRuns, VolumePCs, Volumes
  <2>2. vol' \in Volumes
    BY <1>0, <1>1 DEF PickNode, ClusterOK, Volumes
  <2>3. fresh' \in [Clients -> SUBSET Keys]
    BY <1>0, <1>1, HoldFacts DEF PickNode, ClusterOK
  <2> QED BY <1>0, <1>1, <2>1, <2>2, <2>3 DEF PickNode, ClusterOK
<1>2. CASE BeginCreate
  <2>1. vrun' \in VRuns
    BY <1>0, <1>2, WantType DEF BeginCreate, ClusterOK, VIdle, VRuns, VolumePCs, Volumes
  <2>2. fresh' \in [Clients -> SUBSET Keys]
    BY <1>0, <1>2, HoldFacts DEF BeginCreate, ClusterOK
  <2> QED BY <1>0, <1>2, <2>1, <2>2 DEF BeginCreate, ClusterOK
<1>3. CASE CreateChild
  <2>1. Len(vrun.atts) < Len(ChildNodes) /\ Len(ChildNodes) \in 0 .. MaxReplicas
    BY <1>0, <1>3, ChildNodesFacts DEF CreateChild
  <2>2. Len(vrun.atts) \in Idx
    BY <1>0, <2>1 DEF Idx
  <2>3. ChildNodes[Len(vrun.atts) + 1] \in Workers
    BY <1>0, <2>1, ChildNodesFacts
  <2>4. PlacedOn(ChildNodes[Len(vrun.atts) + 1]) \in NodeIDs
    BY <1>0, <2>3 DEF PlacedOn, ClusterOK, Volumes
  <2>5. reps' \in [Idx -> Replicas] /\ vrun' \in VRuns
    BY <1>3, <2>2, <2>4, AttachType DEF CreateChild
  <2> QED BY <1>0, <1>3, <2>5 DEF CreateChild, ClusterOK
<1>4. CASE CreateEngine
  <2>1. eng' \in Engines
    BY <1>0, <1>4 DEF CreateEngine, ClusterOK, Engines
  <2>2. vrun' \in VRuns
    BY <1>0, <1>4 DEF CreateEngine, VRuns, VolumePCs
  <2> QED BY <1>0, <1>4, <2>1, <2>2 DEF CreateEngine, ClusterOK
<1>5. ASSUME NEW v \in Volumes, SaveStatus(v), cooling' \subseteq Idx
      PROVE  ClusterOK' /\ vrun' \in VRuns
  BY <1>0, <1>5, ReleaseFacts DEF SaveStatus, ClusterOK
<1>6. CASE AdoptEngine
  BY <1>0, <1>5, <1>6 DEF AdoptEngine, ClusterOK, Volumes
<1>7. CASE BeginReconcile
  <2>1. vrun' \in VRuns
    <3>1. ReplicasForVolume(vol) \in 0 .. MaxReplicas
      BY <1>0, WantType DEF ClusterOK
    <3>2. ChildrenReady \in BOOLEAN
      BY DEF ChildrenReady
    <3> DEFINE pc == CASE ChildrenReady /\ vol.phase # "Ready" -> "ready"
                       [] ~eng.here -> "drop"
                       [] OTHER -> "types"
    <3>3. pc \in VolumePCs
      BY DEF VolumePCs
    <3>4. vrun' = [pc |-> pc, atts |-> eng.atts, want |-> ReplicasForVolume(vol),
                   ready |-> ChildrenReady, attempts |-> vol.attempts,
                   k |-> 0, snap |-> vol.snap]
      BY <1>7 DEF BeginReconcile
    <3>5. eng.atts \in Seq(Attachment) /\ 0 \in 0 .. MaxReplicas
      BY <1>0 DEF ClusterOK, Engines
    <3>6. vol.attempts \in [Idx -> 0 .. MaxAttempts] /\ vol.snap \in BOOLEAN
      BY <1>0 DEF ClusterOK, Volumes
    <3> HIDE DEF pc
    <3> QED BY <3>1, <3>2, <3>3, <3>4, <3>5, <3>6 DEF VRuns
  <2>2. fresh' \in [Clients -> SUBSET Keys]
    BY <1>0, <1>7, HoldFacts DEF BeginReconcile, ClusterOK
  <2> QED BY <1>0, <1>7, <2>1, <2>2 DEF BeginReconcile, ClusterOK
<1>8. CASE MarkReady
  BY <1>0, <1>5, <1>8 DEF MarkReady, ClusterOK, Volumes
<1>9. CASE DropEngineRef
  BY <1>0, <1>5, <1>9 DEF DropEngineRef, ClusterOK, Volumes
<1>10. CASE FixType
  <2>1. PICK i \in Mistyped :
           /\ reps' = [reps EXCEPT ![i].type = IF @ = "Local" THEN "Remote" ELSE "Local"]
           /\ Wrote("volume", {RepKey(i)})
    BY <1>10 DEF FixType
  <2>2. fresh' \in [Clients -> SUBSET Keys]
    BY <1>0, <2>1, WroteFacts DEF ClusterOK
  <2>3. reps' \in [Idx -> Replicas]
    <3>1. i \in Idx /\ reps[i] \in Replicas /\ reps \in [Idx -> Replicas]
      BY <1>0 DEF ClusterOK, Mistyped
    <3>2. PICK t \in {"Local", "Remote"} : reps' = [reps EXCEPT ![i] = [reps[i] EXCEPT !.type = t]]
      BY <2>1, <3>1
    <3> QED BY <3>1, <3>2, ReplicaEdits
  <2> QED BY <1>0, <1>10, <2>2, <2>3 DEF FixType, ClusterOK
<1>11. CASE Decide
  <2>1. DOMAIN vrun.atts = 1 .. Len(vrun.atts)
    BY <1>0, LenProperties
  <2>2. \A p \in DOMAIN vrun.atts : HealAction(p) \in {"detach", "recreate", "restart", ""}
    BY DEF HealAction
  <2>3. \E pc \in VolumePCs, k \in 0 .. MaxReplicas :
           vrun' = [vrun EXCEPT !.pc = pc, !.k = k]
    <3>0. vrun.k \in 0 .. MaxReplicas /\ vrun.want \in 0 .. MaxReplicas
      BY <1>0 DEF VRuns
    <3>1. CASE vrun' = [vrun EXCEPT !.pc = "scaleUp", !.k = Len(vrun.atts)]
      BY <1>0, <3>1 DEF VolumePCs
    <3>2. CASE vrun' = [vrun EXCEPT !.pc = "scaleDown", !.k = vrun.want]
      BY <3>0, <3>2 DEF VolumePCs
    <3>3. CASE \E pc \in {"below", "note"} : vrun' = [vrun EXCEPT !.pc = pc]
      <4>1. PICK pc \in {"below", "note"} : vrun' = [vrun EXCEPT !.pc = pc]
        BY <3>3
      <4>2. vrun' = [vrun EXCEPT !.pc = pc, !.k = vrun.k]
        BY <1>0, <4>1 DEF VRuns
      <4> QED BY <3>0, <4>1, <4>2 DEF VolumePCs
    <3>4. CASE \E p \in ToHeal : vrun' = [vrun EXCEPT !.pc = HealAction(p), !.k = p]
      <4>1. PICK p \in ToHeal : vrun' = [vrun EXCEPT !.pc = HealAction(p), !.k = p]
        BY <3>4
      <4>2. p \in DOMAIN vrun.atts
        BY DEF ToHeal
      <4>3. p \in 0 .. MaxReplicas
        BY <1>0, <2>1, <4>2
      <4>4. HealAction(p) \in VolumePCs
        BY <2>2, <4>1, <4>2 DEF VolumePCs, ToHeal
      <4> QED BY <4>1, <4>3, <4>4
    <3> QED BY <1>11, <3>1, <3>2, <3>3, <3>4 DEF Decide
  <2>4. vrun' \in VRuns
    BY <1>0, <2>3 DEF VRuns
  <2> QED BY <1>0, <1>11, <2>4 DEF Decide, ClusterOK
<1>12. CASE NothingToDo
  BY <1>0, <1>12, ReleaseFacts DEF NothingToDo, ClusterOK
<1>13. CASE ScaleUpReplica \/ ScaleUpNowhere
  <2>1. PICK node \in NodeIDs : Attach(NextIndex(UsedIndices), node)
    BY <1>13, ScaleUpFacts
  <2>2. NextIndex(UsedIndices) \in Idx
    BY <1>13, ScaleUpFacts, NextIndexFacts
  <2>3. reps' \in [Idx -> Replicas] /\ vrun' \in VRuns
    BY <2>1, <2>2, AttachType
  <2>4. /\ UNCHANGED <<vol, eng, pods, doomed, cooling, fresh, userOps>>
        /\ faults' \in 0 .. MaxFaults
    BY <1>13, ScaleUpFacts
  <2> QED BY <1>0, <2>3, <2>4 DEF ClusterOK
<1>14. CASE ScaleDownReplica
  <2>1. vrun.k \in Idx /\ vrun.k + 1 \in 0 .. MaxReplicas
    BY <1>0, <1>14 DEF ScaleDownReplica, VRuns, Idx
  <2>2. reps' \in [Idx -> Replicas] /\ doomed' \subseteq Idx
    BY <1>0, <1>14, <2>1, DeleteTypes DEF ScaleDownReplica, ClusterOK
  <2>3. fresh' \in [Clients -> SUBSET Keys]
    BY <1>0, <1>14, WroteFacts DEF ScaleDownReplica, ClusterOK
  <2>4. vrun' \in VRuns
    BY <1>0, <1>14, <2>1 DEF ScaleDownReplica, VRuns
  <2> QED BY <1>0, <1>14, <2>2, <2>3, <2>4 DEF ScaleDownReplica, ClusterOK
<1>15. ASSUME NEW atts \in Seq(Attachment), NEW pc \in VolumePCs, UpdateEngine(atts, pc)
       PROVE  ClusterOK' /\ vrun' \in VRuns
  <2>1. fresh' \in [Clients -> SUBSET Keys]
    BY <1>0, <1>15, WroteFacts DEF UpdateEngine, ClusterOK
  <2>2. eng' \in Engines
    BY <1>0, <1>15 DEF UpdateEngine, ClusterOK, Engines
  <2>3. vrun' \in VRuns
    BY <1>0, <1>15 DEF UpdateEngine, VRuns
  <2> QED BY <1>0, <1>15, <2>1, <2>2, <2>3 DEF UpdateEngine, ClusterOK
<1>16. CASE ScaleEngine
  <2>1. CASE vrun.pc = "scaleUp"
    BY <1>0, <1>15, <1>16, <2>1 DEF ScaleEngine, VolumePCs
  <2>2. CASE vrun.pc = "scaleDown"
    <3>1. vrun.want \in 0 .. Len(vrun.atts)
      BY <1>0, <2>2 DEF RunOK, VRuns
    <3>2. SubSeq(vrun.atts, 1, vrun.want) \in Seq(Attachment)
      BY <1>0, <3>1, PrefixKeeps
    <3> QED BY <1>15, <1>16, <2>2, <3>2 DEF ScaleEngine, VolumePCs
  <2> QED BY <1>16, <2>1, <2>2 DEF ScaleEngine
<1>17. CASE Degrade
  BY <1>0, <1>5, <1>17 DEF Degrade, ClusterOK, Volumes
<1>18. CASE HealDeletesReplica
  <2>1. Ailing \in Idx
    BY <1>0, <1>18, AilingType DEF HealDeletesReplica, RunOK
  <2>2. reps' \in [Idx -> Replicas] /\ doomed' \subseteq Idx
    BY <1>0, <1>18, <2>1, DeleteTypes DEF HealDeletesReplica, ClusterOK
  <2>3. fresh' \in [Clients -> SUBSET Keys]
    BY <1>0, <1>18, WroteFacts DEF HealDeletesReplica, ClusterOK
  <2>4. vrun' \in VRuns
    BY <1>0, <1>18 DEF HealDeletesReplica, VRuns, VolumePCs
  <2> QED BY <1>0, <1>18, <2>2, <2>3, <2>4 DEF HealDeletesReplica, ClusterOK
<1>19. CASE HealDetaches
  <2>1. vrun.k \in 1 .. Len(vrun.atts)
    BY <1>19 DEF HealDetaches, RunOK
  <2>2. Without(vrun.atts, vrun.k) \in Seq(Attachment)
    BY <1>0, <2>1, WithoutIsSeq
  <2> QED BY <1>15, <1>19, <2>2 DEF HealDetaches, VolumePCs
<1>20. CASE HealRestartsPod
  <2>1. Ailing \in Idx
    BY <1>0, <1>20, AilingType DEF HealRestartsPod, RunOK
  <2>2. pods' \in [Idx -> PodPhases] /\ doomed' \subseteq Idx
    BY <1>0, <1>20, <2>1, DeleteTypes DEF HealRestartsPod, ClusterOK
  <2>3. vrun' \in VRuns
    BY <1>0, <1>20 DEF HealRestartsPod, VRuns, VolumePCs
  <2> QED BY <1>0, <1>20, <2>2, <2>3 DEF HealRestartsPod, ClusterOK
<1>21. CASE HealSaves
  <2>1. NewAttempts \in [Idx -> 0 .. MaxAttempts]
    BY <1>0 DEF NewAttempts, VRuns
  <2>2. cooling \cap Names(vrun.atts) \subseteq Idx
    BY <1>0 DEF ClusterOK
  <2>3. CASE vrun.pc \in {"below", "note"}
    <3>1. [vol EXCEPT !.attempts = NewAttempts, !.phase = "Degraded"] \in Volumes
      BY <1>0, <2>1 DEF ClusterOK, Volumes
    <3>2. [vol EXCEPT !.attempts = NewAttempts] \in Volumes
      BY <1>0, <2>1 DEF ClusterOK, Volumes
    <3> QED BY <1>5, <1>21, <2>2, <2>3, <3>1, <3>2 DEF HealSaves
  <2>4. CASE vrun.pc = "count"
    <3>1. Ailing \in Idx /\ vrun.attempts[Ailing] < MaxAttempts
      BY <1>0, <2>4, AilingType DEF RunOK
    <3>2. [NewAttempts EXCEPT ![Ailing] = @ + 1] \in [Idx -> 0 .. MaxAttempts]
      <4>1. NewAttempts[Ailing] + 1 \in 0 .. MaxAttempts
        BY <1>0, <3>1 DEF NewAttempts, VRuns
      <4> QED BY <2>1, <3>1, <4>1
    <3>3. [vol EXCEPT !.attempts = [NewAttempts EXCEPT ![Ailing] = @ + 1]] \in Volumes
      BY <1>0, <3>2 DEF ClusterOK, Volumes
    <3>4. /\ SaveStatus([vol EXCEPT !.attempts = [NewAttempts EXCEPT ![Ailing] = @ + 1]])
          /\ cooling' = (cooling \cap Names(vrun.atts)) \cup {Ailing}
      BY <1>21, <2>4 DEF HealSaves
    <3> QED BY <1>5, <2>2, <3>1, <3>3, <3>4
  <2> QED BY <1>21, <2>3, <2>4 DEF HealSaves
<1>22. CASE Conflict
  BY <1>0, <1>22, ReleaseFacts DEF Conflict, ClusterOK
<1>23. CASE VolumeFails
  <2>1. faults' \in 0 .. MaxFaults
    BY <1>0, <1>23 DEF VolumeFails, ClusterOK
  <2>2. fresh' \in [Clients -> SUBSET Keys]
    BY <1>0, <1>23, ReleaseFacts DEF VolumeFails, ClusterOK
  <2> QED BY <1>0, <1>23, <2>1, <2>2 DEF VolumeFails, ClusterOK
<1> QED
  BY <1>1, <1>2, <1>3, <1>4, <1>6, <1>7, <1>8, <1>9, <1>10, <1>11, <1>12, <1>13,
     <1>14, <1>16, <1>17, <1>18, <1>19, <1>20, <1>21, <1>22, <1>23 DEF VolumeStep

(* So does every step of the replica controller, ...                       *)
LEMMA ReplicaStepType ==
    ASSUME TypeOK, ReplicaStep \/ ReplicaFails
    PROVE  ClusterOK' /\ rrun' \in RRuns
<1> USE ClusterAssumption, BasicFacts, KeyFacts
<1>0. ClusterOK /\ rrun \in RRuns /\ rrun.i \in Idx
  BY DEF TypeOK, ClusterOK, RRuns
<1>1. ASSUME NEW i \in Idx, Provision(i)
      PROVE  ClusterOK' /\ rrun' \in RRuns
  <2>1. fresh' \in [Clients -> SUBSET Keys]
    BY <1>0, <1>1, HoldFacts DEF Provision, ClusterOK
  <2> QED BY <1>0, <1>1, <2>1 DEF Provision, ClusterOK, RRuns
<1>2. CASE CreatePod
  <2>1. rrun' \in RRuns
    BY <1>0, <1>2 DEF CreatePod, RRuns
  <2>2. pods' \in [Idx -> PodPhases] /\ doomed' \subseteq Idx
    BY <1>0, <1>2 DEF CreatePod, ClusterOK, PodPhases
  <2> QED BY <1>0, <1>2, <2>1, <2>2 DEF CreatePod, ClusterOK
<1>3. ASSUME NEW nqn \in BOOLEAN, NEW moved \in BOOLEAN, PublishRunning(nqn, moved)
      PROVE  ClusterOK' /\ rrun' \in RRuns
  <2>1. fresh' \in [Clients -> SUBSET Keys]
    BY <1>0, <1>3, ReleaseFacts DEF PublishRunning, ClusterOK
  <2>2. reps' \in [Idx -> Replicas]
    <3> DEFINE r == [reps[rrun.i] EXCEPT !.phase = "Running", !.nqn = nqn, !.moved = moved]
    <3>1. reps \in [Idx -> Replicas] /\ reps[rrun.i] \in Replicas
      BY <1>0 DEF ClusterOK
    <3>2. reps' = [reps EXCEPT ![rrun.i] = r]
      BY <1>0, <1>3, <3>1 DEF PublishRunning
    <3>3. r \in Replicas
      BY <3>1, ReplicaEdits
    <3> HIDE DEF r
    <3> QED BY <3>1, <3>2, <3>3
  <2> QED BY <1>0, <1>3, <2>1, <2>2 DEF PublishRunning, ClusterOK
<1>4. CASE RemoteRunning \/ LocalRunning
  BY <1>3, <1>4 DEF RemoteRunning, LocalRunning
<1>5. CASE SidecarSilent \/ ReplicaConflict
  BY <1>0, <1>5, ReleaseFacts DEF SidecarSilent, ReplicaConflict, ClusterOK
<1>6. CASE CleanPod
  <2>1. pods' \in [Idx -> PodPhases] /\ doomed' \subseteq Idx
    BY <1>0, <1>6, DeleteTypes DEF CleanPod, ClusterOK
  <2> QED BY <1>0, <1>6, <2>1 DEF CleanPod, ClusterOK
<1>7. CASE ReplicaFails
  <2>1. faults' \in 0 .. MaxFaults
    BY <1>0, <1>7 DEF ReplicaFails, ClusterOK
  <2>2. fresh' \in [Clients -> SUBSET Keys]
    BY <1>0, <1>7, ReleaseFacts DEF ReplicaFails, ClusterOK
  <2> QED BY <1>0, <1>7, <2>1, <2>2 DEF ReplicaFails, ClusterOK
<1> QED BY <1>1, <1>2, <1>4, <1>5, <1>6, <1>7 DEF ReplicaStep

(* ... every step of the dashboard, ...                                    *)
LEMMA DashboardType ==
    ASSUME TypeOK, DashboardStep \/ DashboardRequest
    PROVE  ClusterOK' /\ drun' \in DRuns
<1> USE ClusterAssumption, BasicFacts, KeyFacts
<1>0. ClusterOK /\ drun \in DRuns /\ drun.i \in Idx /\ drun.todo \subseteq Idx
  BY DEF TypeOK, ClusterOK, DRuns
<1>1. ASSUME NEW n \in 1 .. MaxReplicas, HandleScale(n)
      PROVE  ClusterOK' /\ drun' \in DRuns
  <2>1. fresh' \in [Clients -> SUBSET Keys]
    BY <1>0, <1>1, ReleaseFacts DEF HandleScale, ClusterOK
  <2>2. vol' \in Volumes
    <3>1. n \in 0 .. MaxReplicas /\ vol \in Volumes /\ vol' = [vol EXCEPT !.count = n]
      BY <1>0, <1>1 DEF HandleScale, ClusterOK
    <3> QED BY <3>1 DEF Volumes
  <2>3. userOps' \in 0 .. MaxUserOps
    BY <1>0, <1>1 DEF HandleScale, ClusterOK
  <2> QED BY <1>0, <1>1, <2>1, <2>2, <2>3 DEF HandleScale, ClusterOK
<1>2. ASSUME NEW i \in Idx, DeleteReplicaRequest(i)
      PROVE  ClusterOK' /\ drun' \in DRuns
  <2>1. fresh' \in [Clients -> SUBSET Keys]
    BY <1>0, <1>2, ReleaseFacts DEF DeleteReplicaRequest, ClusterOK
  <2>2. reps' \in [Idx -> Replicas] /\ doomed' \subseteq Idx
    BY <1>0, <1>2, DeleteTypes DEF DeleteReplicaRequest, ClusterOK
  <2>3. userOps' \in 0 .. MaxUserOps
    BY <1>0, <1>2 DEF DeleteReplicaRequest, ClusterOK
  <2>4. drun' \in DRuns
    BY <1>0, <1>2 DEF DeleteReplicaRequest, DRuns
  <2> QED BY <1>0, <1>2, <2>1, <2>2, <2>3, <2>4 DEF DeleteReplicaRequest, ClusterOK
<1>3. CASE RestoreRequest
  <2>1. fresh' \in [Clients -> SUBSET Keys]
    BY <1>0, <1>3, HoldFacts DEF RestoreRequest, ClusterOK
  <2>2. userOps' \in 0 .. MaxUserOps
    BY <1>0, <1>3 DEF RestoreRequest, ClusterOK
  <2>3. drun' \in DRuns
    BY <1>0, <1>3 DEF RestoreRequest, DRuns
  <2> QED BY <1>0, <1>3, <2>1, <2>2, <2>3 DEF RestoreRequest, ClusterOK
<1>4. CASE DetachReplica
  <2>1. drun' \in DRuns
    BY <1>0, <1>4 DEF DetachReplica, DRuns
  <2>2. CASE ~Attached
    BY <1>0, <1>4, <2>1, <2>2 DEF DetachReplica, ClusterOK
  <2>3. CASE Attached
    <3>1. PICK p \in DOMAIN eng.atts : eng' = [eng EXCEPT !.atts = Without(eng.atts, p)]
      BY <1>4, <2>3 DEF DetachReplica
    <3>2. eng.atts \in Seq(Attachment)
      BY <1>0 DEF ClusterOK, Engines
    <3>3. Without(eng.atts, p) \in Seq(Attachment)
      BY <3>2, LenProperties, WithoutIsSeq
    <3>4. eng' \in Engines
      BY <1>0, <3>1, <3>3 DEF ClusterOK, Engines
    <3>5. fresh' \in [Clients -> SUBSET Keys]
      BY <1>0, <1>4, <2>3, ReleaseFacts DEF DetachReplica, ClusterOK
    <3> QED BY <1>0, <1>4, <2>1, <3>4, <3>5 DEF DetachReplica, ClusterOK
  <2> QED BY <2>2, <2>3
<1>5. CASE DetachConflicts
  BY <1>0, <1>5 DEF DetachConflicts, ClusterOK, cluster
<1>6. CASE PokeVolume \/ RestoreConflicts
  BY <1>0, <1>6, ReleaseFacts DEF PokeVolume, RestoreConflicts, ClusterOK
<1>7. CASE RestoreClears
  <2>1. fresh' \in [Clients -> SUBSET Keys]
    BY <1>0, <1>7, WroteFacts DEF RestoreClears, ClusterOK
  <2>2. vol' \in Volumes
    BY <1>0, <1>7 DEF RestoreClears, ClusterOK, Volumes
  <2>3. drun' \in DRuns
    BY <1>0, <1>7 DEF RestoreClears, DRuns
  <2> QED BY <1>0, <1>7, <2>1, <2>2, <2>3 DEF RestoreClears, ClusterOK
<1>8. CASE RestoreLists
  <2>1. drun' \in DRuns
    BY <1>0, <1>8 DEF RestoreLists, DRuns
  <2> QED BY <1>0, <1>8, <2>1 DEF RestoreLists, ClusterOK, cluster
<1>9. ASSUME NEW i \in Idx, RestorePurges(i)
      PROVE  ClusterOK' /\ drun' \in DRuns
  <2>1. fresh' \in [Clients -> SUBSET Keys]
    BY <1>0, <1>9, WroteFacts DEF RestorePurges, ClusterOK
  <2>2. reps' \in [Idx -> Replicas] /\ doomed' \subseteq Idx
    BY <1>0, <1>9, DeleteTypes DEF RestorePurges, ClusterOK
  <2>3. drun' \in DRuns
    BY <1>0, <1>9 DEF RestorePurges, DRuns
  <2> QED BY <1>0, <1>9, <2>1, <2>2, <2>3 DEF RestorePurges, ClusterOK
<1>10. CASE RestoreSetsSource
  <2>1. fresh' \in [Clients -> SUBSET Keys]
    BY <1>0, <1>10, ReleaseFacts DEF RestoreSetsSource, ClusterOK
  <2>2. vol' \in Volumes
    BY <1>0, <1>10 DEF RestoreSetsSource, ClusterOK, Volumes
  <2> QED BY <1>0, <1>10, <2>1, <2>2 DEF RestoreSetsSource, ClusterOK
<1> QED
  BY <1>1, <1>2, <1>3, <1>4, <1>5, <1>6, <1>7, <1>8, <1>9, <1>10
  DEF DashboardStep, DashboardRequest

(* What the engine controller fills in leaves the list's names and nodes,  *)
(* and the replicas' phases, alone, and forgets nothing filled in before.  *)
LEMMA FillFacts ==
    ASSUME ClusterOK, EngineFillsIn
    PROVE  /\ eng' \in Engines /\ eng'.here = eng.here
           /\ reps' \in [Idx -> Replicas]
           /\ \A i \in Idx : reps'[i].phase = reps[i].phase
           /\ eng'.atts \in Seq(Attachment) /\ DOMAIN eng'.atts = DOMAIN eng.atts
           /\ Len(eng'.atts) = Len(eng.atts)
           /\ \A p \in DOMAIN eng.atts :
                 /\ eng'.atts[p].idx = eng.atts[p].idx /\ eng'.atts[p].node = eng.atts[p].node
                 /\ eng.atts[p].known => eng'.atts[p].known
<1> DEFINE new == [p \in DOMAIN eng.atts |-> Filled(eng.atts[p])]
<1>1. eng.atts \in Seq(Attachment)
  BY DEF ClusterOK, Engines
<1>2. /\ DOMAIN eng.atts = 1 .. Len(eng.atts) /\ Len(eng.atts) \in Nat
      /\ \A p \in 1 .. Len(eng.atts) : eng.atts[p] \in Attachment
  BY <1>1, LenProperties, ElementOfSeq
<1>3. \A p \in 1 .. Len(eng.atts) :
         /\ new[p] \in Attachment /\ new[p].idx = eng.atts[p].idx
         /\ new[p].node = eng.atts[p].node /\ (eng.atts[p].known => new[p].known)
  BY <1>2 DEF Attachment, Filled, ToFill
<1>4. DOMAIN new = 1 .. Len(eng.atts)
  BY <1>2
<1>5. new \in [1 .. Len(eng.atts) -> Attachment]
  BY <1>2, <1>3
<1>6. PICK last \in {eng.last, << >>} : eng' = [eng EXCEPT !.last = last, !.atts = new]
  BY DEF EngineFillsIn
<1>a. last \in Seq(Attachment)
  BY <1>6, EmptySeq DEF ClusterOK, Engines
<1>b. reps' \in [Idx -> Replicas] /\ \A i \in Idx : reps'[i].phase = reps[i].phase
  <2>1. reps \in [Idx -> Replicas]
    BY DEF ClusterOK
  <2>2. \A i \in Idx : reps'[i] \in {reps[i], [reps[i] EXCEPT !.moved = FALSE]}
    BY DEF EngineFillsIn
  <2>3. \A i \in Idx : reps'[i] \in Replicas /\ reps'[i].phase = reps[i].phase
    BY <2>1, <2>2, ReplicaEdits
  <2>4. reps' = [i \in Idx |-> reps'[i]]
    BY DEF EngineFillsIn
  <2> QED BY <2>3, <2>4
<1> HIDE DEF new
<1>7. new \in Seq(Attachment) /\ Len(new) = Len(eng.atts)
  BY <1>2, <1>4, <1>5, SeqDef
<1>8. /\ eng' \in Engines /\ eng'.here = eng.here /\ eng'.atts = new
  BY <1>6, <1>7, <1>a DEF ClusterOK, Engines
<1> QED BY <1>2, <1>3, <1>4, <1>7, <1>8, <1>b

(* ... and every step of the engine controller and of the environment.     *)
LEMMA SurroundingsType ==
    ASSUME TypeOK, EngineStep \/ EngineReports \/ Environment
    PROVE  ClusterOK'
<1> USE ClusterAssumption, BasicFacts, KeyFacts
<1>0. ClusterOK
  BY DEF TypeOK, ClusterOK
<1>1. ASSUME EngineWritten
      PROVE  fresh' \in [Clients -> SUBSET Keys]
  BY <1>0, <1>1 DEF EngineWritten, ClusterOK
<1>2. CASE EngineFillsIn
  BY <1>0, <1>1, <1>2, FillFacts DEF EngineFillsIn, ClusterOK
<1>3. CASE EngineRuns
  <2>1. eng' \in Engines
    BY <1>0, <1>3 DEF EngineRuns, ClusterOK, Engines
  <2> QED BY <1>0, <1>1, <1>3, <2>1 DEF EngineRuns, ClusterOK
<1>7. CASE EngineDegrades
  <2>1. eng' \in Engines
    BY <1>0, <1>7 DEF EngineDegrades, ClusterOK, Engines
  <2> QED BY <1>0, <1>1, <1>7, <2>1 DEF EngineDegrades, ClusterOK
<1>4. CASE EngineReports
  <2>1. eng' \in Engines
    BY <1>0, <1>4 DEF EngineReports, ClusterOK, Engines
  <2>2. faults' \in 0 .. MaxFaults
    BY <1>0, <1>4 DEF EngineReports, ClusterOK
  <2> QED BY <1>0, <1>1, <1>4, <2>1, <2>2 DEF EngineReports, ClusterOK
<1>5. ASSUME NEW i \in Idx, PodStarts(i) \/ CollectPod(i) \/ CooldownEnds(i)
      PROVE  ClusterOK'
  BY <1>0, <1>5, DeleteTypes DEF PodStarts, CollectPod, CooldownEnds, ClusterOK, PodPhases
<1>6. ASSUME NEW i \in Idx, PodFails(i)
      PROVE  ClusterOK'
  <2>1. faults' \in 0 .. MaxFaults
    BY <1>0, <1>6 DEF PodFails, ClusterOK
  <2>2. pods' \in [Idx -> PodPhases] /\ doomed' \subseteq Idx
    BY <1>0, <1>6, DeleteTypes DEF PodFails, ClusterOK, PodPhases
  <2> QED BY <1>0, <1>6, <2>1, <2>2 DEF PodFails, ClusterOK
<1> QED BY <1>2, <1>3, <1>4, <1>5, <1>6, <1>7 DEF EngineStep, Environment

(* The types are preserved by every step.                                  *)
LEMMA StepType == TypeOK /\ RunOK /\ [Next]_vars => TypeOK'
<1> SUFFICES ASSUME TypeOK, RunOK, [Next]_vars PROVE TypeOK'
  OBVIOUS
<1>1. CASE (VolumeStep \/ ScaleUpNowhere \/ VolumeFails) /\ UNCHANGED <<rrun, drun>>
  BY <1>1, VolumeStepType DEF TypeOK, ClusterOK
<1>2. CASE (ReplicaStep \/ ReplicaFails) /\ UNCHANGED <<vrun, drun>>
  BY <1>2, ReplicaStepType DEF TypeOK, ClusterOK
<1>3. CASE (DashboardStep \/ DashboardRequest) /\ UNCHANGED <<vrun, rrun>>
  BY <1>3, DashboardType DEF TypeOK, ClusterOK
<1>4. CASE (EngineStep \/ EngineReports \/ Environment) /\ UNCHANGED <<vrun, rrun, drun>>
  BY <1>4, SurroundingsType DEF TypeOK, ClusterOK
<1>5. CASE UNCHANGED vars
  BY <1>5 DEF TypeOK, vars, cluster
<1> QED BY <1>1, <1>2, <1>3, <1>4, <1>5 DEF Next

-----------------------------------------------------------------------------
(* RunOK is preserved.                                                     *)

(* Every step of the volume controller keeps the counters of its own run   *)
(* within the lists it has read.                                           *)
LEMMA VolumeStepRun ==
    ASSUME TypeOK, RunOK, VolumeStep \/ ScaleUpNowhere \/ VolumeFails
    PROVE  RunOK'
<1>0. /\ vol \in Volumes /\ eng \in Engines /\ vrun \in VRuns
      /\ vrun.atts \in Seq(Attachment) /\ eng.atts \in Seq(Attachment)
      /\ Len(vrun.atts) \in 0 .. MaxReplicas /\ Len(eng.atts) \in 0 .. MaxReplicas
      /\ DOMAIN vrun.atts = 1 .. Len(vrun.atts)
      /\ vrun.want \in 0 .. MaxReplicas /\ vrun.k \in 0 .. MaxReplicas
      /\ MaxReplicas \in Nat
  <2>1. vrun.atts \in Seq(Attachment) /\ eng.atts \in Seq(Attachment)
    BY DEF TypeOK, VRuns, Engines
  <2> QED BY <2>1, LenProperties, ClusterAssumption DEF TypeOK, RunOK, VRuns
<1>1. ASSUME vrun' = VIdle, eng' = eng
      PROVE  RunOK'
  <2>1. vrun'.atts = << >> /\ vrun'.pc = "idle" /\ Len(<< >>) = 0
    BY <1>1 DEF VIdle
  <2> QED BY <1>0, <1>1, <2>1 DEF RunOK
<1>2. ASSUME NEW v, SaveStatus(v)
      PROVE  RunOK'
  BY <1>1, <1>2 DEF SaveStatus
<1>3. CASE PickNode \/ BeginCreate
  <2>1. vrun'.atts = << >> /\ vrun'.pc = "create" /\ Len(<< >>) = 0 /\ eng' = eng
    BY <1>3 DEF PickNode, BeginCreate, VIdle
  <2>3. 0 <= Len(ChildNodes')
    <3>1. vrun' \in VRuns
      BY <1>3, VolumeStepType DEF VolumeStep
    <3> DEFINE n == IF vrun'.want > NumWorkers THEN NumWorkers ELSE vrun'.want
    <3>2. n \in Nat
      BY <3>1, ClusterAssumption DEF VRuns
    <3>3. ChildNodes' = [p \in 1 .. n |-> p]
      BY DEF ChildNodes, PickWorkerNodes
    <3> HIDE DEF n
    <3> QED BY <3>2, <3>3
  <2>4. DOMAIN << >> = {}
    OBVIOUS
  <2> QED BY <1>0, <2>1, <2>3, <2>4 DEF RunOK
<1>4. CASE CreateChild
  <2> DEFINE node == PlacedOn(ChildNodes[Len(vrun.atts) + 1])
             a == [idx |-> Len(vrun.atts), node |-> node, known |-> FALSE]
  <2>1. vrun' = [vrun EXCEPT !.atts = Append(vrun.atts, a)] /\ eng' = eng /\ vol' = vol
    BY <1>4 DEF CreateChild, Attach
  <2>2. vrun.pc = "create" /\ Len(vrun.atts) < Len(ChildNodes)
    BY <1>4 DEF CreateChild
  <2>3. ChildNodes' = ChildNodes /\ vrun'.pc = "create" /\ vrun'.atts = Append(vrun.atts, a)
    BY <1>0, <2>1, <2>2 DEF VRuns, ChildNodes
  <2>4. vrun'.atts \in Seq(Attachment)
    BY <1>4, VolumeStepType DEF VolumeStep, VRuns
  <2>5. /\ Len(vrun'.atts) = Len(vrun.atts) + 1
        /\ \A p \in 1 .. Len(vrun.atts) : vrun'.atts[p] = vrun.atts[p]
        /\ vrun'.atts[Len(vrun.atts) + 1] = a
        /\ DOMAIN vrun'.atts = 1 .. (Len(vrun.atts) + 1)
    BY <1>0, <2>3
  <2>6. \A p \in DOMAIN vrun'.atts : vrun'.atts[p].idx = p - 1
    <3>1. \A p \in 1 .. Len(vrun.atts) : vrun.atts[p].idx = p - 1
      BY <1>0, <2>2 DEF RunOK
    <3>2. a.idx = (Len(vrun.atts) + 1) - 1
      BY <1>0
    <3> HIDE DEF a
    <3> SUFFICES ASSUME NEW p \in 1 .. (Len(vrun.atts) + 1)
                 PROVE  vrun'.atts[p].idx = p - 1
      BY <2>5
    <3>3. CASE p \in 1 .. Len(vrun.atts)
      BY <2>5, <3>1, <3>3
    <3>4. CASE p = Len(vrun.atts) + 1
      <4>1. vrun'.atts[p] = a
        BY <2>5, <3>4
      <4> QED BY <4>1, <3>2, <3>4
    <3> QED BY <1>0, <3>3, <3>4
  <2>7. Len(ChildNodes) \in 0 .. MaxReplicas
    BY <1>0, ChildNodesFacts
  <2> HIDE DEF a
  <2> QED BY <1>0, <2>1, <2>2, <2>3, <2>5, <2>6, <2>7 DEF RunOK
<1>5. CASE CreateEngine
  <2>1. /\ vrun'.pc = "adopt" /\ vrun'.atts = vrun.atts /\ vol' = vol
        /\ eng'.atts = eng.atts \/ eng'.atts = vrun.atts
    BY <1>0, <1>5 DEF CreateEngine, VRuns
  <2> QED BY <1>0, <1>5, <2>1 DEF RunOK, CreateEngine
<1>6. CASE AdoptEngine \/ MarkReady \/ DropEngineRef \/ Degrade
  BY <1>2, <1>6 DEF AdoptEngine, MarkReady, DropEngineRef, Degrade
<1>7. CASE BeginReconcile
  <2>1. /\ vrun'.pc \in {"ready", "drop", "types"} /\ vrun'.atts = eng.atts
        /\ eng' = eng /\ vol' = vol /\ vol.ref
    BY <1>7 DEF BeginReconcile
  <2> QED BY <1>0, <2>1 DEF RunOK
<1>8. CASE FixType
  BY <1>8 DEF FixType, RunOK, ChildNodes, Ailing
<1>9. CASE Decide
  <2>1. eng' = eng /\ vol' = vol /\ vrun.pc = "types"
    BY <1>9 DEF Decide
  <2>2. CASE vrun' = [vrun EXCEPT !.pc = "scaleUp", !.k = Len(vrun.atts)]
             /\ vrun.want > Len(vrun.atts)
    <3>1. vrun'.pc = "scaleUp" /\ vrun'.atts = vrun.atts /\ vrun'.want = vrun.want
      BY <1>0, <2>2 DEF VRuns
    <3> QED BY <1>0, <2>1, <2>2, <3>1 DEF RunOK
  <2>3. CASE vrun' = [vrun EXCEPT !.pc = "scaleDown", !.k = vrun.want]
             /\ vrun.want < Len(vrun.atts)
    <3>1. /\ vrun'.pc = "scaleDown" /\ vrun'.atts = vrun.atts /\ vrun'.want = vrun.want
          /\ vrun'.k = vrun.want
      BY <1>0, <2>3 DEF VRuns
    <3> QED BY <1>0, <2>1, <2>3, <3>1 DEF RunOK
  <2>4. CASE \E pc \in {"below", "note"} : vrun' = [vrun EXCEPT !.pc = pc]
    <3>1. vrun'.pc \in {"below", "note"} /\ vrun'.atts = vrun.atts
      BY <1>0, <2>4 DEF VRuns
    <3> QED BY <1>0, <2>1, <3>1 DEF RunOK
  <2>5. CASE \E p \in ToHeal : vrun' = [vrun EXCEPT !.pc = HealAction(p), !.k = p]
    <3>1. PICK p \in ToHeal : vrun' = [vrun EXCEPT !.pc = HealAction(p), !.k = p]
      BY <2>5
    <3>2. p \in 1 .. Len(vrun.atts)
      BY <1>0 DEF ToHeal
    <3>3. /\ vrun'.pc = HealAction(p) /\ vrun'.k = p /\ vrun'.atts = vrun.atts
          /\ vrun'.attempts = vrun.attempts
      BY <1>0, <3>1 DEF VRuns
    <3>4. /\ HealAction(p) \in {"detach", "recreate", "restart"}
          /\ HealAction(p) = "restart" => ~Exhausted(vrun.attempts[vrun.atts[p].idx])
      <4>1. HealAction(p) # ""
        BY DEF ToHeal
      <4> QED BY <4>1 DEF HealAction
    <3>5. vrun.attempts[vrun.atts[p].idx] \in 0 .. MaxAttempts
      <4>1. vrun.atts[p] \in Attachment
        BY <1>0, <3>2, ElementOfSeq
      <4>2. vrun.atts[p].idx \in Idx
        BY <4>1 DEF Attachment
      <4> QED BY <1>0, <4>2 DEF VRuns
    <3>6. HealAction(p) = "restart" => vrun.attempts[vrun.atts[p].idx] < MaxAttempts
      BY <3>4, <3>5, ClusterAssumption DEF Exhausted
    <3>7. Ailing' = vrun.atts[p].idx
      BY <3>3 DEF Ailing
    <3> QED BY <1>0, <2>1, <3>2, <3>3, <3>4, <3>6, <3>7 DEF RunOK
  <2> QED BY <1>9, <2>2, <2>3, <2>4, <2>5 DEF Decide
<1>10. CASE NothingToDo \/ Conflict \/ VolumeFails
  BY <1>1, <1>10 DEF NothingToDo, Conflict, VolumeFails, RunOK
<1>11. CASE ScaleUpReplica \/ ScaleUpNowhere
  <2>1. PICK node \in NodeIDs : Attach(NextIndex(UsedIndices), node)
    BY <1>11, ScaleUpFacts
  <2> DEFINE a == [idx |-> NextIndex(UsedIndices), node |-> node, known |-> FALSE]
  <2>2. vrun' = [vrun EXCEPT !.atts = Append(vrun.atts, a)]
    BY <2>1 DEF Attach
  <2>3. /\ vrun'.pc = "scaleUp" /\ vrun'.want = vrun.want /\ Len(vrun.atts) < vrun.want
        /\ eng' = eng /\ vrun'.atts = Append(vrun.atts, a)
    BY <1>0, <1>11, <2>2, ScaleUpFacts DEF VRuns
  <2>4. Len(vrun'.atts) = Len(vrun.atts) + 1
    BY <1>0, <2>3
  <2> HIDE DEF a
  <2> QED BY <1>0, <2>3, <2>4 DEF RunOK
<1>12. CASE ScaleDownReplica
  <2>1. /\ vrun'.pc = "scaleDown" /\ vrun'.want = vrun.want /\ vrun'.atts = vrun.atts
        /\ vrun'.k = vrun.k + 1 /\ vrun.k < Len(vrun.atts) /\ vrun.pc = "scaleDown"
        /\ eng' = eng /\ vol' = vol
    BY <1>0, <1>12 DEF ScaleDownReplica, VRuns
  <2> QED BY <1>0, <2>1 DEF RunOK
<1>13. ASSUME NEW atts \in Seq(Attachment), NEW pc \in {"degrade", "note"},
              UpdateEngine(atts, pc), Len(atts) <= MaxReplicas, vrun.pc # "idle"
       PROVE  RunOK'
  <2>1. vrun'.pc = pc /\ vrun'.atts = vrun.atts /\ eng'.atts = atts /\ vol' = vol
    BY <1>0, <1>13 DEF UpdateEngine, VRuns, Engines
  <2> QED BY <1>0, <1>13, <2>1 DEF RunOK
<1>14. CASE ScaleEngine
  <2>1. CASE vrun.pc = "scaleUp"
    BY <1>0, <1>13, <1>14, <2>1 DEF ScaleEngine
  <2>2. CASE vrun.pc = "scaleDown"
    <3>1. vrun.want \in 0 .. Len(vrun.atts)
      BY <1>0, <2>2 DEF RunOK
    <3>2. /\ SubSeq(vrun.atts, 1, vrun.want) \in Seq(Attachment)
          /\ Len(SubSeq(vrun.atts, 1, vrun.want)) = vrun.want
      BY <1>0, <3>1, PrefixKeeps
    <3>3. UpdateEngine(SubSeq(vrun.atts, 1, vrun.want), "degrade")
      BY <1>14, <2>2 DEF ScaleEngine
    <3>4. Len(SubSeq(vrun.atts, 1, vrun.want)) <= MaxReplicas
      BY <1>0, <3>2
    <3> QED BY <1>13, <2>2, <3>2, <3>3, <3>4
  <2> QED BY <1>14, <2>1, <2>2 DEF ScaleEngine
<1>15. CASE HealDeletesReplica
  <2>1. /\ vrun'.pc = "detach" /\ vrun'.atts = vrun.atts /\ vrun'.k = vrun.k
        /\ vrun.pc = "recreate" /\ eng' = eng /\ vol' = vol
    BY <1>0, <1>15 DEF HealDeletesReplica, VRuns
  <2> QED BY <1>0, <2>1 DEF RunOK
<1>16. CASE HealDetaches
  <2>1. vrun.k \in 1 .. Len(vrun.atts)
    BY <1>16 DEF HealDetaches, RunOK
  <2>2. /\ Without(vrun.atts, vrun.k) \in Seq(Attachment)
        /\ Len(Without(vrun.atts, vrun.k)) = Len(vrun.atts) - 1
    BY <1>0, <2>1, WithoutIsSeq
  <2> QED BY <1>0, <1>13, <1>16, <2>2 DEF HealDetaches
<1>17. CASE HealRestartsPod
  <2>1. /\ vrun'.pc = "count" /\ vrun'.atts = vrun.atts /\ vrun'.k = vrun.k
        /\ vrun'.attempts = vrun.attempts
        /\ vrun.pc = "restart" /\ eng' = eng /\ vol' = vol
    BY <1>0, <1>17 DEF HealRestartsPod, VRuns
  <2> QED BY <1>0, <2>1 DEF RunOK, Ailing
<1>18. CASE HealSaves
  <2>1. PICK v : SaveStatus(v)
    BY <1>18 DEF HealSaves
  <2> QED BY <1>2, <2>1
<1> QED
  BY <1>3, <1>4, <1>5, <1>6, <1>7, <1>8, <1>9, <1>10, <1>11, <1>12, <1>14, <1>15,
     <1>16, <1>17, <1>18 DEF VolumeStep

(* What the other parties' steps leave of the volume's and the engine's    *)
(* objects: the volume is not made Ready; the attachments can only become  *)
(* fewer.                                                                  *)
OthersKeep ==
    /\ vol'.phase = "Ready" => vol.phase = "Ready" /\ vol'.ref = vol.ref
    /\ eng'.here => eng.here
    /\ Len(eng'.atts) <= Len(eng.atts) /\ Names(eng'.atts) \subseteq Names(eng.atts)
    /\ Distinct(eng.atts) => Distinct(eng'.atts)

(* Nor do they write an object without outdating the copy that a reconcile *)
(* of the volume holds.                                                    *)
OthersOutdate ==
    /\ VolKey \in fresh'["volume"] => VolKey \in fresh["volume"] /\ vol' = vol
    /\ EngKey \in fresh'["volume"] =>
          EngKey \in fresh["volume"] /\ (eng.here => eng' = eng)

OthersStep == \/ ReplicaStep \/ ReplicaFails \/ DashboardStep \/ DashboardRequest
              \/ EngineStep \/ EngineReports \/ Environment

(* A step that leaves both objects alone.                                  *)
LEMMA NeitherWritten ==
    ASSUME TypeOK, vol' = vol, eng' = eng,
           fresh'["volume"] \subseteq fresh["volume"]
    PROVE  OthersKeep /\ OthersOutdate
<1>1. Len(eng.atts) \in Nat
  BY LenProperties DEF TypeOK, Engines
<1> QED BY <1>1 DEF OthersKeep, OthersOutdate

(* What the steps of everybody else leave alone: the volume controller's   *)
(* run, and the attachment list except for removals and what is filled in. *)
LEMMA OthersFacts ==
    ASSUME TypeOK, OthersStep
    PROVE  OthersKeep /\ OthersOutdate
<1> USE BasicFacts, KeyFacts
<1>0. /\ ClusterOK /\ eng.atts \in Seq(Attachment) /\ Len(eng.atts) \in Nat
      /\ DOMAIN eng.atts = 1 .. Len(eng.atts)
      /\ vol \in Volumes /\ eng \in Engines /\ fresh \in [Clients -> SUBSET Keys]
      /\ rrun.i \in Idx
  <2>1. eng.atts \in Seq(Attachment)
    BY DEF TypeOK, Engines
  <2> QED BY <2>1, LenProperties DEF TypeOK, ClusterOK, RRuns
<1>1. CASE ReplicaStep \/ ReplicaFails
  <2>1. vol' = vol /\ eng' = eng
    BY <1>1 DEF ReplicaStep, Provision, CreatePod, RemoteRunning, SidecarSilent, CleanPod,
       LocalRunning, ReplicaConflict, ReplicaFails, PublishRunning
  <2>2. \/ fresh' = fresh
        \/ \E held \in SUBSET Keys : \E written : Hold("replica", held, written)
    <3>1. CASE \E i \in Idx : Provision(i)
      <4>1. PICK i \in Idx : Hold("replica", {RepKey(i), UidKey(i)}, {})
        BY <3>1 DEF Provision
      <4> QED BY <4>1
    <3>2. CASE RemoteRunning \/ LocalRunning \/ SidecarSilent \/ ReplicaConflict \/ ReplicaFails
      BY <3>2 DEF RemoteRunning, LocalRunning, PublishRunning, SidecarSilent,
         ReplicaConflict, ReplicaFails, Release
    <3>3. CASE CreatePod \/ CleanPod
      BY <3>3 DEF CreatePod, CleanPod
    <3> QED BY <1>1, <3>1, <3>2, <3>3 DEF ReplicaStep
  <2>3. fresh'["volume"] \subseteq fresh["volume"]
    <3>1. CASE fresh' = fresh
      BY <3>1
    <3>2. CASE \E held \in SUBSET Keys : \E written : Hold("replica", held, written)
      <4>1. PICK held, written : held \in SUBSET Keys /\ Hold("replica", held, written)
        BY <3>2
      <4>2. fresh'["volume"] = fresh["volume"] \ written
        BY <1>0, <4>1, HoldFacts DEF Clients
      <4> QED BY <4>2
    <3> QED BY <2>2, <3>1, <3>2
  <2> QED BY <2>1, <2>3, NeitherWritten
<1>2. CASE Environment
  <2>1. vol' = vol /\ eng' = eng /\ fresh' = fresh
    BY <1>2 DEF Environment, PodStarts, PodFails, CollectPod, CooldownEnds
  <2> QED BY <2>1, NeitherWritten
<1>3. CASE EngineFillsIn
  <2>1. vol' = vol /\ EngineWritten
    BY <1>3 DEF EngineFillsIn
  <2>2. OthersOutdate
    BY <1>0, <2>1 DEF OthersOutdate, EngineWritten, Clients
  <2>3. /\ eng'.here = eng.here /\ DOMAIN eng'.atts = DOMAIN eng.atts
        /\ Len(eng'.atts) = Len(eng.atts)
        /\ \A p \in DOMAIN eng.atts :
              eng'.atts[p].idx = eng.atts[p].idx /\ eng'.atts[p].node = eng.atts[p].node
    BY <1>0, <1>3, FillFacts
  <2>4. Names(eng'.atts) \subseteq Names(eng.atts)
    BY <2>3 DEF Names
  <2>5. Distinct(eng.atts) => Distinct(eng'.atts)
    BY <2>3 DEF Distinct
  <2> QED BY <1>0, <2>1, <2>2, <2>3, <2>4, <2>5 DEF OthersKeep
<1>4. CASE EngineRuns \/ EngineDegrades \/ EngineReports
  <2>1. vol' = vol /\ EngineWritten /\ eng'.atts = eng.atts /\ eng'.here = eng.here
    BY <1>0, <1>4 DEF EngineRuns, EngineDegrades, EngineReports, Engines
  <2>2. OthersOutdate
    BY <1>0, <2>1 DEF OthersOutdate, EngineWritten, Clients
  <2> QED BY <1>0, <2>1, <2>2 DEF OthersKeep
<1>5. ASSUME NEW n \in 1 .. MaxReplicas, HandleScale(n)
      PROVE  OthersKeep /\ OthersOutdate
  <2>1. eng' = eng /\ vol' = [vol EXCEPT !.count = n] /\ Release("dashboard", {VolKey})
    BY <1>5 DEF HandleScale
  <2>2. fresh'["volume"] = fresh["volume"] \ {VolKey}
    BY <1>0, <2>1, ReleaseFacts DEF Clients
  <2>3. vol'.ref = vol.ref /\ vol'.phase = vol.phase
    BY <1>0, <2>1 DEF Volumes
  <2> QED BY <1>0, <2>1, <2>2, <2>3 DEF OthersKeep, OthersOutdate
<1>6. ASSUME NEW i \in Idx, DeleteReplicaRequest(i) \/ RestorePurges(i)
      PROVE  OthersKeep /\ OthersOutdate
  <2>1. /\ eng' = eng /\ vol' = vol
        /\ Release("dashboard", Deleted(i)) \/ Wrote("dashboard", Deleted(i))
    BY <1>6 DEF DeleteReplicaRequest, RestorePurges
  <2>2. fresh'["volume"] = fresh["volume"] \ Deleted(i)
    BY <1>0, <2>1, ReleaseFacts, WroteFacts DEF Clients
  <2> QED BY <2>1, <2>2, NeitherWritten
<1>7. CASE RestoreRequest
  <2>1. /\ eng' = NoEngine /\ vol' = vol
        /\ Hold("dashboard", {VolKey}, IF eng.here THEN {EngKey} ELSE {})
    BY <1>7 DEF RestoreRequest
  <2>2. fresh'["volume"] = fresh["volume"] \ (IF eng.here THEN {EngKey} ELSE {})
    BY <1>0, <2>1, HoldFacts DEF Clients
  <2>3. eng'.here = FALSE /\ eng'.atts = << >> /\ Len(<< >>) = 0 /\ DOMAIN << >> = {}
    BY <2>1 DEF NoEngine
  <2>4. OthersKeep
    BY <1>0, <2>1, <2>3 DEF OthersKeep, Names, Distinct
  <2> QED BY <2>1, <2>2, <2>4 DEF OthersOutdate
<1>8. CASE DetachReplica
  <2>1. CASE UNCHANGED <<eng, fresh>>
    BY <1>8, <2>1, NeitherWritten DEF DetachReplica
  <2>2. CASE /\ \E p \in DOMAIN eng.atts : eng' = [eng EXCEPT !.atts = Without(@, p)]
             /\ Release("dashboard", {EngKey})
    <3>1. PICK p \in DOMAIN eng.atts : eng' = [eng EXCEPT !.atts = Without(eng.atts, p)]
      BY <2>2
    <3>2. eng'.atts = Without(eng.atts, p) /\ eng'.here = eng.here /\ vol' = vol
      BY <1>0, <1>8, <3>1 DEF Engines, DetachReplica
    <3>3. /\ Len(Without(eng.atts, p)) = Len(eng.atts) - 1
          /\ Names(Without(eng.atts, p)) \subseteq Names(eng.atts)
          /\ Distinct(eng.atts) => Distinct(Without(eng.atts, p))
      BY <1>0, WithoutIsSeq, WithoutKeeps
    <3>4. fresh'["volume"] = fresh["volume"] \ {EngKey}
      BY <1>0, <2>2, ReleaseFacts DEF Clients
    <3> QED BY <1>0, <3>2, <3>3, <3>4 DEF OthersKeep, OthersOutdate
  <2> QED BY <1>8, <2>1, <2>2 DEF DetachReplica
<1>9. CASE DetachConflicts \/ RestoreLists
  <2>1. vol' = vol /\ eng' = eng /\ fresh' = fresh
    BY <1>9 DEF DetachConflicts, RestoreLists, cluster
  <2> QED BY <2>1, NeitherWritten
<1>10. CASE PokeVolume \/ RestoreConflicts
  <2>1. PICK written : Release("dashboard", written) /\ vol' = vol /\ eng' = eng
    BY <1>10 DEF PokeVolume, RestoreConflicts
  <2>2. fresh'["volume"] = fresh["volume"] \ written
    BY <1>0, <2>1, ReleaseFacts DEF Clients
  <2> QED BY <2>1, <2>2, NeitherWritten
<1>11. CASE RestoreClears
  <2>1. /\ eng' = eng /\ Wrote("dashboard", {VolKey})
        /\ vol' = [vol EXCEPT !.ref = FALSE, !.phase = "", !.attempts = NoAttempts]
    BY <1>11 DEF RestoreClears
  <2>2. fresh'["volume"] = fresh["volume"] \ {VolKey}
    BY <1>0, <2>1, WroteFacts DEF Clients
  <2>3. vol'.phase = ""
    BY <1>0, <2>1 DEF Volumes
  <2> QED BY <1>0, <2>1, <2>2, <2>3 DEF OthersKeep, OthersOutdate
<1>12. CASE RestoreSetsSource
  <2>1. eng' = eng /\ Release("dashboard", {VolKey}) /\ vol' = [vol EXCEPT !.snap = TRUE]
    BY <1>12 DEF RestoreSetsSource
  <2>2. fresh'["volume"] = fresh["volume"] \ {VolKey}
    BY <1>0, <2>1, ReleaseFacts DEF Clients
  <2>3. vol'.ref = vol.ref /\ vol'.phase = vol.phase
    BY <1>0, <2>1 DEF Volumes
  <2> QED BY <1>0, <2>1, <2>2, <2>3 DEF OthersKeep, OthersOutdate
<1> QED
  BY <1>1, <1>2, <1>3, <1>4, <1>5, <1>6, <1>7, <1>8, <1>9, <1>10, <1>11, <1>12
  DEF OthersStep, DashboardStep, DashboardRequest, EngineStep

(* The counters of the volume controller's run are preserved by every step.*)
LEMMA StepRun == TypeOK /\ RunOK /\ [Next]_vars => RunOK'
<1> SUFFICES ASSUME TypeOK, RunOK, [Next]_vars PROVE RunOK'
  OBVIOUS
<1>1. CASE VolumeStep \/ ScaleUpNowhere \/ VolumeFails
  BY <1>1, VolumeStepRun
<1>2. CASE OthersStep /\ vrun' = vrun
  <2>1. OthersKeep
    BY <1>2, OthersFacts
  <2>2. TypeOK'
    BY StepType
  <2>3. Len(eng.atts) \in Nat /\ Len(eng'.atts) \in Nat /\ MaxReplicas \in Nat
    BY <2>2, LenProperties, ClusterAssumption DEF TypeOK, Engines
  <2> QED BY <1>2, <2>1, <2>3 DEF OthersKeep, RunOK, ChildNodes, Ailing
<1>3. CASE UNCHANGED vars
  BY <1>3 DEF vars, cluster, RunOK, ChildNodes, Ailing
<1> QED BY <1>1, <1>2, <1>3 DEF Next, OthersStep

-----------------------------------------------------------------------------
(* The attachment lists.                                                   *)

(* The attachment that ensureChildren or scaleUp adds to its list has a    *)
(* new name; how to reach the replica is left to the engine controller.    *)
LEMMA NewAttachment ==
    ASSUME TypeOK, RunOK, CreateChild \/ ScaleUpReplica \/ ScaleUpNowhere
    PROVE  \E a \in Attachment :
              /\ vrun' = [vrun EXCEPT !.atts = Append(vrun.atts, a)]
              /\ a.idx \notin Names(vrun.atts) /\ ~a.known
<1>0. /\ vol \in Volumes /\ vrun \in VRuns /\ vrun.atts \in Seq(Attachment)
      /\ Len(vrun.atts) \in 0 .. MaxReplicas /\ DOMAIN vrun.atts = 1 .. Len(vrun.atts)
      /\ vrun.want \in 0 .. MaxReplicas
      /\ MaxReplicas \in Nat /\ NumWorkers \in Nat
  <2>1. vrun.atts \in Seq(Attachment)
    BY DEF TypeOK, VRuns
  <2> QED BY <2>1, LenProperties, ClusterAssumption DEF TypeOK, RunOK, VRuns
<1>1. CASE CreateChild
  <2> DEFINE i == Len(vrun.atts)
             node == PlacedOn(ChildNodes[Len(vrun.atts) + 1])
             a == [idx |-> i, node |-> node, known |-> FALSE]
  <2>1. vrun.pc = "create" /\ i < Len(ChildNodes) /\ Attach(i, node)
    BY <1>1 DEF CreateChild
  <2>2. /\ Len(ChildNodes) \in 0 .. MaxReplicas
        /\ ChildNodes[i + 1] = i + 1 /\ i + 1 \in Workers
    BY <1>0, <2>1, ChildNodesFacts
  <2>3. i \in Idx
    BY <1>0, <2>1, <2>2 DEF Idx
  <2>5. node \in NodeIDs
    BY <1>0, <2>2, BasicFacts DEF PlacedOn, Volumes
  <2>6. i \notin Names(vrun.atts)
    <3>1. \A p \in 1 .. Len(vrun.atts) : vrun.atts[p].idx = p - 1
      BY <1>0, <2>1 DEF RunOK
    <3> QED BY <1>0, <3>1 DEF Names
  <2>7. vrun' = [vrun EXCEPT !.atts = Append(vrun.atts, a)]
    BY <2>1 DEF Attach
  <2>8. a \in Attachment /\ a.idx = i /\ a.node = node /\ a.known = FALSE
    BY <2>3, <2>5 DEF Attachment
  <2> HIDE DEF a, node
  <2> QED BY <2>6, <2>7, <2>8
<1>2. CASE ScaleUpReplica \/ ScaleUpNowhere
  <2>1. PICK node \in NodeIDs : Attach(NextIndex(UsedIndices), node)
    BY <1>2, ScaleUpFacts
  <2>2. vrun.pc = "scaleUp" /\ Len(vrun.atts) < vrun.want
    BY <1>2, ScaleUpFacts
  <2> DEFINE i == NextIndex(UsedIndices)
             a == [idx |-> i, node |-> node, known |-> FALSE]
  <2>3. i \in Idx /\ i \notin Names(vrun.atts)
    BY <2>2, NextIndexFacts
  <2>8. vrun' = [vrun EXCEPT !.atts = Append(vrun.atts, a)]
    BY <2>1 DEF Attach
  <2>9. a \in Attachment /\ a.idx = i /\ a.node = node /\ a.known = FALSE
    BY <2>3 DEF Attachment
  <2> HIDE DEF a, i
  <2> QED BY <2>3, <2>8, <2>9
<1> QED BY <1>1, <1>2

(* The list in the engine is replaced only by ensureChildren, where there  *)
(* is no engine, or with a current copy: by scaleUp with the longer list,  *)
(* by scaleDown and healing with a shorter one.                            *)
EngineWrites ==
    \/ eng' = eng
    \/ ~eng.here /\ eng'.atts = vrun.atts
    \/ Fresh(EngKey) /\ vrun.pc = "scaleUp" /\ eng'.atts = vrun.atts
    \/ /\ Fresh(EngKey) /\ vrun.pc \in {"scaleDown", "detach"}
       /\ Names(eng'.atts) \subseteq Names(vrun.atts)
       /\ Distinct(vrun.atts) => Distinct(eng'.atts)

(* The list in memory starts empty or as the engine's and grows by new     *)
(* attachments.                                                            *)
ListGrows ==
    \/ vrun'.atts = << >>
    \/ vrun'.atts = eng.atts
    \/ vrun'.atts = vrun.atts
    \/ CreateChild \/ ScaleUpReplica \/ ScaleUpNowhere

(* A step of the volume controller writes to the engine a list that keeps  *)
(* names apart when the list it has read does.                             *)
LEMMA VolumeStepLists ==
    ASSUME TypeOK, RunOK, VolumeStep \/ ScaleUpNowhere \/ VolumeFails
    PROVE  EngineWrites /\ ListGrows
<1>0. /\ vol \in Volumes /\ eng \in Engines /\ vrun \in VRuns
      /\ vrun.atts \in Seq(Attachment)
      /\ Len(vrun.atts) \in Nat /\ vrun.want \in 0 .. MaxReplicas
      /\ MaxReplicas \in Nat
  BY LenProperties, ClusterAssumption DEF TypeOK, VRuns
<1>1. ASSUME vrun' = VIdle, eng' = eng
      PROVE  EngineWrites /\ ListGrows
  BY <1>1 DEF VIdle, EngineWrites, ListGrows
<1>2. ASSUME NEW v, SaveStatus(v)
      PROVE  vrun' = VIdle /\ eng' = eng
  BY <1>2 DEF SaveStatus
<1>3. CASE AdoptEngine \/ MarkReady \/ DropEngineRef \/ Degrade
  BY <1>1, <1>2, <1>3 DEF AdoptEngine, MarkReady, DropEngineRef, Degrade
<1>4. CASE HealSaves
  BY <1>1, <1>2, <1>4 DEF HealSaves
<1>5. CASE NothingToDo \/ Conflict \/ VolumeFails
  BY <1>1, <1>5 DEF NothingToDo, Conflict, VolumeFails
<1>6. CASE PickNode \/ BeginCreate
  <2>1. vrun'.atts = << >> /\ eng' = eng
    BY <1>6 DEF PickNode, BeginCreate, VIdle
  <2> QED BY <2>1 DEF EngineWrites, ListGrows
<1>7. CASE CreateChild \/ ScaleUpReplica \/ ScaleUpNowhere
  <2>1. eng' = eng
    BY <1>7 DEF CreateChild, ScaleUpReplica, ScaleUpNowhere
  <2> QED BY <1>7, <2>1 DEF EngineWrites, ListGrows
<1>8. CASE CreateEngine
  <2>1. vrun'.atts = vrun.atts /\ (eng' = eng \/ (~eng.here /\ eng'.atts = vrun.atts))
    BY <1>0, <1>8 DEF CreateEngine, VRuns, NoEngine
  <2> QED BY <2>1 DEF EngineWrites, ListGrows
<1>9. CASE BeginReconcile
  <2>1. vrun'.atts = eng.atts /\ eng' = eng
    BY <1>9 DEF BeginReconcile
  <2> QED BY <2>1 DEF EngineWrites, ListGrows
<1>10. CASE FixType
  BY <1>10 DEF FixType, EngineWrites, ListGrows
<1>11. CASE Decide
  <2>1. eng' = eng
    BY <1>11 DEF Decide
  <2>2. \/ \E pc : vrun' = [vrun EXCEPT !.pc = pc]
        \/ \E pc, k : vrun' = [vrun EXCEPT !.pc = pc, !.k = k]
    BY <1>11 DEF Decide
  <2>3. vrun'.atts = vrun.atts
    BY <1>0, <2>2 DEF VRuns
  <2> QED BY <2>1, <2>3 DEF EngineWrites, ListGrows
<1>12. CASE ScaleDownReplica \/ HealDeletesReplica \/ HealRestartsPod
  <2>1. vrun'.atts = vrun.atts /\ eng' = eng
    BY <1>0, <1>12 DEF ScaleDownReplica, HealDeletesReplica, HealRestartsPod, VRuns
  <2> QED BY <2>1 DEF EngineWrites, ListGrows
<1>13. ASSUME NEW atts, NEW pc \in {"degrade", "note"}, UpdateEngine(atts, pc)
       PROVE  Fresh(EngKey) /\ eng'.atts = atts /\ vrun'.atts = vrun.atts
  BY <1>0, <1>13 DEF UpdateEngine, VRuns, Engines
<1>14. CASE ScaleEngine
  <2>1. CASE vrun.pc = "scaleUp"
    BY <1>13, <1>14, <2>1 DEF ScaleEngine, EngineWrites, ListGrows
  <2>2. CASE vrun.pc = "scaleDown"
    <3> DEFINE s == SubSeq(vrun.atts, 1, vrun.want)
    <3>1. vrun.want \in 0 .. Len(vrun.atts)
      BY <1>0, <2>2 DEF RunOK, VRuns
    <3>2. /\ Names(s) \subseteq Names(vrun.atts)
          /\ Distinct(vrun.atts) => Distinct(s)
      BY <1>0, <3>1, PrefixKeeps
    <3>3. UpdateEngine(s, "degrade")
      BY <1>14, <2>2 DEF ScaleEngine
    <3> HIDE DEF s
    <3> QED BY <1>13, <2>2, <3>2, <3>3 DEF EngineWrites, ListGrows
  <2> QED BY <1>14, <2>1, <2>2 DEF ScaleEngine
<1>15. CASE HealDetaches
  <2> DEFINE w == Without(vrun.atts, vrun.k)
  <2>1. vrun.pc = "detach" /\ UpdateEngine(w, "note")
    BY <1>15 DEF HealDetaches
  <2>2. vrun.k \in 1 .. Len(vrun.atts)
    BY <2>1 DEF RunOK
  <2>3. /\ Names(w) \subseteq Names(vrun.atts)
        /\ Distinct(vrun.atts) => Distinct(w)
    BY <1>0, <2>2, WithoutKeeps
  <2> HIDE DEF w
  <2> QED BY <1>13, <2>1, <2>3 DEF EngineWrites, ListGrows
<1> QED
  BY <1>3, <1>4, <1>5, <1>6, <1>7, <1>8, <1>9, <1>10, <1>11, <1>12, <1>14, <1>15
  DEF VolumeStep

(* Names stay apart, in the engine and in the copy being worked on.        *)
LEMMA StepDistinct == TypeOK /\ RunOK /\ ListsDistinct /\ [Next]_vars => ListsDistinct'
<1> SUFFICES ASSUME TypeOK, RunOK, ListsDistinct, [Next]_vars PROVE ListsDistinct'
  OBVIOUS
<1>0. vrun.atts \in Seq(Attachment) /\ vrun \in VRuns
  BY DEF TypeOK, VRuns
<1>1. CASE VolumeStep \/ ScaleUpNowhere \/ VolumeFails
  <2>1. EngineWrites /\ ListGrows
    BY <1>1, VolumeStepLists
  <2>2. Distinct(eng'.atts)
    BY <2>1 DEF EngineWrites, ListsDistinct
  <2>3. Distinct(vrun'.atts)
    <3>1. CASE CreateChild \/ ScaleUpReplica \/ ScaleUpNowhere
      <4>1. PICK a \in Attachment : /\ vrun' = [vrun EXCEPT !.atts = Append(vrun.atts, a)]
                                    /\ a.idx \notin Names(vrun.atts)
        BY <3>1, NewAttachment
      <4>2. vrun'.atts = Append(vrun.atts, a)
        BY <1>0, <4>1 DEF VRuns
      <4> QED BY <1>0, <4>1, <4>2, AppendKeeps DEF ListsDistinct
    <3>2. CASE vrun'.atts = << >>
      <4>1. DOMAIN << >> = {}
        OBVIOUS
      <4> QED BY <3>2, <4>1 DEF Distinct
    <3> QED BY <2>1, <3>1, <3>2 DEF ListGrows, ListsDistinct
  <2> QED BY <2>2, <2>3 DEF ListsDistinct, Distinct
<1>2. CASE OthersStep /\ vrun' = vrun
  BY <1>2, OthersFacts DEF OthersKeep, ListsDistinct, Distinct
<1>3. CASE UNCHANGED vars
  BY <1>3 DEF vars, cluster, ListsDistinct, Distinct
<1> QED BY <1>1, <1>2, <1>3 DEF Next, OthersStep

-----------------------------------------------------------------------------
(* Copies that are current agree with their objects.                       *)

(* The pcs at which a reconcile relies on a copy.                          *)
RelyingPCs == {"types", "scaleDown", "recreate", "detach", "scaleUp", "ready"}

(* A copy of the volume or the engine that is still current equals the     *)
(* object, except for what the run has added to it.                        *)
LEMMA StepVolumeCopies ==
    ASSUME TypeOK, RunOK, VolumeCopies, [Next]_vars
    PROVE  VolumeCopies'
<1>0. /\ vol \in Volumes /\ eng \in Engines /\ vrun \in VRuns
      /\ vrun.atts \in Seq(Attachment) /\ Len(vrun.atts) \in Nat /\ vrun.k \in Nat
      /\ fresh \in [Clients -> SUBSET Keys]
  <2>1. vrun.k \in 0 .. MaxReplicas /\ MaxReplicas \in Nat
    BY ClusterAssumption DEF TypeOK, VRuns
  <2>2. vrun.k \in Nat
    BY <2>1
  <2> QED BY <2>2, LenProperties DEF TypeOK, VRuns
<1>1. ASSUME vrun'.pc \notin RelyingPCs PROVE VolumeCopies'
  BY <1>1 DEF VolumeCopies, RelyingPCs
<1>2. CASE PickNode \/ BeginCreate
  <2>1. vrun'.pc = "create"
    BY <1>2 DEF PickNode, BeginCreate, VIdle
  <2> QED BY <1>1, <2>1 DEF RelyingPCs
<1>3. CASE CreateChild \/ CreateEngine
  <2>1. vrun'.pc \in {"create", "adopt"}
    BY <1>0, <1>3 DEF CreateChild, Attach, CreateEngine, VRuns
  <2> QED BY <1>1, <2>1 DEF RelyingPCs
<1>4. CASE \/ AdoptEngine \/ MarkReady \/ DropEngineRef \/ Degrade \/ HealSaves
           \/ NothingToDo \/ Conflict \/ VolumeFails
  <2>1. vrun' = VIdle
    BY <1>4 DEF AdoptEngine, MarkReady, DropEngineRef, Degrade, HealSaves, SaveStatus,
       NothingToDo, Conflict, VolumeFails
  <2> QED BY <1>1, <2>1 DEF VIdle, RelyingPCs
<1>5. CASE ScaleEngine \/ HealDetaches
  <2>1. \E atts, pc : UpdateEngine(atts, pc) /\ pc \in {"degrade", "note"}
    BY <1>5 DEF ScaleEngine, HealDetaches
  <2>2. vrun'.pc \in {"degrade", "note"}
    BY <1>0, <2>1 DEF UpdateEngine, VRuns
  <2> QED BY <1>1, <2>2 DEF RelyingPCs
<1>6. CASE HealRestartsPod
  <2>1. vrun'.pc = "count"
    BY <1>0, <1>6 DEF HealRestartsPod, VRuns
  <2> QED BY <1>1, <2>1 DEF RelyingPCs
<1>7. CASE BeginReconcile
  <2>1. /\ vrun'.atts = eng.atts /\ eng' = eng /\ vol' = vol /\ vol.ref
        /\ vrun'.pc \in {"ready", "drop", "types"} /\ (vrun'.pc = "types" => eng.here)
    BY <1>0, <1>7 DEF BeginReconcile, ChildrenReady, Engines
  <2> QED BY <2>1 DEF VolumeCopies
<1>8. CASE FixType
  <2>1. fresh'["volume"] = fresh["volume"]
    BY <1>0, <1>8, WroteFacts, BasicFacts DEF FixType
  <2> QED BY <1>8, <2>1 DEF VolumeCopies, FixType
<1>9. CASE Decide
  <2>1. /\ vol' = vol /\ eng' = eng /\ fresh' = fresh /\ vrun.pc = "types"
    BY <1>9 DEF Decide
  <2>2. CASE vrun' = [vrun EXCEPT !.pc = "scaleUp", !.k = Len(vrun.atts)]
    <3>1. vrun'.pc = "scaleUp" /\ vrun'.k = Len(vrun.atts) /\ vrun'.atts = vrun.atts
      BY <1>0, <2>2 DEF VRuns
    <3>2. SubSeq(vrun.atts, 1, Len(vrun.atts)) = vrun.atts
      BY <1>0, PrefixFacts
    <3> QED BY <1>0, <2>1, <3>1, <3>2 DEF VolumeCopies
  <2>3. CASE \E pc, k : /\ vrun' = [vrun EXCEPT !.pc = pc, !.k = k]
                        /\ pc \in {"scaleDown", "below", "note", "recreate", "detach", "restart"}
    <3>1. /\ vrun'.atts = vrun.atts
          /\ vrun'.pc \in {"scaleDown", "below", "note", "recreate", "detach", "restart"}
      BY <1>0, <2>3 DEF VRuns
    <3> QED BY <2>1, <3>1 DEF VolumeCopies
  <2>4. CASE \E pc \in {"below", "note"} : vrun' = [vrun EXCEPT !.pc = pc]
    <3>1. vrun'.pc \in {"below", "note"}
      BY <1>0, <2>4 DEF VRuns
    <3> QED BY <1>1, <3>1 DEF RelyingPCs
  <2>5. CASE vrun' = [vrun EXCEPT !.pc = "scaleDown", !.k = vrun.want]
    BY <2>3, <2>5
  <2>6. CASE \E p \in ToHeal : vrun' = [vrun EXCEPT !.pc = HealAction(p), !.k = p]
    <3>1. PICK p \in ToHeal : vrun' = [vrun EXCEPT !.pc = HealAction(p), !.k = p]
      BY <2>6
    <3>2. HealAction(p) \in {"recreate", "detach", "restart"}
      <4>1. HealAction(p) # ""
        BY DEF ToHeal
      <4> QED BY <4>1 DEF HealAction
    <3> QED BY <2>3, <3>1, <3>2
  <2> QED BY <1>9, <2>2, <2>4, <2>5, <2>6 DEF Decide
<1>10. CASE ScaleUpReplica \/ ScaleUpNowhere
  <2>1. PICK a \in Attachment : vrun' = [vrun EXCEPT !.atts = Append(vrun.atts, a)]
    BY <1>10, NewAttachment
  <2>2. /\ vrun'.atts = Append(vrun.atts, a) /\ vrun'.k = vrun.k /\ vrun'.pc = "scaleUp"
        /\ vrun.pc = "scaleUp" /\ eng' = eng /\ fresh' = fresh /\ vol' = vol
    BY <1>0, <1>10, <2>1, ScaleUpFacts DEF VRuns
  <2>3. ASSUME EngKey \in fresh["volume"]
        PROVE  /\ eng.here /\ vrun.k <= Len(vrun.atts) + 1
               /\ eng.atts = SubSeq(Append(vrun.atts, a), 1, vrun.k)
    <3>1. /\ eng.here /\ vrun.k <= Len(vrun.atts)
          /\ eng.atts = SubSeq(vrun.atts, 1, vrun.k)
      BY <2>2, <2>3 DEF VolumeCopies
    <3>2. vrun.k \in 0 .. Len(vrun.atts)
      BY <1>0, <3>1
    <3> QED BY <1>0, <3>1, <3>2, PrefixFacts
  <2>4. Len(Append(vrun.atts, a)) = Len(vrun.atts) + 1
    BY <1>0, AppendKeeps
  <2> QED BY <2>2, <2>3, <2>4 DEF VolumeCopies
<1>11. CASE ScaleDownReplica \/ HealDeletesReplica
  <2>1. /\ vrun'.pc \in {"scaleDown", "detach"} /\ vrun'.atts = vrun.atts
        /\ vrun.pc \in {"scaleDown", "recreate"} /\ eng' = eng
    BY <1>0, <1>11 DEF ScaleDownReplica, HealDeletesReplica, VRuns
  <2>2. fresh'["volume"] = fresh["volume"]
    BY <1>0, <1>11, WroteFacts, BasicFacts DEF ScaleDownReplica, HealDeletesReplica
  <2> QED BY <2>1, <2>2 DEF VolumeCopies
<1>12. CASE OthersStep /\ vrun' = vrun
  <2>1. OthersOutdate
    BY <1>12, OthersFacts
  <2> QED BY <1>12, <2>1 DEF VolumeCopies, OthersOutdate
<1>13. CASE UNCHANGED vars
  BY <1>13 DEF vars, cluster, VolumeCopies
<1> QED
  BY <1>2, <1>3, <1>4, <1>5, <1>6, <1>7, <1>8, <1>9, <1>10, <1>11, <1>12, <1>13
  DEF Next, VolumeStep, OthersStep

-----------------------------------------------------------------------------
(* Pods and their owners.                                                  *)

(* A step without a deletion of a replica, or a new pod.                   *)
KeepsReplicas ==
    /\ \A i \in Idx : reps[i].phase # "absent" => reps'[i].phase # "absent"
    /\ \A i \in Idx : pods'[i] # "none" /\ i \notin doomed' =>
                         pods[i] # "none" /\ i \notin doomed
    /\ fresh'["replica"] \subseteq fresh["replica"]

(* The deletion of a replica, which outdates every copy of it.             *)
DropsReplica(j) ==
    /\ DeleteReplica(j) /\ pods' = pods
    /\ fresh'["replica"] = fresh["replica"] \ Deleted(j)

(* A step that keeps every replica that has a pod, or that deletes one and *)
(* outdates the copies of it, keeps pods owned.                            *)
LEMMA KeepOrDrop ==
    ASSUME TypeOK, ReplicaCopies, PodsAreOwned, rrun' = rrun,
           KeepsReplicas \/ \E j \in Idx : DropsReplica(j)
    PROVE  ReplicaCopies' /\ PodsAreOwned'
<1>0. /\ reps \in [Idx -> Replicas] /\ pods \in [Idx -> PodPhases] /\ doomed \subseteq Idx
      /\ rrun.i \in Idx
  BY DEF TypeOK, RRuns
<1>1. CASE KeepsReplicas
  BY <1>0, <1>1 DEF KeepsReplicas, ReplicaCopies, PodsAreOwned, Present
<1>2. CASE \E j \in Idx : DropsReplica(j)
  <2>1. PICK j \in Idx : DropsReplica(j)
    BY <1>2
  <2>2. /\ \A i \in Idx \ {j} : reps'[i] = reps[i]
        /\ pods' = pods /\ doomed' = (IF pods[j] = "none" THEN doomed ELSE doomed \cup {j})
    BY <1>0, <2>1 DEF DropsReplica, DeleteReplica
  <2>3. UidKey(j) \notin fresh'["replica"] /\ fresh'["replica"] \subseteq fresh["replica"]
    BY <2>1 DEF DropsReplica, Deleted
  <2>4. ReplicaCopies'
    <3>1. CASE rrun.i = j
      BY <2>3, <3>1 DEF ReplicaCopies
    <3>2. CASE rrun.i # j
      BY <1>0, <2>2, <2>3, <3>2 DEF ReplicaCopies, Present
    <3> QED BY <3>1, <3>2
  <2>5. PodsAreOwned'
    BY <1>0, <2>2 DEF PodsAreOwned, Present
  <2> QED BY <2>4, <2>5
<1> QED BY <1>1, <1>2

(* Every step of the volume controller is such a step, ...                 *)
LEMMA VolumeStepOwned ==
    ASSUME TypeOK, RunOK, VolumeStep \/ ScaleUpNowhere \/ VolumeFails
    PROVE  KeepsReplicas \/ \E j \in Idx : DropsReplica(j)
<1> USE BasicFacts
<1>0. /\ reps \in [Idx -> Replicas] /\ pods \in [Idx -> PodPhases] /\ doomed \subseteq Idx
      /\ fresh \in [Clients -> SUBSET Keys] /\ vrun \in VRuns
  BY DEF TypeOK
<1>1. ASSUME reps' = reps, pods' = pods, doomed' = doomed,
             \/ fresh' = fresh
             \/ \E held \in SUBSET Keys : \E written : Hold("volume", held, written)
      PROVE  KeepsReplicas
  <2>1. fresh'["replica"] \subseteq fresh["replica"]
    <3>1. CASE fresh' = fresh
      BY <3>1
    <3>2. CASE \E held \in SUBSET Keys : \E written : Hold("volume", held, written)
      <4>1. PICK held, written : held \in SUBSET Keys /\ Hold("volume", held, written)
        BY <3>2
      <4>2. fresh'["replica"] = fresh["replica"] \ written
        BY <1>0, <4>1, HoldFacts DEF Clients
      <4> QED BY <4>2
    <3> QED BY <1>1, <3>1, <3>2
  <2> QED BY <1>1, <2>1 DEF KeepsReplicas
<1>2. CASE PickNode \/ BeginCreate \/ BeginReconcile
  <2>1. \E held \in SUBSET Keys : \E written : Hold("volume", held, written)
    BY <1>2, KeyFacts DEF PickNode, BeginCreate, BeginReconcile
  <2> QED BY <1>1, <1>2, <2>1 DEF PickNode, BeginCreate, BeginReconcile
<1>3. CASE CreateChild \/ ScaleUpReplica \/ ScaleUpNowhere
  <2>1. PICK i, node : /\ Attach(i, node)
                       /\ pods' = pods /\ doomed' = doomed /\ fresh' = fresh
    BY <1>3 DEF CreateChild, ScaleUpReplica, ScaleUpNowhere
  <2>2. reps' = IF Present(i) THEN reps ELSE [reps EXCEPT ![i] = NewReplica(node)]
    BY <2>1 DEF Attach, CreateIfMissing
  <2>3. NewReplica(node).phase = ""
    BY DEF NewReplica
  <2>4. \A j \in Idx : reps[j].phase # "absent" => reps'[j].phase # "absent"
    BY <1>0, <2>2, <2>3 DEF Present
  <2> QED BY <2>1, <2>4 DEF KeepsReplicas
<1>4. CASE CreateEngine \/ Decide
  BY <1>1, <1>4 DEF CreateEngine, Decide
<1>5. CASE AdoptEngine \/ MarkReady \/ DropEngineRef \/ Degrade \/ HealSaves
  BY <1>1, <1>5 DEF AdoptEngine, MarkReady, DropEngineRef, Degrade, HealSaves, SaveStatus,
     Release
<1>6. CASE NothingToDo \/ Conflict \/ VolumeFails
  BY <1>1, <1>6 DEF NothingToDo, Conflict, VolumeFails, Release
<1>7. CASE FixType
  <2>1. PICK i \in Mistyped :
           /\ reps' = [reps EXCEPT ![i].type = IF @ = "Local" THEN "Remote" ELSE "Local"]
           /\ Wrote("volume", {RepKey(i)})
    BY <1>7 DEF FixType
  <2>2. \A j \in Idx : reps'[j].phase = reps[j].phase
    BY <1>0, <2>1 DEF Mistyped, Replicas
  <2>3. fresh'["replica"] \subseteq fresh["replica"]
    BY <1>0, <2>1, WroteFacts DEF Clients
  <2> QED BY <1>7, <2>2, <2>3 DEF FixType, KeepsReplicas
<1>8. ASSUME NEW atts, NEW pc, UpdateEngine(atts, pc)
      PROVE  KeepsReplicas
  <2>1. fresh["volume"] \in SUBSET Keys /\ Hold("volume", fresh["volume"], {EngKey})
    BY <1>0, <1>8 DEF UpdateEngine, Wrote, Clients
  <2>2. reps' = reps /\ pods' = pods /\ doomed' = doomed
    BY <1>8 DEF UpdateEngine
  <2> QED BY <1>1, <2>1, <2>2
<1>9. CASE ScaleEngine \/ HealDetaches
  BY <1>8, <1>9 DEF ScaleEngine, HealDetaches
<1>10. ASSUME NEW j \in Idx, DeleteReplica(j), Wrote("volume", Deleted(j)), pods' = pods
       PROVE  DropsReplica(j)
  <2>1. fresh'["replica"] = fresh["replica"] \ Deleted(j)
    BY <1>0, <1>10, WroteFacts DEF Clients
  <2> QED BY <1>10, <2>1 DEF DropsReplica
<1>11. CASE ScaleDownReplica
  <2>1. Len(vrun.atts) \in Nat /\ vrun.k \in 0 .. MaxReplicas /\ MaxReplicas \in Nat
    BY LenProperties, ClusterAssumption DEF TypeOK, VRuns
  <2>2. vrun.k \in Idx
    BY <1>11, <2>1 DEF ScaleDownReplica, RunOK, Idx
  <2> QED BY <1>10, <1>11, <2>2 DEF ScaleDownReplica
<1>12. CASE HealDeletesReplica
  <2>1. Ailing \in Idx
    BY <1>12, AilingType DEF HealDeletesReplica, RunOK
  <2> QED BY <1>10, <1>12, <2>1 DEF HealDeletesReplica
<1>13. CASE HealRestartsPod
  <2>1. DeletePod(Ailing) /\ reps' = reps /\ fresh' = fresh
    BY <1>13 DEF HealRestartsPod
  <2>2. \A i \in Idx : pods'[i] # "none" /\ i \notin doomed' =>
                          pods[i] # "none" /\ i \notin doomed
    BY <1>0, <2>1 DEF DeletePod
  <2> QED BY <2>1, <2>2 DEF KeepsReplicas
<1> QED
  BY <1>2, <1>3, <1>4, <1>5, <1>6, <1>7, <1>9, <1>11, <1>12, <1>13 DEF VolumeStep

(* ... every step of the dashboard, ...                                    *)
LEMMA DashboardOwned ==
    ASSUME TypeOK, DashboardStep \/ DashboardRequest
    PROVE  KeepsReplicas \/ \E j \in Idx : DropsReplica(j)
<1> USE BasicFacts
<1>0. fresh \in [Clients -> SUBSET Keys]
  BY DEF TypeOK
<1>1. ASSUME reps' = reps, pods' = pods, doomed' = doomed,
             \/ fresh' = fresh
             \/ \E held \in SUBSET Keys : \E written : Hold("dashboard", held, written)
      PROVE  KeepsReplicas
  <2>1. fresh'["replica"] \subseteq fresh["replica"]
    <3>1. CASE fresh' = fresh
      BY <3>1
    <3>2. CASE \E held \in SUBSET Keys : \E written : Hold("dashboard", held, written)
      <4>1. PICK held, written : held \in SUBSET Keys /\ Hold("dashboard", held, written)
        BY <3>2
      <4>2. fresh'["replica"] = fresh["replica"] \ written
        BY <1>0, <4>1, HoldFacts DEF Clients
      <4> QED BY <4>2
    <3> QED BY <1>1, <3>1, <3>2
  <2> QED BY <1>1, <2>1 DEF KeepsReplicas
<1>2. ASSUME NEW j \in Idx, DeleteReplicaRequest(j) \/ RestorePurges(j)
      PROVE  DropsReplica(j)
  <2>1. /\ DeleteReplica(j) /\ pods' = pods
        /\ Release("dashboard", Deleted(j)) \/ Wrote("dashboard", Deleted(j))
    BY <1>2 DEF DeleteReplicaRequest, RestorePurges
  <2>2. fresh'["replica"] = fresh["replica"] \ Deleted(j)
    BY <1>0, <2>1, ReleaseFacts, WroteFacts DEF Clients
  <2> QED BY <2>1, <2>2 DEF DropsReplica
<1>3. CASE (\E n \in 1 .. MaxReplicas : HandleScale(n)) \/ PokeVolume
           \/ RestoreSetsSource \/ RestoreConflicts
  BY <1>1, <1>3 DEF HandleScale, PokeVolume, RestoreSetsSource, RestoreConflicts, Release
<1>4. CASE DetachReplica
  BY <1>1, <1>4 DEF DetachReplica, Release
<1>5. CASE DetachConflicts \/ RestoreLists
  BY <1>1, <1>5 DEF DetachConflicts, RestoreLists, cluster
<1>6. CASE RestoreRequest
  <2>1. \E held \in SUBSET Keys : \E written : Hold("dashboard", held, written)
    BY <1>6, KeyFacts DEF RestoreRequest
  <2> QED BY <1>1, <1>6, <2>1 DEF RestoreRequest
<1>7. CASE RestoreClears
  <2>1. fresh["dashboard"] \in SUBSET Keys /\ Hold("dashboard", fresh["dashboard"], {VolKey})
    BY <1>0, <1>7 DEF RestoreClears, Wrote, Clients
  <2> QED BY <1>1, <1>7, <2>1 DEF RestoreClears
<1> QED
  BY <1>2, <1>3, <1>4, <1>5, <1>6, <1>7 DEF DashboardStep, DashboardRequest

(* ... and every step of the engine controller and of the environment.     *)
LEMMA SurroundingsOwned ==
    ASSUME TypeOK, EngineStep \/ EngineReports \/ Environment
    PROVE  KeepsReplicas
<1>0. /\ fresh \in [Clients -> SUBSET Keys] /\ pods \in [Idx -> PodPhases]
      /\ doomed \subseteq Idx
  BY DEF TypeOK
<1>1. CASE EngineStep \/ EngineReports
  <2>1. pods' = pods /\ doomed' = doomed /\ EngineWritten
    BY <1>1 DEF EngineStep, EngineFillsIn, EngineRuns, EngineDegrades, EngineReports
  <2>3. \A i \in Idx : reps'[i].phase = reps[i].phase
    <3>1. CASE EngineFillsIn
      BY <3>1, FillFacts DEF TypeOK, ClusterOK
    <3> QED BY <1>1, <3>1 DEF EngineStep, EngineRuns, EngineDegrades, EngineReports
  <2>2. fresh'["replica"] \subseteq fresh["replica"]
    BY <1>0, <2>1 DEF EngineWritten, Clients
  <2> QED BY <2>1, <2>2, <2>3 DEF KeepsReplicas
<1>2. ASSUME NEW i \in Idx, PodStarts(i) \/ PodFails(i) \/ CollectPod(i) \/ CooldownEnds(i)
      PROVE  KeepsReplicas
  <2>1. reps' = reps /\ fresh' = fresh
    BY <1>2 DEF PodStarts, PodFails, CollectPod, CooldownEnds
  <2>2. \A j \in Idx : pods'[j] # "none" /\ j \notin doomed' =>
                          pods[j] # "none" /\ j \notin doomed
    <3>1. CASE DeletePod(i)
      BY <1>0, <3>1 DEF DeletePod
    <3>2. CASE pods[i] # "none" /\ doomed' = doomed
               /\ \E s : pods' = [pods EXCEPT ![i] = s]
      BY <1>0, <3>2
    <3>3. CASE CooldownEnds(i)
      BY <3>3 DEF CooldownEnds
    <3> QED BY <1>2, <3>1, <3>2, <3>3 DEF PodStarts, PodFails, CollectPod
  <2> QED BY <2>1, <2>2 DEF KeepsReplicas
<1> QED BY <1>1, <1>2 DEF Environment

(* The replica controller creates pods with the UID it has read.           *)
LEMMA ReplicaStepOwned ==
    ASSUME TypeOK, ReplicaCopies, PodsAreOwned, ReplicaStep \/ ReplicaFails
    PROVE  ReplicaCopies' /\ PodsAreOwned'
<1> USE BasicFacts
<1>0. /\ reps \in [Idx -> Replicas] /\ pods \in [Idx -> PodPhases] /\ doomed \subseteq Idx
      /\ fresh \in [Clients -> SUBSET Keys] /\ rrun \in RRuns /\ rrun.i \in Idx
  BY DEF TypeOK, RRuns
<1>1. ASSUME rrun' = RIdle PROVE ReplicaCopies'
  BY <1>1 DEF RIdle, ReplicaCopies
<1>2. ASSUME NEW i \in Idx, Provision(i)
      PROVE  ReplicaCopies' /\ PodsAreOwned'
  <2>1. reps' = reps /\ pods' = pods /\ doomed' = doomed /\ rrun'.i = i /\ Present(i)
    BY <1>2 DEF Provision
  <2> QED BY <2>1 DEF ReplicaCopies, PodsAreOwned, Present
<1>3. CASE CreatePod
  <2>1. reps' = reps /\ fresh' = fresh /\ rrun.pc = "pod" /\ rrun'.i = rrun.i
    BY <1>0, <1>3 DEF CreatePod, RRuns
  <2>2. ReplicaCopies'
    BY <2>1 DEF ReplicaCopies, Present
  <2>3. CASE pods[rrun.i] # "none"
    BY <1>3, <2>1, <2>2, <2>3 DEF CreatePod, PodsAreOwned, Present
  <2>4. CASE pods[rrun.i] = "none"
    <3>1. /\ pods' = [pods EXCEPT ![rrun.i] = "noIP"]
          /\ doomed' = IF RFresh(UidKey(rrun.i)) THEN doomed ELSE doomed \cup {rrun.i}
      BY <1>3, <2>4 DEF CreatePod
    <3>2. RFresh(UidKey(rrun.i)) => Present(rrun.i)
      BY <2>1 DEF ReplicaCopies, RFresh
    <3>3. \A j \in Idx \ {rrun.i} : pods'[j] = pods[j] /\ (j \in doomed' <=> j \in doomed)
      BY <1>0, <3>1
    <3>4. PodsAreOwned'
      BY <1>0, <2>1, <3>1, <3>2, <3>3 DEF PodsAreOwned, Present
    <3> QED BY <2>2, <3>4
  <2> QED BY <2>3, <2>4
<1>4. CASE RemoteRunning \/ LocalRunning
  <2>1. PICK nqn, moved : PublishRunning(nqn, moved)
    BY <1>4 DEF RemoteRunning, LocalRunning
  <2>2. /\ rrun' = RIdle /\ pods' = pods /\ doomed' = doomed
        /\ reps' = [reps EXCEPT ![rrun.i].phase = "Running", ![rrun.i].nqn = nqn,
                                ![rrun.i].moved = moved]
    BY <2>1 DEF PublishRunning
  <2>3. \A j \in Idx : reps[j].phase # "absent" => reps'[j].phase # "absent"
    BY <1>0, <2>2 DEF Replicas
  <2> QED BY <1>1, <2>2, <2>3 DEF PodsAreOwned, Present
<1>5. CASE SidecarSilent \/ ReplicaConflict \/ ReplicaFails
  BY <1>1, <1>5 DEF SidecarSilent, ReplicaConflict, ReplicaFails, PodsAreOwned, Present
<1>6. CASE CleanPod
  <2>1. DeletePod(rrun.i) /\ rrun' = rrun /\ reps' = reps /\ fresh' = fresh
    BY <1>6 DEF CleanPod
  <2>2. KeepsReplicas
    BY <1>0, <2>1 DEF KeepsReplicas, DeletePod
  <2> QED BY <2>1, <2>2, KeepOrDrop
<1> QED BY <1>2, <1>3, <1>4, <1>5, <1>6 DEF ReplicaStep

(* Pods stay owned or garbage.                                             *)
LEMMA StepOwned ==
    ASSUME TypeOK, RunOK, ReplicaCopies, PodsAreOwned, [Next]_vars
    PROVE  ReplicaCopies' /\ PodsAreOwned'
<1>1. CASE (VolumeStep \/ ScaleUpNowhere \/ VolumeFails) /\ UNCHANGED <<rrun, drun>>
  BY <1>1, VolumeStepOwned, KeepOrDrop
<1>2. CASE ReplicaStep \/ ReplicaFails
  BY <1>2, ReplicaStepOwned
<1>3. CASE (DashboardStep \/ DashboardRequest) /\ UNCHANGED <<vrun, rrun>>
  BY <1>3, DashboardOwned, KeepOrDrop
<1>4. CASE (EngineStep \/ EngineReports \/ Environment) /\ UNCHANGED <<vrun, rrun, drun>>
  BY <1>4, SurroundingsOwned, KeepOrDrop
<1>5. CASE UNCHANGED vars
  BY <1>5 DEF vars, cluster, ReplicaCopies, PodsAreOwned, Present
<1> QED BY <1>1, <1>2, <1>3, <1>4, <1>5 DEF Next

-----------------------------------------------------------------------------
(* The phase of the volume.                                                *)

(* A volume becomes Ready only by a write of a current copy, which still   *)
(* has its EngineRef.                                                      *)
LEMMA StepReady ==
    ASSUME TypeOK, VolumeCopies, ReadyHasEngineRef, [Next]_vars
    PROVE  ReadyHasEngineRef'
<1>0. vol \in Volumes
  BY DEF TypeOK
<1>1. ASSUME NEW v, SaveStatus(v), v.phase = "Ready" => v.ref
      PROVE  ReadyHasEngineRef'
  BY <1>1 DEF SaveStatus, ReadyHasEngineRef
<1>2. CASE MarkReady
  <2>1. vol.ref
    BY <1>2 DEF MarkReady, SaveStatus, Fresh, VolumeCopies
  <2> QED BY <1>0, <1>1, <1>2, <2>1 DEF MarkReady, Volumes
<1>3. CASE AdoptEngine \/ DropEngineRef \/ Degrade
  BY <1>0, <1>1, <1>3 DEF AdoptEngine, DropEngineRef, Degrade, Volumes
<1>4. CASE HealSaves
  <2> DEFINE v1 == [vol EXCEPT !.attempts = NewAttempts, !.phase = "Degraded"]
             v2 == [vol EXCEPT !.attempts = NewAttempts]
             v3 == [vol EXCEPT !.attempts = [NewAttempts EXCEPT ![Ailing] = @ + 1]]
  <2>1. SaveStatus(v1) \/ SaveStatus(v2) \/ SaveStatus(v3)
    BY <1>4 DEF HealSaves
  <2>2. \A v \in {v1, v2, v3} : v.phase = "Ready" => v.ref
    BY <1>0 DEF Volumes, ReadyHasEngineRef
  <2> HIDE DEF v1, v2, v3
  <2> QED BY <1>1, <2>1, <2>2
<1>5. CASE PickNode
  <2>1. vol'.ref = vol.ref /\ vol'.phase = vol.phase
    BY <1>0, <1>5 DEF PickNode, Volumes
  <2> QED BY <2>1 DEF ReadyHasEngineRef
<1>6. CASE \/ BeginCreate \/ CreateChild \/ CreateEngine \/ BeginReconcile \/ FixType
           \/ Decide \/ NothingToDo \/ ScaleUpReplica \/ ScaleUpNowhere
           \/ ScaleDownReplica \/ ScaleEngine
           \/ HealDeletesReplica \/ HealDetaches \/ HealRestartsPod \/ Conflict \/ VolumeFails
  <2>1. vol' = vol
    BY <1>6 DEF BeginCreate, CreateChild, CreateEngine, BeginReconcile, FixType, Decide,
       NothingToDo, ScaleUpReplica, ScaleUpNowhere, ScaleDownReplica, ScaleEngine, HealDeletesReplica,
       HealDetaches, HealRestartsPod, Conflict, VolumeFails, UpdateEngine
  <2> QED BY <2>1 DEF ReadyHasEngineRef
<1>7. CASE OthersStep
  BY <1>7, OthersFacts DEF OthersKeep, ReadyHasEngineRef
<1>8. CASE UNCHANGED vars
  BY <1>8 DEF vars, cluster, ReadyHasEngineRef
<1> QED
  BY <1>2, <1>3, <1>4, <1>5, <1>6, <1>7, <1>8 DEF Next, VolumeStep, OthersStep

-----------------------------------------------------------------------------
(* The theorems.                                                           *)

(* The invariant holds at the start.                                       *)
LEMMA InitIndInv == Init => IndInv
<1> SUFFICES ASSUME Init PROVE IndInv
  OBVIOUS
<1> USE BasicFacts
<1>1. PICK s \in Starts :
         /\ vol = [node |-> s[1], count |-> s[2], snap |-> FALSE, ref |-> FALSE,
                   phase |-> "", attempts |-> NoAttempts]
         /\ userOps = s[3] /\ faults = s[4]
  BY DEF Init
<1>a. /\ s[1] \in NodeIDs /\ s[2] \in 0 .. MaxReplicas
      /\ s[3] \in 0 .. MaxUserOps /\ s[4] \in 0 .. MaxFaults
  BY StartAssumption
<1>2. /\ eng = NoEngine /\ vrun = VIdle /\ rrun = RIdle /\ drun = DIdle
      /\ doomed = {} /\ pods = [i \in Idx |-> "none"]
  BY DEF Init
<1>3. vol \in Volumes
  BY <1>1, <1>a DEF Volumes
<1>4. TypeOK
  <2>1. reps \in [Idx -> Replicas] /\ pods \in [Idx -> PodPhases]
    BY DEF Init, PodPhases
  <2>2. fresh \in [Clients -> SUBSET Keys] /\ cooling = {}
    BY DEF Init
  <2>3. userOps \in 0 .. MaxUserOps /\ faults \in 0 .. MaxFaults
    BY <1>1, <1>a
  <2> QED BY <1>2, <1>3, <2>1, <2>2, <2>3 DEF TypeOK
<1>5. /\ eng.atts = << >> /\ vrun.atts = << >> /\ Len(<< >>) = 0 /\ DOMAIN << >> = {}
      /\ vrun.pc = "idle" /\ rrun.pc = "idle" /\ vrun.snap = FALSE
  BY <1>2 DEF NoEngine, VIdle, RIdle
<1>6. RunOK
  <2>1. ~vol.ref
    BY <1>1
  <2>2. MaxReplicas \in Nat
    BY ClusterAssumption
  <2> QED BY <1>5, <2>1, <2>2 DEF RunOK
<1>7. ListsDistinct
  BY <1>5 DEF ListsDistinct, Distinct
<1>8. VolumeCopies /\ ReplicaCopies
  BY <1>5 DEF VolumeCopies, ReplicaCopies
<1>9. PodsAreOwned /\ ReadyHasEngineRef
  BY <1>1, <1>2 DEF PodsAreOwned, ReadyHasEngineRef
<1> QED BY <1>4, <1>6, <1>7, <1>8, <1>9 DEF IndInv

(* Every step preserves it.                                                *)
LEMMA StepIndInv == IndInv /\ [Next]_vars => IndInv'
<1> SUFFICES ASSUME IndInv, [Next]_vars PROVE IndInv'
  OBVIOUS
<1>0. /\ TypeOK /\ RunOK /\ ListsDistinct
      /\ VolumeCopies /\ ReplicaCopies /\ PodsAreOwned /\ ReadyHasEngineRef
  BY DEF IndInv
<1>1. TypeOK' /\ RunOK' /\ ListsDistinct'
  BY <1>0, StepType, StepRun, StepDistinct
<1>2. VolumeCopies' /\ ReplicaCopies' /\ PodsAreOwned' /\ ReadyHasEngineRef'
  BY <1>0, StepVolumeCopies, StepOwned, StepReady
<1> QED BY <1>1, <1>2 DEF IndInv

(* IndInv is an invariant of the specification.                            *)
LEMMA Inductive == Spec => []IndInv
  BY InitIndInv, StepIndInv, PTL DEF Spec

(* The objects and the in-memory copies of every handler keep their types, *)
(* whatever the number of workers, replicas, requests and failures; in     *)
(* particular every index that scaleUp, scaleDown and healing name is one  *)
(* of the volume's, and RestartAttempts never passes maxAttempts.          *)
THEOREM TypeCorrect == Spec => []TypeOK
<1>1. IndInv => TypeOK
  BY DEF IndInv
<1> QED BY <1>1, Inductive, PTL

(* engine.Spec.Replicas never names a replica twice, whatever scaling,     *)
(* healing, the dashboard and restored snapshots do to it.                 *)
THEOREM AttachmentsDistinct == Spec => []DistinctAttachments
<1>1. IndInv => DistinctAttachments
  BY DEF IndInv, ListsDistinct, DistinctAttachments
<1> QED BY <1>1, Inductive, PTL

(* A volume never says Ready without a reference to its engine, although   *)
(* a restore clears the status while a reconcile is about to write it.     *)
THEOREM ReadyRefersToEngine == Spec => []ReadyHasEngineRef
<1>1. IndInv => ReadyHasEngineRef
  BY DEF IndInv
<1> QED BY <1>1, Inductive, PTL

(* A replica pod whose Replica object was deleted during its creation is   *)
(* garbage, never the pod of a successor with the same name.               *)
THEOREM PodsHaveOwners == Spec => []PodsAreOwned
<1>1. IndInv => PodsAreOwned
  BY DEF IndInv
<1> QED BY <1>1, Inductive, PTL

(* No controller's write brings back an attachment that somebody else      *)
(* removed from the engine: a name that appears was added by scaleUp.      *)
THEOREM DetachIsNotLost == Spec => NoLostDetach
<1> DEFINE A == eng.here /\ eng'.here =>
                  \A i \in Names(eng'.atts) \ Names(eng.atts) :
                      vrun.pc = "scaleUp" /\ i \in Added
<1>1. IndInv /\ [Next]_vars => [A]_vars
  <2> SUFFICES ASSUME IndInv, [Next]_vars, eng.here, eng'.here,
                      NEW i \in Names(eng'.atts), i \notin Names(eng.atts)
               PROVE  vrun.pc = "scaleUp" /\ i \in Added
    OBVIOUS
  <2>0. TypeOK /\ RunOK /\ VolumeCopies
    BY DEF IndInv
  <2>1. CASE VolumeStep \/ ScaleUpNowhere \/ VolumeFails
    <3>1. EngineWrites
      BY <2>0, <2>1, VolumeStepLists
    <3>2. CASE Fresh(EngKey) /\ vrun.pc = "scaleUp" /\ eng'.atts = vrun.atts
      <4>0. vrun.atts \in Seq(Attachment) /\ vrun.k \in 0 .. MaxReplicas /\ MaxReplicas \in Nat
        BY <2>0, ClusterAssumption DEF TypeOK, VRuns
      <4>1. eng.atts = SubSeq(vrun.atts, 1, vrun.k) /\ vrun.k <= Len(vrun.atts)
        BY <2>0, <3>2 DEF VolumeCopies, Fresh
      <4>2. Len(vrun.atts) \in Nat /\ DOMAIN vrun.atts = 1 .. Len(vrun.atts)
        BY <4>0, LenProperties
      <4>3. PICK p \in 1 .. Len(vrun.atts) : i = vrun.atts[p].idx
        BY <3>2, <4>2 DEF Names
      <4>4. vrun.k \in 0 .. Len(vrun.atts)
        BY <4>0, <4>1, <4>2
      <4>5. /\ eng.atts \in Seq(Attachment) /\ Len(eng.atts) = vrun.k
            /\ \A q \in 1 .. vrun.k : eng.atts[q] = vrun.atts[q]
        BY <4>0, <4>1, <4>4, PrefixKeeps
      <4>6. DOMAIN eng.atts = 1 .. vrun.k
        BY <4>5, LenProperties
      <4>7. p \notin 1 .. vrun.k
        BY <4>3, <4>5, <4>6 DEF Names
      <4>8. p \in (vrun.k + 1) .. Len(vrun.atts)
        BY <4>2, <4>4, <4>7
      <4> QED BY <3>2, <4>3, <4>8 DEF Added
    <3>3. CASE /\ Fresh(EngKey) /\ vrun.pc \in {"scaleDown", "detach"}
               /\ Names(eng'.atts) \subseteq Names(vrun.atts)
      BY <2>0, <3>3 DEF VolumeCopies, Fresh
    <3> QED BY <3>1, <3>2, <3>3 DEF EngineWrites
  <2>2. CASE OthersStep
    BY <2>0, <2>2, OthersFacts DEF OthersKeep
  <2>3. CASE UNCHANGED vars
    BY <2>3 DEF vars, cluster
  <2> QED BY <2>1, <2>2, <2>3 DEF Next, OthersStep
<1> QED BY <1>1, Inductive, PTL DEF Spec, NoLostDetach
=============================================================================
