-------------------------- MODULE EngineArray_proofs --------------------------
(***************************************************************************)
(* Proofs about the engine and its array, for any replicas, any length of  *)
(* the list, and any number of changes, failures and reconfigures at work  *)
(* at the same time.                                                       *)
(***************************************************************************)
EXTENDS EngineArray, SequenceTheorems, TLAPS

-----------------------------------------------------------------------------
(* Lists of attachments.                                                   *)

(* What is in a list.                                                      *)
LEMMA ListFacts ==
    ASSUME NEW l \in Lists
    PROVE  /\ Len(l) \in Nat /\ Len(l) <= MaxLen /\ DOMAIN l = 1 .. Len(l)
           /\ \A p \in 1 .. Len(l) : p \in Slots /\ l[p] \in Attachment
           /\ l \in Seq(Attachment)
<1>1. l \in Seq(Attachment) /\ Len(l) <= MaxLen
  BY DEF Lists
<1>2. Len(l) \in Nat /\ DOMAIN l = 1 .. Len(l) /\ \A p \in 1 .. Len(l) : l[p] \in Attachment
  BY <1>1, LenProperties, ElementOfSeq
<1> QED BY <1>1, <1>2, EngineAssumption DEF Slots

(* A list is a sequence of attachments of a length within the bound.       *)
LEMMA IsList == \A s \in Seq(Attachment) : Len(s) <= MaxLen => s \in Lists
BY Zenon DEF Lists

(* The empty list is one.                                                  *)
LEMMA NoAttachments == <<>> \in Lists
<1>1. <<>> \in Seq(Attachment) /\ Len(<<>>) = 0
  BY EmptySeq
<1>2. 0 <= MaxLen
  BY EngineAssumption
<1> QED BY <1>1, <1>2, IsList

(* scaleUp appends within the bound.                                       *)
LEMMA AppendIsList ==
    ASSUME NEW l \in Lists, NEW a \in Attachment, Len(l) < MaxLen
    PROVE  Append(l, a) \in Lists
<1>1. l \in Seq(Attachment) /\ Len(l) \in Nat
  BY ListFacts
<1>2. Append(l, a) \in Seq(Attachment) /\ Len(Append(l, a)) = Len(l) + 1
  BY <1>1, AppendProperties
<1> QED BY <1>1, <1>2, EngineAssumption DEF Lists

(* Removing an attachment leaves a list, of the others in their order.     *)
LEMMA WithoutIsList ==
    ASSUME NEW l \in Lists, NEW p \in DOMAIN l
    PROVE  LET w == SubSeq(l, 1, p - 1) \o SubSeq(l, p + 1, Len(l)) IN
           /\ w \in Lists /\ Len(w) = Len(l) - 1
           /\ \A q \in 1 .. Len(w) : w[q] = l[IF q < p THEN q ELSE q + 1]
<1> DEFINE a == SubSeq(l, 1, p - 1)
           b == SubSeq(l, p + 1, Len(l))
<1>0. /\ Len(l) \in Nat /\ Len(l) <= MaxLen /\ p \in 1 .. Len(l)
      /\ \A i \in 1 .. Len(l) : l[i] \in Attachment
  BY ListFacts
<1>1. /\ a \in Seq(Attachment) /\ Len(a) = p - 1
      /\ \A i \in 1 .. (p - 1) : a[i] = l[i]
  <2>1. \A i \in 1 .. (p - 1) : l[i] \in Attachment
    BY <1>0
  <2> QED BY <2>1, <1>0, SubSeqProperties
<1>2. /\ b \in Seq(Attachment) /\ Len(b) = Len(l) - p
      /\ \A i \in 1 .. (Len(l) - p) : b[i] = l[p + i]
  <2>1. \A i \in (p + 1) .. Len(l) : l[i] \in Attachment
    BY <1>0
  <2> QED BY <2>1, <1>0, SubSeqProperties
<1>3. /\ a \o b \in Seq(Attachment) /\ Len(a \o b) = Len(a) + Len(b)
      /\ \A i \in 1 .. (Len(a) + Len(b)) :
            (a \o b)[i] = IF i <= Len(a) THEN a[i] ELSE b[i - Len(a)]
  BY <1>1, <1>2, ConcatProperties
<1> HIDE DEF a, b
<1>4. Len(a \o b) = Len(l) - 1 /\ Len(a \o b) <= MaxLen
  BY <1>0, <1>1, <1>2, <1>3, EngineAssumption
<1>5. a \o b \in Lists
  BY ONLY <1>3, <1>4, IsList, Zenon
<1>6. \A q \in 1 .. Len(a \o b) : (a \o b)[q] = l[IF q < p THEN q ELSE q + 1]
  <2> SUFFICES ASSUME NEW q \in 1 .. (Len(l) - 1)
               PROVE  (a \o b)[q] = l[IF q < p THEN q ELSE q + 1]
    BY <1>4
  <2>0. q \in 1 .. (Len(a) + Len(b)) /\ (q <= Len(a) <=> q < p) /\ Len(a) = p - 1
    BY <1>0, <1>1, <1>2
  <2>a. (a \o b)[q] = IF q <= Len(a) THEN a[q] ELSE b[q - Len(a)]
    BY ONLY <1>3, <2>0, Zenon
  <2>1. CASE q < p
    BY <2>a, <2>0, <2>1, <1>0, <1>1
  <2>2. CASE ~(q < p)
    <3>1. (a \o b)[q] = b[q - (p - 1)]
      BY ONLY <2>a, <2>0, <2>2
    <3>2. b[q - (p - 1)] = l[p + (q - (p - 1))]
      BY <2>2, <1>0, <1>2
    <3> QED BY <3>1, <3>2, <2>2, <1>0
  <2> QED BY <2>1, <2>2
<1> QED BY <1>4, <1>5, <1>6 DEF a, b

(* replicaStatus fills in addresses, and leaves the list as long as it was. *)
LEMMA FilledIsList ==
    ASSUME list \in Lists,
           reps \in [Replicas -> [up : BOOLEAN, at : Addrs, pub : 0 .. (MaxMoves + 1)]]
    PROVE  Filled \in Lists
<1>0. /\ Len(list) \in Nat /\ Len(list) <= MaxLen /\ DOMAIN list = 1 .. Len(list)
      /\ \A p \in 1 .. Len(list) : list[p] \in Attachment
  BY ListFacts
<1>1. \A a \in Attachment : FillIn(a) \in Attachment
  BY DEF FillIn, Attachment
<1>2. Filled = [p \in 1 .. Len(list) |-> FillIn(list[p])]
  BY <1>0 DEF Filled
<1>3. Filled \in Seq(Attachment) /\ Len(Filled) = Len(list)
  <2>1. \A p \in 1 .. Len(list) : FillIn(list[p]) \in Attachment
    BY <1>0, <1>1
  <2>2. Filled \in [1 .. Len(list) -> Attachment]
    BY <1>2, <2>1
  <2>3. Filled \in Seq(Attachment)
    BY <2>2, <1>0, IsASeq
  <2>4. DOMAIN Filled = 1 .. Len(list)
    BY <1>2
  <2> QED BY <2>3, <2>4, <1>0, LenProperties
<1> QED BY <1>0, <1>3, IsList

-----------------------------------------------------------------------------
(* Types.                                                                  *)

RepStates == [up : BOOLEAN, at : Addrs, pub : 0 .. (MaxMoves + 1)]

(* The names that a reconfigure looks up are not those of bdevs: it finds  *)
(* no member that it should remove, and no bdev that it could add.         *)
LEMMA NamesDiffer ==
    /\ \A b, p \in Slots \cup {Aio} : BdevName(b) # CtrlName(p)
    /\ \A h \in Handlers : TypeOK => {b \in Bdevs : BdevName(b) = CtrlName(posts[h].k)} = {}
    /\ \A l, cur : cur \subseteq ((Slots \cup {Aio}) \X {1}) => Unneeded(l, cur) = {}
<1>1. \A b, p : BdevName(b) # CtrlName(p)
  BY DEF BdevName, CtrlName
<1>2. \A p : \A cur : cur \subseteq ((Slots \cup {Aio}) \X {1}) => CtrlName(p) \notin cur
  <2> SUFFICES ASSUME NEW p, NEW cur, cur \subseteq ((Slots \cup {Aio}) \X {1}),
                      CtrlName(p) \in cur
               PROVE  FALSE
    OBVIOUS
  <2>1. CtrlName(p) \in ((Slots \cup {Aio}) \X {1})
    OBVIOUS
  <2> QED BY <2>1 DEF CtrlName
<1> QED BY <1>1, <1>2 DEF Unneeded

(* The values that records are given have their types.                     *)
LEMMA RecordTypes ==
    /\ EIdle \in EngineRuns /\ Down \in Sidecars /\ NoPost \in Posts
    /\ NoPod \in [here : BOOLEAN, env : Lists]
<1>1. 1 \in 1 .. (MaxLen + 1)
  BY EngineAssumption
<1> QED BY <1>1, NoAttachments DEF EIdle, EngineRuns, Down, Sidecars, NoPost, Posts, NoPod

(* A position that is counted up stays within the list and one.            *)
LEMMA CountUp ==
    ASSUME NEW l \in Lists, NEW k \in 1 .. (MaxLen + 1), k <= Len(l)
    PROVE  /\ k + 1 \in 1 .. (MaxLen + 1) /\ k \in Slots /\ k \in 1 .. Len(l)
           /\ l[k] \in Attachment
<1>1. Len(l) \in Nat /\ Len(l) <= MaxLen /\ \A p \in 1 .. Len(l) : l[p] \in Attachment
  BY ListFacts
<1> QED BY <1>1, EngineAssumption DEF Slots

(* A bounded counter that is counted down stays within its bounds.         *)
LEMMA CountDown == ASSUME NEW n \in Nat, NEW c \in 0 .. n, c > 0 PROVE c - 1 \in 0 .. n
OBVIOUS

(* The bounds stay within what they started with.                          *)
LEMMA BudgetTypes ==
    ASSUME TypeOK
    PROVE  Change \/ Fault => changes' \in 0 .. MaxChanges /\ faults' \in 0 .. MaxFaults
<1>0. /\ changes \in 0 .. MaxChanges /\ MaxChanges \in Nat
      /\ faults \in 0 .. MaxFaults /\ MaxFaults \in Nat
  BY EngineAssumption DEF TypeOK
<1>1. Change => changes' \in 0 .. MaxChanges
  BY ONLY <1>0, CountDown DEF Change
<1>2. Fault => faults' \in 0 .. MaxFaults
  BY ONLY <1>0, CountDown DEF Fault
<1> QED BY <1>1, <1>2 DEF TypeOK, Change, Fault

(* SPDK's part of the types, for the calls that change it.                 *)
LEMMA AttachTypes ==
    ASSUME TypeOK, NEW p \in Slots, NEW a \in Attachment, AttachNVMeController(p, a)
    PROVE  /\ ctrl' \in [Slots -> Attachment \cup {NoReplica}]
           /\ raid' \in SUBSET (Slots \cup {Aio})
           /\ ns' \in {"none", "aio0", "raid0"} /\ aio' = aio
BY DEF TypeOK, AttachNVMeController, ArrayBecomes

(* SPDK that has nothing configured.                                       *)
LEMMA EmptyTypes ==
    SPDKEmpty => /\ aio' \in BOOLEAN /\ ctrl' \in [Slots -> Attachment \cup {NoReplica}]
                 /\ raid' \in SUBSET (Slots \cup {Aio}) /\ ns' \in {"none", "aio0", "raid0"}
BY DEF SPDKEmpty

(* A handler that ends, and a process that ends.                           *)
LEMMA AnswerTypes ==
    ASSUME TypeOK, NEW h \in Handlers, NEW next \in {"failed", "publish"}, Answer(h, next)
    PROVE  posts' \in [Handlers -> Posts] /\ erun' \in EngineRuns
BY RecordTypes DEF TypeOK, Answer, EngineRuns

(* A sidecar that ends takes its handlers with it.                         *)
LEMMA GoneTypes ==
    ASSUME TypeOK, SidecarGone
    PROVE  side' \in Sidecars /\ posts' \in [Handlers -> Posts] /\ erun' \in EngineRuns
BY RecordTypes DEF TypeOK, SidecarGone, EngineRuns

(* The engine controller keeps the types.                                  *)
LEMMA EngineStepType == TypeOK /\ EngineStep => TypeOK'
<1> SUFFICES ASSUME TypeOK, EngineStep PROVE TypeOK'
  OBVIOUS
<1> USE DEF data, engine, spdk, content, bounds
<1>1. CASE ReplicaStatus
  <2>1. list' \in Lists
    BY <1>1, FilledIsList DEF ReplicaStatus, TypeOK
  <2> QED BY <1>1, <2>1 DEF ReplicaStatus, TypeOK
<1>2. ASSUME NEW next \in {"created", "waiting", "publish"}, NEW h \in Handlers \cup {0},
             Begin(next, h)
      PROVE  erun' \in EngineRuns
  BY <1>2 DEF Begin, TypeOK, EngineRuns
<1>3. CASE CreateEnginePod
  <2>1. erun' \in EngineRuns
    BY <1>3, <1>2 DEF CreateEnginePod
  <2>2. pod' \in [here : BOOLEAN, env : Lists]
    BY <1>3 DEF CreateEnginePod, TypeOK
  <2> QED BY <1>3, <2>1, <2>2 DEF CreateEnginePod, TypeOK
<1>4. CASE ForgetPod
  BY <1>4 DEF ForgetPod, TypeOK
<1>5. CASE SkipReconfigure
  <2>1. erun' \in EngineRuns
    BY <1>5, <1>2 DEF SkipReconfigure
  <2> QED BY <1>5, <2>1 DEF SkipReconfigure, TypeOK
<1>6. ASSUME NEW h \in Handlers, TriggerReconfigure(h) PROVE TypeOK'
  <2>1. erun' \in EngineRuns
    BY <1>6, <1>2 DEF TriggerReconfigure
  <2>2. [pc |-> "start", list |-> list, cur |-> {}, k |-> 1] \in Posts
    <3>1. 1 \in 1 .. (MaxLen + 1)
      BY EngineAssumption
    <3> QED BY <3>1 DEF Posts, TypeOK
  <2>3. posts' \in [Handlers -> Posts]
    BY <1>6, <2>2 DEF TriggerReconfigure, TypeOK
  <2> QED BY <1>6, <2>1, <2>3 DEF TriggerReconfigure, TypeOK
<1>7. CASE UpdateStatus
  <2>1. erun' \in EngineRuns
    BY <1>7, RecordTypes DEF UpdateStatus
  <2>2. erun.list \in Lists
    BY DEF TypeOK, EngineRuns
  <2>3. /\ podRef' \in BOOLEAN /\ phase' \in {"", "Pending", "Running", "Degraded"}
        /\ hash' \in SUBSET Lists
    <3>1. podRef' \in BOOLEAN /\ hash' \in SUBSET Lists
      BY <1>7, <2>2 DEF UpdateStatus, TypeOK
    <3>2. \A c \in {"created", "failed", "publish"} :
             [created |-> "Pending", failed |-> "Degraded", publish |-> "Running"][c]
                \in {"", "Pending", "Running", "Degraded"}
      <4> DEFINE f == [created |-> "Pending", failed |-> "Degraded", publish |-> "Running"]
      <4>1. f["created"] = "Pending" /\ f["failed"] = "Degraded" /\ f["publish"] = "Running"
        OBVIOUS
      <4> QED BY <4>1
    <3>3. phase' \in {"", "Pending", "Running", "Degraded"}
      BY <1>7, <3>2 DEF UpdateStatus, TypeOK
    <3> QED BY <3>1, <3>3
  <2> QED BY <1>7, <2>1, <2>3 DEF UpdateStatus, TypeOK
<1> QED BY <1>1, <1>3, <1>4, <1>5, <1>6, <1>7 DEF EngineStep

(* So does the sidecar that configures the engine.                         *)
LEMMA SidecarStepType == TypeOK /\ SidecarStep => TypeOK'
<1> SUFFICES ASSUME TypeOK, SidecarStep PROVE TypeOK'
  OBVIOUS
<1> USE DEF others, engine, spdk, content, bounds
<1>0. /\ side \in Sidecars /\ side.cfg \in Lists /\ side.k \in 1 .. (MaxLen + 1)
      /\ side.base \in SUBSET Slots
  BY DEF TypeOK, Sidecars
<1>1. CASE StartEngine
  <2>1. side' \in Sidecars
    <3>1. 1 \in 1 .. (MaxLen + 1)
      BY EngineAssumption
    <3> QED BY <1>1, <3>1 DEF StartEngine, TypeOK, Sidecars
  <2>2. raid' \in SUBSET (Slots \cup {Aio}) /\ ns' \in {"none", "aio0", "raid0"}
    BY <1>1 DEF StartEngine, TypeOK
  <2> QED BY <1>1, <2>1, <2>2 DEF StartEngine, TypeOK
<1>2. CASE ConfigureLocal
  <2>1. side.k + 1 \in 1 .. (MaxLen + 1)
    BY <1>0, <1>2, CountUp DEF ConfigureLocal
  <2>2. side' \in Sidecars
    BY <1>0, <1>2, <2>1 DEF ConfigureLocal, Sidecars
  <2> QED BY <1>2, <2>2 DEF ConfigureLocal, TypeOK
<1>3. CASE ConfigureRemote
  <2>1. side.k + 1 \in 1 .. (MaxLen + 1) /\ side.k \in Slots /\ side.cfg[side.k] \in Attachment
    BY <1>0, <1>3, CountUp DEF ConfigureRemote
  <2>2. side' \in Sidecars
    <3>1. (side.base \cup {side.k}) \in SUBSET Slots
      BY <1>0, <2>1
    <3> QED BY <1>0, <1>3, <2>1, <3>1 DEF ConfigureRemote, Sidecars
  <2>3. AttachNVMeController(side.k, side.cfg[side.k])
    BY <1>3 DEF ConfigureRemote
  <2>4. /\ ctrl' \in [Slots -> Attachment \cup {NoReplica}]
        /\ raid' \in SUBSET (Slots \cup {Aio})
        /\ ns' \in {"none", "aio0", "raid0"} /\ aio' = aio
    BY <2>1, <2>3, AttachTypes
  <2> QED BY <1>3, <2>2, <2>4 DEF ConfigureRemote, TypeOK
<1>4. CASE CreateMirror
  <2>1. side' \in Sidecars
    BY <1>0, <1>4, RecordTypes DEF CreateMirror, Sidecars
  <2>2. raid' \in SUBSET (Slots \cup {Aio})
    BY <1>0, <1>4 DEF CreateMirror, TypeOK
  <2> QED BY <1>4, <2>1, <2>2 DEF CreateMirror, TypeOK
<1>5. CASE Export
  <2>1. side' \in Sidecars
    BY <1>0, <1>5, RecordTypes DEF Export, Sidecars
  <2>2. ns' \in {"none", "aio0", "raid0"}
    BY <1>5 DEF Export, TypeOK
  <2> QED BY <1>5, <2>1, <2>2 DEF Export, TypeOK
<1> QED BY <1>1, <1>2, <1>3, <1>4, <1>5 DEF SidecarStep

(* A replica's record, and the addresses in it.                            *)
LEMMA RepFacts ==
    ASSUME TypeOK, NEW r \in Replicas
    PROVE  /\ reps[r] \in RepStates /\ reps[r].up \in BOOLEAN
           /\ reps[r].at \in Addrs /\ reps[r].at \in Nat /\ reps[r].at \in 0 .. (MaxMoves + 1)
           /\ reps[r].pub \in 0 .. (MaxMoves + 1)
           /\ reps[r].at <= MaxMoves =>
                 reps[r].at + 1 \in Addrs /\ reps[r].at + 1 \in 0 .. (MaxMoves + 1)
<1>1. reps[r] \in RepStates
  BY DEF TypeOK, RepStates
<1>2. reps[r].up \in BOOLEAN /\ reps[r].at \in Addrs /\ reps[r].pub \in 0 .. (MaxMoves + 1)
  BY <1>1 DEF RepStates
<1> QED BY <1>1, <1>2, EngineAssumption DEF Addrs

(* A replica that publishes its endpoint.                                  *)
LEMMA PublishTypes ==
    ASSUME TypeOK, NEW r \in Replicas, NEW a \in 0 .. (MaxMoves + 1)
    PROVE  [reps EXCEPT ![r].pub = a] \in [Replicas -> RepStates]
<1>1. [reps[r] EXCEPT !.pub = a] \in RepStates
  BY RepFacts DEF RepStates
<1> QED BY <1>1 DEF TypeOK, RepStates

(* What GetRAIDInfo lists are names of bdevs.                              *)
LEMMA MemberNames ==
    ASSUME TypeOK, NEW cur \in {{BdevName(b) : b \in raid}, {}}
    PROVE  cur \subseteq ((Slots \cup {Aio}) \X {1})
<1> SUFFICES ASSUME NEW x \in cur PROVE x \in ((Slots \cup {Aio}) \X {1})
  OBVIOUS
<1>1. PICK b \in raid : x = BdevName(b)
  OBVIOUS
<1>2. b \in Slots \cup {Aio}
  BY DEF TypeOK
<1> QED BY <1>1, <1>2 DEF BdevName

(* What a reconfigure's steps come to: none of them removes or adds a      *)
(* member but by detaching its controller.                                 *)
LEMMA RemovesNothing ==
    ASSUME TypeOK, ns = "raid0" => raid # {}, NEW h \in Handlers, ReconfigureRemoves(h)
    PROVE  ctrl' = ctrl /\ raid' = raid /\ ns' = ns
<1>1. PICK cur \in {{BdevName(b) : b \in raid}, {}} :
         LET gone == Unneeded(posts[h].list, cur)
         IN  /\ ctrl' = [p \in Slots |-> IF p \in gone THEN NoReplica ELSE ctrl[p]]
             /\ ArrayBecomes(raid \ gone)
  BY DEF ReconfigureRemoves
<1>2. cur \subseteq ((Slots \cup {Aio}) \X {1})
  BY <1>1, MemberNames
<1>3. Unneeded(posts[h].list, cur) = {}
  BY <1>2, NamesDiffer
<1>4. ctrl' = [p \in Slots |-> ctrl[p]] /\ ArrayBecomes(raid)
  BY <1>1, <1>3
<1> QED BY <1>4 DEF TypeOK, ArrayBecomes

(* No bdev has the name that Reconfigure adds: the addition always fails.  *)
LEMMA AddsNothing ==
    ASSUME TypeOK, NEW h \in Handlers, ReconfigureAdds(h)
    PROVE  /\ Answer(h, "failed") /\ raid' = raid /\ behind' = behind
           /\ UNCHANGED <<reps, engine, pod, side, aio, ctrl, ns, written, bounds>>
<1>1. {b \in Bdevs : BdevName(b) = CtrlName(posts[h].k)} = {}
  BY NamesDiffer
<1> QED BY <1>1 DEF ReconfigureAdds

(* The handlers keep the types.                                            *)
LEMMA HandlerStepType ==
    ASSUME TypeOK, ns = "raid0" => raid # {}, NEW h \in Handlers, HandlerStep(h)
    PROVE  TypeOK'
<1> USE DEF engine, spdk, content, bounds
<1>0. /\ posts[h] \in Posts /\ posts[h].list \in Lists
      /\ posts[h].k \in 1 .. (MaxLen + 1)
  BY DEF TypeOK, Posts
<1>1. CASE ReconfigureRemoves(h)
  <2>1. ctrl' = ctrl /\ raid' = raid /\ ns' = ns
    BY <1>1, RemovesNothing
  <2>2. posts' \in [Handlers -> Posts]
    <3>1. PICK cur \in {{BdevName(b) : b \in raid}, {}} :
             posts' = [posts EXCEPT ![h].pc = "attach", ![h].cur = cur]
      BY <1>1 DEF ReconfigureRemoves
    <3>2. cur \in SUBSET ((Slots \cup {Aio}) \X {1})
      BY <3>1, MemberNames
    <3>3. [posts[h] EXCEPT !.pc = "attach", !.cur = cur] \in Posts
      BY <1>0, <3>2 DEF Posts
    <3> QED BY <3>1, <3>3 DEF TypeOK
  <2> QED BY <1>1, <2>1, <2>2 DEF ReconfigureRemoves, TypeOK
<1>2. CASE ReconfigureSkips(h)
  <2>1. posts[h].k + 1 \in 1 .. (MaxLen + 1)
    BY <1>0, <1>2, CountUp DEF ReconfigureSkips, Attaching
  <2>2. [posts[h] EXCEPT !.k = @ + 1] \in Posts
    BY <1>0, <2>1 DEF Posts
  <2>3. posts' \in [Handlers -> Posts]
    BY <1>2, <2>2 DEF ReconfigureSkips, TypeOK
  <2> QED BY <1>2, <2>3 DEF ReconfigureSkips, TypeOK
<1>3. CASE ReconfigureAttaches(h)
  <2> DEFINE a == posts[h].list[posts[h].k]
  <2>1. posts[h].k \in Slots /\ a \in Attachment
    BY <1>0, <1>3, CountUp DEF ReconfigureAttaches, Attaching
  <2>2. AttachNVMeController(posts[h].k, a)
    BY <1>3 DEF ReconfigureAttaches
  <2>3. /\ ctrl' \in [Slots -> Attachment \cup {NoReplica}]
        /\ raid' \in SUBSET (Slots \cup {Aio})
        /\ ns' \in {"none", "aio0", "raid0"} /\ aio' = aio
    BY <2>1, <2>2, AttachTypes
  <2>4. posts' \in [Handlers -> Posts] /\ erun' \in EngineRuns
    <3>1. CASE Answer(h, "failed")
      BY <3>1, AnswerTypes
    <3>2. CASE posts' = [posts EXCEPT ![h].pc = "add"] /\ UNCHANGED erun
      <4>1. [posts[h] EXCEPT !.pc = "add"] \in Posts
        BY <1>0 DEF Posts
      <4> QED BY <3>2, <4>1 DEF TypeOK
    <3> QED BY <3>1, <3>2, <1>3 DEF ReconfigureAttaches
  <2> QED BY <1>3, <2>3, <2>4 DEF ReconfigureAttaches, TypeOK
<1>4. CASE ReconfigureAdds(h)
  <2>1. posts' \in [Handlers -> Posts] /\ erun' \in EngineRuns
    BY <1>4, AddsNothing, AnswerTypes
  <2> QED BY <1>4, <2>1, AddsNothing DEF TypeOK
<1>5. CASE ReconfigureDone(h)
  <2>1. posts' \in [Handlers -> Posts] /\ erun' \in EngineRuns
    BY <1>5, AnswerTypes DEF ReconfigureDone
  <2>2. side' \in Sidecars
    BY <1>0, <1>5 DEF ReconfigureDone, Sidecars, TypeOK
  <2> QED BY <1>5, <2>1, <2>2 DEF ReconfigureDone, TypeOK
<1> QED BY <1>1, <1>2, <1>3, <1>4, <1>5 DEF HandlerStep

(* So do replicas, the volume controller, the client and failures.         *)
LEMMA EnvironmentType == TypeOK /\ Environment => TypeOK'
<1> SUFFICES ASSUME TypeOK, Environment PROVE TypeOK'
  OBVIOUS
<1> USE DEF engine, spdk, content, bounds
<1>0. ASSUME NEW l \in Lists, Edit(l) PROVE TypeOK'
  <2>1. erun' \in EngineRuns
    BY <1>0 DEF Edit, TypeOK, EngineRuns
  <2>2. changes' \in 0 .. MaxChanges /\ faults' \in 0 .. MaxFaults
    BY <1>0, BudgetTypes DEF Edit
  <2> QED BY <1>0, <2>1, <2>2 DEF Edit, TypeOK
<1>1. ASSUME NEW r \in Replicas, AttachReplica(r) PROVE TypeOK'
  <2>1. [name |-> r, addr |-> 0] \in Attachment
    BY EngineAssumption DEF Attachment
  <2>2. Append(list, [name |-> r, addr |-> 0]) \in Lists
    BY <1>1, <2>1, AppendIsList DEF AttachReplica, TypeOK
  <2> QED BY <1>0, <1>1, <2>2 DEF AttachReplica
<1>2. ASSUME NEW p \in DOMAIN list, DetachReplica(p) PROVE TypeOK'
  <2>1. SubSeq(list, 1, p - 1) \o SubSeq(list, p + 1, Len(list)) \in Lists
    BY <1>2, WithoutIsList DEF DetachReplica, TypeOK
  <2> QED BY <1>0, <1>2, <2>1 DEF DetachReplica
<1>3. ASSUME NEW r \in Replicas, ReplicaPublishes(r) PROVE TypeOK'
  <2>1. reps' \in [Replicas -> RepStates]
    BY <1>3, RepFacts, PublishTypes DEF ReplicaPublishes
  <2> QED BY <1>3, <2>1 DEF ReplicaPublishes, TypeOK, RepStates
<1>4. ASSUME NEW r \in Replicas, ReplicaReturns(r) PROVE TypeOK'
  <2>1. PICK again \in BOOLEAN :
           /\ reps' = [reps EXCEPT ![r] = [up |-> TRUE, at |-> reps[r].at + 1,
                          pub |-> IF again THEN reps[r].at + 1 ELSE reps[r].pub]]
           /\ IF again THEN Formatted(r) ELSE UNCHANGED content
    BY <1>4 DEF ReplicaReturns
  <2>2. reps[r].at + 1 \in Addrs /\ reps[r].at + 1 \in 0 .. (MaxMoves + 1)
        /\ reps[r].pub \in 0 .. (MaxMoves + 1)
    BY <1>4, RepFacts DEF ReplicaReturns
  <2>3. reps' \in [Replicas -> RepStates]
    BY <2>1, <2>2 DEF TypeOK, RepStates
  <2>4. written' \in BOOLEAN /\ behind' \in SUBSET Replicas
    BY <2>1 DEF Formatted, TypeOK
  <2> QED BY <1>4, <2>3, <2>4 DEF ReplicaReturns, TypeOK, RepStates
<1>5. ASSUME NEW r \in Replicas, ReprovisionReplica(r) PROVE TypeOK'
  <2>1. reps' \in [Replicas -> RepStates]
    <3>1. CASE reps[r].up
      BY <1>5, <3>1, RepFacts, PublishTypes DEF ReprovisionReplica
    <3>2. CASE ~reps[r].up
      BY <1>5, <3>2, RepFacts, PublishTypes DEF ReprovisionReplica
    <3> QED BY <3>1, <3>2
  <2>2. written' \in BOOLEAN /\ behind' \in SUBSET Replicas
    BY <1>5 DEF ReprovisionReplica, Formatted, TypeOK
  <2>3. changes' \in 0 .. MaxChanges /\ faults' \in 0 .. MaxFaults
    BY <1>5, BudgetTypes DEF ReprovisionReplica
  <2> QED BY <1>5, <2>1, <2>2, <2>3 DEF ReprovisionReplica, TypeOK, RepStates
<1>6. ASSUME NEW r \in Replicas, ReplicaStops(r) PROVE TypeOK'
  <2>1. reps' \in [Replicas -> RepStates]
    BY <1>6 DEF ReplicaStops, TypeOK, RepStates
  <2>2. changes' \in 0 .. MaxChanges /\ faults' \in 0 .. MaxFaults
    BY <1>6, BudgetTypes DEF ReplicaStops
  <2> QED BY <1>6, <2>1, <2>2 DEF ReplicaStops, TypeOK, RepStates
<1>7. CASE SidecarCrashes
  <2>1. changes' \in 0 .. MaxChanges /\ faults' \in 0 .. MaxFaults
    BY <1>7, BudgetTypes DEF SidecarCrashes
  <2>2. side' \in Sidecars /\ posts' \in [Handlers -> Posts] /\ erun' \in EngineRuns
    BY <1>7, GoneTypes DEF SidecarCrashes
  <2> QED BY <1>7, <2>1, <2>2 DEF SidecarCrashes, TypeOK
<1>8. CASE SPDKRestarts
  <2>1. changes' \in 0 .. MaxChanges /\ faults' \in 0 .. MaxFaults
    BY <1>8, BudgetTypes DEF SPDKRestarts
  <2> QED BY <1>8, <2>1, EmptyTypes DEF SPDKRestarts, TypeOK
<1>9. CASE PodLost
  <2>1. changes' \in 0 .. MaxChanges /\ faults' \in 0 .. MaxFaults
    BY <1>9, BudgetTypes DEF PodLost
  <2>2. side' \in Sidecars /\ posts' \in [Handlers -> Posts] /\ erun' \in EngineRuns
    BY <1>9, GoneTypes DEF PodLost
  <2> QED BY <1>9, <2>1, <2>2, EmptyTypes, RecordTypes DEF PodLost, TypeOK
<1>10. CASE PostTimesOut
  <2>1. changes' \in 0 .. MaxChanges /\ faults' \in 0 .. MaxFaults
    BY <1>10, BudgetTypes DEF PostTimesOut
  <2>2. erun' \in EngineRuns
    BY <1>10 DEF PostTimesOut, TypeOK, EngineRuns
  <2> QED BY <1>10, <2>1, <2>2 DEF PostTimesOut, TypeOK
<1>11. CASE ControllerRestarts
  <2>1. changes' \in 0 .. MaxChanges /\ faults' \in 0 .. MaxFaults
    BY <1>11, BudgetTypes DEF ControllerRestarts
  <2> QED BY <1>11, <2>1, RecordTypes DEF ControllerRestarts, TypeOK
<1>12. CASE PodUnread
  <2>1. changes' \in 0 .. MaxChanges /\ faults' \in 0 .. MaxFaults
    BY <1>12, BudgetTypes DEF PodUnread
  <2> QED BY <1>12, <2>1 DEF PodUnread, TypeOK
<1>13. CASE ClientWrites
  <2>1. raid' \in SUBSET (Slots \cup {Aio}) /\ ns' \in {"none", "aio0", "raid0"}
    BY <1>13 DEF ClientWrites, ArrayBecomes, Answering, TypeOK
  <2>2. written' \in BOOLEAN /\ behind' \in SUBSET Replicas
    BY <1>13 DEF ClientWrites, TypeOK
  <2> QED BY <1>13, <2>1, <2>2 DEF ClientWrites, TypeOK
<1> QED BY <1>1, <1>2, <1>3, <1>4, <1>5, <1>6, <1>7, <1>8, <1>9, <1>10, <1>11, <1>12,
           <1>13 DEF Environment

-----------------------------------------------------------------------------
(* The inductive invariant.                                                *)

RemoteSlots(l) == {p \in DOMAIN l : ~IsLocal(l[p])}

(* A controller belongs to a remote replica, at an address that it has or  *)
(* had.                                                                    *)
ControllersOK ==
    /\ reps[LocalReplica].up
    /\ \A p \in Slots : ctrl[p] # NoReplica =>
          ctrl[p].name # LocalReplica /\ ctrl[p].addr <= reps[ctrl[p].name].at

(* The members of the array have controllers, at the slots of the pod's    *)
(* KDFS_REPLICAS: no reconfigure adds one.  Without aio0 there is nothing, *)
(* and what is exported is there.                                          *)
ArrayOK ==
    /\ \A b \in raid \ {Aio} : ctrl[b] # NoReplica
    /\ raid \ {Aio} \subseteq RemoteSlots(pod.env)
    /\ ~aio => raid = {} /\ ns = "none"
    /\ ns = "raid0" => raid # {}
    /\ ns = "aio0" => raid = {}

(* While the sidecar goes through KDFS_REPLICAS, the members of an earlier *)
(* array are only at slots that it has yet to attach; before it exports,   *)
(* nothing is exported; and while it serves, it has at least aio0.         *)
SidecarOK ==
    /\ side.pc # "down" => pod.here
    /\ ~pod.here => ~aio
    /\ \A h \in Handlers : posts[h].pc # "free" => side.pc = "serving"
    /\ side.pc = "attach" =>
          /\ side.cfg = pod.env /\ ns # "aio0"
          /\ \A p \in raid : p # Aio /\ p >= side.k
          /\ \A p \in side.base : p < side.k
    /\ side.pc \in {"attach", "export"} =>
          /\ side.base \subseteq RemoteSlots(pod.env)
          /\ aio => \A p \in side.base : ctrl[p] # NoReplica
    /\ side.pc = "export" =>
          ns = "none" /\ (aio => raid = IF side.base = {} THEN {} ELSE {Aio} \cup side.base)
    /\ side.pc = "serving" /\ aio => ns = "aio0" \/ (ns = "raid0" /\ Aio \in raid)

IndInv == TypeOK /\ ControllersOK /\ ArrayOK /\ SidecarOK

(* The invariant holds at the start.                                       *)
LEMMA InitIndInv == Init => IndInv
<1> SUFFICES ASSUME Init PROVE IndInv
  OBVIOUS
<1>1. list \in Lists
  <2>1. PICK s \in StartLists : list = [p \in 1 .. Len(s) |-> [name |-> s[p], addr |-> 0]]
    BY DEF Init
  <2>2. s \in Seq(Replicas) /\ Len(s) \in Nat /\ Len(s) <= MaxLen /\ 0 \in 0 .. (MaxMoves + 1)
    BY EngineAssumption, LenProperties
  <2>3. \A p \in 1 .. Len(s) : s[p] \in Replicas
    BY <2>2, ElementOfSeq
  <2>4. list \in [1 .. Len(s) -> Attachment]
    BY <2>1, <2>2, <2>3 DEF Attachment
  <2>5. list \in Seq(Attachment)
    BY <2>2, <2>4, IsASeq
  <2>6. DOMAIN list = 1 .. Len(s)
    BY <2>1
  <2>7. Len(list) = Len(s)
    BY <2>2, <2>5, <2>6, LenProperties
  <2> QED BY <2>2, <2>5, <2>7, IsList
<1>2. reps \in [Replicas -> RepStates]
  <2>1. 1 \in Addrs /\ 0 \in 0 .. (MaxMoves + 1)
    BY EngineAssumption DEF Addrs
  <2> QED BY <2>1 DEF Init, RepStates
<1>3. TypeOK
  <2>1. changes \in 0 .. MaxChanges /\ faults \in 0 .. MaxFaults
    <3>1. changes = MaxChanges /\ faults = MaxFaults
      BY DEF Init
    <3>2. MaxChanges \in 0 .. MaxChanges /\ MaxFaults \in 0 .. MaxFaults
      BY EngineAssumption
    <3> QED BY <3>1, <3>2
  <2> QED BY <1>1, <1>2, <2>1, RecordTypes DEF Init, TypeOK, RepStates
<1>4. ControllersOK
  BY EngineAssumption DEF Init, ControllersOK
<1>5. ArrayOK /\ SidecarOK
  BY DEF Init, ArrayOK, SidecarOK, Down, NoPod, NoPost
<1> QED BY <1>3, <1>4, <1>5 DEF IndInv

(* Steps that leave SPDK, the pod and the replicas' pods alone.            *)
LEMMA ArrayLeftAlone ==
    ASSUME IndInv, UNCHANGED <<pod, spdk>>, \A r \in Replicas : reps'[r].up = reps[r].up
                                                     /\ reps'[r].at = reps[r].at,
           \A p \in Slots : ctrl[p] # NoReplica => ctrl[p].name \in Replicas
    PROVE  ControllersOK' /\ ArrayOK'
<1>1. ctrl' = ctrl /\ raid' = raid /\ ns' = ns /\ aio' = aio /\ pod' = pod
  BY DEF spdk
<1>2. ControllersOK'
  BY <1>1, EngineAssumption DEF IndInv, ControllersOK
<1>3. ArrayOK'
  BY <1>1 DEF IndInv, ArrayOK, RemoteSlots
<1> QED BY <1>2, <1>3

(* NoReplica is not an attachment.                                         *)
LEMMA AttachedIsReplica == \A a \in Attachment : a # NoReplica
<1>1. 0 .. (MaxMoves + 1) \subseteq Nat
  BY EngineAssumption
<1>2. Attachment \subseteq [name : Replicas, addr : Nat]
  BY <1>1 DEF Attachment
<1> QED BY <1>2, EngineAssumption, Zenon

(* What a controller is attached to.                                       *)
LEMMA ControllerNames ==
    ASSUME TypeOK, NEW p \in Slots, ctrl[p] # NoReplica
    PROVE  ctrl[p] \in Attachment /\ ctrl[p].name \in Replicas /\ ctrl[p].addr \in Nat
<1>1. ctrl[p] \in Attachment
  BY DEF TypeOK
<1>2. ctrl[p].name \in Replicas /\ ctrl[p].addr \in 0 .. (MaxMoves + 1)
  BY <1>1 DEF Attachment
<1> QED BY <1>1, <1>2, EngineAssumption

(* Steps that also leave the sidecar alone, and start no handler unless it *)
(* serves.                                                                 *)
LEMMA SidecarLeftAlone ==
    ASSUME IndInv, UNCHANGED <<pod, spdk, side>>,
           \A h \in Handlers : posts'[h].pc # "free" => posts[h].pc # "free" \/ side.pc = "serving"
    PROVE  SidecarOK'
<1>1. ctrl' = ctrl /\ raid' = raid /\ ns' = ns /\ aio' = aio /\ pod' = pod /\ side' = side
  BY DEF spdk
<1>2. \A h \in Handlers : posts'[h].pc # "free" => side'.pc = "serving"
  BY <1>1 DEF IndInv, SidecarOK
<1> QED BY <1>1, <1>2 DEF IndInv, SidecarOK, RemoteSlots

(* Attaching a remote replica takes its slot, and no other, out of the     *)
(* array.                                                                  *)
LEMMA AttachOK ==
    ASSUME IndInv, NEW p \in Slots, NEW a \in Attachment, ~IsLocal(a),
           AttachNVMeController(p, a), UNCHANGED <<reps, pod>>
    PROVE  /\ ControllersOK' /\ ArrayOK'
           /\ raid' = raid \ {p} /\ aio' = aio
           /\ ns' = IF ns = "raid0" /\ raid' = {} THEN "none" ELSE ns
           /\ ctrl'[p] = IF Reachable(a) THEN a ELSE NoReplica
           /\ \A q \in Slots \ {p} : ctrl'[q] = ctrl[q]
<1>1. /\ raid' = raid \ {p} /\ aio' = aio
      /\ ns' = IF ns = "raid0" /\ raid' = {} THEN "none" ELSE ns
  BY DEF AttachNVMeController, ArrayBecomes
<1>2. /\ ctrl'[p] = IF Reachable(a) THEN a ELSE NoReplica
      /\ \A q \in Slots \ {p} : ctrl'[q] = ctrl[q]
  BY DEF AttachNVMeController, IndInv, TypeOK
<1>3. ControllersOK'
  <2>1. Reachable(a) => a.addr = reps[a.name].at /\ a.name # LocalReplica /\ a.name \in Replicas
    BY DEF Reachable, Alive, IsLocal, Attachment
  <2>2. Reachable(a) => a.addr <= reps[a.name].at
    BY <2>1, RepFacts DEF IndInv
  <2>3. \A q \in Slots \ {p} : ctrl'[q] # NoReplica =>
           ctrl'[q].name # LocalReplica /\ ctrl'[q].addr <= reps'[ctrl'[q].name].at
    BY <1>2 DEF IndInv, ControllersOK
  <2>4. ctrl'[p] # NoReplica =>
           ctrl'[p].name # LocalReplica /\ ctrl'[p].addr <= reps'[ctrl'[p].name].at
    BY <1>2, <2>1, <2>2
  <2>5. reps'[LocalReplica].up
    BY DEF IndInv, ControllersOK
  <2> QED BY <2>3, <2>4, <2>5 DEF ControllersOK
<1>4. ArrayOK'
  <2>1. raid' \ {Aio} \subseteq Slots \ {p}
    BY <1>1 DEF IndInv, TypeOK
  <2>2. \A b \in raid' \ {Aio} : ctrl'[b] # NoReplica
    BY <1>1, <1>2, <2>1 DEF IndInv, ArrayOK
  <2> QED BY <1>1, <2>2 DEF IndInv, ArrayOK, RemoteSlots
<1> QED BY <1>1, <1>2, <1>3, <1>4

(* Without SPDK's state there is nothing left to say about the array.      *)
LEMMA EmptyOK ==
    ASSUME IndInv, SPDKEmpty, UNCHANGED reps
    PROVE  ControllersOK' /\ ArrayOK'
BY DEF IndInv, SPDKEmpty, ControllersOK, ArrayOK

(* The engine controller keeps the invariant.  It makes a pod only where   *)
(* there is none.                                                          *)
LEMMA EngineStepInv == IndInv /\ EngineStep => IndInv'
<1> SUFFICES ASSUME IndInv, EngineStep PROVE IndInv'
  OBVIOUS
<1>0. TypeOK'
  BY EngineStepType DEF IndInv
<1>a. \A p \in Slots : ctrl[p] # NoReplica => ctrl[p].name \in Replicas
  BY ControllerNames DEF IndInv
<1> USE DEF data
<1>1. CASE UNCHANGED <<pod, reps, side, spdk>> /\
           \A h \in Handlers : posts'[h].pc # "free" =>
               posts[h].pc # "free" \/ side.pc = "serving"
  BY <1>0, <1>1, <1>a, ArrayLeftAlone, SidecarLeftAlone DEF IndInv
<1>2. CASE ReplicaStatus
  BY <1>1, <1>2 DEF ReplicaStatus
<1>3. CASE CreateEnginePod
  <2>1. UNCHANGED <<reps, side, posts, spdk>>
    BY <1>3 DEF CreateEnginePod
  <2>2. CASE pod.here
    BY <1>1, <1>3, <2>1, <2>2 DEF CreateEnginePod
  <2>3. CASE ~pod.here
    <3>1. ~aio /\ raid = {} /\ ns = "none" /\ side.pc = "down"
      BY <2>3 DEF IndInv, SidecarOK, ArrayOK
    <3>2. ~aio' /\ raid' = {} /\ ns' = "none" /\ side'.pc = "down"
      BY <2>1, <3>1 DEF spdk
    <3>3. ControllersOK'
      BY <2>1 DEF IndInv, ControllersOK, spdk
    <3>4. ArrayOK'
      BY <3>2 DEF ArrayOK
    <3>5. \A h \in Handlers : posts'[h].pc = "free"
      BY <2>1, <3>1 DEF IndInv, SidecarOK
    <3>6. SidecarOK'
      BY <3>2, <3>5 DEF SidecarOK
    <3> QED BY <1>0, <3>3, <3>4, <3>6 DEF IndInv
  <2> QED BY <2>2, <2>3 DEF IndInv, TypeOK
<1>4. CASE ForgetPod
  BY <1>1, <1>4 DEF ForgetPod
<1>5. CASE SkipReconfigure
  BY <1>1, <1>5 DEF SkipReconfigure
<1>6. ASSUME NEW h \in Handlers, TriggerReconfigure(h) PROVE IndInv'
  BY <1>1, <1>6 DEF TriggerReconfigure, EngineAnswers
<1>7. CASE UpdateStatus
  BY <1>1, <1>7 DEF UpdateStatus
<1> QED BY <1>2, <1>3, <1>4, <1>5, <1>6, <1>7 DEF EngineStep

(* The sidecar that configures the engine keeps it.                        *)
LEMMA SidecarStepInv == IndInv /\ SidecarStep => IndInv'
<1> SUFFICES ASSUME IndInv, SidecarStep PROVE IndInv'
  OBVIOUS
<1>0. TypeOK'
  BY SidecarStepType DEF IndInv
<1>a. /\ side \in Sidecars /\ side.cfg \in Lists /\ side.k \in 1 .. (MaxLen + 1)
      /\ side.base \in SUBSET Slots /\ side.k \in Nat /\ pod.env \in Lists
      /\ raid \subseteq Slots \cup {Aio} /\ Slots \subseteq Nat \ {Aio}
  <2>1. /\ side \in Sidecars /\ pod.env \in Lists
        /\ raid \subseteq Slots \cup {Aio}
    BY DEF IndInv, TypeOK
  <2>2. /\ side.cfg \in Lists /\ side.k \in 1 .. (MaxLen + 1)
        /\ side.base \in SUBSET Slots
    BY <2>1 DEF Sidecars
  <2>3. Slots \subseteq Nat \ {Aio} /\ side.k \in Nat
    BY <2>2, EngineAssumption DEF Slots, Aio
  <2> QED BY <2>1, <2>2, <2>3
<1>b. \A p \in Slots : ctrl[p] # NoReplica => ctrl[p].name \in Replicas
  BY ControllerNames DEF IndInv
<1> USE DEF others
<1>c. side.pc # "serving" /\ posts' = posts => \A h \in Handlers : posts'[h].pc = "free"
  BY DEF IndInv, SidecarOK
<1>1. CASE StartEngine
  <2>1. /\ pod.here /\ side.pc = "down" /\ aio' = TRUE /\ ctrl' = ctrl /\ reps' = reps
        /\ raid' = raid \ {Aio} /\ pod' = pod /\ posts' = posts
        /\ ns' = IF ns = "aio0" \/ raid' = {} THEN "none" ELSE ns
        /\ side'.pc = "attach" /\ side'.k = 1 /\ side'.base = {} /\ side'.cfg = pod.env
    BY <1>1 DEF StartEngine
  <2>2. ControllersOK'
    BY <2>1 DEF IndInv, ControllersOK
  <2>3. ArrayOK'
    BY <2>1 DEF IndInv, ArrayOK, RemoteSlots
  <2>4. \A h \in Handlers : posts'[h].pc = "free"
    BY <1>c, <2>1
  <2>5. \A p \in raid' : p # Aio /\ p >= 1
    BY <1>a, <2>1 DEF Slots
  <2>6. ns' # "aio0"
    BY <2>1
  <2>7. SidecarOK'
    BY <2>1, <2>4, <2>5, <2>6 DEF SidecarOK
  <2> QED BY <1>0, <2>2, <2>3, <2>7 DEF IndInv
<1>2. CASE ConfigureLocal
  <2>1. /\ side.pc = "attach" /\ side.k <= Len(side.cfg) /\ IsLocal(side.cfg[side.k])
        /\ UNCHANGED <<reps, pod, posts, spdk>>
        /\ side'.pc = "attach" /\ side'.k = side.k + 1
        /\ side'.base = side.base /\ side'.cfg = side.cfg
    BY <1>2, <1>a DEF ConfigureLocal, Sidecars
  <2>2. ControllersOK' /\ ArrayOK'
    BY <1>b, <2>1, ArrayLeftAlone
  <2>3. \A h \in Handlers : posts'[h].pc = "free"
    BY <1>c, <2>1
  <2>4. side.k \notin raid
    <3>1. side.k \notin RemoteSlots(pod.env)
      BY <2>1 DEF RemoteSlots, IndInv, SidecarOK
    <3> QED BY <3>1, <1>a DEF IndInv, ArrayOK, Aio
  <2>5. \A p \in raid' : p # Aio /\ p >= side'.k
    <3> SUFFICES ASSUME NEW p \in raid PROVE p # Aio /\ p >= side.k + 1
      BY <2>1 DEF spdk
    <3>1. p # Aio /\ p >= side.k /\ p # side.k /\ p \in Nat
      BY <1>a, <2>1, <2>4 DEF IndInv, SidecarOK
    <3> QED BY <1>a, <3>1
  <2>6. \A p \in side'.base : p < side'.k
    <3> SUFFICES ASSUME NEW p \in side.base PROVE p < side.k + 1
      BY <2>1
    <3>1. p < side.k /\ p \in Nat
      BY <1>a, <2>1 DEF IndInv, SidecarOK
    <3> QED BY <1>a, <3>1
  <2>7. SidecarOK'
    BY <2>1, <2>3, <2>5, <2>6 DEF IndInv, SidecarOK, spdk, RemoteSlots
  <2> QED BY <1>0, <2>2, <2>7 DEF IndInv
<1>3. CASE ConfigureRemote
  <2> DEFINE a == side.cfg[side.k]
  <2>1. /\ side.pc = "attach" /\ side.k <= Len(side.cfg) /\ ~IsLocal(a)
        /\ AttachNVMeController(side.k, a)
        /\ UNCHANGED <<reps, pod, posts>>
        /\ side'.pc = "attach" /\ side'.k = side.k + 1 /\ side'.cfg = side.cfg
        /\ side'.base = IF Reachable(a) THEN side.base \cup {side.k} ELSE side.base
    BY <1>3, <1>a DEF ConfigureRemote, Sidecars
  <2>2. side.k \in Slots /\ a \in Attachment /\ side.k \in 1 .. Len(side.cfg)
    BY <1>a, <2>1, CountUp
  <2>3. /\ ControllersOK' /\ ArrayOK'
        /\ raid' = raid \ {side.k} /\ aio' = aio
        /\ ns' = IF ns = "raid0" /\ raid' = {} THEN "none" ELSE ns
        /\ ctrl'[side.k] = IF Reachable(a) THEN a ELSE NoReplica
        /\ \A q \in Slots \ {side.k} : ctrl'[q] = ctrl[q]
    BY <2>1, <2>2, AttachOK
  <2>4. \A h \in Handlers : posts'[h].pc = "free"
    BY <1>c, <2>1
  <2>5. \A p \in raid' : p # Aio /\ p >= side'.k
    <3> SUFFICES ASSUME NEW p \in raid, p # side.k PROVE p # Aio /\ p >= side.k + 1
      BY <2>1, <2>3
    <3>1. p # Aio /\ p >= side.k /\ p # side.k /\ p \in Nat
      BY <1>a, <2>1 DEF IndInv, SidecarOK
    <3> QED BY <1>a, <3>1
  <2>6. \A p \in side'.base : p < side'.k
    <3> SUFFICES ASSUME NEW p \in side.base \cup {side.k} PROVE p < side.k + 1
      BY <2>1
    <3>1. p = side.k \/ (p < side.k /\ p \in Nat)
      BY <1>a, <2>1 DEF IndInv, SidecarOK
    <3> QED BY <1>a, <3>1
  <2>7. side'.base \subseteq RemoteSlots(pod'.env)
    <3>1. side.cfg = pod.env /\ side.base \subseteq RemoteSlots(pod.env)
      BY <2>1 DEF IndInv, SidecarOK
    <3>2. side.k \in RemoteSlots(pod.env)
      BY <1>a, <2>1, <2>2, <3>1, ListFacts DEF RemoteSlots
    <3> QED BY <2>1, <3>1, <3>2
  <2>8. aio' => \A p \in side'.base : ctrl'[p] # NoReplica
    <3>1. \A p \in side.base : p \in Slots \ {side.k}
      BY <1>a, <2>1 DEF IndInv, SidecarOK
    <3>2. aio => \A p \in side.base : ctrl'[p] # NoReplica
      BY <2>1, <2>3, <3>1 DEF IndInv, SidecarOK
    <3>3. a # NoReplica => (Reachable(a) => ctrl'[side.k] # NoReplica)
      BY <2>3
    <3>4. Reachable(a) => ctrl'[side.k] # NoReplica
      BY <2>2, <2>3, <3>3, AttachedIsReplica
    <3> QED BY <2>1, <2>3, <3>2, <3>4
  <2>9. SidecarOK'
    <3>1. side.cfg = pod.env /\ ns # "aio0" /\ pod.here
      BY <2>1 DEF IndInv, SidecarOK
    <3>2. side'.cfg = pod'.env /\ ns' # "aio0" /\ pod'.here
      BY <2>1, <2>3, <3>1
    <3> QED BY <2>1, <3>2, <2>4, <2>5, <2>6, <2>7, <2>8 DEF SidecarOK
  <2> QED BY <1>0, <2>3, <2>9 DEF IndInv
<1>4. CASE CreateMirror
  <2>1. /\ side.pc = "attach" /\ side.k > Len(side.cfg) /\ side.cfg = pod.env
        /\ UNCHANGED <<reps, pod, posts, aio, ctrl, ns>>
    BY <1>4 DEF CreateMirror, IndInv, SidecarOK
  <2>2. raid = {} /\ ns = "none"
    <3>1. \A p \in raid : p # Aio /\ p >= side.k /\ p \in RemoteSlots(pod.env)
      BY <2>1 DEF IndInv, SidecarOK, ArrayOK
    <3>2. \A p \in RemoteSlots(pod.env) : p \in 1 .. Len(side.cfg)
      BY <1>a, <2>1, ListFacts DEF RemoteSlots
    <3>3. raid = {}
      BY <1>a, <2>1, <3>1, <3>2, ListFacts
    <3> QED BY <2>1, <3>3 DEF IndInv, TypeOK, SidecarOK, ArrayOK
  <2>3. \A h \in Handlers : posts'[h].pc = "free"
    BY <1>c, <2>1
  <2>4. CASE raid' = raid /\ (side' = Down \/ side.base = {})
    <3>1. ControllersOK' /\ ArrayOK'
      BY <1>b, <2>1, <2>4, ArrayLeftAlone DEF spdk
    <3>2. CASE side' = Down
      <4>1. side'.pc = "down"
        BY <3>2 DEF Down
      <4>2. ~pod'.here => ~aio'
        BY <2>1 DEF IndInv, SidecarOK
      <4>3. SidecarOK'
        BY <2>3, <4>1, <4>2 DEF SidecarOK
      <4> QED BY <1>0, <3>1, <4>3 DEF IndInv
    <3>3. CASE side' = [side EXCEPT !.pc = "export"] /\ side.base = {}
      <4>1. side'.pc = "export" /\ side'.base = {}
        BY <1>a, <3>3 DEF Sidecars
      <4>2. pod'.here /\ ns' = "none" /\ raid' = {}
        BY <2>1, <2>2, <2>4 DEF IndInv, SidecarOK
      <4>3. SidecarOK'
        BY <2>3, <4>1, <4>2 DEF SidecarOK
      <4> QED BY <1>0, <3>1, <4>3 DEF IndInv
    <3> QED BY <1>4, <2>4, <3>2, <3>3 DEF CreateMirror
  <2>5. CASE side' = [side EXCEPT !.pc = "export"] /\ raid' = {Aio} \cup side.base
             /\ aio /\ side.base # {}
    <3>1. side'.pc = "export" /\ side'.base = side.base
      BY <1>a, <2>5 DEF Sidecars
    <3>2. /\ pod.here /\ side.base \subseteq RemoteSlots(pod.env)
          /\ \A p \in side.base : ctrl[p] # NoReplica
      BY <2>1, <2>5 DEF IndInv, SidecarOK
    <3>3. ControllersOK'
      BY <2>1 DEF IndInv, ControllersOK
    <3>4. ArrayOK'
      BY <2>1, <2>2, <2>5, <3>2 DEF ArrayOK, RemoteSlots
    <3>5. pod'.here /\ ns' = "none" /\ side'.base \subseteq RemoteSlots(pod'.env)
          /\ \A p \in side'.base : ctrl'[p] # NoReplica
      BY <2>1, <2>2, <3>1, <3>2
    <3>6. SidecarOK'
      BY <2>3, <2>5, <3>1, <3>5 DEF SidecarOK
    <3> QED BY <1>0, <3>3, <3>4, <3>6 DEF IndInv
  <2> QED BY <1>4, <2>2, <2>4, <2>5 DEF CreateMirror
<1>5. CASE Export
  <2>1. side.pc = "export" /\ UNCHANGED <<reps, pod, posts, aio, ctrl, raid>>
    BY <1>5 DEF Export
  <2>2. ns = "none" /\ pod.here
        /\ (aio => raid = IF side.base = {} THEN {} ELSE {Aio} \cup side.base)
    BY <2>1 DEF IndInv, SidecarOK
  <2>3. \A h \in Handlers : posts'[h].pc = "free"
    BY <1>c, <2>1
  <2>4. ControllersOK'
    BY <2>1 DEF IndInv, ControllersOK
  <2>5. CASE aio
    <3>1. ns' = (IF side.base = {} THEN "aio0" ELSE "raid0") /\ side'.pc = "serving"
      BY <1>5, <1>a, <2>2, <2>5 DEF Export, Sidecars
    <3>2. ArrayOK'
      BY <2>1, <2>2, <2>5, <3>1 DEF IndInv, ArrayOK, RemoteSlots
    <3>3. SidecarOK'
      BY <2>1, <2>2, <2>3, <2>5, <3>1 DEF SidecarOK
    <3> QED BY <1>0, <2>4, <3>2, <3>3 DEF IndInv
  <2>6. CASE ~aio
    <3>1. ns' = ns /\ side'.pc = "down"
      BY <1>5, <2>6 DEF Export, Down
    <3>2. ArrayOK'
      BY <2>1, <3>1 DEF IndInv, ArrayOK, RemoteSlots
    <3>3. SidecarOK'
      BY <2>1, <2>3, <2>6, <3>1 DEF SidecarOK
    <3> QED BY <1>0, <2>4, <3>2, <3>3 DEF IndInv
  <2> QED BY <2>5, <2>6
<1> QED BY <1>1, <1>2, <1>3, <1>4, <1>5 DEF SidecarStep

(* A handler of /reconfigure keeps it, whatever the others are doing.      *)
LEMMA HandlerStepInv ==
    ASSUME IndInv, NEW h \in Handlers, HandlerStep(h)
    PROVE  IndInv'
<1>0. TypeOK /\ (ns = "raid0" => raid # {})
  BY DEF IndInv, ArrayOK
<1>1. TypeOK'
  BY <1>0, HandlerStepType
<1>2. posts[h].pc # "free" /\ side.pc = "serving" /\ pod.here
  BY DEF IndInv, SidecarOK, HandlerStep, ReconfigureRemoves, ReconfigureSkips,
         ReconfigureAttaches, ReconfigureAdds, ReconfigureDone, Attaching
<1>3. \A p \in Slots : ctrl[p] # NoReplica => ctrl[p].name \in Replicas
  BY ControllerNames DEF IndInv
<1>4. CASE UNCHANGED <<reps, pod, spdk>> /\ side'.pc = "serving"
  <2>1. ControllersOK' /\ ArrayOK'
    BY <1>3, <1>4, ArrayLeftAlone
  <2>2. SidecarOK'
    BY <1>2, <1>4 DEF IndInv, SidecarOK, spdk
  <2> QED BY <1>1, <2>1, <2>2 DEF IndInv
<1>5. CASE ReconfigureRemoves(h)
  <2>1. ctrl' = ctrl /\ raid' = raid /\ ns' = ns
    BY <1>0, <1>5, RemovesNothing
  <2> QED BY <1>2, <1>4, <1>5, <2>1 DEF ReconfigureRemoves, spdk
<1>6. CASE ReconfigureSkips(h)
  BY <1>2, <1>4, <1>6 DEF ReconfigureSkips
<1>7. CASE ReconfigureAttaches(h)
  <2> DEFINE a == posts[h].list[posts[h].k]
  <2>1. posts[h].list \in Lists /\ posts[h].k \in 1 .. (MaxLen + 1)
    BY <1>0 DEF TypeOK, Posts
  <2>2. posts[h].k \in Slots /\ a \in Attachment
    BY <1>7, <2>1, CountUp DEF ReconfigureAttaches, Attaching
  <2>3. ~IsLocal(a) /\ AttachNVMeController(posts[h].k, a) /\ UNCHANGED <<reps, pod, side>>
    BY <1>7 DEF ReconfigureAttaches, Skips
  <2>4. /\ ControllersOK' /\ ArrayOK'
        /\ raid' = raid \ {posts[h].k} /\ aio' = aio
        /\ ns' = IF ns = "raid0" /\ raid' = {} THEN "none" ELSE ns
    BY <2>2, <2>3, AttachOK
  <2>5. posts[h].k # Aio
    BY <2>2, EngineAssumption DEF Slots, Aio
  <2>6. aio' => ns' = "aio0" \/ (ns' = "raid0" /\ Aio \in raid')
    BY <1>2, <2>4, <2>5 DEF IndInv, SidecarOK
  <2>7. SidecarOK'
    BY <1>2, <2>3, <2>6 DEF SidecarOK
  <2> QED BY <1>1, <2>4, <2>7 DEF IndInv
<1>8. CASE ReconfigureAdds(h)
  BY <1>0, <1>2, <1>4, <1>8, AddsNothing DEF spdk
<1>9. CASE ReconfigureDone(h)
  <2>1. side'.pc = "serving"
    BY <1>0, <1>2, <1>9 DEF ReconfigureDone, TypeOK, Sidecars
  <2> QED BY <1>4, <1>9, <2>1 DEF ReconfigureDone
<1> QED BY <1>5, <1>6, <1>7, <1>8, <1>9 DEF HandlerStep

(* Replicas, the volume controller, the client and failures keep it.       *)
LEMMA EnvironmentInv == IndInv /\ Environment => IndInv'
<1> SUFFICES ASSUME IndInv, Environment PROVE IndInv'
  OBVIOUS
<1>0. TypeOK /\ TypeOK'
  BY EnvironmentType DEF IndInv
<1>a. \A p \in Slots : ctrl[p] # NoReplica => ctrl[p].name \in Replicas
  BY ControllerNames DEF IndInv
<1>1. CASE /\ UNCHANGED <<pod, spdk, side, posts>>
           /\ \A r \in Replicas : reps'[r].up = reps[r].up /\ reps'[r].at = reps[r].at
  BY <1>0, <1>1, <1>a, ArrayLeftAlone, SidecarLeftAlone DEF IndInv
<1>2. ASSUME NEW l, Edit(l) PROVE IndInv'
  BY <1>1, <1>2 DEF Edit
<1>3. ASSUME NEW r \in Replicas, AttachReplica(r) PROVE IndInv'
  BY <1>2, <1>3 DEF AttachReplica
<1>4. ASSUME NEW p \in DOMAIN list, DetachReplica(p) PROVE IndInv'
  BY <1>2, <1>4 DEF DetachReplica
<1>5. ASSUME NEW r \in Replicas, ReplicaPublishes(r) \/ ReprovisionReplica(r) PROVE IndInv'
  <2>1. PICK x : reps' = [reps EXCEPT ![r].pub = x]
    BY <1>5 DEF ReplicaPublishes, ReprovisionReplica
  <2>2. \A q \in Replicas : reps'[q].up = reps[q].up /\ reps'[q].at = reps[q].at
    BY <1>0, <2>1 DEF TypeOK
  <2> QED BY <1>1, <1>5, <2>2 DEF ReplicaPublishes, ReprovisionReplica
<1>6. ASSUME NEW r \in Replicas, ReplicaReturns(r) \/ ReplicaStops(r) PROVE IndInv'
  <2>1. UNCHANGED <<pod, spdk, side, posts>>
    BY <1>6 DEF ReplicaReturns, ReplicaStops
  <2>2. r # LocalReplica
    BY <1>6 DEF ReplicaReturns, ReplicaStops, IndInv, ControllersOK
  <2>3. \A q \in Replicas : reps'[q].at = reps[q].at \/ reps'[q].at = reps[q].at + 1
    <3>1. CASE ReplicaReturns(r)
      <4>1. PICK x : reps' = [reps EXCEPT ![r] =
                        [up |-> TRUE, at |-> reps[r].at + 1, pub |-> x]]
        BY <3>1 DEF ReplicaReturns
      <4> QED BY <1>0, <4>1 DEF TypeOK
    <3>2. CASE ReplicaStops(r)
      BY <1>0, <3>2 DEF ReplicaStops, TypeOK
    <3> QED BY <1>6, <3>1, <3>2
  <2>4. reps'[LocalReplica] = reps[LocalReplica]
    BY <1>0, <1>6, <2>2, EngineAssumption DEF ReplicaReturns, ReplicaStops, TypeOK
  <2>5. ControllersOK'
    <3>1. ASSUME NEW p \in Slots, ctrl[p] # NoReplica
          PROVE  ctrl[p].name # LocalReplica /\ ctrl[p].addr <= reps'[ctrl[p].name].at
      <4>1. ctrl[p].name \in Replicas /\ ctrl[p].addr \in Nat
        BY <1>0, <3>1, ControllerNames
      <4>2. ctrl[p].name # LocalReplica /\ ctrl[p].addr <= reps[ctrl[p].name].at
        BY <3>1 DEF IndInv, ControllersOK
      <4>3. reps[ctrl[p].name].at \in Nat
        BY <1>0, <4>1, RepFacts
      <4> QED BY <2>3, <4>1, <4>2, <4>3
    <3> QED BY <2>1, <2>4, <3>1 DEF IndInv, ControllersOK, spdk
  <2>6. ArrayOK'
    BY <2>1 DEF IndInv, ArrayOK, RemoteSlots, spdk
  <2>7. SidecarOK'
    BY <2>1, SidecarLeftAlone
  <2> QED BY <1>0, <2>5, <2>6, <2>7 DEF IndInv
<1>7. CASE SidecarCrashes
  <2>1. UNCHANGED <<reps, pod, spdk>> /\ SidecarGone
    BY <1>7 DEF SidecarCrashes
  <2>2. ControllersOK' /\ ArrayOK'
    BY <1>a, <2>1, ArrayLeftAlone
  <2>3. side'.pc = "down" /\ \A h \in Handlers : posts'[h].pc = "free"
    BY <2>1 DEF SidecarGone, Down, NoPost
  <2>4. SidecarOK'
    BY <2>1, <2>3 DEF IndInv, SidecarOK, spdk
  <2> QED BY <1>0, <2>2, <2>4 DEF IndInv
<1>8. CASE SPDKRestarts
  <2>1. ControllersOK' /\ ArrayOK'
    BY <1>8, EmptyOK DEF SPDKRestarts
  <2>2. UNCHANGED <<pod, side, posts>> /\ ~aio' /\ raid' = {} /\ ns' = "none"
    BY <1>8 DEF SPDKRestarts, SPDKEmpty
  <2>3. SidecarOK'
    BY <2>2 DEF IndInv, SidecarOK, RemoteSlots
  <2> QED BY <1>0, <2>1, <2>3 DEF IndInv
<1>9. CASE PodLost
  <2>1. ControllersOK' /\ ArrayOK'
    BY <1>9, EmptyOK DEF PodLost
  <2>2. ~aio' /\ side'.pc = "down" /\ \A h \in Handlers : posts'[h].pc = "free"
    BY <1>9 DEF PodLost, SPDKEmpty, SidecarGone, Down, NoPost
  <2>3. SidecarOK'
    BY <2>2 DEF SidecarOK
  <2> QED BY <1>0, <2>1, <2>3 DEF IndInv
<1>10. CASE PostTimesOut \/ ControllerRestarts \/ PodUnread
  BY <1>1, <1>10 DEF PostTimesOut, ControllerRestarts, PodUnread
<1>11. CASE ClientWrites
  <2>1. /\ UNCHANGED <<reps, pod, side, posts, aio, ctrl>> /\ Receiving # {}
        /\ raid' = Answering /\ ns' = IF ns = "raid0" /\ Answering = {} THEN "none" ELSE ns
    BY <1>11 DEF ClientWrites, ArrayBecomes
  <2>2. Answering \subseteq raid /\ (Aio \in raid => Aio \in Answering)
    BY DEF Answering
  <2>3. ns # "none" /\ (ns = "raid0" => Answering # {}) /\ ns' = ns
    BY <2>1 DEF Receiving, Copies
  <2>4. ControllersOK'
    BY <2>1 DEF IndInv, ControllersOK
  <2>5. ArrayOK'
    BY <2>1, <2>2, <2>3 DEF IndInv, ArrayOK, RemoteSlots
  <2>6. SidecarOK'
    BY <2>1, <2>2, <2>3 DEF IndInv, SidecarOK, ArrayOK, RemoteSlots
  <2> QED BY <1>0, <2>4, <2>5, <2>6 DEF IndInv
<1> QED BY <1>3, <1>4, <1>5, <1>6, <1>7, <1>8, <1>9, <1>10, <1>11 DEF Environment

(* Every step keeps the invariant.                                         *)
LEMMA StepInv == IndInv /\ [Next]_vars => IndInv'
<1> SUFFICES ASSUME IndInv, [Next]_vars PROVE IndInv'
  OBVIOUS
<1>1. CASE UNCHANGED vars
  <2>1. UNCHANGED <<reps, list, podRef, phase, hash, erun, pod, side, posts, aio, ctrl, raid,
                    ns, written, behind, changes, faults>>
    BY <1>1 DEF vars, engine, spdk, content, bounds
  <2>2. TypeOK'
    BY <2>1 DEF IndInv, TypeOK
  <2>3. ControllersOK' /\ ArrayOK'
    BY <2>1 DEF IndInv, ControllersOK, ArrayOK, RemoteSlots
  <2>4. SidecarOK'
    BY <2>1 DEF IndInv, SidecarOK, RemoteSlots
  <2> QED BY <2>2, <2>3, <2>4 DEF IndInv
<1>2. CASE Next
  BY <1>2, EngineStepInv, SidecarStepInv, HandlerStepInv, EnvironmentInv DEF Next
<1> QED BY <1>1, <1>2

(* The invariant always holds.                                             *)
LEMMA Invariance == Spec => []IndInv
BY InitIndInv, StepInv, PTL DEF Spec

(* Every value is of its type, and no reconfigure takes a bdev for one of  *)
(* another slot.                                                           *)
THEOREM TypeCorrect == Spec => []TypeOK
BY Invariance, PTL DEF IndInv

(* A sidecar that answers serves at least the local copy, unless SPDK was  *)
(* restarted under it.                                                     *)
THEOREM ServesLocalCopy == Spec => []AnswersWhileServing
<1>1. IndInv => AnswersWhileServing
  <2> SUFFICES ASSUME IndInv, side.pc = "serving", aio PROVE LocalReplica \in Receiving
    BY DEF AnswersWhileServing
  <2>1. ns = "aio0" \/ (ns = "raid0" /\ Aio \in raid)
    BY DEF IndInv, SidecarOK
  <2> QED BY <2>1 DEF Receiving, Copies, Answering
<1> QED BY <1>1, Invariance, PTL

(* A sidecar that starts again finds the name of the array free.           *)
THEOREM NameIsFree == Spec => []ArrayNameIsFree
<1>1. IndInv => ArrayNameIsFree
  <2> SUFFICES ASSUME IndInv, side.pc = "attach", side.k > Len(side.cfg), NEW p \in raid
               PROVE  FALSE
    BY DEF ArrayNameIsFree
  <2>1. side.cfg = pod.env /\ p # Aio /\ p >= side.k
    BY DEF IndInv, SidecarOK
  <2>2. p \in RemoteSlots(side.cfg)
    BY <2>1 DEF IndInv, ArrayOK
  <2>3. side.cfg \in Lists /\ side.k \in 1 .. (MaxLen + 1)
    BY DEF IndInv, TypeOK, Sidecars
  <2>4. Len(side.cfg) \in Nat /\ p \in 1 .. Len(side.cfg)
    BY <2>2, <2>3, ListFacts DEF RemoteSlots
  <2> QED BY <2>1, <2>3, <2>4
<1> QED BY <1>1, Invariance, PTL

-----------------------------------------------------------------------------
(* The members of the array.                                               *)

Apart(l) == \A p, q \in DOMAIN l : p # q => l[p].name # l[q].name

(* A member is the replica that KDFS_REPLICAS has at its position, at the  *)
(* address that it has there; so is what the sidecar is about to make an   *)
(* array of.  No list names a replica twice.                               *)
LegsOK ==
    /\ Apart(list) /\ Apart(pod.env)
    /\ \A b \in raid \ {Aio} : ctrl[b] = pod.env[b]
    /\ side.pc \in {"attach", "export"} /\ aio => \A p \in side.base : ctrl[p] = pod.env[p]

(* Editing a list, and filling it in, keep the names apart.                *)
LEMMA ApartKept ==
    ASSUME TypeOK, Apart(list)
    PROVE  /\ Apart(Filled)
           /\ \A p \in DOMAIN list :
                 Apart(SubSeq(list, 1, p - 1) \o SubSeq(list, p + 1, Len(list)))
           /\ \A r \in Replicas \ NamesOf(list) : Apart(Append(list, [name |-> r, addr |-> 0]))
<1>0. /\ list \in Lists /\ Len(list) \in Nat /\ DOMAIN list = 1 .. Len(list)
      /\ list \in Seq(Attachment)
      /\ \A p \in 1 .. Len(list) : list[p] \in Attachment
  <2>1. list \in Lists
    BY DEF TypeOK
  <2> QED BY <2>1, ListFacts
<1>1. Apart(Filled)
  <2>1. \A a \in Attachment : FillIn(a).name = a.name
    BY DEF FillIn, Attachment
  <2>2. DOMAIN Filled = DOMAIN list /\ \A p \in DOMAIN list : Filled[p].name = list[p].name
    BY <1>0, <2>1 DEF Filled
  <2> QED BY <2>2 DEF Apart
<1>2. ASSUME NEW p \in DOMAIN list
      PROVE  Apart(SubSeq(list, 1, p - 1) \o SubSeq(list, p + 1, Len(list)))
  <2> DEFINE w == SubSeq(list, 1, p - 1) \o SubSeq(list, p + 1, Len(list))
             old(q) == IF q < p THEN q ELSE q + 1
  <2>1. /\ w \in Lists /\ Len(w) = Len(list) - 1
        /\ \A q \in 1 .. Len(w) : w[q] = list[old(q)]
    BY <1>0, <1>2, WithoutIsList
  <2> HIDE DEF w
  <2>2. DOMAIN w = 1 .. (Len(list) - 1)
    BY <2>1, ListFacts
  <2>3. \A q \in 1 .. (Len(list) - 1) : old(q) \in 1 .. Len(list)
    BY <1>0
  <2>4. \A q, r \in 1 .. (Len(list) - 1) : q # r => old(q) # old(r)
    BY <1>0
  <2> HIDE DEF old
  <2>5. Apart(w)
    BY <1>0, <2>1, <2>2, <2>3, <2>4 DEF Apart
  <2> QED BY <2>5 DEF w
<1>3. ASSUME NEW r \in Replicas \ NamesOf(list)
      PROVE  Apart(Append(list, [name |-> r, addr |-> 0]))
  <2> DEFINE a == [name |-> r, addr |-> 0]
             s == Append(list, a)
  <2>1. a \in Attachment /\ a.name = r
    BY EngineAssumption DEF Attachment
  <2> HIDE DEF a
  <2>2. /\ s \in Seq(Attachment) /\ Len(s) = Len(list) + 1
        /\ \A i \in 1 .. Len(list) : s[i] = list[i]
        /\ s[Len(list) + 1] = a
    BY <1>0, <2>1, AppendProperties
  <2> HIDE DEF s
  <2>3. DOMAIN s = 1 .. (Len(list) + 1)
    BY <2>2, LenProperties
  <2>4. \A i \in 1 .. Len(list) : s[i].name # r
    BY <1>0, <2>2 DEF NamesOf
  <2>5. Apart(s)
    <3> SUFFICES ASSUME NEW p \in DOMAIN s, NEW q \in DOMAIN s, p # q
                 PROVE  s[p].name # s[q].name
      BY DEF Apart
    <3>1. CASE p \in 1 .. Len(list) /\ q \in 1 .. Len(list)
      BY <1>0, <2>2, <3>1 DEF Apart
    <3>2. CASE p = Len(list) + 1 \/ q = Len(list) + 1
      BY <1>0, <2>1, <2>2, <2>3, <2>4, <3>2
    <3> QED BY <1>0, <2>3, <3>1, <3>2
  <2> QED BY <2>5 DEF s, a
<1> QED BY <1>1, <1>2, <1>3

(* The lists start out apart, and nothing is attached.                     *)
LEMMA InitLegs == Init => LegsOK
<1> SUFFICES ASSUME Init PROVE LegsOK
  OBVIOUS
<1>1. Apart(list)
  <2>1. PICK s \in StartLists : list = [p \in 1 .. Len(s) |-> [name |-> s[p], addr |-> 0]]
    BY DEF Init
  <2>2. \A p, q \in 1 .. Len(s) : p # q => s[p] # s[q]
    BY EngineAssumption
  <2>3. DOMAIN list = 1 .. Len(s) /\ \A p \in 1 .. Len(s) : list[p].name = s[p]
    BY <2>1
  <2> QED BY <2>2, <2>3 DEF Apart
<1>2. Apart(pod.env) /\ raid = {} /\ ~aio
  <2>1. pod.env = <<>> /\ raid = {} /\ ~aio
    BY DEF Init, NoPod
  <2>2. DOMAIN <<>> = {}
    OBVIOUS
  <2> QED BY <2>1, <2>2 DEF Apart
<1> QED BY <1>1, <1>2 DEF LegsOK

(* A step that takes members out of the array, or none, and keeps the      *)
(* controllers of the others, while the sidecar is not at work on one.     *)
LEMMA LegsLeave ==
    ASSUME LegsOK, pod' = pod, Apart(list'), raid' \subseteq raid,
           \A b \in raid' \ {Aio} : ctrl'[b] = ctrl[b],
           \/ side'.pc \notin {"attach", "export"} \/ ~aio'
           \/ /\ side.pc \in {"attach", "export"} /\ aio
              /\ side'.base = side.base /\ ctrl' = ctrl
    PROVE  LegsOK'
<1>1. \A b \in raid' \ {Aio} : ctrl'[b] = pod.env[b]
  BY DEF LegsOK
<1>2. side'.pc \in {"attach", "export"} /\ aio' => \A p \in side'.base : ctrl'[p] = pod.env[p]
  BY DEF LegsOK
<1> QED BY <1>1, <1>2 DEF LegsOK, Apart

(* The sidecar makes the array of the replicas that it has attached.       *)
LEMMA SidecarLegs == IndInv /\ LegsOK /\ SidecarStep => LegsOK'
<1> SUFFICES ASSUME IndInv, LegsOK, SidecarStep PROVE LegsOK'
  OBVIOUS
<1>0. /\ pod' = pod /\ reps' = reps /\ list' = list /\ posts' = posts /\ Apart(list')
      /\ side \in Sidecars
  BY DEF SidecarStep, StartEngine, ConfigureLocal, ConfigureRemote, CreateMirror, Export,
         others, engine, LegsOK, IndInv, TypeOK
<1>1. CASE StartEngine
  <2>1. raid' = raid \ {Aio} /\ ctrl' = ctrl /\ side'.base = {}
    BY <1>1 DEF StartEngine
  <2> QED BY <1>0, <2>1 DEF LegsOK, Apart
<1>2. CASE ConfigureLocal
  <2>1. /\ raid' = raid /\ ctrl' = ctrl /\ aio' = aio
        /\ side.pc = "attach" /\ side'.pc = "attach" /\ side'.base = side.base
    BY <1>0, <1>2 DEF ConfigureLocal, spdk, Sidecars
  <2> QED BY <1>0, <2>1, LegsLeave
<1>3. CASE ConfigureRemote
  <2> DEFINE a == side.cfg[side.k]
  <2>0. side.cfg \in Lists /\ side.k \in 1 .. (MaxLen + 1) /\ side.base \subseteq Slots
    BY <1>0 DEF Sidecars
  <2>1. /\ side.pc = "attach" /\ side.k <= Len(side.cfg) /\ ~IsLocal(a)
        /\ AttachNVMeController(side.k, a)
        /\ side'.base = IF Reachable(a) THEN side.base \cup {side.k} ELSE side.base
    BY <1>0, <1>3 DEF ConfigureRemote, Sidecars
  <2>2. side.k \in Slots /\ a \in Attachment /\ side.cfg = pod.env
    BY <2>0, <2>1, CountUp DEF IndInv, SidecarOK
  <2>3. /\ raid' = raid \ {side.k} /\ aio' = aio
        /\ ctrl'[side.k] = IF Reachable(a) THEN a ELSE NoReplica
        /\ \A q \in Slots \ {side.k} : ctrl'[q] = ctrl[q]
    BY <1>0, <2>1, <2>2, AttachOK
  <2>4. \A b \in raid' \ {Aio} : b \in Slots \ {side.k} /\ ctrl'[b] = pod.env[b]
    BY <2>3 DEF LegsOK, IndInv, TypeOK
  <2>5. \A p \in side.base : p \in Slots \ {side.k}
    <3>1. \A p \in side.base : p < side.k /\ p \in Nat
      BY <2>0, <2>1, EngineAssumption DEF IndInv, SidecarOK, Slots
    <3> QED BY <2>0, <3>1
  <2>6. aio => \A p \in side'.base : ctrl'[p] = pod.env[p]
    BY <2>1, <2>2, <2>3, <2>5 DEF LegsOK
  <2> QED BY <1>0, <2>3, <2>4, <2>6 DEF LegsOK, Apart
<1>4. CASE CreateMirror
  <2>1. side.pc = "attach" /\ ctrl' = ctrl /\ aio' = aio
    BY <1>4 DEF CreateMirror
  <2>2. CASE raid' = raid /\ side' = Down
    BY <1>0, <2>1, <2>2, LegsLeave DEF Down
  <2>3. CASE raid' = raid /\ side' = [side EXCEPT !.pc = "export"]
    <3>1. side'.base = side.base
      BY <1>0, <2>3 DEF Sidecars
    <3> QED BY <1>0, <2>1, <2>3, <3>1, LegsLeave
  <2>4. CASE /\ raid' = {Aio} \cup side.base /\ aio /\ side' = [side EXCEPT !.pc = "export"]
    <3>1. side'.base = side.base
      BY <1>0, <2>4 DEF Sidecars
    <3>2. \A p \in side.base : ctrl'[p] = pod'.env[p]
      BY <1>0, <2>1, <2>4 DEF LegsOK
    <3> QED BY <1>0, <2>4, <3>1, <3>2 DEF LegsOK, Apart
  <2> QED BY <1>4, <2>2, <2>3, <2>4 DEF CreateMirror
<1>5. CASE Export
  <2>1. raid' = raid /\ ctrl' = ctrl /\ side'.pc \in {"serving", "down"}
    BY <1>0, <1>5 DEF Export, Down, Sidecars
  <2> QED BY <1>0, <2>1, LegsLeave
<1> QED BY <1>1, <1>2, <1>3, <1>4, <1>5 DEF SidecarStep

(* A handler adds no member.                                               *)
LEMMA HandlerLegs == ASSUME IndInv, LegsOK, NEW h \in Handlers, HandlerStep(h) PROVE LegsOK'
<1>0. TypeOK /\ (ns = "raid0" => raid # {})
  BY DEF IndInv, ArrayOK
<1>1. posts[h].pc # "free" /\ side.pc = "serving"
  BY DEF IndInv, SidecarOK, HandlerStep, ReconfigureRemoves, ReconfigureSkips,
         ReconfigureAttaches, ReconfigureAdds, ReconfigureDone, Attaching
<1>2. /\ pod' = pod /\ reps' = reps /\ list' = list /\ Apart(list') /\ side'.pc = "serving"
  BY <1>0, <1>1 DEF HandlerStep, ReconfigureRemoves, ReconfigureSkips, ReconfigureAttaches,
         ReconfigureAdds, ReconfigureDone, engine, LegsOK, TypeOK, Sidecars
<1>3. CASE raid' = raid /\ ctrl' = ctrl
  BY <1>2, <1>3, LegsLeave
<1>4. CASE ReconfigureAttaches(h)
  <2> DEFINE a == posts[h].list[posts[h].k]
  <2>1. posts[h].list \in Lists /\ posts[h].k \in 1 .. (MaxLen + 1)
    BY <1>0 DEF TypeOK, Posts
  <2>2. posts[h].k \in Slots /\ a \in Attachment
    BY <1>4, <2>1, CountUp DEF ReconfigureAttaches, Attaching
  <2>3. ~IsLocal(a) /\ AttachNVMeController(posts[h].k, a) /\ UNCHANGED <<reps, pod>>
    BY <1>4 DEF ReconfigureAttaches, Skips
  <2>4. /\ raid' = raid \ {posts[h].k}
        /\ \A q \in Slots \ {posts[h].k} : ctrl'[q] = ctrl[q]
    BY <2>2, <2>3, AttachOK
  <2>5. \A b \in raid' \ {Aio} : b \in Slots \ {posts[h].k}
    BY <1>0, <2>4 DEF TypeOK
  <2> QED BY <1>2, <2>4, <2>5, LegsLeave
<1>5. CASE ReconfigureRemoves(h)
  BY <1>0, <1>3, <1>5, RemovesNothing
<1>6. CASE ReconfigureAdds(h)
  BY <1>0, <1>3, <1>6, AddsNothing
<1>7. CASE ReconfigureSkips(h) \/ ReconfigureDone(h)
  BY <1>3, <1>7 DEF ReconfigureSkips, ReconfigureDone, spdk
<1> QED BY <1>4, <1>5, <1>6, <1>7 DEF HandlerStep

(* Edits keep the list apart; a new pod, and a lost SPDK, have no array.   *)
LEMMA OtherLegs == IndInv /\ LegsOK /\ (EngineStep \/ Environment) => LegsOK'
<1> SUFFICES ASSUME IndInv, LegsOK, EngineStep \/ Environment PROVE LegsOK'
  OBVIOUS
<1>0. TypeOK /\ Apart(list)
  BY DEF IndInv, LegsOK
<1>1. CASE UNCHANGED <<pod, side, spdk>> /\ Apart(list')
  BY <1>1 DEF LegsOK, spdk, Apart
<1>2. CASE ReplicaStatus
  BY <1>0, <1>1, <1>2, ApartKept DEF ReplicaStatus, data
<1>3. CASE CreateEnginePod
  <2>1. UNCHANGED <<list, side, spdk>>
    BY <1>3 DEF CreateEnginePod, engine, data
  <2>2. CASE pod.here
    BY <1>0, <1>1, <1>3, <2>1, <2>2 DEF CreateEnginePod
  <2>3. CASE ~pod.here
    <3>1. raid = {} /\ side.pc = "down" /\ pod'.env = list
      BY <1>3, <2>3 DEF CreateEnginePod, IndInv, SidecarOK, ArrayOK
    <3> QED BY <1>0, <2>1, <3>1 DEF LegsOK, spdk, Apart
  <2> QED BY <2>2, <2>3
<1>4. CASE ForgetPod \/ SkipReconfigure \/ UpdateStatus \/ \E h \in Handlers : TriggerReconfigure(h)
  BY <1>0, <1>1, <1>4 DEF ForgetPod, SkipReconfigure, UpdateStatus, TriggerReconfigure, engine, data
<1>5. ASSUME NEW r \in Replicas, AttachReplica(r) PROVE LegsOK'
  <2>1. list' = Append(list, [name |-> r, addr |-> 0]) /\ r \notin NamesOf(list)
        /\ UNCHANGED <<pod, side, spdk>>
    BY <1>5 DEF AttachReplica, Edit
  <2> QED BY <1>0, <1>1, <2>1, ApartKept
<1>6. ASSUME NEW p \in DOMAIN list, DetachReplica(p) PROVE LegsOK'
  <2>1. list' = SubSeq(list, 1, p - 1) \o SubSeq(list, p + 1, Len(list))
        /\ UNCHANGED <<pod, side, spdk>>
    BY <1>6 DEF DetachReplica, Edit
  <2> QED BY <1>0, <1>1, <2>1, ApartKept
<1>7. ASSUME NEW r \in Replicas,
             \/ ReplicaPublishes(r) \/ ReplicaReturns(r) \/ ReprovisionReplica(r)
             \/ ReplicaStops(r)
      PROVE  LegsOK'
  BY <1>0, <1>1, <1>7 DEF ReplicaPublishes, ReplicaReturns, ReprovisionReplica, ReplicaStops,
                          engine
<1>8. CASE PostTimesOut \/ ControllerRestarts \/ PodUnread
  BY <1>0, <1>1, <1>8 DEF PostTimesOut, ControllerRestarts, PodUnread, engine
<1>9. CASE SidecarCrashes
  <2>1. UNCHANGED <<pod, list, ctrl, raid>> /\ side'.pc = "down"
    BY <1>9 DEF SidecarCrashes, SidecarGone, Down, engine, spdk
  <2> QED BY <1>0, <2>1, LegsLeave
<1>10. CASE SPDKRestarts \/ PodLost
  <2>1. /\ list' = list /\ raid' = {} /\ ~aio'
        /\ pod' = pod \/ pod'.env = <<>>
    BY <1>10 DEF SPDKRestarts, PodLost, SPDKEmpty, NoPod, engine
  <2>2. Apart(<<>>)
    <3>1. DOMAIN <<>> = {}
      OBVIOUS
    <3> QED BY <3>1 DEF Apart
  <2> QED BY <1>0, <2>1, <2>2 DEF LegsOK, Apart
<1>11. CASE ClientWrites
  <2>1. UNCHANGED <<pod, list, side, ctrl, aio>> /\ raid' = Answering
    BY <1>11 DEF ClientWrites, ArrayBecomes, engine
  <2> QED BY <1>0, <2>1 DEF LegsOK, Answering, Apart
<1> QED BY <1>2, <1>3, <1>4, <1>5, <1>6, <1>7, <1>8, <1>9, <1>10, <1>11
        DEF EngineStep, Environment

(* No replica is in the array twice, although a reconfigure attaches one   *)
(* again when the positions in the list have shifted.                      *)
THEOREM NoReplicaTwice == Spec => []OneLegPerReplica
<1>1. IndInv /\ LegsOK /\ [Next]_vars => LegsOK'
  <2>1. IndInv /\ LegsOK /\ UNCHANGED vars => LegsOK'
    BY DEF LegsOK, vars, engine, spdk, Apart
  <2> QED BY <2>1, SidecarLegs, HandlerLegs, OtherLegs DEF Next
<1>2. IndInv /\ LegsOK => OneLegPerReplica
  <2> SUFFICES ASSUME IndInv, LegsOK, NEW b \in raid, NEW c \in raid, b # c,
                      Copies({b}) = Copies({c})
               PROVE  FALSE
    BY DEF OneLegPerReplica
  <2> DEFINE copy(x) == IF x = Aio THEN LocalReplica ELSE ctrl[x].name
  <2>1. copy(b) = copy(c)
    BY DEF Copies
  <2>2. \A x \in raid \ {Aio} :
           /\ x \in Slots /\ x \in DOMAIN pod.env /\ ctrl[x] = pod.env[x]
           /\ ctrl[x].name # LocalReplica
    BY DEF IndInv, TypeOK, ArrayOK, RemoteSlots, ControllersOK, LegsOK
  <2> QED BY <2>1, <2>2 DEF LegsOK, Apart
<1> QED BY <1>1, <1>2, InitLegs, Invariance, PTL DEF Spec

-----------------------------------------------------------------------------
(* The mirror.                                                             *)

(* What is served depends on SPDK and on which replicas answer where.      *)
LEMMA SameReceiving ==
    ASSUME IndInv, ctrl' = ctrl, raid' = raid, ns' = ns,
           \A p \in Slots : ctrl[p] # NoReplica => (Alive(ctrl[p]) <=> Alive(ctrl[p])')
    PROVE  Receiving' = Receiving
<1>1. \A b \in raid \ {Aio} : b \in Slots /\ ctrl[b] # NoReplica
  BY DEF IndInv, TypeOK, ArrayOK
<1>2. \A b \in raid \ {Aio} : Alive(ctrl[b])' <=> Alive(ctrl[b])
  BY <1>1
<1>3. Answering' = Answering
  BY <1>2 DEF Answering
<1> QED BY <1>3 DEF Receiving, Copies

(* Detaching the controller of one slot takes at most its copy away.       *)
LEMMA OneLeaves ==
    ASSUME IndInv, NEW p \in Slots, NEW a \in Attachment, ~IsLocal(a),
           AttachNVMeController(p, a), UNCHANGED <<reps, pod>>
    PROVE  \/ Receiving' = {} \/ Receiving' = Receiving
           \/ \E r \in Replicas : Receiving' = Receiving \ {r}
<1>1. /\ raid' = raid \ {p} /\ ns' = IF ns = "raid0" /\ raid' = {} THEN "none" ELSE ns
      /\ \A q \in Slots \ {p} : ctrl'[q] = ctrl[q]
  BY AttachOK
<1>2. raid \subseteq Slots \cup {Aio} /\ ns \in {"none", "aio0", "raid0"}
  BY DEF IndInv, TypeOK
<1>3. CASE ns' = "raid0"
  <2>1. ns = "raid0"
    BY <1>1, <1>2, <1>3
  <2>2. \A b \in raid \ {p} : b # Aio => ctrl'[b] = ctrl[b] /\ (Alive(ctrl[b])' <=> Alive(ctrl[b]))
    BY <1>1, <1>2 DEF Alive
  <2>3. Answering' = Answering \ {p}
    BY <1>1, <2>2 DEF Answering
  <2>4. Receiving' = Copies(Answering \ {p})
    BY <1>3, <2>2, <2>3 DEF Receiving, Copies, Answering
  <2>5. Receiving = Copies(Answering)
    BY <2>1 DEF Receiving
  <2>6. CASE p \notin Answering
    BY <2>4, <2>5, <2>6
  <2>7. CASE p \in Answering
    <3>1. p \in raid /\ p # Aio
      BY <2>7, EngineAssumption DEF Answering, Slots, Aio
    <3>2. ctrl[p].name \in Replicas
      BY <3>1, ControllerNames DEF IndInv, ArrayOK
    <3>3. Copies(Answering) = Copies(Answering \ {p}) \cup {ctrl[p].name}
      BY <2>7, <3>1 DEF Copies
    <3> QED BY <2>4, <2>5, <3>2, <3>3
  <2> QED BY <2>6, <2>7
<1>4. CASE ns' = "aio0"
  BY <1>1, <1>4 DEF Receiving
<1>5. CASE ns' = "none"
  BY <1>5 DEF Receiving
<1> QED BY <1>1, <1>2, <1>3, <1>4, <1>5

(* What a step may do to the copies that are served and to their data.     *)
Fewer ==
    behind' = behind /\ (Receiving' = {} \/ \E r \in Replicas : Receiving' = Receiving \ {r})
Assembled ==
    /\ behind' = behind /\ Receiving = {}
    /\ Receiving' \subseteq Replicas /\ LocalReplica \in Receiving'
WrittenTo ==
    /\ Receiving # {} /\ Receiving' = Receiving
    /\ behind' = behind \cup (Replicas \ Receiving)
LostItsData ==
    /\ Receiving' = Receiving
    /\ \E r \in Replicas : /\ behind' = behind \cup {r}
                           /\ r \notin Receiving \/ ReprovisionReplica(r)
DataStep ==
    \/ Receiving' = Receiving /\ behind' = behind
    \/ Fewer \/ Assembled \/ WrittenTo \/ LostItsData

(* The sidecar: it assembles an array where nothing is served, and before  *)
(* that takes apart the one it finds.                                      *)
LEMMA SidecarStepData == IndInv /\ SidecarStep => DataStep
<1> SUFFICES ASSUME IndInv, SidecarStep PROVE DataStep
  OBVIOUS
<1>0. SidecarStep => behind' = behind
  BY DEF SidecarStep, StartEngine, ConfigureLocal, ConfigureRemote, CreateMirror, Export,
         others, content
<1>1. CASE StartEngine
  <2>1. /\ UNCHANGED <<reps, ctrl>> /\ raid' = raid \ {Aio}
        /\ ns' = IF ns = "aio0" \/ raid' = {} THEN "none" ELSE ns
    BY <1>1 DEF StartEngine, others
  <2>2. CASE ns' = "none"
    BY <1>0, <2>2 DEF Receiving, DataStep, Fewer
  <2>3. CASE ns' # "none"
    <3>1. ns = "raid0" /\ ns' = "raid0"
      BY <2>1, <2>3 DEF IndInv, TypeOK
    <3>2. Answering' = Answering \ {Aio}
      BY <2>1 DEF Answering, Alive
    <3>3. Receiving' = Copies(Answering \ {Aio})
      BY <2>1, <3>1, <3>2 DEF Receiving, Copies
    <3>4. Receiving = Copies(Answering)
      BY <3>1 DEF Receiving
    <3>5. LocalReplica \notin Copies(Answering \ {Aio})
      <4>1. \A b \in Answering \ {Aio} : b \in Slots /\ ctrl[b] # NoReplica
        BY DEF Answering, IndInv, ArrayOK, TypeOK
      <4>2. \A b \in Answering \ {Aio} : ctrl[b].name # LocalReplica
        BY <4>1 DEF IndInv, ControllersOK
      <4> QED BY <4>2 DEF Copies
    <3>6. Copies(Answering \ {Aio}) = Copies(Answering) \ {LocalReplica}
      BY <3>5 DEF Copies
    <3> QED BY <1>0, <3>3, <3>4, <3>6, EngineAssumption DEF DataStep, Fewer
  <2> QED BY <2>2, <2>3
<1>2. CASE ConfigureLocal
  <2>1. Receiving' = Receiving
    BY <1>2, SameReceiving DEF ConfigureLocal, others, spdk, Alive
  <2> QED BY <1>0, <2>1 DEF DataStep
<1>3. CASE ConfigureRemote
  <2>1. side.cfg \in Lists /\ side.k \in 1 .. (MaxLen + 1)
    BY DEF IndInv, TypeOK, Sidecars
  <2>2. side.k \in Slots /\ side.cfg[side.k] \in Attachment
    BY <1>3, <2>1, CountUp DEF ConfigureRemote
  <2>3. /\ ~IsLocal(side.cfg[side.k]) /\ UNCHANGED <<reps, pod>>
        /\ AttachNVMeController(side.k, side.cfg[side.k])
    BY <1>3 DEF ConfigureRemote, others
  <2> QED BY <1>0, <2>2, <2>3, OneLeaves DEF DataStep, Fewer
<1>4. CASE CreateMirror
  <2>1. ns' = ns
    BY <1>4 DEF CreateMirror
  <2>2. ns = "none"
    <3>1. side.pc = "attach" /\ side.k > Len(side.cfg)
      BY <1>4 DEF CreateMirror
    <3>2. side.cfg \in Lists /\ side.k \in 1 .. (MaxLen + 1)
      BY DEF IndInv, TypeOK, Sidecars
    <3>3. \A p \in raid : p >= side.k /\ p \in RemoteSlots(side.cfg)
      BY <3>1 DEF IndInv, SidecarOK, ArrayOK
    <3>4. raid = {}
      BY <3>1, <3>2, <3>3, ListFacts DEF RemoteSlots
    <3> QED BY <3>1, <3>4 DEF IndInv, SidecarOK, ArrayOK, TypeOK
  <2>3. Receiving = {} /\ Receiving' = {}
    BY <2>1, <2>2 DEF Receiving
  <2> QED BY <1>0, <2>3 DEF DataStep
<1>5. CASE Export
  <2>1. ns = "none" /\ UNCHANGED <<reps, ctrl, raid, aio>>
    BY <1>5 DEF Export, IndInv, SidecarOK, others
  <2>2. Receiving = {}
    BY <2>1 DEF Receiving
  <2>3. CASE ns' = "none"
    BY <1>0, <2>2, <2>3 DEF Receiving, DataStep, Fewer
  <2>4. CASE ns' = "aio0"
    <3>1. Receiving' = {LocalReplica}
      BY <2>4 DEF Receiving
    <3> QED BY <1>0, <2>2, <3>1, EngineAssumption DEF DataStep, Assembled
  <2>5. CASE ns' = "raid0"
    <3>1. aio /\ side.base # {}
      BY <1>5, <2>1, <2>5 DEF Export
    <3>2. Aio \in raid
      BY <1>5, <3>1 DEF Export, IndInv, SidecarOK
    <3>3. Answering' = Answering
      BY <2>1 DEF Answering, Alive
    <3>4. Receiving' = Copies(Answering)
      BY <2>1, <2>5, <3>3 DEF Receiving, Copies
    <3>5. \A b \in Answering \ {Aio} : ctrl[b].name \in Replicas
      BY ControllerNames DEF Answering, IndInv, ArrayOK, TypeOK
    <3>6. Copies(Answering) \subseteq Replicas /\ LocalReplica \in Copies(Answering)
      BY <3>2, <3>5, EngineAssumption DEF Copies, Answering
    <3> QED BY <1>0, <2>2, <3>4, <3>6 DEF DataStep, Assembled
  <2>6. ns' \in {"none", "aio0", "raid0"}
    BY <1>5, <2>1 DEF Export
  <2> QED BY <2>3, <2>4, <2>5, <2>6
<1> QED BY <1>1, <1>2, <1>3, <1>4, <1>5 DEF SidecarStep

(* A handler detaches at most one member at a time, and adds none.         *)
LEMMA HandlerStepData == ASSUME IndInv, NEW h \in Handlers, HandlerStep(h) PROVE DataStep
<1>0. TypeOK /\ (ns = "raid0" => raid # {})
  BY DEF IndInv, ArrayOK
<1>1. CASE UNCHANGED <<reps, spdk, behind>>
  <2>1. Receiving' = Receiving
    BY <1>1, SameReceiving DEF spdk, Alive
  <2> QED BY <1>1, <2>1 DEF DataStep
<1>2. CASE ReconfigureRemoves(h)
  BY <1>0, <1>1, <1>2, RemovesNothing DEF ReconfigureRemoves, spdk, content
<1>3. CASE ReconfigureSkips(h)
  BY <1>1, <1>3 DEF ReconfigureSkips, content
<1>4. CASE ReconfigureAttaches(h)
  <2>1. posts[h].list \in Lists /\ posts[h].k \in 1 .. (MaxLen + 1)
    BY <1>0 DEF TypeOK, Posts
  <2>2. posts[h].k \in Slots /\ posts[h].list[posts[h].k] \in Attachment
    BY <1>4, <2>1, CountUp DEF ReconfigureAttaches, Attaching
  <2>3. /\ ~IsLocal(posts[h].list[posts[h].k]) /\ UNCHANGED <<reps, pod, behind>>
        /\ AttachNVMeController(posts[h].k, posts[h].list[posts[h].k])
    BY <1>4 DEF ReconfigureAttaches, Skips, content
  <2> QED BY <2>2, <2>3, OneLeaves DEF DataStep, Fewer
<1>5. CASE ReconfigureAdds(h)
  BY <1>0, <1>1, <1>5, AddsNothing DEF spdk
<1>6. CASE ReconfigureDone(h)
  BY <1>1, <1>6 DEF ReconfigureDone, content
<1> QED BY <1>2, <1>3, <1>4, <1>5, <1>6 DEF HandlerStep

(* Writes reach every copy that is served; a replica that stops is no      *)
(* longer served, and one that comes back formatted is not.                *)
LEMMA EnvironmentData == IndInv /\ Environment => DataStep
<1> SUFFICES ASSUME IndInv, Environment PROVE DataStep
  OBVIOUS
<1>0. TypeOK
  BY DEF IndInv
<1>a. \A p \in Slots : ctrl[p] # NoReplica =>
         ctrl[p].name \in Replicas /\ ctrl[p].name # LocalReplica /\ ctrl[p].addr \in Nat
         /\ ctrl[p].addr <= reps[ctrl[p].name].at
  BY <1>0, ControllerNames DEF IndInv, ControllersOK
<1>b. ASSUME \A q \in Replicas : reps'[q].up = reps[q].up /\ reps'[q].at = reps[q].at,
             UNCHANGED spdk
      PROVE  Receiving' = Receiving
  BY <1>a, <1>b, SameReceiving DEF spdk, Alive
<1>1. CASE UNCHANGED <<reps, spdk, content>>
  BY <1>1, <1>b DEF DataStep, content
<1>2. ASSUME NEW l, Edit(l) PROVE DataStep
  BY <1>1, <1>2 DEF Edit
<1>3. ASSUME NEW r \in Replicas, AttachReplica(r) PROVE DataStep
  BY <1>2, <1>3 DEF AttachReplica
<1>4. ASSUME NEW p \in DOMAIN list, DetachReplica(p) PROVE DataStep
  BY <1>2, <1>4 DEF DetachReplica
<1>5. ASSUME NEW r \in Replicas, ReplicaPublishes(r) \/ ReprovisionReplica(r) PROVE DataStep
  <2>1. PICK x : reps' = [reps EXCEPT ![r].pub = x]
    BY <1>5 DEF ReplicaPublishes, ReprovisionReplica
  <2>2. \A q \in Replicas : reps'[q].up = reps[q].up /\ reps'[q].at = reps[q].at
    BY <1>0, <2>1 DEF TypeOK
  <2>3. Receiving' = Receiving
    BY <1>5, <1>b, <2>2 DEF ReplicaPublishes, ReprovisionReplica
  <2>4. CASE ReplicaPublishes(r)
    BY <2>3, <2>4 DEF ReplicaPublishes, content, DataStep
  <2>5. CASE ReprovisionReplica(r)
    <3>1. behind' = behind \/ behind' = behind \cup {r}
      BY <2>5 DEF ReprovisionReplica, Formatted
    <3> QED BY <2>3, <2>5, <3>1 DEF DataStep, LostItsData
  <2> QED BY <1>5, <2>4, <2>5
<1>6. ASSUME NEW r \in Replicas, ReplicaReturns(r) PROVE DataStep
  <2>1. ~reps[r].up /\ UNCHANGED spdk /\ (behind' = behind \/ behind' = behind \cup {r})
    BY <1>6 DEF ReplicaReturns, Formatted, content
  <2>2. r # LocalReplica
    BY <2>1 DEF IndInv, ControllersOK
  <2>3. PICK x : reps' = [reps EXCEPT ![r] = [up |-> TRUE, at |-> reps[r].at + 1, pub |-> x]]
    BY <1>6 DEF ReplicaReturns
  <2>4. reps'[r].at = reps[r].at + 1 /\ \A q \in Replicas \ {r} : reps'[q] = reps[q]
    BY <1>0, <2>3 DEF TypeOK
  <2>5. ASSUME NEW p \in Slots, ctrl[p] # NoReplica
        PROVE  Alive(ctrl[p]) <=> Alive(ctrl[p])'
    <3>0. ctrl' = ctrl
      BY <2>1 DEF spdk
    <3>1. CASE ctrl[p].name = r
      <4>1. ctrl[p].addr # reps[r].at + 1
        BY <1>a, <1>0, <2>5, <3>1, RepFacts
      <4> QED BY <2>1, <2>4, <3>0, <3>1, <4>1 DEF Alive
    <3>2. CASE ctrl[p].name # r
      BY <1>a, <2>4, <2>5, <3>0, <3>2 DEF Alive
    <3> QED BY <3>1, <3>2
  <2>6. Receiving' = Receiving
    BY <2>1, <2>5, SameReceiving DEF spdk
  <2>7. r \notin Receiving
    <3>1. \A b \in Answering \ {Aio} : ctrl[b].name # r
      BY <2>1 DEF Answering, Alive
    <3> QED BY <2>2, <3>1 DEF Receiving, Copies
  <2> QED BY <2>1, <2>6, <2>7 DEF DataStep, LostItsData
<1>7. ASSUME NEW r \in Replicas, ReplicaStops(r) PROVE DataStep
  <2>1. r # LocalReplica /\ UNCHANGED <<aio, ctrl, raid, ns, behind>>
    BY <1>7 DEF ReplicaStops, spdk, content
  <2>2. /\ ~reps'[r].up /\ \A q \in Replicas \ {r} : reps'[q] = reps[q]
    BY <1>0, <1>7 DEF ReplicaStops, TypeOK
  <2>3. \A b \in raid \ {Aio} : b \in Slots /\ ctrl[b] # NoReplica
    BY DEF IndInv, TypeOK, ArrayOK
  <2>4. \A b \in raid \ {Aio} :
           Alive(ctrl[b])' <=> Alive(ctrl[b]) /\ ctrl[b].name # r
    BY <1>a, <2>1, <2>2, <2>3 DEF Alive
  <2>5. Answering' = {b \in Answering : b = Aio \/ ctrl[b].name # r}
    BY <2>1, <2>4 DEF Answering
  <2>6. CASE ns = "raid0"
    <3>1. Receiving = Copies(Answering) /\ Receiving' = Copies({b \in Answering : b = Aio \/ ctrl[b].name # r})
      BY <2>1, <2>5, <2>6 DEF Receiving, Copies
    <3>2. Copies({b \in Answering : b = Aio \/ ctrl[b].name # r}) = Copies(Answering) \ {r}
      BY <2>1 DEF Copies
    <3> QED BY <2>1, <3>1, <3>2 DEF DataStep, Fewer
  <2>7. CASE ns # "raid0"
    <3>1. Receiving' = Receiving
      BY <2>1, <2>7 DEF Receiving
    <3> QED BY <2>1, <3>1 DEF DataStep
  <2> QED BY <2>6, <2>7
<1>8. CASE SidecarCrashes \/ PostTimesOut \/ ControllerRestarts \/ PodUnread
  BY <1>1, <1>8 DEF SidecarCrashes, PostTimesOut, ControllerRestarts, PodUnread
<1>9. CASE SPDKRestarts \/ PodLost
  <2>1. ns' = "none" /\ behind' = behind
    BY <1>9 DEF SPDKRestarts, PodLost, SPDKEmpty, content
  <2> QED BY <2>1 DEF Receiving, DataStep, Fewer
<1>10. CASE ClientWrites
  <2>1. /\ UNCHANGED <<reps, ctrl>> /\ Receiving # {} /\ raid' = Answering
        /\ ns' = IF ns = "raid0" /\ Answering = {} THEN "none" ELSE ns
        /\ behind' = behind \cup (Replicas \ Receiving)
    BY <1>10 DEF ClientWrites, ArrayBecomes
  <2>2. ns' = ns
    BY <2>1 DEF Receiving, Copies
  <2>3. Answering' = Answering
    BY <2>1 DEF Answering, Alive
  <2>4. Receiving' = Receiving
    BY <2>1, <2>2, <2>3 DEF Receiving, Copies
  <2> QED BY <2>1, <2>4 DEF DataStep, WrittenTo
<1> QED BY <1>3, <1>4, <1>5, <1>6, <1>7, <1>8, <1>9, <1>10 DEF Environment

(* Every step does to the copies what a step of the mirror does.           *)
LEMMA StepData == IndInv /\ [Next]_vars => DataStep
<1> SUFFICES ASSUME IndInv, [Next]_vars PROVE DataStep
  OBVIOUS
<1>1. CASE UNCHANGED <<reps, spdk, content>>
  <2>1. Receiving' = Receiving
    BY <1>1, SameReceiving DEF spdk, Alive
  <2> QED BY <1>1, <2>1 DEF DataStep, content
<1>2. CASE EngineStep
  <2>1. UNCHANGED <<reps, spdk, content>>
    BY <1>2 DEF EngineStep, ReplicaStatus, CreateEnginePod, ForgetPod, SkipReconfigure,
                TriggerReconfigure, UpdateStatus, data
  <2> QED BY <1>1, <2>1
<1>3. CASE UNCHANGED vars
  BY <1>1, <1>3 DEF vars
<1> QED BY <1>2, <1>3, SidecarStepData, HandlerStepData, EnvironmentData DEF Next

(* The engine implements a mirror: a write goes to every copy that stays,  *)
(* none joins while the volume is served unless it has been rebuilt, and   *)
(* an array is put together only where nothing is served.                  *)
THEOREM ImplementsMirror == Spec => IsMirror
<1>1. Init => Volume!MInit
  <2> SUFFICES ASSUME Init PROVE Receiving = {} /\ behind = {}
    BY DEF Volume!MInit
  <2> QED BY DEF Init, Receiving
<1>2. IndInv /\ [Next]_vars => [Volume!MNext]_(Volume!mvars)
  <2> SUFFICES ASSUME IndInv, [Next]_vars PROVE [Volume!MNext]_(Volume!mvars)
    OBVIOUS
  <2>1. DataStep
    BY StepData
  <2>2. CASE Receiving' = Receiving /\ behind' = behind
    BY <2>2 DEF Volume!mvars
  <2>3. CASE Fewer
    BY <2>3 DEF Fewer, Volume!MNext, Volume!Stop, Volume!Leave
  <2>4. CASE Assembled
    BY <2>4 DEF Assembled, Volume!MNext, Volume!Build
  <2>5. CASE WrittenTo
    BY <2>5 DEF WrittenTo, Volume!MNext, Volume!ClientWrites
  <2>6. CASE LostItsData
    BY <2>6 DEF LostItsData, Volume!MNext, Volume!Overwritten
  <2> QED BY <2>1, <2>2, <2>3, <2>4, <2>5, <2>6 DEF DataStep
<1> QED BY <1>1, <1>2, Invariance, PTL DEF Spec, IsMirror, Volume!MSpec

(* Copies that agree go on agreeing for as long as the volume is served,   *)
(* unless the file of one of them is formatted again.                      *)
THEOREM CopiesStayInSync == Spec => StaysInSync
<1>1. IndInv /\ [Next]_vars =>
         (Receiving # {} /\ Volume!InSync /\ ~(\E r \in Replicas : ReprovisionReplica(r))
             => Volume!InSync')
  <2> SUFFICES ASSUME IndInv, [Next]_vars, Receiving # {}, Volume!InSync,
                      ~(\E r \in Replicas : ReprovisionReplica(r))
               PROVE  Volume!InSync'
    OBVIOUS
  <2>1. DataStep
    BY StepData
  <2>2. Receiving \cap behind = {}
    BY DEF Volume!InSync
  <2>3. Receiving' \cap behind' = {}
    BY <2>1, <2>2 DEF DataStep, Fewer, Assembled, WrittenTo, LostItsData
  <2> QED BY <2>3 DEF Volume!InSync
<1> QED BY <1>1, Invariance, PTL DEF Spec, StaysInSync
=============================================================================
