-------------------------- MODULE NodeStaging_proofs --------------------------
(***************************************************************************)
(* Proofs about the CSI node service, for any pods, any number of calls at *)
(* work in the driver, and any number of failures and moves of the engine. *)
(***************************************************************************)
EXTENDS NodeStaging, FiniteSetTheorems, SequenceTheorems, TLAPS

-----------------------------------------------------------------------------
(* The inductive invariant.                                                *)

(* What is mounted at a path, other than the node's own disk.              *)
Mnt == Nat \X Nat \X BOOLEAN

(* Nothing at a path is from device d; nothing beneath what is on top.     *)
NoneOf(s, d) == \A i \in 1 .. Len(s) : s[i][1] # d
NoneBeneath(s, d) == \A i \in 1 .. (Len(s) - 1) : s[i][1] # d

(* Controllers have a device; NFS uses neither.                            *)
KernelOK == (ctrls # {} => dev # 0) /\ (mode = "nfs" => dev = 0)

(* Where a call of each kind can be.                                       *)
CallOK(c) ==
    /\ calls[c].op = "publish" <=> calls[c].pod \in Pods
    /\ calls[c].pc = "bind" => calls[c].op = "publish"
    /\ calls[c].pc = "nfs" => calls[c].op = "stage" /\ mode = "nfs"
    /\ mode = "nfs" => calls[c].pc \in {"free", "nfs", "bind"}
CallsOK == \A c \in Calls : CallOK(c)

(* The device that is connected is mounted at the staging path only once.  *)
StageOK == dev # 0 => NoneBeneath(stage, dev)

(* The kubelet waits for a call that is at work.                           *)
WaitOK ==
    /\ kub.call # 0 => /\ calls[kub.call].pc # "free"
                       /\ calls[kub.call].op = "publish" => kub.staged
    /\ mode = "nfs" /\ kub.staged => stage # <<>>

(* What a call that has the driver to itself finds.                        *)
Finds(c) ==
    /\ calls[c].pc \in {"remove", "mount"} /\ ~calls[c].failed /\ dev # 0 =>
          NoneOf(stage, dev)
    /\ calls[c].pc = "mkfs" /\ ~calls[c].failed /\ There(calls[c].dev) /\ disk # "blank" =>
          UUIDTaken(dev) \/ MountedFrom(dev) # {}
    /\ calls[c].pc = "bind" /\ mode # "nfs" =>
          stage # <<>> /\ (dev # 0 => Top(stage) = <<dev, gen, calls[c].ro>>)
AloneOK ==
    \A c \in Calls : calls[c].alone =>
        Finds(c) /\ \A b \in Calls : b # c => calls[b].pc = "free"

IndInv == TypeOK /\ KernelOK /\ CallsOK /\ StageOK /\ WaitOK /\ AloneOK

-----------------------------------------------------------------------------
(* Devices and UUIDs.                                                      *)

(* The image of a finite set is finite.                                    *)
LEMMA ImageFinite ==
    ASSUME NEW S, IsFiniteSet(S), NEW f, DOMAIN f = S
    PROVE  IsFiniteSet({f[x] : x \in S})
<1> DEFINE T == {f[x] : x \in S}
           g == [x \in S |-> f[x]]
<1>1. g \in Surjection(S, T)
  BY DEF Surjection
<1> QED BY <1>1, FS_Surjection

(* Fresh gives a positive number that is not in use.                       *)
LEMMA FreshFacts ==
    ASSUME NEW used, IsFiniteSet(used)
    PROVE  Fresh(used) \in Nat /\ Fresh(used) # 0 /\ Fresh(used) \notin used
<1> DEFINE n == Cardinality(used) + 1
<1>1. Cardinality(used) \in Nat
  BY FS_CardinalityType
<1>2. \E x \in 1 .. n : x \notin used
  <2> SUFFICES ASSUME \A x \in 1 .. n : x \in used PROVE FALSE
    OBVIOUS
  <2>1. (1 .. n) \in SUBSET used
    OBVIOUS
  <2>2. Cardinality(1 .. n) <= Cardinality(used)
    BY <2>1, FS_Subset
  <2>3. Cardinality(1 .. n) = n
    BY <1>1, FS_Interval
  <2> QED BY <2>2, <2>3, <1>1
<1>3. Fresh(used) \in 1 .. n /\ Fresh(used) \notin used
  BY <1>2 DEF Fresh
<1> QED BY <1>1, <1>3

(* What is mounted somewhere is finite.                                    *)
LEMMA OnFinite ==
    ASSUME NEW S, NEW s \in Seq(S)
    PROVE  IsFiniteSet(On(s))
<1>1. DOMAIN s = 1 .. Len(s) /\ Len(s) \in Nat
  BY LenProperties
<1>2. IsFiniteSet(1 .. Len(s))
  BY <1>1, FS_Interval
<1>3. IsFiniteSet({s[i] : i \in 1 .. Len(s)})
  BY <1>1, <1>2, ImageFinite
<1> QED BY <1>1, <1>3 DEF On

(* The node has finitely many mounts.                                      *)
LEMMA MountsFinite == TypeOK => IsFiniteSet(Mounts \ {Host})
<1> SUFFICES ASSUME TypeOK PROVE IsFiniteSet(Mounts \ {Host})
  OBVIOUS
<1> DEFINE f == [p \in Pods |-> On(bound[p])]
           A == {f[p] : p \in Pods}
<1>1. IsFiniteSet(On(stage))
  <2>1. stage \in Seq(Mnt)
    BY DEF TypeOK, Mnt
  <2> QED BY <2>1, OnFinite
<1>2. \A p \in Pods : IsFiniteSet(On(bound[p]))
  <2>1. \A p \in Pods : bound[p] \in Seq(Mnt \cup {Host})
    BY DEF TypeOK, Mnt
  <2> QED BY <2>1, OnFinite
<1>3. IsFiniteSet(A)
  <2>1. DOMAIN f = Pods /\ IsFiniteSet(Pods)
    BY NodeAssumption
  <2> HIDE DEF f
  <2> QED BY <2>1, ImageFinite
<1>4. IsFiniteSet(UNION A)
  BY <1>2, <1>3, FS_UNION
<1>5. UNION A = UNION {On(bound[p]) : p \in Pods}
  OBVIOUS
<1>6. IsFiniteSet(Mounts)
  BY <1>1, <1>4, <1>5, FS_Union DEF Mounts
<1> QED
  <2>1. Mounts \ {Host} \in SUBSET Mounts
    OBVIOUS
  <2> QED BY <1>6, <2>1, FS_Subset

(* A new device is not 0, not one a call holds, and nothing is mounted     *)
(* from it.                                                                *)
LEMMA NewDeviceFacts ==
    TypeOK => /\ NewDevice \in Nat /\ NewDevice # 0
              /\ \A c \in Calls : calls[c].dev # NewDevice
              /\ NoneOf(stage, NewDevice)
<1> SUFFICES ASSUME TypeOK
             PROVE  /\ NewDevice \in Nat /\ NewDevice # 0
                    /\ \A c \in Calls : calls[c].dev # NewDevice
                    /\ NoneOf(stage, NewDevice)
  OBVIOUS
<1> DEFINE M == Mounts \ {Host}
           f == [m \in M |-> m[1]]
           g == [c \in Calls |-> calls[c].dev]
           A == {f[m] : m \in M}
           B == {g[c] : c \in Calls}
<1>1. IsFiniteSet(A)
  BY MountsFinite, ImageFinite
<1>2. IsFiniteSet(B)
  <2>1. IsFiniteSet(Calls)
    BY NodeAssumption, FS_Interval DEF Calls
  <2> QED BY <2>1, ImageFinite
<1>3. IsFiniteSet(A \cup B)
  BY <1>1, <1>2, FS_Union
<1>4. A = {m[1] : m \in M} /\ B = {calls[c].dev : c \in Calls}
  OBVIOUS
<1>5. NewDevice = Fresh(A \cup B)
  BY <1>4 DEF NewDevice
<1>6. NewDevice \in Nat /\ NewDevice # 0 /\ NewDevice \notin A \cup B
  BY <1>3, <1>5, FreshFacts
<1>7. ASSUME NEW i \in 1 .. Len(stage) PROVE stage[i][1] \in A
  <2>1. stage \in Seq(Mnt)
    BY DEF TypeOK, Mnt
  <2>2. stage[i] \in Mnt /\ stage[i] \in On(stage)
    BY <2>1, LenProperties, ElementOfSeq DEF On
  <2>3. stage[i] # Host
    BY <2>2, NodeAssumption DEF Mnt
  <2> QED BY <1>4, <2>2, <2>3 DEF Mounts
<1> QED BY <1>4, <1>6, <1>7 DEF NoneOf

(* A new UUID is a number.                                                 *)
LEMMA NewUUIDFacts == TypeOK => NewUUID \in Nat
<1> SUFFICES ASSUME TypeOK PROVE NewUUID \in Nat
  OBVIOUS
<1> DEFINE M == Mounts \ {Host}
           f == [m \in M |-> m[2]]
           A == {f[m] : m \in M}
<1>1. IsFiniteSet(A)
  BY MountsFinite, ImageFinite
<1>2. A = {m[2] : m \in M}
  OBVIOUS
<1>3. NewUUID = Fresh(A)
  BY <1>2 DEF NewUUID
<1> QED BY <1>1, <1>3, FreshFacts

-----------------------------------------------------------------------------
(* Mounts at a path.                                                       *)

(* Taking the last mount away.                                             *)
LEMMA PopFacts ==
    ASSUME NEW S, NEW s \in Seq(S)
    PROVE  /\ Pop(s) \in Seq(S)
           /\ \A d : NoneBeneath(s, d) => NoneOf(Pop(s), d)
<1>1. Len(s) \in Nat /\ \A i \in 1 .. Len(s) : s[i] \in S
  BY LenProperties, ElementOfSeq
<1>2. s # <<>> => Len(s) # 0
  BY EmptySeq
<1>3. CASE s = <<>>
  <2>1. Pop(s) = s /\ Len(s) = 0
    BY <1>3 DEF Pop
  <2> QED BY <2>1 DEF NoneOf
<1>4. CASE s # <<>>
  <2>1. Pop(s) = SubSeq(s, 1, Len(s) - 1)
    BY <1>4 DEF Pop
  <2>2. \A i \in 1 .. (Len(s) - 1) : s[i] \in S
    BY <1>1
  <2>3. /\ SubSeq(s, 1, Len(s) - 1) \in Seq(S)
        /\ Len(SubSeq(s, 1, Len(s) - 1)) = Len(s) - 1
        /\ \A i \in 1 .. (Len(s) - 1) : SubSeq(s, 1, Len(s) - 1)[i] = s[i]
    <3>1. \A i \in 1 .. (Len(s) - 1) : 1 + i - 1 = i
      BY <1>1
    <3>2. 1 <= Len(s) - 1 + 1 /\ (Len(s) - 1) - 1 + 1 = Len(s) - 1
      BY <1>1, <1>2, <1>4
    <3> QED BY <1>1, <1>2, <1>4, <2>2, <3>1, <3>2, SubSeqProperties
  <2> QED BY <2>1, <2>3 DEF NoneOf, NoneBeneath
<1> QED BY <1>3, <1>4

(* Mounting on top.                                                        *)
LEMMA PushFacts ==
    ASSUME NEW S, NEW s \in Seq(S), NEW m \in S
    PROVE  /\ Append(s, m) \in Seq(S) /\ Append(s, m) # <<>>
           /\ Top(Append(s, m)) = m
           /\ \A d : NoneOf(s, d) => NoneBeneath(Append(s, m), d)
<1>1. Len(s) \in Nat /\ Len(Append(s, m)) = Len(s) + 1
      /\ Append(s, m)[Len(s) + 1] = m /\ Append(s, m) # <<>> /\ Append(s, m) \in Seq(S)
      /\ \A i \in 1 .. Len(s) : Append(s, m)[i] = s[i]
  BY LenProperties, AppendProperties
<1> QED BY <1>1 DEF Top, NoneOf, NoneBeneath

(* A position is the last one, or before it.                               *)
LEMMA LastOrBefore == \A n \in Nat : \A i \in 1 .. n : i = n \/ i \in 1 .. (n - 1)
OBVIOUS

(* What is on top is one of the mounts.                                    *)
LEMMA TopFacts ==
    ASSUME NEW S, NEW s \in Seq(S), s # <<>>
    PROVE  /\ Top(s) \in S /\ Top(s) \in On(s)
           /\ \A d : NoneOf(s, d) <=> NoneBeneath(s, d) /\ Top(s)[1] # d
<1>1. Len(s) \in Nat /\ DOMAIN s = 1 .. Len(s)
  BY LenProperties
<1>2. Len(s) # 0
  BY EmptySeq
<1>3. Len(s) \in 1 .. Len(s)
  BY <1>1, <1>2
<1>4. s[Len(s)] \in S
  BY <1>3, ElementOfSeq
<1>5. \A i \in 1 .. Len(s) : i = Len(s) \/ i \in 1 .. (Len(s) - 1)
  BY <1>1, LastOrBefore, Zenon
<1>6. \A i \in 1 .. (Len(s) - 1) : i \in 1 .. Len(s)
  BY <1>1
<1>7. Top(s) \in S /\ Top(s) \in On(s)
  BY <1>1, <1>3, <1>4 DEF Top, On
<1>8. \A d : NoneOf(s, d) <=> NoneBeneath(s, d) /\ Top(s)[1] # d
  <2> DEFINE n == Len(s)
             I == 1 .. n
             J == 1 .. (n - 1)
  <2>1. n \in I /\ (\A i \in I : i = n \/ i \in J) /\ (\A i \in J : i \in I)
    BY <1>3, <1>5, <1>6
  <2> HIDE DEF n, I, J
  <2>2. \A d : (\A i \in I : s[i][1] # d) <=> (\A i \in J : s[i][1] # d) /\ s[n][1] # d
    BY <2>1, Zenon
  <2> QED BY <2>2 DEF Top, NoneOf, NoneBeneath, n, I, J
<1> QED BY <1>7, <1>8

(* A path without mounts of a device has none beneath the top.             *)
LEMMA NoneFacts ==
    ASSUME NEW S, NEW s \in Seq(S), NEW d, NoneOf(s, d)
    PROVE  NoneBeneath(s, d)
<1>1. \A i \in 1 .. (Len(s) - 1) : i \in 1 .. Len(s)
  BY LenProperties
<1> QED BY <1>1 DEF NoneOf, NoneBeneath

-----------------------------------------------------------------------------
(* Calls.                                                                  *)

PCs == {"free", "find", "tryMount", "clear", "connect", "poll", "unmount", "remove",
        "mount", "mkfs", "remount", "bind", "nfs"}
Call == [pc : PCs, op : {"stage", "publish"}, pod : Pods \cup {Host}, ro : BOOLEAN,
         addr : Addrs \cup {0}, dev : Nat, tries : 0 .. 2, alone : BOOLEAN,
         failed : BOOLEAN]
NeedsDevice == {"tryMount", "unmount", "remove", "mount", "mkfs", "remount"}

(* The other calls; the parts of a call that stay while it is at work.     *)
SameBut(c) == \A b \in Calls : b # c => calls'[b] = calls[b]
Like(q, r) == q.op = r.op /\ q.pod = r.pod /\ q.ro = r.ro /\ q.alone = r.alone
CallTypes(C) == C \in [Calls -> Call] /\ \A b \in Calls : C[b].pc \in NeedsDevice => C[b].dev # 0

(* The part of TypeOK about calls.                                         *)
LEMMA TypeOfCalls == TypeOK => CallTypes(calls)
BY DEF TypeOK, CallTypes, Call, PCs, NeedsDevice

(* A free slot.                                                            *)
LEMMA FreeFacts ==
    /\ Free \in Call /\ Free.pc = "free" /\ Free.op = "stage" /\ Free.pod \notin Pods
    /\ ~Free.alone /\ Free.pc \notin NeedsDevice
<1>1. "free" \in PCs /\ 0 \in 0 .. 2
  BY DEF PCs
<1>2. Free \in Call
  BY <1>1, Zenon DEF Free, Call
<1>3. Free.pod = Host /\ Host \notin Pods
  BY NodeAssumption DEF Free
<1>4. Free.pc = "free" /\ Free.op = "stage" /\ ~Free.alone
  BY Zenon DEF Free
<1>5. "free" \notin NeedsDevice
  BY DEF NeedsDevice
<1> QED BY <1>2, <1>3, <1>4, <1>5

(* A call goes on to another step,                                         *)
LEMMA EditPC ==
    ASSUME NEW r \in Call, NEW pc \in PCs, NEW q, q = [r EXCEPT !.pc = pc]
    PROVE  q \in Call /\ q.pc = pc /\ q.dev = r.dev /\ q.failed = r.failed /\ Like(q, r)
BY Zenon DEF Call, Like

WithDev(r, pc, d) == [r EXCEPT !.pc = pc, !.dev = d]

(* takes or drops a device,                                                *)
LEMMA EditDev ==
    ASSUME NEW r \in Call, NEW pc \in PCs, NEW d \in Nat
    PROVE  /\ WithDev(r, pc, d) \in Call /\ WithDev(r, pc, d).pc = pc
           /\ WithDev(r, pc, d).dev = d /\ Like(WithDev(r, pc, d), r)
BY Zenon DEF Call, Like, WithDev

(* counts an attempt,                                                      *)
LEMMA EditTries ==
    ASSUME NEW r \in Call, NEW n \in 0 .. 2, NEW q, q = [r EXCEPT !.tries = n]
    PROVE  q \in Call /\ q.pc = r.pc /\ q.dev = r.dev /\ q.failed = r.failed /\ Like(q, r)
BY Zenon DEF Call, Like

(* notes a failure,                                                        *)
LEMMA EditFailed ==
    ASSUME NEW r \in Call, NEW pc \in PCs, NEW q, q = [r EXCEPT !.pc = pc, !.failed = TRUE]
    PROVE  q \in Call /\ q.pc = pc /\ q.dev = r.dev /\ q.failed /\ Like(q, r)
BY Zenon DEF Call, Like

(* or is joined by another.                                                *)
LEMMA EditAlone ==
    ASSUME NEW r \in Call, NEW q, q = [r EXCEPT !.alone = FALSE]
    PROVE  /\ q \in Call /\ q.pc = r.pc /\ q.op = r.op /\ q.pod = r.pod /\ q.dev = r.dev
           /\ ~q.alone
BY Zenon DEF Call

(* A call that comes in.                                                   *)
NewCall(pc, op, p, ro, a, al) ==
    [Free EXCEPT !.pc = pc, !.op = op, !.pod = p, !.ro = ro, !.addr = a, !.alone = al]

(* It is a call.                                                           *)
LEMMA NewCallFacts ==
    ASSUME NEW pc \in PCs, NEW op \in {"stage", "publish"}, NEW p \in Pods \cup {Host},
           NEW ro \in BOOLEAN, NEW a \in Addrs \cup {0}, NEW al \in BOOLEAN,
           NEW q, q = NewCall(pc, op, p, ro, a, al)
    PROVE  q \in Call /\ q.pc = pc /\ q.op = op /\ q.pod = p /\ q.alone = al
<1>1. Free \in Call
  BY FreeFacts
<1> QED BY <1>1, Zenon DEF Call, NewCall

(* One call is changed.                                                    *)
LEMMA PutFacts ==
    ASSUME TypeOK, NEW c \in Calls, NEW r \in Call, r.pc \in NeedsDevice => r.dev # 0,
           calls' = [calls EXCEPT ![c] = r]
    PROVE  CallTypes(calls') /\ SameBut(c) /\ calls'[c] = r
<1>1. calls \in [Calls -> Call] /\ \A b \in Calls : calls[b].pc \in NeedsDevice => calls[b].dev # 0
  BY TypeOfCalls DEF CallTypes
<1>2. calls'[c] = r /\ SameBut(c) /\ calls' \in [Calls -> Call]
  BY <1>1 DEF SameBut
<1> QED BY <1>1, <1>2 DEF CallTypes, SameBut

(* All calls are joined by another.                                        *)
LEMMA JoinedFacts ==
    ASSUME TypeOK
    PROVE  /\ CallTypes(Joined)
           /\ \A b \in Calls : /\ Joined[b].pc = calls[b].pc /\ Joined[b].op = calls[b].op
                               /\ Joined[b].pod = calls[b].pod /\ ~Joined[b].alone
<1>1. calls \in [Calls -> Call] /\ \A b \in Calls : calls[b].pc \in NeedsDevice => calls[b].dev # 0
  BY TypeOfCalls DEF CallTypes
<1>2. ASSUME NEW b \in Calls
      PROVE  /\ Joined[b] \in Call /\ Joined[b].pc = calls[b].pc /\ Joined[b].op = calls[b].op
             /\ Joined[b].pod = calls[b].pod /\ Joined[b].dev = calls[b].dev
             /\ ~Joined[b].alone
  <2>1. calls[b] \in Call
    BY <1>1
  <2>2. Joined[b] = [calls[b] EXCEPT !.alone = FALSE]
    BY DEF Joined
  <2> QED BY <2>1, <2>2, EditAlone
<1>3. Joined = [b \in Calls |-> Joined[b]]
  BY Zenon DEF Joined
<1>4. Joined \in [Calls -> Call]
  BY <1>2, <1>3
<1> QED BY <1>1, <1>2, <1>4 DEF CallTypes

-----------------------------------------------------------------------------
(* Type correctness.                                                       *)

(* TypeOK without the calls, in the parts that actions change.             *)
ClusterTypes ==
    /\ mode \in {"rw", "ro", "nfs"} /\ eng \in Addrs /\ up \in BOOLEAN
    /\ ctx \in Addrs \cup {0} /\ comings \in SUBSET Pods /\ faults \in Nat
KubeletTypes ==
    /\ pods \in [Pods -> {"absent", "wanted", "running", "leaving"}]
    /\ kub \in [staged : BOOLEAN, call : Calls \cup {0}]
KernelTypes ==
    /\ ctrls \in SUBSET Addrs /\ dev \in Nat
    /\ stage \in Seq(Mnt) /\ bound \in [Pods -> Seq(Mnt \cup {Host})]
    /\ disk \in {"blank", "empty", "data", "lost"} /\ gen \in Nat

(* The parts make up TypeOK.                                               *)
LEMMA TypeParts ==
    TypeOK <=> CallTypes(calls) /\ ClusterTypes /\ KubeletTypes /\ KernelTypes
BY DEF TypeOK, CallTypes, Call, PCs, NeedsDevice, ClusterTypes, KubeletTypes, KernelTypes, Mnt

(* The same in the next state.                                             *)
LEMMA TypePartsNext ==
    CallTypes(calls') /\ ClusterTypes' /\ KubeletTypes' /\ KernelTypes' => TypeOK'
BY DEF TypeOK, CallTypes, Call, PCs, NeedsDevice, ClusterTypes, KubeletTypes, KernelTypes, Mnt

(* What is left alone by a step of the driver.                             *)
LEMMA OthersFacts ==
    TypeOK /\ UNCHANGED others => ClusterTypes' /\ mode' = mode
BY TypeParts DEF others, engine, ClusterTypes

(* What the device of the kernel is after a change of its controllers.     *)
LEMMA ControllersFacts ==
    ASSUME TypeOK, KernelOK, NEW cs \in SUBSET ctrls, Controllers(cs)
    PROVE  /\ ctrls' \in SUBSET Addrs /\ dev' \in Nat
           /\ dev' = dev \/ dev' = 0
           /\ ctrls' # {} => dev' # 0
BY DEF TypeOK, KernelOK, Controllers

-----------------------------------------------------------------------------
(* Steps of the driver.                                                    *)

(* The parts of the invariant, to be cited together.                       *)
LEMMA Parts ==
    IndInv => /\ TypeOK /\ KernelOK /\ CallsOK /\ StageOK /\ WaitOK /\ AloneOK
              /\ CallTypes(calls) /\ ClusterTypes /\ KubeletTypes /\ KernelTypes
              /\ kub.call \in Calls \cup {0}
BY TypeParts DEF IndInv, TypeOK

(* A call goes on: no other call is alone, and what is left to show is     *)
(* what this one finds if it is.                                           *)
LEMMA GoesOn ==
    ASSUME IndInv, NEW c \in Calls, NEW r \in Call, calls' = [calls EXCEPT ![c] = r],
           calls[c].pc \notin {"free", "bind", "nfs"}, r.pc \notin {"free", "nfs"},
           r.pc \in NeedsDevice => r.dev # 0, r.pc = "bind" => r.op = "publish",
           Like(r, calls[c]), UNCHANGED kubelet, mode' = mode, ClusterTypes', KernelTypes',
           ctrls' # {} => dev' # 0, StageOK', r.alone => Finds(c)'
    PROVE  IndInv'
<1>0. /\ TypeOK /\ KernelOK /\ CallsOK /\ StageOK /\ WaitOK /\ AloneOK /\ KubeletTypes
      /\ kub.call \in Calls \cup {0}
  BY Parts
<1>1. CallTypes(calls') /\ SameBut(c) /\ calls'[c] = r
  BY <1>0, PutFacts
<1>2. r.op = calls[c].op /\ r.pod = calls[c].pod /\ (r.alone => calls[c].alone)
  BY DEF Like
<1>3. mode # "nfs" /\ kub' = kub /\ pods' = pods
  BY <1>0 DEF CallsOK, CallOK, kubelet
<1>4. TypeOK'
  <2>1. KubeletTypes'
    BY <1>0, <1>3 DEF KubeletTypes
  <2> QED BY <1>1, <2>1, TypePartsNext
<1>5. KernelOK'
  BY <1>3 DEF KernelOK
<1>6. CallsOK'
  BY <1>0, <1>1, <1>2, <1>3 DEF CallsOK, CallOK, SameBut
<1>7. WaitOK'
  BY <1>0, <1>1, <1>2, <1>3 DEF WaitOK, SameBut
<1>8. AloneOK'
  <2> SUFFICES ASSUME NEW a \in Calls, calls'[a].alone
               PROVE  Finds(a)' /\ \A b \in Calls : b # a => calls'[b].pc = "free"
    BY DEF AloneOK
  <2>1. calls[a].alone
    BY <1>1, <1>2 DEF SameBut
  <2>2. \A b \in Calls : b # a => calls[b].pc = "free"
    BY <1>0, <2>1 DEF AloneOK
  <2>3. a = c
    BY <2>2
  <2> QED BY <1>1, <2>2, <2>3 DEF SameBut
<1> QED BY <1>4, <1>5, <1>6, <1>7, <1>8 DEF IndInv

(* A call returns: none of the others is alone.                            *)
LEMMA Returns ==
    ASSUME IndInv, NEW c \in Calls, NEW ok \in BOOLEAN, Return(c, ok),
           calls[c].pc # "free", mode' = mode, ClusterTypes', KernelTypes', KernelOK', StageOK',
           mode = "nfs" /\ (stage # <<>> \/ (ok /\ calls[c].op = "stage")) => stage' # <<>>
    PROVE  IndInv'
<1>0. /\ TypeOK /\ KernelOK /\ CallsOK /\ StageOK /\ WaitOK /\ AloneOK /\ KubeletTypes
      /\ kub.call \in Calls \cup {0}
  BY Parts
<1>1. CallTypes(calls') /\ SameBut(c) /\ calls'[c] = Free
  BY <1>0, FreeFacts, PutFacts DEF Return
<1>2. calls[c].op = "publish" => calls[c].pod \in Pods
  BY <1>0 DEF CallsOK, CallOK
<1>3. /\ kub' \in [staged : BOOLEAN, call : Calls \cup {0}]
      /\ kub.call = c => kub'.call = 0
      /\ kub.call # c => kub' = kub
      /\ kub'.staged => kub.staged \/ (ok /\ calls[c].op = "stage")
  <2>1. kub \in [staged : BOOLEAN, call : Calls \cup {0}]
    BY <1>0 DEF KubeletTypes
  <2> QED BY <2>1 DEF Return
<1>4. pods' \in [Pods -> {"absent", "wanted", "running", "leaving"}]
  <2>1. pods \in [Pods -> {"absent", "wanted", "running", "leaving"}]
    BY <1>0 DEF KubeletTypes
  <2> QED BY <1>2, <2>1 DEF Return
<1>5. TypeOK'
  BY <1>1, <1>3, <1>4, TypePartsNext DEF KubeletTypes
<1>6. CallsOK'
  BY <1>0, <1>1, FreeFacts DEF CallsOK, CallOK, SameBut
<1>7. WaitOK'
  <2>1. ASSUME kub'.call # 0
        PROVE  kub' = kub /\ kub.call \in Calls /\ calls'[kub.call] = calls[kub.call]
    BY <1>0, <1>1, <1>3, <2>1 DEF SameBut
  <2>2. mode = "nfs" /\ kub'.staged => stage' # <<>>
    <3>1. mode = "nfs" /\ kub.staged => stage # <<>>
      BY <1>0, Zenon DEF WaitOK
    <3> QED BY <1>3, <3>1, Zenon
  <2> QED BY <1>0, <2>1, <2>2 DEF WaitOK
<1>8. AloneOK'
  <2> SUFFICES ASSUME NEW a \in Calls, calls'[a].alone PROVE FALSE
    BY DEF AloneOK
  <2>1. a # c /\ calls[a].alone
    BY <1>1, FreeFacts DEF SameBut
  <2> QED BY <1>0, <2>1 DEF AloneOK
<1> QED BY <1>5, <1>6, <1>7, <1>8 DEF IndInv

(* A call returns without having touched the kernel.                       *)
LEMMA ReturnsOnly ==
    ASSUME IndInv, NEW c \in Calls, Return(c, FALSE), calls[c].pc # "free",
           UNCHANGED kernel, mode' = mode, ClusterTypes'
    PROVE  IndInv'
<1>1. KernelOK /\ StageOK /\ KernelTypes
  BY Parts
<1>2. KernelTypes' /\ KernelOK' /\ StageOK' /\ stage' = stage
  BY <1>1 DEF kernel, KernelTypes, KernelOK, StageOK
<1> QED BY <1>2, Returns

(* A call goes on towards a device, whatever becomes of the controllers.   *)
LEMMA TowardsDevice ==
    ASSUME IndInv, NEW c \in Calls, NEW r \in Call, calls' = [calls EXCEPT ![c] = r],
           calls[c].pc \notin {"free", "bind", "nfs"},
           r.pc \in {"find", "tryMount", "clear", "connect", "poll", "unmount", "remount"},
           r.pc \in NeedsDevice => r.dev # 0, Like(r, calls[c]),
           UNCHANGED <<stage, bound, kubelet>>, mode' = mode, ClusterTypes',
           disk' \in {"blank", "empty", "data", "lost"}, gen' \in Nat,
           ctrls' \in SUBSET Addrs, dev' \in Nat, ctrls' # {} => dev' # 0,
           dev' = dev \/ dev' = 0 \/ NoneOf(stage, dev')
    PROVE  IndInv'
<1>0. StageOK /\ KernelTypes
  BY Parts
<1>1. KernelTypes'
  BY <1>0 DEF KernelTypes
<1>2. StageOK'
  <2>1. stage \in Seq(Mnt) /\ stage' = stage
    BY <1>0 DEF KernelTypes
  <2> QED BY <1>0, <2>1, NoneFacts DEF StageOK
<1>3. Finds(c)'
  <2>1. calls'[c] = r
    BY Parts, TypeOfCalls DEF CallTypes
  <2> QED BY <2>1 DEF Finds
<1>4. r.pc \notin {"free", "nfs", "bind"}
  OBVIOUS
<1> QED BY <1>1, <1>2, <1>3, <1>4, GoesOn

(* The forms in which a call changes.                                      *)
LEMMA GoRecord ==
    ASSUME TypeOK, NEW c \in Calls, NEW pc \in PCs, Go(c, pc)
    PROVE  \E r \in Call : /\ calls' = [calls EXCEPT ![c] = r] /\ r.pc = pc
                          /\ r.dev = calls[c].dev /\ r.failed = calls[c].failed
                          /\ Like(r, calls[c])
<1> DEFINE r == [calls[c] EXCEPT !.pc = pc]
<1>1. calls[c] \in Call
  BY TypeOfCalls DEF CallTypes
<1>2. calls' = [calls EXCEPT ![c] = r]
  BY DEF Go
<1>3. r \in Call /\ r.pc = pc /\ r.dev = calls[c].dev /\ r.failed = calls[c].failed /\ Like(r, calls[c])
  BY <1>1, EditPC
<1> HIDE DEF r
<1> QED BY <1>2, <1>3

Move(c, pc, d) == calls' = [calls EXCEPT ![c].pc = pc, ![c].dev = d]

(* It takes or drops a device.                                             *)
LEMMA MoveRecord ==
    ASSUME TypeOK, NEW c \in Calls, NEW pc \in PCs, NEW d \in Nat,
           Move(c, pc, d)
    PROVE  \E r \in Call : /\ calls' = [calls EXCEPT ![c] = r] /\ r.pc = pc
                          /\ r.dev = d /\ Like(r, calls[c])
<1> DEFINE r == WithDev(calls[c], pc, d)
<1>1. calls[c] \in Call /\ calls \in [Calls -> Call]
  BY TypeOfCalls DEF CallTypes
<1>2. calls' = [calls EXCEPT ![c] = r]
  BY <1>1 DEF Move, WithDev
<1>3. r \in Call /\ r.pc = pc /\ r.dev = d /\ Like(r, calls[c])
  BY <1>1, EditDev
<1> HIDE DEF r
<1> QED BY <1>2, <1>3

Fail(c, pc) == calls' = [calls EXCEPT ![c].pc = pc, ![c].failed = TRUE]

(* One of its own calls of the kernel fails.                               *)
LEMMA FailRecord ==
    ASSUME TypeOK, NEW c \in Calls, NEW pc \in PCs,
           Fail(c, pc)
    PROVE  \E r \in Call : /\ calls' = [calls EXCEPT ![c] = r] /\ r.pc = pc
                          /\ r.dev = calls[c].dev /\ r.failed /\ Like(r, calls[c])
<1> DEFINE r == [calls[c] EXCEPT !.pc = pc, !.failed = TRUE]
<1>1. calls[c] \in Call /\ calls \in [Calls -> Call]
  BY TypeOfCalls DEF CallTypes
<1>2. calls' = [calls EXCEPT ![c] = r]
  BY <1>1 DEF Fail
<1>3. r \in Call /\ r.pc = pc /\ r.dev = calls[c].dev /\ r.failed /\ Like(r, calls[c])
  BY <1>1, EditFailed
<1> HIDE DEF r
<1> QED BY <1>2, <1>3

(* Looking for the device.                                                 *)
LEMMA FindStep ==
    ASSUME IndInv, NEW c \in Calls, FindExistingNVMEDevice(c)
    PROVE  IndInv'
<1>0. TypeOK /\ KernelOK /\ KernelTypes
  BY Parts
<1>1. /\ calls[c].pc = "find" /\ UNCHANGED <<kubelet, kernel, others>>
  BY DEF FindExistingNVMEDevice
<1>2. mode' = mode /\ ClusterTypes'
  BY <1>0, <1>1, OthersFacts
<1> DEFINE pc == IF Live THEN "tryMount" ELSE "connect"
           d == IF Live THEN dev ELSE 0
<1>3. pc \in PCs /\ d \in Nat /\ (pc \in NeedsDevice => d # 0) /\ pc \in {"tryMount", "connect"}
  BY <1>0 DEF KernelTypes, KernelOK, Live, PCs, NeedsDevice
<1>4. Move(c, pc, d)
  BY DEF FindExistingNVMEDevice, Move
<1> HIDE DEF pc, d
<1>5. PICK r \in Call : /\ calls' = [calls EXCEPT ![c] = r] /\ r.pc = pc
                       /\ r.dev = d /\ Like(r, calls[c])
  BY <1>0, <1>3, <1>4, MoveRecord
<1>6. /\ ctrls' \in SUBSET Addrs /\ dev' \in Nat /\ (ctrls' # {} => dev' # 0) /\ dev' = dev
      /\ disk' \in {"blank", "empty", "data", "lost"} /\ gen' \in Nat
      /\ UNCHANGED <<stage, bound>>
  BY <1>0, <1>1 DEF KernelTypes, KernelOK, kernel
<1> QED BY <1>1, <1>2, <1>3, <1>5, <1>6, TowardsDevice

(* A mount that succeeds.                                                  *)
LEMMA MountSucceeds ==
    ASSUME IndInv, NEW c \in Calls, calls[c].pc \notin {"free", "bind", "nfs"},
           CanStage(c), MountStage(c), Staged(c),
           UNCHANGED <<ctrls, dev, bound, disk, gen, others>>
    PROVE  IndInv'
<1>0. TypeOK /\ KernelOK /\ CallsOK /\ StageOK /\ KernelTypes /\ CallTypes(calls)
  BY Parts
<1>1. mode' = mode /\ ClusterTypes'
  BY <1>0, OthersFacts
<1>2. calls[c] \in Call /\ calls[c].dev = dev /\ dev # 0
      /\ (stage = <<>> \/ Top(stage)[1] # dev)
  BY <1>0 DEF CallTypes, CanStage, CanMount, There
<1>3. /\ calls[c].ro \in BOOLEAN /\ calls[c].op \in {"stage", "publish"}
      /\ <<dev, gen, calls[c].ro>> \in Mnt
  <2>1. calls[c].ro \in BOOLEAN /\ calls[c].op \in {"stage", "publish"}
    BY <1>2, Zenon DEF Call
  <2> QED BY <1>0, <2>1 DEF KernelTypes, Mnt
<1>4. stage \in Seq(Mnt) /\ stage' = Append(stage, <<dev, gen, calls[c].ro>>)
  BY <1>0, <1>2 DEF MountStage, KernelTypes
<1>5. NoneOf(stage, dev)
  <2>1. CASE stage = <<>>
    BY <2>1 DEF NoneOf
  <2>2. CASE stage # <<>>
    BY <1>0, <1>2, <1>4, <2>2, TopFacts DEF StageOK
  <2> QED BY <2>1, <2>2
<1>6. /\ stage' \in Seq(Mnt) /\ stage' # <<>> /\ Top(stage') = <<dev, gen, calls[c].ro>>
      /\ NoneBeneath(stage', dev)
  <2> DEFINE m == <<dev, gen, calls[c].ro>>
  <2>1. m \in Mnt /\ stage' = Append(stage, m)
    BY <1>3, <1>4
  <2> HIDE DEF m
  <2>2. stage' \in Seq(Mnt) /\ stage' # <<>> /\ Top(stage') = m /\ NoneBeneath(stage', dev)
    BY <1>4, <1>5, <2>1, PushFacts
  <2> QED BY <2>2 DEF m
<1>7. KernelTypes' /\ KernelOK' /\ StageOK'
  BY <1>0, <1>1, <1>6 DEF KernelTypes, KernelOK, StageOK
<1>8. CASE calls[c].op = "stage"
  <2>1. Return(c, TRUE)
    BY <1>8 DEF Staged
  <2> QED BY <1>1, <1>6, <1>7, <2>1, Returns
<1>9. CASE calls[c].op # "stage"
  <2>1. Go(c, "bind") /\ UNCHANGED kubelet /\ "bind" \in PCs \ NeedsDevice
    BY <1>9 DEF Staged, PCs, NeedsDevice
  <2>2. PICK r \in Call : /\ calls' = [calls EXCEPT ![c] = r] /\ r.pc = "bind"
                         /\ Like(r, calls[c])
    BY <1>0, <2>1, GoRecord
  <2>3. r.op = "publish" /\ r.ro = calls[c].ro
    BY <1>3, <1>9, <2>2 DEF Like
  <2>4. calls'[c] = r
    BY <1>0, <2>2 DEF CallTypes
  <2>5. Finds(c)'
    <3>1. Top(stage') = <<dev', gen', calls'[c].ro>>
      BY <1>6, <2>3, <2>4
    <3>2. calls'[c].pc = "bind"
      BY <2>2, <2>4
    <3> QED BY <1>6, <3>1, <3>2 DEF Finds
  <2> QED BY <1>0, <1>1, <1>7, <2>1, <2>2, <2>3, <2>5, GoesOn DEF KernelOK
<1> QED BY <1>8, <1>9

(* A call goes on without a change of the kernel, towards a device.        *)
LEMMA OnlyGoes ==
    ASSUME IndInv, NEW c \in Calls, NEW r \in Call, calls' = [calls EXCEPT ![c] = r],
           calls[c].pc \notin {"free", "bind", "nfs"},
           r.pc \in {"tryMount", "clear", "connect", "poll", "unmount"},
           r.pc \in NeedsDevice => r.dev # 0, Like(r, calls[c]),
           UNCHANGED <<kernel, kubelet>>, mode' = mode, ClusterTypes'
    PROVE  IndInv'
<1>0. KernelOK /\ KernelTypes
  BY Parts
<1>1. /\ ctrls' \in SUBSET Addrs /\ dev' \in Nat /\ (ctrls' # {} => dev' # 0) /\ dev' = dev
      /\ disk' \in {"blank", "empty", "data", "lost"} /\ gen' \in Nat
      /\ UNCHANGED <<stage, bound>>
  BY <1>0 DEF KernelTypes, KernelOK, kernel
<1> QED BY <1>1, TowardsDevice

(* The mount of a device that was there already.                           *)
LEMMA TryMountStep ==
    ASSUME IndInv, NEW c \in Calls, TryMount(c)
    PROVE  IndInv'
<1>0. TypeOK
  BY Parts
<1>1. calls[c].pc = "tryMount" /\ UNCHANGED <<ctrls, dev, bound, disk, gen, others>>
  BY DEF TryMount
<1>2. CASE CanStage(c)
  <2>1. MountStage(c) /\ Staged(c)
    BY <1>2 DEF TryMount
  <2> QED BY <1>1, <1>2, <2>1, MountSucceeds
<1>3. CASE ~CanStage(c)
  <2>1. Go(c, "clear") /\ UNCHANGED <<kernel, kubelet>>
    BY <1>1, <1>3 DEF TryMount, kernel
  <2>2. "clear" \in PCs \ NeedsDevice
    BY DEF PCs, NeedsDevice
  <2>3. PICK r \in Call : /\ calls' = [calls EXCEPT ![c] = r] /\ r.pc = "clear"
                         /\ Like(r, calls[c])
    BY <1>0, <2>1, <2>2, GoRecord
  <2>4. mode' = mode /\ ClusterTypes'
    BY <1>0, <1>1, OthersFacts
  <2> QED BY <1>1, <2>1, <2>2, <2>3, <2>4, OnlyGoes
<1> QED BY <1>2, <1>3

(* Deleting the controllers.                                               *)
LEMMA ClearStep ==
    ASSUME IndInv, NEW c \in Calls, ClearNVMeSubsystem(c)
    PROVE  IndInv'
<1>0. TypeOK /\ KernelOK /\ KernelTypes
  BY Parts
<1>1. /\ calls[c].pc = "clear" /\ Controllers({}) /\ Move(c, "connect", 0)
      /\ UNCHANGED <<stage, bound, disk, gen, kubelet, others>>
  BY DEF ClearNVMeSubsystem, Move
<1>2. /\ ctrls' \in SUBSET Addrs /\ dev' \in Nat /\ (ctrls' # {} => dev' # 0)
      /\ dev' = dev \/ dev' = 0
  BY <1>0, <1>1, ControllersFacts
<1>3. "connect" \in PCs \ NeedsDevice /\ 0 \in Nat
  BY DEF PCs, NeedsDevice
<1>4. PICK r \in Call : calls' = [calls EXCEPT ![c] = r] /\ r.pc = "connect" /\ Like(r, calls[c])
  BY <1>0, <1>1, <1>3, MoveRecord
<1>5. mode' = mode /\ ClusterTypes'
  BY <1>0, <1>1, OthersFacts
<1>6. disk' \in {"blank", "empty", "data", "lost"} /\ gen' \in Nat
  BY <1>0, <1>1 DEF KernelTypes
<1> QED BY <1>1, <1>2, <1>3, <1>4, <1>5, <1>6, TowardsDevice

(* Connecting while there is a controller for the address.                 *)
LEMMA InProgressStep ==
    ASSUME IndInv, NEW c \in Calls, ConnectInProgress(c)
    PROVE  IndInv'
<1>0. TypeOK /\ KernelOK /\ KernelTypes /\ CallTypes(calls)
  BY Parts
<1>1. calls[c].pc = "connect" /\ UNCHANGED <<stage, bound, disk, gen, others>>
  BY DEF ConnectInProgress
<1>5. mode' = mode /\ ClusterTypes'
  BY <1>0, <1>1, OthersFacts
<1>2. CASE calls[c].tries < 2
  <2>1. /\ Controllers({}) /\ calls' = [calls EXCEPT ![c].tries = @ + 1]
        /\ UNCHANGED kubelet
    BY <1>2 DEF ConnectInProgress
  <2>2. /\ ctrls' \in SUBSET Addrs /\ dev' \in Nat /\ (ctrls' # {} => dev' # 0)
        /\ dev' = dev \/ dev' = 0
    BY <1>0, <2>1, ControllersFacts
  <2>3. PICK r \in Call : calls' = [calls EXCEPT ![c] = r] /\ r.pc = "connect" /\ Like(r, calls[c])
    <3> DEFINE n == calls[c].tries + 1
               r == [calls[c] EXCEPT !.tries = n]
    <3>1. calls[c] \in Call /\ calls \in [Calls -> Call]
      BY <1>0 DEF CallTypes
    <3>2. calls[c].tries \in 0 .. 2
      BY <3>1, Zenon DEF Call
    <3>3. n \in 0 .. 2
      BY <1>2, <3>2
    <3>4. calls' = [calls EXCEPT ![c] = r]
      BY <2>1, <3>1
    <3> HIDE DEF n
    <3>5. r \in Call /\ r.pc = calls[c].pc /\ Like(r, calls[c])
      BY <3>1, <3>3, EditTries
    <3> HIDE DEF r
    <3> QED BY <1>1, <3>4, <3>5
  <2>4. "connect" \notin NeedsDevice
    BY DEF NeedsDevice
  <2>5. disk' \in {"blank", "empty", "data", "lost"} /\ gen' \in Nat
    BY <1>0, <1>1 DEF KernelTypes
  <2> QED BY <1>1, <1>5, <2>1, <2>2, <2>3, <2>4, <2>5, TowardsDevice
<1>3. CASE ~(calls[c].tries < 2)
  <2>1. Return(c, FALSE) /\ UNCHANGED kernel
    BY <1>1, <1>3 DEF ConnectInProgress, kernel
  <2> QED BY <1>1, <1>5, <2>1, ReturnsOnly
<1> QED BY <1>2, <1>3

(* Connecting.                                                             *)
LEMMA ConnectStep ==
    ASSUME IndInv, NEW c \in Calls, Connect(c)
    PROVE  IndInv'
<1>0. TypeOK /\ KernelOK /\ KernelTypes
  BY Parts
<1>1. calls[c].pc = "connect" /\ UNCHANGED <<stage, bound, disk, gen, others>>
  BY DEF Connect
<1>5. mode' = mode /\ ClusterTypes'
  BY <1>0, <1>1, OthersFacts
<1>2. CASE up /\ calls[c].addr = eng
  <2>1. /\ ctrls' = ctrls \cup {eng} /\ dev' = (IF ctrls = {} THEN NewDevice ELSE dev)
        /\ Go(c, "poll") /\ UNCHANGED kubelet
    BY <1>2 DEF Connect
  <2>2. /\ ctrls' \in SUBSET Addrs /\ dev' \in Nat /\ dev' # 0
        /\ dev' = dev \/ NoneOf(stage, dev')
    <3>1. NewDevice \in Nat /\ NewDevice # 0 /\ NoneOf(stage, NewDevice)
      BY <1>0, NewDeviceFacts
    <3>2. ctrls \in SUBSET Addrs /\ eng \in Addrs /\ dev \in Nat /\ (ctrls # {} => dev # 0)
      BY <1>0 DEF TypeOK, KernelOK
    <3> QED BY <2>1, <3>1, <3>2
  <2>3. "poll" \in PCs \ NeedsDevice
    BY DEF PCs, NeedsDevice
  <2>4. PICK r \in Call : calls' = [calls EXCEPT ![c] = r] /\ r.pc = "poll" /\ Like(r, calls[c])
    BY <1>0, <2>1, <2>3, GoRecord
  <2>5. disk' \in {"blank", "empty", "data", "lost"} /\ gen' \in Nat
    BY <1>0, <1>1 DEF KernelTypes
  <2> QED BY <1>1, <1>5, <2>1, <2>2, <2>3, <2>4, <2>5, TowardsDevice
<1>3. CASE ~(up /\ calls[c].addr = eng)
  <2>1. Return(c, FALSE) /\ UNCHANGED kernel
    BY <1>1, <1>3 DEF Connect, kernel
  <2> QED BY <1>1, <1>5, <2>1, ReturnsOnly
<1> QED BY <1>2, <1>3

(* Waiting for the device.                                                 *)
LEMMA WaitStep ==
    ASSUME IndInv, NEW c \in Calls, WaitForDevice(c)
    PROVE  IndInv'
<1>0. TypeOK /\ KernelOK /\ KernelTypes
  BY Parts
<1>1. calls[c].pc = "poll" /\ UNCHANGED <<kernel, others>>
  BY DEF WaitForDevice
<1>5. mode' = mode /\ ClusterTypes'
  BY <1>0, <1>1, OthersFacts
<1>2. CASE Live
  <2>1. Move(c, "unmount", dev) /\ UNCHANGED kubelet
    BY <1>2 DEF WaitForDevice, Move
  <2>2. dev \in Nat /\ dev # 0 /\ "unmount" \in PCs
    BY <1>0, <1>2 DEF KernelTypes, KernelOK, Live, PCs
  <2>3. PICK r \in Call : /\ calls' = [calls EXCEPT ![c] = r] /\ r.pc = "unmount"
                         /\ r.dev = dev /\ Like(r, calls[c])
    BY <1>0, <2>1, <2>2, MoveRecord
  <2> QED BY <1>1, <1>5, <2>1, <2>2, <2>3, OnlyGoes
<1>3. CASE ~Live
  <2>1. Return(c, FALSE)
    BY <1>3 DEF WaitForDevice
  <2> QED BY <1>1, <1>5, <2>1, ReturnsOnly
<1> QED BY <1>2, <1>3

(* Unmounting what is at the staging path leaves nothing of the device.    *)
LEMMA UnmountStep ==
    ASSUME IndInv, NEW c \in Calls, UnmountTarget(c)
    PROVE  IndInv'
<1>0. TypeOK /\ KernelOK /\ StageOK /\ KernelTypes /\ CallTypes(calls)
  BY Parts
<1>1. /\ calls[c].pc = "unmount" /\ stage' = Pop(stage) /\ Go(c, "remove")
      /\ UNCHANGED <<ctrls, dev, bound, disk, gen, kubelet, others>>
  BY DEF UnmountTarget
<1>2. mode' = mode /\ ClusterTypes'
  BY <1>0, <1>1, OthersFacts
<1>3. stage' \in Seq(Mnt) /\ (dev # 0 => NoneOf(stage', dev))
  <2>1. stage \in Seq(Mnt)
    BY <1>0 DEF KernelTypes
  <2> QED BY <1>0, <1>1, <2>1, PopFacts DEF StageOK
<1>4. "remove" \in PCs /\ calls[c].dev # 0
  BY <1>0, <1>1 DEF PCs, CallTypes, NeedsDevice
<1>5. PICK r \in Call : /\ calls' = [calls EXCEPT ![c] = r] /\ r.pc = "remove"
                       /\ r.dev = calls[c].dev /\ Like(r, calls[c])
  BY <1>0, <1>1, <1>4, GoRecord
<1>6. calls'[c] = r
  BY <1>0, <1>5 DEF CallTypes
<1>7. KernelTypes' /\ (ctrls' # {} => dev' # 0)
  BY <1>0, <1>1, <1>3 DEF KernelTypes, KernelOK
<1>8. StageOK'
  BY <1>1, <1>3, NoneFacts DEF StageOK
<1>9. Finds(c)'
  BY <1>1, <1>3, <1>5, <1>6 DEF Finds
<1> QED BY <1>1, <1>2, <1>4, <1>5, <1>7, <1>8, <1>9, GoesOn

(* The RemoveAll.                                                          *)
LEMMA RemoveStep ==
    ASSUME IndInv, NEW c \in Calls, RemoveTarget(c)
    PROVE  IndInv'
<1>0. TypeOK /\ KernelOK /\ StageOK /\ AloneOK /\ KernelTypes /\ CallTypes(calls)
  BY Parts
<1>1. /\ calls[c].pc = "remove" /\ Go(c, "mount") /\ disk' \in {disk, "lost"}
      /\ UNCHANGED <<ctrls, dev, stage, bound, gen, kubelet, others>>
  BY DEF RemoveTarget
<1>2. mode' = mode /\ ClusterTypes'
  BY <1>0, <1>1, OthersFacts
<1>4. "mount" \in PCs /\ calls[c].dev # 0
  BY <1>0, <1>1 DEF PCs, CallTypes, NeedsDevice
<1>5. PICK r \in Call : /\ calls' = [calls EXCEPT ![c] = r] /\ r.pc = "mount"
                       /\ r.dev = calls[c].dev /\ r.failed = calls[c].failed
                       /\ Like(r, calls[c])
  BY <1>0, <1>1, <1>4, GoRecord
<1>6. calls'[c] = r
  BY <1>0, <1>5 DEF CallTypes
<1>7. KernelTypes' /\ (ctrls' # {} => dev' # 0) /\ StageOK'
  BY <1>0, <1>1 DEF KernelTypes, KernelOK, StageOK
<1>9. r.alone => Finds(c)'
  <2> SUFFICES ASSUME r.alone PROVE Finds(c)'
    OBVIOUS
  <2>1. Finds(c)
    BY <1>0, <1>5 DEF AloneOK, Like
  <2>2. ~r.failed /\ dev # 0 => NoneOf(stage, dev)
    BY <1>1, <1>5, <2>1 DEF Finds
  <2> QED BY <1>1, <1>5, <1>6, <2>2 DEF Finds
<1> QED BY <1>1, <1>2, <1>4, <1>5, <1>7, <1>9, GoesOn

(* EnsureMounted goes on to format what it cannot mount: for a call alone, *)
(* a volume that is blank, or whose UUID is taken, or that is mounted.     *)
LEMMA ToFormatStep ==
    ASSUME IndInv, NEW c \in Calls, calls[c].pc = "mount", ~CanStage(c), ~calls[c].ro,
           Go(c, "mkfs"), UNCHANGED <<kernel, kubelet, others>>
    PROVE  IndInv'
<1>0. TypeOK /\ KernelOK /\ StageOK /\ AloneOK /\ KernelTypes /\ CallTypes(calls)
  BY Parts
<1>2. mode' = mode /\ ClusterTypes'
  BY <1>0, OthersFacts
<1>4. "mkfs" \in PCs /\ calls[c].dev # 0
  BY <1>0 DEF PCs, CallTypes, NeedsDevice
<1>5. PICK r \in Call : /\ calls' = [calls EXCEPT ![c] = r] /\ r.pc = "mkfs"
                       /\ r.dev = calls[c].dev /\ r.failed = calls[c].failed
                       /\ Like(r, calls[c])
  BY <1>0, <1>4, GoRecord
<1>6. calls'[c] = r
  BY <1>0, <1>5 DEF CallTypes
<1>7. KernelTypes' /\ (ctrls' # {} => dev' # 0) /\ StageOK'
  BY <1>0 DEF KernelTypes, KernelOK, StageOK, kernel
<1>9. r.alone => Finds(c)'
  <2> SUFFICES ASSUME r.alone PROVE Finds(c)'
    OBVIOUS
  <2>1. Finds(c)
    BY <1>0, <1>5 DEF AloneOK, Like
  <2>2. ~r.failed /\ dev # 0 => NoneOf(stage, dev)
    BY <1>5, <2>1 DEF Finds
  <2>3. ASSUME ~r.failed, There(calls[c].dev), disk # "blank"
        PROVE  UUIDTaken(dev) \/ MountedFrom(dev) # {}
    <3>1. calls[c].dev = dev /\ dev # 0
      BY <2>3 DEF There
    <3>2. stage = <<>> \/ Top(stage)[1] # dev
      <4>1. stage \in Seq(Mnt)
        BY <1>0 DEF KernelTypes
      <4> QED BY <2>2, <2>3, <3>1, <4>1, TopFacts
    <3> SUFFICES ASSUME MountedFrom(dev) = {} PROVE UUIDTaken(dev)
      OBVIOUS
    <3>3. \A m \in MountedFrom(calls[c].dev) : m[3] = calls[c].ro
      BY <3>1
    <3> QED BY <2>3, <3>1, <3>2, <3>3 DEF CanStage, CanMount
  <2>4. (UUIDTaken(dev)' <=> UUIDTaken(dev)) /\ MountedFrom(dev)' = MountedFrom(dev)
    <3>1. UNCHANGED <<stage, bound, gen>> /\ dev' = dev
      BY DEF kernel
    <3> QED BY <3>1 DEF UUIDTaken, MountedFrom, Mounts
  <2>5. dev' = dev /\ disk' = disk /\ (There(calls[c].dev)' => There(r.dev))
    BY <1>5, <1>6 DEF kernel, There
  <2> QED BY <1>5, <1>6, <2>3, <2>4, <2>5 DEF Finds
<1>10. r.pc \notin {"free", "nfs", "bind"} /\ calls[c].pc \notin {"free", "bind", "nfs"}
  BY <1>5
<1> QED BY <1>2, <1>4, <1>5, <1>7, <1>9, <1>10, GoesOn

(* The mounts.                                                             *)
LEMMA MountsStep ==
    ASSUME IndInv, NEW c \in Calls, Mount(c) \/ MountAfterFormat(c)
    PROVE  IndInv'
<1>0. TypeOK
  BY Parts
<1>1. /\ calls[c].pc \in {"mount", "remount"}
      /\ UNCHANGED <<ctrls, dev, bound, disk, gen, others>>
  BY DEF Mount, MountAfterFormat
<1>2. CASE CanStage(c)
  <2>1. MountStage(c) /\ Staged(c)
    BY <1>2 DEF Mount, MountAfterFormat
  <2> QED BY <1>1, <1>2, <2>1, MountSucceeds
<1>3. CASE ~CanStage(c)
  <2>1. UNCHANGED kernel /\ mode' = mode /\ ClusterTypes'
    BY <1>0, <1>1, <1>3, OthersFacts DEF Mount, MountAfterFormat, kernel
  <2>2. CASE Return(c, FALSE)
    BY <1>1, <2>1, <2>2, ReturnsOnly
  <2>3. CASE calls[c].pc = "mount" /\ ~calls[c].ro /\ Go(c, "mkfs") /\ UNCHANGED kubelet
    BY <1>1, <1>3, <2>1, <2>3, ToFormatStep
  <2> QED BY <1>3, <2>2, <2>3 DEF Mount, MountAfterFormat
<1> QED BY <1>2, <1>3

(* mkfs.                                                                   *)
LEMMA FormatStep ==
    ASSUME IndInv, NEW c \in Calls, Format(c)
    PROVE  IndInv'
<1>0. TypeOK /\ KernelOK /\ KernelTypes /\ CallTypes(calls)
  BY Parts
<1>1. calls[c].pc = "mkfs" /\ UNCHANGED <<ctrls, dev, stage, bound, others>>
  BY DEF Format
<1>2. mode' = mode /\ ClusterTypes'
  BY <1>0, <1>1, OthersFacts
<1>3. CASE There(calls[c].dev) /\ MountedFrom(calls[c].dev) = {}
  <2>1. /\ disk' \in {"lost", "empty"} /\ gen' = NewUUID
        /\ Go(c, "remount") /\ UNCHANGED kubelet
    BY <1>3 DEF Format
  <2>2. "remount" \in PCs /\ calls[c].dev # 0
    BY <1>0, <1>1 DEF PCs, CallTypes, NeedsDevice
  <2>3. PICK r \in Call : /\ calls' = [calls EXCEPT ![c] = r] /\ r.pc = "remount"
                         /\ r.dev = calls[c].dev /\ Like(r, calls[c])
    BY <1>0, <2>1, <2>2, GoRecord
  <2>4. /\ ctrls' \in SUBSET Addrs /\ dev' \in Nat /\ (ctrls' # {} => dev' # 0) /\ dev' = dev
        /\ disk' \in {"blank", "empty", "data", "lost"} /\ gen' \in Nat
    BY <1>0, <1>1, <2>1, NewUUIDFacts DEF KernelTypes, KernelOK
  <2> QED BY <1>1, <1>2, <2>1, <2>2, <2>3, <2>4, TowardsDevice
<1>4. CASE ~(There(calls[c].dev) /\ MountedFrom(calls[c].dev) = {})
  <2>1. Return(c, FALSE) /\ UNCHANGED kernel
    BY <1>1, <1>4 DEF Format, kernel
  <2> QED BY <1>1, <1>2, <2>1, ReturnsOnly
<1> QED BY <1>3, <1>4

(* The bind mount of a publish call.                                       *)
LEMMA BindStep ==
    ASSUME IndInv, NEW c \in Calls, BindMount(c)
    PROVE  IndInv'
<1>0. TypeOK /\ KernelOK /\ StageOK /\ CallsOK /\ KernelTypes
  BY Parts
<1>1. /\ calls[c].pc = "bind" /\ Return(c, TRUE)
      /\ UNCHANGED <<ctrls, dev, stage, disk, gen, others>>
  BY DEF BindMount
<1>2. mode' = mode /\ ClusterTypes'
  BY <1>0, <1>1, OthersFacts
<1>3. calls[c].op = "publish" /\ calls[c].pod \in Pods
  BY <1>0, <1>1 DEF CallsOK, CallOK
<1> DEFINE m == IF stage = <<>> THEN Host ELSE Top(stage)
           S == Mnt \cup {Host}
<1>4. bound' \in [Pods -> Seq(S)]
  <2>1. m \in S
    <3>1. stage \in Seq(Mnt)
      BY <1>0 DEF KernelTypes
    <3> QED BY <3>1, TopFacts
  <2>2. bound \in [Pods -> Seq(S)] /\ bound[calls[c].pod] \in Seq(S)
    BY <1>0, <1>3 DEF KernelTypes
  <2>3. Append(bound[calls[c].pod], m) \in Seq(S)
    BY <2>1, <2>2, PushFacts
  <2>4. bound' = [bound EXCEPT ![calls[c].pod] = Append(bound[calls[c].pod], m)]
    BY DEF BindMount
  <2> HIDE DEF m, S
  <2> QED BY <2>2, <2>3, <2>4
<1>5. KernelTypes' /\ KernelOK' /\ StageOK' /\ stage' = stage
  BY <1>0, <1>1, <1>2, <1>4 DEF KernelTypes, KernelOK, StageOK
<1> QED BY <1>1, <1>2, <1>3, <1>5, Returns

(* The NFS mount.                                                          *)
LEMMA NFSStep ==
    ASSUME IndInv, NEW c \in Calls, StageNFS(c)
    PROVE  IndInv'
<1>0. TypeOK /\ KernelOK /\ CallsOK /\ KernelTypes /\ ClusterTypes
  BY Parts
<1>1. calls[c].pc = "nfs" /\ UNCHANGED <<ctrls, dev, bound, disk, gen, others>>
  BY DEF StageNFS
<1>2. mode' = mode /\ ClusterTypes' /\ mode = "nfs" /\ dev = 0
  BY <1>0, <1>1, OthersFacts DEF CallsOK, CallOK, KernelOK
<1> DEFINE m == <<0, eng, FALSE>>
<1>3. CASE stage' = Append(stage, m) /\ Return(c, TRUE)
  <2>1. m \in Mnt /\ stage \in Seq(Mnt)
    <3>1. eng \in Addrs /\ stage \in Seq(Mnt)
      BY <1>0 DEF ClusterTypes, KernelTypes
    <3>2. eng \in Nat
      BY <3>1, NodeAssumption DEF Addrs
    <3>3. 0 \in Nat /\ FALSE \in BOOLEAN
      OBVIOUS
    <3>4. m \in Mnt
      BY <3>2, <3>3, Zenon DEF Mnt
    <3> QED BY <3>1, <3>4
  <2> HIDE DEF m
  <2>2. stage' \in Seq(Mnt) /\ stage' # <<>>
    BY <1>3, <2>1, PushFacts
  <2>3. KernelTypes' /\ KernelOK' /\ StageOK'
    BY <1>0, <1>1, <1>2, <2>2 DEF KernelTypes, KernelOK, StageOK
  <2> QED BY <1>1, <1>2, <1>3, <2>2, <2>3, Returns
<1>4. CASE Return(c, FALSE) /\ UNCHANGED stage
  <2>1. UNCHANGED kernel
    BY <1>1, <1>4 DEF kernel
  <2> QED BY <1>1, <1>2, <1>4, <2>1, ReturnsOnly
<1> QED BY <1>3, <1>4 DEF StageNFS

(* A call of the kernel that fails by itself.                              *)
LEMMA KernelCallStep ==
    ASSUME IndInv, NEW c \in Calls, KernelCallFails(c)
    PROVE  IndInv'
<1>0. /\ TypeOK /\ KernelOK /\ StageOK /\ KernelTypes /\ ClusterTypes /\ CallTypes(calls)
  BY Parts
<1>1. UNCHANGED kernel /\ mode' = mode
  BY DEF KernelCallFails
<1>2. ClusterTypes'
  BY <1>0 DEF KernelCallFails, Fault, ClusterTypes, engine
<1>3. CASE calls[c].pc \in {"find", "clear"} /\ UNCHANGED kubelet /\ Move(c, "connect", 0)
  <2>1. "connect" \in PCs \ NeedsDevice /\ 0 \in Nat
    BY DEF PCs, NeedsDevice
  <2>2. PICK r \in Call : calls' = [calls EXCEPT ![c] = r] /\ r.pc = "connect" /\ Like(r, calls[c])
    BY <1>0, <1>3, <2>1, MoveRecord
  <2> QED BY <1>1, <1>2, <1>3, <2>1, <2>2, OnlyGoes
<1>4. CASE calls[c].pc = "tryMount" /\ Go(c, "clear") /\ UNCHANGED kubelet
  <2>1. "clear" \in PCs \ NeedsDevice
    BY DEF PCs, NeedsDevice
  <2>2. PICK r \in Call : calls' = [calls EXCEPT ![c] = r] /\ r.pc = "clear" /\ Like(r, calls[c])
    BY <1>0, <1>4, <2>1, GoRecord
  <2> QED BY <1>1, <1>2, <1>4, <2>1, <2>2, OnlyGoes
<1>5. ASSUME NEW pc \in {"remove", "mkfs"}, calls[c].pc \in {"unmount", "mount"},
             UNCHANGED kubelet, Fail(c, pc)
      PROVE  IndInv'
  <2>1. pc \in PCs /\ calls[c].dev # 0
    BY <1>0, <1>5 DEF PCs, CallTypes, NeedsDevice
  <2>2. PICK r \in Call : /\ calls' = [calls EXCEPT ![c] = r] /\ r.pc = pc
                         /\ r.dev = calls[c].dev /\ r.failed /\ Like(r, calls[c])
    BY <1>0, <1>5, <2>1, FailRecord
  <2>3. calls'[c] = r
    BY <1>0, <2>2 DEF CallTypes
  <2>4. KernelTypes' /\ (ctrls' # {} => dev' # 0) /\ StageOK'
    BY <1>0, <1>1 DEF KernelTypes, KernelOK, StageOK, kernel
  <2>5. Finds(c)'
    BY <1>5, <2>2, <2>3 DEF Finds
  <2>6. r.pc \notin {"free", "nfs", "bind"} /\ calls[c].pc \notin {"free", "bind", "nfs"}
    BY <1>5, <2>2
  <2> QED BY <1>1, <1>2, <1>5, <2>1, <2>2, <2>4, <2>5, <2>6, GoesOn
<1>6. CASE /\ calls[c].pc \in {"find", "connect", "mount", "mkfs", "remount", "bind", "nfs"}
           /\ Return(c, FALSE)
  BY <1>1, <1>2, <1>6, ReturnsOnly
<1>7. \/ calls[c].pc \in {"find", "clear"} /\ UNCHANGED kubelet /\ Move(c, "connect", 0)
      \/ calls[c].pc = "tryMount" /\ Go(c, "clear") /\ UNCHANGED kubelet
      \/ calls[c].pc = "unmount" /\ UNCHANGED kubelet /\ Fail(c, "remove")
      \/ calls[c].pc = "mount" /\ UNCHANGED kubelet /\ Fail(c, "mkfs")
      \/ /\ calls[c].pc \in {"find", "connect", "mount", "mkfs", "remount", "bind", "nfs"}
         /\ Return(c, FALSE)
  BY DEF KernelCallFails, Move, Fail
<1> QED BY <1>3, <1>4, <1>5, <1>6, <1>7

-----------------------------------------------------------------------------
(* Steps of the kubelet and of the environment.                            *)

(* A step that leaves the calls and the kernel alone.                      *)
LEMMA SameStep ==
    ASSUME IndInv, TypeOK', UNCHANGED <<mode, calls, kernel>>,
           UNCHANGED kub \/ (kub'.call = 0 /\ (kub'.staged => kub.staged))
    PROVE  IndInv'
<1>0. KernelOK /\ CallsOK /\ StageOK /\ WaitOK /\ AloneOK
  BY Parts
<1>1. /\ mode' = mode /\ calls' = calls /\ ctrls' = ctrls /\ dev' = dev /\ stage' = stage
      /\ bound' = bound /\ disk' = disk /\ gen' = gen
  BY DEF kernel
<1>2. KernelOK' /\ CallsOK' /\ StageOK'
  BY <1>0, <1>1 DEF KernelOK, CallsOK, CallOK, StageOK
<1>3. WaitOK'
  BY <1>0, <1>1, Zenon DEF WaitOK
<1>4. ASSUME NEW c \in Calls PROVE Finds(c)' <=> Finds(c)
  <2>1. (UUIDTaken(dev)' <=> UUIDTaken(dev)) /\ MountedFrom(dev)' = MountedFrom(dev)
    BY <1>1 DEF UUIDTaken, MountedFrom, Mounts
  <2>2. There(calls[c].dev)' <=> There(calls[c].dev)
    BY <1>1 DEF There
  <2> QED BY <1>1, <2>1, <2>2 DEF Finds
<1>5. AloneOK'
  BY <1>0, <1>1, <1>4 DEF AloneOK
<1> QED BY <1>2, <1>3, <1>5 DEF IndInv

(* Attaching and detaching, pods that come and go, the engine, and a call  *)
(* that the kubelet gives up on.                                           *)
LEMMA OutsideStep ==
    ASSUME IndInv,
           \/ ControllerPublishVolume \/ ControllerUnpublishVolume
           \/ \E p \in Pods : PodComes(p) \/ PodLeaves(p)
           \/ EngineStops \/ EngineReturns \/ CallTimesOut
    PROVE  IndInv'
<1>0. CallTypes(calls) /\ ClusterTypes /\ KubeletTypes /\ KernelTypes
  BY Parts
<1>1. UNCHANGED <<mode, calls, kernel>>
  BY DEF ControllerPublishVolume, ControllerUnpublishVolume, PodComes,
         PodLeaves, EngineStops, EngineReturns, CallTimesOut, kubelet, others
<1>2. ClusterTypes'
  <2>1. /\ mode \in {"rw", "ro", "nfs"} /\ eng \in Addrs /\ up \in BOOLEAN
        /\ ctx \in Addrs \cup {0} /\ comings \in SUBSET Pods /\ faults \in Nat
    BY <1>0 DEF ClusterTypes
  <2>2. comings' \in SUBSET Pods /\ faults' \in Nat
    BY <2>1 DEF ControllerPublishVolume, ControllerUnpublishVolume, PodComes,
           PodLeaves, EngineStops, EngineReturns, CallTimesOut, Fault, others
  <2>3. mode' \in {"rw", "ro", "nfs"} /\ ctx' \in Addrs \cup {0}
    BY <2>1 DEF ControllerPublishVolume, ControllerUnpublishVolume, PodComes,
           PodLeaves, EngineStops, EngineReturns, CallTimesOut, others
  <2>4. eng' \in Addrs /\ up' \in BOOLEAN
    BY <2>1 DEF ControllerPublishVolume, ControllerUnpublishVolume, PodComes,
           PodLeaves, EngineStops, EngineReturns, CallTimesOut, engine, others
  <2> QED BY <2>2, <2>3, <2>4 DEF ClusterTypes
<1>3. /\ kub' \in [staged : BOOLEAN, call : Calls \cup {0}]
      /\ UNCHANGED kub \/ (kub'.call = 0 /\ (kub'.staged => kub.staged))
  <2>1. kub \in [staged : BOOLEAN, call : Calls \cup {0}]
    BY <1>0 DEF KubeletTypes
  <2>2. UNCHANGED kub \/ kub' = [kub EXCEPT !.call = 0]
    BY DEF ControllerPublishVolume, ControllerUnpublishVolume, PodComes,
           PodLeaves, EngineStops, EngineReturns, CallTimesOut, kubelet
  <2> QED BY <2>1, <2>2
<1>4. pods' \in [Pods -> {"absent", "wanted", "running", "leaving"}]
  <2>1. pods \in [Pods -> {"absent", "wanted", "running", "leaving"}]
    BY <1>0 DEF KubeletTypes
  <2>2. \/ UNCHANGED pods
        \/ \E p \in Pods, x \in {"wanted", "leaving"} : pods' = [pods EXCEPT ![p] = x]
    BY DEF ControllerPublishVolume, ControllerUnpublishVolume, PodComes,
           PodLeaves, EngineStops, EngineReturns, CallTimesOut, kubelet
  <2> QED BY <2>1, <2>2
<1>5. CallTypes(calls') /\ KernelTypes'
  BY <1>0, <1>1 DEF kernel, KernelTypes
<1>6. TypeOK'
  BY <1>2, <1>3, <1>4, <1>5, TypePartsNext DEF KubeletTypes
<1> QED BY <1>1, <1>3, <1>6, SameStep

(* A call that comes in: it is alone if there is no other, and then it has *)
(* found nothing yet.                                                      *)
LEMMA StartStep ==
    ASSUME IndInv, NEW c \in Calls, NEW op \in {"stage", "publish"},
           NEW p \in Pods \cup {Host}, NEW ro \in BOOLEAN, NEW pc \in {"nfs", "bind", "find"},
           Start(c, op, p, ro, pc), op = "publish" <=> p \in Pods, op = "publish" => kub.staged,
           pc = "bind" => op = "publish" /\ mode = "nfs",
           pc = "nfs" => op = "stage" /\ mode = "nfs",
           pc = "find" => mode # "nfs"
    PROVE  IndInv'
<1>0. /\ TypeOK /\ KernelOK /\ CallsOK /\ StageOK /\ WaitOK /\ KernelTypes /\ KubeletTypes
      /\ ClusterTypes /\ CallTypes(calls)
  BY Parts
<1>1. pods' = pods /\ UNCHANGED <<kernel, others>>
  BY DEF Start
<1>2. /\ ctrls' = ctrls /\ dev' = dev /\ stage' = stage /\ mode' = mode /\ ClusterTypes'
      /\ KernelTypes'
  BY <1>0, <1>1, OthersFacts DEF kernel, KernelTypes
<1> DEFINE al == \A b \in Calls : calls[b].pc = "free"
           q == NewCall(pc, op, p, ro, ctx, al)
<1>3. pc \in PCs /\ pc \notin NeedsDevice /\ ctx \in Addrs \cup {0} /\ al \in BOOLEAN
  BY <1>0 DEF PCs, NeedsDevice, ClusterTypes
<1>4. calls' = [Joined EXCEPT ![c] = q]
  BY DEF Start, NewCall
<1> HIDE DEF al
<1>5. q \in Call /\ q.pc = pc /\ q.op = op /\ q.pod = p /\ q.alone = al
  BY <1>3, NewCallFacts
<1> HIDE DEF q
<1>6. /\ CallTypes(Joined)
      /\ \A b \in Calls : /\ Joined[b].pc = calls[b].pc /\ Joined[b].op = calls[b].op
                          /\ Joined[b].pod = calls[b].pod /\ ~Joined[b].alone
  BY <1>0, JoinedFacts
<1>7. /\ calls' \in [Calls -> Call] /\ calls'[c] = q
      /\ \A b \in Calls : b # c => calls'[b] = Joined[b]
  <2>1. Joined \in [Calls -> Call]
    BY <1>6 DEF CallTypes
  <2> HIDE DEF Joined
  <2> QED BY <1>4, <1>5, <2>1
<1>8. CallTypes(calls')
  BY <1>3, <1>5, <1>6, <1>7 DEF CallTypes
<1>9. /\ kub' \in [staged : BOOLEAN, call : Calls \cup {0}]
      /\ kub'.call = c /\ kub'.staged = kub.staged
  <2>1. kub \in [staged : BOOLEAN, call : Calls \cup {0}]
    BY <1>0 DEF KubeletTypes
  <2> QED BY <2>1 DEF Start
<1>10. TypeOK'
  <2>1. KubeletTypes'
    BY <1>0, <1>1, <1>9 DEF KubeletTypes
  <2> QED BY <1>2, <1>8, <2>1, TypePartsNext
<1>11. KernelOK' /\ StageOK'
  BY <1>0, <1>2 DEF KernelOK, StageOK
<1>12. CallsOK'
  BY <1>0, <1>2, <1>5, <1>6, <1>7 DEF CallsOK, CallOK
<1>13. WaitOK'
  <2>1. mode = "nfs" /\ kub.staged => stage # <<>>
    BY <1>0, Zenon DEF WaitOK
  <2>2. calls'[c].pc # "free" /\ calls'[c].op = op
    BY <1>5, <1>7
  <2> QED BY <1>2, <1>9, <2>1, <2>2 DEF WaitOK
<1>14. AloneOK'
  <2> SUFFICES ASSUME NEW a \in Calls, calls'[a].alone
               PROVE  Finds(a)' /\ \A b \in Calls : b # a => calls'[b].pc = "free"
    BY DEF AloneOK
  <2>1. a = c /\ al
    BY <1>5, <1>6, <1>7, Zenon
  <2>2. \A b \in Calls : b # a => calls'[b].pc = "free"
    BY <1>6, <1>7, <2>1 DEF al
  <2>3. Finds(a)'
    BY <1>2, <1>5, <1>7, <2>1 DEF Finds
  <2> QED BY <2>2, <2>3
<1> QED BY <1>10, <1>11, <1>12, <1>13, <1>14 DEF IndInv

(* NodeStageVolume and NodePublishVolume.                                  *)
LEMMA CallStep ==
    ASSUME IndInv, NEW c \in Calls,
           NodeStageVolume(c) \/ \E p \in Pods : NodePublishVolume(c, p)
    PROVE  IndInv'
<1>1. CASE NodeStageVolume(c)
  <2> DEFINE pc == IF mode = "nfs" THEN "nfs" ELSE "find"
             ro == mode = "ro"
  <2>1. Start(c, "stage", Host, ro, pc)
    BY <1>1 DEF NodeStageVolume
  <2>2. /\ pc \in {"nfs", "bind", "find"} /\ pc # "bind" /\ ro \in BOOLEAN
        /\ (pc = "nfs" => mode = "nfs") /\ (pc = "find" => mode # "nfs")
    OBVIOUS
  <2>3. Host \notin Pods
    BY NodeAssumption
  <2> HIDE DEF pc, ro
  <2> QED BY <2>1, <2>2, <2>3, StartStep
<1>2. ASSUME NEW p \in Pods, NodePublishVolume(c, p) PROVE IndInv'
  <2> DEFINE pc == IF mode = "nfs" THEN "bind" ELSE "find"
  <2>1. Start(c, "publish", p, ReadOnly(p), pc) /\ kub.staged
    BY <1>2 DEF NodePublishVolume
  <2>2. /\ pc \in {"nfs", "bind", "find"} /\ pc # "nfs" /\ ReadOnly(p) \in BOOLEAN
        /\ (pc = "bind" => mode = "nfs") /\ (pc = "find" => mode # "nfs")
    BY DEF ReadOnly
  <2> HIDE DEF pc
  <2> QED BY <2>1, <2>2, StartStep
<1> QED BY <1>1, <1>2

(* The calls at work are joined by another: none is alone.                 *)
LEMMA JoinedStep ==
    ASSUME IndInv, calls' = Joined, mode' = mode, ClusterTypes', KubeletTypes', KernelTypes',
           kub.call = 0, kub'.call = 0, UNCHANGED <<ctrls, dev>>, StageOK',
           mode = "nfs" /\ kub'.staged => stage' # <<>>
    PROVE  IndInv'
<1>0. TypeOK /\ KernelOK /\ CallsOK
  BY Parts
<1>1. /\ CallTypes(calls')
      /\ \A b \in Calls : /\ calls'[b].pc = calls[b].pc /\ calls'[b].op = calls[b].op
                          /\ calls'[b].pod = calls[b].pod /\ ~calls'[b].alone
  BY <1>0, JoinedFacts
<1>2. TypeOK'
  BY <1>1, TypePartsNext
<1>3. KernelOK' /\ CallsOK'
  BY <1>0, <1>1 DEF KernelOK, CallsOK, CallOK
<1>4. WaitOK' /\ AloneOK'
  BY <1>1 DEF WaitOK, AloneOK
<1> QED BY <1>2, <1>3, <1>4 DEF IndInv

(* NodeUnpublishVolume.                                                    *)
LEMMA UnpublishStep ==
    ASSUME IndInv, NEW p \in Pods, NodeUnpublishVolume(p)
    PROVE  IndInv'
<1>0. TypeOK /\ StageOK /\ WaitOK /\ KernelTypes /\ KubeletTypes
  BY Parts
<1> DEFINE S == Mnt \cup {Host}
<1>1. /\ kub.call = 0 /\ bound' = [bound EXCEPT ![p] = Pop(bound[p])]
      /\ pods' = [pods EXCEPT ![p] = "absent"] \/ pods' = pods
      /\ calls' = Joined /\ UNCHANGED <<kub, ctrls, dev, stage, disk, gen, others>>
  BY DEF NodeUnpublishVolume, Idle
<1>2. mode' = mode /\ ClusterTypes'
  BY <1>0, <1>1, OthersFacts
<1>3. bound' \in [Pods -> Seq(S)]
  <2>1. bound \in [Pods -> Seq(S)] /\ bound[p] \in Seq(S)
    BY <1>0 DEF KernelTypes
  <2>2. Pop(bound[p]) \in Seq(S)
    BY <2>1, PopFacts
  <2> HIDE DEF S
  <2> QED BY <1>1, <2>1, <2>2
<1>4. KernelTypes' /\ StageOK'
  BY <1>0, <1>1, <1>3 DEF KernelTypes, StageOK
<1>5. KubeletTypes'
  BY <1>0, <1>1 DEF KubeletTypes
<1>6. mode = "nfs" /\ kub'.staged => stage' # <<>>
  BY <1>0, <1>1 DEF WaitOK
<1> QED BY <1>1, <1>2, <1>4, <1>5, <1>6, JoinedStep

(* NodeUnstageVolume.                                                      *)
LEMMA UnstageStep ==
    ASSUME IndInv, NodeUnstageVolume
    PROVE  IndInv'
<1>0. TypeOK /\ StageOK /\ KernelTypes /\ KubeletTypes
  BY Parts
<1>1. /\ kub.call = 0 /\ stage' = Pop(stage) /\ kub' = [kub EXCEPT !.staged = FALSE]
      /\ calls' = Joined /\ UNCHANGED <<pods, ctrls, dev, bound, disk, gen, others>>
  BY DEF NodeUnstageVolume, Idle
<1>2. mode' = mode /\ ClusterTypes'
  BY <1>0, <1>1, OthersFacts
<1>3. stage' \in Seq(Mnt) /\ (dev # 0 => NoneOf(stage', dev))
  <2>1. stage \in Seq(Mnt)
    BY <1>0 DEF KernelTypes
  <2> QED BY <1>0, <1>1, <2>1, PopFacts DEF StageOK
<1>4. kub' \in [staged : BOOLEAN, call : Calls \cup {0}] /\ kub'.call = 0 /\ ~kub'.staged
  BY <1>0, <1>1 DEF KubeletTypes
<1>5. KubeletTypes' /\ KernelTypes'
  BY <1>0, <1>1, <1>3, <1>4 DEF KubeletTypes, KernelTypes
<1>6. StageOK'
  BY <1>1, <1>3, NoneFacts DEF StageOK
<1> QED BY <1>1, <1>2, <1>4, <1>5, <1>6, JoinedStep

(* Either of them, when its Unmount fails.                                 *)
LEMMA CleanupFailsStep ==
    ASSUME IndInv, CleanupFails
    PROVE  IndInv'
<1>0. TypeOK /\ StageOK /\ WaitOK /\ KernelTypes /\ KubeletTypes /\ ClusterTypes
  BY Parts
<1>1. /\ kub.call = 0 /\ calls' = Joined /\ UNCHANGED <<mode, engine, ctx, kernel, comings>>
      /\ Fault
  BY DEF CleanupFails, Idle
<1>2. ClusterTypes'
  BY <1>0, <1>1 DEF Fault, ClusterTypes, engine
<1>3. \/ /\ UNCHANGED kub
         /\ \E p \in Pods : pods' = [pods EXCEPT ![p] = "absent"]
      \/ UNCHANGED pods /\ kub' = [kub EXCEPT !.staged = FALSE]
  BY DEF CleanupFails
<1>4. /\ kub' \in [staged : BOOLEAN, call : Calls \cup {0}] /\ kub'.call = 0
      /\ (kub'.staged => kub.staged)
  <2>1. kub \in [staged : BOOLEAN, call : Calls \cup {0}]
    BY <1>0 DEF KubeletTypes
  <2>2. UNCHANGED kub \/ kub' = [kub EXCEPT !.staged = FALSE]
    BY <1>3
  <2> QED BY <1>1, <2>1, <2>2
<1>5. KubeletTypes'
  BY <1>0, <1>3, <1>4 DEF KubeletTypes
<1>6. KernelTypes' /\ StageOK' /\ UNCHANGED <<ctrls, dev>> /\ stage' = stage
  BY <1>0, <1>1 DEF KernelTypes, StageOK, kernel
<1>7. mode = "nfs" /\ kub'.staged => stage' # <<>>
  <2>1. mode = "nfs" /\ kub.staged => stage # <<>>
    BY <1>0, Zenon DEF WaitOK
  <2> QED BY <1>4, <1>6, <2>1, Zenon
<1> QED BY <1>1, <1>2, <1>4, <1>5, <1>6, <1>7, JoinedStep

(* A pod that writes, and controllers that are lost.                       *)
LEMMA DeviceStep ==
    ASSUME IndInv, (\E p \in Pods : PodWrites(p)) \/ ControllerLossTimeout
    PROVE  IndInv'
<1>0. /\ TypeOK /\ KernelOK /\ CallsOK /\ StageOK /\ WaitOK /\ AloneOK /\ KernelTypes
      /\ KubeletTypes /\ CallTypes(calls)
  BY Parts
<1>1. UNCHANGED <<stage, bound, gen, kubelet, calls, others>>
  BY DEF PodWrites, ControllerLossTimeout
<1>2. /\ stage' = stage /\ bound' = bound /\ gen' = gen /\ kub' = kub /\ pods' = pods
      /\ calls' = calls /\ mode' = mode /\ ClusterTypes'
  BY <1>0, <1>1, OthersFacts DEF kubelet
<1>3. /\ ctrls' \in SUBSET Addrs /\ dev' \in Nat /\ (ctrls' # {} => dev' # 0)
      /\ dev' = dev \/ dev' = 0
  <2>1. CASE ControllerLossTimeout
    BY <1>0, <2>1, ControllersFacts DEF ControllerLossTimeout
  <2>2. CASE \E p \in Pods : PodWrites(p)
    BY <1>0, <2>2 DEF PodWrites, TypeOK, KernelOK
  <2> QED BY <2>1, <2>2
<1>4. disk' = disk \/ (disk = "empty" /\ disk' = "data")
  BY DEF PodWrites, ControllerLossTimeout
<1>5. TypeOK'
  <2>1. KubeletTypes' /\ KernelTypes' /\ CallTypes(calls')
    BY <1>0, <1>2, <1>3, <1>4 DEF KubeletTypes, KernelTypes
  <2> QED BY <1>2, <2>1, TypePartsNext
<1>6. KernelOK' /\ CallsOK' /\ WaitOK' /\ StageOK'
  BY <1>0, <1>2, <1>3 DEF KernelOK, CallsOK, CallOK, WaitOK, StageOK
<1>7. ASSUME NEW c \in Calls, Finds(c) PROVE Finds(c)'
  <2>1. CASE dev' = dev
    <3>1. (UUIDTaken(dev)' <=> UUIDTaken(dev)) /\ MountedFrom(dev)' = MountedFrom(dev)
      BY <1>2, <2>1 DEF UUIDTaken, MountedFrom, Mounts
    <3>2. There(calls[c].dev)' <=> There(calls[c].dev)
      BY <1>2, <2>1 DEF There
    <3> QED BY <1>2, <1>4, <1>7, <2>1, <3>1, <3>2 DEF Finds
  <2>2. CASE dev' = 0
    BY <1>2, <1>7, <2>2 DEF Finds, There
  <2> QED BY <1>3, <2>1, <2>2
<1>8. AloneOK'
  BY <1>0, <1>2, <1>7 DEF AloneOK
<1> QED BY <1>5, <1>6, <1>8 DEF IndInv

(* The driver or the node starts anew, without calls.                      *)
LEMMA RestartStep ==
    ASSUME IndInv, DriverCrashes \/ NodeReboots
    PROVE  IndInv'
<1>0. /\ TypeOK /\ KernelOK /\ StageOK /\ WaitOK /\ KernelTypes /\ KubeletTypes
      /\ ClusterTypes
  BY Parts
<1>1. mode' = mode /\ disk' = disk /\ gen' = gen /\ calls' = [c \in Calls |-> Free]
  BY DEF DriverCrashes, NodeReboots, kernel
<1>2. ClusterTypes'
  BY <1>0 DEF DriverCrashes, NodeReboots, Fault, ClusterTypes, engine
<1>3. CallTypes(calls') /\ \A c \in Calls : calls'[c] = Free
  BY <1>1, FreeFacts DEF CallTypes
<1>4. CallsOK' /\ AloneOK'
  BY <1>3, FreeFacts DEF CallsOK, CallOK, AloneOK
<1>5. CASE DriverCrashes
  <2>1. /\ ctrls' = ctrls /\ dev' = dev /\ stage' = stage /\ bound' = bound /\ pods' = pods
        /\ kub' = [kub EXCEPT !.call = 0]
    BY <1>5 DEF DriverCrashes, kernel
  <2>2. /\ kub' \in [staged : BOOLEAN, call : Calls \cup {0}] /\ kub'.call = 0
        /\ kub'.staged = kub.staged
    BY <1>0, <2>1 DEF KubeletTypes
  <2>3. KubeletTypes' /\ KernelTypes'
    BY <1>0, <1>1, <2>1, <2>2 DEF KubeletTypes, KernelTypes
  <2>4. KernelOK' /\ StageOK' /\ WaitOK'
    BY <1>0, <1>1, <2>1, <2>2 DEF KernelOK, StageOK, WaitOK
  <2> QED BY <1>2, <1>3, <1>4, <2>3, <2>4, TypePartsNext DEF IndInv
<1>6. CASE NodeReboots
  <2>1. /\ Controllers({}) /\ stage' = <<>> /\ bound' = [p \in Pods |-> <<>>]
        /\ pods' = [p \in Pods |-> IF pods[p] = "running" THEN "wanted" ELSE pods[p]]
        /\ kub' = [staged |-> FALSE, call |-> 0]
    BY <1>6 DEF NodeReboots
  <2>2. kub' \in [staged : BOOLEAN, call : Calls \cup {0}] /\ kub'.call = 0 /\ ~kub'.staged
    BY <2>1
  <2>3. /\ ctrls' \in SUBSET Addrs /\ dev' \in Nat /\ (ctrls' # {} => dev' # 0)
        /\ dev' = dev \/ dev' = 0
    BY <1>0, <2>1, ControllersFacts
  <2>4. stage' \in Seq(Mnt) /\ bound' \in [Pods -> Seq(Mnt \cup {Host})]
    <3> DEFINE S == Mnt \cup {Host}
    <3>1. <<>> \in Seq(Mnt) /\ <<>> \in Seq(S)
      BY EmptySeq
    <3> HIDE DEF S
    <3>2. [p \in Pods |-> <<>>] \in [Pods -> Seq(S)]
      BY <3>1
    <3> QED BY <2>1, <3>1, <3>2 DEF S
  <2>5. KubeletTypes' /\ KernelTypes'
    BY <1>0, <1>1, <2>1, <2>2, <2>3, <2>4 DEF KubeletTypes, KernelTypes
  <2>6. KernelOK' /\ WaitOK'
    BY <1>0, <1>1, <2>2, <2>3 DEF KernelOK, WaitOK
  <2>7. StageOK'
    <3>1. NoneOf(<<>>, dev')
      BY DEF NoneOf
    <3> QED BY <2>1, <2>4, <3>1, NoneFacts DEF StageOK
  <2> QED BY <1>2, <1>3, <1>4, <2>5, <2>6, <2>7, TypePartsNext DEF IndInv
<1> QED BY <1>5, <1>6

-----------------------------------------------------------------------------
(* The theorems.                                                           *)

(* Nothing is connected, mounted or called for at the start.               *)
LEMMA InitInv == Init => IndInv
<1> SUFFICES ASSUME Init PROVE IndInv
  OBVIOUS
<1>0. /\ eng = 1 /\ up = TRUE /\ ctx = 0 /\ gen = 1
      /\ ctrls = {} /\ dev = 0 /\ stage = <<>> /\ bound = [p \in Pods |-> <<>>]
      /\ kub = [staged |-> FALSE, call |-> 0] /\ calls = [c \in Calls |-> Free]
      /\ pods = [p \in Pods |-> "absent"] /\ disk \in {"blank", "data"}
  BY DEF Init
<1>1. mode \in {"rw", "ro", "nfs"} /\ comings \in SUBSET Pods /\ faults \in Nat
  BY NodeAssumption DEF Init
<1>2. ClusterTypes /\ KubeletTypes
  BY <1>0, <1>1, NodeAssumption DEF ClusterTypes, KubeletTypes, Addrs
<1>3. KernelTypes
  <2> DEFINE S == Mnt \cup {Host}
  <2>1. <<>> \in Seq(Mnt) /\ <<>> \in Seq(S)
    BY EmptySeq
  <2> HIDE DEF S
  <2>2. bound \in [Pods -> Seq(S)]
    BY <1>0, <2>1
  <2> QED BY <1>0, <2>1, <2>2 DEF KernelTypes, S
<1>4. CallTypes(calls) /\ \A c \in Calls : calls[c] = Free
  BY <1>0, FreeFacts DEF CallTypes
<1>5. CallsOK /\ AloneOK
  BY <1>4, FreeFacts DEF CallsOK, CallOK, AloneOK
<1>6. KernelOK /\ WaitOK /\ StageOK
  BY <1>0 DEF KernelOK, WaitOK, StageOK
<1> QED BY <1>2, <1>3, <1>4, <1>5, <1>6, TypeParts DEF IndInv

(* Every step keeps the invariant.                                         *)
LEMMA StepInv == IndInv /\ [Next]_vars => IndInv'
<1> SUFFICES ASSUME IndInv, [Next]_vars PROVE IndInv'
  OBVIOUS
<1>1. ASSUME NEW c \in Calls, DriverStep(c) PROVE IndInv'
  BY <1>1, FindStep, TryMountStep, ClearStep, InProgressStep, ConnectStep, WaitStep,
     UnmountStep, RemoveStep, MountsStep, FormatStep, BindStep, NFSStep DEF DriverStep
<1>2. CASE KubeletStep
  BY <1>2, OutsideStep, UnstageStep, CallStep, UnpublishStep DEF KubeletStep
<1>3. CASE Environment
  BY <1>3, OutsideStep, DeviceStep, RestartStep, CleanupFailsStep, KernelCallStep
     DEF Environment
<1>4. CASE UNCHANGED vars
  <2>1. UNCHANGED <<mode, kub, calls, kernel>>
    BY <1>4 DEF vars, kubelet
  <2>2. CallTypes(calls) /\ ClusterTypes /\ KubeletTypes /\ KernelTypes
    BY Parts
  <2>3. ClusterTypes' /\ KubeletTypes' /\ KernelTypes' /\ CallTypes(calls')
    BY <1>4, <2>2 DEF vars, engine, kubelet, kernel, ClusterTypes, KubeletTypes, KernelTypes
  <2> QED BY <2>1, <2>3, TypePartsNext, SameStep
<1> QED BY <1>1, <1>2, <1>3, <1>4 DEF Next

(* The invariant holds throughout.                                         *)
LEMMA Invariance == Spec => []IndInv
BY InitInv, StepInv, PTL DEF Spec

(* Every call goes on to mount only with a device that it has found, and   *)
(* the mounts stay what they are: the node service keeps its types.        *)
THEOREM TypeCorrect == Spec => []TypeOK
<1>1. IndInv => TypeOK
  BY DEF IndInv
<1> QED BY <1>1, Invariance, PTL

(* A step that costs data is the RemoveAll or the mkfs of a call.          *)
LEMMA LossByCall ==
    ASSUME [Next]_vars, disk = "data", disk' = "lost"
    PROVE  \E c \in Calls : RemoveTarget(c) \/ Format(c)
<1>1. CASE KubeletStep
  BY <1>1 DEF KubeletStep, ControllerPublishVolume, ControllerUnpublishVolume,
     NodeUnstageVolume, NodeStageVolume, NodePublishVolume, Start,
     NodeUnpublishVolume, kernel
<1>2. CASE Environment
  BY <1>2 DEF Environment, PodComes, PodLeaves, PodWrites, EngineStops, EngineReturns,
     ControllerLossTimeout, CallTimesOut, DriverCrashes, NodeReboots, CleanupFails,
     KernelCallFails, kernel
<1>3. ASSUME NEW c \in Calls, DriverStep(c) PROVE RemoveTarget(c) \/ Format(c)
  BY <1>3 DEF DriverStep, FindExistingNVMEDevice, TryMount, ClearNVMeSubsystem,
     ConnectInProgress, Connect, WaitForDevice, UnmountTarget, Mount, MountAfterFormat,
     BindMount, StageNFS, kernel
<1>4. CASE UNCHANGED vars
  BY <1>4 DEF vars, kernel
<1> QED BY <1>1, <1>2, <1>3, <1>4 DEF Next

(* Staging loses what is on the volume only through a failure of a kernel  *)
(* call of its own, through another call, or by formatting a volume whose  *)
(* UUID is in use by an earlier mount: for any number of pods, calls,      *)
(* failures and moves of the engine.                                       *)
THEOREM LossHasACause == Spec => LossNeedsACause
<1> DEFINE L == disk = "data" /\ disk' = "lost" =>
                   \E c \in Calls :
                      /\ calls'[c] # calls[c]
                      /\ \/ calls[c].failed \/ ~calls[c].alone
                         \/ calls[c].pc = "mkfs" /\ UUIDTaken(dev)
<1>1. IndInv /\ [Next]_vars => [L]_vars
  <2> SUFFICES ASSUME IndInv, [Next]_vars, disk = "data", disk' = "lost" PROVE L
    OBVIOUS
  <2>0. TypeOK /\ KernelTypes /\ AloneOK /\ CallTypes(calls)
    BY Parts
  <2>1. PICK c \in Calls : RemoveTarget(c) \/ Format(c)
    BY LossByCall
  <2>2. calls'[c] # calls[c]
    <3>1. ASSUME NEW pc \in PCs, Go(c, pc), pc # calls[c].pc PROVE calls'[c].pc = pc
      BY <2>0, <3>1, GoRecord DEF CallTypes
    <3>2. CASE RemoveTarget(c)
      <4>1. Go(c, "mount") /\ calls[c].pc = "remove" /\ "mount" \in PCs
        BY <3>2 DEF RemoveTarget, PCs
      <4>2. calls'[c].pc = "mount"
        BY <3>1, <4>1
      <4> QED BY <4>1, <4>2
    <3>3. CASE Format(c)
      <4>1. Go(c, "remount") /\ calls[c].pc = "mkfs" /\ "remount" \in PCs
        BY <3>3 DEF Format, PCs
      <4>2. calls'[c].pc = "remount"
        BY <3>1, <4>1
      <4> QED BY <4>1, <4>2
    <3> QED BY <2>1, <3>2, <3>3
  <2>3. ASSUME ~calls[c].failed, calls[c].alone PROVE calls[c].pc = "mkfs" /\ UUIDTaken(dev)
    <3>1. Finds(c)
      BY <2>0, <2>3 DEF AloneOK
    <3>2. CASE RemoveTarget(c)
      <4>1. /\ calls[c].pc = "remove" /\ stage # <<>> /\ dev # 0 /\ Top(stage)[1] = dev
        BY <3>2 DEF RemoveTarget, There
      <4>2. NoneOf(stage, dev)
        BY <2>3, <3>1, <4>1 DEF Finds
      <4>3. stage \in Seq(Mnt)
        BY <2>0 DEF KernelTypes
      <4> QED BY <4>1, <4>2, <4>3, TopFacts
    <3>3. CASE Format(c)
      <4>1. /\ calls[c].pc = "mkfs" /\ There(calls[c].dev)
            /\ MountedFrom(calls[c].dev) = {}
        BY <3>3 DEF Format
      <4>2. calls[c].dev = dev
        BY <4>1 DEF There
      <4> QED BY <2>3, <3>1, <4>1, <4>2 DEF Finds
    <3> QED BY <2>1, <3>2, <3>3
  <2> QED BY <2>2, <2>3
<1>2. Spec => [][L]_vars
  BY <1>1, Invariance, PTL DEF Spec
<1> QED BY <1>2 DEF LossNeedsACause

(* A step that starts a pod is the bind mount of the call that the kubelet *)
(* waits for.                                                              *)
LEMMA StartByBind ==
    ASSUME IndInv, [Next]_vars, NEW p \in Pods, pods[p] = "wanted", pods'[p] = "running"
    PROVE  \E c \in Calls : BindMount(c) /\ kub.call = c /\ calls[c].pod = p
<1>0. CallsOK /\ pods \in [Pods -> {"absent", "wanted", "running", "leaving"}]
  BY Parts DEF KubeletTypes
<1>a. ASSUME NEW c \in Calls, NEW ok \in BOOLEAN, Return(c, ok)
      PROVE  kub.call = c /\ calls[c].op = "publish" /\ calls[c].pod = p /\ ok
  BY <1>0, <1>a DEF Return
<1>1. CASE KubeletStep
  BY <1>0, <1>1 DEF KubeletStep, ControllerPublishVolume, ControllerUnpublishVolume,
     NodeUnstageVolume, NodeStageVolume, NodePublishVolume, Start,
     NodeUnpublishVolume, kubelet
<1>2. CASE Environment
  <2>1. ASSUME NEW c \in Calls, KernelCallFails(c) PROVE FALSE
    <3>1. UNCHANGED kubelet \/ Return(c, FALSE)
      BY <2>1 DEF KernelCallFails
    <3> QED BY <1>a, <3>1 DEF kubelet
  <2> QED BY <1>0, <1>2, <2>1 DEF Environment, PodComes, PodLeaves, PodWrites, EngineStops,
     EngineReturns, ControllerLossTimeout, CallTimesOut, DriverCrashes, NodeReboots,
     CleanupFails, kubelet
<1>3. CASE UNCHANGED vars
  BY <1>3 DEF vars, kubelet
<1>4. ASSUME NEW c \in Calls, DriverStep(c)
      PROVE  BindMount(c) /\ kub.call = c /\ calls[c].pod = p
  <2>1. pods' = pods \/ Return(c, FALSE) \/ Return(c, TRUE)
    BY <1>4 DEF DriverStep, FindExistingNVMEDevice, TryMount, ClearNVMeSubsystem,
       ConnectInProgress, Connect, WaitForDevice, UnmountTarget, RemoveTarget, Mount, Format,
       MountAfterFormat, BindMount, StageNFS, Staged, kubelet
  <2>2. ~Return(c, FALSE) /\ pods' # pods
    BY <1>a
  <2>3. Return(c, TRUE) /\ kub.call = c /\ calls[c].op = "publish" /\ calls[c].pod = p
    BY <1>a, <2>1, <2>2
  <2>4. ~Staged(c)
    <3>1. calls[c].op # "stage"
      BY <2>3
    <3> QED BY <2>2, <3>1 DEF Staged, kubelet
  <2>5. calls[c].pc # "nfs"
    BY <1>0, <2>3 DEF CallsOK, CallOK
  <2>6. BindMount(c)
    BY <1>4, <2>2, <2>4, <2>5 DEF DriverStep, FindExistingNVMEDevice, TryMount,
       ClearNVMeSubsystem, ConnectInProgress, Connect, WaitForDevice, UnmountTarget,
       RemoveTarget, Mount, Format, MountAfterFormat, StageNFS, kubelet
  <2> QED BY <2>3, <2>6
<1> QED BY <1>1, <1>2, <1>3, <1>4 DEF Next

(* A pod whose publish call had the driver to itself starts on the volume  *)
(* as the node is connected to it, with the access asked for: for any      *)
(* number of pods, calls, failures and moves of the engine.                *)
THEOREM PublishedIsTheVolume == Spec => PublishShowsTheVolume
<1> DEFINE L == \A p \in Pods :
                   pods[p] = "wanted" /\ pods'[p] = "running" =>
                      \/ ~calls[kub.call].alone
                      \/ /\ Top(bound'[p]) # Host
                         /\ dev # 0 => Top(bound'[p]) = <<dev, gen, calls[kub.call].ro>>
<1>1. IndInv /\ [Next]_vars => [L]_vars
  <2> SUFFICES ASSUME IndInv, [Next]_vars, NEW p \in Pods,
                      pods[p] = "wanted", pods'[p] = "running", calls[kub.call].alone
               PROVE  /\ Top(bound'[p]) # Host
                      /\ dev # 0 => Top(bound'[p]) = <<dev, gen, calls[kub.call].ro>>
    OBVIOUS
  <2>0. KernelOK /\ CallsOK /\ WaitOK /\ AloneOK /\ KernelTypes
    BY Parts
  <2>1. PICK c \in Calls : BindMount(c) /\ kub.call = c /\ calls[c].pod = p
    BY StartByBind
  <2>2. calls[c].pc = "bind" /\ calls[c].op = "publish" /\ kub.call # 0
    BY <2>0, <2>1 DEF BindMount, CallsOK, CallOK, Calls
  <2>3. stage # <<>> /\ (dev # 0 => Top(stage) = <<dev, gen, calls[c].ro>>)
    <3>1. CASE mode = "nfs"
      BY <2>0, <2>1, <2>2, <3>1 DEF KernelOK, WaitOK
    <3>2. CASE mode # "nfs"
      <4>1. Finds(c)
        BY <2>0, <2>1 DEF AloneOK
      <4> QED BY <2>2, <3>2, <4>1 DEF Finds
    <3> QED BY <3>1, <3>2
  <2>4. Top(stage) \in Mnt
    BY <2>0, <2>3, TopFacts DEF KernelTypes
  <2>5. Top(bound'[p]) = Top(stage)
    <3> DEFINE S == Mnt \cup {Host}
    <3>1. bound \in [Pods -> Seq(S)] /\ bound[p] \in Seq(S) /\ Top(stage) \in S
      BY <2>0, <2>4 DEF KernelTypes
    <3>2. bound' = [bound EXCEPT ![p] = Append(bound[p], Top(stage))]
      BY <2>1, <2>3 DEF BindMount
    <3> HIDE DEF S
    <3>3. bound'[p] = Append(bound[p], Top(stage))
      BY <3>1, <3>2
    <3>4. Top(Append(bound[p], Top(stage))) = Top(stage)
      BY <3>1, PushFacts
    <3> QED BY <3>3, <3>4
  <2>6. Top(stage) # Host
    BY <2>4, NodeAssumption DEF Mnt
  <2> QED BY <2>1, <2>3, <2>5, <2>6
<1>2. Spec => [][L]_vars
  BY <1>1, Invariance, PTL DEF Spec
<1> QED BY <1>2 DEF PublishShowsTheVolume
=============================================================================
