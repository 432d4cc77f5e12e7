------------------------ MODULE AttachmentLists_proofs ------------------------
(***************************************************************************)
(* Lemmas about attachment lists, and about the index that scaleUp picks   *)
(* for a new attachment.                                                   *)
(***************************************************************************)
EXTENDS VolumeController, SequenceTheorems, FiniteSetTheorems, TLAPS

(* Without (removeAttachment, and the dashboard's filter) drops exactly    *)
(* one position and keeps the order of the others.                         *)
LEMMA WithoutIsSeq ==
    ASSUME NEW atts \in Seq(Attachment), NEW p \in 1 .. Len(atts)
    PROVE  /\ Without(atts, p) \in Seq(Attachment)
           /\ Len(Without(atts, p)) = Len(atts) - 1
           /\ \A q \in 1 .. (Len(atts) - 1) :
                 Without(atts, p)[q] = atts[IF q < p THEN q ELSE q + 1]
<1> DEFINE a == SubSeq(atts, 1, p - 1)
           b == SubSeq(atts, p + 1, Len(atts))
<1>0. Len(atts) \in Nat /\ \A i \in 1 .. Len(atts) : atts[i] \in Attachment
  BY ElementOfSeq, LenProperties
<1>1. /\ a \in Seq(Attachment) /\ Len(a) = p - 1
      /\ \A i \in 1 .. (p - 1) : a[i] = atts[i]
  <2>1. \A i \in 1 .. (p - 1) : atts[i] \in Attachment
    BY <1>0
  <2> QED BY <2>1, <1>0, SubSeqProperties
<1>2. /\ b \in Seq(Attachment) /\ Len(b) = Len(atts) - p
      /\ \A i \in 1 .. (Len(atts) - p) : b[i] = atts[p + i]
  <2>1. \A i \in (p + 1) .. Len(atts) : atts[i] \in Attachment
    BY <1>0
  <2> QED BY <2>1, <1>0, SubSeqProperties
<1>3. /\ a \o b \in Seq(Attachment) /\ Len(a \o b) = Len(a) + Len(b)
      /\ \A i \in 1 .. (Len(a) + Len(b)) :
            (a \o b)[i] = IF i <= Len(a) THEN a[i] ELSE b[i - Len(a)]
  BY <1>1, <1>2, ConcatProperties
<1> HIDE DEF a, b
<1>4. \A q \in 1 .. (Len(atts) - 1) :
         (a \o b)[q] = atts[IF q < p THEN q ELSE q + 1]
  <2> SUFFICES ASSUME NEW q \in 1 .. (Len(atts) - 1)
               PROVE  (a \o b)[q] = atts[IF q < p THEN q ELSE q + 1]
    OBVIOUS
  <2>1. CASE q < p
    BY <2>1, <1>0, <1>1, <1>2, <1>3
  <2>2. CASE ~(q < p)
    <3>1. (a \o b)[q] = b[q - (p - 1)]
      BY <2>2, <1>0, <1>1, <1>2, <1>3
    <3>2. b[q - (p - 1)] = atts[p + (q - (p - 1))]
      BY <2>2, <1>0, <1>2
    <3> QED BY <3>1, <3>2, <2>2, <1>0
  <2> QED BY <2>1, <2>2
<1>5. Without(atts, p) = a \o b
  BY DEF Without, a, b
<1>6. Len(a \o b) = Len(atts) - 1
  BY <1>0, <1>1, <1>2, <1>3
<1> QED BY ONLY <1>3, <1>4, <1>5, <1>6, Zenon

(* Removing an attachment adds no name, and keeps names apart.             *)
LEMMA WithoutKeeps ==
    ASSUME NEW atts \in Seq(Attachment), NEW p \in 1 .. Len(atts)
    PROVE  /\ Names(Without(atts, p)) \subseteq Names(atts)
           /\ Distinct(atts) => Distinct(Without(atts, p))
<1> DEFINE w == Without(atts, p)
           old(q) == IF q < p THEN q ELSE q + 1
<1>1. /\ w \in Seq(Attachment) /\ Len(w) = Len(atts) - 1
      /\ \A q \in 1 .. (Len(atts) - 1) : w[q] = atts[old(q)]
  BY WithoutIsSeq
<1>2. DOMAIN w = 1 .. (Len(atts) - 1) /\ DOMAIN atts = 1 .. Len(atts) /\ Len(atts) \in Nat
  BY <1>1, LenProperties
<1>3. \A q \in 1 .. (Len(atts) - 1) : old(q) \in 1 .. Len(atts)
  BY <1>2
<1>4. \A q, r \in 1 .. (Len(atts) - 1) : q # r => old(q) # old(r)
  BY <1>2
<1> HIDE DEF w, old
<1>5. Names(w) \subseteq Names(atts)
  BY <1>1, <1>2, <1>3 DEF Names
<1>6. Distinct(atts) => Distinct(w)
  BY <1>1, <1>2, <1>3, <1>4 DEF Distinct
<1> QED BY <1>5, <1>6 DEF w

(* So does keeping the first n attachments.                                *)
LEMMA PrefixKeeps ==
    ASSUME NEW atts \in Seq(Attachment), NEW n \in 0 .. Len(atts)
    PROVE  /\ SubSeq(atts, 1, n) \in Seq(Attachment)
           /\ Len(SubSeq(atts, 1, n)) = n
           /\ \A q \in 1 .. n : SubSeq(atts, 1, n)[q] = atts[q]
           /\ Names(SubSeq(atts, 1, n)) \subseteq Names(atts)
           /\ Distinct(atts) => Distinct(SubSeq(atts, 1, n))
<1> DEFINE s == SubSeq(atts, 1, n)
<1>0. /\ Len(atts) \in Nat /\ DOMAIN atts = 1 .. Len(atts)
      /\ \A i \in 1 .. n : atts[i] \in Attachment
  BY ElementOfSeq, LenProperties
<1>1. s \in Seq(Attachment) /\ Len(s) = n /\ \A q \in 1 .. n : s[q] = atts[q]
  BY <1>0, SubSeqProperties
<1>2. DOMAIN s = 1 .. n
  BY <1>1, LenProperties
<1> HIDE DEF s
<1>3. Names(s) \subseteq Names(atts)
  BY <1>0, <1>1, <1>2 DEF Names
<1>4. Distinct(atts) => Distinct(s)
  BY <1>0, <1>1, <1>2 DEF Distinct
<1> QED BY <1>1, <1>3, <1>4 DEF s

(* A list is its own longest prefix, and a new attachment leaves the       *)
(* shorter prefixes alone.                                                 *)
LEMMA PrefixFacts ==
    ASSUME NEW atts \in Seq(Attachment)
    PROVE  /\ SubSeq(atts, 1, Len(atts)) = atts
           /\ \A n \in 0 .. Len(atts), a \in Attachment :
                 SubSeq(Append(atts, a), 1, n) = SubSeq(atts, 1, n)
<1>1. Len(atts) \in Nat
  BY LenProperties
<1>2. SubSeq(atts, 1, Len(atts)) = atts
  BY SubSeqFull
<1>3. ASSUME NEW n \in 0 .. Len(atts), NEW a \in Attachment
      PROVE  SubSeq(Append(atts, a), 1, n) = SubSeq(atts, 1, n)
  <2> DEFINE s == Append(atts, a)
  <2>1. /\ s \in Seq(Attachment) /\ Len(s) = Len(atts) + 1
        /\ \A i \in 1 .. Len(atts) : s[i] = atts[i]
    BY AppendProperties
  <2> HIDE DEF s
  <2>2. n \in 0 .. Len(s)
    BY <1>1, <2>1
  <2>3. /\ SubSeq(s, 1, n) \in Seq(Attachment) /\ Len(SubSeq(s, 1, n)) = n
        /\ \A q \in 1 .. n : SubSeq(s, 1, n)[q] = s[q]
    BY <2>1, <2>2, PrefixKeeps
  <2>4. /\ SubSeq(atts, 1, n) \in Seq(Attachment) /\ Len(SubSeq(atts, 1, n)) = n
        /\ \A q \in 1 .. n : SubSeq(atts, 1, n)[q] = atts[q]
    BY PrefixKeeps
  <2>5. \A q \in 1 .. n : SubSeq(s, 1, n)[q] = SubSeq(atts, 1, n)[q]
    BY <1>1, <2>1, <2>3, <2>4
  <2>6. SubSeq(s, 1, n) = SubSeq(atts, 1, n)
    BY <2>3, <2>4, <2>5, SeqEqual
  <2> QED BY <2>6 DEF s
<1> QED BY <1>2, <1>3

(* A new attachment keeps names apart when its name is new.                *)
LEMMA AppendKeeps ==
    ASSUME NEW atts \in Seq(Attachment), NEW a \in Attachment
    PROVE  /\ Append(atts, a) \in Seq(Attachment)
           /\ Len(Append(atts, a)) = Len(atts) + 1
           /\ Distinct(atts) /\ a.idx \notin Names(atts) => Distinct(Append(atts, a))
<1> DEFINE s == Append(atts, a)
<1>1. /\ s \in Seq(Attachment) /\ Len(s) = Len(atts) + 1
      /\ \A i \in 1 .. Len(atts) : s[i] = atts[i]
      /\ s[Len(atts) + 1] = a
  BY AppendProperties
<1>2. Len(atts) \in Nat /\ DOMAIN atts = 1 .. Len(atts) /\ DOMAIN s = 1 .. (Len(atts) + 1)
  BY <1>1, LenProperties
<1> HIDE DEF s
<1>3. Distinct(atts) /\ a.idx \notin Names(atts) => Distinct(s)
  BY <1>1, <1>2 DEF Distinct, Names
<1> QED BY <1>1, <1>3 DEF s

(* A list has at most as many names as attachments.                        *)
LEMMA NamesBound ==
    ASSUME NEW atts \in Seq(Attachment)
    PROVE  IsFiniteSet(Names(atts)) /\ Cardinality(Names(atts)) <= Len(atts)
<1> DEFINE D == 1 .. Len(atts)
           f == [p \in D |-> atts[p].idx]
<1>1. Len(atts) \in Nat /\ DOMAIN atts = D
  BY LenProperties
<1>2. f \in Surjection(D, Names(atts))
  BY <1>1 DEF Surjection, Names
<1>3. IsFiniteSet(D) /\ Cardinality(D) = Len(atts)
  BY <1>1, FS_Interval
<1> HIDE DEF D, f
<1> QED BY <1>2, <1>3, FS_Surjection

(* NextIndex: some index up to the number of used ones is free, and the    *)
(* one chosen is.                                                          *)
LEMMA NextIndexIsFree ==
    ASSUME NEW used, used \subseteq Nat, IsFiniteSet(used)
    PROVE  NextIndex(used) \in 0 .. Cardinality(used) /\ NextIndex(used) \notin used
<1> DEFINE c == Cardinality(used)
           Free == {i \in 0 .. c : i \notin used}
<1>1. c \in Nat
  BY FS_CardinalityType
<1>2. Free # {}
  <2> SUFFICES ASSUME Free = {} PROVE FALSE
    OBVIOUS
  <2>1. (0 .. c) \subseteq used
    OBVIOUS
  <2>2. Cardinality(0 .. c) <= c
    BY <2>1, FS_Subset
  <2>3. Cardinality(0 .. c) = c + 1
    BY <1>1, FS_Interval
  <2> QED BY <1>1, <2>2, <2>3
<1>3. \E i \in Free : \A j \in Free : i <= j
  <2>1. Free \subseteq Nat
    BY <1>1
  <2> HIDE DEF Free
  <2>2. PICK i \in Free : \A j \in Free : ~(<<j, i>> \in OpToRel(<, Nat))
    BY <1>2, <2>1, NatLessThanWellFounded, WFMin
  <2>3. \A j \in Free : ~(j < i)
    BY <2>1, <2>2 DEF OpToRel
  <2> QED BY <2>1, <2>3
<1>4. \E i \in 0 .. c : /\ i \notin used
                        /\ \A j \in 0 .. c : j \notin used => i <= j
  BY <1>3
<1> QED BY <1>4 DEF NextIndex
=============================================================================
