-------------------------- MODULE DistinctSequences --------------------------
(***************************************************************************)
(* Lemmas the proofs of several components share: sequences without        *)
(* repetitions, as the queues of the memory fabric, of the CPU and of the  *)
(* Group port are, and the least element of a set of numbers.              *)
(***************************************************************************)
EXTENDS Integers, SequencesExt, SequenceTheorems, WellFoundedInduction, TLAPS

\* No element stands in a sequence twice.
Distinct(s) == \A i, j \in 1 .. Len(s) : s[i] = s[j] => i = j

\* RemoveAt closes the gap it leaves.
LEMMA RemoveAtSeq ==
    ASSUME NEW S, NEW s \in Seq(S), NEW i \in 1 .. Len(s)
    PROVE  /\ RemoveAt(s, i) \in Seq(S)
           /\ Len(RemoveAt(s, i)) = Len(s) - 1
           /\ \A j \in 1 .. Len(s) - 1 : RemoveAt(s, i)[j] = IF j < i THEN s[j] ELSE s[j + 1]
<1>1. Len(s) \in Nat /\ i \in Nat /\ 1 <= i /\ i <= Len(s)
  OBVIOUS
<1>2. /\ SubSeq(s, 1, i - 1) \in Seq(S) /\ Len(SubSeq(s, 1, i - 1)) = i - 1
      /\ \A j \in 1 .. i - 1 : SubSeq(s, 1, i - 1)[j] = s[j]
  BY <1>1
<1>3. /\ SubSeq(s, i + 1, Len(s)) \in Seq(S) /\ Len(SubSeq(s, i + 1, Len(s))) = Len(s) - i
      /\ \A j \in 1 .. Len(s) - i : SubSeq(s, i + 1, Len(s))[j] = s[i + j]
  BY <1>1
<1> DEFINE p == SubSeq(s, 1, i - 1)
           q == SubSeq(s, i + 1, Len(s))
<1>4. RemoveAt(s, i) = p \o q
  BY DEF RemoveAt
<1>5. /\ p \in Seq(S) /\ Len(p) = i - 1 /\ \A j \in 1 .. i - 1 : p[j] = s[j]
      /\ q \in Seq(S) /\ Len(q) = Len(s) - i /\ \A j \in 1 .. Len(s) - i : q[j] = s[i + j]
  BY <1>2, <1>3
<1> HIDE DEF p, q
<1>6. /\ p \o q \in Seq(S) /\ Len(p \o q) = Len(p) + Len(q)
      /\ \A j \in 1 .. Len(p) + Len(q) : (p \o q)[j] = IF j <= Len(p) THEN p[j] ELSE q[j - Len(p)]
  BY <1>5, ConcatProperties
<1>7. ASSUME NEW j \in 1 .. Len(s) - 1
      PROVE  (p \o q)[j] = IF j < i THEN s[j] ELSE s[j + 1]
  <2>1. CASE j < i
    <3>1. j \in 1 .. i - 1 /\ j \in 1 .. Len(p) + Len(q) /\ j <= Len(p)
      BY <1>1, <1>5, <2>1
    <3> QED
      BY <1>5, <1>6, <2>1, <3>1
  <2>2. CASE ~(j < i)
    <3>1. /\ j - Len(p) \in 1 .. Len(s) - i /\ j \in 1 .. Len(p) + Len(q) /\ ~(j <= Len(p))
          /\ i + (j - Len(p)) = j + 1
      BY <1>1, <1>5, <2>2
    <3>2. q[j - Len(p)] = s[i + (j - Len(p))]
      BY <1>5, <3>1
    <3> QED
      BY <1>6, <2>2, <3>1, <3>2
  <2> QED
    BY <2>1, <2>2
<1>8. Len(p) + Len(q) = Len(s) - 1
  BY <1>1, <1>5
<1> QED
  BY <1>4, <1>6, <1>7, <1>8

\* The elements of a sequence are those at its positions.
LEMMA RangeSeq ==
    ASSUME NEW S, NEW s \in Seq(S), NEW e
    PROVE  e \in Range(s) <=> \E i \in 1 .. Len(s) : s[i] = e
<1>1. DOMAIN s = 1 .. Len(s)
  BY LenProperties
<1> QED
  BY <1>1 DEF Range

\* Without its element at i a sequence holds the others, each still once.
LEMMA RemoveAtDistinct ==
    ASSUME NEW S, NEW s \in Seq(S), NEW i \in 1 .. Len(s), Distinct(s)
    PROVE  Distinct(RemoveAt(s, i)) /\ Range(RemoveAt(s, i)) = Range(s) \ {s[i]}
<1> DEFINE r == RemoveAt(s, i)
<1>1. /\ r \in Seq(S) /\ Len(r) = Len(s) - 1 /\ Len(s) \in Nat /\ Len(r) \in Nat
      /\ \A j \in 1 .. Len(r) : r[j] = IF j < i THEN s[j] ELSE s[j + 1]
  BY RemoveAtSeq
<1> HIDE DEF r
<1>2. \A j \in 1 .. Len(r) : j \in 1 .. Len(s) /\ j + 1 \in 1 .. Len(s)
  BY <1>1
<1>3. Distinct(r)
  <2>1. ASSUME NEW j \in 1 .. Len(r), NEW k \in 1 .. Len(r), r[j] = r[k]
        PROVE  j = k
    <3>1. PICK a \in 1 .. Len(s) : r[j] = s[a] /\ a = IF j < i THEN j ELSE j + 1
      BY <1>1, <1>2
    <3>2. PICK b \in 1 .. Len(s) : r[k] = s[b] /\ b = IF k < i THEN k ELSE k + 1
      BY <1>1, <1>2
    <3>3. a = b
      BY <2>1, <3>1, <3>2 DEF Distinct
    <3> QED
      BY <1>1, <3>1, <3>2, <3>3
  <2> QED
    BY <2>1 DEF Distinct
<1>4. ASSUME NEW e \in Range(r)
      PROVE  e \in Range(s) \ {s[i]}
  <2>1. PICK j \in 1 .. Len(r) : r[j] = e
    BY <1>1, <1>4, RangeSeq
  <2>2. CASE j < i
    BY <1>1, <1>2, <2>1, <2>2, RangeSeq DEF Distinct
  <2>3. CASE ~(j < i)
    <3>1. j + 1 # i /\ j + 1 \in 1 .. Len(s) /\ s[j + 1] = e
      BY <1>1, <1>2, <2>1, <2>3
    <3> QED
      BY <3>1, RangeSeq DEF Distinct
  <2> QED
    BY <2>2, <2>3
<1>5. ASSUME NEW e \in Range(s), e # s[i]
      PROVE  e \in Range(r)
  <2>1. PICK j \in 1 .. Len(s) : s[j] = e
    BY <1>5, RangeSeq
  <2>2. CASE j < i
    <3>1. j \in 1 .. Len(r) /\ r[j] = e
      BY <1>1, <2>1, <2>2
    <3> QED
      BY <1>1, <3>1, RangeSeq
  <2>3. CASE ~(j < i)
    <3>1. j # i
      BY <1>5, <2>1
    <3>2. j - 1 \in 1 .. Len(r) /\ ~(j - 1 < i) /\ (j - 1) + 1 = j
      BY <1>1, <2>1, <2>3, <3>1
    <3>3. r[j - 1] = e
      BY <1>1, <2>1, <3>2
    <3> QED
      BY <1>1, <3>2, <3>3, RangeSeq
  <2> QED
    BY <2>2, <2>3
<1> QED
  BY <1>3, <1>4, <1>5 DEF r

\* A new element at the end.
LEMMA AppendDistinct ==
    ASSUME NEW S, NEW s \in Seq(S), NEW e \in S, Distinct(s), e \notin Range(s)
    PROVE  /\ Append(s, e) \in Seq(S) /\ Len(Append(s, e)) = Len(s) + 1
           /\ Distinct(Append(s, e)) /\ Range(Append(s, e)) = Range(s) \cup {e}
<1> DEFINE r == Append(s, e)
<1>1. /\ r \in Seq(S) /\ Len(r) = Len(s) + 1 /\ Len(s) \in Nat
      /\ \A i \in 1 .. Len(s) : r[i] = s[i]
      /\ r[Len(s) + 1] = e
  BY AppendProperties
<1> HIDE DEF r
<1>2. \A i \in 1 .. Len(r) : i \in 1 .. Len(s) \/ i = Len(s) + 1
  BY <1>1
<1>3. 1 .. Len(s) \subseteq 1 .. Len(r) /\ Len(s) + 1 \in 1 .. Len(r)
  BY <1>1
<1>4. \A i \in 1 .. Len(s) : s[i] # e
  BY RangeSeq
<1>5. Distinct(r)
  BY <1>1, <1>2, <1>4 DEF Distinct
<1>6. \A x : x \in Range(r) <=> x \in Range(s) \/ x = e
  BY <1>1, <1>2, <1>3, RangeSeq
<1> QED
  BY <1>1, <1>5, <1>6 DEF r

\* The rest of a queue holds everything but its head.
LEMMA TailDistinct ==
    ASSUME NEW S, NEW s \in Seq(S), s # <<>>, Distinct(s)
    PROVE  /\ Head(s) \in Range(s) /\ Head(s) \in S
           /\ Tail(s) \in Seq(S) /\ Distinct(Tail(s)) /\ Range(Tail(s)) = Range(s) \ {Head(s)}
<1> DEFINE r == Tail(s)
<1>1. /\ r \in Seq(S) /\ Len(r) = Len(s) - 1 /\ Len(s) \in Nat /\ Len(s) >= 1 /\ Len(r) \in Nat
      /\ \A i \in 1 .. Len(r) : r[i] = s[i + 1]
      /\ Head(s) = s[1] /\ s[1] \in S
  OBVIOUS
<1> HIDE DEF r
<1>2. \A i \in 1 .. Len(r) : i + 1 \in 1 .. Len(s) /\ i + 1 # 1
  BY <1>1
<1>3. \A i \in 1 .. Len(s) : i = 1 \/ (i - 1 \in 1 .. Len(r) /\ (i - 1) + 1 = i)
  BY <1>1
<1>4. 1 \in 1 .. Len(s)
  BY <1>1
<1>5. Distinct(r)
  BY <1>1, <1>2 DEF Distinct
<1>6. ASSUME NEW x \in Range(r) PROVE x \in Range(s) \ {s[1]}
  <2>1. PICK i \in 1 .. Len(r) : r[i] = x
    BY <1>1, <1>6, RangeSeq
  <2> QED
    BY <1>1, <1>2, <1>4, <2>1, RangeSeq DEF Distinct
<1>7. ASSUME NEW x \in Range(s), x # s[1] PROVE x \in Range(r)
  <2>1. PICK i \in 1 .. Len(s) : s[i] = x
    BY <1>7, RangeSeq
  <2>2. i - 1 \in 1 .. Len(r) /\ r[i - 1] = x
    BY <1>1, <1>3, <1>7, <2>1
  <2> QED
    BY <1>1, <2>2, RangeSeq
<1>8. s[1] \in Range(s)
  BY <1>4, RangeSeq
<1> QED
  BY <1>1, <1>5, <1>6, <1>7, <1>8 DEF r

\* A set of numbers that is not empty has a least one.
LEMMA LeastExists ==
    ASSUME NEW T, T \subseteq Nat, T # {}
    PROVE  \E x \in T : \A y \in T : x <= y
<1>1. \E x \in T : \A y \in T : ~(<<y, x>> \in OpToRel(<, Nat))
  BY NatLessThanWellFounded, WFMin
<1>2. \A x, y \in Nat : ~(<<y, x>> \in OpToRel(<, Nat)) => x <= y
  BY DEF OpToRel
<1> QED
  BY <1>1, <1>2
=============================================================================
