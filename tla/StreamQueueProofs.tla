-------------------------- MODULE StreamQueueProofs --------------------------
(***************************************************************************)
(* Proofs about a stream queue, for every set of producers, every depth,   *)
(* every number of tokens and of resets.                                   *)
(*                                                                         *)
(* acquire, push, pop and release each move one credit between two of the  *)
(* counters, but three of the four are counters of tokens that the Tiles   *)
(* hold: the sum is inductive only together with the agreement of each     *)
(* counter with the tokens behind it, and that agreement needs every valid *)
(* token to be different from every other one, which their generation and  *)
(* their increasing sequence numbers give (TokensInOrder).                 *)
(***************************************************************************)
EXTENDS StreamQueue, FiniteSetTheorems, FunctionTheorems, TLAPS

IInv == CreditInvariant /\ IsFiniteSet(popped)

-----------------------------------------------------------------------------
(* Counting the valid tokens of a queue.                                   *)

\* The places of a queue that hold a valid token are finitely many.
LEMMA ValidFinite ==
    ASSUME NEW q \in Seq(Token)
    PROVE  IsFiniteSet(ValidAt(q)) /\ ValidIn(q) \in Nat
<1>1. Len(q) \in Nat
  OBVIOUS
<1>2. IsFiniteSet(1 .. Len(q))
  BY <1>1, FS_Interval
<1>3. ValidAt(q) \in SUBSET (1 .. Len(q))
  BY DEF ValidAt
<1> QED
  BY <1>2, <1>3, FS_Subset, FS_CardinalityType DEF ValidIn

\* Appending a token adds its place when it is valid.
LEMMA ValidAppend ==
    ASSUME NEW q \in Seq(Token), NEW t \in Token
    PROVE  /\ Append(q, t) \in Seq(Token)
           /\ ValidAt(Append(q, t)) = ValidAt(q) \cup (IF IsValid(t) THEN {Len(q) + 1} ELSE {})
           /\ ValidIn(Append(q, t)) = ValidIn(q) + (IF IsValid(t) THEN 1 ELSE 0)
<1>1. /\ Append(q, t) \in Seq(Token) /\ Len(Append(q, t)) = Len(q) + 1 /\ Len(q) \in Nat
      /\ \A i \in 1 .. Len(q) : Append(q, t)[i] = q[i]
      /\ Append(q, t)[Len(q) + 1] = t
  OBVIOUS
<1>2. 1 .. Len(q) + 1 = (1 .. Len(q)) \cup {Len(q) + 1}
  BY <1>1
<1>3. ValidAt(Append(q, t)) = ValidAt(q) \cup (IF IsValid(t) THEN {Len(q) + 1} ELSE {})
  BY <1>1, <1>2 DEF ValidAt
<1>4. Len(q) + 1 \notin ValidAt(q)
  BY <1>1 DEF ValidAt
<1>5. IsFiniteSet(ValidAt(q)) /\ ValidIn(q) \in Nat
  BY ValidFinite
<1>6. CASE IsValid(t)
  <2>1. ValidAt(Append(q, t)) = ValidAt(q) \cup {Len(q) + 1}
    BY <1>3, <1>6
  <2>2. Cardinality(ValidAt(q) \cup {Len(q) + 1}) = Cardinality(ValidAt(q)) + 1
    BY <1>4, <1>5, FS_AddElement
  <2> QED
    BY <1>1, <1>3, <1>5, <1>6, <2>1, <2>2 DEF ValidIn
<1>7. CASE ~IsValid(t)
  <2>1. ValidAt(Append(q, t)) = ValidAt(q)
    BY <1>3, <1>7
  <2> QED
    BY <1>1, <1>3, <1>5, <1>7, <2>1 DEF ValidIn
<1> QED
  BY <1>6, <1>7

\* Taking the head away moves every place by one.
LEMMA ValidTail ==
    ASSUME NEW q \in Seq(Token), q # <<>>
    PROVE  /\ Tail(q) \in Seq(Token) /\ Head(q) = q[1] /\ Head(q) \in Token
           /\ \A i \in ValidAt(Tail(q)) : i + 1 \in ValidAt(q) /\ i >= 1 /\ Tail(q)[i] = q[i + 1]
           /\ ValidIn(q) = ValidIn(Tail(q)) + (IF IsValid(Head(q)) THEN 1 ELSE 0)
           /\ IsValid(Head(q)) <=> 1 \in ValidAt(q)
<1> DEFINE r == Tail(q)
           f == [i \in ValidAt(r) |-> i + 1]
           rest == ValidAt(q) \ {1}
<1>1. /\ r \in Seq(Token) /\ Len(q) \in Nat /\ Len(q) >= 1 /\ Len(r) = Len(q) - 1
      /\ \A i \in 1 .. Len(r) : r[i] = q[i + 1]
      /\ Head(q) = q[1] /\ q[1] \in Token
  OBVIOUS
<1>2. \A i \in ValidAt(r) : i + 1 \in rest /\ i >= 1 /\ i \in Nat /\ r[i] = q[i + 1]
  BY <1>1 DEF ValidAt
<1>3. \A j \in rest : j - 1 \in ValidAt(r) /\ j \in Nat
  BY <1>1 DEF ValidAt
<1>4. f \in [ValidAt(r) -> rest]
  BY <1>2
<1>5. \A a, b \in ValidAt(r) : f[a] = f[b] => a = b
  BY <1>2
<1>6. \A j \in rest : \E i \in ValidAt(r) : f[i] = j
  <2> TAKE j \in rest
  <2>1. j - 1 \in ValidAt(r) /\ f[j - 1] = j
    BY <1>3
  <2> QED
    BY <2>1
<1> HIDE DEF f, rest, r
<1>7. f \in Bijection(ValidAt(r), rest)
  BY <1>4, <1>5, <1>6, Fun_IsBij
<1>8. ExistsBijection(ValidAt(r), rest)
  BY <1>7 DEF ExistsBijection
<1>9. IsFiniteSet(ValidAt(r)) /\ ValidIn(r) \in Nat /\ IsFiniteSet(ValidAt(q)) /\ ValidIn(q) \in Nat
  BY <1>1, ValidFinite
<1>10. Cardinality(rest) = ValidIn(r)
  BY <1>8, <1>9, FS_Bijection DEF ValidIn
<1>11. Cardinality(rest) = IF 1 \in ValidAt(q) THEN Cardinality(ValidAt(q)) - 1 ELSE Cardinality(ValidAt(q))
  BY <1>9, FS_RemoveElement DEF rest
<1>12. IsValid(Head(q)) <=> 1 \in ValidAt(q)
  BY <1>1 DEF ValidAt
<1>13. ValidIn(q) = ValidIn(r) + (IF IsValid(Head(q)) THEN 1 ELSE 0)
  BY <1>9, <1>10, <1>11, <1>12 DEF ValidIn
<1> QED
  BY <1>1, <1>2, <1>12, <1>13 DEF r, rest

\* The fields of a token.
LEMMA TokenFields ==
    ASSUME NEW t \in Token
    PROVE  t.producer \in Producers /\ t.seq \in Nat /\ t.gen \in Nat
BY DEF Token

\* What holds a valid token is a place of the queue.
LEMMA ValidPlace ==
    ASSUME NEW q \in Seq(Token), NEW i \in ValidAt(q)
    PROVE  i \in 1 .. Len(q) /\ i \in Nat /\ q[i] \in Token
<1>1. Len(q) \in Nat /\ i \in 1 .. Len(q)
  BY DEF ValidAt
<1> QED
  BY <1>1

\* The leases are finitely many, whatever the queue does.
LEMMA LeasesFinite ==
    ASSUME inHand \subseteq Producers \X Registers
    PROVE  IsFiniteSet(inHand) /\ Cardinality(inHand) \in Nat
<1>1. IsFiniteSet(Registers)
  BY StreamAssumption, FS_Interval DEF Registers
<1>2. IsFiniteSet(Producers \X Registers)
  BY <1>1, StreamAssumption, FS_Product
<1> QED
  BY <1>2, FS_Subset, FS_CardinalityType

-----------------------------------------------------------------------------
(* The inductive invariant.                                                *)

\* The valid ones of a set of popped tokens.
ValidOf(T) == {t \in T : IsValid(t)}

\* What the steps use of the invariant.
LEMMA Counts ==
    ASSUME IInv
    PROVE  /\ fifo \in Seq(Token) /\ popped \subseteq Token /\ inHand \subseteq Producers \X Registers
           /\ available \in Nat /\ leased \in Nat /\ unreleased \in Nat /\ ValidIn(fifo) \in Nat
           /\ IsFiniteSet(inHand) /\ Cardinality(inHand) = leased
           /\ IsFiniteSet(ValidOf(popped)) /\ Cardinality(ValidOf(popped)) = unreleased
           /\ available + leased + ValidIn(fifo) + unreleased = Depth
           /\ nextSeq \in [Producers -> Nat] /\ generation \in Nat /\ Depth \in Nat
<1>1. TypeOK /\ CreditsAddUp /\ IsFiniteSet(popped)
  BY DEF IInv, CreditInvariant
<1>2. ValidOf(popped) \in SUBSET popped
  BY DEF ValidOf
<1>3. IsFiniteSet(ValidOf(popped))
  BY <1>1, <1>2, FS_Subset
<1>4. available \in Nat /\ leased \in Nat /\ unreleased \in Nat /\ Depth \in Nat
  BY <1>1, StreamAssumption DEF TypeOK
<1> QED
  BY <1>1, <1>3, <1>4, LeasesFinite, ValidFinite DEF TypeOK, CreditsAddUp, ValidOf

\* Counters that add up to the depth stay within it.
LEMMA Bounded ==
    ASSUME NEW a \in Nat, NEW b \in Nat, NEW c \in Nat, NEW d \in Nat, Depth = a + b + c + d
    PROVE  a \in 0 .. Depth /\ b \in 0 .. Depth /\ d \in 0 .. Depth
BY StreamAssumption

\* acquire() moves a credit from the queue to a lease of the producer.
LEMMA AcquireStep ==
    ASSUME IInv, NEW p \in Producers, NEW r \in Registers, Acquire(p, r)
    PROVE  IInv'
<1>n. /\ available \in Nat /\ leased \in Nat /\ unreleased \in Nat /\ ValidIn(fifo) \in Nat /\ Depth \in Nat
      /\ available + leased + ValidIn(fifo) + unreleased = Depth
  BY Counts
<1>s. /\ fifo \in Seq(Token) /\ popped \subseteq Token /\ inHand \subseteq Producers \X Registers
      /\ IsFiniteSet(inHand) /\ Cardinality(inHand) = leased
      /\ IsFiniteSet(ValidOf(popped)) /\ Cardinality(ValidOf(popped)) = unreleased
      /\ nextSeq \in [Producers -> Nat] /\ generation \in Nat
  BY Counts
<1>1. /\ available > 0 /\ available' = available - 1 /\ leased' = leased + 1
      /\ <<p, r>> \notin inHand /\ inHand' = inHand \cup {<<p, r>>}
      /\ UNCHANGED <<fifo, unreleased, eos, nextSeq, faulted, generation, popped>>
  BY DEF Acquire
<1>2. Cardinality(inHand') = leased + 1
  BY <1>1, <1>n, <1>s, FS_AddElement
<1>3. inHand' \subseteq Producers \X Registers
  BY <1>1, <1>n, <1>s
<1>4. available' \in Nat /\ leased' \in Nat /\ available' + leased' + ValidIn(fifo) + unreleased = Depth
  BY <1>1, <1>n
<1>5. available' \in 0 .. Depth /\ leased' \in 0 .. Depth /\ unreleased \in 0 .. Depth
  BY <1>4, <1>n, <1>s, Bounded
<1>6. TypeOK' /\ CreditsAddUp'
  BY <1>1, <1>2, <1>3, <1>4, <1>5 DEF TypeOK, CreditsAddUp, IInv, CreditInvariant
<1>7. TokensInOrder'
  BY <1>1 DEF TokensInOrder, IInv, CreditInvariant, ValidAt, IsValid
<1> QED
  BY <1>1, <1>6, <1>7 DEF IInv, CreditInvariant

\* push() of a valid token moves a credit from the lease to the queue, and the
\* token is the youngest of its producer.
LEMMA PushStep ==
    ASSUME IInv, NEW p \in Producers, NEW r \in Registers, Push(p, r)
    PROVE  IInv'
<1>n. /\ available \in Nat /\ leased \in Nat /\ unreleased \in Nat /\ ValidIn(fifo) \in Nat /\ Depth \in Nat
      /\ available + leased + ValidIn(fifo) + unreleased = Depth
  BY Counts
<1>s. /\ fifo \in Seq(Token) /\ popped \subseteq Token /\ inHand \subseteq Producers \X Registers
      /\ IsFiniteSet(inHand) /\ Cardinality(inHand) = leased
      /\ IsFiniteSet(ValidOf(popped)) /\ Cardinality(ValidOf(popped)) = unreleased
      /\ nextSeq \in [Producers -> Nat] /\ generation \in Nat
  BY Counts
<1> DEFINE t == [producer |-> p, eos |-> FALSE, seq |-> nextSeq[p], gen |-> generation]
<1>1. /\ <<p, r>> \in inHand /\ inHand' = inHand \ {<<p, r>>} /\ fifo' = Append(fifo, t)
      /\ nextSeq' = [nextSeq EXCEPT ![p] = @ + 1]
      /\ leased' = IF leased > 0 THEN leased - 1 ELSE leased
      /\ UNCHANGED <<available, unreleased, eos, faulted, generation, popped>>
  BY DEF Push
<1>2. t \in Token /\ IsValid(t) /\ t.producer = p /\ t.seq = nextSeq[p] /\ t.gen = generation
  BY <1>n, <1>s DEF Token, IsValid
<1> HIDE DEF t
<1>3. Cardinality(inHand') = leased - 1
  BY <1>1, <1>n, <1>s, FS_RemoveElement
<1>4. leased > 0
  <2>1. IsFiniteSet(inHand')
    BY <1>1, <1>n, <1>s, FS_RemoveElement
  <2>2. Cardinality(inHand') \in Nat
    BY <2>1, FS_CardinalityType
  <2> QED
    BY <1>3, <2>2, <1>n, <1>s
<1>5. leased' = leased - 1 /\ leased' \in Nat
  BY <1>1, <1>4, <1>n, <1>s
<1>6. /\ fifo' \in Seq(Token) /\ ValidIn(fifo') = ValidIn(fifo) + 1
      /\ ValidAt(fifo') = ValidAt(fifo) \cup {Len(fifo) + 1}
  BY <1>1, <1>2, <1>n, <1>s, ValidAppend
<1>7. available + leased' + ValidIn(fifo') + unreleased = Depth /\ ValidIn(fifo') \in Nat
  BY <1>5, <1>6, <1>n
<1>8. available \in 0 .. Depth /\ leased' \in 0 .. Depth /\ unreleased \in 0 .. Depth
  BY <1>5, <1>7, <1>n, <1>s, Bounded
<1>9. nextSeq' \in [Producers -> Nat] /\ \A q \in Producers : nextSeq[q] <= nextSeq'[q]
  BY <1>1, <1>s
<1>10. inHand' \subseteq Producers \X Registers
  BY <1>1, <1>n, <1>s
<1>11. TypeOK' /\ CreditsAddUp'
  BY <1>1, <1>3, <1>5, <1>6, <1>7, <1>8, <1>9, <1>10 DEF TypeOK, CreditsAddUp, IInv, CreditInvariant
<1>12. TokensInOrder'
  <2>1. Len(fifo) \in Nat /\ fifo'[Len(fifo) + 1] = t /\ \A i \in 1 .. Len(fifo) : fifo'[i] = fifo[i]
    BY <1>1, <1>2, <1>n, <1>s
  <2>2. \A i \in ValidAt(fifo) : /\ i \in 1 .. Len(fifo) /\ fifo'[i] = fifo[i] /\ fifo[i] \in Token
                                 /\ fifo[i].producer \in Producers /\ fifo[i].seq \in Nat
    <3> TAKE i \in ValidAt(fifo)
    <3>1. i \in 1 .. Len(fifo) /\ fifo[i] \in Token
      BY <1>s, ValidPlace
    <3> QED
      BY <2>1, <3>1, TokenFields
  <2>3. \A i \in ValidAt(fifo) : fifo[i].gen = generation /\ fifo[i].seq < nextSeq[fifo[i].producer]
    BY DEF IInv, CreditInvariant, TokensInOrder
  <2>4. nextSeq'[p] = nextSeq[p] + 1 /\ nextSeq[p] \in Nat
    BY <1>1, <1>n, <1>s
  <2>5. \A i \in ValidAt(fifo') :
           fifo'[i].gen = generation' /\ fifo'[i].seq < nextSeq'[fifo'[i].producer]
    <3> TAKE i \in ValidAt(fifo')
    <3>1. CASE i = Len(fifo) + 1
      BY <1>1, <1>2, <2>1, <2>4, <3>1
    <3>2. CASE i \in ValidAt(fifo)
      <4>1. /\ fifo'[i] = fifo[i] /\ fifo[i].producer \in Producers /\ fifo[i].seq \in Nat
            /\ fifo[i].gen = generation /\ fifo[i].seq < nextSeq[fifo[i].producer]
        BY <2>2, <2>3, <3>2
      <4>2. /\ nextSeq[fifo[i].producer] <= nextSeq'[fifo[i].producer]
            /\ nextSeq[fifo[i].producer] \in Nat /\ nextSeq'[fifo[i].producer] \in Nat
        BY <1>9, <1>s, <4>1
      <4>3. generation' = generation
        BY <1>1
      <4> QED
        BY <4>1, <4>2, <4>3
    <3> QED
      BY <1>6, <3>1, <3>2
  <2>6. \A i, j \in ValidAt(fifo') :
           i < j /\ fifo'[i].producer = fifo'[j].producer => fifo'[i].seq < fifo'[j].seq
    <3> TAKE i, j \in ValidAt(fifo')
    <3> HAVE i < j /\ fifo'[i].producer = fifo'[j].producer
    <3>1. i \in ValidAt(fifo)
      BY <1>6, <2>1, <2>2
    <3>2. CASE j = Len(fifo) + 1
      BY <1>2, <2>1, <2>2, <2>3, <3>1, <3>2
    <3>3. CASE j \in ValidAt(fifo)
      BY <2>2, <3>1, <3>3 DEF IInv, CreditInvariant, TokensInOrder
    <3> QED
      BY <1>6, <3>2, <3>3
  <2>7. \A u \in popped' : IsValid(u) =>
           /\ u.gen = generation' /\ u.seq < nextSeq'[u.producer]
           /\ \A i \in ValidAt(fifo') : fifo'[i].producer = u.producer => u.seq < fifo'[i].seq
    <3> TAKE u \in popped'
    <3> HAVE IsValid(u)
    <3>1. u \in popped /\ u \in Token /\ u.producer \in Producers /\ u.seq \in Nat
      BY <1>1, <1>n, <1>s DEF Token
    <3>2. /\ u.gen = generation /\ u.seq < nextSeq[u.producer]
          /\ \A i \in ValidAt(fifo) : fifo[i].producer = u.producer => u.seq < fifo[i].seq
      BY <3>1 DEF IInv, CreditInvariant, TokensInOrder
    <3>3. u.seq < nextSeq'[u.producer]
      BY <1>9, <3>1, <3>2, <1>n, <1>s
    <3>4. ASSUME NEW i \in ValidAt(fifo'), fifo'[i].producer = u.producer
          PROVE  u.seq < fifo'[i].seq
      <4>1. CASE i = Len(fifo) + 1
        BY <1>2, <2>1, <3>2, <3>4, <4>1
      <4>2. CASE i \in ValidAt(fifo)
        BY <2>2, <3>2, <3>4, <4>2
      <4> QED
        BY <1>6, <4>1, <4>2
    <3> QED
      BY <1>1, <3>2, <3>3, <3>4
  <2> QED
    BY <2>5, <2>6, <2>7 DEF TokensInOrder
<1> QED
  BY <1>1, <1>11, <1>12 DEF IInv, CreditInvariant

\* push_eos() queues a token that carries no credit.
LEMMA PushEosStep ==
    ASSUME IInv, NEW p \in Producers, PushEos(p)
    PROVE  IInv'
<1>n. /\ available \in Nat /\ leased \in Nat /\ unreleased \in Nat /\ ValidIn(fifo) \in Nat /\ Depth \in Nat
      /\ available + leased + ValidIn(fifo) + unreleased = Depth
  BY Counts
<1>s. /\ fifo \in Seq(Token) /\ popped \subseteq Token /\ inHand \subseteq Producers \X Registers
      /\ IsFiniteSet(inHand) /\ Cardinality(inHand) = leased
      /\ IsFiniteSet(ValidOf(popped)) /\ Cardinality(ValidOf(popped)) = unreleased
      /\ nextSeq \in [Producers -> Nat] /\ generation \in Nat
  BY Counts
<1> DEFINE t == [producer |-> p, eos |-> TRUE, seq |-> 0, gen |-> 0]
<1>1. /\ fifo' = Append(fifo, t) /\ eos' = eos \cup {p}
      /\ UNCHANGED <<available, leased, unreleased, nextSeq, faulted, generation, inHand, popped>>
  BY DEF PushEos
<1>2. t \in Token /\ ~IsValid(t)
  BY DEF Token, IsValid
<1> HIDE DEF t
<1>3. fifo' \in Seq(Token) /\ ValidIn(fifo') = ValidIn(fifo) /\ ValidAt(fifo') = ValidAt(fifo)
  <2>1. fifo' = Append(fifo, t) /\ fifo \in Seq(Token) /\ t \in Token
    BY <1>1, <1>2, <1>s
  <2>2. ValidAt(fifo') = ValidAt(fifo) \cup (IF IsValid(t) THEN {Len(fifo) + 1} ELSE {})
    BY <2>1, ValidAppend
  <2>3. ValidAt(fifo') = ValidAt(fifo)
    BY <1>2, <2>2
  <2> QED
    BY <2>1, <2>3, ValidAppend DEF ValidIn
<1>4. \A i \in ValidAt(fifo) : fifo'[i] = fifo[i]
  BY <1>1, <1>2, <1>n, <1>s DEF ValidAt
<1>5. TypeOK' /\ CreditsAddUp'
  BY <1>1, <1>3 DEF TypeOK, CreditsAddUp, IInv, CreditInvariant
<1>6. TokensInOrder'
  <2>1. TokensInOrder /\ generation' = generation /\ nextSeq' = nextSeq /\ popped' = popped
    BY <1>1 DEF IInv, CreditInvariant
  <2>2. \A i \in ValidAt(fifo') :
           fifo'[i].gen = generation' /\ fifo'[i].seq < nextSeq'[fifo'[i].producer]
    BY <1>3, <1>4, <2>1 DEF TokensInOrder
  <2>3. \A i, j \in ValidAt(fifo') :
           i < j /\ fifo'[i].producer = fifo'[j].producer => fifo'[i].seq < fifo'[j].seq
    BY <1>3, <1>4, <2>1 DEF TokensInOrder
  <2>4. \A u \in popped' : IsValid(u) =>
           /\ u.gen = generation' /\ u.seq < nextSeq'[u.producer]
           /\ \A i \in ValidAt(fifo') : fifo'[i].producer = u.producer => u.seq < fifo'[i].seq
    BY <1>3, <1>4, <2>1 DEF TokensInOrder
  <2> QED
    BY <2>2, <2>3, <2>4 DEF TokensInOrder
<1> QED
  BY <1>1, <1>5, <1>6 DEF IInv, CreditInvariant

\* pop() moves the credit of the head to the consumer, who cannot already hold
\* that token.
LEMMA PopStep ==
    ASSUME IInv, Pop
    PROVE  IInv'
<1>n. /\ available \in Nat /\ leased \in Nat /\ unreleased \in Nat /\ ValidIn(fifo) \in Nat /\ Depth \in Nat
      /\ available + leased + ValidIn(fifo) + unreleased = Depth
  BY Counts
<1>s. /\ fifo \in Seq(Token) /\ popped \subseteq Token /\ inHand \subseteq Producers \X Registers
      /\ IsFiniteSet(inHand) /\ Cardinality(inHand) = leased
      /\ IsFiniteSet(ValidOf(popped)) /\ Cardinality(ValidOf(popped)) = unreleased
      /\ nextSeq \in [Producers -> Nat] /\ generation \in Nat
  BY Counts
<1> DEFINE h == Head(fifo)
<1>1. /\ fifo # <<>> /\ fifo' = Tail(fifo) /\ popped' = popped \cup {h}
      /\ unreleased' = IF IsValid(h) THEN unreleased + 1 ELSE unreleased
      /\ UNCHANGED <<available, leased, eos, nextSeq, faulted, generation, inHand>>
  BY DEF Pop
<1>2. /\ fifo' \in Seq(Token) /\ h = fifo[1] /\ h \in Token
      /\ \A i \in ValidAt(fifo') : i + 1 \in ValidAt(fifo) /\ i >= 1 /\ fifo'[i] = fifo[i + 1]
      /\ ValidIn(fifo) = ValidIn(fifo') + (IF IsValid(h) THEN 1 ELSE 0)
      /\ IsValid(h) <=> 1 \in ValidAt(fifo)
  BY <1>1, <1>n, <1>s, ValidTail
<1> HIDE DEF h
<1>3. ValidIn(fifo') \in Nat /\ \A i \in ValidAt(fifo) \cup ValidAt(fifo') : i \in Nat
  BY <1>2, <1>s, ValidFinite, ValidPlace
<1>4. IsValid(h) => h \notin popped
  <2> SUFFICES ASSUME IsValid(h), h \in popped PROVE FALSE
    OBVIOUS
  <2>1. \A i \in ValidAt(fifo) : fifo[i].producer = h.producer => h.seq < fifo[i].seq
    BY DEF IInv, CreditInvariant, TokensInOrder
  <2>2. h.seq < h.seq /\ h.seq \in Nat
    BY <1>2, <2>1, TokenFields
  <2> QED
    BY <2>2
<1>5. ValidOf(popped') = IF IsValid(h) THEN ValidOf(popped) \cup {h} ELSE ValidOf(popped)
  BY <1>1 DEF ValidOf
<1>6. IsValid(h) => h \notin ValidOf(popped)
  BY <1>4 DEF ValidOf
<1>7. Cardinality(ValidOf(popped')) = unreleased'
  <2>1. CASE IsValid(h)
    <3>1. Cardinality(ValidOf(popped) \cup {h}) = Cardinality(ValidOf(popped)) + 1
      BY <1>6, <2>1, <1>n, <1>s, FS_AddElement
    <3> QED
      BY <1>1, <1>5, <2>1, <3>1, <1>n, <1>s
  <2>2. CASE ~IsValid(h)
    BY <1>1, <1>5, <2>2, <1>n, <1>s
  <2> QED
    BY <2>1, <2>2
<1>8. unreleased' \in Nat /\ available + leased + ValidIn(fifo') + unreleased' = Depth
  <2>1. CASE IsValid(h)
    BY <1>1, <1>2, <1>3, <1>n, <2>1
  <2>2. CASE ~IsValid(h)
    BY <1>1, <1>2, <1>3, <1>n, <2>2
  <2> QED
    BY <2>1, <2>2
<1>9. available \in 0 .. Depth /\ leased \in 0 .. Depth /\ unreleased' \in 0 .. Depth
  BY <1>3, <1>8, <1>n, <1>s, Bounded
<1>10. popped' \subseteq Token /\ IsFiniteSet(popped')
  BY <1>1, <1>2, <1>n, <1>s, FS_AddElement DEF IInv
<1>11. TypeOK' /\ CreditsAddUp'
  BY <1>1, <1>2, <1>7, <1>8, <1>9, <1>10 DEF TypeOK, CreditsAddUp, ValidOf, IInv, CreditInvariant
<1>12. TokensInOrder'
  <2>1. /\ \A i \in ValidAt(fifo) :
              fifo[i].gen = generation /\ fifo[i].seq < nextSeq[fifo[i].producer]
        /\ \A i, j \in ValidAt(fifo) :
              i < j /\ fifo[i].producer = fifo[j].producer => fifo[i].seq < fifo[j].seq
        /\ \A t \in popped : IsValid(t) =>
              /\ t.gen = generation /\ t.seq < nextSeq[t.producer]
              /\ \A i \in ValidAt(fifo) : fifo[i].producer = t.producer => t.seq < fifo[i].seq
    BY DEF IInv, CreditInvariant, TokensInOrder
  <2>2. \A i \in ValidAt(fifo') :
           fifo'[i].gen = generation' /\ fifo'[i].seq < nextSeq'[fifo'[i].producer]
    BY <1>1, <1>2, <2>1
  <2>3. \A i, j \in ValidAt(fifo') :
           i < j /\ fifo'[i].producer = fifo'[j].producer => fifo'[i].seq < fifo'[j].seq
    <3> TAKE i, j \in ValidAt(fifo')
    <3>1. i < j => i + 1 < j + 1
      BY <1>3
    <3> QED
      BY <1>2, <2>1, <3>1
  <2>4. \A t \in popped' : IsValid(t) =>
           /\ t.gen = generation' /\ t.seq < nextSeq'[t.producer]
           /\ \A i \in ValidAt(fifo') : fifo'[i].producer = t.producer => t.seq < fifo'[i].seq
    <3> TAKE t \in popped'
    <3> HAVE IsValid(t)
    <3>1. CASE t \in popped
      BY <1>1, <1>2, <2>1, <3>1
    <3>2. CASE t = h
      <4>1. 1 \in ValidAt(fifo) /\ t = fifo[1]
        BY <1>2, <3>2
      <4>2. \A i \in ValidAt(fifo') : 1 < i + 1
        BY <1>2, <1>3
      <4> QED
        BY <1>1, <1>2, <2>1, <4>1, <4>2
    <3> QED
      BY <1>1, <3>1, <3>2
  <2> QED
    BY <2>2, <2>3, <2>4 DEF TokensInOrder
<1> QED
  BY <1>10, <1>11, <1>12 DEF IInv, CreditInvariant

\* release() gives the credit of a popped token back to the queue.
LEMMA ReleaseStep ==
    ASSUME IInv, NEW t \in popped, Release(t)
    PROVE  IInv'
<1>n. /\ available \in Nat /\ leased \in Nat /\ unreleased \in Nat /\ ValidIn(fifo) \in Nat /\ Depth \in Nat
      /\ available + leased + ValidIn(fifo) + unreleased = Depth
  BY Counts
<1>s. /\ fifo \in Seq(Token) /\ popped \subseteq Token /\ inHand \subseteq Producers \X Registers
      /\ IsFiniteSet(inHand) /\ Cardinality(inHand) = leased
      /\ IsFiniteSet(ValidOf(popped)) /\ Cardinality(ValidOf(popped)) = unreleased
      /\ nextSeq \in [Producers -> Nat] /\ generation \in Nat
  BY Counts
<1>1. /\ popped' = popped \ {t}
      /\ unreleased' = IF IsValid(t) THEN unreleased - 1 ELSE unreleased
      /\ available' = IF IsValid(t) THEN available + 1 ELSE available
      /\ UNCHANGED <<fifo, leased, eos, nextSeq, faulted, generation, inHand>>
  BY DEF Release
<1>2. ValidOf(popped') = ValidOf(popped) \ {t} /\ (IsValid(t) <=> t \in ValidOf(popped))
  BY <1>1 DEF ValidOf
<1>3. /\ IsFiniteSet(ValidOf(popped) \ {t})
      /\ Cardinality(ValidOf(popped) \ {t}) =
            IF t \in ValidOf(popped) THEN Cardinality(ValidOf(popped)) - 1 ELSE Cardinality(ValidOf(popped))
  BY <1>n, <1>s, FS_RemoveElement
<1>4. Cardinality(ValidOf(popped')) = unreleased' /\ unreleased' \in Nat
  BY <1>1, <1>2, <1>3, <1>n, <1>s, FS_CardinalityType
<1>5. available' \in Nat /\ available' + leased + ValidIn(fifo) + unreleased' = Depth
  BY <1>1, <1>n, <1>s
<1>6. available' \in 0 .. Depth /\ leased \in 0 .. Depth /\ unreleased' \in 0 .. Depth
  BY <1>4, <1>5, <1>n, <1>s, Bounded
<1>7. IsFiniteSet(popped')
  BY <1>1, FS_RemoveElement DEF IInv
<1>8. TypeOK' /\ CreditsAddUp'
  BY <1>1, <1>4, <1>5, <1>6 DEF TypeOK, CreditsAddUp, ValidOf, IInv, CreditInvariant
<1>9. TokensInOrder'
  BY <1>1 DEF TokensInOrder, IInv, CreditInvariant, ValidAt, IsValid
<1> QED
  BY <1>7, <1>8, <1>9 DEF IInv, CreditInvariant

\* A new queue, and a queue that was reset after its users were isolated, has
\* all its credits and no token.
LEMMA Fresh ==
    ASSUME fifo = <<>>, available = Depth, leased = 0, unreleased = 0, eos = {},
           nextSeq = [p \in Producers |-> 0], faulted \in BOOLEAN, generation \in Nat,
           inHand = {}, popped = {}
    PROVE  IInv
<1>1. ValidAt(fifo) = {} /\ fifo \in Seq(Token)
  BY DEF ValidAt
<1>2. ValidIn(fifo) = 0 /\ Cardinality({}) = 0 /\ IsFiniteSet({})
  BY <1>1, FS_EmptySet DEF ValidIn
<1>3. {t \in popped : IsValid(t)} = {}
  OBVIOUS
<1>4. TypeOK
  BY <1>1, StreamAssumption DEF TypeOK
<1>5. CreditsAddUp
  BY <1>2, <1>3, StreamAssumption DEF CreditsAddUp
<1>6. TokensInOrder
  BY <1>1 DEF TokensInOrder
<1> QED
  BY <1>2, <1>4, <1>5, <1>6 DEF IInv, CreditInvariant

\* Every step keeps the invariant when the users of a queue are isolated before
\* it is reset.
LEMMA NextIInv ==
    ASSUME Isolated, IInv, [Next]_vars
    PROVE  IInv'
<1>1. CASE \E p \in Producers, r \in Registers : Acquire(p, r) \/ Push(p, r)
  BY <1>1, AcquireStep, PushStep
<1>2. ASSUME NEW p \in Producers, PushError(p) PROVE IInv'
  <2>1. faulted' = TRUE /\ UNCHANGED <<fifo, available, leased, unreleased, eos, nextSeq, generation, inHand, popped>>
    BY <1>2 DEF PushError
  <2> QED
    BY <2>1 DEF IInv, CreditInvariant, TypeOK, CreditsAddUp, TokensInOrder, ValidIn, ValidAt, IsValid
<1>3. CASE \E p \in Producers : PushEos(p)
  BY <1>3, PushEosStep
<1>4. CASE Pop
  BY <1>4, PopStep
<1>5. CASE \E t \in popped : Release(t)
  BY <1>5, ReleaseStep
<1>6. CASE Reset
  <2>1. generation \in Nat
    BY Counts
  <2>2. /\ fifo' = <<>> /\ available' = Depth /\ leased' = 0 /\ unreleased' = 0 /\ eos' = {}
        /\ nextSeq' = [p \in Producers |-> 0] /\ faulted' \in BOOLEAN /\ generation' \in Nat
        /\ inHand' = {} /\ popped' = {}
    <3>1. inHand' = {} /\ popped' = {}
      BY <1>6, Zenon DEF Reset
    <3>2. generation' = generation + 1 /\ faulted' = FALSE
      BY <1>6 DEF Reset
    <3>3. /\ fifo' = <<>> /\ available' = Depth /\ leased' = 0 /\ unreleased' = 0 /\ eos' = {}
          /\ nextSeq' = [p \in Producers |-> 0]
      BY <1>6 DEF Reset
    <3>4. generation' \in Nat
      BY <2>1, <3>2
    <3>5. faulted' \in BOOLEAN
      BY <3>2
    <3> QED
      BY <3>1, <3>3, <3>4, <3>5, Zenon
  <2>3. ValidAt(fifo') = {} /\ fifo' \in Seq(Token)
    BY <2>2 DEF ValidAt
  <2>4. ValidIn(fifo') = 0 /\ Cardinality({}) = 0 /\ IsFiniteSet({})
    BY <2>3, FS_EmptySet DEF ValidIn
  <2>5. {t \in popped' : IsValid(t)} = {}
    BY <2>2
  <2>6. TypeOK'
    BY <2>2, <2>3, StreamAssumption DEF TypeOK
  <2>7. CreditsAddUp'
    BY <2>2, <2>4, <2>5, StreamAssumption DEF CreditsAddUp
  <2>8. TokensInOrder'
    BY <2>2, <2>3 DEF TokensInOrder
  <2> QED
    BY <2>2, <2>4, <2>6, <2>7, <2>8 DEF IInv, CreditInvariant
<1>7. CASE UNCHANGED vars
  BY <1>7 DEF vars, queueVars, IInv, CreditInvariant, TypeOK, CreditsAddUp, TokensInOrder, ValidIn, ValidAt, IsValid
<1> QED
  BY <1>1, <1>2, <1>3, <1>4, <1>5, <1>6, <1>7 DEF Next, Finished

-----------------------------------------------------------------------------
(* The theorem.                                                            *)

\* The credits of a stream queue add up and its tokens stay in order in every
\* behaviour in which the users of the queue are isolated before it is reset,
\* as the Group reset FSM does.
THEOREM CreditsConserved == Isolated => (Spec => []CreditInvariant)
<1> SUFFICES ASSUME Isolated PROVE Spec => []CreditInvariant
  OBVIOUS
<1>1. ASSUME Init PROVE IInv
  <2>1. /\ fifo = <<>> /\ available = Depth /\ leased = 0 /\ unreleased = 0 /\ eos = {}
        /\ nextSeq = [p \in Producers |-> 0] /\ faulted \in BOOLEAN /\ generation \in Nat
        /\ inHand = {} /\ popped = {}
    BY <1>1 DEF Init
  <2> QED
    BY <2>1, Fresh
<1>2. IInv /\ [Next]_vars => IInv'
  BY NextIInv
<1>3. IInv => CreditInvariant
  BY DEF IInv
<1> QED
  BY <1>1, <1>2, <1>3, PTL DEF Spec
=============================================================================
