------------------------ MODULE TransferManagerProofs ------------------------
(***************************************************************************)
(* Proofs about the memory fabric, for every set of transfers and every    *)
(* size of the banks, the HBM CAM, the virtual channels and the terminal   *)
(* history.                                                                *)
(*                                                                         *)
(* What the manager promises is spread over its transactions and the       *)
(* stages and the router they cross, so the invariant IInv relates the     *)
(* two: a bank, a CAM entry or a flit exists exactly for a transaction on  *)
(* a leg of that kind (HoldersExact, FlitsExact), which needs every        *)
(* unfinished transaction to be on a leg of its route (LegsTrue).  A lost  *)
(* flit or a double release would break the credits (CreditsExact), an     *)
(* uncleared sleeper the wakeups (SleepersBlocked), and a transaction      *)
(* recorded twice the bound on the terminal history (HistoryTrue).         *)
(***************************************************************************)
EXTENDS TransferManager, DistinctSequences, FiniteSetTheorems, FunctionTheorems

-----------------------------------------------------------------------------
(* Queues of transactions.                                                 *)

\* Dropping an element leaves the others.
LEMMA DropDistinct ==
    ASSUME NEW S, NEW s \in Seq(S), NEW e, Distinct(s)
    PROVE  LET r == Drop(s, {i \in DOMAIN s : s[i] = e})
           IN  r \in Seq(S) /\ Distinct(r) /\ Range(r) = Range(s) \ {e}
<1> DEFINE at == {i \in DOMAIN s : s[i] = e}
<1>1. DOMAIN s = 1 .. Len(s)
  BY LenProperties
<1>2. CASE at = {}
  <2>1. Drop(s, at) = s
    BY <1>2 DEF Drop
  <2>2. e \notin Range(s)
    BY <1>1, <1>2, RangeSeq
  <2> QED
    BY <2>1, <2>2
<1>3. CASE at # {}
  <2> DEFINE i == CHOOSE k \in at : TRUE
  <2>1. i \in at
    BY <1>3
  <2>2. i \in 1 .. Len(s) /\ s[i] = e
    BY <1>1, <2>1
  <2>3. Drop(s, at) = RemoveAt(s, i)
    BY <1>3 DEF Drop
  <2> HIDE DEF i
  <2>4. RemoveAt(s, i) \in Seq(S)
    BY <2>2, RemoveAtSeq
  <2>5. Distinct(RemoveAt(s, i)) /\ Range(RemoveAt(s, i)) = Range(s) \ {s[i]}
    BY <2>2, RemoveAtDistinct
  <2> QED
    BY <2>2, <2>3, <2>4, <2>5
<1> QED
  BY <1>2, <1>3
-----------------------------------------------------------------------------
(* The inductive invariant, in parts.                                      *)

\* A sequence of entries names each transaction once.
Keyed(s) == Distinct(s) /\ \A e, f \in Range(s) : e[1] = f[1] => e = f

\* The manager has accepted t and not finished it.
UnderWay(t) == txn[t].status \in {"running", "cancelling"}

\* An unfinished transaction is on a leg; a cancelled one waits for an
\* accepted leg only.
LegsTrue ==
    \A t \in Ids : UnderWay(t) =>
        OnLeg(t) /\ (txn[t].status = "cancelling" /\ ~IsNoc(Kind(t)) => txn[t].started)

\* Banks and CAM entries are held by accepted resource legs.
HoldersExact ==
    /\ \A b \in busy : /\ UnderWay(b[3]) /\ txn[b[3]].started /\ ~IsNoc(Kind(b[3]))
                       /\ b[1] = StageFor(b[3])
                       /\ \A c \in busy : b[1] = c[1] /\ b[2] = c[2] => b = c
    /\ \A t \in cam : UnderWay(t) /\ txn[t].started /\ IsHbm(Kind(t))

\* The HBM stages never hold more entries than their CAM has.
CamBound == Cardinality(cam) <= HbmLimit

\* A tagged leg has one flit, queued or across, on the channel of the leg.
FlitsExact ==
    /\ \A t \in Ids : txn[t].tag # "none" <=> (t \in noted \/ \E v \in Vcs : t \in Range(queue[v]))
    /\ \A t \in Ids : txn[t].tag # "none" => UnderWay(t) /\ IsNoc(Kind(t))
    /\ \A v \in Vcs : Distinct(queue[v]) /\ \A t \in Range(queue[v]) : v = VcOf(t) /\ t \notin noted
    /\ \A c \in crossed : c[2] = VcOf(c[1]) /\ c[1] \in noted
    /\ \A t \in noted : <<t, VcOf(t)>> \in crossed

\* A credit of a channel is free or stands for a flit across it.
Across(v) == {c \in crossed : c[2] = v}
CreditsExact == \A v \in Vcs : credit[v] + Cardinality(Across(v)) = VcDepth

\* A sleeper waits for a resource leg that would be refused.
SleepersBlocked == \A t \in asleep : UnderWay(t) /\ ~IsNoc(Kind(t)) /\ ~txn[t].started /\ ~CanIssue(t)

\* The terminal history names each transaction once, with the status it has
\* unless it is forgotten or a fault of it is being cancelled.
HistoryTrue ==
    Running =>
        /\ Keyed(history)
        /\ \A e \in Range(history) :
              \/ txn[e[1]].status \in {"absent", e[2]}
              \/ txn[e[1]].status = "cancelling" /\ e[2] = "faulted"

\* Bytes are incomplete only where the operation allows it, and only complete
\* ones were written.
DataOf(t, r) ==
    /\ r.data = "some" => Relaxed(t) \/ Req[t].op = "GATHER_DEST_WRITE"
    /\ r.written => r.data = "all" /\ Req[t].dst # NoEnd

DataWhole == \A t \in Ids : DataOf(t, txn[t])

\* The inductive invariant.
IInv ==
    /\ TypeOK /\ LegsTrue /\ HoldersExact /\ CamBound /\ FlitsExact /\ CreditsExact
    /\ SleepersBlocked /\ HistoryTrue /\ ErrorsExplained /\ DataWhole /\ DoneMeansMoved
-----------------------------------------------------------------------------
(* The terminal history.                                                   *)

\* The history is a list of ended transactions and how they ended.
Entry == Ids \X Final

EntryAt(s, t) == {i \in DOMAIN s : s[i][1] = t}

\* Dropping the entry of a transaction leaves those of the others.
LEMMA DropEntry ==
    ASSUME NEW s \in Seq(Entry), NEW t, Keyed(s)
    PROVE  LET r == Drop(s, EntryAt(s, t))
           IN  /\ r \in Seq(Entry) /\ Keyed(r) /\ Range(r) \subseteq Range(s)
               /\ \A e \in Range(s) : e \in Range(r) <=> e[1] # t
               /\ Len(r) \in Nat /\ Len(r) <= Len(s) /\ (r = s \/ Len(r) = Len(s) - 1)
<1> DEFINE r == Drop(s, EntryAt(s, t))
<1>1. DOMAIN s = 1 .. Len(s) /\ Len(s) \in Nat
  BY LenProperties
<1>2. CASE EntryAt(s, t) = {}
  <2>1. r = s
    BY <1>2 DEF Drop
  <2>2. \A e \in Range(s) : e[1] # t
    BY <1>1, <1>2, RangeSeq DEF EntryAt
  <2> QED
    BY <1>1, <2>1, <2>2
<1>3. CASE EntryAt(s, t) # {}
  <2> DEFINE i == CHOOSE k \in EntryAt(s, t) : TRUE
  <2>1. i \in EntryAt(s, t)
    BY <1>3
  <2>2. i \in 1 .. Len(s) /\ s[i][1] = t
    BY <1>1, <2>1 DEF EntryAt
  <2>3. r = RemoveAt(s, i)
    BY <1>3 DEF Drop
  <2> HIDE DEF i, r
  <2>4. r \in Seq(Entry) /\ Len(r) = Len(s) - 1 /\ Len(r) \in Nat
    BY <2>2, <2>3, RemoveAtSeq
  <2>l. Len(r) <= Len(s)
    BY <1>1, <2>4
  <2>5. Distinct(r) /\ Range(r) = Range(s) \ {s[i]}
    BY <2>2, <2>3, RemoveAtDistinct DEF Keyed
  <2>6. s[i] \in Range(s)
    BY <2>2, RangeSeq
  <2>7. \A e \in Range(s) : e \in Range(r) <=> e[1] # t
    BY <2>2, <2>5, <2>6, Zenon DEF Keyed
  <2>8. Keyed(r)
    BY <2>5 DEF Keyed
  <2> QED
    BY <2>4, <2>l, <2>5, <2>7, <2>8 DEF r
<1> QED
  BY <1>2, <1>3

\* Every entry of the history is one of a transaction.
LEMMA EntryFields ==
    ASSUME TypeOK, NEW e \in Range(history)
    PROVE  e[1] \in Ids /\ e[2] \in Final /\ e \in Entry
<1>1. history \in Seq(Entry)
  BY DEF TypeOK, Entry
<1>2. PICK i \in 1 .. Len(history) : history[i] = e
  BY <1>1, RangeSeq
<1>3. e \in Entry
  BY <1>1, <1>2, ElementOfSeq
<1> QED
  BY <1>3 DEF Entry

\* With no entry to evict, as many transactions await their acknowledgement as
\* the history holds, and one more.
LEMMA ExhaustedBy ==
    ASSUME TypeOK, Keyed(history),
           Evictable = {}, NEW t \in Ids, RecordedAs(t) = {},
           NEW X \in SUBSET Ids, Live \subseteq X, t \in X
    PROVE  Cardinality(X) > Len(history)
<1> DEFINE n == Len(history)
           f == [i \in 1 .. n + 1 |-> IF i = n + 1 THEN t ELSE history[i][1]]
<1>1. history \in Seq(Entry) /\ n \in Nat
  BY DEF TypeOK, Entry
<1>2. ASSUME NEW i \in 1 .. n
      PROVE  history[i] \in Range(history) /\ history[i][1] \in Live /\ history[i][1] # t
  <2>1. history[i] \in Range(history)
    BY <1>1, RangeSeq
  <2>2. history[i][1] \in Ids
    BY <2>1, EntryFields
  <2>3. history[i][1] \in Live
    BY <2>2 DEF Evictable, Live
  <2> QED
    BY <2>1, <2>3 DEF RecordedAs
<1>3. \A i \in 1 .. n + 1 : i \in 1 .. n \/ i = n + 1
  BY <1>1
<1>4. f \in [1 .. n + 1 -> X]
  BY <1>1, <1>2, <1>3
<1>5. ASSUME NEW i \in 1 .. n + 1, NEW j \in 1 .. n + 1, f[i] = f[j]
      PROVE  i = j
  <2>1. CASE i \in 1 .. n /\ j \in 1 .. n
    <3>1. f[i] = history[i][1] /\ f[j] = history[j][1]
      BY <1>1, <2>1
    <3>2. history[i] = history[j]
      BY <1>2, <1>5, <2>1, <3>1, Zenon DEF Keyed
    <3> QED
      BY <2>1, <3>2 DEF Distinct, Keyed
  <2>2. CASE ~(i \in 1 .. n /\ j \in 1 .. n)
    BY <1>1, <1>2, <1>3, <1>5, <2>2
  <2> QED
    BY <2>1, <2>2
<1>6. IsFiniteSet(X) /\ Cardinality(X) \in Nat
  BY FabricAssumption, FS_Subset, FS_CardinalityType
<1>7. Cardinality(1 .. n + 1) = n + 1
  BY <1>1, FS_Interval
<1> HIDE DEF f, n
<1>8. f \in Injection(1 .. n + 1, X)
  BY <1>4, <1>5, Fun_IsInj
<1>9. Cardinality(1 .. n + 1) <= Cardinality(X)
  BY <1>6, <1>8, FS_Injection
<1> QED
  BY <1>1, <1>6, <1>7, <1>9 DEF n

\* The record of a transaction with another status.
LEMMA StatusSet ==
    ASSUME NEW r \in Record, NEW status \in Final
    PROVE  LET q == [r EXCEPT !.status = status]
           IN  /\ q \in Record /\ q.status = status /\ q.leg = r.leg /\ q.started = r.started
               /\ q.tag = r.tag /\ q.data = r.data /\ q.written = r.written /\ q.dst = r.dst
BY DEF Record

\* Recording a terminal status keeps the history true, or stops the Group for
\* one of the two reasons ErrorsExplained gives.
LEMMA RecordTerminalSound ==
    ASSUME TypeOK, HistoryTrue, Running, NEW t \in Ids, NEW status \in Final, NEW r \in Record,
           RecordTerminal(t, status, r),
           \A e \in RecordedAs(t) : e[2] = "faulted" /\ status # "done"
    PROVE  /\ txn' = [txn EXCEPT ![t] = [r EXCEPT !.status = status]] /\ txn' \in [Ids -> Record]
           /\ history' \in Seq(Entry) /\ Len(history') <= Tombstones
           /\ HistoryTrue' /\ ErrorsExplained'
<1> DEFINE kept == Drop(history, EntryAt(history, t))
           full == RecordedAs(t) = {} /\ Len(history) >= Tombstones
           changed == \E e \in RecordedAs(t) : e[2] # status
           oldest == CHOOSE i \in Evictable : \A j \in Evictable : i <= j
<1>1. /\ txn' = [txn EXCEPT ![t] = [r EXCEPT !.status = status]]
      /\ error' = IF changed THEN "terminal status changed"
                   ELSE IF full /\ Evictable = {} THEN "tombstones exhausted" ELSE "none"
      /\ history' = IF changed THEN kept
                     ELSE IF full /\ Evictable = {} THEN history
                     ELSE Append(IF full THEN RemoveAt(history, oldest) ELSE kept, <<t, status>>)
  BY DEF RecordTerminal, EntryAt
<1>2. txn \in [Ids -> Record] /\ history \in Seq(Entry) /\ Len(history) <= Tombstones /\ Len(history) \in Nat
  BY DEF TypeOK, Entry
<1>3. /\ Keyed(history)
      /\ \A e \in Range(history) : \/ txn[e[1]].status \in {"absent", e[2]}
                                   \/ txn[e[1]].status = "cancelling" /\ e[2] = "faulted"
  BY DEF HistoryTrue
<1>4. /\ kept \in Seq(Entry) /\ Keyed(kept) /\ Range(kept) \subseteq Range(history)
      /\ \A e \in Range(history) : e \in Range(kept) <=> e[1] # t
      /\ Len(kept) \in Nat /\ Len(kept) <= Len(history) /\ (kept = history \/ Len(kept) = Len(history) - 1)
  BY <1>2, <1>3, DropEntry
<1>k. Len(kept) \in Nat /\ (kept = history \/ Len(kept) = Len(history) - 1)
  BY <1>4, Zenon
<1>5. /\ txn' \in [Ids -> Record] /\ txn'[t].status = status
      /\ \A u \in Ids : u # t => txn'[u] = txn[u]
  BY <1>1, <1>2, StatusSet
<1>6. RecordedAs(t) = {} <=> \A e \in Range(history) : e[1] # t
  BY DEF RecordedAs
<1>7. Tombstones \in Nat \ {0}
  BY FabricAssumption
<1> HIDE DEF kept
<1>8. CASE changed
  <2>1. error' = "terminal status changed" /\ history' = kept
    BY <1>1, <1>8
  <2>2. status = "cancelled"
    BY <1>8 DEF Final
  <2>3. RecordedAs(t)' = {}
    BY <1>4, <2>1 DEF RecordedAs
  <2>4. t \in Live'
    BY <1>5, <2>2 DEF Live
  <2>5. ErrorsExplained'
    BY <1>5, <2>1, <2>2, <2>3, <2>4 DEF ErrorsExplained
  <2>6. HistoryTrue'
    BY <2>1 DEF HistoryTrue, Running
  <2>7. Len(history') <= Tombstones
    <3>1. Len(kept) \in Nat /\ Len(kept) <= Len(history) /\ Len(history') = Len(kept)
      BY <1>4, <2>1, Zenon
    <3> QED
      BY <1>2, <1>7, <3>1
  <2> QED
    BY <1>1, <1>4, <1>5, <2>1, <2>5, <2>6, <2>7
<1>9. CASE ~changed /\ full /\ Evictable = {}
  <2>1. error' = "tombstones exhausted" /\ history' = history
    BY <1>1, <1>9
  <2>2. Live \subseteq Live' /\ t \in Live' /\ Live' \in SUBSET Ids
    BY <1>5 DEF Live, Final
  <2>3. Cardinality(Live') > Len(history)
    BY <1>3, <1>9, <2>2, ExhaustedBy
  <2>4. IsFiniteSet(Live') /\ Cardinality(Live') \in Nat
    BY <2>2, FabricAssumption, FS_Subset, FS_CardinalityType
  <2>5. Cardinality(Live') > Tombstones
    BY <1>2, <1>7, <1>9, <2>3, <2>4
  <2>6. ErrorsExplained'
    BY <2>1, <2>5 DEF ErrorsExplained
  <2>7. HistoryTrue'
    BY <2>1 DEF HistoryTrue, Running
  <2> QED
    BY <1>1, <1>2, <1>5, <2>1, <2>6, <2>7
<1>10. CASE ~changed /\ ~(full /\ Evictable = {})
  <2> DEFINE base == IF full THEN RemoveAt(history, oldest) ELSE kept
  <2>1. error' = "none" /\ history' = Append(base, <<t, status>>)
    BY <1>1, <1>10
  <2>2. /\ base \in Seq(Entry) /\ Keyed(base) /\ Len(base) < Tombstones
        /\ Range(base) \subseteq Range(history) /\ \A e \in Range(base) : e[1] # t
    <3>1. CASE full
      <4>1. Evictable # {} /\ Evictable \subseteq 1 .. Len(history) /\ Evictable \subseteq Nat
        BY <1>2, <1>10, <3>1 DEF Evictable
      <4>2. \E i \in Evictable : \A j \in Evictable : i <= j
        BY <4>1, LeastExists
      <4>3. oldest \in Evictable
        BY <4>2
      <4>4. oldest \in 1 .. Len(history)
        BY <4>1, <4>3
      <4> HIDE DEF oldest
      <4>5. RemoveAt(history, oldest) \in Seq(Entry) /\ Len(RemoveAt(history, oldest)) = Len(history) - 1
        BY <1>2, <4>4, RemoveAtSeq
      <4>6. /\ Distinct(RemoveAt(history, oldest))
            /\ Range(RemoveAt(history, oldest)) = Range(history) \ {history[oldest]}
        BY <1>2, <1>3, <4>4, RemoveAtDistinct DEF Keyed
      <4>7. Keyed(RemoveAt(history, oldest))
        BY <1>3, <4>6, Zenon DEF Keyed
      <4> QED
        BY <1>2, <1>6, <1>7, <3>1, <4>5, <4>6, <4>7
    <3>2. CASE ~full
      <4>1. base = kept
        BY <3>2
      <4>2. RecordedAs(t) = {} \/ kept # history
        BY <1>4, <1>6
      <4>3. Len(kept) < Tombstones
        BY <1>2, <1>k, <1>7, <3>2, <4>2
      <4> QED
        BY <1>4, <4>1, <4>3
    <3> QED
      BY <3>1, <3>2
  <2> HIDE DEF base
  <2>3. <<t, status>> \in Entry /\ <<t, status>> \notin Range(base)
    BY <2>2 DEF Entry
  <2>d. base \in Seq(Entry) /\ Distinct(base)
    BY <2>2, Zenon DEF Keyed
  <2>4. /\ history' \in Seq(Entry) /\ Len(history') = Len(base) + 1 /\ Distinct(history')
        /\ Range(history') = Range(base) \cup {<<t, status>>}
    BY <2>1, <2>d, <2>3, AppendDistinct, Zenon
  <2>5. Len(history') <= Tombstones
    BY <1>7, <2>2, <2>4
  <2>6. Keyed(history')
    BY <2>2, <2>4 DEF Keyed
  <2>7. ASSUME NEW e \in Range(history')
        PROVE  \/ txn'[e[1]].status \in {"absent", e[2]}
               \/ txn'[e[1]].status = "cancelling" /\ e[2] = "faulted"
    <3>1. CASE e = <<t, status>>
      BY <1>5, <3>1
    <3>2. CASE e \in Range(base)
      <4>1. e \in Range(history) /\ e[1] # t
        BY <2>2, <3>2
      <4>2. e[1] \in Ids
        BY <4>1, EntryFields
      <4> QED
        BY <1>3, <1>5, <4>1, <4>2
    <3> QED
      BY <2>4, <3>1, <3>2
  <2>8. HistoryTrue'
    BY <2>4, <2>6, <2>7 DEF HistoryTrue
  <2>9. ErrorsExplained'
    BY <2>1 DEF ErrorsExplained
  <2> QED
    BY <1>1, <1>5, <2>4, <2>5, <2>8, <2>9
<1> QED
  BY <1>8, <1>9, <1>10

\* A step that leaves the history alone keeps it true when no recorded
\* transaction is started again.
LEMMA HistoryKept ==
    ASSUME TypeOK, HistoryTrue, Running, UNCHANGED <<history, error>>,
           \A e \in Range(history) :
               \/ txn'[e[1]].status = txn[e[1]].status
               \/ txn'[e[1]].status = "absent"
               \/ txn'[e[1]].status = "cancelling" /\ e[2] = "faulted"
    PROVE  HistoryTrue' /\ ErrorsExplained'
<1>1. HistoryTrue'
  BY DEF HistoryTrue
<1>2. error' = "none"
  BY DEF Running
<1> QED
  BY <1>1, <1>2 DEF ErrorsExplained
-----------------------------------------------------------------------------
(* Bytes.                                                                  *)

\* A record q of t that has captured or written more than r, under a current
\* identity, and differs in nothing else.
Grown(t, q, r) ==
    /\ q \in Record /\ DataOf(t, q)
    /\ q.status = r.status /\ q.leg = r.leg /\ q.started = r.started /\ q.tag = r.tag
    /\ q.data # r.data => IdentityValid(t)
    /\ r.written => q.written
    /\ q.written /\ ~r.written => GenerationValid(t, "destination") /\ Req[t].dst \in Views

\* What a finished transfer has moved.
DoneOf(t, r) ==
    r.status = "done" =>
        /\ Req[t].dst # NoEnd => r.written /\ r.data = "all"
        /\ Req[t].src # NoEnd => r.data # "none"

\* The fields of a record.
LEMMA RecordFields ==
    ASSUME NEW r \in Record
    PROVE  /\ r.data \in {"none", "some", "all"} /\ r.written \in BOOLEAN /\ r.leg \in Nat
           /\ \A d \in {"none", "some", "all"} :
                LET q == [r EXCEPT !.data = d]
                IN  /\ q \in Record /\ q.data = d /\ q.written = r.written /\ q.status = r.status
                    /\ q.leg = r.leg /\ q.started = r.started /\ q.tag = r.tag
           /\ LET q == [r EXCEPT !.written = TRUE]
              IN  /\ q \in Record /\ q.data = r.data /\ q.written = TRUE /\ q.status = r.status
                  /\ q.leg = r.leg /\ q.started = r.started /\ q.tag = r.tag
           /\ LET q == [r EXCEPT !.started = FALSE, !.tag = "none"]
              IN  /\ q \in Record /\ q.data = r.data /\ q.written = r.written /\ q.status = r.status
                  /\ q.leg = r.leg /\ q.started = FALSE /\ q.tag = "none"
           /\ LET q == [r EXCEPT !.tag = "none"]
              IN  /\ q \in Record /\ q.data = r.data /\ q.written = r.written /\ q.status = r.status
                  /\ q.leg = r.leg /\ q.started = r.started /\ q.tag = "none"
           /\ LET q == [r EXCEPT !.leg = r.leg + 1]
              IN  /\ q \in Record /\ q.data = r.data /\ q.written = r.written /\ q.status = r.status
                  /\ q.leg = r.leg + 1 /\ q.started = r.started /\ q.tag = r.tag
<1>1. r.data \in {"none", "some", "all"} /\ r.written \in BOOLEAN /\ r.leg \in Nat
  BY DEF Record
<1>2. ASSUME NEW d \in {"none", "some", "all"}
      PROVE  LET q == [r EXCEPT !.data = d]
             IN  /\ q \in Record /\ q.data = d /\ q.written = r.written /\ q.status = r.status
                 /\ q.leg = r.leg /\ q.started = r.started /\ q.tag = r.tag
  BY DEF Record
<1>3. LET q == [r EXCEPT !.written = TRUE]
      IN  /\ q \in Record /\ q.data = r.data /\ q.written = TRUE /\ q.status = r.status
          /\ q.leg = r.leg /\ q.started = r.started /\ q.tag = r.tag
  BY DEF Record
<1>4. LET q == [r EXCEPT !.started = FALSE, !.tag = "none"]
      IN  /\ q \in Record /\ q.data = r.data /\ q.written = r.written /\ q.status = r.status
          /\ q.leg = r.leg /\ q.started = FALSE /\ q.tag = "none"
  BY DEF Record
<1>5. LET q == [r EXCEPT !.tag = "none"]
      IN  /\ q \in Record /\ q.data = r.data /\ q.written = r.written /\ q.status = r.status
          /\ q.leg = r.leg /\ q.started = r.started /\ q.tag = "none"
  BY DEF Record
<1>6. LET q == [r EXCEPT !.leg = r.leg + 1]
      IN  /\ q \in Record /\ q.data = r.data /\ q.written = r.written /\ q.status = r.status
          /\ q.leg = r.leg + 1 /\ q.started = r.started /\ q.tag = r.tag
  BY DEF Record
<1> QED
  BY <1>1, <1>2, <1>3, <1>4, <1>5, <1>6, Zenon

\* Capturing reads bytes only under a current identity, and incomplete ones
\* only for the operations that allow it.
LEMMA CaptureSound ==
    ASSUME TypeOK, NEW t \in Ids, NEW r \in Record, DataOf(t, r)
    PROVE  /\ Grown(t, Capture(t, r)[2], r)
           /\ Capture(t, r)[1] = "ok" => Capture(t, r)[2].data # "none" \/ Req[t].src = NoEnd
           /\ Capture(t, r)[2].written = r.written
<1>1. CASE r.data # "none" \/ Req[t].src = NoEnd
  <2>1. Capture(t, r) = <<"ok", r>>
    BY <1>1 DEF Capture
  <2> QED
    BY <1>1, <2>1 DEF Grown
<1>2. CASE ~(r.data # "none" \/ Req[t].src = NoEnd)
  <2> DEFINE v == Req[t].src
             stop == ~GenerationValid(t, "source") \/ (store[v].bytes # "all" /\ ~Relaxed(t))
  <2>1. CASE stop
    <3>1. Capture(t, r) = <<"fault", r>>
      BY <1>2, <2>1 DEF Capture
    <3> QED
      BY <3>1 DEF Grown
  <2>2. CASE ~stop
    <3> DEFINE d == IF store[v].bytes = "all" THEN "all" ELSE "some"
               q == [r EXCEPT !.data = d]
    <3>1. Capture(t, r) = <<"ok", q>>
      BY <1>2, <2>2 DEF Capture
    <3>2. d \in {"none", "some", "all"} /\ d # "none"
      OBVIOUS
    <3>4. d = "some" => Relaxed(t)
      BY <2>2
    <3> HIDE DEF d
    <3>3. /\ q \in Record /\ q.data = d /\ q.written = r.written /\ q.status = r.status
          /\ q.leg = r.leg /\ q.started = r.started /\ q.tag = r.tag /\ r.written \in BOOLEAN
      BY <3>2 DEF Record
    <3>5. IdentityValid(t)
      BY <2>2 DEF GenerationValid
    <3>6. ~r.written
      BY <1>2 DEF DataOf
    <3> HIDE DEF q
    <3>7. DataOf(t, q)
      BY <3>3, <3>4, <3>6 DEF DataOf
    <3>8. Grown(t, q, r)
      BY <3>3, <3>5, <3>6, <3>7 DEF Grown
    <3> QED
      BY <3>1, <3>2, <3>3, <3>8
  <2> QED
    BY <2>1, <2>2
<1> QED
  BY <1>1, <1>2

\* Committing writes complete bytes only, and only to a view that is still
\* the one the transaction was submitted for.
LEMMA CommitSound ==
    ASSUME TypeOK, NEW t \in Ids, NEW r \in Record, DataOf(t, r)
    PROVE  /\ Grown(t, Commit(t, r)[2], r)
           /\ Commit(t, r)[1] = "ok" => Commit(t, r)[2].written \/ Req[t].dst = NoEnd
           /\ Commit(t, r)[2].data = r.data
<1>1. CASE r.written \/ Req[t].dst = NoEnd
  <2>1. Commit(t, r) = <<"ok", r>>
    BY <1>1 DEF Commit
  <2> QED
    BY <1>1, <2>1 DEF Grown
<1>2. CASE ~(r.written \/ Req[t].dst = NoEnd)
  <2> DEFINE stop == \/ ~GenerationValid(t, "destination")
                     \/ r.data = "none"
                     \/ Checked(t) /\ r.data = "some"
  <2>1. CASE stop
    <3>1. Commit(t, r) = <<"fault", r>>
      BY <1>2, <2>1 DEF Commit
    <3> QED
      BY <3>1 DEF Grown
  <2>2. CASE ~stop
    <3> DEFINE q == [r EXCEPT !.written = TRUE]
    <3>1. Commit(t, r) = <<"ok", q>>
      BY <1>2, <2>2 DEF Commit
    <3>2. /\ q \in Record /\ q.data = r.data /\ q.written = TRUE /\ q.status = r.status
          /\ q.leg = r.leg /\ q.started = r.started /\ q.tag = r.tag
          /\ r.data \in {"none", "some", "all"}
      BY RecordFields
    <3>3. r.data # "some"
      BY <1>2, <2>2, RequestAssumption DEF DataOf, Relaxed, Checked
    <3>4. Req[t].dst \in Views
      BY <1>2, RequestAssumption
    <3> HIDE DEF q
    <3>5. DataOf(t, q)
      BY <1>2, <2>2, <3>2, <3>3 DEF DataOf
    <3>6. Grown(t, q, r)
      BY <2>2, <3>2, <3>4, <3>5 DEF Grown
    <3> QED
      BY <3>1, <3>2, <3>6
  <2> QED
    BY <2>1, <2>2
<1> QED
  BY <1>1, <1>2

\* Capturing, then committing what was captured.
LEMMA GrownTwice ==
    ASSUME NEW t, NEW p, NEW q, NEW r, Grown(t, p, q), Grown(t, q, r)
    PROVE  Grown(t, p, r)
<1>1. GenerationValid(t, "destination") => IdentityValid(t)
  BY DEF GenerationValid
<1> QED
  BY <1>1 DEF Grown
-----------------------------------------------------------------------------
(* The end of a leg.                                                       *)

StoreType == [Views -> [live : BOOLEAN, gen : Nat, bytes : {"none", "some", "all"}]]

\* A step of one transaction that leaves the others and its own bytes in order.
VisitKept(t) ==
    /\ txn' \in [Ids -> Record] /\ \A u \in Ids \ {t} : txn'[u] = txn[u]
    /\ DataOf(t, txn'[t]) /\ DoneOf(t, txn'[t])
    /\ txn'[t].data # txn[t].data => IdentityValid(t)
    /\ txn[t].written => txn'[t].written
    /\ txn'[t].written /\ ~txn[t].written => GenerationValid(t, "destination")

\* A step that keeps or rewrites the terminal history correctly.
HistoryStep ==
    /\ history' \in Seq(Entry) /\ Len(history') <= Tombstones
    /\ HistoryTrue' /\ ErrorsExplained'

\* The route of a transaction is a sequence of legs.
LEMMA RouteSeq ==
    ASSUME NEW t \in Ids
    PROVE  /\ Route(t) \in Seq(STRING) /\ Len(Route(t)) \in Nat
           /\ \A i \in 1 .. Len(Route(t)) :
                 IsNoc(Route(t)[i]) \/ Channels(StageOf(Route(t)[i], Req[t])[1]) \subseteq Nat
<1>1. Route(t) = Legs(Req[t])
  BY DEF Route, Routes
<1> QED
  BY <1>1, RouteAssumption

\* An unfinished transaction is recorded only for the fault whose cancellation
\* it waits for.
LEMMA RecordedUnderWay ==
    ASSUME TypeOK, HistoryTrue, Running, NEW t \in Ids, UnderWay(t), NEW e \in RecordedAs(t)
    PROVE  e[2] = "faulted" /\ txn[t].status = "cancelling"
<1>1. e \in Range(history) /\ e[1] = t
  BY DEF RecordedAs
<1>2. e[2] \in Final
  BY <1>1, EntryFields
<1> QED
  BY <1>1, <1>2 DEF HistoryTrue, UnderWay, Final

\* Whatever a transaction writes, the views keep their type.
LEMMA StoreAfterType ==
    ASSUME TypeOK, NEW t, NEW r, r.written /\ ~txn[t].written => Req[t].dst \in Views
    PROVE  StoreAfter(t, r) \in StoreType
<1>1. store \in StoreType
  BY DEF TypeOK, StoreType
<1>2. CASE ~(r.written /\ ~txn[t].written)
  BY <1>1, <1>2 DEF StoreAfter
<1>3. CASE r.written /\ ~txn[t].written
  BY <1>1, <1>3 DEF StoreAfter, StoreType
<1> QED
  BY <1>2, <1>3

\* Changing the record of one transaction.
LEMMA OneRecord ==
    ASSUME TypeOK, NEW t \in Ids, NEW q \in Record, txn' = [txn EXCEPT ![t] = q]
    PROVE  txn' \in [Ids -> Record] /\ txn'[t] = q /\ \A u \in Ids \ {t} : txn'[u] = txn[u]
BY DEF TypeOK

\* After a leg the transaction is cancelled, done or faulted, or on its next leg.
LEMMA AdvanceLegSound ==
    ASSUME TypeOK, HistoryTrue, Running, NEW t \in Ids, UnderWay(t), OnLeg(t),
           NEW record, Grown(t, record, txn[t]), AdvanceLeg(t, record)
    PROVE  /\ VisitKept(t) /\ HistoryStep /\ store' \in StoreType
           /\ txn'[t].tag = "none" /\ ~txn'[t].started
           /\ \/ txn'[t].status \in Final
              \/ txn'[t].status = "running" /\ OnLeg(t)'
<1> DEFINE r == [record EXCEPT !.started = FALSE, !.tag = "none"]
           next == [r EXCEPT !.leg = r.leg + 1]
           captured == Capture(t, next)
           committed == IF captured[1] = "ok" THEN Commit(t, captured[2]) ELSE captured
<1>1. txn[t] \in Record /\ txn[t].written \in BOOLEAN /\ txn[t].leg \in Nat
  BY DEF TypeOK, Record
<1>2. record \in Record
  BY DEF Grown
<1>3. /\ r \in Record /\ r.data = record.data /\ r.written = record.written /\ r.status = record.status
      /\ r.leg = record.leg /\ r.started = FALSE /\ r.tag = "none" /\ r.leg \in Nat
  BY <1>2 DEF Record
<1> HIDE DEF r
<1>4. /\ next \in Record /\ next.data = r.data /\ next.written = r.written /\ next.status = r.status
      /\ next.leg = r.leg + 1 /\ next.started = r.started /\ next.tag = r.tag
  BY <1>3 DEF Record
<1> HIDE DEF next
<1>5. /\ r.status = txn[t].status /\ r.leg = txn[t].leg
      /\ DataOf(t, r) /\ DataOf(t, next)
      /\ r.data # txn[t].data => IdentityValid(t)
      /\ txn[t].written => r.written
      /\ r.written /\ ~txn[t].written => GenerationValid(t, "destination") /\ Req[t].dst \in Views
  BY <1>3, <1>4 DEF Grown, DataOf
<1>6. /\ IF r.status = "cancelling" THEN FinishCancelled(t, r) /\ store' = StoreAfter(t, r)
         ELSE IF next.leg <= Len(Route(t))
         THEN /\ txn' = [txn EXCEPT ![t] = next] /\ store' = StoreAfter(t, next)
              /\ UNCHANGED <<history, error>>
         ELSE /\ RecordTerminal(t, IF committed[1] = "ok" THEN "done" ELSE "faulted", committed[2])
              /\ store' = StoreAfter(t, committed[2])
  BY DEF AdvanceLeg, r, next
<1>7. CASE r.status = "cancelling"
  <2>1. RecordTerminal(t, "cancelled", r) /\ store' = StoreAfter(t, r)
    BY <1>6, <1>7 DEF FinishCancelled
  <2>2. \A e \in RecordedAs(t) : e[2] = "faulted" /\ "cancelled" # "done"
    BY RecordedUnderWay
  <2>3. "cancelled" \in Final
    BY DEF Final
  <2>4. txn' = [txn EXCEPT ![t] = [r EXCEPT !.status = "cancelled"]] /\ HistoryStep
    BY <1>3, <2>1, <2>2, <2>3, RecordTerminalSound DEF HistoryStep
  <2> DEFINE q == [r EXCEPT !.status = "cancelled"]
  <2>5. q \in Record /\ q.status = "cancelled" /\ q.started = FALSE /\ q.tag = "none" /\ q.data = r.data /\ q.written = r.written
    BY <1>3, <2>3, StatusSet
  <2> HIDE DEF q
  <2>6. txn' \in [Ids -> Record] /\ txn'[t] = q /\ \A u \in Ids \ {t} : txn'[u] = txn[u]
    BY <2>4, <2>5, OneRecord DEF q
  <2>7. VisitKept(t)
    BY <1>5, <2>5, <2>6 DEF VisitKept, DataOf, DoneOf
  <2>8. store' \in StoreType
    BY <1>5, <2>1, StoreAfterType
  <2> QED
    BY <2>3, <2>4, <2>5, <2>6, <2>7, <2>8
<1>8. CASE r.status # "cancelling" /\ next.leg <= Len(Route(t))
  <2>1. txn' = [txn EXCEPT ![t] = next] /\ store' = StoreAfter(t, next) /\ UNCHANGED <<history, error>>
    BY <1>6, <1>8
  <2>2. txn' \in [Ids -> Record] /\ txn'[t] = next /\ \A u \in Ids \ {t} : txn'[u] = txn[u]
    BY <1>4, <2>1, OneRecord
  <2>3. txn'[t].status = "running" /\ txn[t].status = "running"
    BY <1>4, <1>5, <1>8, <2>2 DEF UnderWay
  <2>4. OnLeg(t)'
    <3>1. next.leg \in 1 .. Len(Route(t))
      BY <1>1, <1>4, <1>5, <1>8, RouteSeq
    <3> QED
      BY <2>2, <3>1 DEF OnLeg
  <2>5. HistoryTrue' /\ ErrorsExplained'
    <3>1. \A e \in Range(history) : txn'[e[1]].status = txn[e[1]].status
      BY <2>2, <2>3, EntryFields
    <3> QED
      BY <2>1, <3>1, HistoryKept
  <2>6. HistoryStep
    BY <2>1, <2>5 DEF HistoryStep, TypeOK, Entry
  <2>7. VisitKept(t)
    BY <1>4, <1>5, <2>2, <2>3 DEF VisitKept, DoneOf
  <2>8. store' \in StoreType
    BY <1>4, <1>5, <2>1, StoreAfterType
  <2> QED
    BY <1>3, <1>4, <2>2, <2>3, <2>4, <2>6, <2>7, <2>8
<1>9. CASE r.status # "cancelling" /\ ~(next.leg <= Len(Route(t)))
  <2> DEFINE p == committed[2]
             status == IF committed[1] = "ok" THEN "done" ELSE "faulted"
  <2>1. RecordTerminal(t, status, p) /\ store' = StoreAfter(t, p)
    BY <1>6, <1>9
  <2>2. /\ Grown(t, captured[2], next)
        /\ captured[1] = "ok" => captured[2].data # "none" \/ Req[t].src = NoEnd
    BY <1>4, <1>5, CaptureSound
  <2> HIDE DEF captured
  <2>3. /\ captured[2] \in Record /\ DataOf(t, captured[2])
    BY <2>2 DEF Grown
  <2>4. /\ Grown(t, Commit(t, captured[2])[2], captured[2])
        /\ Commit(t, captured[2])[1] = "ok" => Commit(t, captured[2])[2].written \/ Req[t].dst = NoEnd
        /\ Commit(t, captured[2])[2].data = captured[2].data
    BY <2>3, CommitSound
  <2>5. /\ Grown(t, p, next)
        /\ committed[1] = "ok" => /\ p.data # "none" \/ Req[t].src = NoEnd
                                  /\ p.written \/ Req[t].dst = NoEnd
    <3>1. CASE captured[1] = "ok"
      <4>1. committed = Commit(t, captured[2])
        BY <3>1
      <4> QED
        BY <2>2, <2>4, <3>1, <4>1, GrownTwice
    <3>2. CASE captured[1] # "ok"
      <4>1. committed = captured
        BY <3>2
      <4> QED
        BY <2>2, <3>2, <4>1
    <3> QED
      BY <3>1, <3>2
  <2> HIDE DEF committed
  <2>6. status \in Final /\ (status = "done" => committed[1] = "ok")
    BY DEF Final
  <2> HIDE DEF status, p
  <2>7. /\ p \in Record /\ DataOf(t, p) /\ p.started = next.started /\ p.tag = next.tag
        /\ p.data # next.data => IdentityValid(t)
        /\ next.written => p.written
        /\ p.written /\ ~next.written => GenerationValid(t, "destination") /\ Req[t].dst \in Views
    BY <2>5 DEF Grown
  <2>8. RecordedAs(t) = {}
    BY <1>5, <1>9, RecordedUnderWay
  <2>9. txn' = [txn EXCEPT ![t] = [p EXCEPT !.status = status]] /\ HistoryStep
    BY <2>1, <2>6, <2>7, <2>8, RecordTerminalSound DEF HistoryStep
  <2> DEFINE q == [p EXCEPT !.status = status]
  <2>10. /\ q \in Record /\ q.status = status /\ q.started = p.started /\ q.tag = p.tag
         /\ q.data = p.data /\ q.written = p.written
    BY <2>6, <2>7, StatusSet
  <2> HIDE DEF q
  <2>11. txn' \in [Ids -> Record] /\ txn'[t] = q /\ \A u \in Ids \ {t} : txn'[u] = txn[u]
    BY <2>9, <2>10, OneRecord DEF q
  <2>12. DataOf(t, q) /\ DoneOf(t, q)
    BY <2>5, <2>6, <2>7, <2>10 DEF DataOf, DoneOf, p
  <2>13. GenerationValid(t, "destination") => IdentityValid(t)
    BY DEF GenerationValid
  <2>14. /\ q.data # txn[t].data => IdentityValid(t)
         /\ txn[t].written => q.written
         /\ q.written /\ ~txn[t].written => GenerationValid(t, "destination") /\ Req[t].dst \in Views
    BY <1>4, <1>5, <2>7, <2>10
  <2>15. VisitKept(t)
    BY <2>11, <2>12, <2>14 DEF VisitKept
  <2>16. store' \in StoreType
    BY <2>1, <2>10, <2>14, StoreAfterType
  <2> QED
    BY <1>3, <1>4, <2>6, <2>7, <2>9, <2>10, <2>11, <2>15, <2>16
<1> QED
  BY <1>7, <1>8, <1>9
-----------------------------------------------------------------------------
(* What a step of one transaction leaves of the others.                    *)

Others(t) == \A u \in Ids \ {t} : txn'[u] = txn[u]

\* The leg of a transaction is a matter of its record alone.
LEMMA SameLeg ==
    ASSUME NEW u, txn'[u] = txn[u]
    PROVE  /\ Kind(u)' = Kind(u) /\ StageFor(u)' = StageFor(u) /\ VcOf(u)' = VcOf(u)
           /\ OnLeg(u)' = OnLeg(u) /\ UnderWay(u)' = UnderWay(u)
BY DEF Kind, StageFor, VcOf, OnLeg, UnderWay

\* A step of t leaves the legs of the other transactions as they were.
LEMMA LegsKept ==
    ASSUME LegsTrue, NEW t \in Ids, Others(t),
           UnderWay(t)' => OnLeg(t)' /\ (txn'[t].status = "cancelling" /\ ~IsNoc(Kind(t)') => txn'[t].started)
    PROVE  LegsTrue'
<1>1. ASSUME NEW u \in Ids, UnderWay(u)'
      PROVE  OnLeg(u)' /\ (txn'[u].status = "cancelling" /\ ~IsNoc(Kind(u)') => txn'[u].started)
  <2>1. CASE u = t
    BY <1>1, <2>1
  <2>2. CASE u # t
    BY <1>1, <2>2, SameLeg DEF Others, LegsTrue
  <2> QED
    BY <2>1, <2>2
<1> QED
  BY <1>1 DEF LegsTrue

\* Banks and CAM entries that go away, those of t among them.
LEMMA HoldersShrink ==
    ASSUME TypeOK, HoldersExact, CamBound, NEW t \in Ids, Others(t),
           busy' \subseteq busy, cam' \subseteq cam, \A b \in busy' : b[3] # t, t \notin cam'
    PROVE  HoldersExact' /\ CamBound'
<1>1. ASSUME NEW b \in busy'
      PROVE  /\ UnderWay(b[3])' /\ txn'[b[3]].started /\ ~IsNoc(Kind(b[3])')
             /\ b[1] = StageFor(b[3])'
             /\ \A c \in busy' : b[1] = c[1] /\ b[2] = c[2] => b = c
  <2>1. b \in busy /\ b[3] \in Ids /\ b[3] # t
    BY <1>1 DEF TypeOK
  <2>2. txn'[b[3]] = txn[b[3]]
    BY <2>1 DEF Others
  <2>3. /\ UnderWay(b[3]) /\ txn[b[3]].started /\ ~IsNoc(Kind(b[3])) /\ b[1] = StageFor(b[3])
        /\ \A c \in busy : b[1] = c[1] /\ b[2] = c[2] => b = c
    BY <2>1 DEF HoldersExact
  <2> QED
    BY <2>2, <2>3, SameLeg
<1>2. ASSUME NEW u \in cam'
      PROVE  UnderWay(u)' /\ txn'[u].started /\ IsHbm(Kind(u)')
  <2>1. u \in cam /\ u \in Ids /\ u # t
    BY <1>2 DEF TypeOK
  <2>2. txn'[u] = txn[u]
    BY <2>1 DEF Others
  <2> QED
    BY <2>1, <2>2, SameLeg DEF HoldersExact
<1>3. CamBound'
  <2>1. cam \in SUBSET Ids /\ IsFiniteSet(Ids) /\ HbmLimit \in Nat
    BY FabricAssumption DEF TypeOK
  <2>2. IsFiniteSet(cam) /\ cam' \in SUBSET cam
    BY <2>1, FS_Subset
  <2>3. Cardinality(cam') <= Cardinality(cam) /\ Cardinality(cam) \in Nat /\ Cardinality(cam') \in Nat
    BY <2>2, FS_Subset, FS_CardinalityType
  <2> QED
    BY <2>1, <2>3 DEF CamBound
<1> QED
  BY <1>1, <1>2, <1>3 DEF HoldersExact

\* The flits of t are gone, and so is its tag.
LEMMA FlitsGone ==
    ASSUME TypeOK, FlitsExact, NEW t \in Ids, Others(t), txn'[t].tag = "none",
           \A v \in Vcs : Distinct(queue'[v]) /\ Range(queue'[v]) = Range(queue[v]) \ {t},
           noted' = noted \ {t}, crossed' = {c \in crossed : c[1] # t}
    PROVE  FlitsExact'
<1>1. \A v \in Vcs : \A u \in Range(queue[v]) : u \in Ids
  <2> TAKE v \in Vcs
  <2> TAKE u \in Range(queue[v])
  <2>1. queue[v] \in Seq(Ids)
    BY DEF TypeOK
  <2>2. PICK i \in 1 .. Len(queue[v]) : queue[v][i] = u
    BY <2>1, RangeSeq
  <2> QED
    BY <2>1, <2>2, ElementOfSeq
<1>2. noted \subseteq Ids /\ \A c \in crossed : c[1] \in Ids
  BY DEF TypeOK
<1>3. \A u \in Ids \ {t} : txn'[u] = txn[u] /\ Kind(u)' = Kind(u) /\ VcOf(u)' = VcOf(u) /\ UnderWay(u)' = UnderWay(u)
  BY SameLeg DEF Others
<1>4. \A u \in Ids : txn'[u].tag # "none" <=> (u \in noted' \/ \E v \in Vcs : u \in Range(queue'[v]))
  <2> TAKE u \in Ids
  <2>1. CASE u = t
    BY <2>1
  <2>2. CASE u # t
    BY <1>3, <2>2 DEF FlitsExact
  <2> QED
    BY <2>1, <2>2
<1>5. \A u \in Ids : txn'[u].tag # "none" => UnderWay(u)' /\ IsNoc(Kind(u)')
  BY <1>3 DEF FlitsExact
<1>6. \A v \in Vcs : Distinct(queue'[v]) /\ \A u \in Range(queue'[v]) : v = VcOf(u)' /\ u \notin noted'
  BY <1>1, <1>3 DEF FlitsExact
<1>7. \A c \in crossed' : c[2] = VcOf(c[1])' /\ c[1] \in noted'
  BY <1>2, <1>3 DEF FlitsExact
<1>8. \A u \in noted' : <<u, VcOf(u)'>> \in crossed'
  BY <1>2, <1>3 DEF FlitsExact
<1> QED
  BY <1>4, <1>5, <1>6, <1>7, <1>8 DEF FlitsExact

\* t has no flit, before and after.
LEMMA FlitsElsewhere ==
    ASSUME TypeOK, FlitsExact, NEW t \in Ids, Others(t), txn[t].tag = "none", txn'[t].tag = "none",
           UNCHANGED <<queue, crossed, noted>>
    PROVE  FlitsExact'
<1>1. t \notin noted /\ \A v \in Vcs : t \notin Range(queue[v])
  BY DEF FlitsExact
<1>2. \A c \in crossed : c[1] # t
  BY <1>1 DEF FlitsExact
<1>3. \A v \in Vcs : Distinct(queue'[v]) /\ Range(queue'[v]) = Range(queue[v]) \ {t}
  BY <1>1 DEF FlitsExact
<1>4. noted' = noted \ {t} /\ crossed' = {c \in crossed : c[1] # t}
  BY <1>1, <1>2
<1> QED
  BY <1>3, <1>4, FlitsGone

\* Credits and flits that stay as they are stay in balance.
LEMMA CreditsKept ==
    ASSUME CreditsExact, UNCHANGED <<credit, crossed>>
    PROVE  CreditsExact'
BY DEF CreditsExact, Across

\* A step of t leaves the bytes of the other transactions as they were.
LEMMA DataKept ==
    ASSUME DataWhole, DoneMeansMoved, NEW t \in Ids, Others(t), DataOf(t, txn'[t]), DoneOf(t, txn'[t])
    PROVE  DataWhole' /\ DoneMeansMoved'
<1>1. DataWhole'
  BY DEF DataWhole, DataOf, Others
<1>2. DoneMeansMoved'
  BY DEF DoneMeansMoved, DoneOf, Others
<1> QED
  BY <1>1, <1>2
-----------------------------------------------------------------------------
(* Sleepers.                                                               *)

\* A refused leg stays refused while nothing of its stage, or of the CAM when
\* it needs an entry, is given back.
LEMMA BlockedStays ==
    ASSUME TypeOK, LegsTrue, NEW u \in Ids, UnderWay(u), ~IsNoc(Kind(u)), ~CanIssue(u),
           txn'[u] = txn[u], cam' \subseteq Ids, IsHbm(Kind(u)) => cam \subseteq cam',
           \A b \in busy : b[1] = StageFor(u) => b \in busy'
    PROVE  ~CanIssue(u)'
<1> DEFINE stage == StageFor(u)
           kind == Kind(u)
           wanted == Wanted(Kind(u), Req[u])
           all == Channels(stage[1])
           free == all \ Taken(stage)
           left == all \ {b[2] : b \in {x \in busy' : x[1] = stage}}
<1>1. Grants(u) = IF IsHbm(kind) /\ Cardinality(cam) >= HbmLimit THEN {}
                  ELSE IF wanted # {} THEN (IF wanted \subseteq free THEN wanted ELSE {})
                  ELSE {c \in free : \A d \in free : c <= d}
  BY DEF Grants
<1>2. Grants(u)' = IF IsHbm(kind) /\ Cardinality(cam') >= HbmLimit THEN {}
                   ELSE IF wanted # {} THEN (IF wanted \subseteq left THEN wanted ELSE {})
                   ELSE {c \in left : \A d \in left : c <= d}
  <2> DEFINE now == Channels(StageFor(u)'[1]) \ {b[2] : b \in {x \in busy' : x[1] = StageFor(u)'}}
  <2>1. Kind(u)' = Kind(u) /\ StageFor(u)' = StageFor(u)
    BY SameLeg
  <2>2. Grants(u)' = IF IsHbm(Kind(u)') /\ Cardinality(cam') >= HbmLimit THEN {}
                     ELSE IF Wanted(Kind(u)', Req[u]) # {}
                     THEN (IF Wanted(Kind(u)', Req[u]) \subseteq now THEN Wanted(Kind(u)', Req[u]) ELSE {})
                     ELSE {c \in now : \A d \in now : c <= d}
    BY DEF Grants, Taken
  <2>3. now = left /\ Wanted(Kind(u)', Req[u]) = wanted /\ IsHbm(Kind(u)') = IsHbm(kind)
    BY <2>1
  <2> HIDE DEF now, left, wanted, kind
  <2> QED
    BY <2>2, <2>3
<1>3. left \subseteq free
  BY DEF Taken
<1>4. free \subseteq Nat
  <2>1. OnLeg(u)
    BY DEF LegsTrue
  <2>2. Channels(StageOf(Route(u)[txn[u].leg], Req[u])[1]) \subseteq Nat
    BY <2>1, RouteSeq DEF OnLeg, Kind
  <2> QED
    BY <2>2 DEF StageFor, Kind
<1>5. IsHbm(kind) /\ Cardinality(cam) >= HbmLimit => Cardinality(cam') >= HbmLimit
  <2>1. IsFiniteSet(cam') /\ HbmLimit \in Nat
    BY FabricAssumption, FS_Subset
  <2>2. CASE IsHbm(kind)
    <3>1. cam \in SUBSET cam'
      BY <2>2
    <3>2. IsFiniteSet(cam) /\ Cardinality(cam) <= Cardinality(cam')
      BY <2>1, <3>1, FS_Subset
    <3>3. Cardinality(cam) \in Nat /\ Cardinality(cam') \in Nat
      BY <2>1, <3>2, FS_CardinalityType
    <3> QED
      BY <2>1, <3>2, <3>3
  <2> QED
    BY <2>2
<1>6. Grants(u) = {}
  BY DEF CanIssue
<1> HIDE DEF stage, kind, wanted, all, free, left
<1>7. CASE IsHbm(kind) /\ Cardinality(cam) >= HbmLimit
  <2>1. Grants(u)' = {}
    BY <1>2, <1>5, <1>7
  <2> QED
    BY <2>1 DEF CanIssue
<1>8. CASE ~(IsHbm(kind) /\ Cardinality(cam) >= HbmLimit) /\ wanted # {}
  <2>1. ~(wanted \subseteq free)
    BY <1>1, <1>6, <1>8
  <2>2. ~(wanted \subseteq left)
    BY <1>3, <2>1
  <2>3. Grants(u)' = {}
    BY <1>2, <1>8, <2>2
  <2> QED
    BY <2>3 DEF CanIssue
<1>9. CASE ~(IsHbm(kind) /\ Cardinality(cam) >= HbmLimit) /\ wanted = {}
  <2>1. {c \in free : \A d \in free : c <= d} = {}
    BY <1>1, <1>6, <1>9
  <2>2. free = {}
    BY <1>4, <2>1, LeastExists
  <2>3. left = {}
    BY <1>3, <2>2
  <2>4. Grants(u)' = {}
    BY <1>2, <1>9, <2>3
  <2> QED
    BY <2>4 DEF CanIssue
<1> QED
  BY <1>7, <1>8, <1>9

\* Sleepers other than t, while nothing they wait for is given back.
LEMMA SleepersShrink ==
    ASSUME TypeOK, LegsTrue, SleepersBlocked, NEW t \in Ids, Others(t),
           asleep' \subseteq asleep \ {t}, cam' \subseteq Ids,
           \A u \in asleep' : /\ IsHbm(Kind(u)) => cam \subseteq cam'
                              /\ \A b \in busy : b[1] = StageFor(u) => b \in busy'
    PROVE  SleepersBlocked'
<1>1. ASSUME NEW u \in asleep'
      PROVE  UnderWay(u)' /\ ~IsNoc(Kind(u)') /\ ~txn'[u].started /\ ~CanIssue(u)'
  <2>1. u \in asleep /\ u \in Ids /\ u # t
    BY <1>1 DEF TypeOK
  <2>2. txn'[u] = txn[u]
    BY <2>1 DEF Others
  <2>3. UnderWay(u) /\ ~IsNoc(Kind(u)) /\ ~txn[u].started /\ ~CanIssue(u)
    BY <2>1 DEF SleepersBlocked
  <2>4. ~CanIssue(u)'
    BY <1>1, <2>1, <2>2, <2>3, BlockedStays
  <2> QED
    BY <2>2, <2>3, <2>4, SameLeg
<1> QED
  BY <1>1 DEF SleepersBlocked

\* The HBM stages share one epoch.
LEMMA HbmFamily ==
    ASSUME NEW u, IsHbm(Kind(u))
    PROVE  Family(StageFor(u)) = <<"hbm", 0>> /\ StageFor(u)[1] = Kind(u)
<1>1. StageFor(u) = <<Kind(u), 0>>
  BY DEF StageFor, StageOf, IsHbm
<1> QED
  BY <1>1 DEF Family

\* Giving back what t holds wakes everyone who may have waited for it.
LEMMA ReleasedSound ==
    ASSUME TypeOK, LegsTrue, HoldersExact, CamBound, SleepersBlocked, NEW t \in Ids, Others(t), Released(t)
    PROVE  /\ HoldersExact' /\ CamBound' /\ SleepersBlocked'
           /\ busy' \subseteq busy /\ cam' \subseteq cam /\ asleep' \subseteq asleep
<1> DEFINE freed == HeldBy(t) # {} \/ t \in cam
<1>1. /\ busy' = busy \ HeldBy(t) /\ cam' = cam \ {t}
      /\ asleep' = (IF freed THEN asleep \ Woken(StageFor(t)) ELSE asleep) \ {t}
  BY DEF Released
<1>2. HoldersExact' /\ CamBound'
  BY <1>1, HoldersShrink DEF HeldBy
<1>3. ASSUME NEW u \in asleep'
      PROVE  /\ IsHbm(Kind(u)) => cam \subseteq cam'
             /\ \A b \in busy : b[1] = StageFor(u) => b \in busy'
  <2>1. u \in asleep
    BY <1>1, <1>3
  <2>2. CASE ~freed
    BY <1>1, <2>2
  <2>3. CASE freed
    <3>1. Family(StageFor(u)) # Family(StageFor(t))
      BY <1>1, <1>3, <2>1, <2>3 DEF Woken
    <3>2. \A b \in HeldBy(t) : b[1] = StageFor(t)
      BY DEF HeldBy, HoldersExact
    <3>3. t \in cam => Family(StageFor(t)) = <<"hbm", 0>>
      BY HbmFamily DEF HoldersExact
    <3>4. IsHbm(Kind(u)) => t \notin cam
      BY <3>1, <3>3, HbmFamily
    <3> QED
      BY <1>1, <3>1, <3>2, <3>4
  <2> QED
    BY <2>2, <2>3
<1>4. asleep' \subseteq asleep \ {t} /\ cam' \subseteq Ids
  BY <1>1 DEF TypeOK
<1>5. SleepersBlocked'
  BY <1>3, <1>4, SleepersShrink
<1> QED
  BY <1>1, <1>2, <1>5
-----------------------------------------------------------------------------
(* One step of one transaction.                                            *)

\* The body of StaleIsolated.
StaleStep ==
    \A t \in Ids :
         /\ ~IdentityValid(t) /\ txn[t].status # "absent" /\ txn'[t].status # "absent" =>
               /\ (txn'[t].started => txn[t].started)
               /\ txn'[t].data = txn[t].data
               /\ txn'[t].written = txn[t].written
         /\ ~HandleLive(Req[t].dst, txn[t].dst) => (txn'[t].written => txn[t].written)

\* t takes resources and moves bytes under a current identity only.
Lawful(t) ==
    /\ txn[t].status # "absent" /\ txn'[t].status # "absent" =>
          /\ txn'[t].data # txn[t].data => IdentityValid(t)
          /\ txn[t].written => txn'[t].written
          /\ txn'[t].started /\ ~txn[t].started => IdentityValid(t)
    /\ txn'[t].written /\ ~txn[t].written => GenerationValid(t, "destination")

FabricInv == LegsTrue /\ HoldersExact /\ CamBound /\ FlitsExact /\ CreditsExact /\ SleepersBlocked

\* What IInv says of one transaction's record.
LEMMA RecordOf ==
    ASSUME TypeOK, NEW t \in Ids
    PROVE  /\ txn[t] \in Record /\ txn[t].started \in BOOLEAN /\ txn[t].written \in BOOLEAN
           /\ txn[t].leg \in Nat /\ txn[t].data \in {"none", "some", "all"}
           /\ txn[t].status \in {"absent", "running", "cancelling"} \cup Final
BY DEF TypeOK, Record

\* The invariant after a step of t, from its parts.
LEMMA OneStep ==
    ASSUME IInv, NEW t \in Ids, Others(t), TypeOK', Lawful(t), DataOf(t, txn'[t]), DoneOf(t, txn'[t]),
           HistoryTrue', ErrorsExplained', FabricInv'
    PROVE  IInv' /\ StaleStep
<1>1. DataWhole' /\ DoneMeansMoved'
  BY DataKept DEF IInv
<1>2. IInv'
  BY <1>1 DEF IInv, FabricInv
<1>3. ASSUME NEW u \in Ids
      PROVE  /\ ~IdentityValid(u) /\ txn[u].status # "absent" /\ txn'[u].status # "absent" =>
                  /\ (txn'[u].started => txn[u].started)
                  /\ txn'[u].data = txn[u].data
                  /\ txn'[u].written = txn[u].written
             /\ ~HandleLive(Req[u].dst, txn[u].dst) => (txn'[u].written => txn[u].written)
  <2>1. CASE u # t
    BY <2>1 DEF Others
  <2>2. CASE u = t
    <3>1. txn[t].written \in BOOLEAN /\ txn'[t].written \in BOOLEAN
      BY DEF IInv, TypeOK, Record
    <3>2. GenerationValid(t, "destination") => IdentityValid(t) /\ HandleLive(Req[t].dst, txn[t].dst)
      BY DEF GenerationValid
    <3> QED
      BY <2>2, <3>1, <3>2, Zenon DEF Lawful
  <2> QED
    BY <2>1, <2>2
<1>4. StaleStep
  BY <1>3 DEF StaleStep
<1> QED
  BY <1>2, <1>4

\* Changing the record of t but neither its bytes nor, to done, its status.
LEMMA PlainKept ==
    ASSUME TypeOK, DataWhole, DoneMeansMoved, NEW t \in Ids, NEW q \in Record, txn' = [txn EXCEPT ![t] = q],
           q.data = txn[t].data, q.written = txn[t].written, q.status # "done"
    PROVE  VisitKept(t) /\ Others(t) /\ txn'[t] = q
<1>1. txn' \in [Ids -> Record] /\ txn'[t] = q /\ \A u \in Ids \ {t} : txn'[u] = txn[u]
  BY OneRecord
<1>2. DataOf(t, q) /\ DoneOf(t, q)
  BY DEF DataWhole, DataOf, DoneOf
<1> QED
  BY <1>1, <1>2 DEF VisitKept, Others

\* Ending t without moving another byte.
LEMMA TerminalKept ==
    ASSUME TypeOK, HistoryTrue, Running, DataWhole, DoneMeansMoved, NEW t \in Ids,
           NEW status \in {"faulted", "cancelled"}, NEW r \in Record,
           r.data = txn[t].data, r.written = txn[t].written, RecordTerminal(t, status, r),
           \A e \in RecordedAs(t) : e[2] = "faulted"
    PROVE  /\ VisitKept(t) /\ Others(t) /\ HistoryStep
           /\ txn'[t].status = status /\ txn'[t].leg = r.leg /\ txn'[t].started = r.started /\ txn'[t].tag = r.tag
<1> DEFINE q == [r EXCEPT !.status = status]
<1>1. status \in Final /\ status # "done"
  BY DEF Final
<1>2. txn' = [txn EXCEPT ![t] = q] /\ HistoryStep
  BY <1>1, RecordTerminalSound DEF HistoryStep
<1>3. /\ q \in Record /\ q.status = status /\ q.leg = r.leg /\ q.started = r.started
      /\ q.tag = r.tag /\ q.data = r.data /\ q.written = r.written
  BY <1>1, StatusSet
<1> HIDE DEF q
<1>k. /\ q \in Record /\ txn' = [txn EXCEPT ![t] = q]
      /\ q.data = txn[t].data /\ q.written = txn[t].written /\ q.status # "done"
  BY <1>1, <1>2, <1>3
<1>4. VisitKept(t) /\ Others(t) /\ txn'[t] = q
  BY <1>k, PlainKept
<1> QED
  BY <1>2, <1>3, <1>4

\* A finished or absent transaction holds nothing.
LEMMA IdleHoldsNothing ==
    ASSUME IInv, NEW t \in Ids, ~UnderWay(t) \/ (~txn[t].started /\ txn[t].tag = "none")
    PROVE  (\A b \in busy : b[3] # t) /\ t \notin cam /\ txn[t].tag = "none"
BY DEF IInv, HoldersExact, FlitsExact

\* A step of t that touches neither a stage nor the router.
LEMMA FabricIdle ==
    ASSUME IInv, NEW t \in Ids, Others(t), UNCHANGED <<busy, cam, queue, credit, crossed, noted>>,
           asleep' \subseteq asleep \ {t}, \A b \in busy : b[3] # t, t \notin cam,
           txn[t].tag = "none", txn'[t].tag = "none",
           UnderWay(t)' => OnLeg(t)' /\ (txn'[t].status = "cancelling" /\ ~IsNoc(Kind(t)') => txn'[t].started)
    PROVE  FabricInv'
<1>1. LegsTrue'
  BY LegsKept DEF IInv
<1>2. HoldersExact' /\ CamBound'
  BY HoldersShrink DEF IInv
<1>3. FlitsExact'
  BY FlitsElsewhere DEF IInv
<1>4. CreditsExact'
  BY CreditsKept DEF IInv
<1>5. SleepersBlocked'
  BY SleepersShrink DEF IInv, TypeOK
<1> QED
  BY <1>1, <1>2, <1>3, <1>4, <1>5 DEF FabricInv
-----------------------------------------------------------------------------
(* The actions.                                                            *)

\* submit: a new transaction starts on its first leg and holds nothing yet.
LEMMA SubmitSound ==
    ASSUME IInv, NEW t \in Ids, Submit(t)
    PROVE  IInv' /\ StaleStep
<1> PICK data \in Brought(t) :
       IF Route(t) = <<>> THEN Fault(t, Fresh(t, data))
       ELSE /\ txn' = [txn EXCEPT ![t] =
                         [Fresh(t, data) EXCEPT !.status = "running", !.leg = 1, !.refs = HasL2End(t)]]
            /\ UNCHANGED <<history, error>>
  BY DEF Submit
<1>1. /\ Running /\ txn[t].status = "absent" /\ RecordedAs(t) = {}
      /\ UNCHANGED <<busy, cam, asleep, queue, credit, crossed, noted, gen, store>>
      /\ IF Route(t) = <<>> THEN Fault(t, Fresh(t, data))
         ELSE /\ txn' = [txn EXCEPT ![t] =
                         [Fresh(t, data) EXCEPT !.status = "running", !.leg = 1, !.refs = HasL2End(t)]]
              /\ UNCHANGED <<history, error>>
  BY DEF Submit, fabric
<1>2. TypeOK /\ HistoryTrue /\ DataWhole /\ DoneMeansMoved
  BY DEF IInv
<1>3. txn[t].written \in BOOLEAN
  BY <1>2, RecordOf
<1>4. /\ Fresh(t, data) \in Record /\ Fresh(t, data).written = FALSE
      /\ Fresh(t, data).started = FALSE /\ Fresh(t, data).tag = "none" /\ Fresh(t, data).data = data
  <2>1. gen \in [Domains -> Nat]
    BY <1>2 DEF TypeOK
  <2>2. \A v \in Views : store[v].gen \in Nat
    BY <1>2 DEF TypeOK
  <2>3. /\ (IF Req[t].src = NoEnd THEN 0 ELSE store[Req[t].src].gen) \in Nat
        /\ (IF Req[t].dst = NoEnd THEN 0 ELSE store[Req[t].dst].gen) \in Nat
    BY <2>2, RequestAssumption
  <2>4. data \in {"none", "some", "all"}
    BY DEF Brought
  <2> QED
    BY <2>1, <2>3, <2>4 DEF Fresh, Absent, Record, Stamp
<1>5. (\A b \in busy : b[3] # t) /\ t \notin cam /\ txn[t].tag = "none" /\ t \notin asleep
  BY <1>1, IdleHoldsNothing DEF UnderWay, IInv, SleepersBlocked
<1>6. \A q : q.written = FALSE /\ q.data = data => DataOf(t, q)
  BY DEF DataOf, Brought
<1>7. CASE Route(t) = <<>>
  <2> DEFINE q == [Fresh(t, data) EXCEPT !.status = "faulted"]
  <2>1. "faulted" \in Final
    BY DEF Final
  <2>2. RecordTerminal(t, "faulted", Fresh(t, data))
    BY <1>1, <1>7 DEF Fault
  <2>3. txn' = [txn EXCEPT ![t] = q] /\ HistoryStep
    BY <1>1, <1>2, <1>4, <2>1, <2>2, RecordTerminalSound DEF HistoryStep
  <2>4. q \in Record /\ q.status = "faulted" /\ q.tag = "none" /\ q.data = data /\ q.written = FALSE
    BY <1>4, <2>1, StatusSet
  <2> HIDE DEF q
  <2>5. txn' \in [Ids -> Record] /\ txn'[t] = q /\ Others(t)
    BY <1>2, <2>3, <2>4, OneRecord DEF Others
  <2>6. FabricInv'
    BY <1>1, <1>5, <2>4, <2>5, FabricIdle DEF UnderWay
  <2>7. TypeOK'
    BY <1>1, <1>2, <2>3, <2>5 DEF TypeOK, HistoryStep, Entry
  <2>8. Lawful(t)
    BY <1>1, <2>4, <2>5 DEF Lawful
  <2>9. DataOf(t, txn'[t]) /\ DoneOf(t, txn'[t])
    BY <1>6, <2>4, <2>5 DEF DoneOf
  <2> QED
    BY <2>3, <2>5, <2>6, <2>7, <2>8, <2>9, OneStep DEF HistoryStep
<1>8. CASE Route(t) # <<>>
  <2> DEFINE q == [Fresh(t, data) EXCEPT !.status = "running", !.leg = 1, !.refs = HasL2End(t)]
  <2>1. txn' = [txn EXCEPT ![t] = q] /\ UNCHANGED <<history, error>>
    BY <1>1, <1>8
  <2>2. HasL2End(t) \in BOOLEAN
    BY DEF HasL2End
  <2>3. /\ q \in Record /\ q.status = "running" /\ q.tag = "none" /\ q.data = data /\ q.written = FALSE
        /\ q.leg = 1
    BY <1>4, <2>2 DEF Record
  <2> HIDE DEF q
  <2>4. txn' \in [Ids -> Record] /\ txn'[t] = q /\ Others(t)
    BY <1>2, <2>1, <2>3, OneRecord DEF Others
  <2>5. OnLeg(t)'
    <3>1. Len(Route(t)) \in Nat /\ Len(Route(t)) # 0
      BY <1>8, RouteSeq, EmptySeq
    <3> QED
      BY <2>3, <2>4, <3>1 DEF OnLeg
  <2>6. FabricInv'
    BY <1>1, <1>5, <2>3, <2>4, <2>5, FabricIdle
  <2>7. TypeOK'
    BY <1>1, <1>2, <2>1, <2>4 DEF TypeOK
  <2>8. Lawful(t)
    BY <1>1, <2>3, <2>4 DEF Lawful
  <2>9. DataOf(t, txn'[t]) /\ DoneOf(t, txn'[t])
    BY <1>6, <2>3, <2>4 DEF DoneOf
  <2>10. HistoryTrue' /\ ErrorsExplained'
    <3>1. \A e \in Range(history) : e[1] # t
      BY <1>1 DEF RecordedAs
    <3>2. \A e \in Range(history) : txn'[e[1]].status = txn[e[1]].status
      BY <1>2, <2>4, <3>1, EntryFields DEF Others
    <3> QED
      BY <1>1, <1>2, <2>1, <3>2, HistoryKept
  <2> QED
    BY <2>4, <2>6, <2>7, <2>8, <2>9, <2>10, OneStep
<1> QED
  BY <1>7, <1>8

\* A visit that finds the endpoints of a waiting leg replaced faults it.
LEMMA RejectSound ==
    ASSUME IInv, NEW t \in Ids, Reject(t)
    PROVE  IInv' /\ StaleStep
<1>1. /\ Running /\ UnderWay(t) /\ ~IsNoc(Kind(t)) /\ ~txn[t].started
      /\ RecordTerminal(t, "faulted", txn[t]) /\ asleep' = asleep \ {t}
      /\ UNCHANGED <<busy, cam, queue, credit, crossed, noted, gen, store>>
  BY DEF Reject, Visited, UnderWay, Fault
<1>2. TypeOK /\ HistoryTrue /\ DataWhole /\ DoneMeansMoved
  BY DEF IInv
<1>3. txn[t] \in Record
  BY <1>2, RecordOf
<1>4. \A e \in RecordedAs(t) : e[2] = "faulted"
  BY <1>1, <1>2, RecordedUnderWay
<1>5. txn[t].tag = "none"
  BY <1>1 DEF IInv, FlitsExact
<1>6. /\ VisitKept(t) /\ Others(t) /\ HistoryStep
      /\ txn'[t].status = "faulted" /\ txn'[t].started = txn[t].started /\ txn'[t].tag = txn[t].tag
  BY <1>1, <1>2, <1>3, <1>4, TerminalKept
<1>7. (\A b \in busy : b[3] # t) /\ t \notin cam
  BY <1>1, <1>5, IdleHoldsNothing
<1>8. FabricInv'
  BY <1>1, <1>5, <1>6, <1>7, FabricIdle DEF UnderWay
<1>9. TypeOK'
  BY <1>1, <1>2, <1>6 DEF TypeOK, HistoryStep, Entry, VisitKept
<1>10. Lawful(t)
  BY <1>1, <1>6 DEF Lawful, VisitKept
<1> QED
  BY <1>6, <1>8, <1>9, <1>10, OneStep DEF HistoryStep, VisitKept
-----------------------------------------------------------------------------
\* A grant is free, and an HBM grant leaves room in the CAM.
LEMMA GrantsFree ==
    ASSUME NEW t
    PROVE  /\ Grants(t) \subseteq Channels(StageFor(t)[1]) \ Taken(StageFor(t))
           /\ IsHbm(Kind(t)) /\ Grants(t) # {} => ~(Cardinality(cam) >= HbmLimit)
BY DEF Grants

\* A visit that finds a bank free, and a CAM entry where one is needed, takes them.
LEMMA IssueLegSound ==
    ASSUME IInv, NEW t \in Ids, IssueLeg(t)
    PROVE  IInv' /\ StaleStep
<1> DEFINE new == {<<StageFor(t), c, t>> : c \in Grants(t)}
           q == [txn[t] EXCEPT !.started = TRUE]
<1>1. /\ Running /\ UnderWay(t) /\ OnLeg(t) /\ ~IsNoc(Kind(t)) /\ ~txn[t].started
      /\ IdentityValid(t) /\ t \notin asleep /\ Grants(t) # {}
      /\ txn' = [txn EXCEPT ![t].started = TRUE]
      /\ busy' = busy \cup new
      /\ cam' = IF IsHbm(Kind(t)) THEN cam \cup {t} ELSE cam
      /\ UNCHANGED <<history, asleep, queue, credit, crossed, noted, gen, store, error>>
  BY DEF IssueLeg, Visited, UnderWay, GenerationValid, CanIssue
<1>2. TypeOK /\ HistoryTrue /\ DataWhole /\ DoneMeansMoved /\ HoldersExact
  BY DEF IInv
<1>3. txn[t] \in Record /\ txn[t].status # "done"
  BY <1>1, <1>2, RecordOf DEF UnderWay
<1>4. txn' = [txn EXCEPT ![t] = q]
  BY <1>1, <1>2 DEF TypeOK
<1>5. /\ q \in Record /\ q.status = txn[t].status /\ q.leg = txn[t].leg /\ q.started = TRUE
      /\ q.tag = txn[t].tag /\ q.data = txn[t].data /\ q.written = txn[t].written
  BY <1>3 DEF Record
<1> HIDE DEF q
<1>6. VisitKept(t) /\ Others(t) /\ txn'[t] = q
  BY <1>2, <1>3, <1>4, <1>5, PlainKept
<1>7. Kind(t)' = Kind(t) /\ StageFor(t)' = StageFor(t) /\ OnLeg(t)' = OnLeg(t) /\ UnderWay(t)'
  BY <1>1, <1>5, <1>6 DEF Kind, StageFor, OnLeg, UnderWay
<1>8. txn[t].tag = "none"
  BY <1>1 DEF IInv, FlitsExact
<1>9. (\A b \in busy : b[3] # t) /\ t \notin cam
  BY <1>1, <1>8, IdleHoldsNothing
<1>10. /\ Grants(t) \subseteq Channels(StageFor(t)[1]) \ Taken(StageFor(t))
       /\ IsHbm(Kind(t)) => ~(Cardinality(cam) >= HbmLimit)
  BY <1>1, GrantsFree
<1>11. \A b \in new : /\ b[1] = StageFor(t) /\ b[3] = t /\ b = <<StageFor(t), b[2], t>>
                      /\ b[2] \in Channels(b[1][1]) /\ b[2] \notin Taken(b[1])
  BY <1>10
<1> HIDE DEF new
<1>12. \A b \in busy : b[3] \in Ids \ {t}
  BY <1>2, <1>9 DEF TypeOK
<1>13. HoldersExact'
  <2>1. ASSUME NEW b \in busy'
        PROVE  /\ UnderWay(b[3])' /\ txn'[b[3]].started /\ ~IsNoc(Kind(b[3])') /\ b[1] = StageFor(b[3])'
    <3>1. CASE b \in busy
      <4>1. txn'[b[3]] = txn[b[3]]
        BY <1>6, <1>12, <3>1 DEF Others
      <4> QED
        BY <1>2, <3>1, <4>1, SameLeg DEF HoldersExact
    <3>2. CASE b \in new
      BY <1>1, <1>5, <1>6, <1>7, <1>11, <3>2
    <3> QED
      BY <1>1, <3>1, <3>2
  <2>2. ASSUME NEW b \in busy', NEW c \in busy', b[1] = c[1], b[2] = c[2]
        PROVE  b = c
    <3>1. \A x \in busy : x[2] \in Taken(x[1])
      BY DEF Taken
    <3> QED
      BY <1>1, <1>2, <1>11, <2>2, <3>1 DEF HoldersExact
  <2>3. ASSUME NEW u \in cam'
        PROVE  UnderWay(u)' /\ txn'[u].started /\ IsHbm(Kind(u)')
    <3>1. CASE u \in cam
      <4>1. txn'[u] = txn[u]
        BY <1>2, <1>6, <1>9, <3>1 DEF Others, TypeOK
      <4> QED
        BY <1>2, <3>1, <4>1, SameLeg DEF HoldersExact
    <3>2. CASE u \notin cam
      BY <1>1, <1>5, <1>6, <1>7, <2>3, <3>2
    <3> QED
      BY <3>1, <3>2
  <2> QED
    BY <2>1, <2>2, <2>3 DEF HoldersExact
<1>14. CamBound'
  <2>1. IsFiniteSet(cam) /\ HbmLimit \in Nat
    BY <1>2, FabricAssumption, FS_Subset DEF TypeOK
  <2>2. Cardinality(cam) \in Nat
    BY <2>1, FS_CardinalityType
  <2>3. CASE IsHbm(Kind(t))
    <3>1. cam' = cam \cup {t}
      BY <1>1, <2>3
    <3>2. Cardinality(cam') = Cardinality(cam) + 1
      BY <1>9, <2>1, <3>1, FS_AddElement
    <3> QED
      BY <1>10, <2>1, <2>2, <2>3, <3>2 DEF CamBound
  <2>4. CASE ~IsHbm(Kind(t))
    BY <1>1, <2>4 DEF CamBound, IInv
  <2> QED
    BY <2>3, <2>4
<1>15. LegsTrue'
  BY <1>1, <1>5, <1>6, <1>7, LegsKept DEF IInv
<1>16. FlitsExact' /\ CreditsExact'
  BY <1>1, <1>5, <1>6, <1>8, FlitsElsewhere, CreditsKept DEF IInv
<1>17. cam' \subseteq Ids /\ cam \subseteq cam' /\ busy \subseteq busy' /\ asleep' \subseteq asleep \ {t}
  BY <1>1, <1>2 DEF TypeOK
<1>18. SleepersBlocked'
  BY <1>6, <1>17, SleepersShrink DEF IInv
<1>19. FabricInv'
  BY <1>13, <1>14, <1>15, <1>16, <1>18 DEF FabricInv
<1>20. TypeOK'
  <2>1. \A b \in busy' : b[2] \in Channels(b[1][1]) /\ b[3] \in Ids
    BY <1>1, <1>2, <1>11 DEF TypeOK
  <2> QED
    BY <1>1, <1>2, <1>6, <1>17, <2>1 DEF TypeOK, VisitKept
<1>21. Lawful(t)
  BY <1>1, <1>6 DEF Lawful, VisitKept
<1>22. HistoryTrue' /\ ErrorsExplained'
  <2>1. \A e \in Range(history) : txn'[e[1]].status = txn[e[1]].status
    BY <1>2, <1>5, <1>6, EntryFields DEF Others
  <2> QED
    BY <1>1, <1>2, <2>1, HistoryKept
<1> QED
  BY <1>6, <1>19, <1>20, <1>21, <1>22, OneStep DEF VisitKept

\* A visit that finds no resource puts the transaction to sleep, and it is then blocked.
LEMMA RefuseSound ==
    ASSUME IInv, NEW t \in Ids, Refuse(t)
    PROVE  IInv' /\ StaleStep
<1>1. /\ Running /\ UnderWay(t) /\ ~IsNoc(Kind(t)) /\ ~txn[t].started /\ ~CanIssue(t)
      /\ asleep' = asleep \cup {t}
      /\ UNCHANGED <<txn, history, busy, cam, queue, credit, crossed, noted, gen, store, error>>
  BY DEF Refuse, Visited, UnderWay
<1>2. TypeOK' /\ LegsTrue' /\ HoldersExact' /\ CamBound' /\ FlitsExact' /\ CreditsExact'
  BY <1>1 DEF IInv, TypeOK, LegsTrue, HoldersExact, CamBound, FlitsExact, CreditsExact, Across, UnderWay,
              OnLeg, Kind, StageFor, VcOf
<1>3. \A u : CanIssue(u)' = CanIssue(u) /\ UnderWay(u)' = UnderWay(u) /\ Kind(u)' = Kind(u)
  BY <1>1 DEF CanIssue, Grants, Taken, StageFor, Kind, UnderWay
<1>4. SleepersBlocked'
  BY <1>1, <1>3 DEF IInv, SleepersBlocked
<1>5. HistoryTrue' /\ ErrorsExplained' /\ DataWhole' /\ DoneMeansMoved'
  BY <1>1 DEF IInv, HistoryTrue, Running, ErrorsExplained, Live, RecordedAs, DataWhole, DataOf, DoneMeansMoved
<1>6. StaleStep
  BY <1>1 DEF StaleStep
<1> QED
  BY <1>2, <1>4, <1>5, <1>6 DEF IInv
-----------------------------------------------------------------------------
\* A leg that cannot capture or commit faults its transaction.
LEMMA FaultGrown ==
    ASSUME TypeOK, HistoryTrue, Running, NEW t \in Ids, UnderWay(t), NEW r, Grown(t, r, txn[t]), Fault(t, r)
    PROVE  /\ VisitKept(t) /\ HistoryStep
           /\ txn'[t].status = "faulted" /\ txn'[t].started = r.started /\ txn'[t].tag = r.tag
<1> DEFINE q == [r EXCEPT !.status = "faulted"]
<1>1. "faulted" \in Final /\ r \in Record /\ RecordTerminal(t, "faulted", r)
  BY DEF Final, Grown, Fault
<1>2. \A e \in RecordedAs(t) : e[2] = "faulted" /\ "faulted" # "done"
  BY RecordedUnderWay
<1>3. txn' = [txn EXCEPT ![t] = q] /\ HistoryStep
  BY <1>1, <1>2, RecordTerminalSound DEF HistoryStep
<1>4. /\ q \in Record /\ q.status = "faulted" /\ q.started = r.started /\ q.tag = r.tag
      /\ q.data = r.data /\ q.written = r.written
  BY <1>1, StatusSet
<1> HIDE DEF q
<1>5. txn' \in [Ids -> Record] /\ txn'[t] = q /\ \A u \in Ids \ {t} : txn'[u] = txn[u]
  BY <1>3, <1>4, OneRecord
<1>6. VisitKept(t)
  BY <1>4, <1>5 DEF VisitKept, Grown, DataOf, DoneOf
<1> QED
  BY <1>3, <1>4, <1>5, <1>6

\* A resource leg that ends gives back its bank and entry and moves on.
LEMMA CompleteLegSound ==
    ASSUME IInv, NEW t \in Ids, CompleteLeg(t)
    PROVE  IInv' /\ StaleStep
<1> DEFINE captured == IF ReadsSource(Kind(t), Req[t]) THEN Capture(t, txn[t]) ELSE <<"ok", txn[t]>>
           committed == IF captured[1] = "ok" /\ WritesDestination(Kind(t), Req[t])
                        THEN Commit(t, captured[2]) ELSE captured
<1>1. /\ Running /\ UnderWay(t) /\ OnLeg(t) /\ ~IsNoc(Kind(t)) /\ txn[t].started /\ Released(t)
      /\ IF committed[1] = "ok" THEN AdvanceLeg(t, committed[2])
         ELSE Fault(t, committed[2]) /\ store' = store
      /\ UNCHANGED <<queue, credit, crossed, noted, gen>>
  BY DEF CompleteLeg, Visited, UnderWay
<1>2. TypeOK /\ HistoryTrue /\ DataWhole /\ DoneMeansMoved
  BY DEF IInv
<1>3. txn[t] \in Record /\ DataOf(t, txn[t])
  BY <1>2, RecordOf DEF DataWhole
<1>4. Grown(t, txn[t], txn[t])
  BY <1>3 DEF Grown
<1>5. Grown(t, captured[2], txn[t])
  <2>1. CASE ReadsSource(Kind(t), Req[t])
    BY <1>2, <1>3, <2>1, CaptureSound
  <2>2. CASE ~ReadsSource(Kind(t), Req[t])
    BY <1>4, <2>2
  <2> QED
    BY <2>1, <2>2
<1> HIDE DEF captured
<1>6. Grown(t, committed[2], txn[t])
  <2>1. CASE captured[1] = "ok" /\ WritesDestination(Kind(t), Req[t])
    <3>1. captured[2] \in Record /\ DataOf(t, captured[2])
      BY <1>5 DEF Grown
    <3>2. Grown(t, Commit(t, captured[2])[2], captured[2])
      BY <1>2, <3>1, CommitSound
    <3> QED
      BY <1>5, <2>1, <3>2, GrownTwice
  <2>2. CASE ~(captured[1] = "ok" /\ WritesDestination(Kind(t), Req[t]))
    BY <1>5, <2>2
  <2> QED
    BY <2>1, <2>2
<1> HIDE DEF committed
<1>7. txn[t].tag = "none"
  BY <1>1 DEF IInv, FlitsExact
<1>8. /\ VisitKept(t) /\ HistoryStep /\ store' \in StoreType
      /\ txn'[t].tag = "none"
      /\ txn'[t].status \in Final \/ (txn'[t].status = "running" /\ OnLeg(t)')
  <2>1. CASE committed[1] = "ok"
    BY <1>1, <1>2, <1>6, <2>1, AdvanceLegSound
  <2>2. CASE committed[1] # "ok"
    <3>1. Fault(t, committed[2]) /\ store' = store
      BY <1>1, <2>2
    <3>2. /\ VisitKept(t) /\ HistoryStep /\ txn'[t].status = "faulted" /\ txn'[t].tag = committed[2].tag
      BY <1>1, <1>2, <1>6, <3>1, FaultGrown
    <3>3. committed[2].tag = "none" /\ "faulted" \in Final /\ store \in StoreType
      BY <1>2, <1>6, <1>7 DEF Grown, Final, TypeOK, StoreType
    <3> QED
      BY <3>1, <3>2, <3>3
  <2> QED
    BY <2>1, <2>2
<1>9. Others(t)
  BY <1>8 DEF Others, VisitKept
<1>10. /\ HoldersExact' /\ CamBound' /\ SleepersBlocked'
       /\ busy' \subseteq busy /\ cam' \subseteq cam /\ asleep' \subseteq asleep
  BY <1>1, <1>9, ReleasedSound DEF IInv
<1>11. LegsTrue'
  BY <1>8, <1>9, LegsKept DEF IInv, UnderWay, Final
<1>12. FlitsExact' /\ CreditsExact'
  BY <1>1, <1>7, <1>8, <1>9, FlitsElsewhere, CreditsKept DEF IInv
<1>13. FabricInv'
  BY <1>10, <1>11, <1>12 DEF FabricInv
<1>14. TypeOK'
  BY <1>1, <1>2, <1>8, <1>10 DEF TypeOK, VisitKept, HistoryStep, Entry, StoreType
<1>15. Lawful(t)
  BY <1>1, <1>8 DEF Lawful, VisitKept
<1> QED
  BY <1>8, <1>9, <1>13, <1>14, <1>15, OneStep DEF VisitKept, HistoryStep

\* A bank reservation that lapses frees its bank and wakes who may have waited for it.
LEMMA LapseSound ==
    ASSUME IInv, NEW b \in busy, Lapse(b)
    PROVE  IInv' /\ StaleStep
<1>1. /\ busy' = busy \ {b}
      /\ cam' = IF IsHbm(b[1][1]) THEN cam \ {b[3]} ELSE cam
      /\ asleep' = asleep \ Woken(b[1])
      /\ UNCHANGED <<txn, history, queue, credit, crossed, noted, gen, store, error>>
  BY DEF Lapse
<1>2. TypeOK /\ HoldersExact /\ CamBound /\ LegsTrue /\ SleepersBlocked
  BY DEF IInv
<1>3. \A u : /\ Kind(u)' = Kind(u) /\ StageFor(u)' = StageFor(u) /\ UnderWay(u)' = UnderWay(u)
             /\ OnLeg(u)' = OnLeg(u) /\ VcOf(u)' = VcOf(u)
  BY <1>1 DEF Kind, StageFor, UnderWay, OnLeg, VcOf
<1>4. busy' \subseteq busy /\ cam' \subseteq cam /\ asleep' \subseteq asleep
  BY <1>1
<1>5. TypeOK'
  BY <1>1, <1>2, <1>4 DEF TypeOK
<1>6. LegsTrue' /\ FlitsExact' /\ CreditsExact'
  BY <1>1, <1>3 DEF IInv, LegsTrue, FlitsExact, CreditsExact, Across
<1>7. HoldersExact'
  BY <1>1, <1>2, <1>3, <1>4 DEF HoldersExact
<1>8. CamBound'
  <2>1. cam \in SUBSET Ids /\ IsFiniteSet(Ids) /\ HbmLimit \in Nat
    BY <1>2, FabricAssumption DEF TypeOK
  <2>2. IsFiniteSet(cam) /\ cam' \in SUBSET cam
    BY <1>4, <2>1, FS_Subset
  <2>3. Cardinality(cam') <= Cardinality(cam) /\ Cardinality(cam) \in Nat /\ Cardinality(cam') \in Nat
    BY <2>2, FS_Subset, FS_CardinalityType
  <2> QED
    BY <1>2, <2>1, <2>3 DEF CamBound
<1>9. SleepersBlocked'
  <2>1. ASSUME NEW u \in asleep'
        PROVE  UnderWay(u)' /\ ~IsNoc(Kind(u)') /\ ~txn'[u].started /\ ~CanIssue(u)'
    <3>1. u \in asleep /\ u \in Ids /\ Family(StageFor(u)) # Family(b[1])
      BY <1>1, <1>2, <2>1 DEF Woken, TypeOK
    <3>2. UnderWay(u) /\ ~IsNoc(Kind(u)) /\ ~txn[u].started /\ ~CanIssue(u)
      BY <1>2, <3>1 DEF SleepersBlocked
    <3>3. IsHbm(b[1][1]) => Family(b[1]) = <<"hbm", 0>>
      BY DEF Family
    <3>4. IsHbm(Kind(u)) => cam \subseteq cam'
      BY <1>1, <3>1, <3>3, HbmFamily
    <3>5. \A c \in busy : c[1] = StageFor(u) => c \in busy'
      BY <1>1, <3>1
    <3>6. cam' \subseteq Ids /\ txn'[u] = txn[u]
      BY <1>1, <1>2, <1>4 DEF TypeOK
    <3>7. ~CanIssue(u)'
      BY <1>2, <3>1, <3>2, <3>4, <3>5, <3>6, BlockedStays
    <3> QED
      BY <1>1, <1>3, <3>2, <3>7
  <2> QED
    BY <2>1 DEF SleepersBlocked
<1>10. HistoryTrue' /\ ErrorsExplained' /\ DataWhole' /\ DoneMeansMoved'
  BY <1>1 DEF IInv, HistoryTrue, Running, ErrorsExplained, Live, RecordedAs, DataWhole, DataOf, DoneMeansMoved
<1>11. StaleStep
  BY <1>1 DEF StaleStep
<1> QED
  BY <1>5, <1>6, <1>7, <1>8, <1>9, <1>10, <1>11 DEF IInv
-----------------------------------------------------------------------------
(* The router.                                                             *)

\* The virtual channel of a transaction is one of the channels.
LEMMA VcType ==
    ASSUME NEW t
    PROVE  VcOf(t) \in Vcs
BY DEF VcOf, Channel, Vcs

\* The flits across a channel can be counted.
LEMMA AcrossFinite ==
    ASSUME TypeOK, NEW v
    PROVE  IsFiniteSet(crossed) /\ IsFiniteSet(Across(v)) /\ Cardinality(Across(v)) \in Nat
<1>1. Vcs = {1} \cup {2}
  BY DEF Vcs
<1>2. IsFiniteSet(Vcs)
  BY <1>1, FS_Singleton, FS_AddElement
<1>3. IsFiniteSet(Ids \X Vcs)
  BY <1>2, FabricAssumption, FS_Product
<1>4. crossed \in SUBSET (Ids \X Vcs) /\ Across(v) \in SUBSET crossed
  BY DEF TypeOK, Across
<1>5. IsFiniteSet(crossed)
  BY <1>3, <1>4, FS_Subset
<1>6. IsFiniteSet(Across(v))
  BY <1>4, <1>5, FS_Subset
<1> QED
  BY <1>5, <1>6, FS_CardinalityType

\* The flits of one transaction among those that crossed.
LEMMA CrossedOf ==
    ASSUME TypeOK, FlitsExact, NEW t \in Ids
    PROVE  /\ t \notin noted => crossed = {c \in crossed : c[1] # t}
           /\ t \in noted => crossed \ {<<t, VcOf(t)>>} = {c \in crossed : c[1] # t}
<1>1. \A c \in crossed : c[1] = t => c = <<t, VcOf(t)>> /\ t \in noted
  <2> TAKE c \in crossed
  <2>1. c = <<c[1], c[2]>>
    BY DEF TypeOK
  <2> QED
    BY <2>1 DEF FlitsExact
<1> QED
  BY <1>1

\* A credit comes back for a flit that crossed.
LEMMA ReturnSound ==
    ASSUME TypeOK, FlitsExact, CreditsExact, NEW t \in noted, ReturnCredit(t, VcOf(t))
    PROVE  /\ CreditsExact' /\ credit' \in [Vcs -> 0 .. VcDepth]
           /\ crossed' = {c \in crossed : c[1] # t} /\ crossed' \subseteq crossed
<1>v. PICK v \in Vcs : v = VcOf(t)
  BY VcType
<1> DEFINE f == <<t, v>>
<1>1. t \in Ids /\ v \in Vcs /\ f \in crossed /\ VcDepth \in Nat
  BY <1>v, FabricAssumption DEF TypeOK, FlitsExact
<1>2. /\ credit \in [Vcs -> 0 .. VcDepth] /\ credit[v] \in 0 .. VcDepth
      /\ IsFiniteSet(Across(v)) /\ Cardinality(Across(v)) \in Nat /\ f \in Across(v)
      /\ credit[v] + Cardinality(Across(v)) = VcDepth
  BY <1>1, AcrossFinite DEF TypeOK, CreditsExact, Across
<1>3. Cardinality(Across(v) \ {f}) = Cardinality(Across(v)) - 1
  BY <1>2, FS_RemoveElement
<1>4. Cardinality(Across(v)) > 0
  <2>1. Across(v) # {}
    BY <1>2
  <2> QED
    BY <1>2, <2>1, FS_EmptySet
<1>5. crossed' = crossed \ {f} /\ credit' = [credit EXCEPT ![v] = @ + 1]
  BY <1>v, <1>1, <1>2, <1>4 DEF ReturnCredit
<1>6. crossed' = {c \in crossed : c[1] # t}
  BY <1>v, <1>1, <1>5, CrossedOf
<1>7. Across(v)' = Across(v) \ {f} /\ \A w \in Vcs \ {v} : Across(w)' = Across(w)
  BY <1>5 DEF Across
<1>8. credit' \in [Vcs -> 0 .. VcDepth] /\ credit'[v] = credit[v] + 1 /\ \A w \in Vcs \ {v} : credit'[w] = credit[w]
  BY <1>1, <1>2, <1>4, <1>5
<1>9. ASSUME NEW w \in Vcs PROVE credit'[w] + Cardinality(Across(w)') = VcDepth
  <2>1. CASE w = v
    <3>1. Cardinality(Across(v)') = Cardinality(Across(v)) - 1
      BY <1>3, <1>7
    <3> QED
      BY <1>1, <1>2, <1>8, <2>1, <3>1
  <2>2. CASE w # v
    BY <1>7, <1>8, <2>2 DEF CreditsExact
  <2> QED
    BY <2>1, <2>2
<1> QED
  BY <1>5, <1>6, <1>8, <1>9 DEF CreditsExact

\* Withdrawing the flit of t from the queues.
LEMMA UnqueuedSound ==
    ASSUME TypeOK, FlitsExact, NEW t \in Ids
    PROVE  /\ Unqueued(t) \in [Vcs -> Seq(Ids)]
           /\ \A v \in Vcs : Distinct(Unqueued(t)[v]) /\ Range(Unqueued(t)[v]) = Range(queue[v]) \ {t}
<1>1. ASSUME NEW v \in Vcs
      PROVE  /\ Unqueued(t)[v] \in Seq(Ids) /\ Distinct(Unqueued(t)[v])
             /\ Range(Unqueued(t)[v]) = Range(queue[v]) \ {t}
  <2>1. Unqueued(t)[v] = Drop(queue[v], {i \in DOMAIN queue[v] : queue[v][i] = t})
    BY DEF Unqueued
  <2>2. queue[v] \in Seq(Ids) /\ Distinct(queue[v])
    BY DEF TypeOK, FlitsExact
  <2> DEFINE r == Drop(queue[v], {i \in DOMAIN queue[v] : queue[v][i] = t})
  <2>3. r \in Seq(Ids) /\ Distinct(r) /\ Range(r) = Range(queue[v]) \ {t}
    BY <2>2, DropDistinct, Zenon
  <2> QED
    BY <2>1, <2>3, Zenon
<1>2. Unqueued(t) = [v \in Vcs |-> Unqueued(t)[v]]
  BY DEF Unqueued
<1> QED
  BY <1>1, <1>2

\* A NoC leg is not an HBM leg.
LEMMA NocIsNotHbm ==
    ASSUME NEW k, IsNoc(k)
    PROVE  ~IsHbm(k)
BY DEF IsNoc, IsHbm

\* A transaction on a NoC leg holds no bank and no CAM entry, and does not sleep.
LEMMA NocHoldsNothing ==
    ASSUME IInv, NEW t \in Ids, IsNoc(Kind(t))
    PROVE  (\A b \in busy : b[3] # t) /\ t \notin cam /\ t \notin asleep
BY NocIsNotHbm DEF IInv, HoldersExact, SleepersBlocked

\* A step of t on a NoC leg: the stages and their sleepers are not concerned.
LEMMA NocStages ==
    ASSUME IInv, NEW t \in Ids, IsNoc(Kind(t)), Others(t), UNCHANGED <<busy, cam, asleep>>
    PROVE  HoldersExact' /\ CamBound' /\ SleepersBlocked'
<1>1. (\A b \in busy : b[3] # t) /\ t \notin cam /\ t \notin asleep
  BY NocHoldsNothing
<1>2. HoldersExact' /\ CamBound'
  BY <1>1, HoldersShrink DEF IInv
<1>3. SleepersBlocked'
  BY <1>1, SleepersShrink DEF IInv, TypeOK
<1> QED
  BY <1>2, <1>3

\* A NoC leg that starts queues one flit on the channel of its leg.
LEMMA EnterNocSound ==
    ASSUME IInv, NEW t \in Ids, EnterNoc(t)
    PROVE  IInv' /\ StaleStep
<1>1. /\ Running /\ UnderWay(t) /\ OnLeg(t) /\ IsNoc(Kind(t)) /\ txn[t].tag = "none"
      /\ UNCHANGED <<busy, cam, asleep, credit, crossed, noted, gen, store>>
  BY DEF EnterNoc, OnNoc, Visited, UnderWay
<1>2. TypeOK /\ HistoryTrue /\ DataWhole /\ DoneMeansMoved /\ FlitsExact
  BY DEF IInv
<1>3. txn[t] \in Record /\ txn[t].status # "done"
  BY <1>1, <1>2, RecordOf DEF UnderWay
<1>4. CASE GenerationValid(t, "transport")
  <2> DEFINE v == VcOf(t)
             q == [txn[t] EXCEPT !.tag = Kind(t), !.started = TRUE]
  <2>1. /\ txn' = [txn EXCEPT ![t].tag = Kind(t), ![t].started = TRUE]
        /\ queue' = [queue EXCEPT ![v] = Append(@, t)] /\ UNCHANGED <<history, error>>
    BY <1>4 DEF EnterNoc
  <2>2. IdentityValid(t)
    BY <1>4 DEF GenerationValid
  <2>3. Kind(t) \in {"noc_response", "noc_request"}
    BY <1>1 DEF IsNoc
  <2>4. txn' = [txn EXCEPT ![t] = q]
    BY <1>2, <2>1 DEF TypeOK
  <2>5. /\ q \in Record /\ q.status = txn[t].status /\ q.leg = txn[t].leg /\ q.started = TRUE
        /\ q.tag # "none" /\ q.data = txn[t].data /\ q.written = txn[t].written
    BY <1>3, <2>3 DEF Record
  <2> HIDE DEF q
  <2>6. VisitKept(t) /\ Others(t) /\ txn'[t] = q
    BY <1>2, <1>3, <2>4, <2>5, PlainKept
  <2>7. Kind(t)' = Kind(t) /\ VcOf(t)' = VcOf(t) /\ OnLeg(t)' = OnLeg(t) /\ UnderWay(t)'
    BY <1>1, <2>5, <2>6 DEF Kind, VcOf, OnLeg, UnderWay
  <2>8. t \notin noted /\ \A w \in Vcs : t \notin Range(queue[w])
    BY <1>1, <1>2 DEF FlitsExact
  <2>9. v \in Vcs /\ queue[v] \in Seq(Ids) /\ Distinct(queue[v])
    BY <1>2, VcType DEF TypeOK, FlitsExact
  <2>10. /\ Append(queue[v], t) \in Seq(Ids) /\ Distinct(Append(queue[v], t))
         /\ Range(Append(queue[v], t)) = Range(queue[v]) \cup {t}
    BY <2>8, <2>9, AppendDistinct
  <2>11. queue \in [Vcs -> Seq(Ids)]
    BY <1>2 DEF TypeOK
  <2> HIDE DEF v
  <2>12. /\ queue' \in [Vcs -> Seq(Ids)] /\ queue'[v] = Append(queue[v], t)
         /\ \A w \in Vcs \ {v} : queue'[w] = queue[w]
    BY <2>1, <2>9, <2>10, <2>11
  <2>13. /\ \A w \in Vcs : Distinct(queue'[w])
         /\ \A w \in Vcs : \A u : u \in Range(queue'[w]) <=> u \in Range(queue[w]) \/ (w = v /\ u = t)
    <3>1. ASSUME NEW w \in Vcs
          PROVE  /\ Distinct(queue'[w])
                 /\ \A u : u \in Range(queue'[w]) <=> u \in Range(queue[w]) \/ (w = v /\ u = t)
      <4>1. CASE w = v
        BY <2>10, <2>12, <4>1
      <4>2. CASE w # v
        BY <1>2, <2>12, <4>2 DEF FlitsExact
      <4> QED
        BY <4>1, <4>2
    <3> QED
      BY <3>1
  <2>14. \A u \in Ids \ {t} : /\ txn'[u] = txn[u] /\ Kind(u)' = Kind(u) /\ VcOf(u)' = VcOf(u)
                              /\ UnderWay(u)' = UnderWay(u)
    BY <2>6, SameLeg DEF Others
  <2>15. FlitsExact'
    <3>1. \A u \in Ids : txn'[u].tag # "none" <=> (u \in noted' \/ \E w \in Vcs : u \in Range(queue'[w]))
      <4> TAKE u \in Ids
      <4>1. CASE u = t
        BY <2>5, <2>6, <2>9, <2>13, <4>1
      <4>2. CASE u # t
        BY <1>1, <1>2, <2>13, <2>14, <4>2 DEF FlitsExact
      <4> QED
        BY <4>1, <4>2
    <3>2. \A u \in Ids : txn'[u].tag # "none" => UnderWay(u)' /\ IsNoc(Kind(u)')
      BY <1>1, <1>2, <2>7, <2>14 DEF FlitsExact
    <3>3. \A w \in Vcs : Distinct(queue'[w]) /\ \A u \in Range(queue'[w]) : w = VcOf(u)' /\ u \notin noted'
      <4>1. \A w \in Vcs : \A u \in Range(queue[w]) : u \in Ids \ {t}
        <5> TAKE w \in Vcs
        <5> TAKE u \in Range(queue[w])
        <5>1. queue[w] \in Seq(Ids)
          BY <2>11
        <5>2. PICK i \in 1 .. Len(queue[w]) : queue[w][i] = u
          BY <5>1, RangeSeq
        <5> QED
          BY <2>8, <5>1, <5>2, ElementOfSeq
      <4> QED
        BY <1>1, <1>2, <2>7, <2>8, <2>13, <2>14, <4>1 DEF FlitsExact, v
    <3>4. \A c \in crossed' : c[2] = VcOf(c[1])' /\ c[1] \in noted'
      BY <1>1, <1>2, <2>8, <2>14 DEF FlitsExact, TypeOK
    <3>5. \A u \in noted' : <<u, VcOf(u)'>> \in crossed'
      BY <1>1, <1>2, <2>8, <2>14 DEF FlitsExact, TypeOK
    <3> QED
      BY <3>1, <3>2, <3>3, <3>4, <3>5 DEF FlitsExact
  <2>16. HoldersExact' /\ CamBound' /\ SleepersBlocked'
    BY <1>1, <2>6, NocStages
  <2>17. LegsTrue'
    BY <1>1, <2>6, <2>7, LegsKept DEF IInv
  <2>18. FabricInv'
    BY <1>1, <2>15, <2>16, <2>17, CreditsKept DEF FabricInv, IInv
  <2>19. TypeOK'
    BY <1>1, <1>2, <2>1, <2>6, <2>12 DEF TypeOK, VisitKept
  <2>20. Lawful(t)
    BY <2>2, <2>6 DEF Lawful, VisitKept
  <2>21. HistoryTrue' /\ ErrorsExplained'
    <3>1. \A e \in Range(history) : txn'[e[1]].status = txn[e[1]].status
      BY <1>2, <2>5, <2>6, EntryFields DEF Others
    <3> QED
      BY <1>1, <1>2, <2>1, <3>1, HistoryKept
  <2> QED
    BY <2>6, <2>18, <2>19, <2>20, <2>21, OneStep DEF VisitKept
<1>5. CASE ~GenerationValid(t, "transport")
  <2>1. RecordTerminal(t, "faulted", txn[t]) /\ UNCHANGED queue
    BY <1>5 DEF EnterNoc, Fault
  <2>2. \A e \in RecordedAs(t) : e[2] = "faulted"
    BY <1>1, <1>2, RecordedUnderWay
  <2>3. /\ VisitKept(t) /\ Others(t) /\ HistoryStep
        /\ txn'[t].status = "faulted" /\ txn'[t].started = txn[t].started /\ txn'[t].tag = txn[t].tag
    BY <1>1, <1>2, <1>3, <2>1, <2>2, TerminalKept
  <2>4. (\A b \in busy : b[3] # t) /\ t \notin cam /\ t \notin asleep
    BY <1>1, NocHoldsNothing
  <2>5. FabricInv'
    BY <1>1, <2>1, <2>3, <2>4, FabricIdle DEF UnderWay
  <2>6. TypeOK'
    BY <1>1, <1>2, <2>1, <2>3 DEF TypeOK, HistoryStep, Entry, VisitKept
  <2>7. Lawful(t)
    BY <1>1, <2>3 DEF Lawful, VisitKept
  <2> QED
    BY <2>3, <2>5, <2>6, <2>7, OneStep DEF HistoryStep, VisitKept
<1> QED
  BY <1>4, <1>5
-----------------------------------------------------------------------------

\* The router moves the head of a channel across, for one credit.
LEMMA RouterStepSound ==
    ASSUME IInv, NEW v \in Vcs, RouterStep(v)
    PROVE  IInv' /\ StaleStep
<1>1. TypeOK /\ FlitsExact /\ CreditsExact
  BY DEF IInv
<1>2. queue[v] \in Seq(Ids) /\ queue[v] # <<>> /\ Distinct(queue[v]) /\ queue \in [Vcs -> Seq(Ids)]
  BY <1>1 DEF RouterStep, TypeOK, FlitsExact
<1>3. PICK t \in Ids : t = Head(queue[v])
  BY <1>2, TailDistinct
<1>4. /\ t \in Range(queue[v]) /\ Tail(queue[v]) \in Seq(Ids) /\ Distinct(Tail(queue[v]))
      /\ Range(Tail(queue[v])) = Range(queue[v]) \ {t}
  BY <1>2, <1>3, TailDistinct
<1>5. txn[t].tag # "none" /\ UnderWay(t) /\ v = VcOf(t) /\ t \notin noted
  BY <1>1, <1>4 DEF FlitsExact
<1>6. txn[t].status \notin Final
  BY <1>5 DEF UnderWay, Final
<1>7. /\ Running /\ credit[v] > 0
      /\ queue' = [queue EXCEPT ![v] = Tail(@)]
      /\ credit' = [credit EXCEPT ![v] = @ - 1]
      /\ crossed' = crossed \cup {<<t, v>>}
      /\ noted' = noted \cup {t}
      /\ error' = "none"
      /\ UNCHANGED <<txn, history, busy, cam, asleep, gen, store>>
  BY <1>3, <1>5, <1>6 DEF RouterStep
<1>8. \A u : /\ Kind(u)' = Kind(u) /\ StageFor(u)' = StageFor(u) /\ UnderWay(u)' = UnderWay(u)
             /\ OnLeg(u)' = OnLeg(u) /\ VcOf(u)' = VcOf(u) /\ CanIssue(u)' = CanIssue(u)
  BY <1>7 DEF Kind, StageFor, UnderWay, OnLeg, VcOf, CanIssue, Grants, Taken
<1>9. /\ queue' \in [Vcs -> Seq(Ids)] /\ queue'[v] = Tail(queue[v])
      /\ \A w \in Vcs \ {v} : queue'[w] = queue[w]
  BY <1>2, <1>4, <1>7
<1>10. /\ \A w \in Vcs : Distinct(queue'[w])
       /\ \A w \in Vcs : \A u : u \in Range(queue'[w]) <=> u \in Range(queue[w]) /\ ~(w = v /\ u = t)
  <2>1. ASSUME NEW w \in Vcs
        PROVE  /\ Distinct(queue'[w])
               /\ \A u : u \in Range(queue'[w]) <=> u \in Range(queue[w]) /\ ~(w = v /\ u = t)
    <3>1. CASE w = v
      BY <1>4, <1>9, <3>1
    <3>2. CASE w # v
      BY <1>1, <1>9, <3>2 DEF FlitsExact
    <3> QED
      BY <3>1, <3>2
  <2> QED
    BY <2>1
<1>11. \A w \in Vcs : t \in Range(queue[w]) => w = v
  BY <1>1, <1>5 DEF FlitsExact
<1>12. FlitsExact'
  <2>1. \A u \in Ids : txn'[u].tag # "none" <=> (u \in noted' \/ \E w \in Vcs : u \in Range(queue'[w]))
    BY <1>1, <1>4, <1>5, <1>7, <1>10 DEF FlitsExact
  <2>2. \A u \in Ids : txn'[u].tag # "none" => UnderWay(u)' /\ IsNoc(Kind(u)')
    BY <1>1, <1>7, <1>8 DEF FlitsExact
  <2>3. \A w \in Vcs : Distinct(queue'[w]) /\ \A u \in Range(queue'[w]) : w = VcOf(u)' /\ u \notin noted'
    BY <1>1, <1>7, <1>8, <1>10, <1>11 DEF FlitsExact
  <2>4. \A c \in crossed' : c[2] = VcOf(c[1])' /\ c[1] \in noted'
    BY <1>1, <1>5, <1>7, <1>8 DEF FlitsExact
  <2>5. \A u \in noted' : <<u, VcOf(u)'>> \in crossed'
    BY <1>1, <1>5, <1>7, <1>8 DEF FlitsExact
  <2> QED
    BY <2>1, <2>2, <2>3, <2>4, <2>5 DEF FlitsExact
<1>13. /\ credit \in [Vcs -> 0 .. VcDepth] /\ credit[v] \in 0 .. VcDepth /\ VcDepth \in Nat
       /\ IsFiniteSet(Across(v)) /\ Cardinality(Across(v)) \in Nat
       /\ credit[v] + Cardinality(Across(v)) = VcDepth
  BY <1>1, AcrossFinite, FabricAssumption DEF TypeOK, CreditsExact
<1>14. <<t, v>> \notin Across(v)
  BY <1>1, <1>5 DEF Across, FlitsExact
<1>15. Across(v)' = Across(v) \cup {<<t, v>>} /\ \A w \in Vcs \ {v} : Across(w)' = Across(w)
  BY <1>7 DEF Across
<1>16. Cardinality(Across(v)') = Cardinality(Across(v)) + 1
  BY <1>13, <1>14, <1>15, FS_AddElement
<1>17. /\ credit' \in [Vcs -> 0 .. VcDepth] /\ credit'[v] = credit[v] - 1
       /\ \A w \in Vcs \ {v} : credit'[w] = credit[w]
  BY <1>7, <1>13
<1>18. CreditsExact'
  <2>1. ASSUME NEW w \in Vcs PROVE credit'[w] + Cardinality(Across(w)') = VcDepth
    <3>1. CASE w = v
      BY <1>13, <1>16, <1>17, <3>1
    <3>2. CASE w # v
      BY <1>1, <1>15, <1>17, <3>2 DEF CreditsExact
    <3> QED
      BY <3>1, <3>2
  <2> QED
    BY <2>1 DEF CreditsExact
<1>19. TypeOK'
  BY <1>1, <1>7, <1>9, <1>17 DEF TypeOK
<1>20. LegsTrue' /\ HoldersExact' /\ CamBound' /\ SleepersBlocked'
  BY <1>7, <1>8 DEF IInv, LegsTrue, HoldersExact, CamBound, SleepersBlocked
<1>21. HistoryTrue' /\ ErrorsExplained' /\ DataWhole' /\ DoneMeansMoved'
  BY <1>7 DEF IInv, HistoryTrue, Running, ErrorsExplained, DataWhole, DataOf, DoneMeansMoved
<1>22. StaleStep
  BY <1>7 DEF StaleStep
<1> QED
  BY <1>12, <1>18, <1>19, <1>20, <1>21, <1>22 DEF IInv

\* A NoC leg whose flit has arrived returns the credit and moves on.
LEMMA LeaveNocSound ==
    ASSUME IInv, NEW t \in Ids, LeaveNoc(t)
    PROVE  IInv' /\ StaleStep
<1>1. /\ Running /\ UnderWay(t) /\ OnLeg(t) /\ IsNoc(Kind(t)) /\ t \in noted
      /\ ReturnCredit(t, VcOf(t)) /\ noted' = noted \ {t} /\ AdvanceLeg(t, txn[t])
      /\ UNCHANGED <<busy, cam, asleep, queue, gen>>
  BY DEF LeaveNoc, OnNoc, Visited, UnderWay
<1>2. TypeOK /\ HistoryTrue /\ DataWhole /\ DoneMeansMoved /\ FlitsExact /\ CreditsExact
  BY DEF IInv
<1>3. Grown(t, txn[t], txn[t])
  BY <1>2, RecordOf DEF Grown, DataWhole
<1>4. /\ VisitKept(t) /\ HistoryStep /\ store' \in StoreType
      /\ txn'[t].tag = "none" /\ ~txn'[t].started
      /\ txn'[t].status \in Final \/ (txn'[t].status = "running" /\ OnLeg(t)')
  BY <1>1, <1>2, <1>3, AdvanceLegSound
<1>5. Others(t)
  BY <1>4 DEF Others, VisitKept
<1>6. /\ CreditsExact' /\ credit' \in [Vcs -> 0 .. VcDepth]
      /\ crossed' = {c \in crossed : c[1] # t} /\ crossed' \subseteq crossed
  BY <1>1, <1>2, ReturnSound
<1>7. \A v \in Vcs : Distinct(queue'[v]) /\ Range(queue'[v]) = Range(queue[v]) \ {t}
  BY <1>1, <1>2 DEF FlitsExact
<1>8. FlitsExact'
  BY <1>1, <1>2, <1>4, <1>5, <1>6, <1>7, FlitsGone
<1>9. HoldersExact' /\ CamBound' /\ SleepersBlocked'
  BY <1>1, <1>5, NocStages
<1>10. LegsTrue'
  BY <1>4, <1>5, LegsKept DEF IInv, UnderWay, Final
<1>11. FabricInv'
  BY <1>6, <1>8, <1>9, <1>10 DEF FabricInv
<1>12. TypeOK'
  BY <1>1, <1>2, <1>4, <1>6 DEF TypeOK, VisitKept, HistoryStep, Entry, StoreType
<1>13. Lawful(t)
  BY <1>4 DEF Lawful, VisitKept
<1> QED
  BY <1>4, <1>5, <1>11, <1>12, <1>13, OneStep DEF VisitKept, HistoryStep

\* Cancelling marks an accepted leg or withdraws what no stage has accepted.
LEMMA RequestCancelSound ==
    ASSUME IInv, NEW t \in Ids, RequestCancel(t)
    PROVE  IInv' /\ StaleStep
<1>1. /\ Running /\ txn[t].status \in {"running", "faulted"} /\ asleep' = asleep \ {t}
      /\ UNCHANGED <<busy, cam, credit, crossed, noted, gen, store>>
  BY DEF RequestCancel
<1>2. TypeOK /\ HistoryTrue /\ DataWhole /\ DoneMeansMoved /\ FlitsExact /\ LegsTrue /\ HoldersExact
  BY DEF IInv
<1>3. txn[t] \in Record /\ txn[t].leg \in Nat
  BY <1>2, RecordOf
<1>4. \A e \in RecordedAs(t) : e[2] = "faulted"
  <2>1. CASE txn[t].status = "running"
    BY <1>1, <1>2, <2>1, RecordedUnderWay DEF UnderWay
  <2>2. CASE txn[t].status = "faulted"
    BY <1>1, <1>2, <2>2 DEF RecordedAs, HistoryTrue
  <2> QED
    BY <1>1, <2>1, <2>2
<1>5. txn[t].status = "faulted" => txn[t].tag = "none"
  BY <1>2 DEF FlitsExact, UnderWay
<1>6. CASE Withdrawn(t)
  <2> DEFINE r == [txn[t] EXCEPT !.tag = "none"]
  <2>1. RecordTerminal(t, "cancelled", r) /\ queue' = Unqueued(t)
    BY <1>6 DEF RequestCancel, FinishCancelled
  <2>2. r \in Record /\ r.data = txn[t].data /\ r.written = txn[t].written /\ r.tag = "none" /\ r.started = txn[t].started
    BY <1>3 DEF Record
  <2> HIDE DEF r
  <2>3. /\ VisitKept(t) /\ Others(t) /\ HistoryStep
        /\ txn'[t].status = "cancelled" /\ txn'[t].started = txn[t].started /\ txn'[t].tag = "none"
    BY <1>1, <1>2, <1>4, <2>1, <2>2, TerminalKept
  <2>4. UnderWay(t) => OnLeg(t)
    BY <1>2 DEF LegsTrue
  <2>5. (\A b \in busy : b[3] # t) /\ t \notin cam
    <3>1. CASE ~UnderWay(t)
      BY <3>1, IdleHoldsNothing
    <3>2. CASE UnderWay(t)
      <4>1. OnLeg(t) /\ Routed(t)
        BY <1>3, <2>4, <3>2, RouteSeq DEF Routed, OnLeg
      <4>2. CASE IsNoc(Kind(t))
        BY <4>2, NocHoldsNothing
      <4>3. CASE ~IsNoc(Kind(t))
        <5>1. ~txn[t].started
          BY <1>6, <4>1, <4>3 DEF Withdrawn
        <5> QED
          BY <1>2, <5>1 DEF HoldersExact
      <4> QED
        BY <4>2, <4>3
    <3> QED
      BY <3>1, <3>2
  <2>6. t \notin noted
    <3>1. CASE txn[t].tag = "none"
      BY <1>2, <3>1 DEF FlitsExact
    <3>2. CASE txn[t].tag # "none"
      <4>1. UnderWay(t) /\ IsNoc(Kind(t))
        BY <1>2, <3>2 DEF FlitsExact
      <4>2. OnLeg(t) /\ Routed(t)
        BY <1>3, <2>4, <4>1, RouteSeq DEF Routed, OnLeg
      <4>3. t \in Range(queue[VcOf(t)])
        BY <1>6, <3>2, <4>1, <4>2 DEF Withdrawn
      <4>4. VcOf(t) \in Vcs
        BY VcType
      <4> QED
        BY <1>2, <4>3, <4>4 DEF FlitsExact
    <3> QED
      BY <3>1, <3>2
  <2>7. /\ queue' \in [Vcs -> Seq(Ids)]
        /\ \A v \in Vcs : Distinct(queue'[v]) /\ Range(queue'[v]) = Range(queue[v]) \ {t}
    BY <1>2, <2>1, UnqueuedSound
  <2>8. crossed' = {c \in crossed : c[1] # t} /\ noted' = noted \ {t}
    BY <1>1, <1>2, <2>6, CrossedOf
  <2>9. FlitsExact'
    BY <1>2, <2>3, <2>7, <2>8, FlitsGone
  <2>10. HoldersExact' /\ CamBound'
    BY <1>1, <2>3, <2>5, HoldersShrink DEF IInv
  <2>11. SleepersBlocked'
    BY <1>1, <2>3, SleepersShrink DEF IInv, TypeOK
  <2>12. LegsTrue'
    BY <2>3, LegsKept DEF IInv, UnderWay
  <2>13. FabricInv'
    BY <1>1, <2>9, <2>10, <2>11, <2>12, CreditsKept DEF FabricInv, IInv
  <2>14. TypeOK'
    BY <1>1, <1>2, <2>3, <2>7 DEF TypeOK, VisitKept, HistoryStep, Entry
  <2>15. Lawful(t)
    BY <2>3 DEF Lawful, VisitKept
  <2> QED
    BY <2>3, <2>13, <2>14, <2>15, OneStep DEF VisitKept, HistoryStep
<1>7. CASE ~Withdrawn(t)
  <2> DEFINE q == [txn[t] EXCEPT !.status = "cancelling"]
  <2>1. txn' = [txn EXCEPT ![t].status = "cancelling"] /\ UNCHANGED <<history, error, queue>>
    BY <1>7 DEF RequestCancel
  <2>2. /\ q \in Record /\ q.status = "cancelling" /\ q.leg = txn[t].leg /\ q.started = txn[t].started
        /\ q.tag = txn[t].tag /\ q.data = txn[t].data /\ q.written = txn[t].written
    BY <1>3 DEF Record
  <2>3. txn' = [txn EXCEPT ![t] = q]
    BY <1>2, <2>1 DEF TypeOK
  <2> HIDE DEF q
  <2>4. VisitKept(t) /\ Others(t) /\ txn'[t] = q
    BY <1>2, <2>2, <2>3, PlainKept
  <2>5. /\ Kind(t)' = Kind(t) /\ StageFor(t)' = StageFor(t) /\ OnLeg(t)' = OnLeg(t) /\ VcOf(t)' = VcOf(t)
        /\ UnderWay(t)'
    BY <2>2, <2>4 DEF Kind, StageFor, OnLeg, VcOf, UnderWay
  <2>6. OnLeg(t) /\ (~IsNoc(Kind(t)) => txn[t].started)
    BY <1>7 DEF Withdrawn
  <2>7. LegsTrue'
    BY <2>2, <2>4, <2>5, <2>6, LegsKept DEF IInv
  <2>8. \A u \in Ids : /\ Kind(u)' = Kind(u) /\ StageFor(u)' = StageFor(u) /\ VcOf(u)' = VcOf(u)
                       /\ txn'[u].started = txn[u].started /\ txn'[u].tag = txn[u].tag
                       /\ UnderWay(u) => UnderWay(u)'
    BY <2>2, <2>4, <2>5, SameLeg DEF Others
  <2>9. HoldersExact' /\ CamBound'
    <3>1. (\A b \in busy : b[3] \in Ids) /\ cam \subseteq Ids
      BY <1>2 DEF TypeOK
    <3>2. HoldersExact'
      BY <1>1, <1>2, <2>8, <3>1 DEF HoldersExact
    <3>3. CamBound'
      BY <1>1 DEF IInv, CamBound
    <3> QED
      BY <3>2, <3>3
  <2>10. FlitsExact'
    <3>1. \A v \in Vcs : \A u \in Range(queue[v]) : u \in Ids
      <4> TAKE v \in Vcs
      <4> TAKE u \in Range(queue[v])
      <4>1. queue[v] \in Seq(Ids)
        BY <1>2 DEF TypeOK
      <4>2. PICK i \in 1 .. Len(queue[v]) : queue[v][i] = u
        BY <4>1, RangeSeq
      <4> QED
        BY <4>1, <4>2, ElementOfSeq
    <3>2. noted \subseteq Ids /\ \A c \in crossed : c[1] \in Ids
      BY <1>2 DEF TypeOK
    <3> QED
      BY <1>1, <1>2, <2>1, <2>8, <3>1, <3>2 DEF FlitsExact
  <2>11. SleepersBlocked'
    BY <1>1, <2>4, SleepersShrink DEF IInv, TypeOK
  <2>12. FabricInv'
    BY <1>1, <2>7, <2>9, <2>10, <2>11, CreditsKept DEF FabricInv, IInv
  <2>13. TypeOK'
    BY <1>1, <1>2, <2>1, <2>4 DEF TypeOK, VisitKept
  <2>14. Lawful(t)
    BY <2>2, <2>4 DEF Lawful, VisitKept
  <2>15. HistoryTrue' /\ ErrorsExplained'
    <3>1. ASSUME NEW e \in Range(history)
          PROVE  \/ txn'[e[1]].status = txn[e[1]].status
                 \/ txn'[e[1]].status = "cancelling" /\ e[2] = "faulted"
      <4>1. CASE e[1] = t
        <5>1. e \in RecordedAs(t)
          BY <4>1 DEF RecordedAs
        <5> QED
          BY <1>4, <2>2, <2>4, <4>1, <5>1
      <4>2. CASE e[1] # t
        BY <1>2, <2>4, <4>2, EntryFields DEF Others
      <4> QED
        BY <4>1, <4>2
    <3> QED
      BY <1>1, <1>2, <2>1, <3>1, HistoryKept
  <2> QED
    BY <2>4, <2>12, <2>13, <2>14, <2>15, OneStep DEF VisitKept
<1> QED
  BY <1>6, <1>7
-----------------------------------------------------------------------------
\* Isolating a leg gives back what it holds, on a stage or in the router.
LEMMA ConfirmIsolationSound ==
    ASSUME IInv, NEW t \in Ids, ConfirmIsolation(t)
    PROVE  IInv' /\ StaleStep
<1> DEFINE r == [txn[t] EXCEPT !.tag = "none"]
<1>1. /\ Running /\ txn[t].status = "cancelling" /\ OnLeg(t) /\ CancelResources(t)
      /\ RecordTerminal(t, "cancelled", r) /\ UNCHANGED <<gen, store>>
  BY DEF ConfirmIsolation, FinishCancelled
<1>2. TypeOK /\ HistoryTrue /\ DataWhole /\ DoneMeansMoved /\ FlitsExact /\ CreditsExact
  BY DEF IInv
<1>3. txn[t] \in Record
  BY <1>2, RecordOf
<1>4. r \in Record /\ r.data = txn[t].data /\ r.written = txn[t].written /\ r.tag = "none" /\ r.started = txn[t].started
  BY <1>3 DEF Record
<1> HIDE DEF r
<1>5. \A e \in RecordedAs(t) : e[2] = "faulted"
  BY <1>1, <1>2, RecordedUnderWay DEF UnderWay
<1>6. /\ VisitKept(t) /\ Others(t) /\ HistoryStep
      /\ txn'[t].status = "cancelled" /\ txn'[t].started = txn[t].started /\ txn'[t].tag = "none"
  BY <1>1, <1>2, <1>4, <1>5, TerminalKept
<1>7. LegsTrue'
  BY <1>6, LegsKept DEF IInv, UnderWay
<1>8. Lawful(t)
  BY <1>6 DEF Lawful, VisitKept
<1>9. CASE IsNoc(Kind(t))
  <2>1. /\ queue' = Unqueued(t) /\ noted' = noted \ {t} /\ UNCHANGED <<busy, cam, asleep>>
        /\ IF t \in noted THEN ReturnCredit(t, VcOf(t)) ELSE UNCHANGED <<crossed, credit>>
    BY <1>1, <1>9 DEF CancelResources
  <2>2. /\ queue' \in [Vcs -> Seq(Ids)]
        /\ \A v \in Vcs : Distinct(queue'[v]) /\ Range(queue'[v]) = Range(queue[v]) \ {t}
    BY <1>2, <2>1, UnqueuedSound
  <2>3. /\ CreditsExact' /\ credit' \in [Vcs -> 0 .. VcDepth]
        /\ crossed' = {c \in crossed : c[1] # t} /\ crossed' \subseteq crossed
    <3>1. CASE t \in noted
      BY <1>2, <2>1, <3>1, ReturnSound
    <3>2. CASE t \notin noted
      BY <1>2, <2>1, <3>2, CrossedOf, CreditsKept DEF TypeOK
    <3> QED
      BY <3>1, <3>2
  <2>4. FlitsExact'
    BY <1>2, <1>6, <2>1, <2>2, <2>3, FlitsGone
  <2>5. HoldersExact' /\ CamBound' /\ SleepersBlocked'
    BY <1>6, <1>9, <2>1, NocStages
  <2>6. FabricInv'
    BY <1>7, <2>3, <2>4, <2>5 DEF FabricInv
  <2>7. TypeOK'
    BY <1>1, <1>2, <1>6, <2>1, <2>2, <2>3 DEF TypeOK, VisitKept, HistoryStep, Entry
  <2> QED
    BY <1>6, <1>8, <2>6, <2>7, OneStep DEF VisitKept, HistoryStep
<1>10. CASE ~IsNoc(Kind(t))
  <2>1. Released(t) /\ UNCHANGED <<queue, credit, crossed, noted>>
    BY <1>1, <1>10 DEF CancelResources
  <2>2. /\ HoldersExact' /\ CamBound' /\ SleepersBlocked'
        /\ busy' \subseteq busy /\ cam' \subseteq cam /\ asleep' \subseteq asleep
    BY <1>6, <2>1, ReleasedSound DEF IInv
  <2>3. txn[t].tag = "none"
    BY <1>2, <1>10 DEF FlitsExact
  <2>4. FlitsExact' /\ CreditsExact'
    BY <1>2, <1>6, <2>1, <2>3, FlitsElsewhere, CreditsKept
  <2>5. FabricInv'
    BY <1>7, <2>2, <2>4 DEF FabricInv
  <2>6. TypeOK'
    BY <1>1, <1>2, <1>6, <2>1, <2>2 DEF TypeOK, VisitKept, HistoryStep, Entry
  <2> QED
    BY <1>6, <1>8, <2>5, <2>6, OneStep DEF VisitKept, HistoryStep
<1> QED
  BY <1>9, <1>10

\* A transaction that was never submitted, or was forgotten, has the empty record.
LEMMA AbsentRecord ==
    /\ Absent \in Record /\ Absent.status = "absent" /\ Absent.tag = "none" /\ Absent.started = FALSE
    /\ Absent.data = "none" /\ Absent.written = FALSE
    /\ \A t : DataOf(t, Absent) /\ DoneOf(t, Absent)
<1>1. /\ Absent \in Record /\ Absent.status = "absent" /\ Absent.tag = "none" /\ Absent.started = FALSE
      /\ Absent.data = "none" /\ Absent.written = FALSE
  BY DEF Absent, Record
<1> QED
  BY <1>1 DEF DataOf, DoneOf

\* acknowledge forgets a finished transaction, which holds nothing.
LEMMA AcknowledgeSound ==
    ASSUME IInv, NEW t \in Ids, Acknowledge(t)
    PROVE  IInv' /\ StaleStep
<1>1. /\ Running /\ txn[t].status \in Final /\ txn' = [txn EXCEPT ![t] = Absent]
      /\ UNCHANGED <<history, busy, cam, asleep, queue, credit, crossed, noted, gen, store, error>>
  BY DEF Acknowledge, fabric, Final
<1>2. TypeOK /\ HistoryTrue
  BY DEF IInv
<1>3. txn' \in [Ids -> Record] /\ txn'[t] = Absent /\ Others(t)
  BY <1>1, <1>2, AbsentRecord, OneRecord DEF Others
<1>4. ~UnderWay(t)
  BY <1>1 DEF UnderWay, Final
<1>5. (\A b \in busy : b[3] # t) /\ t \notin cam /\ txn[t].tag = "none" /\ t \notin asleep
  BY <1>4, IdleHoldsNothing DEF IInv, SleepersBlocked
<1>6. FabricInv'
  BY <1>1, <1>3, <1>5, AbsentRecord, FabricIdle DEF UnderWay
<1>7. TypeOK'
  BY <1>1, <1>2, <1>3 DEF TypeOK
<1>8. Lawful(t)
  BY <1>3, AbsentRecord DEF Lawful
<1>9. DataOf(t, txn'[t]) /\ DoneOf(t, txn'[t])
  BY <1>3, AbsentRecord
<1>10. HistoryTrue' /\ ErrorsExplained'
  <2>1. \A e \in Range(history) : txn'[e[1]].status = txn[e[1]].status \/ txn'[e[1]].status = "absent"
    BY <1>2, <1>3, AbsentRecord, EntryFields DEF Others
  <2> QED
    BY <1>1, <1>2, <2>1, HistoryKept
<1> QED
  BY <1>3, <1>6, <1>7, <1>8, <1>9, <1>10, OneStep

\* With no transaction under way the fabric is empty.
LEMMA FabricEmpty ==
    ASSUME IInv, \A t \in Ids : ~UnderWay(t)
    PROVE  busy = {} /\ cam = {} /\ asleep = {} /\ noted = {} /\ crossed = {} /\ (\A v \in Vcs : queue[v] = <<>>)
           /\ (\A t \in Ids : txn[t].tag = "none") /\ Drained
<1>1. TypeOK /\ HoldersExact /\ FlitsExact /\ SleepersBlocked /\ CreditsExact
  BY DEF IInv
<1>2. busy = {} /\ cam = {} /\ asleep = {}
  BY <1>1 DEF TypeOK, HoldersExact, SleepersBlocked
<1>3. \A t \in Ids : txn[t].tag = "none"
  BY <1>1 DEF FlitsExact
<1>4. noted = {} /\ \A v \in Vcs : \A t \in Ids : t \notin Range(queue[v])
  BY <1>1, <1>3 DEF FlitsExact, TypeOK
<1>5. crossed = {}
  BY <1>1, <1>4 DEF FlitsExact
<1>6. ASSUME NEW v \in Vcs, queue[v] # <<>> PROVE FALSE
  <2>1. queue[v] \in Seq(Ids) /\ Distinct(queue[v])
    BY <1>1 DEF TypeOK, FlitsExact
  <2>2. Head(queue[v]) \in Range(queue[v]) /\ Head(queue[v]) \in Ids
    BY <1>6, <2>1, TailDistinct
  <2> QED
    BY <1>4, <2>2
<1>7. \A v \in Vcs : credit[v] = VcDepth
  <2> TAKE v \in Vcs
  <2>1. Across(v) = {}
    BY <1>5 DEF Across
  <2>2. credit[v] + Cardinality(Across(v)) = VcDepth /\ credit[v] \in 0 .. VcDepth /\ VcDepth \in Nat
    BY <1>1, FabricAssumption DEF CreditsExact, TypeOK
  <2>3. Cardinality(Across(v)) = 0
    BY <2>1, FS_EmptySet
  <2> QED
    BY <2>2, <2>3
<1> QED
  BY <1>2, <1>3, <1>4, <1>5, <1>6, <1>7 DEF Drained

\* Acknowledging every finished transaction forgets them all at once.
LEMMA AcknowledgeAllSound ==
    ASSUME IInv, AcknowledgeAll
    PROVE  IInv' /\ StaleStep
<1>1. /\ Running /\ InflightCount = 0 /\ txn' = [t \in Ids |-> Absent]
      /\ UNCHANGED <<history, busy, cam, asleep, queue, credit, crossed, noted, gen, store, error>>
  BY DEF AcknowledgeAll, fabric
<1>2. TypeOK /\ HistoryTrue /\ CreditsExact /\ CamBound
  BY DEF IInv
<1>3. \A t \in Ids : ~UnderWay(t)
  <2> DEFINE X == {t \in Live : txn[t].status \in InFlight}
  <2>1. X \in SUBSET Ids
    BY DEF Live
  <2>2. IsFiniteSet(X)
    BY <2>1, FabricAssumption, FS_Subset
  <2>3. X = {}
    BY <1>1, <2>2, FS_EmptySet DEF InflightCount
  <2> QED
    BY <2>3 DEF Live, InFlight, UnderWay
<1>4. /\ busy = {} /\ cam = {} /\ asleep = {} /\ noted = {} /\ crossed = {} /\ (\A v \in Vcs : queue[v] = <<>>)
      /\ \A t \in Ids : txn[t].tag = "none"
  BY <1>3, FabricEmpty
<1>5. \A t \in Ids : txn'[t] = Absent
  BY <1>1
<1>6. txn' \in [Ids -> Record]
  BY <1>1, AbsentRecord
<1>7. TypeOK'
  BY <1>1, <1>2, <1>6 DEF TypeOK
<1>8. \A t \in Ids : ~UnderWay(t)'
  BY <1>5, AbsentRecord DEF UnderWay
<1>9. LegsTrue' /\ HoldersExact' /\ CamBound' /\ SleepersBlocked'
  BY <1>1, <1>2, <1>4, <1>8 DEF LegsTrue, HoldersExact, CamBound, SleepersBlocked
<1>10. FlitsExact'
  <2>1. \A v \in Vcs : Distinct(queue'[v]) /\ Range(queue'[v]) = {}
    <3> TAKE v \in Vcs
    <3>1. queue'[v] = <<>> /\ Len(<<>>) = 0
      BY <1>1, <1>4
    <3> QED
      BY <3>1 DEF Distinct, Range
  <2> QED
    BY <1>1, <1>4, <1>5, <2>1, AbsentRecord DEF FlitsExact
<1>11. CreditsExact'
  BY <1>1, <1>2, CreditsKept
<1>12. HistoryTrue' /\ ErrorsExplained'
  <2>1. \A e \in Range(history) : txn'[e[1]].status = "absent"
    BY <1>2, <1>5, AbsentRecord, EntryFields
  <2> QED
    BY <1>1, <1>2, <2>1, HistoryKept
<1>13. DataWhole' /\ DoneMeansMoved'
  BY <1>5, AbsentRecord DEF DataWhole, DataOf, DoneMeansMoved
<1>14. StaleStep
  BY <1>5, AbsentRecord DEF StaleStep
<1> QED
  BY <1>7, <1>9, <1>10, <1>11, <1>12, <1>13, <1>14 DEF IInv

\* Steps that leave the transactions and the fabric alone.
LEMMA ElsewhereSound ==
    ASSUME IInv, UNCHANGED <<txn, busy, cam, asleep, queue, credit, crossed, noted>>,
           gen' \in [Domains -> Nat], store' \in StoreType,
           history' \in Seq(Entry), Len(history') <= Tombstones, HistoryTrue', ErrorsExplained'
    PROVE  IInv' /\ StaleStep
<1>1. TypeOK'
  BY DEF IInv, TypeOK, Entry, StoreType
<1>2. \A u : /\ Kind(u)' = Kind(u) /\ StageFor(u)' = StageFor(u) /\ UnderWay(u)' = UnderWay(u)
             /\ OnLeg(u)' = OnLeg(u) /\ VcOf(u)' = VcOf(u) /\ CanIssue(u)' = CanIssue(u)
  BY DEF Kind, StageFor, UnderWay, OnLeg, VcOf, CanIssue, Grants, Taken
<1>3. LegsTrue' /\ HoldersExact' /\ CamBound' /\ SleepersBlocked'
  BY <1>2 DEF IInv, LegsTrue, HoldersExact, CamBound, SleepersBlocked
<1>4. FlitsExact'
  BY <1>2 DEF IInv, FlitsExact
<1>5. CreditsExact'
  BY CreditsKept DEF IInv
<1>6. DataWhole' /\ DoneMeansMoved'
  BY DEF IInv, DataWhole, DataOf, DoneMeansMoved
<1>7. StaleStep
  BY DEF StaleStep
<1> QED
  BY <1>1, <1>3, <1>4, <1>5, <1>6, <1>7 DEF IInv

\* An empty list is a list of any set, has nothing in it and no duplicates.
LEMMA EmptyList ==
    ASSUME NEW S, NEW s, s = <<>>
    PROVE  s \in Seq(S) /\ Len(s) = 0 /\ Range(s) = {} /\ Distinct(s)
BY DEF Range, Distinct

\* A reset finds the fabric drained.
LEMMA ResetSound ==
    ASSUME IInv, Reset
    PROVE  IInv' /\ StaleStep
<1>1. /\ Running /\ Live = {} /\ history' = <<>> /\ error' = IF Drained THEN "none" ELSE "reset before drain"
      /\ UNCHANGED <<txn, busy, cam, asleep, queue, credit, crossed, noted, gen, store>>
  BY DEF Reset, fabric
<1>2. \A t \in Ids : ~UnderWay(t)
  BY <1>1 DEF Live, UnderWay
<1>3. Drained
  BY <1>2, FabricEmpty
<1>4. error' = "none"
  BY <1>1, <1>3
<1>5. history' \in Seq(Entry) /\ Len(history') = 0 /\ Range(history') = {} /\ Distinct(history')
  <2>1. history' = <<>>
    BY <1>1, Zenon
  <2> QED
    BY <2>1, EmptyList, Zenon
<1>6. HistoryTrue' /\ ErrorsExplained'
  BY <1>4, <1>5 DEF HistoryTrue, Keyed, ErrorsExplained
<1>7. Len(history') <= Tombstones
  BY <1>5, FabricAssumption
<1>8. gen' \in [Domains -> Nat] /\ store' \in StoreType
  BY <1>1 DEF IInv, TypeOK, StoreType
<1> QED
  BY <1>1, <1>5, <1>6, <1>7, <1>8, ElsewhereSound

\* Runs, profiles and views are replaced under the transactions.
LEMMA ReplacedSound ==
    ASSUME IInv,
           \/ BeginRun \/ (\E level \in {"l1", "l2"} : NoteProfileCommit(level))
           \/ (\E v \in Views : RetireView(v) \/ BindView(v)) \/ UNCHANGED vars
    PROVE  IInv' /\ StaleStep
<1>1. gen \in [Domains -> Nat] /\ store \in StoreType /\ history \in Seq(Entry) /\ Len(history) <= Tombstones
  BY DEF IInv, TypeOK, Entry, StoreType
<1>2. UNCHANGED <<txn, history, busy, cam, asleep, queue, credit, crossed, noted, error>>
  BY DEF BeginRun, NoteProfileCommit, RetireView, BindView, fabric, vars
<1>3. gen' \in [Domains -> Nat]
  <2>1. CASE BeginRun
    BY <1>1, <2>1 DEF BeginRun, Domains
  <2>2. ASSUME NEW level \in {"l1", "l2"}, NoteProfileCommit(level)
        PROVE  gen' \in [Domains -> Nat]
    BY <1>1, <2>2 DEF NoteProfileCommit, Domains
  <2>3. CASE (\E v \in Views : RetireView(v) \/ BindView(v)) \/ UNCHANGED vars
    BY <1>1, <2>3 DEF RetireView, BindView, vars
  <2> QED
    BY <2>1, <2>2, <2>3
<1>4. store' \in StoreType
  <2>1. ASSUME NEW v \in Views, RetireView(v)
        PROVE  store' \in StoreType
    BY <1>1, <2>1 DEF RetireView, StoreType
  <2>2. ASSUME NEW v \in Views, BindView(v)
        PROVE  store' \in StoreType
    <3> DEFINE q == [live |-> TRUE, gen |-> store[v].gen + 1, bytes |-> "none"]
    <3>1. store' = [store EXCEPT ![v] = q]
      BY <1>1, <2>2 DEF BindView
    <3>2. q \in [live : BOOLEAN, gen : Nat, bytes : {"none", "some", "all"}]
      BY <1>1 DEF StoreType
    <3> HIDE DEF q
    <3> QED
      BY <1>1, <3>1, <3>2 DEF StoreType
  <2>3. CASE BeginRun \/ (\E level \in {"l1", "l2"} : NoteProfileCommit(level)) \/ UNCHANGED vars
    BY <1>1, <2>3 DEF BeginRun, NoteProfileCommit, vars
  <2> QED
    BY <2>1, <2>2, <2>3
<1>5. HistoryTrue' /\ ErrorsExplained'
  BY <1>2 DEF IInv, HistoryTrue, Running, ErrorsExplained, Live, RecordedAs
<1> QED
  BY <1>1, <1>2, <1>3, <1>4, <1>5, ElsewhereSound
-----------------------------------------------------------------------------
(* The theorems.                                                           *)

\* The manager starts with an empty fabric.
LEMMA InitSound ==
    ASSUME Init
    PROVE  IInv
<1>1. /\ txn = [t \in Ids |-> Absent] /\ history = <<>> /\ busy = {} /\ cam = {} /\ asleep = {}
      /\ queue = [v \in Vcs |-> <<>>] /\ credit = [v \in Vcs |-> VcDepth]
      /\ crossed = {} /\ noted = {} /\ gen = [d \in Domains |-> 0]
      /\ store = [v \in Views |-> [live |-> TRUE, gen |-> 0, bytes |-> Seeded(v)]]
      /\ error = "none"
  BY DEF Init
<1>2. txn \in [Ids -> Record] /\ \A t \in Ids : txn[t] = Absent
  BY <1>1, AbsentRecord
<1>3. VcDepth \in Nat /\ HbmLimit \in Nat /\ Tombstones \in Nat
  BY FabricAssumption
<1>4. credit \in [Vcs -> 0 .. VcDepth] /\ gen \in [Domains -> Nat]
  BY <1>1, <1>3
<1>5. store \in StoreType
  BY <1>1, FabricAssumption DEF StoreType
<1>6. history \in Seq(Entry) /\ Len(history) = 0 /\ Range(history) = {} /\ Distinct(history)
  BY <1>1 DEF Range, Distinct
<1>7. queue \in [Vcs -> Seq(Ids)] /\ \A v \in Vcs : queue[v] = <<>>
  BY <1>1
<1>8. TypeOK
  BY <1>1, <1>2, <1>3, <1>4, <1>5, <1>6, <1>7 DEF TypeOK, StoreType, Entry
<1>9. \A t \in Ids : ~UnderWay(t)
  BY <1>2, AbsentRecord DEF UnderWay
<1>10. \A v : Across(v) = {}
  BY <1>1 DEF Across
<1>11. LegsTrue /\ HoldersExact /\ CamBound /\ SleepersBlocked /\ CreditsExact
  <2>1. CreditsExact
    <3> SUFFICES ASSUME NEW v \in Vcs PROVE credit[v] + Cardinality(Across(v)) = VcDepth
      BY DEF CreditsExact
    <3>1. credit[v] = VcDepth
      BY <1>1, Zenon
    <3>2. Cardinality(Across(v)) = 0
      BY <1>10, FS_EmptySet, Zenon
    <3> QED
      BY <1>3, <3>1, <3>2
  <2>2. CamBound
    BY <1>1, <1>3, FS_EmptySet DEF CamBound
  <2> QED
    BY <1>1, <1>9, <2>1, <2>2 DEF LegsTrue, HoldersExact, SleepersBlocked
<1>12. FlitsExact
  <2>1. \A v \in Vcs : Distinct(queue[v]) /\ Range(queue[v]) = {}
    <3> TAKE v \in Vcs
    <3>1. queue[v] = <<>> /\ Len(<<>>) = 0
      BY <1>7
    <3> QED
      BY <3>1 DEF Distinct, Range
  <2> QED
    BY <1>1, <1>2, <2>1, AbsentRecord DEF FlitsExact
<1>13. HistoryTrue /\ ErrorsExplained
  BY <1>1, <1>6 DEF HistoryTrue, Keyed, ErrorsExplained
<1>14. DataWhole /\ DoneMeansMoved
  BY <1>2, AbsentRecord DEF DataWhole, DoneMeansMoved, DataOf
<1> QED
  BY <1>8, <1>11, <1>12, <1>13, <1>14 DEF IInv

\* Every step of the manager, its stages and its router keeps the invariant, and none
\* moves data for a transaction that is stale.
LEMMA NextSound ==
    ASSUME IInv, [Next]_vars
    PROVE  IInv' /\ StaleStep
<1>1. ASSUME NEW t \in Ids,
             Submit(t) \/ Visit(t) \/ RequestCancel(t) \/ ConfirmIsolation(t) \/ Acknowledge(t)
      PROVE  IInv' /\ StaleStep
  BY <1>1, SubmitSound, RejectSound, IssueLegSound, RefuseSound, CompleteLegSound, EnterNocSound, LeaveNocSound,
     RequestCancelSound, ConfirmIsolationSound, AcknowledgeSound, Zenon DEF Visit
<1>2. ASSUME NEW b \in busy, Lapse(b)
      PROVE  IInv' /\ StaleStep
  BY <1>2, LapseSound
<1>3. ASSUME NEW v \in Vcs, RouterStep(v)
      PROVE  IInv' /\ StaleStep
  BY <1>3, RouterStepSound
<1>4. CASE AcknowledgeAll
  BY <1>4, AcknowledgeAllSound
<1>5. CASE Reset
  BY <1>5, ResetSound
<1>6. CASE \/ BeginRun \/ (\E level \in {"l1", "l2"} : NoteProfileCommit(level))
           \/ (\E v \in Views : RetireView(v) \/ BindView(v)) \/ UNCHANGED vars
  BY <1>6, ReplacedSound
<1> QED
  BY <1>1, <1>2, <1>3, <1>4, <1>5, <1>6, Zenon DEF Next

\* The invariant holds in every reachable state.
LEMMA Inductive == Spec => []IInv
<1>1. IInv /\ [Next]_vars => IInv'
  BY NextSound
<1> QED
  BY <1>1, InitSound, PTL DEF Spec

\* Every busy bank and CAM entry belongs to a transaction whose accepted leg is on that
\* stage, the CAM is never overfull, every tagged leg has exactly one flit and every flit
\* costs exactly one credit, and the manager raises no internal error other than the
\* explained ones: MemoryTransferManager and NoCRouter release on every path (completion,
\* fault, cancellation, isolation) exactly what they took.
THEOREM FabricIsSound == Spec => []FabricSound
<1>1. ASSUME IInv PROVE FabricSound
  <2>1. noted = {c[1] : c \in crossed}
    <3>1. \A t \in noted : t \in {c[1] : c \in crossed}
      <4> TAKE t \in noted
      <4>1. PICK c \in crossed : c = <<t, VcOf(t)>>
        BY <1>1, Zenon DEF IInv, FlitsExact
      <4>2. c[1] = t
        BY <4>1
      <4> QED
        BY <4>2
    <3>2. \A c \in crossed : c[1] \in noted
      BY <1>1 DEF IInv, FlitsExact
    <3> QED
      BY <3>1, <3>2
  <2>2. \A v \in Vcs : credit[v] + Cardinality({c \in crossed : c[2] = v}) = VcDepth
    BY <1>1 DEF IInv, CreditsExact, Across
  <2>3. /\ \A b \in busy : /\ txn[b[3]].status \in {"running", "cancelling"} /\ txn[b[3]].started
                           /\ b[1] = StageFor(b[3])
                           /\ \A c \in busy : b[1] = c[1] /\ b[2] = c[2] => b = c
        /\ \A t \in cam : txn[t].status \in {"running", "cancelling"} /\ txn[t].started /\ IsHbm(Kind(t))
    BY <1>1 DEF IInv, HoldersExact, UnderWay
  <2>4. /\ \A t \in Ids : (txn[t].tag # "none") <=> (t \in noted \/ \E v \in Vcs : t \in Range(queue[v]))
        /\ \A t \in Ids : txn[t].tag # "none" => txn[t].status \in {"running", "cancelling"}
    BY <1>1 DEF IInv, FlitsExact, UnderWay
  <2>5. FabricExact
    BY <1>1, <2>1, <2>2, <2>3, <2>4 DEF FabricExact, IInv, CamBound
  <2> QED
    BY <1>1, <2>5 DEF FabricSound, IInv
<1> QED
  BY <1>1, Inductive, PTL

\* A transaction that waits for a TransferStage to advance its free_epoch waits for a
\* resource that is really taken: whoever frees a bank or a CAM entry bumps the epoch of
\* everyone that entry could have been given to.
THEOREM WakeupsAreNotLost == Spec => []NoLostWakeup
<1>1. ASSUME IInv PROVE NoLostWakeup
  BY <1>1 DEF IInv, SleepersBlocked, NoLostWakeup
<1> QED
  BY <1>1, Inductive, PTL

\* A transaction reported done has captured its source and committed it to its
\* destination, and a transaction whose run, profile or view was replaced moves no more
\* bytes: _capture_source and _commit_destination stand behind _identity_valid.
THEOREM DataIsTrue == Spec => DataTrue
<1>1. IInv => DoneMeansMoved
  BY DEF IInv
<1>2. IInv /\ [Next]_vars => [StaleStep]_vars
  BY NextSound
<1>3. Spec => []DoneMeansMoved
  BY <1>1, Inductive, PTL
<1>4. Spec => [][StaleStep]_vars
  BY <1>2, Inductive, PTL DEF Spec
<1> QED
  BY <1>3, <1>4 DEF DataTrue, StaleIsolated, StaleStep
=============================================================================
