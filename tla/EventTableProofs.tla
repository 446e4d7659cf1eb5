-------------------------- MODULE EventTableProofs --------------------------
(***************************************************************************)
(* Proofs about the event table, for every set of names and launches,      *)
(* every capacity and every map of event uses.                             *)
(*                                                                         *)
(* The capacity argument: the code never compares the number of managed    *)
(* entries with the capacity.  It holds because each launch's managed      *)
(* entries fit into the slots its quota claims (FrontierBound), a managed  *)
(* entry always has an open quota (ManagedAccounted), and the claims of    *)
(* all quotas plus the unmanaged entries fit into the table                *)
(* (ReservedBound).  The three are inductive together with TypeOK.         *)
(***************************************************************************)
EXTENDS EventTable, FiniteSetTheorems, FunctionTheorems, TLAPS

IInv == TypeOK /\ QuotaAccounting

\* What happens to one entry in a step that neither creates an entry nor
\* hands one to another launch.
Kept(x, y) ==
    y.status # "ABSENT" =>
        x.status # "ABSENT" /\ y.launch = x.launch /\ y.managed = x.managed

-----------------------------------------------------------------------------
(* Finiteness and cardinality.                                             *)

\* The sets of slots that the table counts are finite.
LEMMA SlotsFinite ==
    ASSUME NEW e, NEW l
    PROVE  /\ IsFiniteSet(Live(e)) /\ IsFiniteSet(Unmanaged(e))
           /\ IsFiniteSet(ManagedOf(e, l))
           /\ Cardinality(Live(e)) \in Nat /\ Cardinality(Unmanaged(e)) \in Nat
           /\ Cardinality(ManagedOf(e, l)) \in Nat
<1>1. /\ Live(e) \in SUBSET Names /\ Unmanaged(e) \in SUBSET Names
      /\ ManagedOf(e, l) \in SUBSET Names
  BY DEF Live, Unmanaged, ManagedOf, OwnedBy
<1>2. IsFiniteSet(Live(e)) /\ IsFiniteSet(Unmanaged(e)) /\ IsFiniteSet(ManagedOf(e, l))
  BY <1>1, FS_Subset, TableAssumption
<1> QED
  BY <1>2, FS_CardinalityType

\* The claims of one quota: as many as its limit.
LEMMA OneClaim ==
    ASSUME NEW l, NEW k \in Nat
    PROVE  IsFiniteSet({l} \X (1 .. k)) /\ Cardinality({l} \X (1 .. k)) = k
<1>1. IsFiniteSet({l}) /\ Cardinality({l}) = 1
  BY FS_Singleton
<1>2. IsFiniteSet(1 .. k) /\ Cardinality(1 .. k) = k
  BY FS_Interval
<1>3. /\ IsFiniteSet({l} \X (1 .. k))
      /\ Cardinality({l} \X (1 .. k)) = Cardinality({l}) * Cardinality(1 .. k)
  BY <1>1, <1>2, FS_Product, Zenon
<1> QED
  BY <1>1, <1>2, <1>3

\* The claims of all open quotas are finite.
LEMMA ClaimsFinite ==
    ASSUME NEW q \in [Launches -> Quota]
    PROVE  IsFiniteSet(Claims(q)) /\ Cardinality(Claims(q)) \in Nat
<1> DEFINE Claim(l) == {l} \X (1 .. q[l].limit)
           f == [l \in Opened(q) |-> Claim(l)]
           T == {Claim(l) : l \in Opened(q)}
<1>1. Opened(q) \in SUBSET Launches
  BY DEF Opened
<1>2. IsFiniteSet(Opened(q))
  BY <1>1, FS_Subset, TableAssumption
<1>3. f \in Surjection(Opened(q), T)
  BY DEF Surjection
<1>4. IsFiniteSet(T)
  BY <1>2, <1>3, FS_Surjection
<1>5. \A S \in T : IsFiniteSet(S)
  <2> TAKE S \in T
  <2>1. PICK l \in Opened(q) : S = Claim(l)
    OBVIOUS
  <2>2. q[l].limit \in Nat
    BY <1>1 DEF Quota
  <2> QED
    BY <2>1, <2>2, OneClaim
<1>6. IsFiniteSet(UNION T)
  BY <1>4, <1>5, FS_UNION
<1>7. Claims(q) = UNION T
  BY DEF Claims
<1> QED
  BY <1>6, <1>7, FS_CardinalityType

\* Opening a quota adds at most its limit to the claims.
LEMMA OpenClaims ==
    ASSUME NEW q \in [Launches -> Quota], NEW l \in Launches, NEW k \in Nat, ~q[l].open
    PROVE  Cardinality(Claims(OpenQuota(q, l, k))) <= Cardinality(Claims(q)) + k
<1> DEFINE p == OpenQuota(q, l, k)
           N == {l} \X (1 .. k)
<1>1. p \in [Launches -> Quota]
  BY DEF OpenQuota, Quota
<1>2. Claims(p) = Claims(q) \cup N
  <2>1. Opened(p) = Opened(q) \cup {l}
    BY DEF Opened, OpenQuota
  <2>2. \A m \in Opened(q) : m # l /\ p[m] = q[m]
    BY DEF Opened, OpenQuota
  <2>3. p[l].limit = k
    BY DEF OpenQuota
  <2>4. ASSUME NEW z PROVE z \in Claims(p) <=> z \in Claims(q) \cup N
    <3>1. z \in Claims(p) <=> \E m \in Opened(p) : z \in {m} \X (1 .. p[m].limit)
      BY DEF Claims
    <3>2. z \in Claims(q) <=> \E m \in Opened(q) : z \in {m} \X (1 .. q[m].limit)
      BY DEF Claims
    <3>3. (\E m \in Opened(p) : z \in {m} \X (1 .. p[m].limit))
            <=> (\E m \in Opened(q) : z \in {m} \X (1 .. p[m].limit)) \/ z \in N
      BY <2>1, <2>3
    <3> HIDE DEF p, N
    <3>4. (\E m \in Opened(q) : z \in {m} \X (1 .. p[m].limit))
            <=> (\E m \in Opened(q) : z \in {m} \X (1 .. q[m].limit))
      BY <2>2
    <3> QED
      BY <3>1, <3>2, <3>3, <3>4
  <2> QED
    BY <2>4
<1>3. IsFiniteSet(N) /\ Cardinality(N) = k
  BY OneClaim
<1>4. IsFiniteSet(Claims(q)) /\ Cardinality(Claims(q)) \in Nat
  BY ClaimsFinite
<1>5. Cardinality(Claims(q) \cup N) =
        Cardinality(Claims(q)) + Cardinality(N) - Cardinality(Claims(q) \cap N)
  BY <1>3, <1>4, FS_Union
<1>6. Cardinality(Claims(q) \cap N) \in Nat
  BY <1>4, FS_Intersection, FS_CardinalityType
<1> QED
  BY <1>2, <1>3, <1>4, <1>5, <1>6

\* Closing a quota keeps the claims of the others.
LEMMA CloseClaims ==
    ASSUME NEW q \in [Launches -> Quota], NEW l \in Launches
    PROVE  Cardinality(Claims(CloseQuota(q, l))) <= Cardinality(Claims(q))
<1>1. Claims(CloseQuota(q, l)) \in SUBSET Claims(q)
  BY DEF Claims, CloseQuota, NoQuota, Opened
<1> QED
  BY <1>1, ClaimsFinite, FS_Subset

-----------------------------------------------------------------------------
(* The entries the operators build.                                        *)

\* The entry _allocate writes into a free slot is well formed.
LEMMA FreshEntryType ==
    ASSUME NEW l \in Launches \cup {NoLaunch}, NEW m \in BOOLEAN
    PROVE  FreshEntry(l, m) \in EventEntry /\ NoEntry \in EventEntry
BY DEF FreshEntry, NoEntry, EventEntry, EventStatus, Terminal

\* Reclamation keeps the shape of an entry and never revives or moves one.
LEMMA ReclaimedType ==
    ASSUME NEW x \in EventEntry
    PROVE  Reclaimed(x) \in EventEntry /\ Kept(x, Reclaimed(x))
BY DEF Reclaimed, Kept, FreshEntry, NoEntry, EventEntry, EventStatus, Terminal

\* Giving back one registered reference, which needs one.
LEMMA DropUseType ==
    ASSUME NEW x \in EventEntry, x.refs > 0, x.uses > 0
    PROVE  DropUse(x) \in EventEntry /\ Kept(x, DropUse(x))
<1> DEFINE y == [x EXCEPT !.refs = @ - 1, !.uses = @ - 1]
<1>0. x.refs - 1 \in Nat /\ x.uses - 1 \in Nat
  BY DEF EventEntry
<1>1. y \in EventEntry /\ y.status = x.status /\ y.launch = x.launch /\ y.managed = x.managed
  BY <1>0 DEF EventEntry
<1>2. Reclaimed(y) \in EventEntry /\ Kept(y, Reclaimed(y))
  BY <1>1, ReclaimedType
<1>3. DropUse(x) = Reclaimed(y)
  BY DEF DropUse
<1> HIDE DEF y
<1> QED
  BY <1>1, <1>2, <1>3 DEF Kept

-----------------------------------------------------------------------------
(* The inductive invariant.                                                *)

\* A step that leaves the quotas alone and creates no entry keeps the
\* accounting: fewer entries, the same claims.
LEMMA ShrinkStep ==
    ASSUME IInv, quotas' = quotas, entries' \in [Names -> EventEntry], bumped' \in BOOLEAN,
           \A n \in Names : Kept(entries[n], entries'[n])
    PROVE  IInv'
<1>1. TypeOK'
  BY DEF IInv, TypeOK
<1>2. ReservedBound'
  <2>1. Unmanaged(entries)' \in SUBSET Unmanaged(entries)
    BY DEF Unmanaged, Live, Kept
  <2>2. Cardinality(Unmanaged(entries)') <= Cardinality(Unmanaged(entries))
    BY <2>1, SlotsFinite, FS_Subset
  <2>3. Cardinality(Unmanaged(entries)') \in Nat /\ Cardinality(Unmanaged(entries)) \in Nat
    BY SlotsFinite DEF Unmanaged
  <2>4. Cardinality(Claims(quotas)) \in Nat
    BY ClaimsFinite DEF IInv, TypeOK
  <2>5. Claims(quotas)' = Claims(quotas)
    BY DEF Claims, Opened
  <2> QED
    BY <2>2, <2>3, <2>4, <2>5, TableAssumption DEF ReservedBound, Reserved, IInv, QuotaAccounting
<1>3. FrontierBound'
  <2> SUFFICES ASSUME NEW l \in Launches
               PROVE  Cardinality(ManagedOf(entries', l)) <= quotas[l].limit
    BY DEF FrontierBound
  <2>1. ManagedOf(entries', l) \in SUBSET ManagedOf(entries, l)
    BY DEF ManagedOf, OwnedBy, Live, Kept
  <2>2. Cardinality(ManagedOf(entries', l)) <= Cardinality(ManagedOf(entries, l))
    BY <2>1, SlotsFinite, FS_Subset
  <2>3. /\ Cardinality(ManagedOf(entries', l)) \in Nat
        /\ Cardinality(ManagedOf(entries, l)) \in Nat /\ quotas[l].limit \in Nat
    BY SlotsFinite DEF IInv, TypeOK, Quota
  <2> QED
    BY <2>2, <2>3 DEF IInv, QuotaAccounting, FrontierBound
<1>4. ManagedAccounted'
  BY DEF IInv, QuotaAccounting, ManagedAccounted, Live, Kept, Opened
<1> QED
  BY <1>1, <1>2, <1>3, <1>4 DEF IInv, QuotaAccounting

\* A step that allocates unmanaged entries for a set of unused names that the
\* capacity test let through.
LEMMA AllocateStep ==
    ASSUME IInv, quotas' = quotas, bumped' \in BOOLEAN,
           NEW S \in SUBSET Names, S \cap Live(entries) = {},
           Reserved(entries, quotas) + Cardinality(S) <= Capacity,
           entries' \in [Names -> EventEntry],
           \A n \in Names \ S : entries'[n] = entries[n],
           \A n \in S : entries'[n].status # "ABSENT" /\ ~entries'[n].managed
    PROVE  IInv'
<1>1. TypeOK'
  BY DEF IInv, TypeOK
<1>2. ReservedBound'
  <2>1. Unmanaged(entries)' = Unmanaged(entries) \cup S
    BY DEF Unmanaged, Live
  <2>2. IsFiniteSet(S) /\ Cardinality(S) \in Nat
    BY FS_Subset, FS_CardinalityType, TableAssumption
  <2>3. IsFiniteSet(Unmanaged(entries)) /\ Cardinality(Unmanaged(entries)) \in Nat
    BY SlotsFinite
  <2>4. /\ Cardinality(Unmanaged(entries)') =
              Cardinality(Unmanaged(entries)) + Cardinality(S)
              - Cardinality(Unmanaged(entries) \cap S)
        /\ Cardinality(Unmanaged(entries) \cap S) \in Nat
    BY <2>1, <2>2, <2>3, FS_Union, FS_Intersection, FS_CardinalityType
  <2>5. Cardinality(Claims(quotas)) \in Nat
    BY ClaimsFinite DEF IInv, TypeOK
  <2>6. Claims(quotas)' = Claims(quotas)
    BY DEF Claims, Opened
  <2> QED
    BY <2>2, <2>3, <2>4, <2>5, <2>6, TableAssumption DEF ReservedBound, Reserved
<1>3. FrontierBound'
  <2>1. \A l \in Launches : ManagedOf(entries', l) = ManagedOf(entries, l)
    BY DEF ManagedOf, OwnedBy, Live
  <2> QED
    BY <2>1 DEF FrontierBound, IInv, QuotaAccounting
<1>4. ManagedAccounted'
  BY DEF IInv, QuotaAccounting, ManagedAccounted, Live, Opened
<1> QED
  BY <1>1, <1>2, <1>3, <1>4 DEF IInv, QuotaAccounting

\* Every call of a launch's own methods keeps the invariant.
LEMMA ManagedStep ==
    ASSUME IInv, NEW l \in Launches, Managed(l)
    PROVE  IInv'
<1> USE DEF IInv
<1>1. entries \in [Names -> EventEntry] /\ quotas \in [Launches -> Quota]
  BY DEF TypeOK
<1>2. ASSUME NEW limit \in 0 .. MaxLimit, ReserveQuota(l, limit)
      PROVE  IInv'
  <2>1. limit \in Nat
    BY BoundsAssumption
  <2>2. TypeOK'
    BY <1>2, <2>1, <1>1 DEF TypeOK, ReserveQuota, OpenQuota, Quota
  <2>3. ReservedBound'
    <3>1. Cardinality(Claims(quotas')) <= Cardinality(Claims(quotas)) + limit
      BY <1>1, <1>2, <2>1, OpenClaims DEF ReserveQuota, CanReserveQuota
    <3>2. /\ Cardinality(Claims(quotas')) \in Nat /\ Cardinality(Claims(quotas)) \in Nat
          /\ Cardinality(Unmanaged(entries)) \in Nat
      BY <1>1, <2>2, ClaimsFinite, SlotsFinite DEF TypeOK
    <3>3. Reserved(entries, quotas) + limit <= Capacity /\ entries' = entries
      BY <1>2 DEF ReserveQuota, CanReserveQuota
    <3> QED
      BY <2>1, <3>1, <3>2, <3>3, TableAssumption DEF ReservedBound, Reserved
  <2>4. \A m \in Launches : m = l \/ quotas'[m] = quotas[m]
    BY <1>1, <1>2 DEF ReserveQuota, OpenQuota
  <2>5. OwnedBy(entries, l) = {} /\ entries' = entries /\ ~quotas[l].open
    BY <1>2 DEF ReserveQuota, CanReserveQuota
  <2>6. FrontierBound'
    <3>1. ManagedOf(entries', l) = {}
      BY <2>5 DEF ManagedOf, OwnedBy
    <3>2. Cardinality(ManagedOf(entries', l)) = 0
      BY <3>1, FS_EmptySet
    <3>3. quotas'[l].limit = limit
      BY <1>1, <1>2 DEF ReserveQuota, OpenQuota
    <3> QED
      BY <2>1, <2>4, <2>5, <3>2, <3>3 DEF FrontierBound, QuotaAccounting
  <2>7. ManagedAccounted'
    BY <2>4, <2>5 DEF ManagedAccounted, QuotaAccounting, Live, OwnedBy, Opened
  <2> QED
    BY <2>2, <2>3, <2>6, <2>7 DEF QuotaAccounting
\* Closing a quota in a step that leaves none of the launch's entries.
<1>3. ASSUME quotas' = CloseQuota(quotas, l), ManagedOf(entries', l) = {},
             entries' \in [Names -> EventEntry], bumped' \in BOOLEAN,
             \A n \in Names : Kept(entries[n], entries'[n])
      PROVE  IInv'
  <2>1. TypeOK'
    BY <1>1, <1>3 DEF TypeOK, CloseQuota, NoQuota, Quota
  <2>2. ReservedBound'
    <3>1. Cardinality(Claims(quotas')) <= Cardinality(Claims(quotas))
      BY <1>1, <1>3, CloseClaims
    <3>2. Unmanaged(entries') \in SUBSET Unmanaged(entries)
      BY <1>3 DEF Unmanaged, Live, Kept
    <3>3. Cardinality(Unmanaged(entries')) <= Cardinality(Unmanaged(entries))
      BY <3>2, SlotsFinite, FS_Subset
    <3>4. /\ Cardinality(Claims(quotas')) \in Nat /\ Cardinality(Claims(quotas)) \in Nat
          /\ Cardinality(Unmanaged(entries)) \in Nat /\ Cardinality(Unmanaged(entries')) \in Nat
      BY <1>1, <2>1, ClaimsFinite, SlotsFinite DEF TypeOK
    <3> QED
      BY <3>1, <3>3, <3>4, TableAssumption DEF ReservedBound, Reserved, QuotaAccounting
  <2>3. \A m \in Launches : m = l \/ quotas'[m] = quotas[m]
    BY <1>1, <1>3 DEF CloseQuota
  <2>4. FrontierBound'
    <3> SUFFICES ASSUME NEW m \in Launches
                 PROVE  Cardinality(ManagedOf(entries', m)) <= quotas'[m].limit
      BY DEF FrontierBound
    <3>1. CASE m = l
      <4>1. Cardinality(ManagedOf(entries', l)) = 0
        BY <1>3, FS_EmptySet
      <4> QED
        BY <3>1, <4>1, <2>1 DEF TypeOK, Quota
    <3>2. CASE m # l
      <4>1. ManagedOf(entries', m) \in SUBSET ManagedOf(entries, m)
        BY <1>3 DEF ManagedOf, OwnedBy, Live, Kept
      <4>2. Cardinality(ManagedOf(entries', m)) <= Cardinality(ManagedOf(entries, m))
        BY <4>1, SlotsFinite, FS_Subset
      <4>3. /\ Cardinality(ManagedOf(entries', m)) \in Nat
            /\ Cardinality(ManagedOf(entries, m)) \in Nat /\ quotas[m].limit \in Nat
        BY <1>1, SlotsFinite DEF Quota
      <4> QED
        BY <2>3, <3>2, <4>2, <4>3 DEF FrontierBound, QuotaAccounting
    <3> QED
      BY <3>1, <3>2
  <2>5. ManagedAccounted'
    BY <1>3, <2>3 DEF ManagedAccounted, QuotaAccounting, Live, OwnedBy, ManagedOf, Opened, Kept
  <2> QED
    BY <2>1, <2>2, <2>4, <2>5 DEF QuotaAccounting
<1>4. ASSUME CancelQuota(l) PROVE IInv'
  <2>1. entries' = entries /\ ManagedOf(entries', l) = {}
    BY <1>4 DEF CancelQuota, CanCancelQuota
  <2> QED
    BY <1>1, <1>3, <1>4, <2>1 DEF CancelQuota, Kept
<1>5. ASSUME ReleaseQuota(l) PROVE IInv'
  <2>1. entries' \in [Names -> EventEntry] /\ \A n \in Names : Kept(entries[n], entries'[n])
    BY <1>1, <1>5, FreshEntryType DEF ReleaseQuota, DropEntries, Kept, NoEntry, FreshEntry
  <2>2. ManagedOf(entries', l) = {}
    BY <1>5 DEF ReleaseQuota, DropEntries, ManagedOf, OwnedBy, Live, NoEntry, FreshEntry
  <2> QED
    BY <1>3, <1>5, <2>1, <2>2 DEF ReleaseQuota
<1>6. ASSUME NEW S \in SUBSET Names, ReserveOutputs(l, S)
      PROVE  IInv'
  <2>1. /\ quotas[l].open /\ S \subseteq DOMAIN EventUses[l] /\ S \cap Live(entries) = {}
        /\ Cardinality(ManagedOf(entries, l)) + Cardinality(S) <= quotas[l].limit
        /\ entries' = ReserveOutputsE(entries, l, S) /\ quotas' = ReserveOutputsQ(quotas, l, S)
        /\ bumped' = FALSE
    BY <1>6 DEF ReserveOutputs, OutputsOK
  <2>2. \A n \in S : EventUses[l][n] \in Nat
    BY <2>1, UsesAssumption
  <2>3. /\ entries' \in [Names -> EventEntry]
        /\ \A n \in Names \ S : entries'[n] = entries[n]
        /\ \A n \in S : /\ entries'[n].status = "PENDING" /\ entries'[n].managed
                        /\ entries'[n].launch = l
    BY <1>1, <2>1, <2>2, FreshEntryType DEF ReserveOutputsE, FreshEntry, EventEntry
  <2>4. /\ quotas' \in [Launches -> Quota]
        /\ \A m \in Launches : quotas'[m].open = quotas[m].open /\ quotas'[m].limit = quotas[m].limit
        /\ \A m \in Launches : quotas[m].produced \subseteq quotas'[m].produced
        /\ S \subseteq quotas'[l].produced
    BY <1>1, <2>1 DEF ReserveOutputsQ, Quota
  <2>5. ReservedBound'
    <3>1. Claims(quotas') = Claims(quotas)
      <4>1. Opened(quotas') = Opened(quotas)
        BY <2>4 DEF Opened
      <4>2. \A m \in Opened(quotas) : quotas'[m].limit = quotas[m].limit
        BY <2>4 DEF Opened
      <4> QED
        BY <4>1, <4>2 DEF Claims
    <3>2. Unmanaged(entries') = Unmanaged(entries)
      BY <2>1, <2>3 DEF Unmanaged, Live
    <3> QED
      BY <3>1, <3>2 DEF ReservedBound, Reserved, QuotaAccounting
  <2>6. FrontierBound'
    <3> SUFFICES ASSUME NEW m \in Launches
                 PROVE  Cardinality(ManagedOf(entries', m)) <= quotas[m].limit
      BY <2>4 DEF FrontierBound
    <3>1. CASE m = l
      <4>1. ManagedOf(entries', l) = ManagedOf(entries, l) \cup S
        BY <2>1, <2>3 DEF ManagedOf, OwnedBy, Live
      <4>2. IsFiniteSet(S) /\ Cardinality(S) \in Nat
        BY FS_Subset, FS_CardinalityType, TableAssumption
      <4>3. IsFiniteSet(ManagedOf(entries, l)) /\ Cardinality(ManagedOf(entries, l)) \in Nat
        BY SlotsFinite
      <4>4. /\ Cardinality(ManagedOf(entries', l)) =
                 Cardinality(ManagedOf(entries, l)) + Cardinality(S)
                 - Cardinality(ManagedOf(entries, l) \cap S)
            /\ Cardinality(ManagedOf(entries, l) \cap S) \in Nat
        BY <4>1, <4>2, <4>3, FS_Union, FS_Intersection, FS_CardinalityType
      <4>5. quotas[l].limit \in Nat
        BY <1>1 DEF Quota
      <4> QED
        BY <2>1, <3>1, <4>2, <4>3, <4>4, <4>5
    <3>2. CASE m # l
      <4>1. ManagedOf(entries', m) = ManagedOf(entries, m)
        BY <2>1, <2>3, <3>2 DEF ManagedOf, OwnedBy, Live
      <4> QED
        BY <4>1 DEF FrontierBound, QuotaAccounting
    <3> QED
      BY <3>1, <3>2
  <2>7. ManagedAccounted'
    BY <2>1, <2>3, <2>4 DEF ManagedAccounted, QuotaAccounting, Live, Opened
  <2> QED
    BY <2>1, <2>3, <2>4, <2>5, <2>6, <2>7 DEF TypeOK, QuotaAccounting
<1>7. ASSUME NEW S \in SUBSET Names, ConsumeDependencies(l, S) \/ CancelDependencies(l, S)
      PROVE  IInv'
  <2>1. \A n \in S : entries[n] \in EventEntry /\ entries[n].refs > 0 /\ entries[n].uses > 0
    BY <1>1, <1>7 DEF ConsumeDependencies, CancelDependencies, ConsumeOK, CancelDepsOK
  <2>2. entries' = DropUsesE(entries, S) /\ quotas' = quotas /\ bumped' = FALSE
    BY <1>7 DEF ConsumeDependencies, CancelDependencies
  <2>3. \A n \in S : DropUse(entries[n]) \in EventEntry /\ Kept(entries[n], DropUse(entries[n]))
    BY <2>1, DropUseType
  <2>4. entries' \in [Names -> EventEntry] /\ \A n \in Names : Kept(entries[n], entries'[n])
    BY <1>1, <2>2, <2>3 DEF DropUsesE, Kept
  <2> QED
    BY <2>2, <2>4, ShrinkStep
<1>8. ASSUME AbandonFutureUses(l) PROVE IInv'
  <2> DEFINE y(n) == [entries[n] EXCEPT !.uses = 0]
  <2>1. \A n \in Names : /\ y(n) \in EventEntry /\ y(n).status = entries[n].status
                         /\ y(n).launch = entries[n].launch /\ y(n).managed = entries[n].managed
    BY <1>1 DEF EventEntry
  <2>2. \A n \in Names : Reclaimed(y(n)) \in EventEntry /\ Kept(y(n), Reclaimed(y(n)))
    BY <2>1, ReclaimedType
  <2>3. /\ entries' = [n \in Names |-> IF n \in ManagedOf(entries, l) THEN Reclaimed(y(n)) ELSE entries[n]]
        /\ quotas' = quotas /\ bumped' = FALSE
    BY <1>8 DEF AbandonFutureUses, AbandonE
  <2> HIDE DEF y
  <2>4. entries' \in [Names -> EventEntry] /\ \A n \in Names : Kept(entries[n], entries'[n])
    BY <1>1, <2>1, <2>2, <2>3 DEF Kept
  <2> QED
    BY <2>3, <2>4, ShrinkStep
<1>9. ASSUME NEW S \in SUBSET Names, NEW p \in Producers, CancelOutputs(l, S, p)
      PROVE  IInv'
  <2> DEFINE y(n) == [entries[n] EXCEPT !.status = IF @ = "PENDING" THEN "RESET" ELSE @]
  <2>1. \A n \in Names : /\ y(n) \in EventEntry
                         /\ y(n).status # "ABSENT" => entries[n].status # "ABSENT"
                         /\ y(n).launch = entries[n].launch /\ y(n).managed = entries[n].managed
    BY <1>1 DEF EventEntry, EventStatus, Terminal
  <2>2. \A n \in Names : Reclaimed(y(n)) \in EventEntry /\ Kept(y(n), Reclaimed(y(n)))
    BY <2>1, ReclaimedType
  <2>3. /\ entries' = [n \in Names |-> IF n \in S THEN Reclaimed(y(n)) ELSE entries[n]]
        /\ quotas' = quotas /\ bumped' = FALSE
    BY <1>9 DEF CancelOutputs, CancelOutputsE, CancelOutput
  <2> HIDE DEF y
  <2>4. entries' \in [Names -> EventEntry] /\ \A n \in Names : Kept(entries[n], entries'[n])
    BY <1>1, <2>1, <2>2, <2>3 DEF Kept
  <2> QED
    BY <2>3, <2>4, ShrinkStep
<1> QED
  BY <1>2, <1>4, <1>5, <1>6, <1>7, <1>8, <1>9 DEF Managed

\* Every call of the compatibility interface keeps the invariant.
LEMMA CompatibilityStep ==
    ASSUME IInv, NEW l \in Identities, Compatibility(l)
    PROVE  IInv'
<1>1. entries \in [Names -> EventEntry] /\ quotas \in [Launches -> Quota]
  BY DEF IInv, TypeOK
<1>2. FreshEntry(l, FALSE) \in EventEntry /\ NoEntry \in EventEntry
  BY FreshEntryType DEF Identities
<1>3. \A n \in Names : Kept(entries[n], entries[n]) /\ Kept(entries[n], NoEntry)
  BY DEF Kept, NoEntry, FreshEntry
<1>4. ASSUME NEW S \in SUBSET Names, S \cap Live(entries) = {},
             Reserved(entries, quotas) + Cardinality(S) <= Capacity,
             entries' = AllocateUnmanaged(entries, S, l), quotas' = quotas, bumped' \in BOOLEAN
      PROVE  IInv'
  <2>1. /\ entries' \in [Names -> EventEntry]
        /\ \A n \in Names \ S : entries'[n] = entries[n]
        /\ \A n \in S : entries'[n].status # "ABSENT" /\ ~entries'[n].managed
    BY <1>1, <1>2, <1>4 DEF AllocateUnmanaged, FreshEntry
  <2> QED
    BY <1>4, <2>1, AllocateStep
<1>5. ASSUME NEW S \in SUBSET Names, entries' = DropEntries(entries, S), quotas' = quotas,
             bumped' \in BOOLEAN
      PROVE  IInv'
  <2>1. entries' \in [Names -> EventEntry] /\ \A n \in Names : Kept(entries[n], entries'[n])
    BY <1>1, <1>2, <1>3, <1>5 DEF DropEntries
  <2> QED
    BY <1>5, <2>1, ShrinkStep
<1>6. ASSUME NEW n \in Names, Register(n, l) PROVE IInv'
  <2>1. /\ {n} \cap Live(entries) = {} /\ entries' = AllocateUnmanaged(entries, {n}, l)
        /\ quotas' = quotas /\ bumped' \in BOOLEAN /\ Reserved(entries, quotas) < Capacity
    BY <1>6 DEF Register
  <2>2. Cardinality({n}) = 1
    BY FS_Singleton
  <2>3. Cardinality(Claims(quotas)) \in Nat /\ Cardinality(Unmanaged(entries)) \in Nat
    BY <1>1, ClaimsFinite, SlotsFinite
  <2>4. Reserved(entries, quotas) + Cardinality({n}) <= Capacity
    BY <2>1, <2>2, <2>3, TableAssumption DEF Reserved
  <2> QED
    BY <1>4, <2>1, <2>4
<1>7. ASSUME NEW S \in SUBSET Names, ReserveMany(S, l) PROVE IInv'
  <2> DEFINE missing == S \ Live(entries)
  <2>1. missing \in SUBSET Names /\ missing \cap Live(entries) = {}
    OBVIOUS
  <2>2. /\ entries' = AllocateUnmanaged(entries, missing, l) /\ quotas' = quotas
        /\ bumped' \in BOOLEAN /\ Reserved(entries, quotas) + Cardinality(missing) <= Capacity
    BY <1>7 DEF ReserveMany
  <2> HIDE DEF missing
  <2> QED
    BY <1>4, <2>1, <2>2
<1>8. ASSUME NEW S \in SUBSET Names, CancelReservationPartial(l, S) PROVE IInv'
  BY <1>5, <1>8 DEF CancelReservationPartial
<1>9. ASSUME CancelReservation(l) \/ ReleaseCompatibility(l) PROVE IInv'
  <2>1. OwnedBy(entries, l) \in SUBSET Names
    BY DEF OwnedBy, Live
  <2> QED
    BY <1>5, <1>9, <2>1 DEF CancelReservation, ReleaseCompatibility
<1> QED
  BY <1>6, <1>7, <1>8, <1>9 DEF Compatibility

\* Every call that names one event keeps the invariant.
LEMMA AccessStep ==
    ASSUME IInv, NEW n \in Names, Access(n)
    PROVE  IInv'
<1>1. entries \in [Names -> EventEntry] /\ quotas \in [Launches -> Quota]
  BY DEF IInv, TypeOK
<1>2. \A m \in Names : Kept(entries[m], entries[m])
  BY DEF Kept
<1>3. ASSUME NEW x \in EventEntry, Kept(entries[n], x), quotas' = quotas, bumped' \in BOOLEAN,
             entries' = [entries EXCEPT ![n] = x]
      PROVE  IInv'
  <2>1. entries' \in [Names -> EventEntry] /\ \A m \in Names : Kept(entries[m], entries'[m])
    BY <1>1, <1>2, <1>3
  <2> QED
    BY <1>3, <2>1, ShrinkStep
<1>4. ASSUME NEW x \in EventEntry, x.status # "ABSENT", ~x.managed, n \notin Live(entries),
             Reserved(entries, quotas) < Capacity, quotas' = quotas, bumped' \in BOOLEAN,
             entries' = [entries EXCEPT ![n] = x]
      PROVE  IInv'
  <2>1. Cardinality({n}) = 1
    BY FS_Singleton
  <2>2. Cardinality(Claims(quotas)) \in Nat /\ Cardinality(Unmanaged(entries)) \in Nat
    BY <1>1, ClaimsFinite, SlotsFinite
  <2>3. Reserved(entries, quotas) + Cardinality({n}) <= Capacity
    BY <1>4, <2>1, <2>2, TableAssumption DEF Reserved
  <2>4. /\ entries' \in [Names -> EventEntry]
        /\ \A m \in Names \ {n} : entries'[m] = entries[m]
        /\ \A m \in {n} : entries'[m].status # "ABSENT" /\ ~entries'[m].managed
        /\ {n} \cap Live(entries) = {}
    BY <1>1, <1>4
  <2> QED
    BY <1>4, <2>3, <2>4, AllocateStep
<1>5. ASSUME NEW l \in Identities, NEW p \in Producers, BindProducer(n, l, p) PROVE IInv'
  <2> DEFINE x == [entries[n] EXCEPT !.bound = TRUE, !.producer = p]
  <2>1. x \in EventEntry /\ Kept(entries[n], x)
    BY <1>1, BoundsAssumption DEF EventEntry, Kept
  <2>2. entries' = [entries EXCEPT ![n] = x] /\ quotas' = quotas /\ bumped' \in BOOLEAN
    BY <1>1, <1>5 DEF BindProducer, BindE
  <2> HIDE DEF x
  <2> QED
    BY <1>3, <2>1, <2>2
<1>6. ASSUME NEW l \in Identities, AddConsumer(n, l) PROVE IInv'
  <2> DEFINE x == [entries[n] EXCEPT !.refs = @ + 1]
  <2>1. x \in EventEntry /\ Kept(entries[n], x)
    BY <1>1 DEF EventEntry, Kept
  <2>2. entries' = [entries EXCEPT ![n] = x] /\ quotas' = quotas /\ bumped' \in BOOLEAN
    BY <1>1, <1>6 DEF AddConsumer, AddConsumersE
  <2> HIDE DEF x
  <2> QED
    BY <1>3, <2>1, <2>2
<1>7. ASSUME NEW l \in Identities, NEW s \in 0 .. MaxSeq, Wait(n, l, s) PROVE IInv'
  <2> DEFINE x == [entries[n] EXCEPT !.expected = s]
  <2>1. x \in EventEntry /\ Kept(entries[n], x)
    BY <1>1, BoundsAssumption DEF EventEntry, Kept
  <2>2. entries' = [entries EXCEPT ![n] = x] /\ quotas' = quotas /\ bumped' \in BOOLEAN
    BY <1>1, <1>7 DEF Wait
  <2> HIDE DEF x
  <2> QED
    BY <1>3, <2>1, <2>2
<1>8. ASSUME NEW y \in EventEntry, y.status # "ABSENT", NEW st \in Outcomes, NEW p \in Producers
      PROVE  SignalEntry(y, st, p) \in EventEntry /\ Kept(y, SignalEntry(y, st, p))
  <2> DEFINE z == [y EXCEPT !.status = st, !.producer = p]
  <2>1. z \in EventEntry /\ Kept(y, z)
    BY <1>8, BoundsAssumption DEF EventEntry, EventStatus, Terminal, Kept
  <2>2. Reclaimed(z) \in EventEntry /\ Kept(z, Reclaimed(z))
    BY <2>1, ReclaimedType
  <2>3. SignalEntry(y, st, p) = Reclaimed(z)
    BY DEF SignalEntry
  <2> HIDE DEF z
  <2> QED
    BY <2>1, <2>2, <2>3 DEF Kept
<1>9. ASSUME NEW l \in Identities, NEW anonymous \in BOOLEAN, NEW st \in Outcomes,
             NEW p \in Producers, NEW given \in -1 .. MaxSeq,
             Signal(n, l, anonymous, st, p, given)
      PROVE  IInv'
  <2> DEFINE x == SignalEntry(entries[n], st, p)
  <2>1. x \in EventEntry /\ Kept(entries[n], x)
    BY <1>1, <1>8, <1>9 DEF Signal, Live
  <2>2. entries' = [entries EXCEPT ![n] = x] /\ quotas' = quotas /\ bumped' \in BOOLEAN
    BY <1>1, <1>9 DEF Signal
  <2> HIDE DEF x
  <2> QED
    BY <1>3, <2>1, <2>2
<1>10. ASSUME NEW st \in Outcomes, NEW p \in Producers, NEW given \in -1 .. MaxSeq,
              SignalMissing(n, st, p, given)
       PROVE  IInv'
  <2> DEFINE f == FreshEntry(NoLaunch, FALSE)
             x == IF SignalOK(f, p, SignalSequence(f, given)) THEN SignalEntry(f, st, p) ELSE f
  <2>1. f \in EventEntry /\ f.status = "PENDING" /\ ~f.managed
    BY FreshEntryType DEF FreshEntry
  <2>2. SignalEntry(f, st, p) = [f EXCEPT !.status = st, !.producer = p]
    BY DEF SignalEntry, Reclaimed, FreshEntry
  <2>3. SignalEntry(f, st, p).status # "ABSENT" /\ ~SignalEntry(f, st, p).managed
    BY <2>2, BoundsAssumption DEF FreshEntry, Terminal
  <2>4. SignalEntry(f, st, p) \in EventEntry
    BY <1>8, <2>1
  <2>5. x \in EventEntry /\ x.status # "ABSENT" /\ ~x.managed
    BY <2>1, <2>3, <2>4
  <2>6. /\ entries' = [entries EXCEPT ![n] = x] /\ quotas' = quotas /\ bumped' \in BOOLEAN
        /\ n \notin Live(entries) /\ Reserved(entries, quotas) < Capacity
    BY <1>10 DEF SignalMissing
  <2> HIDE DEF x, f
  <2> QED
    BY <1>4, <2>5, <2>6
<1>11. ASSUME AdvanceSequence(n) PROVE IInv'
  <2> DEFINE f == IF n \in Live(entries) THEN entries[n] ELSE FreshEntry(NoLaunch, FALSE)
             x == [f EXCEPT !.seq = @ + 1, !.status = "PENDING", !.bound = FALSE, !.refs = 0]
  <2>1. /\ entries' = [entries EXCEPT ![n] = x] /\ quotas' = quotas /\ bumped' \in BOOLEAN
        /\ n \notin Live(entries) => Reserved(entries, quotas) < Capacity
    BY <1>11 DEF AdvanceSequence
  <2>2. f \in EventEntry
    BY <1>1, FreshEntryType
  <2>3. CASE n \in Live(entries)
    <3>1. f = entries[n] /\ entries[n].status # "ABSENT"
      BY <2>3 DEF Live
    <3> HIDE DEF f
    <3>2. f.seq + 1 \in Nat
      BY <2>2 DEF EventEntry
    <3>3. x \in EventEntry /\ x.launch = f.launch /\ x.managed = f.managed
      BY <2>2, <3>2 DEF EventEntry, EventStatus
    <3> HIDE DEF x
    <3> QED
      BY <1>3, <2>1, <3>1, <3>3 DEF Kept
  <2>4. CASE n \notin Live(entries)
    <3>1. ~f.managed
      BY <2>4 DEF FreshEntry
    <3> HIDE DEF f
    <3>2. f.seq + 1 \in Nat
      BY <2>2 DEF EventEntry
    <3>3. x \in EventEntry /\ x.status = "PENDING" /\ x.managed = f.managed
      BY <2>2, <3>2 DEF EventEntry, EventStatus
    <3> HIDE DEF x
    <3> QED
      BY <1>4, <2>1, <2>4, <3>1, <3>3
  <2> QED
    BY <2>3, <2>4
<1> QED
  BY <1>5, <1>6, <1>7, <1>9, <1>10, <1>11 DEF Access

-----------------------------------------------------------------------------
(* The theorems.                                                           *)

\* The empty table satisfies the invariant.
LEMMA InitIInv == Init => IInv
<1> SUFFICES ASSUME Init PROVE IInv
  OBVIOUS
<1>1. TypeOK
  BY FreshEntryType DEF Init, TypeOK, EmptyEntries, EmptyQuotas, NoQuota, Quota
<1>2. Live(entries) = {} /\ Unmanaged(entries) = {} /\ \A l \in Launches : ManagedOf(entries, l) = {}
  BY DEF Init, EmptyEntries, NoEntry, FreshEntry, Live, Unmanaged, ManagedOf, OwnedBy
<1>3. Claims(quotas) = {}
  BY DEF Init, EmptyQuotas, NoQuota, Opened, Claims
<1>4. ReservedBound
  BY <1>2, <1>3, FS_EmptySet, TableAssumption DEF ReservedBound, Reserved
<1>5. FrontierBound
  BY <1>2, FS_EmptySet DEF FrontierBound, Init, EmptyQuotas, NoQuota
<1>6. ManagedAccounted
  BY <1>2 DEF ManagedAccounted
<1> QED
  BY <1>1, <1>4, <1>5, <1>6 DEF IInv, QuotaAccounting

\* Every call, reset() and clear() preserve the invariant.
LEMMA NextIInv == IInv /\ [Next]_vars => IInv'
<1> SUFFICES ASSUME IInv, [Next]_vars PROVE IInv'
  OBVIOUS
<1>1. entries \in [Names -> EventEntry] /\ quotas \in [Launches -> Quota] /\ bumped \in BOOLEAN
  BY DEF IInv, TypeOK
<1>2. CASE \E l \in Launches : Managed(l)
  BY <1>2, ManagedStep
<1>3. CASE \E l \in Identities : Compatibility(l)
  BY <1>3, CompatibilityStep
<1>4. CASE \E n \in Names : Access(n)
  BY <1>4, AccessStep
<1>5. CASE Reset
  <2>1. entries' \in [Names -> EventEntry] /\ \A n \in Names : Kept(entries[n], entries'[n])
    BY <1>1, <1>5 DEF Reset, ResetE, EventEntry, EventStatus, Terminal, Kept
  <2> QED
    BY <1>5, <2>1, ShrinkStep DEF Reset
<1>6. CASE Clear
  <2>2. TypeOK'
    BY <1>6, FreshEntryType DEF Clear, TypeOK, EmptyEntries, EmptyQuotas, NoQuota, Quota
  <2>3. /\ Unmanaged(entries') = {} /\ \A l \in Launches : ManagedOf(entries', l) = {}
        /\ Live(entries') = {}
    BY <1>6 DEF Clear, EmptyEntries, NoEntry, FreshEntry, Live, Unmanaged, ManagedOf, OwnedBy
  <2>4. Claims(quotas') = {}
    BY <1>6 DEF Clear, EmptyQuotas, NoQuota, Opened, Claims
  <2>5. ReservedBound'
    BY <2>3, <2>4, FS_EmptySet, TableAssumption DEF ReservedBound, Reserved
  <2>6. FrontierBound'
    BY <1>6, <2>3, FS_EmptySet DEF FrontierBound, Clear, EmptyQuotas, NoQuota
  <2>7. ManagedAccounted'
    BY <2>3 DEF ManagedAccounted
  <2> QED
    BY <2>2, <2>5, <2>6, <2>7 DEF IInv, QuotaAccounting
<1>7. CASE UNCHANGED vars
  <2>1. entries' = entries /\ quotas' = quotas /\ bumped' = bumped
    BY <1>7 DEF vars
  <2>2. \A n \in Names : Kept(entries[n], entries'[n])
    BY <2>1 DEF Kept
  <2> QED
    BY <1>1, <2>1, <2>2, ShrinkStep
<1> QED
  BY <1>2, <1>3, <1>4, <1>5, <1>6, <1>7 DEF Next

\* The slots in use are bounded by what is reserved: the managed entries of
\* each launch are numbered by an injection into the slots its quota claims.
LEMMA AccountingBoundsSlots == IInv => NoOvercommit
<1> SUFFICES ASSUME IInv PROVE NoOvercommit
  OBVIOUS
<1> DEFINE M == {n \in Live(entries) : entries[n].managed}
           Slots(l) == 1 .. quotas[l].limit
           L(n) == entries[n].launch
<1>1. quotas \in [Launches -> Quota]
  BY DEF IInv, TypeOK
<1>2. \A l \in Launches : Injection(ManagedOf(entries, l), Slots(l)) # {}
  <2> TAKE l \in Launches
  <2> DEFINE S == ManagedOf(entries, l)
             k == Cardinality(S)
  <2>1. IsFiniteSet(S) /\ k \in Nat
    BY SlotsFinite
  <2>2. k <= quotas[l].limit /\ quotas[l].limit \in Nat
    BY <1>1 DEF IInv, QuotaAccounting, FrontierBound, Quota
  <2>3. ExistsBijection(1 .. k, S)
    BY <2>1, FS_CardinalityType
  <2>4. ExistsBijection(S, 1 .. k)
    BY <2>3, Fun_ExistsBijSymmetric
  <2>5. PICK f : f \in Bijection(S, 1 .. k)
    BY <2>4 DEF ExistsBijection
  <2>6. f \in [S -> 1 .. k] /\ \A a, b \in S : f[a] = f[b] => a = b
    BY <2>5 DEF Bijection, Injection, IsInjective
  <2>7. \A i \in 1 .. k : i \in Slots(l)
    BY <2>1, <2>2
  <2> HIDE DEF S, k, Slots
  <2>8. f \in [S -> Slots(l)]
    BY <2>6, <2>7
  <2>9. f \in Injection(S, Slots(l))
    BY <2>6, <2>8, Fun_IsInj
  <2> QED
    BY <2>9 DEF S
<1> DEFINE h == [l \in Launches |-> CHOOSE f : f \in Injection(ManagedOf(entries, l), Slots(l))]
           g == [n \in M |-> <<L(n), h[L(n)][n]>>]
<1>3. \A l \in Launches : h[l] \in Injection(ManagedOf(entries, l), Slots(l))
  BY <1>2
<1>4. \A n \in M : L(n) \in Opened(quotas) /\ n \in ManagedOf(entries, L(n))
  BY DEF IInv, QuotaAccounting, ManagedAccounted, ManagedOf, OwnedBy
<1>5. Opened(quotas) \subseteq Launches
  BY DEF Opened
<1>6. \A l \in Launches : /\ h[l] \in [ManagedOf(entries, l) -> Slots(l)]
                          /\ \A a, b \in ManagedOf(entries, l) : h[l][a] = h[l][b] => a = b
  BY <1>3 DEF Injection, IsInjective
<1> HIDE DEF h
<1>7. \A n \in M : <<L(n), h[L(n)][n]>> \in Claims(quotas)
  <2> TAKE n \in M
  <2>1. L(n) \in Opened(quotas) /\ h[L(n)][n] \in Slots(L(n))
    BY <1>4, <1>5, <1>6
  <2>2. <<L(n), h[L(n)][n]>> \in {L(n)} \X Slots(L(n))
    BY <2>1
  <2> QED
    BY <2>1, <2>2 DEF Claims
<1>8. g \in [M -> Claims(quotas)]
  BY <1>7
<1>9. \A a, b \in M : g[a] = g[b] => a = b
  BY <1>4, <1>5, <1>6
<1>10. IsFiniteSet(Claims(quotas)) /\ Cardinality(Claims(quotas)) \in Nat
  BY <1>1, ClaimsFinite
<1> HIDE DEF g, M
<1>11. g \in Injection(M, Claims(quotas))
  BY <1>8, <1>9, Fun_IsInj
<1>12. IsFiniteSet(M) /\ Cardinality(M) <= Cardinality(Claims(quotas)) /\ Cardinality(M) \in Nat
  BY <1>10, <1>11, FS_Injection, FS_CardinalityType
<1>13. IsFiniteSet(Unmanaged(entries)) /\ Cardinality(Unmanaged(entries)) \in Nat
  BY SlotsFinite
<1>14. Live(entries) = M \cup Unmanaged(entries)
  BY DEF M, Unmanaged
<1>15. /\ Cardinality(Live(entries)) = Cardinality(M) + Cardinality(Unmanaged(entries))
                                       - Cardinality(M \cap Unmanaged(entries))
       /\ Cardinality(M \cap Unmanaged(entries)) \in Nat
  BY <1>12, <1>13, <1>14, FS_Union, FS_Intersection, FS_CardinalityType
<1>16. Cardinality(Claims(quotas)) + Cardinality(Unmanaged(entries)) <= Capacity
  BY DEF IInv, QuotaAccounting, ReservedBound, Reserved
<1> QED
  BY <1>10, <1>12, <1>13, <1>15, <1>16, TableAssumption DEF NoOvercommit

\* Every reachable table has the shape of EventEntry and _EventQuota: no
\* call drives a reference count below zero.
THEOREM TypeCorrect == Spec => []TypeOK
<1>1. IInv => TypeOK
  BY DEF IInv
<1> QED
  BY InitIInv, NextIInv, <1>1, PTL DEF Spec

\* The quota accounting of reserve_quota, reserve_outputs and release_owner is
\* exact in every reachable table.
THEOREM QuotasAccounted == Spec => []QuotaAccounting
<1>1. IInv => QuotaAccounting
  BY DEF IInv
<1> QED
  BY InitIInv, NextIInv, <1>1, PTL DEF Spec

\* No sequence of calls puts more entries into the table than its capacity,
\* although _allocate does not test the capacity for managed entries.
THEOREM CapacityRespected == Spec => []NoOvercommit
BY InitIInv, NextIInv, AccountingBoundsSlots, PTL DEF Spec

-----------------------------------------------------------------------------
(* What one step may do to one entry.                                      *)

\* A terminal status stays, or the slot goes, or a compatibility event moves
\* on to its next sequence.
Final(x, y) ==
    x.status \in Terminal =>
        \/ y.status \in {x.status, "ABSENT"}
        \/ ~x.managed /\ y.seq > x.seq

\* A managed entry is an old one, or one the launch had not produced before.
Sound(n) ==
    /\ Final(entries[n], entries'[n])
    /\ \/ Kept(entries[n], entries'[n])
       \/ ~entries'[n].managed
       \/ n \notin quotas[entries'[n].launch].produced

\* Reclaiming the slot of an entry revives nothing and changes no terminal status.
LEMMA ReclaimedFinal ==
    ASSUME NEW x, NEW y, y.status = x.status, y.launch = x.launch, y.managed = x.managed
    PROVE  Final(x, Reclaimed(y)) /\ Kept(x, Reclaimed(y))
BY DEF Reclaimed, NoEntry, FreshEntry, Final, Kept

\* The calls of a launch's own methods keep terminal statuses and retired events.
LEMMA ManagedSound ==
    ASSUME TypeOK, NEW l \in Launches, Managed(l)
    PROVE  \A n \in Names : Sound(n)
<1> SUFFICES ASSUME NEW n \in Names PROVE Sound(n)
  OBVIOUS
<1>1. entries[n] \in EventEntry
  BY DEF TypeOK
<1>2. Final(entries[n], entries[n]) /\ Kept(entries[n], entries[n])
  BY DEF Final, Kept
<1>3. Final(entries[n], NoEntry) /\ Kept(entries[n], NoEntry)
  BY DEF Final, Kept, NoEntry, FreshEntry
<1>4. ASSUME CancelQuota(l) \/ \E limit \in 0 .. MaxLimit : ReserveQuota(l, limit)
      PROVE  Sound(n)
  BY <1>2, <1>4 DEF CancelQuota, ReserveQuota, Sound
<1>5. ASSUME ReleaseQuota(l) PROVE Sound(n)
  BY <1>2, <1>3, <1>5 DEF ReleaseQuota, DropEntries, Sound
<1>6. ASSUME NEW S \in SUBSET Names, ReserveOutputs(l, S) PROVE Sound(n)
  <2>1. CASE n \in S
    <3>1. n \notin quotas[l].produced /\ entries[n].status = "ABSENT"
      BY <1>6, <2>1 DEF ReserveOutputs, OutputsOK, Live
    <3>2. entries'[n].launch = l
      BY <1>6, <2>1 DEF ReserveOutputs, ReserveOutputsE, FreshEntry
    <3> QED
      BY <3>1, <3>2 DEF Sound, Final, Terminal
  <2>2. CASE n \notin S
    BY <1>2, <1>6, <2>2 DEF ReserveOutputs, ReserveOutputsE, Sound
  <2> QED
    BY <2>1, <2>2
<1>7. ASSUME NEW S \in SUBSET Names, ConsumeDependencies(l, S) \/ CancelDependencies(l, S)
      PROVE  Sound(n)
  <2> DEFINE y == [entries[n] EXCEPT !.refs = @ - 1, !.uses = @ - 1]
  <2>1. /\ y.status = entries[n].status /\ y.launch = entries[n].launch
        /\ y.managed = entries[n].managed
    BY <1>1 DEF EventEntry
  <2>2. entries'[n] = IF n \in S THEN Reclaimed(y) ELSE entries[n]
    BY <1>7 DEF ConsumeDependencies, CancelDependencies, DropUsesE, DropUse
  <2> HIDE DEF y
  <2> QED
    BY <1>2, <2>1, <2>2, ReclaimedFinal DEF Sound
<1>8. ASSUME AbandonFutureUses(l) PROVE Sound(n)
  <2> DEFINE y == [entries[n] EXCEPT !.uses = 0]
  <2>1. /\ y.status = entries[n].status /\ y.launch = entries[n].launch
        /\ y.managed = entries[n].managed
    BY <1>1 DEF EventEntry
  <2>2. entries'[n] = IF n \in ManagedOf(entries, l) THEN Reclaimed(y) ELSE entries[n]
    BY <1>8 DEF AbandonFutureUses, AbandonE
  <2> HIDE DEF y
  <2> QED
    BY <1>2, <2>1, <2>2, ReclaimedFinal DEF Sound
<1>9. ASSUME NEW S \in SUBSET Names, NEW p \in Producers, CancelOutputs(l, S, p) PROVE Sound(n)
  <2> DEFINE y == [entries[n] EXCEPT !.status = IF @ = "PENDING" THEN "RESET" ELSE @]
  <2>1. /\ entries[n].status \in Terminal => y.status = entries[n].status
        /\ y.status # "ABSENT" => entries[n].status # "ABSENT"
        /\ y.launch = entries[n].launch /\ y.managed = entries[n].managed
    BY <1>1 DEF EventEntry, Terminal
  <2>2. entries'[n] = IF n \in S THEN Reclaimed(y) ELSE entries[n]
    BY <1>9 DEF CancelOutputs, CancelOutputsE, CancelOutput
  <2> HIDE DEF y
  <2>3. Final(y, Reclaimed(y)) /\ Kept(y, Reclaimed(y))
    BY ReclaimedFinal
  <2>4. Final(entries[n], Reclaimed(y)) /\ Kept(entries[n], Reclaimed(y))
    BY <2>1, <2>3 DEF Final, Kept, Reclaimed, NoEntry, FreshEntry
  <2> QED
    BY <1>2, <2>2, <2>4 DEF Sound
<1> QED
  BY <1>4, <1>5, <1>6, <1>7, <1>8, <1>9 DEF Managed

\* The calls of the compatibility interface keep terminal statuses and retired
\* events.
LEMMA CompatibilitySound ==
    ASSUME TypeOK, NEW l \in Identities, Compatibility(l)
    PROVE  \A n \in Names : Sound(n)
<1> SUFFICES ASSUME NEW n \in Names PROVE Sound(n)
  OBVIOUS
<1>1. Final(entries[n], entries[n]) /\ Kept(entries[n], entries[n])
  BY DEF Final, Kept
<1>2. Final(entries[n], NoEntry) /\ Kept(entries[n], NoEntry)
  BY DEF Final, Kept, NoEntry, FreshEntry
<1>3. ASSUME NEW S, S \cap Live(entries) = {}, entries' = AllocateUnmanaged(entries, S, l)
      PROVE  Sound(n)
  <2>1. n \in S => entries[n].status = "ABSENT"
    BY <1>3 DEF Live
  <2> QED
    BY <1>1, <1>3, <2>1 DEF AllocateUnmanaged, FreshEntry, Sound, Final, Terminal
<1>4. ASSUME NEW S, entries' = DropEntries(entries, S) PROVE Sound(n)
  BY <1>1, <1>2, <1>4 DEF DropEntries, Sound
<1>5. ASSUME NEW m \in Names, Register(m, l) PROVE Sound(n)
  <2>1. {m} \cap Live(entries) = {}
    BY <1>5 DEF Register
  <2> QED
    BY <1>3, <1>5, <2>1 DEF Register
<1>6. ASSUME NEW S \in SUBSET Names, ReserveMany(S, l) PROVE Sound(n)
  <2>1. (S \ Live(entries)) \cap Live(entries) = {}
    OBVIOUS
  <2> QED
    BY <1>3, <1>6, <2>1 DEF ReserveMany
<1>7. ASSUME NEW S \in SUBSET Names, CancelReservationPartial(l, S) PROVE Sound(n)
  BY <1>4, <1>7 DEF CancelReservationPartial
<1>8. ASSUME CancelReservation(l) \/ ReleaseCompatibility(l) PROVE Sound(n)
  BY <1>4, <1>8 DEF CancelReservation, ReleaseCompatibility
<1> QED
  BY <1>5, <1>6, <1>7, <1>8 DEF Compatibility

\* The calls that name one event keep terminal statuses and retired events.
LEMMA AccessSound ==
    ASSUME TypeOK, NEW m \in Names, Access(m)
    PROVE  \A n \in Names : Sound(n)
<1>1. entries \in [Names -> EventEntry]
  BY DEF TypeOK
<1>2. \A n \in Names : Final(entries[n], entries[n]) /\ Kept(entries[n], entries[n])
  BY DEF Final, Kept
<1>3. ASSUME NEW x, entries' = [entries EXCEPT ![m] = x], Final(entries[m], x),
             Kept(entries[m], x) \/ ~x.managed
      PROVE  \A n \in Names : Sound(n)
  <2>1. entries'[m] = x /\ \A n \in Names \ {m} : entries'[n] = entries[n]
    BY <1>1, <1>3
  <2> QED
    BY <1>2, <1>3, <2>1 DEF Sound
<1>4. ASSUME NEW l \in Identities, NEW p \in Producers, BindProducer(m, l, p)
      PROVE  \A n \in Names : Sound(n)
  <2> DEFINE x == [entries[m] EXCEPT !.bound = TRUE, !.producer = p]
  <2>1. Final(entries[m], x) /\ Kept(entries[m], x)
    BY <1>1 DEF EventEntry, Final, Kept
  <2>2. entries' = [entries EXCEPT ![m] = x]
    BY <1>1, <1>4 DEF BindProducer, BindE
  <2> HIDE DEF x
  <2> QED
    BY <1>3, <2>1, <2>2
<1>5. ASSUME NEW l \in Identities, AddConsumer(m, l) PROVE \A n \in Names : Sound(n)
  <2> DEFINE x == [entries[m] EXCEPT !.refs = @ + 1]
  <2>1. Final(entries[m], x) /\ Kept(entries[m], x)
    BY <1>1 DEF EventEntry, Final, Kept
  <2>2. entries' = [entries EXCEPT ![m] = x]
    BY <1>1, <1>5 DEF AddConsumer, AddConsumersE
  <2> HIDE DEF x
  <2> QED
    BY <1>3, <2>1, <2>2
<1>6. ASSUME NEW l \in Identities, NEW s \in 0 .. MaxSeq, Wait(m, l, s)
      PROVE  \A n \in Names : Sound(n)
  <2> DEFINE x == [entries[m] EXCEPT !.expected = s]
  <2>1. Final(entries[m], x) /\ Kept(entries[m], x)
    BY <1>1 DEF EventEntry, Final, Kept
  <2>2. entries' = [entries EXCEPT ![m] = x]
    BY <1>1, <1>6 DEF Wait
  <2> HIDE DEF x
  <2> QED
    BY <1>3, <2>1, <2>2
<1>7. ASSUME NEW l \in Identities, NEW anonymous \in BOOLEAN, NEW st \in Outcomes,
             NEW p \in Producers, NEW given \in -1 .. MaxSeq,
             Signal(m, l, anonymous, st, p, given)
      PROVE  \A n \in Names : Sound(n)
  <2> DEFINE y == [entries[m] EXCEPT !.status = st, !.producer = p]
  <2>1. entries[m].status = "PENDING"
    BY <1>7 DEF Signal, SignalOK
  <2>2. y.launch = entries[m].launch /\ y.managed = entries[m].managed
    BY <1>1 DEF EventEntry
  <2>3. entries' = [entries EXCEPT ![m] = Reclaimed(y)]
    BY <1>1, <1>7 DEF Signal, SignalEntry
  <2> HIDE DEF y
  <2>4. Final(entries[m], Reclaimed(y)) /\ Kept(entries[m], Reclaimed(y))
    BY <2>1, <2>2 DEF Final, Terminal, Kept, Reclaimed, NoEntry, FreshEntry
  <2> QED
    BY <1>3, <2>3, <2>4
<1>8. ASSUME NEW st \in Outcomes, NEW p \in Producers, NEW given \in -1 .. MaxSeq,
             SignalMissing(m, st, p, given)
      PROVE  \A n \in Names : Sound(n)
  <2> DEFINE f == FreshEntry(NoLaunch, FALSE)
             x == IF SignalOK(f, p, SignalSequence(f, given)) THEN SignalEntry(f, st, p) ELSE f
  <2>1. SignalEntry(f, st, p) = [f EXCEPT !.status = st, !.producer = p]
    BY DEF SignalEntry, Reclaimed, FreshEntry
  <2>2. ~f.managed /\ ~SignalEntry(f, st, p).managed
    BY <2>1 DEF FreshEntry
  <2>3. ~x.managed
    BY <2>2
  <2>4. entries' = [entries EXCEPT ![m] = x] /\ entries[m].status = "ABSENT"
    BY <1>8 DEF SignalMissing, Live
  <2> HIDE DEF x
  <2> QED
    BY <1>3, <2>3, <2>4 DEF Final, Terminal
<1>9. ASSUME AdvanceSequence(m) PROVE \A n \in Names : Sound(n)
  <2> DEFINE f == IF m \in Live(entries) THEN entries[m] ELSE FreshEntry(NoLaunch, FALSE)
             x == [f EXCEPT !.seq = @ + 1, !.status = "PENDING", !.bound = FALSE, !.refs = 0]
  <2>1. f \in EventEntry /\ ~f.managed
    BY <1>1, <1>9, FreshEntryType DEF AdvanceSequence, FreshEntry
  <2>2. entries[m].status \in Terminal => f = entries[m]
    BY DEF Live, Terminal
  <2>3. entries' = [entries EXCEPT ![m] = x] /\ ~entries[m].managed
    BY <1>9 DEF AdvanceSequence
  <2> HIDE DEF f
  <2>4. ~x.managed /\ x.seq = f.seq + 1 /\ f.seq \in Nat
    BY <2>1 DEF EventEntry
  <2> HIDE DEF x
  <2>5. Final(entries[m], x)
    BY <2>2, <2>3, <2>4 DEF Final
  <2> QED
    BY <1>3, <2>3, <2>4, <2>5
<1> QED
  BY <1>4, <1>5, <1>6, <1>7, <1>8, <1>9 DEF Access

\* Every step of the table keeps terminal statuses and retired events.
LEMMA NextSound ==
    ASSUME TypeOK, [Next]_vars
    PROVE  \A n \in Names : Sound(n)
<1>1. CASE \E l \in Launches : Managed(l)
  BY <1>1, ManagedSound
<1>2. CASE \E l \in Identities : Compatibility(l)
  BY <1>2, CompatibilitySound
<1>3. CASE \E n \in Names : Access(n)
  BY <1>3, AccessSound
<1>4. CASE Reset
  <2> SUFFICES ASSUME NEW n \in Names PROVE Sound(n)
    OBVIOUS
  <2> DEFINE x == [entries[n] EXCEPT !.status = "RESET"]
  <2>1. entries[n] \in EventEntry
    BY DEF TypeOK
  <2>2. x.launch = entries[n].launch /\ x.managed = entries[n].managed
    BY <2>1 DEF EventEntry
  <2>3. entries'[n] = IF entries[n].status = "PENDING" THEN x ELSE entries[n]
    BY <1>4 DEF Reset, ResetE
  <2> HIDE DEF x
  <2> QED
    BY <2>2, <2>3 DEF Sound, Final, Kept, Terminal
<1>5. CASE Clear
  BY <1>5 DEF Clear, EmptyEntries, NoEntry, FreshEntry, Sound, Final, Kept
<1>6. CASE UNCHANGED vars
  BY <1>6 DEF vars, Sound, Final, Kept
<1> QED
  BY <1>1, <1>2, <1>3, <1>4, <1>5, <1>6 DEF Next

\* A terminal event status is final in every behaviour.
THEOREM TerminalStays == Spec => TerminalIsFinal
<1>1. TypeOK /\ [Next]_vars =>
        [\A n \in Names :
            entries[n].status \in Terminal =>
               \/ entries'[n].status \in {entries[n].status, "ABSENT"}
               \/ ~entries[n].managed /\ entries'[n].seq > entries[n].seq]_vars
  <2> SUFFICES ASSUME TypeOK, [Next]_vars, NEW n \in Names, entries[n].status \in Terminal
               PROVE  \/ entries'[n].status \in {entries[n].status, "ABSENT"}
                      \/ ~entries[n].managed /\ entries'[n].seq > entries[n].seq
    OBVIOUS
  <2> QED
    BY NextSound DEF Sound, Final
<1> QED
  BY <1>1, TypeCorrect, PTL DEF Spec, TerminalIsFinal

\* A launch never gets a second managed slot for an event it has produced.
THEOREM EventsStayRetired == Spec => NoResurrection
<1>1. TypeOK /\ [Next]_vars =>
        [\A l \in Launches : \A n \in quotas[l].produced :
            n \in ManagedOf(entries', l) => n \in ManagedOf(entries, l)]_vars
  <2> SUFFICES ASSUME TypeOK, [Next]_vars, NEW l \in Launches, NEW n \in quotas[l].produced,
                      n \in ManagedOf(entries', l)
               PROVE  n \in ManagedOf(entries, l)
    OBVIOUS
  <2>1. n \in Names /\ entries'[n].status # "ABSENT" /\ entries'[n].launch = l /\ entries'[n].managed
    BY DEF ManagedOf, OwnedBy, Live
  <2>2. Kept(entries[n], entries'[n])
    BY <2>1, NextSound DEF Sound
  <2> QED
    BY <2>1, <2>2 DEF Kept, ManagedOf, OwnedBy, Live
<1> QED
  BY <1>1, TypeCorrect, PTL DEF Spec, NoResurrection

\* The storage of the table is accounted for in every behaviour, for every
\* number of launches, events and slots.
THEOREM StorageStaysAccounted == Spec => []StorageAccounted
<1>1. TypeOK /\ QuotaAccounting /\ NoOvercommit => StorageAccounted
  BY DEF StorageAccounted
<1> QED
  BY <1>1, TypeCorrect, QuotasAccounted, CapacityRespected, PTL

\* What has happened to an event is never undone.
THEOREM EventsStayFinal == Spec => EventsFinal
BY TerminalStays, EventsStayRetired DEF EventsFinal

-----------------------------------------------------------------------------
(* Reference counts and reclamation.                                       *)

\* What ReferenceAccounting says of one entry.
Counted(x) ==
    x.status # "ABSENT" /\ x.managed =>
        x.refs <= x.uses /\ (x.status \in Terminal \ {"RESET"} => x.uses > 0)

\* After _maybe_reclaim an entry whose references are covered by its uses is
\* counted, whatever its status was.
LEMMA ReclaimedCounted ==
    ASSUME NEW x \in EventEntry, x.managed => x.refs <= x.uses
    PROVE  Counted(Reclaimed(x))
BY DEF Counted, Reclaimed, EventEntry, Terminal, NoEntry, FreshEntry

\* Entries of the compatibility interface and free slots are not counted.
LEMMA UnmanagedCounted ==
    ASSUME NEW x, ~x.managed \/ x.status = "ABSENT"
    PROVE  Counted(x)
BY DEF Counted

\* A launch's own methods keep its reference counts within the promised uses.
LEMMA ManagedCounted ==
    ASSUME TypeOK, \A m \in Names : Counted(entries[m]), NEW l \in Launches, Managed(l)
    PROVE  \A n \in Names : Counted(entries'[n])
<1> SUFFICES ASSUME NEW n \in Names PROVE Counted(entries'[n])
  OBVIOUS
<1>1. entries[n] \in EventEntry /\ Counted(entries[n])
  BY DEF TypeOK
<1>2. Counted(NoEntry)
  BY UnmanagedCounted DEF NoEntry, FreshEntry
<1>3. ASSUME CancelQuota(l) \/ \E limit \in 0 .. MaxLimit : ReserveQuota(l, limit)
      PROVE  Counted(entries'[n])
  BY <1>1, <1>3 DEF CancelQuota, ReserveQuota
<1>4. ASSUME ReleaseQuota(l) PROVE Counted(entries'[n])
  BY <1>1, <1>2, <1>4 DEF ReleaseQuota, DropEntries
<1>5. ASSUME NEW S \in SUBSET Names, ReserveOutputs(l, S) PROVE Counted(entries'[n])
  <2>1. CASE n \in S
    <3>1. EventUses[l][n] \in Nat
      BY <1>5, <2>1, UsesAssumption DEF ReserveOutputs, OutputsOK
    <3>2. entries'[n] = [FreshEntry(l, TRUE) EXCEPT !.uses = EventUses[l][n]]
      BY <1>5, <2>1 DEF ReserveOutputs, ReserveOutputsE
    <3> QED
      BY <3>1, <3>2 DEF FreshEntry, Counted, Terminal
  <2>2. CASE n \notin S
    BY <1>1, <1>5, <2>2 DEF ReserveOutputs, ReserveOutputsE
  <2> QED
    BY <2>1, <2>2
<1>6. ASSUME NEW S \in SUBSET Names, ConsumeDependencies(l, S) \/ CancelDependencies(l, S)
      PROVE  Counted(entries'[n])
  <2>1. CASE n \in S
    <3> DEFINE y == [entries[n] EXCEPT !.refs = @ - 1, !.uses = @ - 1]
    <3>1. entries[n].refs > 0 /\ entries[n].uses > 0 /\ entries[n].status # "ABSENT"
      BY <1>6, <2>1 DEF ConsumeDependencies, CancelDependencies, ConsumeOK, CancelDepsOK,
                        ManagedOf, OwnedBy, Live
    <3>2. entries[n].refs - 1 \in Nat /\ entries[n].uses - 1 \in Nat
      BY <1>1, <3>1 DEF EventEntry
    <3>3. entries[n].managed => entries[n].refs <= entries[n].uses
      BY <1>1, <3>1 DEF Counted
    <3>4. /\ y \in EventEntry /\ y.managed = entries[n].managed
          /\ y.refs = entries[n].refs - 1 /\ y.uses = entries[n].uses - 1
      BY <1>1, <3>2 DEF EventEntry
    <3>5. entries[n].refs \in Nat /\ entries[n].uses \in Nat
      BY <1>1 DEF EventEntry
    <3>6. y \in EventEntry /\ (y.managed => y.refs <= y.uses)
      BY <3>3, <3>4, <3>5
    <3>7. entries'[n] = Reclaimed(y)
      BY <1>6, <2>1 DEF ConsumeDependencies, CancelDependencies, DropUsesE, DropUse
    <3> HIDE DEF y
    <3> QED
      BY <3>6, <3>7, ReclaimedCounted
  <2>2. CASE n \notin S
    BY <1>1, <1>6, <2>2 DEF ConsumeDependencies, CancelDependencies, DropUsesE
  <2> QED
    BY <2>1, <2>2
<1>7. ASSUME AbandonFutureUses(l) PROVE Counted(entries'[n])
  <2>1. CASE n \in ManagedOf(entries, l)
    <3> DEFINE y == [entries[n] EXCEPT !.uses = 0]
    <3>1. entries[n].refs = 0
      BY <1>7, <2>1 DEF AbandonFutureUses, AbandonOK
    <3>2. y \in EventEntry /\ (y.managed => y.refs <= y.uses)
      BY <1>1, <3>1 DEF EventEntry
    <3>3. entries'[n] = Reclaimed(y)
      BY <1>7, <2>1 DEF AbandonFutureUses, AbandonE
    <3> HIDE DEF y
    <3> QED
      BY <3>2, <3>3, ReclaimedCounted
  <2>2. CASE n \notin ManagedOf(entries, l)
    BY <1>1, <1>7, <2>2 DEF AbandonFutureUses, AbandonE
  <2> QED
    BY <2>1, <2>2
<1>8. ASSUME NEW S \in SUBSET Names, NEW p \in Producers, CancelOutputs(l, S, p)
      PROVE  Counted(entries'[n])
  <2>1. CASE n \in S
    <3> DEFINE y == [entries[n] EXCEPT !.status = IF @ = "PENDING" THEN "RESET" ELSE @]
    <3>1. entries[n].status # "ABSENT"
      BY <1>8, <2>1 DEF CancelOutputs, CancelOutputsOK, ManagedOf, OwnedBy, Live
    <3>2. y \in EventEntry /\ (y.managed => y.refs <= y.uses)
      BY <1>1, <3>1 DEF EventEntry, EventStatus, Terminal, Counted
    <3>3. entries'[n] = Reclaimed(y)
      BY <1>8, <2>1 DEF CancelOutputs, CancelOutputsE, CancelOutput
    <3> HIDE DEF y
    <3> QED
      BY <3>2, <3>3, ReclaimedCounted
  <2>2. CASE n \notin S
    BY <1>1, <1>8, <2>2 DEF CancelOutputs, CancelOutputsE
  <2> QED
    BY <2>1, <2>2
<1> QED
  BY <1>3, <1>4, <1>5, <1>6, <1>7, <1>8 DEF Managed

\* The compatibility interface creates only entries that are not counted.
LEMMA CompatibilityCounted ==
    ASSUME \A m \in Names : Counted(entries[m]), NEW l \in Identities, Compatibility(l)
    PROVE  \A n \in Names : Counted(entries'[n])
<1> SUFFICES ASSUME NEW n \in Names PROVE Counted(entries'[n])
  OBVIOUS
<1>1. Counted(NoEntry) /\ Counted(FreshEntry(l, FALSE)) /\ Counted(entries[n])
  BY UnmanagedCounted DEF NoEntry, FreshEntry
<1>2. ASSUME NEW S, entries' = AllocateUnmanaged(entries, S, l) PROVE Counted(entries'[n])
  BY <1>1, <1>2 DEF AllocateUnmanaged
<1>3. ASSUME NEW S, entries' = DropEntries(entries, S) PROVE Counted(entries'[n])
  BY <1>1, <1>3 DEF DropEntries
<1> QED
  BY <1>2, <1>3 DEF Compatibility, Register, ReserveMany, CancelReservationPartial,
                    CancelReservation, ReleaseCompatibility

\* A call that names one event keeps its references within its uses.
LEMMA AccessCounted ==
    ASSUME TypeOK, \A k \in Names : Counted(entries[k]), NEW m \in Names, Access(m)
    PROVE  \A n \in Names : Counted(entries'[n])
<1>1. entries \in [Names -> EventEntry] /\ entries[m] \in EventEntry /\ Counted(entries[m])
  BY DEF TypeOK
<1>2. ASSUME NEW x, entries' = [entries EXCEPT ![m] = x], Counted(x)
      PROVE  \A n \in Names : Counted(entries'[n])
  BY <1>1, <1>2
<1>3. ASSUME NEW l \in Identities, NEW p \in Producers, BindProducer(m, l, p)
      PROVE  \A n \in Names : Counted(entries'[n])
  <2> DEFINE x == [entries[m] EXCEPT !.bound = TRUE, !.producer = p]
  <2>1. Counted(x)
    BY <1>1 DEF EventEntry, Counted
  <2>2. entries' = [entries EXCEPT ![m] = x]
    BY <1>1, <1>3 DEF BindProducer, BindE
  <2> HIDE DEF x
  <2> QED
    BY <1>2, <2>1, <2>2
<1>4. ASSUME NEW l \in Identities, AddConsumer(m, l) PROVE \A n \in Names : Counted(entries'[n])
  <2> DEFINE x == [entries[m] EXCEPT !.refs = @ + 1]
  <2>1. entries[m].managed => entries[m].refs < entries[m].uses
    BY <1>4 DEF AddConsumer, ConsumerOK
  <2>2. Counted(x)
    BY <1>1, <2>1 DEF EventEntry, Counted
  <2>3. entries' = [entries EXCEPT ![m] = x]
    BY <1>1, <1>4 DEF AddConsumer, AddConsumersE
  <2> HIDE DEF x
  <2> QED
    BY <1>2, <2>2, <2>3
<1>5. ASSUME NEW l \in Identities, NEW s \in 0 .. MaxSeq, Wait(m, l, s)
      PROVE  \A n \in Names : Counted(entries'[n])
  <2> DEFINE x == [entries[m] EXCEPT !.expected = s]
  <2>1. Counted(x)
    BY <1>1 DEF EventEntry, Counted
  <2>2. entries' = [entries EXCEPT ![m] = x]
    BY <1>1, <1>5 DEF Wait
  <2> HIDE DEF x
  <2> QED
    BY <1>2, <2>1, <2>2
<1>6. ASSUME NEW l \in Identities, NEW anonymous \in BOOLEAN, NEW st \in Outcomes,
             NEW p \in Producers, NEW given \in -1 .. MaxSeq,
             Signal(m, l, anonymous, st, p, given)
      PROVE  \A n \in Names : Counted(entries'[n])
  <2> DEFINE y == [entries[m] EXCEPT !.status = st, !.producer = p]
  <2>1. entries[m].status = "PENDING"
    BY <1>6 DEF Signal, SignalOK
  <2>2. y \in EventEntry /\ (y.managed => y.refs <= y.uses)
    BY <1>1, <2>1, BoundsAssumption DEF EventEntry, EventStatus, Counted
  <2>3. entries' = [entries EXCEPT ![m] = Reclaimed(y)]
    BY <1>1, <1>6 DEF Signal, SignalEntry
  <2> HIDE DEF y
  <2>4. Counted(Reclaimed(y))
    BY <2>2, ReclaimedCounted
  <2> QED
    BY <1>2, <2>3, <2>4
<1>7. ASSUME NEW st \in Outcomes, NEW p \in Producers, NEW given \in -1 .. MaxSeq,
             SignalMissing(m, st, p, given)
      PROVE  \A n \in Names : Counted(entries'[n])
  <2> DEFINE f == FreshEntry(NoLaunch, FALSE)
             x == IF SignalOK(f, p, SignalSequence(f, given)) THEN SignalEntry(f, st, p) ELSE f
  <2>1. SignalEntry(f, st, p) = [f EXCEPT !.status = st, !.producer = p]
    BY DEF SignalEntry, Reclaimed, FreshEntry
  <2>2. ~f.managed /\ ~SignalEntry(f, st, p).managed
    BY <2>1 DEF FreshEntry
  <2>3. ~x.managed
    BY <2>2
  <2>4. entries' = [entries EXCEPT ![m] = x]
    BY <1>7 DEF SignalMissing
  <2> HIDE DEF x
  <2>5. Counted(x)
    BY <2>3, UnmanagedCounted
  <2> QED
    BY <1>2, <2>4, <2>5
<1>8. ASSUME AdvanceSequence(m) PROVE \A n \in Names : Counted(entries'[n])
  <2> DEFINE f == IF m \in Live(entries) THEN entries[m] ELSE FreshEntry(NoLaunch, FALSE)
             x == [f EXCEPT !.seq = @ + 1, !.status = "PENDING", !.bound = FALSE, !.refs = 0]
  <2>1. f \in EventEntry /\ ~f.managed
    BY <1>1, <1>8, FreshEntryType DEF AdvanceSequence, FreshEntry
  <2>2. entries' = [entries EXCEPT ![m] = x]
    BY <1>8 DEF AdvanceSequence
  <2> HIDE DEF f
  <2>3. ~x.managed
    BY <2>1 DEF EventEntry
  <2> HIDE DEF x
  <2>4. Counted(x)
    BY <2>3, UnmanagedCounted
  <2> QED
    BY <1>2, <2>2, <2>4
<1> QED
  BY <1>3, <1>4, <1>5, <1>6, <1>7, <1>8 DEF Access

\* Every step keeps the reference counts, reset() included: it finishes entries
\* without reclaiming them, as RESET.
LEMMA NextCounted ==
    ASSUME TypeOK, ReferenceAccounting, [Next]_vars
    PROVE  ReferenceAccounting'
<1>0. \A n \in Names : Counted(entries[n])
  BY DEF ReferenceAccounting, Counted, Live
<1>1. CASE \E l \in Launches : Managed(l)
  BY <1>0, <1>1, ManagedCounted DEF ReferenceAccounting, Counted, Live
<1>2. CASE \E l \in Identities : Compatibility(l)
  BY <1>0, <1>2, CompatibilityCounted DEF ReferenceAccounting, Counted, Live
<1>3. CASE \E n \in Names : Access(n)
  BY <1>0, <1>3, AccessCounted DEF ReferenceAccounting, Counted, Live
<1>4. CASE Reset
  <2>1. \A n \in Names : Counted(entries'[n])
    <3> TAKE n \in Names
    <3> DEFINE x == [entries[n] EXCEPT !.status = "RESET"]
    <3>1. entries[n] \in EventEntry
      BY DEF TypeOK
    <3>2. entries[n].status = "PENDING" => Counted(x)
      BY <1>0, <3>1 DEF EventEntry, Counted, Terminal
    <3>3. entries'[n] = IF entries[n].status = "PENDING" THEN x ELSE entries[n]
      BY <1>4 DEF Reset, ResetE
    <3> HIDE DEF x
    <3> QED
      BY <1>0, <3>2, <3>3
  <2> QED
    BY <2>1 DEF ReferenceAccounting, Counted, Live
<1>5. CASE Clear
  BY <1>5 DEF Clear, EmptyEntries, NoEntry, FreshEntry, ReferenceAccounting, Live
<1>6. CASE UNCHANGED vars
  BY <1>6 DEF vars, ReferenceAccounting, Live
<1> QED
  BY <1>1, <1>2, <1>3, <1>4, <1>5, <1>6 DEF Next

\* In every behaviour a managed event has at most as many registered consumers
\* as the compiler promised uses, and a finished one that nobody will read has
\* given its slot back (add_consumer, consume_dependencies, _maybe_reclaim).
THEOREM ReferencesAccounted == Spec => []ReferenceAccounting
<1>1. Init => ReferenceAccounting
  BY DEF Init, EmptyEntries, NoEntry, FreshEntry, ReferenceAccounting, Live
<1>2. TypeOK /\ ReferenceAccounting /\ [Next]_vars => ReferenceAccounting'
  BY NextCounted
<1> QED
  BY <1>1, <1>2, TypeCorrect, PTL DEF Spec

-----------------------------------------------------------------------------
(* Freed storage and the version counter.                                  *)

\* A step that keeps every unmanaged entry and the claims frees no storage.
LEMMA NothingFreed ==
    ASSUME TypeOK, TypeOK', Unmanaged(entries) \subseteq Unmanaged(entries'),
           \A l \in Launches : quotas'[l].open = quotas[l].open /\ quotas'[l].limit = quotas[l].limit
    PROVE  ~(Reserved(entries', quotas') < Reserved(entries, quotas))
<1>1. Claims(quotas') = Claims(quotas)
  <2>1. Opened(quotas') = Opened(quotas)
    BY DEF Opened
  <2>2. \A m \in Opened(quotas) : quotas'[m].limit = quotas[m].limit
    BY DEF Opened
  <2> QED
    BY <2>1, <2>2 DEF Claims
<1>2. Cardinality(Unmanaged(entries)) <= Cardinality(Unmanaged(entries'))
  BY SlotsFinite, FS_Subset
<1>3. /\ Cardinality(Claims(quotas)) \in Nat
      /\ Cardinality(Unmanaged(entries)) \in Nat /\ Cardinality(Unmanaged(entries')) \in Nat
  BY ClaimsFinite, SlotsFinite DEF TypeOK
<1> QED
  BY <1>1, <1>2, <1>3 DEF Reserved

\* An entry that is not one of the table's own reclamations: if it is unmanaged
\* and live it stays so.
Stays(x, y) == x.status # "ABSENT" /\ ~x.managed => y.status # "ABSENT" /\ ~y.managed

\* _maybe_reclaim never takes an unmanaged entry.
LEMMA ReclaimedStays ==
    ASSUME NEW x, NEW y, y.managed = x.managed, x.status # "ABSENT" => y.status # "ABSENT"
    PROVE  Stays(x, Reclaimed(y))
BY DEF Stays, Reclaimed

\* Every step without a new version keeps the unmanaged entries, unless
\* cancel_reservation raised half-way.
LEMMA SilentStays ==
    ASSUME TypeOK, Next, ~bumped',
           ~\E l \in Identities, S \in SUBSET Names : CancelReservationPartial(l, S)
    PROVE  /\ \A n \in Names : Stays(entries[n], entries'[n])
           /\ \A l \in Launches : quotas'[l].open = quotas[l].open /\ quotas'[l].limit = quotas[l].limit
<1>1. entries \in [Names -> EventEntry] /\ quotas \in [Launches -> Quota]
  BY DEF TypeOK
<1>2. \A x : Stays(x, x)
  BY DEF Stays
<1>3. CASE \E l \in Launches : Managed(l)
  <2> PICK l \in Launches : Managed(l)
    BY <1>3
  <2>1. ~ReleaseQuota(l) /\ ~CancelQuota(l) /\ ~\E limit \in 0 .. MaxLimit : ReserveQuota(l, limit)
    BY DEF ReleaseQuota, CancelQuota, ReserveQuota
  <2>2. ASSUME NEW S \in SUBSET Names, ReserveOutputs(l, S)
        PROVE  /\ \A n \in Names : Stays(entries[n], entries'[n])
               /\ \A m \in Launches : quotas'[m].open = quotas[m].open /\ quotas'[m].limit = quotas[m].limit
    <3>1. \A n \in Names : n \in S => entries[n].status = "ABSENT"
      BY <2>2 DEF ReserveOutputs, OutputsOK, Live
    <3>2. \A n \in Names : n \notin S => entries'[n] = entries[n]
      BY <2>2 DEF ReserveOutputs, ReserveOutputsE
    <3>3. quotas' = ReserveOutputsQ(quotas, l, S)
      BY <2>2 DEF ReserveOutputs
    <3>4. \A m \in Launches : quotas'[m].open = quotas[m].open /\ quotas'[m].limit = quotas[m].limit
      BY <1>1, <3>3 DEF ReserveOutputsQ, Quota
    <3> QED
      BY <1>2, <3>1, <3>2, <3>4 DEF Stays
  <2>3. ASSUME NEW S \in SUBSET Names, ConsumeDependencies(l, S) \/ CancelDependencies(l, S)
        PROVE  quotas' = quotas /\ \A n \in Names : Stays(entries[n], entries'[n])
    <3>1. quotas' = quotas /\ entries' = DropUsesE(entries, S)
      BY <2>3 DEF ConsumeDependencies, CancelDependencies
    <3>2. ASSUME NEW n \in Names PROVE Stays(entries[n], entries'[n])
      <4> DEFINE y == [entries[n] EXCEPT !.refs = @ - 1, !.uses = @ - 1]
      <4>1. y.status = entries[n].status /\ y.managed = entries[n].managed
        BY <1>1 DEF EventEntry
      <4>2. entries'[n] = IF n \in S THEN Reclaimed(y) ELSE entries[n]
        BY <3>1 DEF DropUsesE, DropUse
      <4> HIDE DEF y
      <4> QED
        BY <1>2, <4>1, <4>2, ReclaimedStays
    <3> QED
      BY <3>1, <3>2
  <2>4. ASSUME AbandonFutureUses(l)
        PROVE  quotas' = quotas /\ \A n \in Names : Stays(entries[n], entries'[n])
    <3>1. quotas' = quotas /\ entries' = AbandonE(entries, l)
      BY <2>4 DEF AbandonFutureUses
    <3>2. ASSUME NEW n \in Names PROVE Stays(entries[n], entries'[n])
      <4>1. n \notin ManagedOf(entries, l) => entries'[n] = entries[n]
        BY <3>1 DEF AbandonE
      <4>2. n \in ManagedOf(entries, l) => entries[n].managed
        BY DEF ManagedOf
      <4> QED
        BY <1>2, <4>1, <4>2 DEF Stays
    <3> QED
      BY <3>1, <3>2
  <2>5. ASSUME NEW S \in SUBSET Names, NEW p \in Producers, CancelOutputs(l, S, p)
        PROVE  quotas' = quotas /\ \A n \in Names : Stays(entries[n], entries'[n])
    <3>1. quotas' = quotas /\ entries' = CancelOutputsE(entries, S)
      BY <2>5 DEF CancelOutputs
    <3>2. ASSUME NEW n \in Names PROVE Stays(entries[n], entries'[n])
      <4>1. n \notin S => entries'[n] = entries[n]
        BY <3>1 DEF CancelOutputsE
      <4>2. n \in S => entries[n].managed
        BY <2>5 DEF CancelOutputs, CancelOutputsOK, ManagedOf
      <4> QED
        BY <1>2, <4>1, <4>2 DEF Stays
    <3> QED
      BY <3>1, <3>2
  <2> QED
    BY <2>1, <2>2, <2>3, <2>4, <2>5 DEF Managed
<1>4. CASE \E l \in Identities : Compatibility(l)
  <2> PICK l \in Identities : Compatibility(l)
    BY <1>4
  <2>1. PICK S \in SUBSET Names : ReserveMany(S, l)
    BY DEF Compatibility, Register, CancelReservation, ReleaseCompatibility
  <2>2. S \ Live(entries) = {} /\ quotas' = quotas
    BY <2>1 DEF ReserveMany
  <2>3. \A n \in Names : entries'[n] = entries[n]
    BY <2>1, <2>2 DEF ReserveMany, AllocateUnmanaged
  <2> QED
    BY <1>2, <2>2, <2>3
<1>5. CASE \E m \in Names : Access(m)
  <2> PICK m \in Names : Access(m)
    BY <1>5
  <2>1. ASSUME NEW x, entries' = [entries EXCEPT ![m] = x], Stays(entries[m], x), quotas' = quotas
        PROVE  /\ \A n \in Names : Stays(entries[n], entries'[n])
               /\ \A l \in Launches : quotas'[l].open = quotas[l].open /\ quotas'[l].limit = quotas[l].limit
    BY <1>1, <1>2, <2>1
  <2>2. ASSUME NEW l \in Identities, NEW p \in Producers, BindProducer(m, l, p)
        PROVE  \E x : entries' = [entries EXCEPT ![m] = x] /\ Stays(entries[m], x) /\ quotas' = quotas
    <3> DEFINE x == [entries[m] EXCEPT !.bound = TRUE, !.producer = p]
    <3>1. Stays(entries[m], x)
      BY <1>1 DEF EventEntry, Stays
    <3>2. entries' = [entries EXCEPT ![m] = x] /\ quotas' = quotas
      BY <1>1, <2>2 DEF BindProducer, BindE
    <3> HIDE DEF x
    <3> QED
      BY <3>1, <3>2
  <2>3. ASSUME NEW l \in Identities, AddConsumer(m, l)
        PROVE  \E x : entries' = [entries EXCEPT ![m] = x] /\ Stays(entries[m], x) /\ quotas' = quotas
    <3> DEFINE x == [entries[m] EXCEPT !.refs = @ + 1]
    <3>1. Stays(entries[m], x)
      BY <1>1 DEF EventEntry, Stays
    <3>2. entries' = [entries EXCEPT ![m] = x] /\ quotas' = quotas
      BY <1>1, <2>3 DEF AddConsumer, AddConsumersE
    <3> HIDE DEF x
    <3> QED
      BY <3>1, <3>2
  <2>4. ASSUME NEW l \in Identities, NEW s \in 0 .. MaxSeq, Wait(m, l, s)
        PROVE  \E x : entries' = [entries EXCEPT ![m] = x] /\ Stays(entries[m], x) /\ quotas' = quotas
    <3> DEFINE x == [entries[m] EXCEPT !.expected = s]
    <3>1. Stays(entries[m], x)
      BY <1>1 DEF EventEntry, Stays
    <3>2. entries' = [entries EXCEPT ![m] = x] /\ quotas' = quotas
      BY <1>1, <2>4 DEF Wait
    <3> HIDE DEF x
    <3> QED
      BY <3>1, <3>2
  <2>5. ASSUME NEW l \in Identities, NEW anonymous \in BOOLEAN, NEW st \in Outcomes,
               NEW p \in Producers, NEW given \in -1 .. MaxSeq,
               Signal(m, l, anonymous, st, p, given)
        PROVE  \E x : entries' = [entries EXCEPT ![m] = x] /\ Stays(entries[m], x) /\ quotas' = quotas
    <3> DEFINE y == [entries[m] EXCEPT !.status = st, !.producer = p]
    <3>1. y.managed = entries[m].managed /\ y.status # "ABSENT"
      BY <1>1, BoundsAssumption DEF EventEntry, Terminal
    <3>2. entries' = [entries EXCEPT ![m] = Reclaimed(y)] /\ quotas' = quotas
      BY <1>1, <2>5 DEF Signal, SignalEntry
    <3> HIDE DEF y
    <3>3. Stays(entries[m], Reclaimed(y))
      BY <3>1, ReclaimedStays
    <3> QED
      BY <3>2, <3>3
  <2>6. ~\E st \in Outcomes, p \in Producers, given \in -1 .. MaxSeq : SignalMissing(m, st, p, given)
    BY DEF SignalMissing
  <2>7. ASSUME AdvanceSequence(m)
        PROVE  \E x : entries' = [entries EXCEPT ![m] = x] /\ Stays(entries[m], x) /\ quotas' = quotas
    <3> DEFINE x == [entries[m] EXCEPT !.seq = @ + 1, !.status = "PENDING", !.bound = FALSE, !.refs = 0]
    <3>1. m \in Live(entries) /\ quotas' = quotas
      BY <2>7 DEF AdvanceSequence
    <3>2. entries' = [entries EXCEPT ![m] = x]
      BY <2>7, <3>1 DEF AdvanceSequence
    <3>3. Stays(entries[m], x)
      BY <1>1 DEF EventEntry, Stays
    <3> HIDE DEF x
    <3> QED
      BY <3>1, <3>2, <3>3
  <2>8. \E x : entries' = [entries EXCEPT ![m] = x] /\ Stays(entries[m], x) /\ quotas' = quotas
    BY <2>2, <2>3, <2>4, <2>5, <2>6, <2>7 DEF Access
  <2> QED
    BY <2>1, <2>8
<1>6. CASE Reset
  <2>1. quotas' = quotas /\ entries' = ResetE(entries)
    BY <1>6 DEF Reset
  <2>2. ASSUME NEW n \in Names PROVE Stays(entries[n], entries'[n])
    <3> DEFINE x == [entries[n] EXCEPT !.status = "RESET"]
    <3>1. x.status = "RESET" /\ x.managed = entries[n].managed
      BY <1>1 DEF EventEntry
    <3>2. entries'[n] = IF entries[n].status = "PENDING" THEN x ELSE entries[n]
      BY <2>1 DEF ResetE
    <3> HIDE DEF x
    <3> QED
      BY <1>2, <3>1, <3>2 DEF Stays
  <2> QED
    BY <2>1, <2>2
<1>7. CASE Clear
  BY <1>7 DEF Clear
<1> QED
  BY <1>3, <1>4, <1>5, <1>6, <1>7 DEF Next

\* Half-way through cancel_reservation exactly the entries that left are dropped.
LEMMA PartialDrops ==
    ASSUME NEW l \in Identities, NEW S \in SUBSET Names, CancelReservationPartial(l, S)
    PROVE  CancelReservationPartial(l, Live(entries) \ Live(entries'))
<1>1. S \subseteq Live(entries) /\ entries' = DropEntries(entries, S)
  BY DEF CancelReservationPartial, Cancellable, OwnedBy
<1>2. Live(entries) \ Live(entries') = S
  BY <1>1 DEF DropEntries, Live, NoEntry, FreshEntry
<1> QED
  BY <1>2

\* In every behaviour a step that frees claimed storage changes the version that
\* wakes waiting Contexts, unless cancel_reservation raised half-way.
THEOREM FreedStorageIsAnnounced == Spec => FreedStorageWakes
<1>1. TypeOK /\ TypeOK' /\ [Next]_vars =>
        [Reserved(entries', quotas') < Reserved(entries, quotas) =>
          \/ bumped'
          \/ \E l \in Identities : CancelReservationPartial(l, Live(entries) \ Live(entries'))]_vars
  <2> SUFFICES ASSUME TypeOK, TypeOK', Next, ~bumped',
                      Reserved(entries', quotas') < Reserved(entries, quotas)
               PROVE  \E l \in Identities : CancelReservationPartial(l, Live(entries) \ Live(entries'))
    BY DEF vars
  <2>1. CASE \E l \in Identities, S \in SUBSET Names : CancelReservationPartial(l, S)
    BY <2>1, PartialDrops
  <2>2. CASE ~\E l \in Identities, S \in SUBSET Names : CancelReservationPartial(l, S)
    <3>1. /\ \A n \in Names : Stays(entries[n], entries'[n])
          /\ \A l \in Launches : quotas'[l].open = quotas[l].open /\ quotas'[l].limit = quotas[l].limit
      BY <2>2, SilentStays
    <3>2. Unmanaged(entries) \subseteq Unmanaged(entries')
      BY <3>1 DEF Unmanaged, Live, Stays
    <3> QED
      BY <3>1, <3>2, NothingFreed
  <2> QED
    BY <2>1, <2>2
<1> QED
  BY <1>1, TypeCorrect, PTL DEF Spec, FreedStorageWakes
=============================================================================
