----------------------------- MODULE EventTable -----------------------------
(***************************************************************************)
(* The event table of one Tile Group as its callers see it: one action per *)
(* method of runtime/event_table.py, in any order and with any arguments.  *)
(* A call that raises EventProtocolError or returns False changes nothing, *)
(* and is therefore no step, except where the code has already changed the *)
(* table by then (CancelReservationPartial, a rejected signal that         *)
(* registered its event).  bumped says whether the last call changed       *)
(* EventTable.version, the counter by which a Context waiting for event    *)
(* storage is woken (tile_group._retry_admission).                         *)
(***************************************************************************)
EXTENDS EventTableOps

CONSTANTS
    Producers,   \* producer ids (action ordinals) used by the callers
    Outcomes,    \* statuses the callers signal
    MaxSeq,      \* bound on EventEntry.sequence
    MaxRefs,     \* bound on consumer_refs of compatibility entries
    MaxLimit     \* bound on the quota a launch asks for

ASSUME BoundsAssumption ==
    /\ Producers \subseteq Nat
    /\ Outcomes \subseteq Terminal
    /\ MaxSeq \in Nat /\ MaxRefs \in Nat /\ MaxLimit \in Nat

VARIABLES entries, quotas, bumped
vars == <<entries, quotas, bumped>>

Identities == Launches \cup {NoLaunch}

Init ==
    /\ entries = EmptyEntries
    /\ quotas = EmptyQuotas
    /\ bumped = FALSE

\* register(): a known name is returned unchanged, a new one takes a slot.
Register(n, l) ==
    /\ n \notin Live(entries)
    /\ Reserved(entries, quotas) < Capacity
    /\ entries' = AllocateUnmanaged(entries, {n}, l)
    /\ bumped' = TRUE
    /\ UNCHANGED quotas

ReserveMany(S, l) ==
    LET missing == S \ Live(entries) IN
    /\ l \in Launches => ~quotas[l].open
    /\ \A n \in S \cap Live(entries) : entries[n].launch = l
    /\ Reserved(entries, quotas) + Cardinality(missing) <= Capacity
    /\ entries' = AllocateUnmanaged(entries, missing, l)
    /\ bumped' = (missing # {})
    /\ UNCHANGED quotas

ReserveQuota(l, limit) ==
    /\ CanReserveQuota(entries, quotas, l, limit)
    /\ quotas' = OpenQuota(quotas, l, limit)
    /\ bumped' = TRUE
    /\ UNCHANGED entries

CancelQuota(l) ==
    /\ CanCancelQuota(entries, quotas, l)
    /\ quotas' = CloseQuota(quotas, l)
    /\ bumped' = TRUE
    /\ UNCHANGED entries

\* The compatibility entries of an identity that cancel_reservation may drop.
Cancellable(l) ==
    {n \in OwnedBy(entries, l) : ~entries[n].bound /\ entries[n].status = "PENDING"}

CancelReservation(l) ==
    /\ l \in Launches => ~quotas[l].open
    /\ OwnedBy(entries, l) # {}
    /\ OwnedBy(entries, l) = Cancellable(l)
    /\ entries' = DropEntries(entries, OwnedBy(entries, l))
    /\ bumped' = TRUE
    /\ UNCHANGED quotas

\* The loop raises at the first active entry, after it dropped the entries
\* that come before it in the dictionary: S, in an order the model leaves open.
CancelReservationPartial(l, S) ==
    /\ l \in Launches => ~quotas[l].open
    /\ OwnedBy(entries, l) # Cancellable(l)
    /\ S \subseteq Cancellable(l)
    /\ S # {}
    /\ entries' = DropEntries(entries, S)
    /\ bumped' = FALSE
    /\ UNCHANGED quotas

ReserveOutputs(l, S) ==
    /\ S # {}
    /\ OutputsOK(entries, quotas, l, S)
    /\ entries' = ReserveOutputsE(entries, l, S)
    /\ quotas' = ReserveOutputsQ(quotas, l, S)
    /\ bumped' = FALSE

BindProducer(n, l, p) ==
    /\ BindOK(entries, l, n, p)
    /\ entries' = BindE(entries, {n}, p)
    /\ bumped' = FALSE
    /\ UNCHANGED quotas

AddConsumer(n, l) ==
    /\ ConsumerOK(entries, l, n)
    /\ ~entries[n].managed => entries[n].refs < MaxRefs
    /\ entries' = AddConsumersE(entries, {n})
    /\ bumped' = FALSE
    /\ UNCHANGED quotas

ConsumeDependencies(l, S) ==
    /\ S # {}
    /\ ConsumeOK(entries, quotas, l, S)
    /\ entries' = DropUsesE(entries, S)
    /\ bumped' = FALSE
    /\ UNCHANGED quotas

CancelDependencies(l, S) ==
    /\ S # {}
    /\ CancelDepsOK(entries, quotas, l, S)
    /\ entries' = DropUsesE(entries, S)
    /\ bumped' = FALSE
    /\ UNCHANGED quotas

AbandonFutureUses(l) ==
    /\ AbandonOK(entries, quotas, l)
    /\ entries' = AbandonE(entries, l)
    /\ bumped' = FALSE
    /\ UNCHANGED quotas

CancelOutputs(l, S, p) ==
    /\ S # {}
    /\ CancelOutputsOK(entries, l, S, p)
    /\ entries' = CancelOutputsE(entries, S)
    /\ bumped' = FALSE
    /\ UNCHANGED quotas

\* The sequence signal() compares: the caller's, or the one a wait() recorded.
SignalSequence(x, given) ==
    IF given # -1 THEN given ELSE IF x.expected # 0 THEN x.expected ELSE x.seq

\* signal() of a live event.  l = NoLaunch stands for both a caller without
\* expected identity (anonymous) and one that names ("", 0).
Signal(n, l, anonymous, st, p, given) ==
    /\ n \in Live(entries)
    /\ anonymous \/ entries[n].launch = l
    /\ SignalOK(entries[n], p, SignalSequence(entries[n], given))
    /\ entries' = [entries EXCEPT ![n] = SignalEntry(@, st, p)]
    /\ bumped' = FALSE
    /\ UNCHANGED quotas

\* Without an expected identity a missing event is registered first, even when
\* the caller's sequence then rejects the signal.
SignalMissing(n, st, p, given) ==
    /\ n \notin Live(entries)
    /\ Reserved(entries, quotas) < Capacity
    /\ LET x == FreshEntry(NoLaunch, FALSE) IN
       entries' = [entries EXCEPT ![n] =
                      IF SignalOK(x, p, SignalSequence(x, given))
                      THEN SignalEntry(x, st, p) ELSE x]
    /\ bumped' = TRUE
    /\ UNCHANGED quotas

\* wait() records the sequence its caller expects.
Wait(n, l, s) ==
    /\ n \in OwnedBy(entries, l)
    /\ entries' = [entries EXCEPT ![n].expected = s]
    /\ bumped' = FALSE
    /\ UNCHANGED quotas

AdvanceSequence(n) ==
    /\ n \notin Live(entries) => Reserved(entries, quotas) < Capacity
    /\ ~entries[n].managed
    /\ entries[n].seq < MaxSeq
    /\ LET x == IF n \in Live(entries) THEN entries[n] ELSE FreshEntry(NoLaunch, FALSE) IN
       entries' = [entries EXCEPT ![n] = [x EXCEPT !.seq = @ + 1, !.status = "PENDING",
                                                   !.bound = FALSE, !.refs = 0]]
    /\ bumped' = (n \notin Live(entries))
    /\ UNCHANGED quotas

ReleaseQuota(l) ==
    /\ quotas[l].open
    /\ ReleaseOK(entries, l)
    /\ entries' = DropEntries(entries, OwnedBy(entries, l))
    /\ quotas' = CloseQuota(quotas, l)
    /\ bumped' = TRUE

ReleaseCompatibilitySilently(l) ==   \* mutant: version not bumped
    /\ l \in Launches => ~quotas[l].open
    /\ OwnedBy(entries, l) # {}
    /\ entries' = DropEntries(entries, OwnedBy(entries, l))
    /\ bumped' = FALSE
    /\ UNCHANGED quotas

\* release_owner() of an identity without a quota drops its entries as they are.
ReleaseCompatibility(l) ==
    /\ l \in Launches => ~quotas[l].open
    /\ OwnedBy(entries, l) # {}
    /\ entries' = DropEntries(entries, OwnedBy(entries, l))
    /\ bumped' = TRUE
    /\ UNCHANGED quotas

Reset ==
    /\ entries' = ResetE(entries)
    /\ bumped' = FALSE
    /\ UNCHANGED quotas

Clear ==
    /\ entries' = EmptyEntries
    /\ quotas' = EmptyQuotas
    /\ bumped' = TRUE

Managed(l) ==
    \/ \E limit \in 0 .. MaxLimit : ReserveQuota(l, limit)
    \/ CancelQuota(l)
    \/ \E S \in SUBSET Names :
          \/ ReserveOutputs(l, S)
          \/ ConsumeDependencies(l, S)
          \/ CancelDependencies(l, S)
          \/ \E p \in Producers : CancelOutputs(l, S, p)
    \/ AbandonFutureUses(l)
    \/ ReleaseQuota(l)

Compatibility(l) ==
    \/ \E n \in Names : Register(n, l)
    \/ \E S \in SUBSET Names : ReserveMany(S, l) \/ CancelReservationPartial(l, S)
    \/ CancelReservation(l)
    \/ ReleaseCompatibility(l)

Access(n) ==
    \/ \E l \in Identities, p \in Producers : BindProducer(n, l, p)
    \/ \E l \in Identities : AddConsumer(n, l)
    \/ \E l \in Identities, s \in 0 .. MaxSeq : Wait(n, l, s)
    \/ \E l \in Identities, anonymous \in BOOLEAN, st \in Outcomes,
          p \in Producers, given \in -1 .. MaxSeq : Signal(n, l, anonymous, st, p, given)
    \/ \E st \in Outcomes, p \in Producers, given \in -1 .. MaxSeq :
          SignalMissing(n, st, p, given)
    \/ AdvanceSequence(n)

Next ==
    \/ \E l \in Launches : Managed(l)
    \/ \E l \in Identities : Compatibility(l)
    \/ \E n \in Names : Access(n)
    \/ Reset
    \/ Clear

Spec == Init /\ [][Next]_vars

-----------------------------------------------------------------------------
\* Every entry and quota has the shape of EventEntry and _EventQuota.
TypeOK ==
    /\ entries \in [Names -> EventEntry]
    /\ quotas \in [Launches -> Quota]
    /\ bumped \in BOOLEAN

\* Quotas and compatibility entries together never claim more slots than the
\* table has.
ReservedBound == Reserved(entries, quotas) <= Capacity

\* A launch never has more live managed events than the frontier it reserved.
FrontierBound ==
    \A l \in Launches : Cardinality(ManagedOf(entries, l)) <= quotas[l].limit

\* A managed entry belongs to a launch whose quota is open and that recorded
\* it as produced.
ManagedAccounted ==
    \A n \in Live(entries) :
        entries[n].managed => /\ entries[n].launch \in Opened(quotas)
                              /\ n \in quotas[entries[n].launch].produced

\* The accounting by which the table stays within its capacity although it
\* never counts managed entries: no sequence of reservations overcommits the
\* slots, no launch outgrows its frontier, and no entry outlives its quota.
QuotaAccounting == ReservedBound /\ FrontierBound /\ ManagedAccounted

\* The slots really in use never exceed the capacity, although _allocate
\* checks the capacity only for unmanaged entries.
NoOvercommit == Cardinality(Live(entries)) <= Capacity

\* A managed event never has more registered consumers than the references
\* the compiler promised, and a finished one that nobody will read gives its
\* slot back at once; only reset() may leave one behind, marked RESET, for
\* release_owner (add_consumer, _maybe_reclaim).
ReferenceAccounting ==
    \A n \in Live(entries) : entries[n].managed =>
        /\ entries[n].refs <= entries[n].uses
        /\ entries[n].status \in Terminal \ {"RESET"} => entries[n].uses > 0

\* A terminal status is final: only the reclamation of the slot, or the next
\* sequence of a compatibility event, replaces it (EventStatus, signal).
TerminalIsFinal ==
    [][\A n \in Names :
          entries[n].status \in Terminal =>
             \/ entries'[n].status \in {entries[n].status, "ABSENT"}
             \/ ~entries[n].managed /\ entries'[n].seq > entries[n].seq]_vars

\* An event a launch has produced never gets a second managed slot in that
\* launch, so a late reference cannot meet a different instance of it.
NoResurrection ==
    [][\A l \in Launches : \A n \in quotas[l].produced :
          n \in ManagedOf(entries', l) => n \in ManagedOf(entries, l)]_vars

\* A step that frees claimed storage changes the version that wakes waiting
\* Contexts, unless cancel_reservation raised half-way through its loop.
FreedStorageWakes ==
    [][Reserved(entries', quotas') < Reserved(entries, quotas) =>
          \/ bumped'
          \/ \E l \in Identities : CancelReservationPartial(l, Live(entries) \ Live(entries'))]_vars

\* The storage of the table is accounted for at all times: its types, the
\* quotas and the slots in use (reserve, _allocate, _maybe_reclaim).
StorageAccounted == TypeOK /\ QuotaAccounting /\ NoOvercommit

\* What has happened to an event is never undone: neither its outcome, nor that
\* its launch has produced and used it up (signal, register_output).
EventsFinal == TerminalIsFinal /\ NoResurrection
=============================================================================
