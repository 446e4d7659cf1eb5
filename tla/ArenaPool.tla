------------------------------ MODULE ArenaPool ------------------------------
(***************************************************************************)
(* ArenaPool: one Group's L2 pool.  A root invocation (an owner) reserves  *)
(* an arena; every local buffer of it is a backing with its own exact      *)
(* extents, and outlives the arena while a declared or bound claim of      *)
(* another root still names it.  A key <<owner, slot>> names a buffer: a   *)
(* local one is a backing and the producer's view of it, an imported one   *)
(* is a claim and the borrower's view.  The pool is one record, and each   *)
(* operator below is one method: the pool after it, or the test that the   *)
(* method makes before it raises.  Sizes and offsets are per bank.         *)
(*                                                                         *)
(* BankedFreeExtentAllocator: the free extents of each SRAM bank.  A free  *)
(* map gives every bank its set of extents [start, size], in bank-local    *)
(* addresses; a segment [bank, start, size] is one exact reservation.      *)
(***************************************************************************)
EXTENDS Integers, FiniteSets, FiniteSetsExt, Sequences

-----------------------------------------------------------------------------
(* The free extents.                                                        *)

CONSTANTS BankCount, BankBytes

ASSUME BanksAssumption == BankCount \in Nat \ {0} /\ BankBytes \in Nat \ {0}

Banks == 0 .. BankCount - 1

Extent(start, size) == [start |-> start, size |-> size]
Segment(bank, start, size) == [bank |-> bank, start |-> start, size |-> size]

CellsOf(extents) == UNION {e.start .. e.start + e.size - 1 : e \in extents}
SegmentCells(segs) == UNION {{s.bank} \X (s.start .. s.start + s.size - 1) : s \in segs}
SizeOf(pieces) == MapThenSumSet(LAMBDA e : e.size, pieces)

\* reconfigure_free_intervals: every bank is one extent, or none.
FreeIntervals(start, end) ==
    [b \in Banks |-> IF end > start THEN {Extent(start, end - start)} ELSE {}]

RangeAvailable(extents, start, size) ==
    \E e \in extents : start >= e.start /\ start + size <= e.start + e.size

RangeOverlaps(extents, start, size) ==
    \E e \in extents : start < e.start + e.size /\ e.start < start + size

\* _consume cuts [start, start + size) out of the extents it meets.
Consume(extents, start, size) ==
    LET cut(e) ==
            IF start + size <= e.start \/ start >= e.start + e.size THEN {e}
            ELSE {p \in {Extent(e.start, start - e.start),
                         Extent(start + size, e.start + e.size - start - size)} : p.size > 0}
    IN UNION {cut(e) : e \in extents}

\* _coalesce_extents: neighbours become one extent, so what is left are the
\* maximal runs of free addresses.
Coalesce(extents) ==
    LET cells == CellsOf(extents)
        last(a) == CHOOSE z \in cells :
                       /\ a .. z \subseteq cells
                       /\ z + 1 \notin cells
                       /\ z >= a
    IN {Extent(a, last(a) - a + 1) : a \in {x \in cells : x - 1 \notin cells}}

\* _validate_exact_bundle and _segment_local_start
ValidBundle(segs) ==
    /\ segs # {}
    /\ \A s \in segs : s.bank \in Banks /\ s.size > 0 /\ s.start >= 0 /\ s.start + s.size <= BankBytes
    /\ \A s, t \in segs : s # t /\ s.bank = t.bank =>
           s.start + s.size <= t.start \/ t.start + t.size <= s.start

On(segs, b) == {s \in segs : s.bank = b}

\* commit_exact
CanCommit(free, segs) ==
    /\ ValidBundle(segs)
    /\ \A s \in segs : RangeAvailable(free[s.bank], s.start, s.size)

CommitExact(free, segs) ==
    [b \in Banks |-> FoldSet(LAMBDA s, acc : Consume(acc, s.start, s.size), free[b], On(segs, b))]

\* release_exact
CanRelease(free, exact, segs) ==
    /\ ValidBundle(segs)
    /\ segs \subseteq exact
    /\ \A s \in segs : ~RangeOverlaps(free[s.bank], s.start, s.size)

ReleaseExact(free, segs) ==
    [b \in Banks |->
        IF On(segs, b) = {} THEN free[b]
        ELSE Coalesce(free[b] \cup {Extent(s.start, s.size) : s \in On(segs, b)})]

\* _first_fit: the lowest extent that holds the request once its start is
\* aligned in absolute addresses; -1 when none does.
AlignedStart(bank, start, align) ==
    LET base == bank * BankBytes
    IN ((base + start + align - 1) \div align) * align - base

FirstFit(extents, bank, size, align) ==
    LET fits == {e \in extents : AlignedStart(bank, e.start, align) + size <= e.start + e.size}
    IN IF fits = {} THEN -1
       ELSE AlignedStart(bank, Min({e.start : e \in fits}), align)

-----------------------------------------------------------------------------
(* The pool.                                                                *)

CONSTANTS
    Owners,         \* RootInvocation, one per submit callsite of a run
    Layout,         \* per owner, its ArenaLayout: [bytes, bufs]; bufs: slot -> [off, bytes]
    Source,         \* per imported key, the local key it aliases
    Stripe, Align,  \* the stripe and alignment of the layouts
    SpmStart, SpmEnd  \* the user SPM interval of the active profile

ASSUME ProfileAssumption ==
    /\ SpmStart \in Nat /\ SpmEnd \in SpmStart .. BankBytes
    /\ Align \in Nat \ {0} /\ Stripe \in Nat \ {0} /\ Stripe % Align = 0

\* _buffer_owner: a buffer is named by the root that owns it and its slot.
LocalKeys == UNION {{<<o, s>> : s \in DOMAIN Layout[o].bufs} : o \in Owners}
Imports == DOMAIN Source
Keys == LocalKeys \cup Imports
\* The backing a view resolves to (l2_backing_id), the claims declared on it
\* (backing_claims), and the views that share its ledgers of pins and transfers.
BackingOf(v) == IF v \in Imports THEN Source[v] ELSE v
LocalOf(o) == {k \in LocalKeys : k[1] = o}
KeysOf(o) == {k \in Keys : k[1] = o}
ClaimsOn(k) == {c \in Imports : Source[c] = k}
Aliases(k) == {k} \cup ClaimsOn(k)

\* The bytes of a buffer, padded to whole stripe rounds, as its span per bank.
Span(k) ==
    LET round == Stripe * BankCount
    IN ((Layout[k[1]].bufs[k[2]].bytes + round - 1) \div round) * Stripe
Offset(k) == Layout[k[1]].bufs[k[2]].off
Padded(k) == Span(k) * BankCount
Logical(k) == Layout[k[1]].bufs[k[2]].bytes

\* The value of Op at p; p is evaluated once, however often Op mentions it.
Through(Op(_), p) == CHOOSE r \in {Op(q) : q \in {p}} : TRUE

NoArena == [state |-> "none", reserve |-> {}, slack |-> {}]
NoBacking == [state |-> "none", units |-> {}, live |-> FALSE, bound |-> FALSE,
              published |-> FALSE, retired |-> FALSE]
NoView == [state |-> "none", pins |-> {}, inflight |-> {}]

EmptyPool == [
    free |-> FreeIntervals(SpmStart, SpmEnd),
    exact |-> {},
    reserved |-> 0,
    moved |-> FALSE,     \* pool_version is not the one the port saw last
    arenas |-> [o \in Owners |-> NoArena],
    backings |-> [k \in LocalKeys |-> NoBacking],
    views |-> [k \in Keys |-> NoView],
    claims |-> [c \in Imports |-> "none"],
    freed |-> {}]        \* _backing_release_events not drained yet

Open(claim) == claim \in {"DECLARED", "BOUND"}

-----------------------------------------------------------------------------
(* Admission: plan_arena, commit_arena.                                     *)

\* _layout_error: what a compiled layout must satisfy, its buffers inside
\* the reserve at whole stripes.
LayoutOK(o) ==
    /\ Layout[o].bytes % Stripe = 0
    /\ \A k \in LocalOf(o) :
           /\ Logical(k) > 0
           /\ Offset(k) % Stripe = 0
           /\ Offset(k) + Span(k) <= Layout[o].bytes

Placement(free, o) == [b \in Banks |-> FirstFit(free[b], b, Layout[o].bytes, Align)]

\* _plan_reserve: the first bank that has no place decides what the failure is.
PlanOutcome(p, o) ==
    LET size == Layout[o].bytes
        none == {b \in Banks : Placement(p.free, o)[b] = -1}
        first == Min(none)
    IN IF size = 0 \/ none = {} THEN "fits"
       ELSE IF Placement(FreeIntervals(SpmStart, SpmEnd), o)[first] = -1 THEN "PERMANENT_CAPACITY"
       ELSE IF SizeOf(p.free[first]) < size THEN "WAIT_CAPACITY"
       ELSE "WAIT_FRAGMENTATION"

PlanReserve(p, o) ==
    IF Layout[o].bytes = 0 THEN {}
    ELSE {Segment(b, Placement(p.free, o)[b], Layout[o].bytes) : b \in Banks}

\* _buffer_units
BufferUnits(reserve, k) == {Segment(r.bank, r.start + Offset(k), Span(k)) : r \in reserve}

\* The parts of the reserve no buffer uses.
SlackUnits(reserve, units) ==
    LET gaps(r) == FoldSet(LAMBDA u, acc : Consume(acc, u.start, u.size),
                           {Extent(r.start, r.size)}, On(units, r.bank))
    IN UNION {{Segment(r.bank, e.start, e.size) : e \in gaps(r)} : r \in reserve}

\* _assert_units_tile_reserve
UnitsTileReserve(units, reserve) ==
    /\ SegmentCells(units) = SegmentCells(reserve)
    /\ SizeOf(units) = SizeOf(reserve)

UnitsOf(reserve, o) == UNION {BufferUnits(reserve, k) : k \in LocalOf(o)}

CanCommitArena(p, o) ==
    LET reserve == PlanReserve(p, o)
        units == UnitsOf(reserve, o)
    IN /\ p.arenas[o].state \in {"none", "retired"}
       /\ LayoutOK(o)
       /\ \A k \in LocalOf(o) : \A c \in ClaimsOn(k) : p.claims[c] = "none"
       /\ reserve # {} =>
              /\ UnitsTileReserve(units \cup SlackUnits(reserve, units), reserve)
              /\ CanCommit(p.free, units \cup SlackUnits(reserve, units))

\* commit_arena: the arena, a backing per local buffer, and the claims of its
\* exports; every view of the owner is still to be bound.
CommitArena(p, o) ==
    LET reserve == PlanReserve(p, o)
        units == UnitsOf(reserve, o)
        slack == SlackUnits(reserve, units)
        all == units \cup slack
        new(k) == [NoBacking EXCEPT !.state = "live", !.units = BufferUnits(reserve, k), !.live = TRUE]
    IN [p EXCEPT
          !.free = IF all = {} THEN @ ELSE CommitExact(@, all),
          !.exact = @ \cup all,
          !.reserved = @ + SizeOf(reserve),
          !.moved = @ \/ all # {},
          !.arenas[o] = [state |-> "live", reserve |-> reserve, slack |-> slack],
          !.backings = [k \in LocalKeys |-> IF k[1] = o THEN new(k) ELSE @[k]],
          !.views = [k \in Keys |-> IF k[1] = o THEN NoView ELSE @[k]],
          !.claims = [c \in Imports |-> IF Source[c][1] = o THEN "DECLARED" ELSE @[c]]]

-----------------------------------------------------------------------------
(* Views: bind_view, borrow_l2_view, publish_l2, permissions.               *)

\* assert_live
LiveView(p, v) == p.views[v].state \in {"live", "pending"}

\* _buffer_valid_segments and BufferLayout.segments: chunk i of a buffer lies
\* in bank i % BankCount, so its valid bytes in a bank are a prefix of its unit.
ValidBytes(k, b) ==
    LET chunks == 0 .. (Logical(k) - 1) \div Stripe
        size(i) == Min({Stripe, Logical(k) - i * Stripe})
    IN MapThenSumSet(size, {i \in chunks : i % BankCount = b})

ValidCells(p, k) ==
    UNION {{u.bank} \X (u.start .. u.start + ValidBytes(k, u.bank) - 1) : u \in p.backings[k].units}

\* _assert_no_live_view_overlap: only aliases of one published backing overlap.
NoLiveOverlap(p, k) ==
    \A v \in Keys : LiveView(p, v) /\ ~(BackingOf(v) = k /\ p.backings[k].published) =>
        ValidCells(p, BackingOf(v)) \cap ValidCells(p, k) = {}

CanBind(p, k) ==
    /\ k \in LocalKeys
    /\ p.arenas[k[1]].state = "live"
    /\ p.views[k].state = "none"
    /\ p.backings[k].state = "live" /\ ~p.backings[k].bound
    /\ NoLiveOverlap(p, k)

BindView(p, k) ==
    [p EXCEPT !.views[k] = [NoView EXCEPT !.state = "live"], !.backings[k].bound = TRUE]

\* check_borrow_l2_view
CanBorrow(p, c) ==
    LET k == Source[c]
        mine == p.arenas[c[1]]
    IN /\ p.backings[k].state = "live"
       /\ p.backings[k].published
       /\ p.claims[c] = "DECLARED"
       /\ c[1] # k[1]
       /\ mine.state \in {"none", "live", "retired"}
       /\ mine.state = "live" => p.views[c].state = "none" /\ c \notin LocalKeys
       /\ NoLiveOverlap(p, k)

\* borrow_l2_view: an alias, with no capacity of its own.
BorrowView(p, c) ==
    [p EXCEPT !.views[c] = [NoView EXCEPT !.state = "live"], !.claims[c] = "BOUND"]

\* resolve_segments: the bytes of a view that is not invalidated.
CanResolve(p, v) == LiveView(p, v)

\* permissions and assert_access
MayAccess(p, v, permission) ==
    /\ CanResolve(p, v)
    /\ p.backings[BackingOf(v)].state = "live"
    /\ permission = "w" => v \in LocalKeys /\ ~p.backings[v].published

\* check_publish_l2: the only references left are the pins of finished writers.
CanPublish(p, k, writers) ==
    /\ p.backings[k].state = "live" /\ p.backings[k].bound
    /\ p.backings[k].live /\ p.views[k].state = "live"
    /\ ~p.backings[k].published
    /\ p.views[k].pins = writers
    /\ \A v \in Aliases(k) : v # k => p.views[v].state = "none" /\ p.views[v].pins = {}
    /\ \A v \in Aliases(k) : p.views[v].inflight = {}
    /\ \A c \in ClaimsOn(k) : p.claims[c] = "DECLARED"

PublishView(p, k) == [p EXCEPT !.backings[k].published = TRUE]

-----------------------------------------------------------------------------
(* Release: every reference, claim and alias keeps the extents.             *)

\* Mutant: a claim that is declared or bound does not keep the backing.
HeldIgnoringClaims(p, k) ==
    \/ p.backings[k].state # "live" \/ p.backings[k].live
    \/ \E v \in Aliases(k) : p.views[v].pins # {} \/ p.views[v].inflight # {}

\* _try_release_l2_backing
Held(p, k) ==
    \/ p.backings[k].state # "live" \/ p.backings[k].live
    \/ \E v \in Aliases(k) : p.views[v].pins # {} \/ p.views[v].inflight # {}
    \/ \E c \in ClaimsOn(k) : Open(p.claims[c])
    \/ \E v \in Aliases(k) : LiveView(p, v)

\* Mutant: pool_version does not move with the freed extents.
FreeBackingUnannounced(p, k) ==
    [p EXCEPT !.free = ReleaseExact(@, p.backings[k].units),
              !.exact = @ \ p.backings[k].units,
              !.reserved = @ - Padded(k),
              !.backings[k].state = "released",
              !.freed = @ \cup {k}]

FreeBacking(p, k) ==
    [p EXCEPT !.free = ReleaseExact(@, p.backings[k].units),
              !.exact = @ \ p.backings[k].units,
              !.reserved = @ - Padded(k),
              !.moved = TRUE,
              !.backings[k].state = "released",
              !.freed = @ \cup {k}]

TryRelease(pool0, k) == Through(LAMBDA p : IF Held(p, k) THEN p ELSE FreeBacking(p, k), pool0)

\* _finalize_view: the producer gives up its ownership, a borrower its claim.
FinalizeView(p, v, claimState) ==
    IF v \in LocalKeys
    THEN [p EXCEPT !.views[v].state = "invalidated", !.backings[v].live = FALSE]
    ELSE [p EXCEPT !.views[v].state = "invalidated", !.claims[v] = claimState]

\* _check_finalize_view
CanFinalize(p, v) ==
    /\ p.views[v].pins = {} /\ p.views[v].inflight = {}
    /\ IF v \in LocalKeys THEN p.backings[v].live ELSE p.claims[v] = "BOUND"

Unreferenced(p, v) == p.views[v].pins = {} /\ p.views[v].inflight = {}

\* invalidate_view: a referenced view is only marked.
InvalidateView(p, v) ==
    IF Unreferenced(p, v)
    THEN TryRelease(FinalizeView(p, v, "RELEASED"), BackingOf(v))
    ELSE [p EXCEPT !.views[v].state = "pending"]

\* cancel_l2_view, of a view that is isolated already.
CancelView(pool0, v) ==
    LET cancelled(p) == IF LiveView(p, v) /\ Unreferenced(p, v)
                        THEN TryRelease(FinalizeView(p, v, "CANCELLED"), BackingOf(v))
                        ELSE p
    IN Through(cancelled, pool0)

CanReference(p, v) == p.views[v].state = "live" /\ p.backings[BackingOf(v)].state = "live"

PinView(p, v, id) == [p EXCEPT !.views[v].pins = @ \cup {id}]
BeginInflight(p, v, id) == [p EXCEPT !.views[v].inflight = @ \cup {id}]

\* The last reference of a view marked for invalidation completes it.
Settle(pool0, v) ==
    LET settled(p) == IF p.views[v].state = "pending" /\ Unreferenced(p, v)
                      THEN TryRelease(FinalizeView(p, v, "RELEASED"), BackingOf(v))
                      ELSE p
    IN Through(settled, pool0)

UnpinView(p, v, id) == Settle([p EXCEPT !.views[v].pins = @ \ {id}], v)
EndInflight(p, v, id) == Settle([p EXCEPT !.views[v].inflight = @ \ {id}], v)

\* cancel_l2_claim and cancel_all_l2_claims: the readers that never bound.
CancelClaim(p, c) ==
    TryRelease([p EXCEPT !.claims[c] = "CANCELLED"], Source[c])

CancelAllClaims(p) ==
    FoldSet(LAMBDA c, acc : CancelClaim(acc, c), p, {c \in Imports : p.claims[c] = "DECLARED"})

\* retire_arena succeeds: no view of the owner is left.
CanRetireArena(p, o) ==
    /\ p.arenas[o].state \in {"live", "pending"}
    /\ \A v \in KeysOf(o) : ~LiveView(p, v)

\* What retire_arena raises on.
RetireUnsafe(p, o) ==
    \/ p.arenas[o].state = "retired"
    \/ \E v \in KeysOf(o) : ~Unreferenced(p, v)
    \/ \E k \in LocalOf(o) :
           \/ p.backings[k].bound /\ p.backings[k].live
           \/ /\ p.backings[k].state = "live" /\ ~p.backings[k].bound
              /\ \E c \in ClaimsOn(k) : Open(p.claims[c])

\* retire_arena: the buffers never bound and the slack go; a backing that a
\* claim still holds stays, its origin retired.
RetireArena(pool0, o) ==
    LET unowned(p) == [p EXCEPT !.backings = [k \in LocalKeys |->
                          IF k[1] = o /\ ~@[k].bound THEN [@[k] EXCEPT !.live = FALSE] ELSE @[k]]]
        tried(p) == FoldSet(LAMBDA k, acc : TryRelease(acc, k), p, LocalOf(o))
        retired(p, slack) == [p EXCEPT
          !.free = IF slack = {} THEN @ ELSE ReleaseExact(@, slack),
          !.exact = @ \ slack,
          !.reserved = @ - SizeOf(slack),
          !.moved = @ \/ slack # {},
          !.arenas[o] = [@ EXCEPT !.state = "retired", !.slack = {}],
          !.backings = [k \in LocalKeys |->
              IF k[1] = o THEN [@[k] EXCEPT !.retired = TRUE] ELSE @[k]]]
    IN Through(LAMBDA p : retired(p, p.arenas[o].slack), tried(Through(unowned, pool0)))

\* close_l2_claims: only a pool with nothing left forgets its claims.
PoolClosed(p) ==
    /\ \A c \in Imports : ~Open(p.claims[c])
    /\ \A k \in LocalKeys : p.backings[k].state # "live"
    /\ \A o \in Owners : p.arenas[o].state \in {"none", "retired"}
    /\ \A v \in Keys : ~LiveView(p, v) /\ Unreferenced(p, v)
    /\ p.reserved = 0

\* What stays of the run are records that no handle names any more.
CloseClaims(p) ==
    [p EXCEPT !.claims = [c \in Imports |-> "none"],
              !.arenas = [o \in Owners |-> NoArena],
              !.backings = [k \in LocalKeys |-> NoBacking],
              !.views = [k \in Keys |-> NoView]]

-----------------------------------------------------------------------------
\* can_fit_with_retained: an empty pool but for the backings given.
FitsWithRetained(p, o, retained) ==
    LET pristine == FreeIntervals(SpmStart, SpmEnd)
        units == UNION {p.backings[k].units : k \in retained}
        left == IF units = {} THEN pristine ELSE CommitExact(pristine, units)
    IN Layout[o].bytes = 0 \/ \A b \in Banks : Placement(left, o)[b] # -1

\* What arena_held_bytes and snapshot() count as held.
HeldUnits(p) ==
    UNION {p.backings[k].units : k \in {x \in LocalKeys : p.backings[x].state = "live"}}
    \cup UNION {p.arenas[o].slack : o \in {x \in Owners : p.arenas[x].state \in {"live", "pending"}}}
=============================================================================
