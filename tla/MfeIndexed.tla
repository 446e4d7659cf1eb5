------------------------------- MODULE MfeIndexed -------------------------------
(***************************************************************************)
(* Indexed memory jobs of the Memory Flow Engines of one Tile Group.       *)
(* Every Tile has an MFE with its own L1 cache and L1 refill table; the L2 *)
(* cache and its refill table are shared.  A Gather reads indices, brings  *)
(* the lines they name through L1 and L2 and writes the destination in     *)
(* order; a Scatter writes HBM past both caches; a maintenance command     *)
(* later drops the cached copies of what a Scatter wrote.                  *)
(*                                                                         *)
(* A cycle is a round of turns as in TileGroup.step: the fabric moves any  *)
(* number of transactions, each Tile's engine ticks once, then at most one *)
(* of the controllers (Tile UCE, profile controller, reset domain) acts.   *)
(* A byte of memory is <<address, stamp>>; each Scatter write has a new    *)
(* stamp.  eng holds the tables the engines share; its operators take and  *)
(* return the whole record because one tick runs many of them in order.    *)
(***************************************************************************)
EXTENDS LineCache

CONSTANTS Jobs,         \* job ids 1..n, in launch order on a Tile
          Desc,         \* per job: [kind, tile, map, task, indices, window, bypass_forbidden]
          NTiles,       \* Tiles 1..NTiles, in tick order
          LineBytes,    \* cache_line_bytes
          HbmBytes,     \* size of the one remote view
          L1Lines,      \* lines of an L1 cache, 0 when the profile disables it
          L2Lines,      \* lines of the L2 cache, 0 when the profile disables it
          L1Entries,    \* l1_mshr_entries
          L2Entries,    \* l2_mshr_entries
          JobLimit,     \* mfe_load_channels * mfe_pipeline_depth
          MaxFaults,    \* bound: transactions that fault
          Resets        \* bound: reset drains that begin, 0 or 1

ASSUME EngineAssumption ==
    /\ NTiles \in Nat \ {0} /\ LineBytes \in Nat \ {0} /\ JobLimit \in Nat \ {0}
    /\ L1Lines \in Nat /\ L2Lines \in Nat
    /\ L1Entries \in Nat \ {0} /\ L2Entries \in Nat \ {0}

VARIABLES
    eng,      \* [job, l1, m1, l2, m2, txn, ledger, error] of all engines
    hbm,      \* per byte: [n: stamp of the last write, by: its segment]
    dest,     \* per gather job: the local bytes written so far
    command,  \* the maintenance command: [step, ranges, stamps], or NoCommand
    floor,    \* per byte: the stamp every later Gather must at least see
    turn,     \* "fabric" or "control"
    drain,    \* "no", "drain" or "cancel": the reset drain
    faults    \* transactions faulted so far

vars == <<eng, hbm, dest, command, floor, turn, drain, faults>>

Addresses == 0 .. HbmBytes - 1
Tiles == 1 .. NTiles
Cached == L1Lines + L2Lines > 0
NoCommand == [step |-> "none", ranges |-> {}, stamps |-> <<>>]
LiveStatus == {"running", "cancelling"}
Cut == {"faulted", "cancelled"}

-----------------------------------------------------------------------------
(* Address arithmetic of an indexed (Gather or Scatter) descriptor: which  *)
(* bytes of the remote view one decoded index names, where they go in the  *)
(* local view, and how a Gather cuts them into cache lines.  One element   *)
(* is one byte; an address map is a record with the descriptor's fields.   *)

Span(a, n) == a .. (a + n - 1)

\* First remote byte of repeat j of one index, relative to the remote view.
SegmentStart(map, index, task, j) ==
    index * map.index_scale + map.offset + task * map.task_stride + j * map.stride

\* resolve_indexed_segments accepts the index: not negative, every segment inside.
IndexInView(map, index, task, bytes) ==
    /\ index >= 0
    /\ \A j \in 0 .. map.repeat - 1 :
           SegmentStart(map, index, task, j) + map.segment <= bytes

\* The (remote, local) pairs of index slot i, in repeat order.
IndexedSegments(map, index, i, task) ==
    [j \in 1 .. map.repeat |->
        [slot |-> i, rep |-> j, size |-> map.segment,
         remote |-> SegmentStart(map, index, task, j - 1),
         local |-> ((i - 1) * map.repeat + j - 1) * map.segment]]

\* A segment cut at line boundaries.  A part whose line ends inside the view is
\* fetched as that whole line, the others read their own bytes.
LineParts(seg, lineBytes, viewEnd) ==
    LET first == seg.remote \div lineBytes
        last == (seg.remote + seg.size - 1) \div lineBytes
    IN [k \in 1 .. last - first + 1 |->
           LET line == first + k - 1
               from == Max({seg.remote, line * lineBytes})
               to == Min({seg.remote + seg.size, (line + 1) * lineBytes})
           IN [slot |-> seg.slot, line |-> line, from |-> from,
               within |-> from - line * lineBytes, size |-> to - from, local |-> seg.local + from - seg.remote,
               whole |-> (line + 1) * lineBytes <= viewEnd]]

\* A segment as one request, when no cache level is enabled.
DirectPart(seg, lineBytes) ==
    <<[slot |-> seg.slot, line |-> seg.remote \div lineBytes, from |-> seg.remote,
       within |-> 0, size |-> seg.size, local |-> seg.local, whole |-> FALSE]>>

-----------------------------------------------------------------------------
(* Transactions.  <<j, phase, ordinal, retry>> names one; a read keeps the *)
(* bytes its HBM leg captured, a destination write the bytes it carries.   *)

NoData == <<>>
Status(e, id) == e.txn[id].status
Fail(e, reason) == [e EXCEPT !.error = IF @ = "none" THEN reason ELSE @]

\* A tick is a sequence of steps that the first exception ends.
Attempt(Op(_), e) == IF e.error = "none" THEN Op(e) ELSE e
InTurn(Op(_, _), n, e) ==
    LET after[k \in 0 .. n] ==
            IF k = 0 THEN e ELSE Attempt(LAMBDA x : Op(x, k), after[k - 1])
    IN after[n]

Submit(e, id, data) ==
    IF id \in DOMAIN e.txn THEN Fail(e, "duplicate transaction id")
    ELSE [e EXCEPT !.txn = (id :> [status |-> "running", data |-> data]) @@ @]
Acknowledge(e, ids) == [e EXCEPT !.txn = [t \in DOMAIN @ \ ids |-> @[t]]]

TxnsOf(e, j) == {t \in DOMAIN e.txn : t[1] = j}
IndexRead(j, i) == <<j, "index_read", i, 0>>
ReqId(e, j, r) == <<j, e.job[j].reqs[r].state, r, e.job[j].reqs[r].retry>>
WriteId(j, r, retry) == <<j, "write", r, retry>>

-----------------------------------------------------------------------------
(* A Gather's payload requests: cache lookups, refills and their waiters.  *)

Request(part) ==
    [slot |-> part.slot, line |-> part.line, from |-> part.from,
     within |-> part.within, size |-> part.size,
     local |-> part.local, whole |-> part.whole, bypass |-> ~part.whole,
     state |-> IF ~part.whole THEN "direct_response"
               ELSE IF L1Lines = 0 THEN "lookup_l2" ELSE "lookup_l1",
     sent |-> FALSE, l1_token |-> 0, l2_token |-> 0, wait |-> 0,
     ready |-> FALSE, line_data |-> NoData, hit |-> NoData, retry |-> 0]

Remote(q) == IF q.whole THEN Span(q.line * LineBytes, LineBytes)
             ELSE Span(q.from, q.size)

TileOf(j) == Desc[j].tile
Req(e, j, r) == e.job[j].reqs[r]
Go(e, j, r, state) == [e EXCEPT !.job[j].reqs[r].state = state]
\* _submit_gather_transaction: the request's state is the phase it waits for.
Send(e, j, r, phase) ==
    Submit([e EXCEPT !.job[j].reqs[r].state = phase, !.job[j].reqs[r].sent = TRUE],
           <<j, phase, r, Req(e, j, r).retry>>, NoData)

\* _mark_response_from_cache when the line is there.
Deliver(e, j, r, data) ==
    [e EXCEPT !.job[j].reqs[r].line_data = data,
              !.job[j].reqs[r].hit = SubSeq(data, Req(e, j, r).within + 1,
                                            Req(e, j, r).within + Req(e, j, r).size),
              !.job[j].reqs[r].ready = TRUE,
              !.job[j].reqs[r].state = "response_ready"]

\* The rest of _downgrade_after_eviction once the tokens are released.
ReadDirectly(e, j, r) ==
    [e EXCEPT !.job[j].reqs[r].l1_token = 0, !.job[j].reqs[r].l2_token = 0,
              !.job[j].reqs[r].hit = NoData, !.job[j].reqs[r].ready = FALSE,
              !.job[j].reqs[r].retry = @ + 1, !.job[j].reqs[r].bypass = TRUE,
              !.job[j].reqs[r].sent = FALSE, !.job[j].reqs[r].state = "direct_response"]

\* One woken waiter: <<job, request, what it waits for>>.
Wake(e, w) ==
    LET j == w[1]
        r == w[2]
        tile == TileOf(j)
        line == Req(e, j, r).line
    IN CASE w[3] = "l2_refill" -> Send(e, j, r, "l2_refill")
         [] w[3] = "l1" /\ Resident(e.l1[tile], line) ->
                Deliver([e EXCEPT !.l1[tile] = Touch(@, line)], j, r, DataOf(e.l1[tile], line))
         [] w[3] = "l2" /\ Resident(e.l2, line) ->
                Deliver([e EXCEPT !.l2 = Touch(@, line)], j, r, DataOf(e.l2, line))
         [] OTHER -> ReadDirectly(e, j, r)

\* _invoke_callbacks, in the order the waiters arrived.
WakeAll(e, waiters) == InTurn(LAMBDA x, k : Wake(x, waiters[k]), Len(waiters), e)

\* complete() of a token nobody holds raises.
CompleteL1(e, tile, token) ==
    IF Active(e.m1[tile], token) THEN [e EXCEPT !.m1[tile] = Vacate(@, token)]
    ELSE Fail(e, "unknown or completed MSHR token")
CompleteL2(e, token) ==
    IF Active(e.m2, token) THEN [e EXCEPT !.m2 = Vacate(@, token)]
    ELSE Fail(e, "unknown or completed MSHR token")
WaitersL1(e, tile, token) ==
    IF Active(e.m1[tile], token) THEN e.m1[tile].entry[token].waiters ELSE <<>>
WaitersL2(e, token) == IF Active(e.m2, token) THEN e.m2.entry[token].waiters ELSE <<>>

\* _downgrade_after_eviction of a request that leads its refills.
ReleaseL1(e, tile, token) ==
    IF Active(e.m1[tile], token)
    THEN WakeAll(CompleteL1(e, tile, token), WaitersL1(e, tile, token)) ELSE e
ReleaseL2(e, token) ==
    IF Active(e.m2, token) THEN WakeAll(CompleteL2(e, token), WaitersL2(e, token)) ELSE e
\* Mutant: an evicted leader leaves its entries behind.
DowngradeKeepsEntries(e, j, r) == ReadDirectly(e, j, r)
Downgrade(e, j, r) ==
    ReadDirectly(ReleaseL2(ReleaseL1(e, TileOf(j), Req(e, j, r).l1_token),
                           Req(e, j, r).l2_token), j, r)

FromL1(e, j, r) ==
    LET tile == TileOf(j)
        line == Req(e, j, r).line
    IN IF Resident(e.l1[tile], line)
       THEN Deliver([e EXCEPT !.l1[tile] = Touch(@, line)], j, r, DataOf(e.l1[tile], line))
       ELSE Downgrade(e, j, r)
FromL2(e, j, r) ==
    LET line == Req(e, j, r).line
    IN IF Resident(e.l2, line)
       THEN Deliver([e EXCEPT !.l2 = Touch(@, line)], j, r, DataOf(e.l2, line))
       ELSE Downgrade(e, j, r)

\* _enter_mshr_wait: retried when the table's version has moved.
WaitRoom(e, j, r, state, version) ==
    [e EXCEPT !.job[j].reqs[r].state = state, !.job[j].reqs[r].wait = version,
              !.job[j].reqs[r].sent = FALSE]

\* allocate() and, for a line already being refilled, wait().
FollowL1(e, j, r, token) ==
    Go([e EXCEPT !.m1[TileOf(j)] = Follow(@, token, <<j, r, "l1">>),
                 !.job[j].reqs[r].l1_token = token], j, r, "wait_l1_fill")
LeadL1(e, j, r) ==
    [e EXCEPT !.m1[TileOf(j)] = Lead(@, Req(e, j, r).line),
              !.job[j].reqs[r].l1_token = e.m1[TileOf(j)].next]
FullL1(e, j) == Cardinality(DOMAIN e.m1[TileOf(j)].entry) >= L1Entries

TryL2Mshr(e, j, r) ==
    LET line == Req(e, j, r).line
        holders == Holders(e.m2, line)
    IN CASE L2Lines = 0 -> Send(e, j, r, "l1_direct_refill")
         [] L2Lines > 0 /\ holders # {} ->
                LET token == CHOOSE t \in holders : TRUE
                IN Go([e EXCEPT !.m2 = Follow(@, token,
                                              <<j, r, IF L1Lines > 0 THEN "l2_refill" ELSE "l2">>),
                                !.job[j].reqs[r].l2_token = token], j, r, "wait_l2_fill")
         [] L2Lines > 0 /\ holders = {} /\ Cardinality(DOMAIN e.m2.entry) >= L2Entries ->
                WaitRoom(e, j, r, "wait_l2_mshr", e.m2.version)
         [] OTHER ->
                Send([e EXCEPT !.m2 = Lead(@, line), !.job[j].reqs[r].l2_token = e.m2.next],
                     j, r, "hbm_refill")

TryL1Mshr(e, j, r) ==
    LET holders == Holders(e.m1[TileOf(j)], Req(e, j, r).line)
    IN CASE L1Lines = 0 -> TryL2Mshr(e, j, r)
         [] L1Lines > 0 /\ holders # {} -> FollowL1(e, j, r, CHOOSE t \in holders : TRUE)
         [] L1Lines > 0 /\ holders = {} /\ FullL1(e, j) ->
                WaitRoom(e, j, r, "wait_l1_mshr", e.m1[TileOf(j)].version)
         [] OTHER -> TryL2Mshr(LeadL1(e, j, r), j, r)

\* The step of a request whose transaction is done, by the phase that ended.
AfterLookupL1(e, j, r) ==
    LET line == Req(e, j, r).line
    IN CASE Resident(e.l1[TileOf(j)], line) -> FromL1(e, j, r)
         [] ~Resident(e.l1[TileOf(j)], line) /\ L2Lines > 0 -> Send(e, j, r, "lookup_l2")
         [] OTHER -> TryL1Mshr(e, j, r)

AfterLookupL2(e, j, r) ==
    LET line == Req(e, j, r).line
        hit == [e EXCEPT !.l2 = Touch(@, line)]
        holders == Holders(e.m1[TileOf(j)], line)
    IN CASE ~Resident(e.l2, line) -> TryL1Mshr(e, j, r)
         [] Resident(e.l2, line) /\ L1Lines = 0 -> FromL2(e, j, r)
         [] Resident(e.l2, line) /\ L1Lines > 0 /\ holders # {} ->
                FollowL1(hit, j, r, CHOOSE t \in holders : TRUE)
         [] Resident(e.l2, line) /\ L1Lines > 0 /\ holders = {} /\ FullL1(e, j) ->
                WaitRoom(hit, j, r, "wait_l1_mshr", e.m1[TileOf(j)].version)
         [] OTHER -> Send(LeadL1(hit, j, r), j, r, "l2_refill")

AfterHbmRefill(e, j, r) ==
    LET q == Req(e, j, r)
        filled == [e EXCEPT !.l2 = Refill(@, L2Lines, q.line, q.line_data)]
        closed == [CompleteL2(filled, q.l2_token) EXCEPT !.job[j].reqs[r].l2_token = 0]
        go(x) == IF L1Lines > 0 THEN Send(x, j, r, "l2_refill") ELSE FromL2(x, j, r)
    IN go(WakeAll(closed, WaitersL2(e, q.l2_token)))

\* L1_DIRECT_REFILL and L2_REFILL end alike: the leader answers, then its waiters.
FillL1(e, j, r, data) ==
    LET tile == TileOf(j)
        q == Req(e, j, r)
        filled == [e EXCEPT !.l1[tile] = Refill(@, L1Lines, q.line, data),
                            !.job[j].reqs[r].line_data = data]
        closed == [CompleteL1(filled, tile, q.l1_token) EXCEPT !.job[j].reqs[r].l1_token = 0]
    IN WakeAll(FromL1(closed, j, r), WaitersL1(e, tile, q.l1_token))

AfterL2Refill(e, j, r) ==
    LET line == Req(e, j, r).line
    IN IF Resident(e.l2, line)
       THEN FillL1([e EXCEPT !.l2 = Touch(@, line)], j, r, DataOf(e.l2, line))
       ELSE Downgrade(e, j, r)

\* Bytes read directly: at the start of a line they are the answer as they are,
\* otherwise they become line_data; line_data, whenever there is one, is then
\* cut to the request's bytes.
AfterDirectResponse(e, j, r, data) ==
    LET q == Req(e, j, r)
        line == IF q.within = 0 THEN q.line_data ELSE data
        hit == IF line = NoData THEN data
               ELSE SubSeq(line, q.within + 1, q.within + q.size)
    IN [e EXCEPT !.job[j].reqs[r].line_data = line, !.job[j].reqs[r].hit = hit,
                 !.job[j].reqs[r].ready = TRUE, !.job[j].reqs[r].state = "response_ready"]

AfterTransaction(e, j, r) ==
    LET id == ReqId(e, j, r)
        phase == Req(e, j, r).state
        data == e.txn[id].data
        acked == [Acknowledge(e, {id}) EXCEPT !.job[j].reqs[r].sent = FALSE]
    IN CASE phase = "lookup_l1" -> AfterLookupL1(acked, j, r)
         [] phase = "lookup_l2" -> AfterLookupL2(acked, j, r)
         [] phase = "hbm_refill" ->
                AfterHbmRefill([acked EXCEPT !.job[j].reqs[r].line_data = data], j, r)
         [] phase = "l1_direct_refill" -> FillL1(acked, j, r, data)
         [] phase = "l2_refill" -> AfterL2Refill(acked, j, r)
         [] phase = "direct_response" -> AfterDirectResponse(acked, j, r, data)

\* _tick_gather_request.
TickRequest(e, j, r) ==
    LET q == Req(e, j, r)
        id == ReqId(e, j, r)
    IN CASE q.state = "wait_l1_mshr" ->
                IF q.wait # e.m1[TileOf(j)].version THEN TryL1Mshr(e, j, r) ELSE e
         [] q.state = "wait_l2_mshr" ->
                IF q.wait # e.m2.version THEN TryL2Mshr(e, j, r) ELSE e
         [] q.state \in {"lookup_l1", "lookup_l2", "direct_response"} /\ ~q.sent ->
                Send(e, j, r, q.state)
         [] q.sent /\ Status(e, id) = "done" -> AfterTransaction(e, j, r)
         [] q.sent /\ Status(e, id) \in Cut -> Fail(e, "gather transaction cut")
         [] OTHER -> e

-----------------------------------------------------------------------------
(* A Gather job: index window, payload requests, ordered destination writes *)

Slots(n) == [i \in 1 .. n |-> "unissued"]
NewJob(n) == [state |-> "waiting", slots |-> Slots(n), next |-> 1, reqs |-> <<>>,
              written |-> 1, writing |-> FALSE, floor |-> <<>>]

\* _issue_gather_index_slots counts a slot until its last write is done,
\* _issue_scatter_index_slots until its index is decoded.
InWindow(j, state) ==
    state \in (IF Desc[j].kind = "gather" THEN {"index_read", "decoded"} ELSE {"index_read"})
IssueIndexSlots(e, j) ==
    LET job == e.job[j]
        busy == Cardinality({i \in DOMAIN job.slots : InWindow(j, job.slots[i])})
        last == Min({Len(job.slots), job.next + Desc[j].window - busy - 1})
        issue == job.next .. last
        with[k \in (job.next - 1) .. Max({last, job.next - 1})] ==
            IF k < job.next THEN e ELSE Submit(with[k - 1], IndexRead(j, k), NoData)
        sent == with[Max({last, job.next - 1})]
    IN [sent EXCEPT !.job[j].slots = [i \in DOMAIN @ |-> IF i \in issue THEN "index_read" ELSE @[i]],
                    !.job[j].next = Max({@, last + 1})]

\* _gather_segment_requests: decode one index and append its requests.
DecodeGather(e, j, i) ==
    LET d == Desc[j]
        index == d.indices[i]
        segs == IndexedSegments(d.map, index, i, d.task)
        parts == FlattenSeq([k \in DOMAIN segs |->
                    IF Cached THEN LineParts(segs[k], LineBytes, HbmBytes)
                    ELSE DirectPart(segs[k], LineBytes)])
    IN IF ~IndexInView(d.map, index, d.task, HbmBytes) THEN Fail(e, "indexed_address_out_of_bounds")
       ELSE IF d.bypass_forbidden /\ \E k \in DOMAIN parts : ~parts[k].whole
       THEN Fail(e, "gather_cache_bypass_forbidden")
       ELSE [e EXCEPT !.job[j].reqs = @ \o [k \in DOMAIN parts |-> Request(parts[k])]]

HarvestGatherIndex(e, j, i) ==
    LET id == IndexRead(j, i)
    IN CASE e.job[j].slots[i] # "index_read" -> e
         [] e.job[j].slots[i] = "index_read" /\ Status(e, id) \in Cut ->
                Fail(e, "gather index read cut")
         [] e.job[j].slots[i] = "index_read" /\ Status(e, id) = "done" ->
                DecodeGather([Acknowledge(e, {id}) EXCEPT !.job[j].slots[i] = "decoded"], j, i)
         [] OTHER -> e

\* _tick_gather_materialization, first half: harvest the destination write.
HarvestWrite(e, j) ==
    LET r == e.job[j].written
        id == WriteId(j, r, Req(e, j, r).retry)
        slot == Req(e, j, r).slot
        last == \A k \in DOMAIN e.job[j].reqs :
                    Req(e, j, k).slot = slot /\ k # r => Req(e, j, k).state = "done"
    IN CASE ~e.job[j].writing -> e
         [] e.job[j].writing /\ Status(e, id) \in Cut -> Fail(e, "gather destination write cut")
         [] e.job[j].writing /\ Status(e, id) = "done" ->
                [Acknowledge(e, {id}) EXCEPT
                    !.job[j].reqs[r].state = "done", !.job[j].writing = FALSE,
                    !.job[j].written = @ + 1,
                    !.job[j].slots[slot] = IF last THEN "released" ELSE @]
         [] OTHER -> e

\* Second half: finish, or send the next destination write.
NextWrite(e, j) ==
    LET r == e.job[j].written
    IN CASE r > Len(e.job[j].reqs) ->
                IF \A i \in DOMAIN e.job[j].slots : e.job[j].slots[i] = "released"
                THEN [e EXCEPT !.job[j].state = "done"] ELSE e
         [] r <= Len(e.job[j].reqs) /\ ~e.job[j].writing /\ Req(e, j, r).ready ->
                IF Len(Req(e, j, r).hit) # Req(e, j, r).size
                THEN Fail(e, "gather destination write lacks segment bytes")
                ELSE Submit([e EXCEPT !.job[j].writing = TRUE, !.job[j].reqs[r].state = "write"],
                            WriteId(j, r, Req(e, j, r).retry), Req(e, j, r).hit)
         [] OTHER -> e

\* _tick_gather.
TickGather(e, j) ==
    LET decoded(x) == InTurn(LAMBDA y, i : HarvestGatherIndex(y, j, i), Len(Desc[j].indices), x)
        ticked(x) == InTurn(LAMBDA y, r : TickRequest(y, j, r), Len(x.job[j].reqs), x)
        issued(x) == IssueIndexSlots(x, j)
        harvested(x) == HarvestWrite(x, j)
        written(x) == NextWrite(x, j)
    IN Attempt(written, Attempt(harvested, Attempt(ticked, Attempt(issued, decoded(e)))))

-----------------------------------------------------------------------------
(* A Scatter job: indices, then one HBM write per segment.                 *)

WriteSeg(j, k) == <<j, "scatter_write", k, 0>>
SegSpan(q) == Span(q.remote, q.size)

\* _scatter_segment_requests: segments are numbered as their indices arrive.
DecodeScatter(e, j, i) ==
    LET d == Desc[j]
        segs == IndexedSegments(d.map, d.indices[i], i, d.task)
    IN IF ~IndexInView(d.map, d.indices[i], d.task, HbmBytes)
       THEN Fail(e, "indexed_address_out_of_bounds")
       ELSE [e EXCEPT !.job[j].reqs = @ \o [k \in DOMAIN segs |->
                 [slot |-> i, rep |-> segs[k].rep, remote |-> segs[k].remote,
                  size |-> segs[k].size, state |-> "wait_predecessor"]]]

\* A cut index read only marks the job; the slot is looked at again.
HarvestScatterIndex(e, j, i) ==
    LET id == IndexRead(j, i)
    IN CASE e.job[j].slots[i] # "index_read" -> e
         [] e.job[j].slots[i] = "index_read" /\ Status(e, id) = "done" ->
                DecodeScatter([Acknowledge(e, {id}) EXCEPT !.job[j].slots[i] = "decoded"], j, i)
         [] OTHER -> e

\* _segment_overlaps_pending: an earlier segment still being written overlaps.
OverlapsPending(e, j, k) ==
    \E o \in DOMAIN e.job[j].reqs :
        /\ o < k /\ Req(e, j, o).state = "write"
        /\ SegSpan(Req(e, j, o)) \cap SegSpan(Req(e, j, k)) # {}

\* _scatter_submit
ScatterSubmit(e, j, k) == Submit(Go(e, j, k, "write"), WriteSeg(j, k), NoData)

\* _tick_scatter_segment, with the ledger entry record_write adds.
TickSegment(e, j, k) ==
    LET id == WriteSeg(j, k)
        q == Req(e, j, k)
    IN CASE q.state = "wait_predecessor" /\ ~OverlapsPending(e, j, k) ->
                ScatterSubmit(e, j, k)
         [] q.state = "write" /\ Status(e, id) = "done" ->
                [Acknowledge(Go(e, j, k, "done"), {id}) EXCEPT !.ledger = @ \cup SegSpan(q)]
         [] OTHER -> e

\* _isolate_scatter: acknowledge what is terminal.
Isolate(e, j) == Acknowledge(e, {t \in TxnsOf(e, j) : Status(e, t) \notin LiveStatus})

\* _tick_scatter.
TickScatter(e, j) ==
    LET decoded(x) == InTurn(LAMBDA y, i : HarvestScatterIndex(y, j, i), Len(Desc[j].indices), x)
        issued(x) == IssueIndexSlots(x, j)
        ticked(x) == InTurn(LAMBDA y, k : TickSegment(y, j, k), Len(x.job[j].reqs), x)
        failed(x) == \E t \in TxnsOf(x, j) : Status(x, t) \in Cut
        over(x) == /\ \A i \in DOMAIN x.job[j].slots : x.job[j].slots[i] = "decoded"
                   /\ \A k \in DOMAIN x.job[j].reqs : Req(x, j, k).state = "done"
        ended(x) == CASE failed(x) -> Fail(Isolate(x, j), "scatter fault")
                      [] ~failed(x) /\ over(x) -> [x EXCEPT !.job[j].state = "done"]
                      [] OTHER -> x
    IN Attempt(ended, Attempt(ticked, Attempt(issued, decoded(e))))

-----------------------------------------------------------------------------
(* The engine of a Tile, and the isolation of its jobs in a reset drain.   *)

JobsOf(e, t, kind) ==
    SetToSortSeq({j \in Jobs : TileOf(j) = t /\ Desc[j].kind = kind /\ e.job[j].state = "active"}, <)

\* retire_isolated for one job: nothing of it is in flight any more and a
\* transaction was cut, or it only waits for refills that are gone (with
\* orphans: that nobody can be made to finish).
Retire(e, j, orphans) ==
    LET ids == TxnsOf(e, j)
        t1 == {Req(e, j, r).l1_token : r \in DOMAIN e.job[j].reqs} \ {0}
        t2 == {Req(e, j, r).l2_token : r \in DOMAIN e.job[j].reqs} \ {0}
        live1 == t1 \cap DOMAIN e.m1[TileOf(j)].entry
        live2 == t2 \cap DOMAIN e.m2.entry
        waits == ids = {} /\ t1 \cup t2 # {} /\ (orphans \/ live1 \cup live2 = {})
        vacate(m, tokens) == [m EXCEPT !.entry = [t \in DOMAIN @ \ tokens |-> @[t]],
                                       !.version = @ + Cardinality(tokens)]
        gone == [Acknowledge(e, ids) EXCEPT !.job[j].state = "retired"]
    IN CASE \E t \in ids : Status(e, t) \in LiveStatus -> e
         [] (\A t \in ids : Status(e, t) \notin LiveStatus) /\ Desc[j].kind = "scatter" -> gone
         [] (\A t \in ids : Status(e, t) \notin LiveStatus) /\ Desc[j].kind = "gather"
                /\ (waits \/ \E t \in ids : Status(e, t) \in Cut) ->
                [gone EXCEPT !.m1[TileOf(j)] = vacate(@, live1), !.m2 = vacate(@, live2)]
         [] OTHER -> e

RetireIsolated(e, t, orphans) ==
    LET retired(kind, x) ==
            LET jobs == JobsOf(e, t, kind)
            IN InTurn(LAMBDA y, k : Retire(y, jobs[k], orphans), Len(jobs), x)
    IN retired("scatter", retired("gather", e))

\* MFEEngine.tick for the indexed jobs: Gathers, then Scatters, in launch order.
TickEngine(e, t, draining) ==
    LET start(x) == IF draining THEN RetireIsolated(x, t, FALSE) ELSE x
        gathered(x) ==
            LET jobs == JobsOf(x, t, "gather")
            IN InTurn(LAMBDA y, k : TickGather(y, jobs[k]), Len(jobs), x)
        scattered(x) ==
            LET jobs == JobsOf(x, t, "scatter")
            IN InTurn(LAMBDA y, k : TickScatter(y, jobs[k]), Len(jobs), x)
    IN scattered(gathered(start(e)))

-----------------------------------------------------------------------------
Init ==
    /\ eng = [job |-> [j \in Jobs |-> NewJob(Len(Desc[j].indices))],
              l1 |-> [t \in Tiles |-> EmptyCache], m1 |-> [t \in Tiles |-> EmptyMshr],
              l2 |-> EmptyCache, m2 |-> EmptyMshr, txn |-> <<>>, ledger |-> {}, error |-> "none"]
    /\ hbm = [a \in Addresses |-> [n |-> 0, by |-> <<>>]]
    /\ dest = [j \in Jobs |-> <<>>]
    /\ command = NoCommand /\ floor = [a \in Addresses |-> 0]
    /\ turn = "fabric" /\ drain = "no" /\ faults = 0

(* The fabric: a read captures its bytes at its HBM leg and ends later.    *)
HbmReads == {"hbm_refill", "l1_direct_refill", "direct_response"}
FabricTurn == turn = "fabric" /\ eng.error = "none"
SetStatus(id, status) == eng' = [eng EXCEPT !.txn[id].status = status]

Capture(id) ==
    /\ FabricTurn /\ Status(eng, id) = "running"
    /\ id[2] \in HbmReads /\ eng.txn[id].data = NoData
    /\ \E q \in {Req(eng, id[1], id[3])} :
         eng' = [eng EXCEPT !.txn[id].data =
                    [k \in 1 .. Cardinality(Remote(q)) |->
                        LET a == Min(Remote(q)) + k - 1 IN <<a, hbm[a].n>>]]
    /\ UNCHANGED <<hbm, dest, command, floor, turn, drain, faults>>

\* A transaction ends.  A Scatter write commits its bytes, a destination write
\* stores the bytes it carries.
Finish(id) ==
    /\ FabricTurn /\ Status(eng, id) = "running"
    /\ id[2] \in HbmReads => eng.txn[id].data # NoData
    /\ SetStatus(id, "done")
    /\ \E q \in {IF id[2] = "index_read" THEN NoCommand ELSE Req(eng, id[1], id[3])} :
         /\ hbm' = IF id[2] # "scatter_write" THEN hbm
                   ELSE [a \in Addresses |-> IF a \notin SegSpan(q) THEN hbm[a]
                             ELSE [n |-> 1 + Max({hbm[b].n : b \in Addresses}),
                                   by |-> <<id[1], q.slot, q.rep>>]]
         /\ dest' = IF id[2] # "write" THEN dest
                    ELSE [dest EXCEPT ![id[1]] =
                             [b \in Span(q.local, q.size) |-> eng.txn[id].data[b - q.local + 1]] @@ @]
    /\ UNCHANGED <<command, floor, turn, drain, faults>>

Fault(id) ==
    /\ FabricTurn /\ faults < MaxFaults /\ Status(eng, id) = "running"
    /\ id[2] \in HbmReads \cup {"index_read", "scatter_write"}
    /\ SetStatus(id, "faulted") /\ faults' = faults + 1
    /\ UNCHANGED <<hbm, dest, command, floor, turn, drain>>

ConfirmCancel(id) ==
    /\ FabricTurn /\ Status(eng, id) = "cancelling" /\ SetStatus(id, "cancelled")
    /\ UNCHANGED <<hbm, dest, command, floor, turn, drain, faults>>

\* _step_tiles, when the fabric has moved what it moves this cycle: the engines
\* of all Tiles, in order.
TickTiles == InTurn(LAMBDA x, t : TickEngine(x, t, drain # "no"), NTiles, eng)
Tick ==
    /\ FabricTurn
    /\ \E after \in {TickTiles} : eng' = after
    /\ turn' = "control"
    /\ UNCHANGED <<hbm, dest, command, floor, drain, faults>>

-----------------------------------------------------------------------------
ControlTurn == turn = "control" /\ eng.error = "none" /\ turn' = "fabric"
SomeActive == \E j \in Jobs : eng.job[j].state = "active"
ActiveOn(t) == {j \in Jobs : TileOf(j) = t /\ eng.job[j].state = "active"}

\* launch_gather and launch_scatter: the Tile's next indexed job is accepted.
Launch(j) ==
    /\ ControlTurn /\ drain = "no" /\ eng.job[j].state = "waiting"
    /\ \A k \in Jobs : TileOf(k) = TileOf(j) /\ k < j => eng.job[k].state # "waiting"
    /\ Cardinality(ActiveOn(TileOf(j))) < JobLimit
    /\ eng' = IssueIndexSlots([eng EXCEPT !.job[j].state = "active", !.job[j].floor = floor], j)
    /\ UNCHANGED <<hbm, dest, command, floor, drain, faults>>

\* A command that waited for finished Scatters: WAIT_DEPENDENCIES and
\* BLOCK_RANGE_ISSUE, where _resolve_ranges narrows it to the ledger.
StartCommand ==
    /\ ControlTurn /\ drain = "no" /\ command = NoCommand
    /\ \E j \in Jobs : Desc[j].kind = "scatter" /\ eng.job[j].state = "done"
    /\ \E a \in Addresses : hbm[a].n > floor[a]
    /\ command' = [step |-> "drain",
                   ranges |-> IF eng.ledger = {} THEN Addresses ELSE eng.ledger,
                   stamps |-> [a \in Addresses |->
                                  IF hbm[a].n > 0 /\ eng.job[hbm[a].by[1]].state = "done"
                                  THEN hbm[a].n ELSE floor[a]]]
    /\ UNCHANGED <<eng, hbm, dest, floor, drain, faults>>

\* range_inflight: a live or faulted transaction reads or writes the ranges.
RangeOf(id) == IF id[2] \in HbmReads THEN Remote(Req(eng, id[1], id[3]))
               ELSE IF id[2] = "scatter_write" THEN SegSpan(Req(eng, id[1], id[3])) ELSE {}
RangeInflight(ranges) ==
    \E id \in DOMAIN eng.txn :
        Status(eng, id) \in LiveStatus \cup {"faulted"} /\ RangeOf(id) \cap ranges # {}
\* Mutant: the command does not wait for refills on their way.
DrainRangeAtOnce ==
    /\ ControlTurn /\ command.step = "drain"
    /\ command' = [command EXCEPT !.step = "clean"]
    /\ UNCHANGED <<eng, hbm, dest, floor, drain, faults>>
DrainRange ==
    /\ ControlTurn /\ command.step = "drain" /\ ~RangeInflight(command.ranges)
    /\ command' = [command EXCEPT !.step = "clean"]
    /\ UNCHANGED <<eng, hbm, dest, floor, drain, faults>>

\* CLEAN_INVALIDATE on both levels, up to RELEASE.
CleanInvalidate ==
    /\ ControlTurn /\ command.step = "clean"
    /\ eng' = [eng EXCEPT
                  !.l1 = [t \in Tiles |-> Invalidate(@[t], LineBytes, command.ranges)],
                  !.l2 = Invalidate(@, LineBytes, command.ranges)]
    /\ floor' = command.stamps /\ command' = NoCommand
    /\ UNCHANGED <<hbm, dest, drain, faults>>

\* A reset drain begins (FREEZE_DISPATCH); it cancels a live command.
BeginReset ==
    /\ ControlTurn /\ Resets > 0 /\ drain = "no" /\ SomeActive
    /\ drain' = "drain" /\ command' = NoCommand
    /\ UNCHANGED <<eng, hbm, dest, floor, faults>>

\* DRAIN_SAFE after its time limit, every cycle that finds accepted work:
\* cancel_all, then request_cancel_active of every Tile.  A transaction whose leg has started is cancelled by its end.
CancelTiles(started) ==
    LET cut == [eng EXCEPT !.txn = [id \in DOMAIN @ |->
                   IF @[id].status # "running" THEN @[id]
                   ELSE [@[id] EXCEPT !.status =
                            IF id \in started THEN "cancelling" ELSE "cancelled"]]]
    IN IF \E id \in DOMAIN eng.txn : Status(eng, id) = "faulted"
       THEN Fail(eng, "transaction terminal status changed")
       ELSE InTurn(LAMBDA x, t : RetireIsolated(x, t, TRUE), NTiles, cut)
CancelAll ==
    /\ ControlTurn /\ drain # "no" /\ SomeActive /\ drain' = "cancel"
    /\ \E started \in SUBSET {id \in DOMAIN eng.txn : Status(eng, id) = "running"} :
         \E after \in {CancelTiles(started)} : eng' = after
    /\ UNCHANGED <<hbm, dest, command, floor, faults>>

ControlIdle ==
    /\ ControlTurn /\ ~(drain = "cancel" /\ SomeActive)
    /\ UNCHANGED <<eng, hbm, dest, command, floor, drain, faults>>

Move(id) == Capture(id) \/ Finish(id) \/ ConfirmCancel(id)
MoveSome == \E id \in DOMAIN eng.txn : Move(id)
Control ==
    \/ \E j \in Jobs : Launch(j)
    \/ StartCommand \/ DrainRange \/ CleanInvalidate \/ BeginReset \/ CancelAll
Next ==
    \/ MoveSome
    \/ \E id \in DOMAIN eng.txn : Fault(id)
    \/ Tick \/ Control \/ ControlIdle

\* Every cycle runs to its end (the subscript is turn: a cycle's steps are told
\* apart by it), the fabric ends what it accepted (memory fabric), and a reset
\* drain that does not finish reaches its time limit.
CycleRuns ==
    /\ eng.error = "none"
    /\ \/ turn = "fabric" /\ turn' = "control"
       \/ turn = "control" /\ turn' = "fabric"
Expires ==
    /\ turn = "control" /\ turn' = "fabric" /\ eng.error = "none"
    /\ drain # "no" /\ SomeActive /\ drain' = "cancel"
Spec == Init /\ [][Next]_vars /\ WF_turn(CycleRuns) /\ SF_vars(MoveSome) /\ SF_turn(Expires)

-----------------------------------------------------------------------------
(* Properties.                                                             *)

Gathers == {j \in Jobs : Desc[j].kind = "gather"}
AllReqs == {x \in Gathers \X (1 .. 16) : x[2] \in DOMAIN eng.job[x[1]].reqs}
Ended == {"done", "retired"}

\* Type invariant, with the limits the tables are built for.
TypeOK ==
    /\ \A j \in Jobs : eng.job[j].state \in {"waiting", "active"} \cup Ended
    /\ \A t \in Tiles :
         /\ Len(eng.l1[t]) <= L1Lines /\ Cardinality(DOMAIN eng.m1[t].entry) <= L1Entries
         /\ Cardinality(ActiveOn(t)) <= JobLimit
    /\ Len(eng.l2) <= L2Lines /\ Cardinality(DOMAIN eng.m2.entry) <= L2Entries
    /\ \A id \in DOMAIN eng.txn :
         id[1] \in Jobs /\ eng.txn[id].status \in LiveStatus \cup Cut \cup {"done"}
    /\ hbm \in [Addresses -> [n : Nat, by : Seq(Nat)]]
    /\ turn \in {"fabric", "control"} /\ drain \in {"no", "drain", "cancel"}

\* Source byte that local byte b of a Gather stands for.
SourceOf(j, b) ==
    LET m == Desc[j].map
        seg == b \div m.segment
    IN SegmentStart(m, Desc[j].indices[1 + seg \div m.repeat], Desc[j].task, seg % m.repeat)
         + (b % m.segment)

\* A Gather's destination holds, at every byte written, the byte the address
\* map names, no older than what the last maintenance command before its launch
\* made visible; when the job reports done no byte is missing.  Behaviour of
\* _gather_segment_requests, the refill FSM and _tick_gather_materialization
\* against cache.begin_maintenance.
GatherExact ==
    \A j \in Gathers :
        /\ \A b \in DOMAIN dest[j] :
             /\ dest[j][b][1] = SourceOf(j, b)
             /\ dest[j][b][2] >= eng.job[j].floor[SourceOf(j, b)]
        /\ eng.job[j].state = "done" =>
             DOMAIN dest[j] = Span(0, Len(Desc[j].indices) * Desc[j].map.repeat * Desc[j].map.segment)

\* Once a maintenance command has released its range, neither a cache nor a
\* refill on its way holds bytes older than the command published.
\* _step_maintenance drains the range before it invalidates.
NoStaleLine ==
    LET fresh(data) == \A k \in DOMAIN data : data[k][2] >= floor[data[k][1]]
    IN /\ \A k \in DOMAIN eng.l2 : fresh(eng.l2[k].data)
       /\ \A t \in Tiles : \A k \in DOMAIN eng.l1[t] : fresh(eng.l1[t][k].data)
       /\ \A id \in DOMAIN eng.txn : id[2] \in HbmReads => fresh(eng.txn[id].data)

\* Outside a reset drain every refill entry has one request that leads it and
\* will complete it, and every request that waits for a refill is a waiter of an
\* entry: nobody waits for a refill that has gone.  _try_l1_mshr, _try_l2_mshr
\* and _downgrade_after_eviction.
Leaders(t, token) ==
    {x \in AllReqs : /\ TileOf(x[1]) = t /\ eng.job[x[1]].state = "active"
                     /\ Req(eng, x[1], x[2]).l1_token = token
                     /\ Req(eng, x[1], x[2]).state \in
                            {"wait_l2_mshr", "wait_l2_fill", "hbm_refill", "l1_direct_refill", "l2_refill"}}
L2Leaders(token) ==
    {x \in AllReqs : /\ eng.job[x[1]].state = "active" /\ Req(eng, x[1], x[2]).l2_token = token
                     /\ Req(eng, x[1], x[2]).state = "hbm_refill"}
RefillOwned ==
    drain = "no" /\ eng.error = "none" =>
        /\ \A t \in Tiles : \A token \in DOMAIN eng.m1[t].entry :
             Cardinality(Leaders(t, token)) = 1
        /\ \A token \in DOMAIN eng.m2.entry : Cardinality(L2Leaders(token)) = 1
        /\ \A x \in AllReqs :
             LET q == Req(eng, x[1], x[2])
                 m == IF q.state = "wait_l1_fill" THEN eng.m1[TileOf(x[1])] ELSE eng.m2
                 token == IF q.state = "wait_l1_fill" THEN q.l1_token ELSE q.l2_token
             IN q.state \in {"wait_l1_fill", "wait_l2_fill"} =>
                    /\ Active(m, token)
                    /\ \E w \in ToSet(m.entry[token].waiters) : w[1] = x[1] /\ w[2] = x[2]

\* The exceptions an engine can raise, each with the cause that must be present:
\* any other one would stop a Group that did nothing wrong.
ErrorsExplained ==
    LET lacking == {x \in AllReqs :
                       LET q == Req(eng, x[1], x[2])
                       IN q.bypass /\ IF q.whole THEN q.within = 0 /\ q.size < LineBytes
                                      ELSE q.within > 0}
        cut == {"gather transaction cut", "gather index read cut",
                "gather destination write cut", "scatter fault"}
    IN /\ eng.error \in cut \cup {"none", "unknown or completed MSHR token",
                                   "transaction terminal status changed",
                                   "indexed_address_out_of_bounds",
                                   "gather destination write lacks segment bytes"}
       /\ eng.error \in cut => faults > 0 \/ drain = "cancel"
       /\ eng.error = "unknown or completed MSHR token" => drain # "no"
       /\ eng.error = "transaction terminal status changed" => faults > 0
       /\ eng.error = "indexed_address_out_of_bounds" =>
            \E j \in Jobs : \E i \in DOMAIN Desc[j].indices :
                ~IndexInView(Desc[j].map, Desc[j].indices[i], Desc[j].task, HbmBytes)
       /\ eng.error = "gather destination write lacks segment bytes" => lacking # {}

\* Every indexed job an engine accepts completes, is retired by a reset drain,
\* or stops with an error: no request is left waiting for room in a refill
\* table, for a leader that went away or behind an earlier write.  A job starts
\* once, so there comes a time from which none is active.
EveryJobEnds == <>[](eng.error # "none" \/ \A j \in Jobs : eng.job[j].state # "active")

\* Gathered data is exact and current in spite of two cache levels, merged
\* refills and concurrent maintenance (_tick_gather_request, _step_maintenance).
GatherSound == GatherExact /\ NoStaleLine

\* The refill tables stay within their limits, every refill has an owner, and an
\* engine raises only for a reason (MshrTable, _try_l1_mshr, _try_l2_mshr).
RefillsSound == TypeOK /\ RefillOwned /\ ErrorsExplained
=============================================================================
