------------------------------- MODULE L2Group -------------------------------
(***************************************************************************)
(* The L2 side of a TileGroup: admission of root Contexts to the pool, the *)
(* Group actions that bind, load, dispatch, publish and release L2         *)
(* buffers, the pins and accepted transfers that refer to them, retirement *)
(* of a Context, and the release of everything by a reset.  A Context is   *)
(* its compiled actions, each ready once its dependencies have completed;  *)
(* the scheduler may issue any ready one.                                  *)
(***************************************************************************)
EXTENDS ArenaPool

CONSTANTS
    Program,        \* per owner, its actions: [op, slot, reads, writes, tasks, deps]
    Exports,        \* the local keys that are shared read-only
    SubmitDeps,     \* per owner, the owners whose completion its submit awaits
    ActiveCapacity  \* scheduler_config.active_context_capacity

VARIABLES
    pool,       \* the ArenaPool
    reserved,   \* _l2_reserved_bytes, the Group's mirror of what the pool holds
    liveBytes,  \* _l2_live_bytes
    arenas,     \* the launches in _l2_arenas
    handles,    \* the keys of _l2_handles
    roles,      \* the keys of _l2_roles: the buffers a Context may still release
    published,  \* _l2_published
    released,   \* _l2_released
    exported,   \* the keys of _l2_backing_by_export
    liveBacking,\* the keys of _protocol_live_backing_bytes
    status,     \* per owner: "idle", "queued", "active", "done", "failed"
    waiting,    \* the port's FIFO
    retry,      \* the port has to try the head again
    issued,     \* per owner, the indexes of the actions issued
    events,     \* per owner, the events completed: <<index, phase>>
    tasks,      \* per task <<owner, index, task id>>, where it stands
    transfers,  \* accepted transfers: [id, view, write, ended]
    phase,      \* "run", "drain" (reset under way), "closed", "isolated"
    error       \* a MemoryInvariantError was raised

groupVars == <<reserved, liveBytes, arenas, handles, roles, published, released, exported, liveBacking>>
workVars == <<issued, events, tasks, transfers>>
portVars == <<status, waiting, retry>>
vars == <<pool, groupVars, workVars, portVars, phase, error>>

Actions(o) == DOMAIN Program[o]
Key(o, i) == <<o, Program[o][i].slot>>
GridTasks == UNION {UNION {{<<o, i, t>> : t \in Program[o][i].tasks} : i \in Actions(o)} : o \in Owners}
TasksOf(o, i) == {t \in GridTasks : t[1] = o /\ t[2] = i}
Accessed(t) == {<<t[1], s>> : s \in Program[t[1]][t[2]].reads \cup Program[t[1]][t[2]].writes}
Reads(t, v) == v[2] \in Program[t[1]][t[2]].reads
Writes(t, v) == v[2] \in Program[t[1]][t[2]].writes
GridsUsing(o, slot, kind) ==
    {i \in Actions(o) : Program[o][i].op = "grid" /\ slot \in Program[o][i][kind]}

Active == {o \in Owners : status[o] = "active"}
Outstanding(o) == {t \in transfers : t.id[1] = o}

Init ==
    /\ pool = EmptyPool
    /\ reserved = 0 /\ liveBytes = 0
    /\ arenas = {} /\ handles = {} /\ roles = {} /\ published = {}
    /\ released = {} /\ exported = {} /\ liveBacking = {}
    /\ status = [o \in Owners |-> "idle"]
    /\ waiting = <<>> /\ retry = FALSE
    /\ issued = [o \in Owners |-> {}]
    /\ events = [o \in Owners |-> {}]
    /\ tasks = [t \in GridTasks |-> "none"]
    /\ transfers = {}
    /\ phase = "run" /\ error = FALSE

-----------------------------------------------------------------------------
(* The mirror of the pool.                                                  *)

\* _sync_l2_pool_mirror, with the backings that just became live: drain the
\* final-free events into the occupancy.
SyncNoting(q, slackFreed, new) ==
    \E r \in {q} :
        /\ pool' = [r EXCEPT !.freed = {}]
        /\ reserved' = reserved - MapThenSumSet(Padded, r.freed) - slackFreed
        /\ liveBytes' = liveBytes + MapThenSumSet(Logical, new)
                           - MapThenSumSet(Logical, r.freed \cap (liveBacking \cup new))
        /\ liveBacking' = (liveBacking \cup new) \ r.freed

Sync(q, slackFreed) == SyncNoting(q, slackFreed, {})

\* A step that raises: the issue faults, and the Group begins its drain.
Raise ==
    /\ error' = TRUE /\ phase' = "drain"
    /\ UNCHANGED <<pool, groupVars, workVars, portVars>>

-----------------------------------------------------------------------------
(* The port's FIFO and admission.                                           *)

\* A submit whose dependencies completed reaches the port.
Submit(o) ==
    /\ phase = "run" /\ status[o] = "idle"
    /\ \A d \in SubmitDeps[o] : status[d] = "done"
    /\ status' = [status EXCEPT ![o] = "queued"]
    /\ waiting' = Append(waiting, o)
    /\ retry' = TRUE
    /\ UNCHANGED <<pool, groupVars, workVars, phase, error>>

ImportsOf(o) == {c \in Imports : c[1] = o}

\* The checks of try_admit_context_task that raise.
AdmissionInvalid(o) ==
    \/ \E c \in ImportsOf(o) : Source[c] \notin exported \/ ~CanBorrow(pool, c)
    \/ PlanOutcome(pool, o) = "PERMANENT_CAPACITY"

SlotFree == Cardinality(Active) < ActiveCapacity

\* The admission token: pool_version or the number of active Contexts moved.
TokenMoved == retry \/ pool.moved

\* try_admit_context_task commits: the arena first, then the borrowed views.
Admit ==
    LET o == Head(waiting)
        committed == CommitArena(pool, o)
        borrowed == FoldSet(LAMBDA c, acc : BorrowView(acc, c), committed, ImportsOf(o))
        borrowFails == \E c \in ImportsOf(o) : ~CanBorrow(committed, c)
    IN /\ phase = "run" /\ waiting # <<>> /\ TokenMoved
       /\ SlotFree
       /\ ~AdmissionInvalid(o)
       /\ PlanOutcome(pool, o) = "fits"
       /\ IF ~CanCommitArena(pool, o) \/ borrowFails
          THEN Raise
          ELSE /\ pool' = borrowed
               /\ reserved' = reserved + SizeOf(borrowed.arenas[o].reserve)
               /\ arenas' = arenas \cup {o}
               /\ roles' = roles \cup KeysOf(o)
               /\ handles' = handles \cup ImportsOf(o)
               /\ exported' = exported \cup (Exports \cap LocalOf(o))
               /\ status' = [status EXCEPT ![o] = "active"]
               /\ waiting' = Tail(waiting)
               /\ retry' = TRUE
               /\ UNCHANGED <<liveBytes, liveBacking, published, released, workVars, phase, error>>

\* _l2_submit_successors, closed over the submits of the run.
Successors(o) ==
    LET direct(S) == {d \in Owners : SubmitDeps[d] \cap S # {}}
        reach[n \in 0 .. Cardinality(Owners)] ==
            IF n = 0 THEN direct({o}) ELSE reach[n - 1] \cup direct(reach[n - 1])
    IN reach[Cardinality(Owners)]

\* Mutant: a head that only its own dependents could unblock waits.
NeverRetained(o) == FALSE

\* retained_shared_blocks_admission: the backings that claims of the head, of
\* requests behind it or of its successors hold leave it no room.
RetainedBlocks(o) ==
    LET blockers == {o} \cup {waiting[i] : i \in 2 .. Len(waiting)} \cup Successors(o)
        retained == {k \in exported : pool.backings[k].state = "live" /\
                        \E c \in ClaimsOn(k) : c[1] \in blockers /\ Open(pool.claims[c])}
    IN ~FitsWithRetained(pool, o, retained)

\* _attempt_category: the head waits, and the port remembers the token.
HeadWaits ==
    LET o == Head(waiting)
    IN /\ phase = "run" /\ waiting # <<>> /\ TokenMoved
       /\ \/ ~SlotFree
          \/ /\ ~AdmissionInvalid(o)
             /\ PlanOutcome(pool, o) \in {"WAIT_CAPACITY", "WAIT_FRAGMENTATION"}
             /\ ~RetainedBlocks(o)
       /\ retry' = FALSE
       /\ pool' = [pool EXCEPT !.moved = FALSE]
       /\ UNCHANGED <<groupVars, workVars, status, waiting, phase, error>>

\* _fail_pending: the run fails, and the Group drains.
HeadFails ==
    LET o == Head(waiting)
    IN /\ phase = "run" /\ waiting # <<>> /\ TokenMoved
       /\ SlotFree
       /\ \/ AdmissionInvalid(o)
          \/ /\ PlanOutcome(pool, o) \in {"WAIT_CAPACITY", "WAIT_FRAGMENTATION"}
             /\ RetainedBlocks(o)
       /\ status' = [status EXCEPT ![o] = "failed"]
       /\ waiting' = Tail(waiting)
       /\ phase' = "drain"
       /\ UNCHANGED <<pool, groupVars, workVars, retry, error>>

-----------------------------------------------------------------------------
(* Group actions.                                                           *)

Ready(o, i) ==
    /\ phase = "run" /\ o \in Active /\ i \notin issued[o]
    /\ Program[o][i].deps \subseteq events[o]

Issue(o, i) == issued' = [issued EXCEPT ![o] = @ \cup {i}]
Complete(o, evs) == events' = [events EXCEPT ![o] = @ \cup evs]

\* What bind_l2_view raises on; bind_l2_import only checks what admission installed.
BindUnsafe(k) == k[1] \notin arenas \/ ~CanBind(pool, k)
ImportUnsafe(k) == k \notin handles \/ Source[k] \notin exported \/ ~MayAccess(pool, k, "r")

Bind(o, i) ==
    LET k == Key(o, i)
    IN /\ Ready(o, i) /\ Program[o][i].op = "bind"
       /\ IF IF k \in Imports THEN ImportUnsafe(k) ELSE BindUnsafe(k)
          THEN Raise
          ELSE /\ pool' = IF k \in Imports THEN pool ELSE BindView(pool, k)
               /\ handles' = handles \cup {k}
               /\ Issue(o, i) /\ Complete(o, {<<i, "done">>})
               /\ UNCHANGED <<reserved, liveBytes, arenas, roles, published, released, exported,
                              liveBacking, tasks, transfers, portVars, phase, error>>

\* _resolve_view: a view of a bound buffer, with its permissions.
Resolves(k, permission) == k \in handles /\ MayAccess(pool, k, permission)

\* submit_group_transfer and _acquire_l2_transaction_references.
GroupTransfer(o, i) ==
    LET k == Key(o, i)
        write == Program[o][i].op = "load"
        id == <<o, i, 0>>
    IN /\ Ready(o, i) /\ Program[o][i].op \in {"load", "store"}
       /\ IF ~Resolves(k, IF write THEN "w" ELSE "r") \/ ~CanReference(pool, k)
          THEN Raise
          ELSE /\ pool' = BeginInflight(pool, k, id)
               /\ transfers' = transfers \cup {[id |-> id, view |-> k, write |-> write, ended |-> FALSE]}
               /\ Issue(o, i)
               /\ UNCHANGED <<groupVars, events, tasks, portVars, phase, error>>

\* note_l2_protocol_event: the backings whose bytes become valid.
NewlyLive(ks) == {BackingOf(k) : k \in ks \cap roles \cap handles} \ liveBacking

\* _step_group_transfers: a Group DMA ends, its event is notified and the
\* transfer acknowledged in the same step.
GroupTransferDone ==
    \E t \in transfers :
        LET o == t.id[1]
            good == phase = "run"
        IN /\ t.id[3] = 0
           /\ transfers' = transfers \ {t}
           /\ SyncNoting(EndInflight(pool, t.view, t.id), 0,
                         IF good /\ t.write THEN NewlyLive({t.view}) ELSE {})
           /\ Complete(o, IF good THEN {<<t.id[2], "done">>} ELSE {})
           /\ UNCHANGED <<arenas, handles, roles, published, released, exported, issued, tasks,
                          portVars, phase, error>>

Dispatch(o, i) ==
    /\ Ready(o, i) /\ Program[o][i].op = "grid"
    /\ Issue(o, i)
    /\ tasks' = [t \in GridTasks |-> IF t \in TasksOf(o, i) THEN "routed" ELSE tasks[t]]
    /\ UNCHANGED <<pool, groupVars, events, transfers, portVars, phase, error>>

\* _commit_route_task and _pin_grid_l2: a Tile takes the task, and every L2
\* buffer the task accesses is pinned once.
CommitTask(t) ==
    /\ phase = "run" /\ tasks[t] = "routed"
    /\ IF \E v \in Accessed(t) :
              ~CanReference(pool, v) \/ ~Resolves(v, IF Writes(t, v) THEN "w" ELSE "r")
       THEN Raise
       ELSE /\ pool' = FoldSet(LAMBDA v, acc : PinView(acc, v, t), pool, Accessed(t))
            /\ tasks' = [tasks EXCEPT ![t] = "bound"]
            /\ UNCHANGED <<groupVars, issued, events, transfers, portVars, phase, error>>

\* A Tile's load of its inputs or store of its outputs: one transfer per buffer.
TileViews(t, write) == {v \in Accessed(t) : IF write THEN Writes(t, v) ELSE Reads(t, v)}

TileTransfer(t, write) ==
    LET vs == TileViews(t, write)
    IN /\ phase = "run"
       /\ tasks[t] = (IF write THEN "released" ELSE "bound")
       /\ IF \E v \in vs : ~CanReference(pool, v) \/ ~MayAccess(pool, v, IF write THEN "w" ELSE "r")
          THEN Raise
          ELSE /\ pool' = FoldSet(LAMBDA v, acc : BeginInflight(acc, v, t), pool, vs)
               /\ transfers' = transfers \cup
                     {[id |-> t, view |-> v, write |-> write, ended |-> FALSE] : v \in vs}
               /\ tasks' = [tasks EXCEPT ![t] = IF write THEN "storing" ELSE "loading"]
               /\ UNCHANGED <<groupVars, issued, events, portVars, phase, error>>

\* The transfer of a Tile ends; the engine has not acknowledged it.
TileTransferEnds ==
    \E t \in transfers :
        /\ t.id[3] # 0 /\ ~t.ended
        /\ transfers' = (transfers \ {t}) \cup {[t EXCEPT !.ended = TRUE]}
        /\ UNCHANGED <<pool, groupVars, issued, events, tasks, portVars, phase, error>>

\* _release_l2_transaction_references, when the engine acknowledges.
Acknowledge ==
    \E t \in transfers :
        /\ phase = "run" /\ t.ended
        /\ transfers' = transfers \ {t}
        /\ Sync(EndInflight(pool, t.view, t.id), 0)
        /\ UNCHANGED <<arenas, handles, roles, published, released, exported, issued, events, tasks,
                       portVars, phase, error>>

TaskIdle(t) == \A x \in transfers : x.id # t

\* _unpin_grid_readers: the pins of pure readers go with the aggregate.
UnpinReaders(q, o, i) ==
    FoldSet(LAMBDA t, acc :
        FoldSet(LAMBDA v, inner : UnpinView(inner, v, t), acc,
                {v \in Accessed(t) : Reads(t, v) /\ ~Writes(t, v)}),
        q, TasksOf(o, i))

\* _on_phase_signal("input_released"), the last task's signal completing it.
InputReleased(t) ==
    LET o == t[1] i == t[2]
        others == TasksOf(o, i) \ {t}
        last == \A u \in others : tasks[u] \in {"released", "storing", "ready", "retired"}
    IN /\ phase = "run" /\ tasks[t] = "loading" /\ TaskIdle(t)
       /\ tasks' = [tasks EXCEPT ![t] = "released"]
       /\ IF last
          THEN pool' = UnpinReaders(pool, o, i) /\ Complete(o, {<<i, "in">>})
          ELSE UNCHANGED <<pool, events>>
       /\ UNCHANGED <<groupVars, issued, transfers, portVars, phase, error>>

\* _on_phase_signal("output_ready").
OutputReady(t) ==
    LET o == t[1] i == t[2]
        others == TasksOf(o, i) \ {t}
        last == \A u \in others : tasks[u] \in {"ready", "retired"}
        outs == {<<o, s>> : s \in Program[o][i].writes}
    IN /\ phase = "run" /\ tasks[t] = "storing" /\ TaskIdle(t)
       /\ tasks' = [tasks EXCEPT ![t] = "ready"]
       /\ Complete(o, IF last THEN {<<i, "out">>} ELSE {})
       /\ SyncNoting(pool, 0, IF last THEN NewlyLive(outs) ELSE {})
       /\ UNCHANGED <<arenas, handles, roles, published, released, exported,
                      issued, transfers, portVars, phase, error>>

\* _step_tiles retires a finished task: _unpin_task_l2 drops its last pins.
RetireTask(t) ==
    LET o == t[1] i == t[2]
        pinned == {v \in Accessed(t) : t \in pool.views[v].pins}
    IN /\ phase = "run" /\ tasks[t] = "ready"
       /\ tasks' = [tasks EXCEPT ![t] = "retired"]
       /\ Sync(FoldSet(LAMBDA v, acc : UnpinView(acc, v, t), pool, pinned), 0)
       /\ IF \A u \in TasksOf(o, i) \ {t} : tasks[u] = "retired"
          THEN Complete(o, {<<i, "done">>})
          ELSE UNCHANGED events
       /\ UNCHANGED <<arenas, handles, roles, published, released, exported, issued, transfers,
                      portVars, phase, error>>

-----------------------------------------------------------------------------
(* Publish and release.                                                     *)

\* What _close_l2_access, publish_l2 and release_l2 raise on, for action n.
CloseUnsafe(o, n, publish) ==
    LET k == Key(o, n)
        readers == {i \in GridsUsing(o, k[2], "reads") : i < n}
        writers == {i \in GridsUsing(o, k[2], "writes") : i < n}
        pins == pool.views[k].pins
    IN \/ k \notin roles \/ k \notin handles \/ ~LiveView(pool, k)
       \/ publish /\ (k \notin Exports \/ k \in published \/ ~MayAccess(pool, k, "w"))
       \/ ~publish /\ k \in Exports /\ k \notin published
       \/ \E i \in readers : <<i, "in">> \notin events[o]
       \/ \E i \in writers : <<i, "out">> \notin events[o]
       \/ \E t \in pins :
              \/ ~Writes(t, k) \/ t[2] \notin writers
              \/ Reads(t, k) /\ <<t[2], "in">> \notin events[o]
       \/ publish /\ ~CanPublish(pool, k, pins)
       \/ pool.views[k].inflight # {}

Unpinned(q, k) == FoldSet(LAMBDA t, acc : UnpinView(acc, k, t), q, q.views[k].pins)

Publish(o, i) ==
    LET k == Key(o, i)
    IN /\ Ready(o, i) /\ Program[o][i].op = "publish"
       /\ IF CloseUnsafe(o, i, TRUE)
          THEN Raise
          ELSE /\ pool' = PublishView(Unpinned(pool, k), k)
               /\ published' = published \cup {k}
               /\ Issue(o, i) /\ Complete(o, {<<i, "done">>})
               /\ UNCHANGED <<reserved, liveBytes, arenas, handles, roles, released, exported,
                              liveBacking, tasks, transfers, portVars, phase, error>>

Release(o, i) ==
    LET k == Key(o, i)
    IN /\ Ready(o, i) /\ Program[o][i].op = "release"
       /\ IF CloseUnsafe(o, i, FALSE) \/ ~CanFinalize(Unpinned(pool, k), k)
          THEN Raise
          ELSE /\ Sync(InvalidateView(Unpinned(pool, k), k), 0)
               /\ roles' = roles \ {k}
               /\ released' = released \cup {k}
               /\ Issue(o, i) /\ Complete(o, {<<i, "done">>})
               /\ UNCHANGED <<arenas, handles, published, exported, tasks, transfers, portVars,
                              phase, error>>

\* retire_context_arena, before the completion event is signalled: it waits
\* for the routes, leases, transfers and views of the Context.
RetireContext(o) ==
    \E q \in {RetireArena(pool, o)} :
       /\ phase = "run" /\ o \in Active
       /\ issued[o] = Actions(o)
       /\ \A t \in GridTasks : t[1] = o => tasks[t] = "retired"
       /\ Outstanding(o) = {}
       /\ \A v \in handles \cap KeysOf(o) : ~LiveView(pool, v)
       /\ CanRetireArena(pool, o)
       /\ IF RetireUnsafe(pool, o)
          THEN Raise
          ELSE /\ Sync(q, pool.reserved - q.reserved - MapThenSumSet(Padded, q.freed))
               /\ arenas' = arenas \ {o}
               /\ status' = [status EXCEPT ![o] = "done"]
               /\ retry' = TRUE
               /\ UNCHANGED <<handles, roles, published, released, exported, workVars, waiting,
                              phase, error>>

-----------------------------------------------------------------------------
(* Faults, reset and the end of a run.                                      *)

\* trigger_fault: a Tile, a transfer or the host stops the run.
Fault ==
    /\ phase = "run"
    /\ phase' = "drain"
    /\ UNCHANGED <<pool, groupVars, workVars, portVars, error>>

\* release_context_memory once nothing is in flight: acknowledge, unpin,
\* cancel the views and then the claims, and only then retire the arenas.
Acknowledged(q) ==
    FoldSet(LAMBDA t, acc : EndInflight(acc, t.view, t.id), q, transfers)
Unwound(q) ==
    FoldSet(LAMBDA v, acc : Unpinned(acc, v), q, {v \in Keys : q.views[v].pins # {}})
\* Mutant: the claims that no reader bound are not cancelled.
CancelledViewsOnly(q) == FoldSet(LAMBDA v, acc : CancelView(acc, v), q, handles)

Cancelled(q) ==
    CancelAllClaims(FoldSet(LAMBDA v, acc : CancelView(acc, v), q, handles))
Retired(q) == FoldSet(LAMBDA o, acc : RetireArena(acc, o), q, arenas)

ReleaseContextMemory ==
    \E cancelled \in {Cancelled(Unwound(Acknowledged(pool)))} : \E q \in {Retired(cancelled)} :
       /\ phase = "drain"
       /\ \A t \in transfers : t.ended
       /\ \A o \in arenas : CanRetireArena(cancelled, o)
       /\ IF \E o \in arenas : RetireUnsafe(cancelled, o)
          THEN error' = TRUE /\ UNCHANGED <<pool, groupVars, workVars, portVars, phase>>
          ELSE /\ Sync(q, pool.reserved - q.reserved - MapThenSumSet(Padded, q.freed))
               /\ arenas' = {} /\ handles' = {} /\ roles' = {}
               /\ transfers' = {}
               /\ tasks' = [t \in GridTasks |-> "none"]
               /\ status' = [o \in Owners |-> IF status[o] \in {"active", "queued"} THEN "failed" ELSE status[o]]
               /\ waiting' = <<>>
               /\ phase' = "isolated"
               /\ error' = (error \/ ~PoolClosed(q))
               /\ UNCHANGED <<published, released, exported, issued, events, retry>>

\* The run ends: assert_l2_closed.
RunEnds ==
    /\ phase = "run" /\ \A o \in Owners : status[o] = "done"
    /\ phase' = "closed"
    /\ error' = (error \/ ~PoolClosed(pool))
    /\ UNCHANGED <<pool, groupVars, workVars, portVars>>

\* begin_launch: the manifest of the next run over a closed pool.
BeginLaunch ==
    /\ phase \in {"closed", "isolated"}
    /\ pool' = [CloseClaims(pool) EXCEPT !.moved = FALSE]
    /\ error' = (error \/ ~PoolClosed(pool))
    /\ handles' = {} /\ roles' = {} /\ published' = {} /\ released' = {} /\ exported' = {}
    /\ liveBacking' = {}
    /\ status' = [o \in Owners |-> "idle"]
    /\ issued' = [o \in Owners |-> {}]
    /\ events' = [o \in Owners |-> {}]
    /\ tasks' = [t \in GridTasks |-> "none"]
    /\ retry' = FALSE
    /\ phase' = "run"
    /\ UNCHANGED <<reserved, liveBytes, arenas, transfers, waiting>>

GroupActions ==
    \E o \in Owners : \E i \in Actions(o) :
        Bind(o, i) \/ GroupTransfer(o, i) \/ Dispatch(o, i) \/ Publish(o, i) \/ Release(o, i)

TileActions ==
    \E t \in GridTasks :
        \/ CommitTask(t)
        \/ \E write \in BOOLEAN : TileTransfer(t, write)
        \/ InputReleased(t) \/ OutputReady(t) \/ RetireTask(t)

Work ==
    \/ \E o \in Owners : Submit(o) \/ RetireContext(o)
    \/ Admit \/ HeadWaits \/ HeadFails
    \/ GroupActions \/ GroupTransferDone
    \/ TileActions \/ TileTransferEnds \/ Acknowledge
    \/ ReleaseContextMemory \/ RunEnds

Next == Work \/ Fault \/ BeginLaunch

Spec == Init /\ [][Next]_vars /\ WF_vars(Work)

-----------------------------------------------------------------------------
(* Properties.                                                              *)

\* Every variable has its type.
TypeOK ==
    /\ \A b \in Banks : \A e \in pool.free[b] : e.size > 0 /\ e.start \in SpmStart .. SpmEnd
    /\ arenas \subseteq Owners /\ exported \subseteq Exports
    /\ handles \cup roles \cup released \subseteq Keys
    /\ published \cup liveBacking \subseteq LocalKeys
    /\ status \in [Owners -> {"idle", "queued", "active", "done", "failed"}]
    /\ phase \in {"run", "drain", "closed", "isolated"} /\ error \in BOOLEAN /\ retry \in BOOLEAN
    /\ tasks \in [GridTasks -> {"none", "routed", "bound", "loading", "released", "storing",
                                "ready", "retired"}]
    /\ \A t \in transfers : t.view \in Keys /\ t.id \in pool.views[t.view].inflight

\* Every byte of user SPM is free or held by exactly one live backing or arena
\* slack, the free map is coalesced, and the ledgers of the pool and of the
\* Group's mirror count the same bytes (snapshot, _record_l2_occupancy).
AccountsAgree ==
    LET held == HeldUnits(pool)
        freeCells == UNION {{b} \X CellsOf(pool.free[b]) : b \in Banks}
    IN /\ freeCells \cap SegmentCells(held) = {}
       /\ freeCells \cup SegmentCells(held) = Banks \X (SpmStart .. SpmEnd - 1)
       /\ Cardinality(SegmentCells(held)) = SizeOf(held)
       /\ \A b \in Banks : pool.free[b] = Coalesce(pool.free[b])
       /\ pool.exact = held /\ pool.reserved = SizeOf(held)
       /\ \A k \in LocalKeys : pool.backings[k].state = "live" =>
             CanRelease(pool.free, pool.exact, pool.backings[k].units)
       /\ reserved = pool.reserved + MapThenSumSet(Padded, pool.freed)
       /\ liveBytes = MapThenSumSet(Logical, liveBacking) /\ liveBytes <= reserved

\* No step of a compiled program raises: admission that commits its arena
\* always borrows what it checked, no buffer is published or released early,
\* and a run, complete or reset, leaves the pool closed.
NoInvariantError == ~error

\* The port never sleeps on a head that could be admitted.
HeadNotForgotten ==
    phase = "run" /\ waiting # <<>> /\ SlotFree /\ PlanOutcome(pool, Head(waiting)) = "fits"
        => TokenMoved

\* Who reaches an address: the producer that owns it or still has a view of
\* it, the readers with an open claim, and the arena whose slack it is.
Holds(v) ==
    \/ v \in LocalKeys /\ pool.backings[v].state = "live" /\ pool.backings[v].live
    \/ v \in Imports /\ Open(pool.claims[v])
    \/ LiveView(pool, v) \/ ~Unreferenced(pool, v)
WritesNow(v) ==
    \/ \E t \in transfers : t.view = v /\ t.write
    \/ \E t \in pool.views[v].pins : Writes(t, v)
At(a, v) == a \in SegmentCells(pool.backings[BackingOf(v)].units)
SpmCells == Banks \X (SpmStart .. SpmEnd - 1)

Ownership == INSTANCE L2Ownership WITH
    Addresses <- SpmCells,
    Holders <- Keys \cup Owners,
    holders <- [a \in SpmCells |->
                  {v \in Keys : At(a, v) /\ Holds(v)}
                  \cup {o \in Owners : a \in SegmentCells(pool.arenas[o].slack)}],
    writers <- [a \in SpmCells |-> {v \in Keys : At(a, v) /\ WritesNow(v)}],
    sealed <- {a \in SpmCells : \E k \in LocalKeys :
                  At(a, k) /\ pool.backings[k].state = "live" /\ pool.backings[k].published}

\* The pool implements the abstract ownership of L2: no address is granted
\* while a producer, a claim, a view or a transfer reaches it, and a published
\* one is never written.
OwnershipRefined == Ownership!Spec

\* Every run ends, complete or with the Group isolated: none goes on for ever.
RunSettles == []<>(phase \in {"closed", "isolated"})

\* The pool, its mirror in the Group and the addresses agree, and no step raises
\* a MemoryInvariantError (try_admit_context_task, release_l2, retire).
PoolSound == TypeOK /\ AccountsAgree /\ NoInvariantError
=============================================================================
