-------------------------------- MODULE TileCore --------------------------------
(***************************************************************************)
(* The Tiles of one Group executing Tasks: the control engine (UCE) of a   *)
(* Tile with its contexts, launch queues and engines, the slot frame of    *)
(* each context, and the Group's side of a Task's life: Grid routes,       *)
(* admission, phase signals, L2 pins, retirement and the reset drain.      *)
(*                                                                         *)
(* Cycle is one TileGroup.step as the Tiles see it: every Tile ticks its   *)
(* engines and its UCE, terminals retire, one Task per Tile is admitted,   *)
(* the reset FSM moves.  What happens outside (a job's last cycle, a new   *)
(* dispatch) is a separate action.  The state is the record s; its         *)
(* operators take and return it, because one cycle runs many in order.     *)
(* A Task is <<grid, tile>>.  The code names a launch by context and event *)
(* only; the field by, the Task that issued it, is there for the           *)
(* properties and no step reads it.                                        *)
(*                                                                         *)
(* Left out: events of an external DMA, a context a binding asks for by    *)
(* number, a Task that never fits in L1 (TileAssumption), the profile      *)
(* controller's L1 gate, a second launch, streams other than one, the      *)
(* load of a program beyond the cycles it costs.                           *)
(***************************************************************************)
EXTENDS Integers, SequencesExt, FiniteSetsExt

CONSTANTS NTiles,        \* Tiles 1..NTiles, in step order
          NContexts,     \* UCE contexts of a Tile
          NGrids,        \* Grids 1..NGrids, in dispatch order
          Role,          \* per Grid: [tiles, prog, size, same, signals]
          L1Units,       \* L1 capacity, in units of Role[g].size
          LeaseLimit,    \* requested_contexts_per_tile
          RouteLimit,    \* dispatch_capacity
          QueueDepth,    \* mfe_load_queue_depth, mfe_store_queue_depth
          Channels,      \* mfe_load_channels, mfe_store_channels
          LaneDepth,     \* mfe_pipeline_depth
          StreamDepth,   \* credits of the one stream queue
          BindCycles,    \* frame_bind_cycles
          ColdCycles,    \* prepare_cycles of a Task's admission
          MaxFaults,     \* bound: transfers that fault, commits that fail
          MaxResets      \* bound: resets no fault of a Task asked for

ASSUME TileAssumption ==
    /\ {NTiles, NContexts, NGrids, L1Units, LeaseLimit, RouteLimit} \subseteq Nat \ {0}
    /\ {QueueDepth, Channels, LaneDepth, StreamDepth} \subseteq Nat \ {0}
    /\ {BindCycles, ColdCycles, MaxFaults, MaxResets} \subseteq Nat
    /\ \A g \in 1 .. NGrids : Role[g].size <= L1Units /\ Role[g].tiles \subseteq 1 .. NTiles

VARIABLES s,          \* the Tiles and the Group's books, see Init
          dispatched, \* Grids dispatched so far
          faults,     \* injected faults so far
          resets,     \* resets asked for so far
          beat        \* turns over with every cycle; only fairness speaks of it

vars == <<s, dispatched, faults, resets, beat>>

Tiles == 1 .. NTiles
TileOrder == [t \in Tiles |-> t]
Contexts == 0 .. NContexts - 1
Grids == 1 .. NGrids
TasksOf(g) == {<<g, t>> : t \in Role[g].tiles}
Tasks == UNION {TasksOf(g) : g \in Grids}
NoTask == <<>>
Insts(ctx) == Role[ctx.task[1]].prog

-----------------------------------------------------------------------------
(* Queues and engines.  A lane runs one job and holds the ones behind it.  *)

QueueOrder == <<"BOA", "EVU", "MFE_LOAD", "MFE_GATHER", "MFE_SCATTER", "MFE_STORE", "USE">>
Keys == ToSet(QueueOrder)
Compute == {"BOA", "EVU", "USE"}
Depth(key) == IF key \in Compute THEN 1 ELSE QueueDepth

\* Lanes a queue launches into, first choice first: one per compute engine, the
\* load or store channels, or the places of the indexed jobs.
LanesOf(key) ==
    CASE key \in Compute -> <<<<key, 1>>>>
      [] key \in {"MFE_LOAD", "MFE_STORE"} -> [i \in 1 .. Channels |-> <<key, i>>]
      [] key \in {"MFE_GATHER", "MFE_SCATTER"} -> [i \in 1 .. Channels * LaneDepth |-> <<"INDEXED", i>>]
LaneCapacity(lane) == IF lane[1] \in {"MFE_LOAD", "MFE_STORE"} THEN LaneDepth ELSE 1

\* Tick order: boa, evu, the MFE's load and store lanes and indexed jobs, use.
LaneOrder == LanesOf("BOA") \o LanesOf("EVU") \o LanesOf("MFE_LOAD") \o LanesOf("MFE_STORE")
             \o LanesOf("MFE_GATHER") \o LanesOf("USE")
Lanes == ToSet(LaneOrder)
NoJob == [status |-> "none"]
EmptyLane == [run |-> NoJob, queue |-> <<>>]
Accepted(lane) == Len(lane.queue) + IF lane.run = NoJob THEN 0 ELSE 1
IsTransfer(job) == job.key \notin Compute
ReadsInput(job) == job.key \in {"MFE_LOAD", "MFE_GATHER"}
\* The L1 buffers a descriptor names; a compute descriptor is opaque.
Bases(launch) == IF launch.key \in Compute THEN {} ELSE launch.buffers

\* A step that raises ends the cycle.
Attempt(Op(_), x) == IF x.error = "none" THEN Op(x) ELSE x
InTurn(Op(_, _), seq, x) ==
    LET after[k \in 0 .. Len(seq)] ==
            IF k = 0 THEN x ELSE Attempt(LAMBDA y : Op(y, seq[k]), after[k - 1])
    IN after[Len(seq)]
Raise(x, reason) == [x EXCEPT !.error = IF @ = "none" THEN reason ELSE @]

\* _start_lane: the transaction is submitted when the job becomes the head.
StartLane(lane) ==
    IF lane.queue = <<>> THEN [lane EXCEPT !.run = NoJob]
    ELSE [run |-> [Head(lane.queue) EXCEPT !.status = "running"], queue |-> Tail(lane.queue)]

-----------------------------------------------------------------------------
(* Contexts.                                                               *)

\* A context waits at its head: a wait, a full queue or an empty stream is
\* probed again every cycle, so WAIT_EVENT, WAIT_STREAM and WAIT_ENGINE_QUEUE
\* are "ready" here (wait_refs is only set once every event it names is done).
EmptyContext ==
    [state |-> "empty", task |-> NoTask, pc |-> 1, rec |-> {}, done |-> {}, live |-> {},
     token |-> "none", prepare |-> 0, bind |-> 0]
\* A slot frame: released, prepared for a committed Arena, bound, with the live
\* buffers in its slots (the active, shadow and prepared copies move together).
EmptyFrame == [state |-> "idle", task |-> NoTask, slots |-> {}]
PreparedFrame(task) == [EmptyFrame EXCEPT !.state = "prepared", !.task = task]
BoundFrame(frame) == [frame EXCEPT !.state = "active"]
BindSlot(frame, buffer) == [frame EXCEPT !.slots = @ \cup {buffer}]
ReleaseSlot(frame, buffer) == [frame EXCEPT !.slots = @ \ {buffer}]

Ctx(x, t, c) == x.ctx[t][c]
Faulted(x, t) == \E c \in Contexts : Ctx(x, t, c).state = "fault"

\* _context_available and SlotFrame.is_available.
Available(x, t, c) ==
    /\ \/ Ctx(x, t, c).state = "empty"
       \/ /\ Ctx(x, t, c).state = "done" /\ Ctx(x, t, c).rec \subseteq Ctx(x, t, c).done
          /\ \A key \in Keys : \A k \in DOMAIN x.queue[t][key] : x.queue[t][key][k].ctx # c
    /\ x.frame[t][c] = EmptyFrame

Goto(x, t, c, pc) == [x EXCEPT !.ctx[t][c].pc = pc]
Advance(x, t, c) == Goto(x, t, c, Ctx(x, t, c).pc + 1)

\* _fault_context: the terminal carries the reason to the Group.
FaultContext(x, t, c, reason) ==
    IF Ctx(x, t, c).state = "fault" THEN x
    ELSE [x EXCEPT !.ctx[t][c].state = "fault",
                   !.terminals = Append(@, [task |-> Ctx(x, t, c).task, ctx |-> c, tile |-> t,
                                            status |-> reason])]

\* _complete_context waits for every event the context launched.
CompleteContext(x, t, c) ==
    IF Ctx(x, t, c).rec \subseteq Ctx(x, t, c).done
    THEN [x EXCEPT !.ctx[t][c].state = "done",
                   !.terminals = Append(@, [task |-> Ctx(x, t, c).task, ctx |-> c, tile |-> t,
                                            status |-> "done"])]
    ELSE x

\* _drop_event_ref.
DropEvent(x, t, entry) ==
    [x EXCEPT !.owner[t] = @ \ {<<entry.ctx, entry.ev>>},
              !.ctx[t][entry.ctx].rec = @ \ {entry.ev},
              !.ctx[t][entry.ctx].done = @ \ {entry.ev}]

-----------------------------------------------------------------------------
(* One Tile step: engines, completions, launch queues, contexts, issue.    *)

\* Engine.tick, MFEEngine.tick and the completion of an event: a finished job
\* leaves its lane, the next one starts unless the Tile is frozen.  A drain
\* first retires the transfers that were cut, without completing their events.
Cut == {"cancelled", "faulted"}
\* retire_isolated takes a Scatter as soon as no transaction of it is live, one
\* that has just finished included.
Isolated(job) == job.status \in Cut \/ (job.status = "done" /\ job.key = "MFE_SCATTER")

TickLaneForgets(x, t, l, frozen) ==   \* mutant: the lane's next job is not started
    LET job == x.lane[t][l].run
        next == [x.lane[t][l] EXCEPT !.run = NoJob]
        known == <<job.ctx, job.ev>> \in x.owner[t]
    IN CASE job.status = "done" /\ ~(frozen /\ Isolated(job)) ->
                [x EXCEPT !.lane[t][l] = next,
                          !.ctx[t][job.ctx].done = IF known THEN @ \cup {job.ev} ELSE @]
         [] job # NoJob /\ Isolated(job) /\ frozen -> [x EXCEPT !.lane[t][l].run = NoJob]
         [] OTHER -> x

TickLane(x, t, l, frozen) ==
    LET job == x.lane[t][l].run
        next == IF frozen THEN [x.lane[t][l] EXCEPT !.run = NoJob] ELSE StartLane(x.lane[t][l])
        known == <<job.ctx, job.ev>> \in x.owner[t]
    IN CASE job.status = "done" /\ ~(frozen /\ Isolated(job)) ->
                [x EXCEPT !.lane[t][l] = next,
                          !.ctx[t][job.ctx].done = IF known THEN @ \cup {job.ev} ELSE @]
         [] job # NoJob /\ Isolated(job) /\ frozen -> [x EXCEPT !.lane[t][l].run = NoJob]
         [] OTHER -> x

\* _drain_engine_queues: one launch per queue.  A launch that cannot be built
\* faults its context and drops what is queued on the whole Tile.
ClearQueues(x, t) ==
    LET drop(y, key) == InTurn(LAMBDA z, entry : DropEvent(z, t, entry), y.queue[t][key],
                               [y EXCEPT !.queue[t][key] = <<>>])
    IN InTurn(drop, QueueOrder, x)
\* Every L1 view a launch names resolves to a live buffer of the Task that now
\* runs in the launch's context; the job keeps those handles.
Resolved(x, task, buffer) == buffer \in x.view[task]
TaskOf(x, t, entry) == Ctx(x, t, entry.ctx).task
Buildable(x, t, entry) == \A b \in Bases(entry) : Resolved(x, TaskOf(x, t, entry), b)
Built(x, t, entry) == [entry EXCEPT !.task = TaskOf(x, t, entry)]
\* A lane that runs nothing is preferred to one that only has room.
FreeLanes(x, t, key) ==
    LET lanes == LanesOf(key)
        idle == {i \in DOMAIN lanes : x.lane[t][lanes[i]].run = NoJob}
        room == {i \in DOMAIN lanes : Accepted(x.lane[t][lanes[i]]) < LaneCapacity(lanes[i])}
    IN IF idle # {} THEN idle ELSE room
DrainKeepsEntry(x, t, key) ==   \* mutant: an accepted launch stays queued
    LET entry == Head(x.queue[t][key])
        popped == [x EXCEPT !.queue[t][key] = Tail(@)]
        into(l) == LET held == [x.lane[t][l] EXCEPT !.queue = Append(@, Built(x, t, entry))]
                   IN [x EXCEPT !.lane[t][l] = IF @.run = NoJob THEN StartLane(held) ELSE held]
    IN CASE x.queue[t][key] = <<>> -> x
         [] x.queue[t][key] # <<>> /\ TaskOf(x, t, entry) = NoTask -> DropEvent(popped, t, entry)
         [] x.queue[t][key] # <<>> /\ TaskOf(x, t, entry) # NoTask /\ ~Buildable(x, t, entry) ->
                ClearQueues(FaultContext(DropEvent(popped, t, entry), t, entry.ctx,
                                         "missing or stale tile memory handle"), t)
         [] x.queue[t][key] # <<>> /\ TaskOf(x, t, entry) # NoTask /\ Buildable(x, t, entry)
            /\ FreeLanes(x, t, key) # {} -> into(LanesOf(key)[Min(FreeLanes(x, t, key))])
         [] OTHER -> x

DrainQueue(x, t, key) ==
    LET entry == Head(x.queue[t][key])
        popped == [x EXCEPT !.queue[t][key] = Tail(@)]
        into(l) == LET held == [x.lane[t][l] EXCEPT !.queue = Append(@, Built(x, t, entry))]
                   IN [popped EXCEPT !.lane[t][l] = IF @.run = NoJob THEN StartLane(held) ELSE held]
    IN CASE x.queue[t][key] = <<>> -> x
         [] x.queue[t][key] # <<>> /\ TaskOf(x, t, entry) = NoTask -> DropEvent(popped, t, entry)
         [] x.queue[t][key] # <<>> /\ TaskOf(x, t, entry) # NoTask /\ ~Buildable(x, t, entry) ->
                ClearQueues(FaultContext(DropEvent(popped, t, entry), t, entry.ctx,
                                         "missing or stale tile memory handle"), t)
         [] x.queue[t][key] # <<>> /\ TaskOf(x, t, entry) # NoTask /\ Buildable(x, t, entry)
            /\ FreeLanes(x, t, key) # {} -> into(LanesOf(key)[Min(FreeLanes(x, t, key))])
         [] OTHER -> x

\* _advance_accept and _advance_frame_bind.
AdvanceContext(x, t, c) ==
    LET ctx == Ctx(x, t, c)
        after == IF ctx.bind > 0 THEN "frame_bind" ELSE "ready"
    IN CASE ctx.state = "accept" ->
                [x EXCEPT !.ctx[t][c].prepare = Max({@ - 1, 0}),
                          !.ctx[t][c].state = IF ctx.prepare <= 1 THEN after ELSE @]
         [] ctx.state = "frame_bind" /\ ctx.bind > 1 -> [x EXCEPT !.ctx[t][c].bind = @ - 1]
         [] ctx.state = "frame_bind" /\ ctx.bind <= 1 ->
                IF x.frame[t][c].state = "prepared"
                THEN [x EXCEPT !.ctx[t][c].bind = 0, !.ctx[t][c].state = "ready",
                               !.frame[t][c] = BoundFrame(@)]
                ELSE FaultContext(x, t, c, "l1_frame_fault")
         [] OTHER -> x

\* The buffers of a Task that an unfinished transfer reads or writes.
InflightBuffers(x, task) ==
    UNION {LET job == x.lane[task[2]][l].run
           IN IF job.status \in {"running", "cancelling"} /\ job.task = task THEN Bases(job) ELSE {} :
           l \in Lanes}

\* _probe_head of a ready context.
FaultOf(ctx, ins) ==
    CASE ins.op = "wait" /\ ~(ins.events \subseteq ctx.rec) -> "wait references unknown event"
      [] ins.op = "launch" /\ ~(Bases(ins) \subseteq ctx.live) -> "use-after-free of L1 buffer"
      [] ins.op = "launch" /\ ins.ev \in ctx.rec -> "duplicate completion event"
      [] OTHER -> "none"

Blocked(x, t, ctx, ins) ==
    CASE ins.op = "wait" -> ~(ins.events \subseteq ctx.done)
      [] ins.op = "launch" -> Len(x.queue[t][ins.key]) >= Depth(ins.key)
      [] ins.op = "pop" -> x.stream.fifo = <<>>
      [] ins.op = "acquire" -> x.stream.credits = 0
      [] OTHER -> FALSE
\* A program ends with ret, so the head always exists.
Selectable(x, t, c) ==
    /\ Ctx(x, t, c).state = "ready"
    /\ \/ FaultOf(Ctx(x, t, c), Insts(Ctx(x, t, c))[Ctx(x, t, c).pc]) # "none"
       \/ ~Blocked(x, t, Ctx(x, t, c), Insts(Ctx(x, t, c))[Ctx(x, t, c).pc])

\* A launch is refused to a buffer that is not bound; an L1 buffer is freed only
\* when every recorded launch before it that may touch it has completed.
PriorEvents(ctx, buffer) ==
    {Insts(ctx)[k].ev : k \in {j \in 1 .. ctx.pc - 1 :
        /\ Insts(ctx)[j].op = "launch" /\ Insts(ctx)[j].ev \in ctx.rec
        /\ Insts(ctx)[j].key \in Compute \/ buffer \in Insts(ctx)[j].buffers}}

FreeRefused(x, ctx, buffer) ==
    CASE buffer \notin ctx.live -> "tile.free: double free"
      [] buffer \in ctx.live /\ ~(PriorEvents(ctx, buffer) \subseteq ctx.done) -> "tile.free: pending event"
      [] buffer \in InflightBuffers(x, ctx.task) -> "tile.free: in-flight transfer"
      [] OTHER -> "none"

\* _free_l1
FreeL1(x, t, c, buffer) ==
    IF FreeRefused(x, Ctx(x, t, c), buffer) # "none"
    THEN FaultContext(x, t, c, FreeRefused(x, Ctx(x, t, c), buffer))
    ELSE Advance([x EXCEPT !.view[Ctx(x, t, c).task] = @ \ {buffer}, !.frame[t][c] = ReleaseSlot(@, buffer),
                           !.ctx[t][c].live = @ \ {buffer}], t, c)

\* ALLOC_L1: the Arena binds a buffer once, then the frame takes it into a slot.
AllocL1(x, t, c, buffer) ==
    LET task == Ctx(x, t, c).task
        bound == [x EXCEPT !.bound[task] = @ \cup {buffer}]
    IN CASE buffer \in x.bound[task] -> FaultContext(x, t, c, "tile.alloc")
         [] buffer \notin x.bound[task] /\ x.frame[t][c].state # "active" -> FaultContext(bound, t, c, "tile.alloc")
         [] OTHER -> Advance([bound EXCEPT !.view[task] = @ \cup {buffer}, !.frame[t][c] = BindSlot(@, buffer),
                                           !.ctx[t][c].live = @ \cup {buffer}], t, c)

\* _enqueue_engine_launch
Launch(x, t, c, ins) ==
    LET entry == [ctx |-> c, ev |-> ins.ev, by |-> Ctx(x, t, c).task, task |-> NoTask, key |-> ins.key,
                  buffers |-> ins.buffers, status |-> "queued"]
    IN Advance([x EXCEPT !.queue[t][ins.key] = Append(@, entry), !.owner[t] = @ \cup {<<c, ins.ev>>},
                         !.ctx[t][c].rec = @ \cup {ins.ev}], t, c)

\* on_scheduler_fault and trigger_fault: one reset for the Group.
GroupFault(x) ==
    [x EXCEPT !.seqFaulted = TRUE, !.reset = IF @ = "no" THEN "detected" ELSE @]

SignalUnpinsEarly(x, task) ==   \* mutant: the first signal of a Grid drops its pins
    LET seen == x.seen \cup {task}
    IN CASE task \in x.seen \/ ~Role[task[1]].signals -> GroupFault(x)
         [] task \notin x.seen /\ Role[task[1]].signals /\ task \in seen ->
                [x EXCEPT !.seen = seen, !.pinned = @ \ TasksOf(task[1])]
         [] OTHER -> [x EXCEPT !.seen = seen]

\* _on_phase_signal: the last Task of the Grid to signal input_released drops
\* the pins of every reader of the Grid.
SignalPhase(x, task) ==
    LET seen == x.seen \cup {task}
    IN CASE task \in x.seen \/ ~Role[task[1]].signals -> GroupFault(x)
         [] task \notin x.seen /\ Role[task[1]].signals /\ TasksOf(task[1]) \subseteq seen ->
                [x EXCEPT !.seen = seen, !.pinned = @ \ TasksOf(task[1])]
         [] OTHER -> [x EXCEPT !.seen = seen]

\* StreamToken.is_valid: EOS carries no credit; the token of an acquire does.
Valid == {"tok", "lease"}
\* STREAM_PUSH sends the token of its register, or a new one.
Pushed(token) == IF token = "eos" THEN "eos" ELSE "tok"

\* _issue_context
Issue(x, t, c, ins) ==
    CASE ins.op = "launch" -> Launch(x, t, c, ins)
      [] ins.op = "alloc" -> AllocL1(x, t, c, ins.buffer)
      [] ins.op = "free" -> FreeL1(x, t, c, ins.buffer)
      [] ins.op = "signal" -> Advance(SignalPhase(x, Ctx(x, t, c).task), t, c)
      [] ins.op \in {"nop", "wait"} -> Advance(x, t, c)
      [] ins.op = "br" -> Goto(x, t, c, ins.to)
      [] ins.op = "br_eos" -> IF Ctx(x, t, c).token = "eos" THEN Goto(x, t, c, ins.to) ELSE Advance(x, t, c)
      [] ins.op = "pop" -> Advance([x EXCEPT !.ctx[t][c].token = Head(x.stream.fifo),
                                             !.stream.fifo = Tail(@)], t, c)
      [] ins.op = "acquire" -> Advance([x EXCEPT !.ctx[t][c].token = "lease", !.stream.credits = @ - 1], t, c)
      [] ins.op = "push" -> Advance([x EXCEPT !.stream.fifo = Append(@, Pushed(Ctx(x, t, c).token))], t, c)
      [] ins.op = "push_eos" -> Advance([x EXCEPT !.stream.fifo = Append(@, "eos")], t, c)
      [] ins.op = "release" -> Advance([x EXCEPT !.stream.credits = @ + (IF Ctx(x, t, c).token \in Valid THEN 1 ELSE 0),
                                                 !.ctx[t][c].token = "none"], t, c)
      [] ins.op = "trap" -> FaultContext(x, t, c, "trap")
      [] ins.op = "ret" -> CompleteContext(x, t, c)

\* _select_context: round robin over the heads that can issue or must fault.
RoundRobin(x, t) == [k \in 1 .. NContexts |-> (x.rr[t] + k - 1) % NContexts]
SelectAndIssue(x, t) ==
    LET able == {k \in 1 .. NContexts : Selectable(x, t, RoundRobin(x, t)[k])}
        issue(c) == LET ins == Insts(Ctx(x, t, c))[Ctx(x, t, c).pc]
                        turned == [x EXCEPT !.rr[t] = (c + 1) % NContexts]
                        fault == FaultOf(Ctx(x, t, c), ins)
                    IN IF fault # "none" THEN FaultContext(turned, t, c, fault) ELSE Issue(turned, t, c, ins)
    IN IF able = {} THEN x ELSE issue(RoundRobin(x, t)[Min(able)])

\* _UCE.step after the engines: a frozen Tile only takes completions, a faulted
\* one also launches what is queued.
ContextOrder == [k \in 1 .. NContexts |-> k - 1]
UnlessFaulted(Op(_), x, t) == IF Faulted(x, t) THEN x ELSE Op(x)
StepUce(x, t) ==
    UnlessFaulted(LAMBDA z : SelectAndIssue(z, t),
        UnlessFaulted(LAMBDA y : InTurn(LAMBDA w, c : AdvanceContext(w, t, c), ContextOrder, y),
            InTurn(LAMBDA w, key : DrainQueue(w, t, key), QueueOrder, x), t), t)
TickEngines(x, t, frozen) == InTurn(LAMBDA y, l : TickLane(y, t, l, frozen), LaneOrder, x)
StepTile(x, t, frozen) ==
    IF frozen THEN TickEngines(x, t, frozen) ELSE StepUce(TickEngines(x, t, frozen), t)

-----------------------------------------------------------------------------
(* The Group: terminals, retirement, admission, reset.                     *)

\* The first half of _step_tiles.
TakeTerminal(x, terminal) ==
    CASE terminal.task[1] \notin x.route -> Raise(x, "stale or foreign Task terminal")
      [] terminal.task[1] \in x.route /\ terminal.status # "done" -> GroupFault(x)
      [] OTHER -> [x EXCEPT !.retiring = Append(@, terminal.task)]
TakeTerminals(x) == InTurn(TakeTerminal, x.terminals, [x EXCEPT !.terminals = <<>>])
StepTiles(x, frozen) == InTurn(LAMBDA y, t : TakeTerminals(StepTile(y, t, frozen)), TileOrder, x)

CompleteRouteEarly(x, g) ==   \* mutant: the first Task to retire ends the Grid
    IF TasksOf(g) \cap x.retired # {}
    THEN [x EXCEPT !.route = @ \ {g}, !.notified[g] = IF x.seqFaulted THEN "error" ELSE "done"]
    ELSE x

\* The second half: a finished Task gives back views, Arena, pins, frame and
\* lease; the last one of its Grid completes the dispatch.
CompleteRoute(x, g) ==
    IF TasksOf(g) \subseteq x.retired
    THEN [x EXCEPT !.route = @ \ {g}, !.notified[g] = IF x.seqFaulted THEN "error" ELSE "done"]
    ELSE x
GiveBack(x, task) ==
    [x EXCEPT !.view[task] = {}, !.arena = @ \ {task}, !.pinned = @ \ {task}, !.lease = @ \ {task},
              !.frame[task[2]][x.admit[task]] = EmptyFrame]

RetireTask(x, task) ==
    CASE task \notin x.arena -> Raise(x, "terminal has no committed Task Arena")
      [] task \in x.arena /\ x.view[task] \cap InflightBuffers(x, task) # {} -> x
      [] task \in x.arena /\ x.view[task] \cap InflightBuffers(x, task) = {} /\ task \notin x.lease ->
             Raise(x, "Task retirement has no R lease")
      [] OTHER -> CompleteRoute([GiveBack(x, task) EXCEPT !.retired = @ \cup {task},
                                                          !.retiring = SelectSeq(@, LAMBDA u : u # task)],
                                task[1])
Retire(x) == InTurn(RetireTask, x.retiring, x)

\* plan_admission: the Arena is one extent of L1, at the first place that is free.
Extent(first, task) == first .. first + Role[task[1]].size - 1
Arenas(x, t) == {u \in x.arena : u[2] = t}
Places(x, task) ==
    {b \in 0 .. L1Units - Role[task[1]].size :
        \A u \in Arenas(x, task[2]) : Extent(b, task) \cap Extent(x.base[u], u) = {}}
FreeContexts(x, t) == {c \in Contexts : Available(x, t, c)}
Admissible(x, task) ==
    /\ Cardinality({u \in x.lease : u[2] = task[2]}) < LeaseLimit
    /\ FreeContexts(x, task[2]) # {}
    /\ Places(x, task) # {}

\* commit_admission reserves the Arena and stages the frame, then the L2 inputs
\* are pinned; abort_admission undoes it when a pin is refused.
CommitAdmission(x, task, c) ==
    [x EXCEPT !.arena = @ \cup {task}, !.base[task] = Min(Places(x, task)), !.bound[task] = {},
              !.frame[task[2]][c] = PreparedFrame(task)]
AbortAdmission(x, task, c) ==
    [x EXCEPT !.arena = @ \ {task}, !.frame[task[2]][c] = EmptyFrame]
\* load_program: the context forgets its previous Task's events.
BindContext(x, task, c) ==
    [x EXCEPT !.owner[task[2]] = {o \in @ : o[1] # c},
              !.ctx[task[2]][c] = [EmptyContext EXCEPT !.state = "accept", !.task = task,
                                                       !.prepare = 1 + ColdCycles, !.bind = BindCycles]]
CommitRouteTask(x, task, c, refused) ==
    IF refused THEN GroupFault(AbortAdmission(CommitAdmission(x, task, c), task, c))
    ELSE [BindContext(CommitAdmission(x, task, c), task, c) EXCEPT
             !.pinned = @ \cup {task}, !.lease = @ \cup {task}, !.admit[task] = c]

\* _step_task_admission: per Tile, the oldest route in the current L1 mode that
\* is not admitted there, else the oldest one of another mode.
Heads(x, t) ==
    UNION {LET waiting == {g \in x.route : t \in Role[g].tiles /\ Role[g].same = same
                                           /\ x.admit[<<g, t>>] = -1}
           IN IF waiting = {} THEN {} ELSE {Min(waiting)} : same \in BOOLEAN}
AdmitOne(x, t, refused) ==
    LET able == {g \in Heads(x, t) : Admissible(x, <<g, t>>)}
        first == {g \in able : Role[g].same}
        g == Min(IF first # {} THEN first ELSE able)
    IN IF x.seqFaulted \/ able = {} THEN x
       ELSE CommitRouteTask(x, <<g, t>>, Min(FreeContexts(x, t)), refused)
Admission(x, refused) ==
    IF x.reset \notin {"no", "over"} THEN x
    ELSE InTurn(LAMBDA y, t : AdmitOne(y, t, refused), TileOrder, x)

\* FREEZE_DISPATCH drops launches no engine accepted and lane jobs never submitted.
CancelLanes(x) ==
    [x EXCEPT !.lane = [t \in Tiles |-> [l \in Lanes |-> [@[t][l] EXCEPT !.queue = <<>>]]]]
CancelUnissued(x) == CancelLanes(InTurn(LAMBDA y, t : ClearQueues(y, t), TileOrder, x))
\* retire_isolated on some Tiles: transfers that were cut leave their lanes.
RetireIsolated(x, tiles) ==
    [x EXCEPT !.lane = [t \in Tiles |-> [l \in Lanes |->
        IF t \in tiles /\ @[t][l].run # NoJob /\ Isolated(@[t][l].run) THEN [@[t][l] EXCEPT !.run = NoJob] ELSE @[t][l]]]]
\* cancel_all and request_cancel_active after max_drain_cycles; compute jobs
\* finish by themselves.
CutTransfers(x) ==
    RetireIsolated([x EXCEPT !.lane = [t \in Tiles |-> [l \in Lanes |->
        IF @[t][l].run.status = "running" /\ IsTransfer(@[t][l].run)
        THEN [@[t][l] EXCEPT !.run.status = "cancelling"] ELSE @[t][l]]]], Tiles)
\* _outstanding_zero: with the transfer manager quiescent (a FAULTED transfer
\* counts until it is acknowledged), Tile by Tile the cut transfers leave and the
\* first Tile that still has accepted work ends the search.
TransfersQuiet(x) ==
    \A t \in Tiles, l \in Lanes :
        LET job == x.lane[t][l].run
        IN job # NoJob /\ IsTransfer(job) => job.status \notin {"running", "cancelling", "faulted"}
Busy(x, t) == \E l \in Lanes : x.lane[t][l] # EmptyLane
Quiet(x) == \A t \in Tiles : ~Busy(x, t)
Searched(x) ==
    LET busy == {t \in Tiles : Busy(RetireIsolated(x, Tiles), t)}
    IN CASE ~TransfersQuiet(x) -> x
         [] TransfersQuiet(x) /\ busy = {} -> RetireIsolated(x, Tiles)
         [] OTHER -> RetireIsolated(x, 1 .. Min(busy))

\* release_context_memory: the pins go first, then every admission of every
\* route, those whose Task has already retired included.
ReleaseAdmission(x, task) ==
    CASE x.admit[task] = -1 -> x
      [] x.admit[task] # -1 /\ task \notin x.arena -> Raise(x, "double arena release")
      [] OTHER -> GiveBack(x, task)
ReleaseRoute(x, g) ==
    Attempt(LAMBDA y : [y EXCEPT !.route = @ \ {g}],
            InTurn(ReleaseAdmission, SetToSortSeq(TasksOf(g), LAMBDA u, v : u[2] < v[2]), x))

ResetTiles(x) ==
    [x EXCEPT !.retiring = <<>>, !.seen = {}, !.terminals = <<>>,
              !.ctx = [t \in Tiles |-> [c \in Contexts |-> EmptyContext]],
              !.queue = [t \in Tiles |-> [key \in Keys |-> <<>>]],
              !.lane = [t \in Tiles |-> [l \in Lanes |-> EmptyLane]],
              !.owner = [t \in Tiles |-> {}], !.rr = [t \in Tiles |-> 0],
              !.frame = [t \in Tiles |-> [c \in Contexts |-> EmptyFrame]]]
ReleaseContextMemory(x) ==
    Attempt(LAMBDA y : IF y.arena # {} THEN Raise(y, "Tile reset before Task Arena retirement")
                       ELSE [ResetTiles(y) EXCEPT !.reset = "clear"],
            InTurn(ReleaseRoute, SetToSortSeq(x.route, <), [x EXCEPT !.pinned = {}]))

FullStream == [fifo |-> <<>>, credits |-> StreamDepth]
\* ResetDomain.step; expired says that the drain has lasted max_drain_cycles.
StepReset(x, expired) ==
    CASE x.reset = "detected" -> [x EXCEPT !.reset = "stop"]
      [] x.reset = "stop" -> [x EXCEPT !.reset = "freeze"]
      [] x.reset = "freeze" -> [CancelUnissued(x) EXCEPT !.reset = "drain"]
      [] x.reset = "drain" /\ Quiet(Searched(x)) -> [Searched(x) EXCEPT !.reset = "mark"]
      [] x.reset = "drain" /\ ~Quiet(Searched(x)) -> IF expired THEN CutTransfers(Searched(x)) ELSE Searched(x)
      [] x.reset = "mark" -> [x EXCEPT !.reset = "domain"]
      [] x.reset = "domain" /\ ~TransfersQuiet(x) ->
             Raise(x, "reset proceeded before transfer cancellation was confirmed")
      [] x.reset = "domain" /\ TransfersQuiet(x) -> ReleaseContextMemory(x)
      [] x.reset = "clear" -> [x EXCEPT !.stream = FullStream, !.reset = "resume"]
      [] x.reset = "resume" -> [x EXCEPT !.reset = "over"]
      [] OTHER -> x

-----------------------------------------------------------------------------
(* The actions.                                                            *)

FrozenStates == {"stop", "freeze", "drain", "mark", "domain", "clear", "resume"}
Resetting == {"detected"} \cup FrozenStates

Init ==
    /\ s = [ctx |-> [t \in Tiles |-> [c \in Contexts |-> EmptyContext]],
            queue |-> [t \in Tiles |-> [key \in Keys |-> <<>>]],
            lane |-> [t \in Tiles |-> [l \in Lanes |-> EmptyLane]],
            owner |-> [t \in Tiles |-> {}],
            rr |-> [t \in Tiles |-> 0],
            frame |-> [t \in Tiles |-> [c \in Contexts |-> EmptyFrame]],
            view |-> [u \in Tasks |-> {}], bound |-> [u \in Tasks |-> {}],
            base |-> [u \in Tasks |-> 0], admit |-> [u \in Tasks |-> -1],
            arena |-> {}, pinned |-> {}, lease |-> {}, seen |-> {}, retired |-> {},
            retiring |-> <<>>, terminals |-> <<>>,
            route |-> {}, notified |-> [g \in Grids |-> "no"],
            stream |-> FullStream, seqFaulted |-> FALSE, reset |-> "no", error |-> "none"]
    /\ dispatched = 0 /\ faults = 0 /\ resets = 0 /\ beat = FALSE

\* TileGroup.step as the Tiles see it.
Step(x, expired, refused) ==
    Attempt(LAMBDA z : StepReset(z, expired),
        Attempt(LAMBDA y : Admission(y, refused),
            Attempt(Retire, StepTiles(x, x.reset \in FrozenStates))))
Cycle(expired, refused) ==
    /\ s.error = "none"
    /\ refused => faults < MaxFaults
    /\ expired => s.reset = "drain"
    /\ s' = Step(s, expired, refused)
    /\ refused => s'.seqFaulted /\ ~s.seqFaulted
    /\ faults' = IF refused THEN faults + 1 ELSE faults
    /\ beat' = ~beat
    /\ UNCHANGED <<dispatched, resets>>

\* A job reaches its last cycle, or its cancellation is confirmed.
Ripen(t, l) ==
    /\ s.error = "none"
    /\ s.lane[t][l].run.status \in {"running", "cancelling"}
    /\ s' = [s EXCEPT !.lane[t][l].run.status = IF @ = "running" THEN "done" ELSE "cancelled"]
    /\ UNCHANGED <<dispatched, faults, resets, beat>>

\* A lane's transfer ends FAULTED.
FaultTransfer(t, l) ==
    /\ s.error = "none" /\ faults < MaxFaults
    /\ s.lane[t][l].run.status = "running" /\ s.lane[t][l].run.key \in {"MFE_LOAD", "MFE_STORE"}
    /\ s' = [s EXCEPT !.lane[t][l].run.status = "faulted"]
    /\ faults' = faults + 1
    /\ UNCHANGED <<dispatched, resets, beat>>

\* dispatch_role registers a route and reserves nothing.
Dispatch ==
    /\ s.error = "none" /\ s.reset = "no" /\ ~s.seqFaulted
    /\ dispatched < NGrids /\ Cardinality(s.route) < RouteLimit
    /\ dispatched' = dispatched + 1
    /\ s' = [s EXCEPT !.route = @ \cup {dispatched'}]
    /\ UNCHANGED <<faults, resets, beat>>

\* trigger_fault from outside the Tiles: a scheduler, transfer or profile fault.
RequestReset ==
    /\ s.error = "none" /\ s.reset = "no" /\ resets < MaxResets
    /\ s' = GroupFault(s)
    /\ resets' = resets + 1
    /\ UNCHANGED <<dispatched, faults, beat>>

Next ==
    \/ \E expired, refused \in BOOLEAN : Cycle(expired, refused)
    \/ \E t \in Tiles, l \in Lanes : Ripen(t, l)
    \/ \E t \in Tiles, l \in Lanes : FaultTransfer(t, l)
    \/ Dispatch
    \/ RequestReset

Spec == Init /\ [][Next]_vars
\* The simulator calls step every cycle and jobs have finite latencies.  Only a
\* cycle turns the beat, so its fairness is stated on the beat alone.
FairSpec ==
    /\ Spec
    /\ WF_beat(s.error = "none" /\ beat' = ~beat)
    /\ WF_vars(\E t \in Tiles, l \in Lanes : Ripen(t, l))

-----------------------------------------------------------------------------
(* Properties.                                                             *)

ContextStates == {"empty", "accept", "frame_bind", "ready", "done", "fault"}
\* The launches of a Tile that no engine has finished: queue entries, jobs waiting
\* in a lane and running jobs, with their number of occurrences.
LaneJobs(lane) == IF lane.run = NoJob THEN lane.queue ELSE <<lane.run>> \o lane.queue
Unfinished(t) ==
    FlattenSeq([k \in DOMAIN QueueOrder |-> s.queue[t][QueueOrder[k]]])
    \o FlattenSeq([k \in DOMAIN LaneOrder |-> LaneJobs(s.lane[t][LaneOrder[k]])])
Held(t) == ToSet(Unfinished(t))
Running(t) == {s.lane[t][l].run : l \in Lanes} \ {NoJob}

\* Shape of the record, and the bounds of queues, lanes, streams and counters.
TypeOK ==
    /\ dispatched \in 0 .. NGrids /\ faults \in 0 .. MaxFaults /\ resets \in 0 .. MaxResets
    /\ \A t \in Tiles :
         /\ \A c \in Contexts : Ctx(s, t, c).state \in ContextStates /\ s.frame[t][c].state \in {"idle", "prepared", "active"}
         /\ \A key \in Keys : Len(s.queue[t][key]) <= Depth(key)
         /\ \A l \in Lanes : Accepted(s.lane[t][l]) <= LaneCapacity(l)
    /\ s.arena \cup s.pinned \cup s.lease \cup s.seen \cup s.retired \subseteq Tasks
    /\ s.stream.credits \in 0 .. StreamDepth
    /\ s.reset \in Resetting \cup {"no", "over"}

\* A context's open events are exactly the launches that queues and engines still
\* hold for it, each held once and on behalf of the Task that now runs there;
\* runtime ids are only ctx and name, so a launch left behind by an earlier Task
\* would complete the wrong event (tile.py _context_available, _complete_context).
\* Not claimed in a drain, which drops accepted work.
EventsExact ==
    s.reset \in {"no", "detected"} /\ s.error = "none" =>
        \A t \in Tiles :
            /\ Len(Unfinished(t)) = Cardinality({<<e.ctx, e.ev>> : e \in Held(t)})
            /\ \A e \in Held(t) : e.by = Ctx(s, t, e.ctx).task /\ <<e.ctx, e.ev>> \in s.owner[t]
            /\ \A c \in Contexts : Ctx(s, t, c).rec \ Ctx(s, t, c).done = {e.ev : e \in {h \in Held(t) : h.ctx = c}}

\* The Arenas on a Tile do not overlap, a Task's Arena, lease and frame live and die
\* together, the three copies of its live buffers agree, and no unfinished launch
\* names a buffer that was freed (tile.py _free_l1, tile_group.py _step_tiles).
L1Exact ==
    s.error = "none" =>
        /\ \A u, v \in s.arena : u # v /\ u[2] = v[2] => Extent(s.base[u], u) \cap Extent(s.base[v], v) = {}
        /\ s.arena = s.lease
        /\ s.arena = {s.frame[t][c].task : t \in Tiles, c \in Contexts} \ {NoTask}
        /\ \A t \in Tiles, c \in Contexts : s.frame[t][c].task # NoTask =>
               /\ s.frame[t][c].task = Ctx(s, t, c).task /\ s.admit[Ctx(s, t, c).task] = c
               /\ s.frame[t][c].slots = s.view[Ctx(s, t, c).task] /\ s.frame[t][c].slots = Ctx(s, t, c).live
        /\ \A t \in Tiles : \A e \in Held(t) : e.by \in s.arena /\ e.buffers \subseteq s.view[e.by]

\* While a load of a Task is unfinished the Task still pins its L2 inputs: the
\* pins of a Grid go only when every Task of it has signalled input_released, or
\* with the Task itself (tile_group.py _on_phase_signal, _unpin_grid_readers).
PinsCover ==
    s.error = "none" => \A t \in Tiles : \A e \in Held(t) : ReadsInput(e) => e.by \in s.pinned

\* No step of the Tiles or of the Group runs into one of its own invariant errors
\* (stale terminal, missing Arena or lease).  The release of an Arena that its
\* Task has already retired is a finding of its own, see ResetIsBounded.
NoInternalError == s.error \in {"none", "double arena release"}

\* A dispatch reported done has every Task retired and nothing of it is left in
\* a queue, an engine, a frame or the Group's books (_step_tiles, CompleteRoute).
DoneMeansFinished ==
    \A g \in Grids : s.notified[g] = "done" =>
        /\ TasksOf(g) \subseteq s.retired /\ g \notin s.route
        /\ TasksOf(g) \cap (s.arena \cup s.pinned \cup s.lease \cup ToSet(s.retiring)) = {}
        /\ \A t \in Tiles : \A e \in Held(t) : e.by[1] # g
        /\ \A t \in Role[g].tiles, c \in Contexts :
               Ctx(s, t, c).task = <<g, t>> => Ctx(s, t, c).state = "done" /\ Ctx(s, t, c).live \cap s.frame[t][c].slots = {}

\* After a reset nothing of the abandoned Tasks is left.
ResetLeavesNothing ==
    s.reset = "over" =>
        /\ Quiet(s) /\ s.stream = FullStream
        /\ s.arena \cup s.pinned \cup s.lease \cup s.seen \cup s.route = {}
        /\ \A t \in Tiles : s.owner[t] = {} /\ \A c \in Contexts : Available(s, t, c)

\* Every dispatched Grid is reported, or the Group's reset comes to its end,
\* unless a FAULTED transfer blocks a lane, which nothing outside a reset
\* harvests.  Finitely many Grids are dispatched, so the Tiles come to rest.
EveryTaskEnds ==
    <>[](\/ \A g \in Grids : g <= dispatched => s.notified[g] # "no"
         \/ s.reset = "over" \/ s.error # "none"
         \/ \E t \in Tiles, l \in Lanes : s.lane[t][l].run.status = "faulted")

\* The fault drain is bounded: it never stops at an internal error.  on_scheduler_fault
\* says "enter the existing bounded Group fault drain".
ResetIsBounded == s.error # "double arena release"

\* Every launch belongs to one event of the Task that now runs in its context
\* (_context_available, _complete_context).
WorkExact == TypeOK /\ EventsExact

\* L1 buffers and L2 pins outlive the work that uses them (_free_l1,
\* _unpin_grid_readers).
MemoryExact == L1Exact /\ PinsCover

\* Completions and resets leave nothing behind and raise nothing (_step_tiles,
\* release_context_memory).
EndsClean == NoInternalError /\ DoneMeansFinished /\ ResetLeavesNothing
=============================================================================
