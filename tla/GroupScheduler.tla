--------------------------- MODULE GroupScheduler ---------------------------
(***************************************************************************)
(* The ready-action scheduler of one Tile Group: GroupScheduler,           *)
(* TileGroupSequencer (one per Context), the event table they share, and   *)
(* the parts of TileGroup.step and of the reset FSM that drive them.       *)
(*                                                                         *)
(* One tick of TileGroup.step is the cycle of phases                       *)
(*   arrive -> issue -> register -> finish -> close                        *)
(* In "arrive" any number of completions comes in (transfers, collectives, *)
(* Tile phase signals, Grid retirements, configuration commands) and the   *)
(* port may admit a Context; then at most one old action is issued, at     *)
(* most one new one is registered, Contexts are declared done, the reset   *)
(* FSM advances and done Contexts are retired.  While the FSM is active    *)
(* the tick skips issue and register.                                      *)
(*                                                                         *)
(* A launch is a Context; its event names are namespaced, so the programs  *)
(* of two launches share none.  Which operands an action touches is left   *)
(* to the memory modules; here an issue can be refused (Gated) or fail     *)
(* (Faulty), and an accepted transfer can end in error.                    *)
(***************************************************************************)
EXTENDS EventTableOps, EventFrontier

CONSTANTS
    Programs,           \* the compiled task of each launch
    Policy,             \* "s0" (in order per Context) or "s1"
    SameProgram,        \* epoch_policy = "same_program"
    ActiveCapacity, ActionCapacity, ContextQuota, ScanWidth, InflightCapacity,
    AdapterCapacity,    \* function from adapters to capacities
    Gated,              \* ops an issue gate or a busy controller may refuse
    Faulty,             \* ops whose issue or completion may fail
    NoKey               \* no dispatch epoch is open

\* _adapter_for and _is_async: the ops with an adapter credit of their own, and
\* those that complete later.
Adapters == {"prefetch", "store", "dispatch"}
Async == Adapters \cup {"collective"}
Transfers == {"prefetch", "store", "collective"}
Sync == {"bind", "wait", "barrier", "signal"}

\* What the loader demands of an action: a DMA, a collective and a dispatch have a
\* completion event, and only a dispatch has phase events, all of them others, and a
\* program to run.
\* The compiler gives a configuration command no event.
ActionOK(a) ==
    /\ a.op \in Async \cup Sync \cup {"control"}
    /\ a.op \in Async => \E n \in Names : a.dst = {n}
    /\ a.op # "dispatch" => a.phases = {}
    /\ a.dst \cap a.phases = {}
    /\ a.op = "dispatch" => a.key # NoKey
    /\ a.op = "control" => a.dst = {}

ASSUME ProgramAssumption ==
    /\ DOMAIN Programs = Launches
    /\ \A l \in Launches :
          /\ Programs[l] \in Seq({Programs[l][i] : i \in DOMAIN Programs[l]})
          /\ WellFormed(Programs[l])
          /\ \A i \in DOMAIN Programs[l] : ActionOK(Programs[l][i])
          /\ EventUses[l] = Uses(Programs[l])
          /\ Frontier(Programs[l]) <= Capacity
          /\ \A k \in Launches \ {l} : DOMAIN EventUses[l] \cap DOMAIN EventUses[k] = {}

ASSUME ConfigAssumption ==
    /\ {ActiveCapacity, ActionCapacity, ContextQuota, ScanWidth, InflightCapacity} \subseteq Nat \ {0}
    /\ ContextQuota <= ActionCapacity
    /\ ScanWidth <= ActionCapacity
    /\ AdapterCapacity \in [Adapters -> Nat \ {0}]

VARIABLES
    entries, quotas,          \* the event table
    phase,                    \* where in the tick
    active,                   \* _active_sequencers, in order of admission
    ctx,                      \* per launch: the state of its sequencer
    queue,                    \* _queued: records <<launch, ordinal>> in order
    inflight,                 \* records of _inflight_by_event
    control,                  \* records of _control_inflight
    routes,                   \* live Grid routes, by their dispatch record
    used,                     \* _adapter_used
    epochKey, epochRefs,      \* _epoch_key, _epoch_inflight
    registerCursor, scanCursor,
    reset                     \* state of the reset FSM

tableVars == <<entries, quotas>>
creditVars == <<inflight, used, epochKey, epochRefs>>
cursorVars == <<registerCursor, scanCursor>>
vars == <<entries, quotas, phase, active, ctx, queue, inflight, control, routes,
          used, epochKey, epochRefs, registerCursor, scanCursor, reset>>

ResetStates ==
    {"IDLE", "FAULT_DETECTED", "STOP_QUEUE", "FREEZE_DISPATCH", "DRAIN_SAFE",
     "MARK_EVENTS", "RESET_DOMAIN", "CLEAR_CREDIT_CACHE", "RESUME", "DONE"}

\* A sequencer: stage of its life, submission_pc, _registration_fence (0 is
\* None), _queued_actions, _inflight_actions, _outstanding_jobs, the issued role
\* and phase events still to come, the dispatches one of whose Tasks faulted, and
\* whether the launch still has its arena.
NewContext ==
    [stage |-> "new", pc |-> 1, fence |-> 0, queued |-> {}, flying |-> {},
     jobs |-> 0, owed |-> {}, broken |-> {}, faulted |-> FALSE, closed |-> FALSE,
     arena |-> FALSE]

\* load: the sequencer of a launch starts from there.
Loaded(l) == [NewContext EXCEPT !.closed = (Programs[l] = <<>>)]

act(r) == Programs[r[1]][r[2]]
ProgramKey(r) == act(r).key
Dst(r) == CHOOSE n \in act(r).dst : TRUE
Members(s) == {s[i] : i \in 1 .. Len(s)}

\* The elements of s at the positions in I, in their order: the j-th is the one
\* with j of the positions up to it.
Kept(s, I) ==
    [j \in 1 .. Cardinality(I) |->
        s[CHOOSE i \in I : Cardinality({k \in I : k <= i}) = j]]

Init ==
    /\ entries = EmptyEntries
    /\ quotas = EmptyQuotas
    /\ phase = "arrive"
    /\ active = <<>>
    /\ ctx = [l \in Launches |-> NewContext]
    /\ queue = <<>>
    /\ inflight = {}
    /\ control = {}
    /\ routes = {}
    /\ used = [a \in Adapters |-> 0]
    /\ epochKey = NoKey
    /\ epochRefs = 0
    /\ registerCursor = 0
    /\ scanCursor = 0
    /\ reset = "IDLE"

ResetActive == reset \notin {"IDLE", "DONE"}

-----------------------------------------------------------------------------
(* Faults and the cancellation of a Context.                               *)

\* mark_fault
MarkFault(x) == [x EXCEPT !.faulted = TRUE, !.closed = TRUE]

\* note_action_cancelled for every queued action of the Context
CancelActions(x) ==
    [x EXCEPT !.queued = {}, !.fence = IF @ \in x.queued THEN 0 ELSE @]

\* on_scheduler_fault starts a reset unless one was started already.
Trigger(r) == IF r = "IDLE" THEN "FAULT_DETECTED" ELSE r

QueuedUses(l, n) == Cardinality({i \in ctx[l].queued : n \in Programs[l][i].deps})

\* cancel_context on the table: queued outputs end as RESET, queued consumers
\* give their pins back, and references not yet registered are abandoned.
CancelContextE(e, l) ==
    LET outs == UNION {Outputs(Programs[l][i]) : i \in ctx[l].queued}
        deps == UNION {Programs[l][i].deps : i \in ctx[l].queued}
        e1 == CancelOutputsE(e, outs)
        e2 == [n \in Names |->
                 IF n \in deps
                 THEN Reclaimed([e1[n] EXCEPT !.refs = @ - QueuedUses(l, n),
                                              !.uses = @ - QueuedUses(l, n)])
                 ELSE e1[n]]
    IN  AbandonE(e2, l)

Without(q, l) == Kept(q, {i \in DOMAIN q : q[i][1] # l})

-----------------------------------------------------------------------------
(* Completions: TileGroupSequencer.notify_event and what it calls.         *)

\* mutant: the last Grid leaves the epoch open
ReturnCreditKeepsEpoch(r) ==
    LET op == act(r).op IN
    /\ inflight' = inflight \ {r}
    /\ used' = IF op \in Adapters THEN [used EXCEPT ![op] = @ - 1] ELSE used
    /\ epochRefs' = IF op = "dispatch" /\ SameProgram THEN epochRefs - 1 ELSE epochRefs
    /\ UNCHANGED epochKey

\* _release_epoch: the last Grid of a program closes its epoch.
ReleaseEpoch ==
    IF SameProgram
    THEN /\ epochRefs' = epochRefs - 1
         /\ epochKey' = IF epochRefs = 1 THEN NoKey ELSE epochKey
    ELSE UNCHANGED <<epochKey, epochRefs>>

\* note_completion: the inflight slot, the adapter credit and the epoch
\* reference of the record go back; note_action_completed.
ReturnCredit(r) ==
    LET op == act(r).op IN
    /\ inflight' = inflight \ {r}
    /\ used' = IF op \in Adapters THEN [used EXCEPT ![op] = @ - 1] ELSE used
    /\ IF op = "dispatch" THEN ReleaseEpoch ELSE UNCHANGED <<epochKey, epochRefs>>

Landed(x, i) == [x EXCEPT !.flying = @ \ {i}, !.fence = IF @ = i THEN 0 ELSE @]

\* notify_event(DONE) of event n and of action i, with the sequencer x after it.
NotifyDone(l, n, x) ==
    /\ entries' = [entries EXCEPT ![n] = SignalEntry(@, "DONE", @.producer)]
    /\ ctx' = [ctx EXCEPT ![l] = [x EXCEPT !.owed = @ \ {n}]]
    /\ UNCHANGED <<queue, reset>>

\* notify_event(ERROR): the Context is marked, its unissued actions are
\* cancelled and a reset begins.
NotifyError(l, n, x) ==
    /\ entries' = CancelContextE([entries EXCEPT ![n] = SignalEntry(@, "ERROR", @.producer)], l)
    /\ ctx' = [ctx EXCEPT ![l] = CancelActions(MarkFault(x))]
    /\ queue' = Without(queue, l)
    /\ reset' = Trigger(reset)

Notify(l, n, ok, x) ==
    IF ok /\ ~x.faulted THEN NotifyDone(l, n, x) ELSE NotifyError(l, n, x)

\* note_job_done, after the completion.
JobDone(x, i) == [Landed(x, i) EXCEPT !.jobs = @ - 1]

\* A transfer ends: _step_group_transfers.
TransferCompletes(r, ok) ==
    LET l == r[1] IN
    /\ phase = "arrive"
    /\ r \in inflight
    /\ act(r).op \in Transfers \ {"collective"}
    /\ ok \/ act(r).op \in Faulty
    /\ Notify(l, Dst(r), ok, JobDone(ctx[l], r[2]))
    /\ ReturnCredit(r)
    /\ UNCHANGED <<quotas, phase, active, control, routes, cursorVars>>

\* The window of a collective is over, and it fails with its Context only:
\* _step_collectives.
CollectiveCompletes(r) ==
    LET l == r[1] IN
    /\ phase = "arrive"
    /\ r \in inflight
    /\ act(r).op = "collective"
    /\ Notify(l, Dst(r), TRUE, JobDone(ctx[l], r[2]))
    /\ ReturnCredit(r)
    /\ UNCHANGED <<quotas, phase, active, control, routes, cursorVars>>

\* The last Task of a Grid signals a phase: _on_phase_signal.  The registry of
\* Grid signals goes with the reset, hence the live route.
PhaseSignal(r, n) ==
    /\ phase = "arrive"
    /\ r \in routes
    /\ n \in act(r).phases
    /\ entries[n].status = "PENDING"
    /\ n \in ctx[r[1]].owed
    /\ Notify(r[1], n, TRUE, ctx[r[1]])
    /\ UNCHANGED <<quotas, phase, active, control, routes, creditVars, cursorVars>>

\* All Tasks of a Grid have retired: _step_tiles.  A Task retires after it has
\* signalled its phases, a faulted one never.
GridCompletes(r) ==
    LET l == r[1] IN
    /\ phase = "arrive"
    /\ r \in routes
    /\ r[2] \notin ctx[l].broken
    /\ \A n \in act(r).phases : n \notin Live(entries) \/ entries[n].status # "PENDING"
    /\ entries[Dst(r)].status = "PENDING"
    /\ routes' = routes \ {r}
    /\ Notify(l, Dst(r), TRUE, Landed(ctx[l], r[2]))
    /\ ReturnCredit(r)
    /\ UNCHANGED <<quotas, phase, active, control, cursorVars>>

\* A Grid whose Tasks still retire after MARK_EVENTS meets a RESET event:
\* signal() refuses, and notify_event faults the Context without returning
\* credit, which abort_inflight does later.
GridCompletesLate(r) ==
    LET l == r[1] IN
    /\ phase = "arrive"
    /\ r \in routes
    /\ r[2] \notin ctx[l].broken
    /\ entries[Dst(r)].status # "PENDING"
    /\ routes' = routes \ {r}
    /\ entries' = CancelContextE(entries, l)
    /\ ctx' = [ctx EXCEPT ![l] = CancelActions(MarkFault(@))]
    /\ queue' = Without(queue, l)
    /\ reset' = Trigger(reset)
    /\ UNCHANGED <<quotas, phase, active, control, creditVars, cursorVars>>

\* A Task of a Grid faults: on_scheduler_fault only; the unissued actions of the
\* Context stay queued until RESET_DOMAIN, and the Grid keeps its route.
TileFault(r) ==
    /\ phase = "arrive"
    /\ r \in routes
    /\ "dispatch" \in Faulty
    /\ r[2] \notin ctx[r[1]].broken
    /\ ctx' = [ctx EXCEPT ![r[1]] = [MarkFault(ctx[r[1]]) EXCEPT !.broken = @ \cup {r[2]}]]
    /\ reset' = Trigger(reset)
    /\ UNCHANGED <<entries, quotas, phase, active, queue, control, routes, creditVars, cursorVars>>

\* _poll_controls: a configuration command has ended.  Once the Context is
\* cancelled its command can only end as cancelled.
ControlCompletes(r, ok) ==
    LET l == r[1]  x == Landed(ctx[l], r[2]) IN
    /\ phase = "arrive"
    /\ r \in control
    /\ ok \/ "control" \in Faulty
    /\ control' = control \ {r}
    /\ IF ok /\ ~ctx[l].faulted
       THEN /\ ctx' = [ctx EXCEPT ![l] = x]
            /\ UNCHANGED <<entries, queue, reset>>
       ELSE /\ entries' = CancelContextE(entries, l)
            /\ ctx' = [ctx EXCEPT ![l] = CancelActions(MarkFault(x))]
            /\ queue' = Without(queue, l)
            /\ reset' = Trigger(reset)
    /\ UNCHANGED <<quotas, phase, active, routes, creditVars, cursorVars>>

\* reserve_context_events: the frontier the compiler proved, or nothing.
CanReserveEvents(l) == CanReserveQuota(entries, quotas, l, Frontier(Programs[l]))

\* _activate_admitted_context
Activated(x) == [x EXCEPT !.stage = "active", !.arena = TRUE]

\* try_admit_context_task: a slot, the event quota and the arena, or nothing.
Admit(l) ==
    /\ phase = "arrive"
    /\ reset = "IDLE"
    /\ ctx[l].stage = "new"
    /\ Len(active) < ActiveCapacity
    /\ CanReserveEvents(l)
    /\ quotas' = OpenQuota(quotas, l, Frontier(Programs[l]))
    /\ active' = Append(active, l)
    /\ ctx' = [ctx EXCEPT ![l] = Activated(Loaded(l))]
    /\ UNCHANGED <<entries, phase, queue, control, routes, creditVars, cursorVars, reset>>

\* The completions of this tick are in.
EndArrivals ==
    /\ phase = "arrive"
    /\ phase' = IF ResetActive THEN "finish" ELSE "issue"
    /\ UNCHANGED <<tableVars, active, ctx, queue, control, routes, creditVars, cursorVars, reset>>

-----------------------------------------------------------------------------
(* _issue_one.                                                             *)

\* mutant: ignores actions in flight
BarrierReadyQueued(r) == \A i \in ctx[r[1]].queued : i >= r[2]

\* barrier_ready
BarrierReady(r) ==
    \A i \in ctx[r[1]].queued \cup ctx[r[1]].flying : i >= r[2]

HasCredit(r) ==
    LET op == act(r).op IN
    /\ op \in Async => Cardinality(inflight) < InflightCapacity
    /\ op \in Adapters => used[op] < AdapterCapacity[op]

EpochAllows(r) ==
    act(r).op = "dispatch" /\ SameProgram => epochKey \in {NoKey, ProgramKey(r)}

\* _dependency_status: DONE.  A dependency that ended otherwise would fault the
\* Context here; see NoStaleEvent.
DependenciesDone(r) == \A n \in act(r).deps : entries[n].status = "DONE"

\* What only the Group can refuse: a full route table in dispatch_role, work
\* that retire_context_arena must wait for.
Refused(r) ==
    \/ act(r).op = "dispatch" /\ Cardinality(routes) >= AdapterCapacity["dispatch"]
    \/ act(r).op = "signal" /\ \/ ctx[r[1]].jobs > 0
                               \/ \E s \in routes : s[1] = r[1]

\* _resource_eligible, and what the Group refuses.
Eligible(r) ==
    /\ DependenciesDone(r)
    /\ act(r).op = "barrier" => BarrierReady(r)
    /\ HasCredit(r)
    /\ EpochAllows(r)
    /\ ~Refused(r)

\* The window of the table that this tick looks at, from the rotating cursor;
\* policy s0 keeps only the oldest action of each Context.
ScanCount == IF Len(queue) < ScanWidth THEN Len(queue) ELSE ScanWidth
Window ==
    [k \in 1 .. ScanCount |-> queue[((scanCursor + k - 1) % Len(queue)) + 1]]
IsHead(r) == \A s \in Members(queue) : s[1] = r[1] => s[2] >= r[2]
Scanned ==
    IF Policy = "s0" THEN Kept(Window, {k \in DOMAIN Window : IsHead(Window[k])}) ELSE Window

ScanCursorAfter == (scanCursor % Len(queue)) + ScanCount

\* Every record before position k was passed over.
PassedBefore(k) ==
    \A j \in 1 .. k - 1 : ~Eligible(Scanned[j]) \/ act(Scanned[j]).op \in Gated

\* consume_dependencies after acceptance.
Consumed(e, r) == DropUsesE(e, act(r).deps)

Dequeue(r) == Kept(queue, {i \in DOMAIN queue : queue[i] # r})

\* A synchronous action is signalled, issued and completed in one call; the
\* completion signal of the task first retires the root arena.
IssueSync(r) ==
    LET l == r[1]
        a == act(r)
        x == Landed([ctx[l] EXCEPT !.queued = @ \ {r[2]}], r[2])
        e == [n \in Names |-> IF n \in a.dst THEN SignalEntry(entries[n], "DONE", entries[n].producer)
                                             ELSE entries[n]]
    IN
    /\ a.op \in Sync
    /\ entries' = Consumed(e, r)
    /\ ctx' = [ctx EXCEPT ![l] = [x EXCEPT !.arena = IF a.op = "signal" THEN FALSE ELSE @]]
    /\ UNCHANGED <<creditVars, control, routes>>

\* note_issued of an action that completes later
Issued(x, i) == [x EXCEPT !.queued = @ \ {i}, !.flying = @ \cup {i}]

\* _acquire_epoch
AcquireEpoch(r) ==
    IF SameProgram
    THEN epochKey' = ProgramKey(r) /\ epochRefs' = epochRefs + 1
    ELSE UNCHANGED <<epochKey, epochRefs>>

\* submit_group_transfer and schedule_collective: one more job to wait for.
JobStarted(x) == [x EXCEPT !.jobs = @ + 1]

IssueAsync(r) ==
    LET l == r[1]
        a == act(r)
        x == Issued(ctx[l], r[2])
    IN
    /\ a.op \in Async
    /\ entries' = Consumed(entries, r)
    /\ inflight' = inflight \cup {r}
    /\ used' = IF a.op \in Adapters THEN [used EXCEPT ![a.op] = @ + 1] ELSE used
    /\ IF a.op = "dispatch"
       THEN /\ ctx' = [ctx EXCEPT ![l] = [x EXCEPT !.owed = @ \cup Outputs(a)]]
            /\ routes' = routes \cup {r}
            /\ AcquireEpoch(r)
       ELSE /\ ctx' = [ctx EXCEPT ![l] = JobStarted(x)]
            /\ UNCHANGED <<routes, epochKey, epochRefs>>
    /\ UNCHANGED control

\* PROFILE_RECONFIG and MEMORY_MAINTENANCE go to the configuration controller.
IssueControl(r) ==
    LET l == r[1] IN
    /\ act(r).op = "control"
    /\ entries' = Consumed(entries, r)
    /\ control' = control \cup {r}
    /\ ctx' = [ctx EXCEPT ![l] = Issued(@, r[2])]
    /\ UNCHANGED <<creditVars, routes>>

\* issue_registered accepts the k-th record of the window.
IssueOne(k) ==
    LET r == Scanned[k] IN
    /\ phase = "issue"
    /\ PassedBefore(k)
    /\ Eligible(r)
    /\ IssueSync(r) \/ IssueAsync(r) \/ IssueControl(r)
    /\ queue' = Dequeue(r)
    /\ scanCursor' = ScanCursorAfter
    /\ phase' = "register"
    /\ UNCHANGED <<quotas, active, registerCursor, reset>>

\* issue_registered returns FAULT for it: _fault_context.
IssueFaults(k) ==
    LET r == Scanned[k]  l == r[1] IN
    /\ phase = "issue"
    /\ PassedBefore(k)
    /\ Eligible(r)
    /\ act(r).op \in Faulty
    /\ entries' = CancelContextE(entries, l)
    /\ ctx' = [ctx EXCEPT ![l] = CancelActions(MarkFault(@))]
    /\ queue' = Without(queue, l)
    /\ reset' = Trigger(reset)
    /\ scanCursor' = ScanCursorAfter
    /\ phase' = "register"
    /\ UNCHANGED <<quotas, active, control, routes, creditVars, registerCursor>>

IssueNothing ==
    /\ phase = "issue"
    /\ PassedBefore(Len(Scanned) + 1)
    /\ scanCursor' = IF queue = <<>> THEN scanCursor ELSE ScanCursorAfter
    /\ phase' = "register"
    /\ UNCHANGED <<tableVars, active, ctx, queue, control, routes, creditVars, registerCursor, reset>>

-----------------------------------------------------------------------------
(* _register_one.                                                          *)

CanRegister(l) ==
    /\ ctx[l].stage = "active"
    /\ ~ctx[l].faulted
    /\ ~ctx[l].closed
    /\ ctx[l].fence = 0

Registrable == Kept(active, {i \in DOMAIN active : CanRegister(active[i])})
UnderQuota(l) == Cardinality(ctx[l].queued) < ContextQuota

\* The k-th Context from the register cursor, k = 0 for the first.
Candidate(k) == Registrable[((registerCursor + k) % Len(Registrable)) + 1]

\* note_registered
Registered(l) ==
    LET i == ctx[l].pc IN
    [ctx[l] EXCEPT !.queued = @ \cup {i},
                   !.fence = IF Programs[l][i].op \in Fences THEN i ELSE @,
                   !.pc = i + 1,
                   !.closed = (i + 1 > Len(Programs[l]))]

\* The checks cannot fail here; see RegistrationNeverFaults.
RegisterOne(k) ==
    LET l == Candidate(k)
        i == ctx[l].pc
        a == Programs[l][i]
        start == registerCursor % Len(Registrable)
    IN
    /\ phase = "register"
    /\ Len(queue) < ActionCapacity
    /\ \A j \in 0 .. k - 1 : ~UnderQuota(Candidate(j))
    /\ UnderQuota(l)
    /\ PreflightAction(entries, quotas, l, Outputs(a), a.deps)
    /\ entries' = AddConsumersE(BindE(ReserveOutputsE(entries, l, Outputs(a)), Outputs(a), i), a.deps)
    /\ quotas' = ReserveOutputsQ(quotas, l, Outputs(a))
    /\ queue' = Append(queue, <<l, i>>)
    /\ ctx' = [ctx EXCEPT ![l] = Registered(l)]
    /\ registerCursor' = ((start + k) % Len(Registrable)) + 1
    /\ phase' = "finish"
    /\ UNCHANGED <<active, control, routes, creditVars, scanCursor, reset>>

RegisterNothing ==
    /\ phase = "register"
    /\ \/ Len(queue) >= ActionCapacity /\ UNCHANGED registerCursor
       \/ Len(queue) < ActionCapacity /\ Registrable = <<>> /\ UNCHANGED registerCursor
       \/ /\ Len(queue) < ActionCapacity /\ Registrable # <<>>
          /\ \A l \in Members(Registrable) : ~UnderQuota(l)
          /\ registerCursor' = (registerCursor % Len(Registrable)) + 1
    /\ phase' = "finish"
    /\ UNCHANGED <<tableVars, active, ctx, queue, control, routes, creditVars, scanCursor, reset>>

-----------------------------------------------------------------------------
(* The end of the tick.                                                    *)

\* context_cleanup_ready; the leases of a Context are those of its Grids' Tasks.
CleanupReady(l) ==
    /\ ~ctx[l].arena
    /\ \A r \in routes : r[1] # l
    /\ ctx[l].jobs = 0

\* maybe_finish
Finishes(l) ==
    LET x == ctx[l] IN
    /\ x.stage = "active"
    /\ x.closed
    /\ x.queued = {} /\ x.flying = {}
    /\ x.faulted \/ x.owed = {}
    /\ CleanupReady(l)

Finish ==
    /\ phase = "finish"
    /\ ctx' = [l \in Launches |-> IF Finishes(l) THEN [ctx[l] EXCEPT !.stage = "done"] ELSE ctx[l]]
    /\ phase' = "close"
    /\ UNCHANGED <<tableVars, active, queue, control, routes, creditVars, cursorVars, reset>>

\* mutant: waits for Grids whose Tiles are frozen
DrainedWaitsForGrids == control = {} /\ inflight = {}

\* _outstanding_zero: no accepted transfer, collective or configuration command
\* is left.  A Grid that waits for frozen Tiles does not hold the drain.
Drained == control = {} /\ \A r \in inflight : act(r).op \notin Transfers

\* What ResetDomain.step does to its own state.
ResetStep ==
    CASE reset = "FAULT_DETECTED" -> "STOP_QUEUE"
      [] reset = "STOP_QUEUE" -> "FREEZE_DISPATCH"
      [] reset = "FREEZE_DISPATCH" -> "DRAIN_SAFE"
      [] reset = "DRAIN_SAFE" -> IF Drained THEN "MARK_EVENTS" ELSE "DRAIN_SAFE"
      [] reset = "MARK_EVENTS" -> "RESET_DOMAIN"
      [] reset = "RESET_DOMAIN" -> "CLEAR_CREDIT_CACHE"
      [] reset = "CLEAR_CREDIT_CACHE" -> "RESUME"
      [] OTHER -> "DONE"

\* Retirement of the done Contexts: release_owner gives back events and quota.
RetireE(e, done) == DropEntries(e, UNION {OwnedBy(e, l) : l \in done})
RetireQ(done) == [l \in Launches |-> IF l \in done THEN NoQuota ELSE quotas[l]]
Retire(e, c) ==
    LET done == {l \in Members(active) : c[l].stage = "done"} IN
    /\ entries' = RetireE(e, done)
    /\ quotas' = RetireQ(done)
    /\ ctx' = [l \in Launches |-> IF l \in done THEN [c[l] EXCEPT !.stage = "retired"] ELSE c[l]]
    /\ active' = Kept(active, {i \in DOMAIN active : active[i] \notin done})

\* A tick that ends without reset cleanup.
Close ==
    /\ phase = "close"
    /\ reset \notin {"MARK_EVENTS", "RESET_DOMAIN"}
    /\ reset' = IF ResetActive THEN ResetStep ELSE reset
    /\ Retire(entries, ctx)
    /\ phase' = "arrive"
    /\ UNCHANGED <<queue, control, routes, creditVars, cursorVars>>

CloseMarkEvents ==
    /\ phase = "close"
    /\ reset = "MARK_EVENTS"
    /\ reset' = ResetStep
    /\ Retire(ResetE(entries), ctx)
    /\ phase' = "arrive"
    /\ UNCHANGED <<queue, control, routes, creditVars, cursorVars>>

\* abort_inflight: the scheduler forgets what the reset cancelled.
AbortInflight ==
    /\ inflight' = {}
    /\ used' = [a \in Adapters |-> 0]
    /\ epochKey' = NoKey
    /\ epochRefs' = 0

\* abort_actions: so does the sequencer.
AbortActions(x) ==
    [x EXCEPT !.queued = {}, !.flying = {}, !.fence = 0, !.jobs = 0, !.closed = TRUE]

\* release_context_memory: every active Context is cancelled, Grids and arenas
\* go, the scheduler drops its inflight records and the sequencers theirs.
CloseResetDomain ==
    LET live == Members(active)
        e == [n \in Names |->
                LET l == entries[n].launch IN
                IF n \in Live(entries) /\ l \in live THEN CancelContextE(entries, l)[n]
                                                     ELSE entries[n]]
        c == [l \in Launches |->
                IF l \in live
                THEN [AbortActions(MarkFault(ctx[l])) EXCEPT !.arena = FALSE]
                ELSE ctx[l]]
    IN
    /\ phase = "close"
    /\ reset = "RESET_DOMAIN"
    /\ reset' = ResetStep
    /\ queue' = <<>>
    /\ AbortInflight
    /\ routes' = {}
    /\ Retire(e, c)
    /\ phase' = "arrive"
    /\ UNCHANGED <<control, cursorVars>>

-----------------------------------------------------------------------------
Arrival ==
    \/ \E r \in inflight, ok \in BOOLEAN : TransferCompletes(r, ok)
    \/ \E r \in inflight : CollectiveCompletes(r)
    \/ \E r \in routes : \E n \in act(r).phases : PhaseSignal(r, n)
    \/ \E r \in routes : GridCompletes(r) \/ GridCompletesLate(r) \/ TileFault(r)
    \/ \E r \in control, ok \in BOOLEAN : ControlCompletes(r, ok)
    \/ \E l \in Launches : Admit(l)

Tick ==
    \/ EndArrivals
    \/ \E k \in 1 .. Len(Scanned) : IssueOne(k) \/ IssueFaults(k)
    \/ IssueNothing
    \/ \E k \in 0 .. Len(Registrable) - 1 : RegisterOne(k)
    \/ RegisterNothing
    \/ Finish
    \/ Close
    \/ CloseMarkEvents
    \/ CloseResetDomain

Next == Arrival \/ Tick

Spec == Init /\ [][Next]_vars

\* The simulator calls TileGroup.step every cycle.  Whatever is under way ends
\* after finitely many cycles, an issue gate opens again when the command that
\* closed it ends, and a waiting Context is retried.  Every one of these can
\* happen only finitely often in a run, so fairness towards all of them at once
\* is fairness towards each.
AllRecords == UNION {{l} \X (1 .. Len(Programs[l])) : l \in Launches}
SomethingEnds ==
    \E r \in AllRecords :
        \/ act(r).op \in Transfers /\ (TransferCompletes(r, TRUE) \/ CollectiveCompletes(r))
        \/ act(r).op = "control" /\ ControlCompletes(r, TRUE)
        \/ act(r).op = "dispatch" /\ (GridCompletes(r) \/ \E n \in act(r).phases : PhaseSignal(r, n))
Fairness ==
    /\ WF_vars(Tick)
    /\ SF_vars(SomethingEnds)
    /\ SF_vars(\E k \in 1 .. ScanWidth : k <= Len(Scanned) /\ IssueOne(k))
    /\ SF_vars(\E l \in Launches : Admit(l))
FairSpec == Spec /\ Fairness

-----------------------------------------------------------------------------
\* Every variable holds a value of the kind the code keeps there.
TypeOK ==
    /\ entries \in [Names -> EventEntry]
    /\ quotas \in [Launches -> Quota]
    /\ phase \in {"arrive", "issue", "register", "finish", "close"}
    /\ Members(active) \subseteq Launches
    /\ \A l \in Launches :
          /\ ctx[l].stage \in {"new", "active", "done", "retired"}
          /\ ctx[l].pc \in 1 .. Len(Programs[l]) + 1
          /\ ctx[l].fence \in 0 .. Len(Programs[l])
          /\ ctx[l].queued \cup ctx[l].flying \cup ctx[l].broken \subseteq 1 .. Len(Programs[l])
          /\ ctx[l].jobs \in Nat
          /\ ctx[l].owed \subseteq Names
          /\ {ctx[l].faulted, ctx[l].closed, ctx[l].arena} \subseteq BOOLEAN
    /\ Members(queue) \cup inflight \cup control \cup routes \subseteq AllRecords
    /\ used \in [Adapters -> Nat]
    /\ epochRefs \in Nat
    /\ registerCursor \in Nat /\ scanCursor \in Nat
    /\ reset \in ResetStates

Retired(l) == ctx[l].stage = "retired"
Open(l) == ctx[l].stage \in {"active", "done"}

\* The credits the scheduler counts are exactly the accepted actions that have
\* not completed, within every configured capacity: no completion order, fault
\* or reset loses or invents one.  Under the same_program policy the Grids in
\* flight run one program, and the epoch is open exactly while there is one
\* (note_completion, _release_epoch, abort_inflight).
CreditConservation ==
    LET grids == {r \in inflight : act(r).op = "dispatch"} IN
    /\ \A a \in Adapters :
          /\ used[a] = Cardinality({r \in inflight : act(r).op = a})
          /\ used[a] <= AdapterCapacity[a]
    /\ Cardinality(inflight) <= InflightCapacity
    /\ SameProgram => /\ epochRefs = Cardinality(grids)
                      /\ \A r \in grids : act(r).key = epochKey
                      /\ epochKey = NoKey <=> grids = {}

\* The sequencers and the scheduler agree on what is queued and what is in
\* flight, although each keeps its own record of it, and the queues stay within
\* the action table and each Context's share of it.
OwnersAgree ==
    /\ Len(queue) <= ActionCapacity
    /\ \A l \in Launches :
        /\ Cardinality(ctx[l].queued) <= ContextQuota
        /\ ctx[l].queued = {i \in 1 .. Len(Programs[l]) : <<l, i>> \in Members(queue)}
        /\ ctx[l].flying = {i \in 1 .. Len(Programs[l]) : <<l, i>> \in inflight \cup control}
        /\ ctx[l].jobs = Cardinality({r \in inflight : r[1] = l /\ act(r).op \in Transfers})

\* A Context can be cancelled at any moment: cancel_context finds every output
\* of a queued action under its producer and every pin it has to give back, so
\* no EventProtocolError escapes a fault handler.
CancelAlwaysPossible ==
    \A l \in Launches : Open(l) =>
        /\ quotas[l].open
        /\ \A i \in ctx[l].queued : CancelOutputsOK(entries, l, Outputs(Programs[l][i]), i)
        /\ \A i \in ctx[l].queued : CancelDepsOK(entries, quotas, l, Programs[l][i].deps)
        /\ \A n \in ManagedOf(entries, l) :
              entries[n].refs = QueuedUses(l, n) /\ entries[n].refs <= entries[n].uses

\* When a Context is done, release_owner accepts: no pending producer, no pin
\* and no future reference is left, after success, fault and reset alike.
RetireAlwaysPossible ==
    \A l \in Launches : ctx[l].stage = "done" => quotas[l].open /\ ReleaseOK(entries, l)

\* The quota the compiler computed suffices in every schedule: the next action
\* of a Context that may register passes preflight_action, whatever order the
\* earlier ones were issued and completed in.
RegistrationNeverFaults ==
    \A l \in Launches : CanRegister(l) =>
        LET a == Programs[l][ctx[l].pc] IN
        PreflightAction(entries, quotas, l, Outputs(a), a.deps)

\* Nobody meets an event in a state it cannot handle: a queued action never
\* finds a failed or vanished dependency, because a failure freezes the tick
\* before the next issue, and a transfer that completes finds its event pending,
\* because the reset marks events only when no transfer is left.
NoStaleEvent ==
    /\ phase = "issue" =>
          \A r \in Members(queue) : \A n \in act(r).deps :
              entries[n].bound /\ entries[n].status \in {"PENDING", "DONE"}
    /\ \A r \in inflight : act(r).op \in Transfers => entries[Dst(r)].status = "PENDING"

\* Nothing registers past a fence that has not completed, and nothing before a
\* barrier is unfinished once the program has gone past it.
FenceHolds ==
    \A l \in Launches : \A i \in 1 .. ctx[l].pc - 2 :
        LET unfinished == ctx[l].queued \cup ctx[l].flying IN
        /\ Programs[l][i].op \in Fences => i \notin unfinished
        /\ Programs[l][i].op = "barrier" => \A j \in 1 .. i : j \notin unfinished

\* A Context that ends without fault has produced every event of its program,
\* and each was signalled and read as often as the compiler counted: none of
\* its slots is left when it is retired.
SuccessIsComplete ==
    \A l \in Launches :
        ctx[l].stage = "done" /\ ~ctx[l].faulted =>
            /\ quotas[l].produced = AllOutputs(Programs[l])
            /\ OwnedBy(entries, l) = {}

\* After RESET_DOMAIN nothing of the old run is left in the scheduler.
ResetLeavesNothing ==
    reset \in {"CLEAR_CREDIT_CACHE", "RESUME", "DONE"} =>
        /\ queue = <<>> /\ inflight = {} /\ control = {} /\ routes = {}
        /\ \A n \in Live(entries) : entries[n].status # "PENDING"

\* The Group comes to rest: no schedule, credit shortage, epoch, closed gate or
\* cursor position starves an admitted Context, which ends at most once, and a
\* fault leads to a reset that completes.
GroupSettles == <>[]((\A l \in Launches : ~Open(l)) /\ ~ResetActive)

\* The books of the scheduler, of its credits and of the Contexts agree with
\* each other in every state, and a reset closes all of them.
BooksAgree == TypeOK /\ CreditConservation /\ OwnersAgree /\ ResetLeavesNothing

\* No call into the event table is ever refused: no cancellation, retirement,
\* registration, completion or dependency check raises or faults a Context that
\* did nothing wrong (EventProtocolError, _fault_context).
NoInternalError ==
    CancelAlwaysPossible /\ RetireAlwaysPossible /\ RegistrationNeverFaults /\ NoStaleEvent

\* A Context runs as its program says: nothing passes a fence, and success means
\* that everything was done (note_registered, barrier_ready, retire).
RunsAsWritten == FenceHolds /\ SuccessIsComplete
=============================================================================
