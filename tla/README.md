# Elenor in TLA+

Elenor (`src/pipeline_validator`) is a cycle-level simulator of an accelerator:
a Device runs a program that launches *Contexts* on Tile *Groups*; a Group
schedules the actions of its Contexts (prefetches, dispatches of Grids of Tile
Tasks, stores, collectives, configuration commands) out of order, tied together
by *events*; Tiles run the Tasks on memory whose cache/SRAM split a *profile
controller* reconfigures at run time.  A compiler adds the dependencies and the
cache maintenance a program needs, and a loader verifies them again.  This
directory holds TLA+ models of this control logic, the TLC configurations that
check them, and proofs.

## 1. Inventory

| Component (source) | State | Operations | Hard part |
|---|---|---|---|
| Event table (`runtime/event_table.py`) | entries, quotas, reference counts, version | reserve/cancel/release a quota, register outputs, pin/consume/cancel dependencies, signal, reset | reference counts kept by different callers; managed slots are not checked against the capacity |
| Event frontier analysis (`compiler/resources.py`) | none (pure) | uses per event, slots a task can need at once | must bound *every* out-of-order schedule |
| Group scheduler and sequencers (`group_scheduler.py`, `tile_group_sequencer.py`) | action queue, credits, dispatch epoch, cursors, per-Context pc, fence, inflight | register, scan and issue, complete, cancel, retire | completions in any order, faults half way, starvation |
| Tile Group tick, Grid routes, reset FSM (`tile_group.py`, `runtime/reset_domain.py`) | routes, leases, pins, FSM state | one tick; admit; fault; drain, mark, reset, resume | Grids that end while the reset runs |
| Stream queue (`stream_queue.py`) | four credit counters, FIFO, EOS bitmap | acquire, push, push_eos, pop, release, reset | counters and tokens held by different Tiles |
| Profile controller (`memory/profile_controller.py`) | command, gates, member shadows, bus, write-backs | submit, step, cancel, fault, time out, recover | late, failing, wrong-generation answers; admissions during a reconfiguration |
| L2 arenas, backings, views, claims (`memory/arena.py`, `allocator.py`) | free extents, arenas, backings, claims, pins | plan, commit, borrow, publish, release, retire | releases in any order after the owner is gone |
| Transfer manager, NoC (`memory/transfer.py`, `noc.py`) | transactions per leg, stage slots, CAM, credits, tombstones | submit, advance, cancel, isolate, acknowledge, reset | a skipped retry needs a wake-up; a stale transfer after a reconfiguration |
| Caches, refill tables, indexed engine (`memory/cache.py`, `mshr.py`, `engines.py`, `address_provider.py`) | lines, refill leaders and waiters, jobs | look up, fill, merge, scatter, maintain, drain | refills that outlive the job or the line they were for |
| Tile UCE, engine lanes, slot frames (`tile.py`, `engines.py`, `memory/l1_slot_frame.py`) | Tile contexts, launch queues, lanes, frames, local events | issue, complete, free, retire, reset | a context reused while jobs of its last Task are under way |
| Device controller (`device.py`) | program counter, pending launches, references, completion slots, control fence, fault | step, harvest, abort | a launch, its dependents and its completion slot end in any order; a fault drops everything half way |
| Group port (`runtime/group_port.py`) | category queues, slots, admission token | submit, poll, abort | a skipped attempt needs a later wake-up; exactly-once completion |
| Host session (`runtime/host_session.py`) | routines, round-robin order, transfers | submit, step, harvest, abort | transfers outlive the fault that cancels them |
| Co-simulation loop (`simulator.py`) | cycle, drain, outcome | step everything once per cycle | fault drain, cycle cap and drain after it |
| Page pool, byte store (`memory/page_pool.py`, `byte_store.py`, `hbm_region.py`) | owners and epochs of pages, valid bytes | grant, free, copy, invalidate | bytes of the earlier owner in memory, caches and running roots |
| Source verifier, compiler passes, loader (`workload_ir.py`, `compiler/lowering.py`, `compiler/profile_pass.py`, `execution_verifier.py`) | none (pure) | check, complete dependencies, insert maintenance, verify | three independent analyses that must agree, and be enough for every schedule |
| Dialect, codec, relocation, configuration, residency tables, fault ring | small tables or none | translate, validate | sequential |
| CLI, reports, traces, PMU | statistics | observe | none |

How they interact.  A source program is checked by the source verifier, lowered
and completed by the compiler, and checked again by the loader from the compiled
actions alone.  In every cycle the co-simulation loop then steps the Device, the
host session and the Group, and lets session and Device harvest.  The Device
interprets the program, submits a ready root Context to the Group port or a host
call to the session, and frees the completion slot when the last consumer has
seen the completion; the port retries its head when the admission token (event
storage, L2 pool, profile) changes.  The Group admits the Context if the profile
gates, the arena and the event quota allow it.  In every tick the Group first
takes completions (each signals events in the event table), then issues at most
one queued action, registers at most one new one, steps its Tiles, declares
Contexts done, advances the reset FSM and retires done Contexts.  Actions move
data through the transfer manager; Tile Tasks launch jobs on engines, whose
indexed jobs share the caches and refill tables.  A fault of a transfer or a
Tile starts the reset FSM, which freezes issue and registration, drains, marks
pending events RESET and releases what is left.  A `control` action submits a
command to the profile controller, which closes the issue gates, waits until
nobody uses the memory, and reconfigures it in a Prepare/Commit protocol.

The hazards (what a test would hardly reach, with the line and the properties
aimed at it) are listed in `PROJECT.json`.

## 2. Modules

| Module | Models |
|---|---|
| `EventTableOps`, `EventTable` | the table's guards and updates as operators; the table under *any* sequence of calls |
| `EventFrontier` | `_event_resource_requirements` |
| `GroupScheduler` | scheduler + sequencers + event table + the tick and reset FSM around them |
| `StreamQueue` | the queue and the Tiles' stream instructions |
| `ProfileController` | the controller, its member bus, the users of the memory |
| `DeviceProgram`, `GroupPort`, `HostSession`, `CpuDevice`, `CoSimulator` | the lowered program; the port; the session; the Device; the loop that composes them |
| `ArenaPool`, `L2Group` | free extents of a bank; the L2 pool; a Group's L2 admission, actions, retirement, reset |
| `L2Ownership` | abstract: what L2 promises about who reaches an address |
| `TransferRoutes`, `TransferManager` | legs and stages of each operation; the manager, its stages, the CAM and the router |
| `LineCache`, `MfeIndexed` | LRU cache and MSHR table; index arithmetic, Gather, Scatter, maintenance and drain |
| `TileCore` | the Tiles of a Group and the Group's side of a Task's life |
| `GlobalAccess` | the global ranges a Context touches, used by compiler and verifier models |
| `DeviceSource`, `ProfilePass`, `ExecutionVerifier` | source check, `bind_profiles` and `_verify_device_control` for a device program |
| `HbmMemory`, `ScopedRun` | pages, epochs and valid bytes; a device program from source to end |
| `ContextSource`, `ContextPass`, `TaskVerifier`, `ContextRun` | source check, lowering and `_verify_task` for one Context; that Context from source to end |
| `EventTableProofs`, `StreamQueueProofs`, `ProfileControllerProofs`, `TransferManagerProofs`, `CoSimulatorProofs`, `GroupSchedulerProofs` | theorems about the module each extends (section 5) |
| `DistinctSequences` | lemmas about sequences without repetition, for two of the proofs |
| `MC*` | small instances |

Definitions keep the source's names in camel case; `PROJECT.json` maps each to
its lines.  A definition marked `mutant` is a plausible defect of the next one:
the property it is written for fails when it takes that definition's place.

**EventTable.**  A call that raises or returns False changes nothing and is no
step, except where the code has already changed the table by then
(`CancelReservationPartial`: the loop of `cancel_reservation` raises in the
middle; `signal` of an unknown name registers it and may then reject the
sequence).  `bumped` says that the call changed `version`.

**GroupScheduler.**  `phase` is the position inside `TileGroup.step`; any number
of completions arrives in `arrive`, and each later phase takes one action of the
model.  Whether an issue is refused or fails is a choice for the ops in `Gated`
and `Faulty`, since it depends on memory that other modules model.  Two branches
of the code are not actions because they cannot be reached, which
`NoInternalError` states instead: a registration that the event table rejects,
and a queued action whose dependency has failed.

**StreamQueue.**  A lease is a register of a producer's program that holds an
acquired token.  `Isolated` says that the holders of leases and tokens are torn
down before `reset()` is called, as the reset FSM does; the queue itself does not
check it (finding 4).

**ProfileController.**  `step()` moves one bus item and then advances the
command.  A response arrives after any delay, in any order; up to `MaxOverrides`
of them fail or carry another generation.  A timeout is possible in every
waiting state.  A cache is reduced to "has a dirty line", a command to its kind,
its levels and its target mode.  A cancellation between OPEN_ISSUE and RELEASE
finds the new profile published and the gate open and still asks for recovery;
`FaultKeepsGateClosed` therefore excludes that step.  A member that fails a
correct PREPARE, and a publication that fails half way, are shown to be
unreachable by `PublicationCannotFail`.

**CoSimulator and its parts.**  `phase` is the position inside one cycle, and
every iteration of a loop in the code is one step.  Time is not counted: a
transfer, a delay, a Context or a command may last any number of cycles, except
that a host transfer takes more than two, because its route has three legs of at
least one cycle each.  The Group is modelled by what the port and the session
see.  Simplified: the event quota and the arena are one number per launch; only
the L2 mode is reconfigured, together with the completion of the command; an
error completion is never retained.  RESET_DOMAIN acknowledges every terminal
transfer (`acked`); a routine whose cancelled transfer it acknowledged first raises
when it harvests it (`HarvestRaises`), and the run ends `raised` (finding 10).

**L2Group.**  A Context is its compiled actions, any ready one of which may be
issued.  The pool is exact: bank-local extents, alignment, stripe and slack are
those of `commit_arena`, and each method is one operator.  The reset ends each
Context after the transfers it waits for.  `reconfigure()` of the pool and the
bank rotation of L1 are left out.  `OwnershipRefined` maps an address to the
roots that hold it (owner, views, claims, slack) and to the transfers that write
it, and demands the steps of `L2Ownership`.

**TransferManager.**  A visit of one transaction by `step()` is one action, so
every order of visits and every latency is covered.  A transaction is one fixed
request; run, profile generation and views change underneath it.  Bytes are
reduced to whether a source has been captured whole, in part or not at all; host
writes, cleans and the last step of a Gather bring them along (`Brought`), while
`_tick_scatter_segment` clears a Scatter's data right before its submit.  The
terminal history is a sequence of transactions and outcomes, the code's ordered
dictionary; `Drop` removes the one entry a key has, or the first flit with a tag.

**MfeIndexed.**  A byte of memory is its address and a stamp; a Scatter write has
a new stamp, so "stale" is visible.  A cycle is a round of turns: the fabric moves
any transactions, each engine ticks, then one controller acts.  Sets and ways
are one LRU list.  Jobs of the same Tile follow each other through `JobLimit`.

**TileCore.**  One `Cycle` is one `TileGroup.step` as the Tiles see it; the last
cycle of a job, a new dispatch, a fault and a reset request are separate actions.
A job keeps the Task that launched it, which the code does not: the code's names
are context and event, and `WorkExact` says that they never mean another Task.
The policy that selects a context is round-robin; traces and latencies are left out.

**ScopedRun.**  The loader gets what the compiler emits or, when `Tampered`, the
same with an await, a command or an edge removed.  A byte is as large as a cache
line, caches have no capacity (an eviction can only remove a stale line), the
actions of a Context run in order (`ContextRun` drops that), and a fault ends the
run.  A scoped use touches the pages its scope owns when the root starts, and
host scripts touch the scopes they declare and pages granted in the same
routine: `_validate_host_scopes` cannot check more, because no routine names
its pages statically.  Leases and root pins have no caller and are left out.

**ContextRun.**  The declared reads and writes of a Tile program are what it
does; an event fires with the step that allows it.  A line has two bytes, inputs
three, buffers two, so an access can cover a line in part.  The L2 profile is fixed
during a Context.  A submit may bind two formals to one input (`actual`): the
lowering and the loader compare what the formals are bound to, the passes in
between compare the formals (finding 11), and memory and caches hold the inputs.
Both runs over programs know which levels a target can maintain by range
(`MaintenanceCaps`): without it a command covers the whole input.

## 3. Runs

| Run | Instance | Shows |
|---|---|---|
| `event_table` | 2 launches, 2 names, 2 slots, quotas up to 2 | `StorageAccounted`, `ReferenceAccounting`, `EventsFinal`, `FreedStorageWakes` for any sequence of calls |
| `group_scheduler` | a pipeline with both phase events against a phased task with barrier, collective and configuration; policy s1, scan width 2, 2 credits each, faults everywhere | books, event protocol, frontier, fences, and that the Group comes to rest |
| `co_simulation` | 14 programs of at most 7 operations; 2 slots, port queue 1, 2 units of L2; issue width, pending, outstanding and completion capacity 2 | completions exactly once, references and completion slots exact, no missed wake-up, true outcomes, termination |
| `profile_controller` | 2 L1 members, 1 L2 member, 1 Context with 1 Task; a maintenance command, then a profile command; 1 recovery, 1 override | honest gates, isolation, publication, every command ends |
| `stream_queue` | 2 producers, depth 2, 2 tokens each, 1 reset | credits add up, no deadlock, streams drain |
| `l2_group` | 4 roots, one buffer shared with two of them, 2 banks of 9 bytes, 2 active roots | the ledgers agree, no step raises, no forgotten head, `L2Ownership` implemented, every launch settles |
| `memory_fabric` | prefetch, Tile store, host write, cache clean, direct Gather, last step of a cached Gather, bypassed lookup; one channel, CAM entry, credit and tombstone; cancellations, 1 change of run, profile or view | nothing leaks, no lost wake-up, no stale or partial data, every transfer ends |
| `mfe_indexed` | 2 Tiles, caches of one line, refill tables of one entry; a Scatter, two Gathers, a maintenance, 1 fault, 1 reset | gathered bytes exact and current, every refill led, every job ends |
| `tile_core` | 2 Tiles of 2 contexts, 3 Grids, queues of 1, a stream of depth 1; 1 fault, 1 reset | events of the right Task, buffers and pins outlive their users, clean ends, every Task ends |
| `scoped_run` | every program of 3 ops over two inputs, a pool of 3 pages and 2 scopes, good and bad layouts, an L1 without maintenance by range, every single omission | compiled programs are valid, roots isolated, pages clean, page counts exact |
| `context_run` | 6 Contexts, one with two formals for one input, and all their single edits, compiled and damaged | compiled tasks are valid, execution as if sequential, lifetimes kept |
| `reset_bounded` | as `tile_core` | *violated* `ResetIsBounded`: finding 1 |

Why the bounds suffice.  Two launches and a table of two slots with quotas up to
two cover a table filled by one launch, by two, and by compatibility entries; the
capacity argument itself is proved for all bounds.  Two Contexts are the smallest
number that compete for credits, the epoch and the cursors; their programs
contain every operation, a fence of each kind and an event that is never read.
Two L1 members are needed for one to answer and another not; two commands for one to
start from what the other left.  Two producers on two credits can starve each other.
The co-simulation's programs are one for each way its parts can meet.  The L2
pool is cut so that what a reader retains leaves the next root enough bytes but
no run of them.  In the fabric, the caches, the lanes and the stream every
resource has one entry, so each is contended and full.  Three ops are enough for
a writer, a maintenance that may be ordered with the wrong one, and a reader, and
for a page to pass from one scope to another while a third op runs; the
compiler's and verifier's analyses compare pairs of operations along the order.

Deadlock is checked except where callers may simply stop (event table, fabric,
engine, Tiles) and for the co-simulation, whose run ends (`Terminates` says that
it never stops before).

Fairness.  `GroupScheduler`: the simulator calls `TileGroup.step` in every cycle
(weak fairness of `Tick`), accepted work has a finite latency, an action that
the scan reaches again and again is not refused for ever, and the port retries its
head.  These can only happen in one phase and are enabled again and again, hence
strong fairness; each of them happens finitely often in a run, so that fairness of
the union is fairness of each.  `ProfileController`: the Group steps it in every
cycle, time passes, and the fabric ends every write-back, well or not; no user of
the memory is assumed to finish.  `StreamQueue`: a stalled Tile retries in every
cycle.  `CoSimulator`: the loop takes its next step; transfers, delays, Contexts
and commands end after finitely many cycles, how is left open.  `L2Group`: some
ready work is done; faults and new launches are not fair.  `TransferManager`: every
cycle steps the router and visits every transaction.  `MfeIndexed`: cycles run on,
the fabric ends what it accepted, and the drain's time limit passes.  `TileCore`:
cycles run on (`beat`), and a started job ends.  Failures, cancellations and resets
are never fair, and neither is the cycle cap.

## 4. Findings

Shown by a run:

1. A reset of a partly retired Grid retires an arena twice.  `_step_tiles`
   retires a finished Task's arena and leaves `admission.arena` set until all
   Tasks of the Grid have retired; `release_context_memory` then retires it again
   and raises "double arena release" out of the reset, which
   `on_scheduler_fault` calls bounded.  The Group is poisoned (`reset_bounded`).

Met while modelling; the models follow the code, and the properties above are
stated so that they hold in spite of it:

2. `bind_profiles` takes the event of a host call as awaited
   (`profile_pass.py`, branch `host_call`) and drops every later `nexus.await` of
   it.  A program whose scope order rests on that await is accepted by the source
   verifier and refused by the loader after compilation; any other program simply
   does not wait.  `CompiledIsValid` excludes such sources (`AwaitsHostCall`);
   without the exclusion TLC refutes it.
3. `IR_SPEC.md:663` says that overlapping Scatter segments commit in `(i, j)`
   order.  `_segment_overlaps_pending` (`engines.py:1666`) looks only at segments
   whose write is already submitted, so a later one whose index arrived first
   overtakes.  The Scatter of `mfe_indexed` has one segment.
4. `stream_queue.py` says that the generation rejects stale tokens; neither `push`
   nor `release` compares it.  The runtime is safe because the reset FSM tears the
   holders down first.
5. `IR_SPEC.md:1130` says that range maintenance blocks overlapping new requests;
   `range_issue_blocked()` has no caller.  The order of maintenance and accesses
   rests on the loader's checks alone, which `RootsIsolated` and `AsIfSequential`
   cover.
6. `CpuDeviceController.step` faults the Device when completion slots run out and
   no Group launch is active; its comment says that no completion can free a slot
   then, but a host call that is still running can.
7. The host session may start a transfer after the drain of a reset (it is stepped
   until the port reports the fault, and the drain after the cycle cap never aborts
   it); RESET_DOMAIN then raises and the Group is poisoned.
8. `cancel_all` of a transaction that has faulted and was not acknowledged raises
   "terminal status changed" (`ErrorsExplained` in `TransferManager`).
9. In the indexed engine, a bypassed part that begins inside a line lacks bytes
   when it is written, and a reset drain can complete a refill token that is
   already gone (`ErrorsExplained` in `MfeIndexed` names exactly these cases).
10. `tile_group.py:1062` says that after RESET_DOMAIN no owner acknowledges a
    record again; `HostSession.harvest` does (`host_session.py:273`) when the abort
    cancelled its transfer, and the second acknowledgement raises out of `run()`.
    It takes a fault and an abort, which is what `OutcomeIsTrue` says of `raised`
    (`RaisedAfterFault`).
11. A submit may bind two formals of a Context to one input.  `lowering.py:674`
    orders accesses by the input and `execution_verifier.py:1833` checks by the
    input, but `insert_task_maintenance` compares formals (`_overlaps`,
    `profile_pass.py:165`): a Gather through one formal of what the Context wrote
    through the other gets no invalidation, and the loader refuses the compiled
    program ("lacks required cache maintenance after HBM write").
    `CompiledTaskIsValid` allows that check, and no other, to fail for such
    Contexts (`ReadThroughAlias`); without the exception TLC refutes it with
    `OneInput`, and with a loader that compared formals it refutes `AsIfSequential`.

## 5. Proofs

Each proof module extends the module it is about and assumes only that module's
named assumptions.  In every one an inductive invariant is shown to hold
initially and to be kept by each action, by one lemma per action or group of
actions; the properties follow from it.

### `EventTableProofs`

For every finite set of launches and names, every capacity, every map of uses and
every bound (`TableAssumption`, `UsesAssumption`, `BoundsAssumption`):

- `TypeCorrect`, `QuotasAccounted`, `CapacityRespected` and their conjunction
  `StorageStaysAccounted`: `Spec => []StorageAccounted`;
- `ReferencesAccounted`: `Spec => []ReferenceAccounting`;
- `TerminalStays`, `EventsStayRetired` and their conjunction `EventsStayFinal`:
  `Spec => EventsFinal`;
- `FreedStorageIsAnnounced`: `Spec => FreedStorageWakes`.

`NoOvercommit` is not inductive: registering a managed output does not look at
the capacity.  The invariant is `IInv == TypeOK /\ QuotaAccounting`, whose parts
need each other: `ReservedBound` (claims of open quotas plus unmanaged entries
fit the table), `FrontierBound` (no launch has more managed entries than its
quota claims) and `ManagedAccounted` (a managed entry has an open quota that
recorded it).  `AccountingBoundsSlots` derives the capacity by numbering the
managed entries of each launch with an injection into the slots its quota claims.
`ManagedStep`, `CompatibilityStep` and `AccessStep` show that each group of calls
preserves `IInv`; `ShrinkStep` and `AllocateStep` carry the two patterns they
reduce to.  The action properties follow from `TypeOK` by the same case split
(`ManagedSound`, `CompatibilitySound`, `AccessSound`).

The reference counts are inductive given `TypeOK`: a consumer is only counted
against a use that is left, and every call that may leave a finished entry
without readers ends in `_maybe_reclaim` (`ReclaimedCounted`), except `reset()`,
which marks entries RESET and keeps them.  For the version, `SilentStays` shows
that a call that does not bump it keeps every unmanaged entry and every claim; a
`cancel_reservation` that raises half way is the one exception, and
`PartialDrops` says exactly what it drops.

### `StreamQueueProofs`

`CreditsConserved`: `Isolated => (Spec => []CreditInvariant)`, for every set of
producers, every depth, every number of tokens and of resets
(`StreamAssumption`).  The theorem needs `Isolated`: without it a token from
before a reset is pushed or released against the credits of the new generation.  `acquire`, `push`, `pop` and
`release` each move one credit between two counters, but three of the counters
count tokens that the Tiles hold, so the sum is inductive only together with the
agreement of each counter with the tokens behind it, and that only with
`TokensInOrder`: every valid token differs from every other one.

### `ProfileControllerProofs`

For every set of members and Contexts, every list of commands and every number of
runs, recoveries and failing responses (`ProfileAssumption`): `ControllerSound`
(the invariant), `GatesAreHonest`, `ReconfigurationIsIsolated`,
`PublicationNeverFails`.

`step()` moves a bus item and then advances the command, so the invariant
`Sound(c, U)` is stated of a controller record `c` and the levels `U` in use: it
also holds of the record between the two halves, which are proved separately.
Its parts: `Agreed` (components and members always have the active profile, with
no condition, because publication installs all of them in one step); `Settled`
(no command while members are initialized or rebuilt); `Latched` (the gate stays
closed from CLOSE_ISSUE to OPEN_ISSUE and after a fault); `Deserted` (nobody uses
the level after the drain, which needs `Latched` against new admissions);
`Cleaning` (a dirty line is in a request or a write-back until the caches are
clean, so that DRAIN_DOWNSTREAM really ends with clean ones); `Acknowledged` (the
bus carries only what this command sent, and a member counted as ready or
committed is), without which a late answer of an earlier command could publish a
profile nobody prepared.

### `TransferManagerProofs`

For every set of transfers, every size of the banks, the HBM CAM, the virtual
channels and the terminal history (`FabricAssumption`), for requests whose
endpoints are views and whose refills name no destination (`RequestAssumption`),
on routes over numbered resources (`RouteAssumption`):

- `FabricIsSound`: `Spec => []FabricSound`;
- `WakeupsAreNotLost`: `Spec => []NoLostWakeup`;
- `DataIsTrue`: `Spec => DataTrue`.

The parts of `IInv`: `LegsTrue` (an unfinished transaction is on a leg of its
route; a cancelled one waits only for an accepted leg), which the next two need to
know what is held; `HoldersExact` and `CamBound` (a bank or a CAM entry is held
only by an accepted leg of that stage, and never twice); `FlitsExact` (a tagged leg
has one flit, queued or across, on the channel of the leg); `CreditsExact` (free
credits and flits across add up); `SleepersBlocked` (a transaction that skips its
retries would be refused, kept because a release wakes the whole family of the
stage); `HistoryTrue` (the history names each transaction once, with its outcome),
needed for the claim that only the two explained errors are raised; `DataWhole`
(incomplete bytes only where the operation allows them, and none of them written).
`RecordTerminalSound`, `AdvanceLegSound`, `ReleasedSound`, `ReturnSound` and
`UnqueuedSound` state what the shared operators do, and every action's lemma is
put together from them; `StaleStep`, the action half of `DataTrue`, is proved
along with the invariant.  `BlockedStays` carries the counting argument of the
wake-ups: taking more banks or entries never unblocks anyone.

### `CoSimulatorProofs`

For every list of well-formed programs (`ProgramsWellFormed`: an operation refers to
earlier launches, an await has one event, the return comes last), every number of
port slots, every width and capacity of the Device (`SlotsAssumption`,
`DeviceAssumption`):

- `NoInternalErrorEver`: `Spec => []NoInternalError`;
- `OutcomeAlwaysTrue`: `Spec => []OutcomeIsTrue`;
- `NoWakeupMissed`: `Spec => []NoMissedWakeup`.

Device, port, session and Group each keep a record of the same launch, and every
property needs all of them at once.  The parts of `IInv`:

- `LaunchAgreement` (a launch is at exactly one place) and `PendingFresh` (a pending
  launch is pending once and nowhere else, the program has issued it and everything
  it waits for); `ControlTrue` (the program stands at the command it handed over);
  `FaultClears` (a fault leaves the CPU nothing to wait for);
- `Counted` (references are counted exactly, and a bound event has consumers or a
  live launch), `ReservationsExact`, `NoneLost` (without a fault an issued launch is
  somewhere or complete) and `SlotsDrain`, which exclude the errors of the
  completion table;
- `DoneDrained` (after the reset the port empties slots, queue and answers in turn),
  `Ages` and `Young` (a transfer issued after DRAIN_SAFE is at most two cycles old
  at the release, so that the abort meets it) and `StoppedByAbort`, which give
  `OutcomeIsTrue` its `raised` case.

`Writers` says once which action writes which part of the state, so that a part of
`IInv` is reconsidered only by the actions that write what it reads.  `JoinFacts`,
`LeaveFacts` and `ForgetFacts` say what one launch joining, leaving, and all launches
forgetting a completed one do to the pending sequence; `ReleaseCounts` what a
completion does to the references; `AheadFacts` what the program counter says about
what is left.  `PortWakes` is proved over `IInv`: a port that does not try its head
has seen the token by which it would be judged (`AttemptSame`).  The other half of
`NoMissedWakeup` follows from `InTurn` (the rotation repeats nobody and holds exactly
the live routines): `WithoutFacts` proves that taking finished routines out of the
rotation keeps the others, each once, and `TurnsCounted` counts them.

### `GroupSchedulerProofs`

For every set of launches whose programs are well formed and share no event
(`ProgramAssumption`, which also says that the table can hold each program's
frontier), both policies, with and without the epoch rule, and every capacity
(`ConfigAssumption`, `TableAssumption`, `UsesAssumption`):

- `SchedulerInvariant`: `Spec => []IInv`;
- `BooksAlwaysAgree`: `Spec => []BooksAgree`;
- `NoErrorEscapes`: `Spec => []NoInternalError`;
- `RunsAlwaysAsWritten`: `Spec => []RunsAsWritten`.

Nothing here holds of the table, the sequencers or the scheduler alone.  The part of
`IInv` about one launch is `Good(l, e, q, x, s)`, a predicate on the table, its
quota, its sequencer and the reset state, so that a step moves one launch through a
lemma about these values and leaves the others as they are (`OneMoves`).  Its parts:

- `Flow` (what runs was registered; a Context closes at its end or its fault) and
  `FencesKept` (the one fence that runs is the last action registered, and nothing
  before an issued barrier runs);
- `Booked` (an event has its producer, one pin per queued consumer and no more pins
  than uses) and `Produced`; `StatusTrue` (a pending event has a running producer,
  and the outputs of what runs are pending until the reset marks them);
- `UsesTrue` (without a fault the uses of an event are its consumers still to issue,
  after one they are gone, except under a faulted Grid) and `QuotaTrue`;
- `KnownTrue` and `SlotsTrue`, which tie the run to the compiler's analysis: what
  `Completed` derives from an issued action is true of the table, and every live
  event is among the `LiveSlots` the compiler counted.  A registration past a fence
  therefore stays within the frontier in every schedule, which is what
  `RegistrationNeverFaults` says;
- `ResetTrue` (a fault starts the reset, which waits for all but the Grids and then
  takes every Context with it).

The rest is global: `Lists` (the active Contexts, and records of the right kind, each
once), `Turn` (in which phase a reset and a done Context can be seen), `OwnersAgree`
and `Credits`.  `Completed` and `LiveSlots` are recursive functions; that they exist
and satisfy their equations is proved by descent to a least counterexample
(`CompletedExists`, `SlotsExist`), since the induction theorems cannot be used.
`KeptFacts` says what keeping some elements of a sequence in order does, the operator
behind the queue, the scan window, the rotation and retirement.  TLC checked `IInv`
on every state of the `group_scheduler` instance before it was proved.

### What stays with TLC

Liveness (`CommandsEnd`, `StreamsDrain`, `EveryTransferEnds`, `EveryJobEnds`,
`EveryTaskEnds`, `GroupSettles`, `RunSettles`, `Terminates`), because
the proof system does not reason about fairness.  `CompiledIsValid`,
`CompiledTaskIsValid`, `AsIfSequential` and the others about compiled programs rest
on folds over a program, and induction over data is out of its reach.  Not proved
yet, and within reach: the ledgers of the L2 pool (`PoolSound`, and the step
simulation behind `OwnershipRefined`), of the pages (`PoolExact`), of the Tiles
(`WorkExact`, `MemoryExact`) and of the refill tables (`RefillsSound`).

## 6. Not modelled, and the plan

Not modelled: the dialect and its printing, type and attribute checks, Tile role
lowering and descriptors, the L1/L2 layout analysis, the codec, loader I/O and
relocation, configuration, residency tables and fault ring (sequential, without
interaction), the payload oracle, reports, traces, statistics, engine latencies,
the CLI, the paged attention workload.  Collectives' data paths, several roles per
Context, the run of a bare Group task and the entry prefix are left out of the
modelled components.

What a proof should take up next: the page counts of `PoolExact`, and the ledgers of
the L2 pool with the step simulation behind `OwnershipRefined`.
