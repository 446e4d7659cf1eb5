------------------------- MODULE ProfileController -------------------------
(***************************************************************************)
(* The profile controller (memory/profile_controller.py): the single       *)
(* writer of the L1 and L2 profiles of a TileGroup.  It runs one command   *)
(* at a time, a profile reconfiguration or a range maintenance; talks to   *)
(* the members (banks) over a bus that moves one request or one response   *)
(* per cycle; and is rebuilt after a fault by an explicit recovery.        *)
(*                                                                         *)
(* step() services the bus and then advances the command, in one call: an  *)
(* action of the model is \E b : b is the controller after the bus item,   *)
(* and Advance(b).  The controller is therefore one record, ctl.           *)
(*                                                                         *)
(* Around it are the users of the memory as tile_group.py admits them      *)
(* (Contexts hold L2, Tasks hold L1), the member responses (late, failing  *)
(* or of a wrong generation, queue_member_response) and the write-backs of *)
(* dirty lines.  A cache is reduced to whether it has a dirty line.        *)
(***************************************************************************)
EXTENDS Integers, Sequences, FiniteSets

CONSTANTS
    MembersOf,       \* the members of each level
    Contexts,        \* root Contexts
    Commands,        \* the kinds each submitted command may have, in order
    MaxDispatches,   \* Task dispatches of one Context
    MaxRuns,         \* bound on runs
    MaxRecoveries,   \* bound on explicit recoveries
    MaxOverrides     \* bound on failing and wrong-generation responses

Levels == {"l1", "l2"}
Members == UNION {MembersOf[l] : l \in Levels}
LevelOf == [m \in Members |-> CHOOSE l \in Levels : m \in MembersOf[l]]
Modes == {0, 1}
ResetMode == 0

MaxCommands == Len(Commands)   \* bound on submitted commands

ASSUME ProfileAssumption ==
    /\ \A l \in Levels : MembersOf[l] # {} /\ IsFiniteSet(MembersOf[l])
    /\ MembersOf["l1"] \cap MembersOf["l2"] = {}
    /\ Commands \in Seq(SUBSET {"profile", "maintenance"})
    /\ {MaxDispatches, MaxRuns, MaxRecoveries, MaxOverrides} \subseteq Nat

VARIABLES
    ctl,          \* the controller: see InitController
    ctx,          \* idle, pending (_pending_root_requests) or active Contexts
    left,         \* Task dispatches an active Context has still to submit
    queued,       \* Tasks of registered Grid routes that await admission
    leases,       \* admitted Tasks (_task_leases)
    rangeTxn,     \* a user transfer that touches the range of maintenance commands
    recoveries    \* number of recover() calls

env == <<ctx, left, queued, leases, rangeTxn>>
vars == <<ctl, env, recoveries>>

NoId == 0
InitializeId == -2
RecoverId == -1

Live == {"pending", "running"}
Terminal == {"completed", "faulted", "cancelled"}
Both(x) == [l \in Levels |-> x]

\* _Command.  One dirty line per level, so a clean request is named by its level.
NoCommand ==
    [id |-> NoId, kind |-> "none", levels |-> {}, target |-> 0, owner |-> "device", startup |-> FALSE,
     state |-> "none", step |-> "ACQUIRE", cancel |-> FALSE, issueClosed |-> FALSE,
     ready |-> {}, committed |-> {}, started |-> FALSE, pending |-> {}, txn |-> Both("none")]

CleanupPending(cmd) == cmd.pending # {} \/ \E l \in Levels : cmd.txn[l] # "none"

RequiresRecovery(cmd) ==
    \/ cmd.state = "faulted"
    \/ cmd.state = "cancelled" /\ cmd.issueClosed /\ cmd.kind # "maintenance"

CancellationPending(c) ==
    \/ c.cmd.state \in Live \/ CleanupPending(c.cmd)
    \/ c.requests # <<>> \/ c.responses # {}

GateClosed(l) == l \in ctl.closed \/ ctl.phase # "ready"

-----------------------------------------------------------------------------
\* initialize()
Request(id, m, stage, mode, gen) ==
    [id |-> id, member |-> m, stage |-> stage, mode |-> mode, gen |-> gen]

\* The members of the levels ls, in bus order.
Ordered ==
    [ls \in SUBSET Levels |->
        LET ms == UNION {MembersOf[l] : l \in ls}
        IN  CHOOSE s \in [1 .. Cardinality(ms) -> ms] : {s[i] : i \in 1 .. Cardinality(ms)} = ms]

Broadcast(ls, id, stage, mode, gen) ==
    LET ms == Ordered[ls]
    IN  [i \in DOMAIN ms |-> Request(id, ms[i], stage, mode, gen[LevelOf[ms[i]]] + 1)]

InitController ==
    LET ms == Ordered[Levels] IN
    [phase |-> "initializing", mode |-> Both(ResetMode), gen |-> Both(0), installed |-> Both(0),
     closed |-> Levels, startup |-> {}, authRun |-> -1, run |-> 0,
     member |-> [m \in Members |-> [mode |-> ResetMode, gen |-> 0, shadowMode |-> ResetMode,
                                     shadowGen |-> 0, prepared |-> NoId, committed |-> NoId]],
     requests |-> [i \in DOMAIN ms |-> Request(InitializeId, ms[i], "INITIALIZE", ResetMode, 0)],
     responses |-> {}, acks |-> {}, overrides |-> 0,
     cmd |-> NoCommand, awaited |-> FALSE, used |-> {}, ranges |-> {}, dirty |-> {}]

Init ==
    /\ ctl = InitController
    /\ ctx = [x \in Contexts |-> "idle"]
    /\ left = [x \in Contexts |-> 0]
    /\ queued = 0
    /\ leases = 0
    /\ rangeTxn = FALSE
    /\ recoveries = 0

-----------------------------------------------------------------------------
(* The closure of a level: no user holds or is about to take its memory.   *)

\* A write-back is in closure_snapshot() until it is done or cancelled; one of
\* an L1 line also crosses L2.
WritebackLive(c, l) == c.cmd.txn[l] \in {"running", "faulted"}

Quiescent(c, l) ==
    /\ \A x \in Contexts : ctx[x] # "pending"
    /\ queued = 0 /\ leases = 0
    /\ ~WritebackLive(c, "l1")
    /\ l = "l2" => (\A x \in Contexts : ctx[x] = "idle") /\ ~rangeTxn /\ ~WritebackLive(c, "l2")

\* What ArenaPool, cache and MSHR reconfigure() insist on.
ComponentsReady(c, l) ==
    /\ l = "l1" => leases = 0
    /\ l = "l2" => \A x \in Contexts : ctx[x] # "active"
    /\ \A k \in c.cmd.pending : k # l
    /\ c.cmd.txn[l] = "none"

VerifyMemberReady(c, m, allowDirty) ==
    ComponentsReady(c, LevelOf[m]) /\ (LevelOf[m] \notin c.dirty \/ allowDirty)

-----------------------------------------------------------------------------
(* Faults, cancellation and write-backs.                                   *)

\* Acknowledge the write-backs that ended; only a successful one cleans its line.
AckWritebacks(c) ==
    [c EXCEPT !.dirty = @ \ {l \in Levels : c.cmd.txn[l] = "done"},
              !.cmd.txn = [l \in Levels |-> IF @[l] = "running" THEN @[l] ELSE "none"]]

CleanupKeepsPending(c) == AckWritebacks(c)   \* mutant: nothing is withdrawn

\* _advance_fault_cleanup: the requests not yet submitted are withdrawn.
FaultCleanup(c) == AckWritebacks([c EXCEPT !.cmd.pending = {}])

FaultLeavesGate(c) ==   \* mutant: the gate stays as it was
    FaultCleanup([c EXCEPT !.cmd.state = "faulted"])

\* _fault
Fault(c) ==
    FaultCleanup([c EXCEPT
        !.cmd.state = "faulted",
        !.closed = IF c.cmd.kind = "profile" THEN @ \cup c.cmd.levels ELSE @])

\* _isolation_complete
IsolationComplete(c) ==
    /\ \A i \in DOMAIN c.requests : c.requests[i].id # c.cmd.id
    /\ \A r \in c.responses : r.id # c.cmd.id
    /\ ~CleanupPending(c.cmd)

\* _advance_cancel
AdvanceCancel(b) ==
    LET c == FaultCleanup(b) IN
    ctl' = IF IsolationComplete(c)
           THEN [c EXCEPT !.cmd.state = "cancelled",
                          !.ranges = IF c.cmd.kind = "maintenance" THEN @ \ c.cmd.levels ELSE @]
           ELSE c

-----------------------------------------------------------------------------
(* The member bus.                                                         *)

\* _consume_response
ConsumeCommandAck(c, r) ==
    LET l == LevelOf[r.member] IN
    IF c.cmd.id # r.id \/ c.cmd.kind # "profile" \/ r.gen # c.gen[l] + 1 THEN c
    ELSE IF ~r.ok THEN Fault(c)
    ELSE IF r.stage = "PREPARE" THEN [c EXCEPT !.cmd.ready = @ \cup {r.member}]
    ELSE [c EXCEPT !.cmd.committed = @ \cup {r.member}]

ConsumeRecoveryAck(c, r) ==
    IF c.phase \notin {"prepare", "commit"} \/ r.gen # c.gen[LevelOf[r.member]] + 1 THEN c
    ELSE IF ~r.ok THEN [c EXCEPT !.phase = "failed", !.acks = {}]
    ELSE [c EXCEPT !.acks = @ \cup {<<r.member, r.stage>>}]

ConsumeInitializeAck(c, r) ==
    IF r.gen # 0 THEN c
    ELSE IF ~r.ok THEN [c EXCEPT !.phase = "failed"]
    ELSE [c EXCEPT !.acks = @ \cup {<<r.member, r.stage>>}]

Consume(r) ==
    LET c == [ctl EXCEPT !.responses = @ \ {r}] IN
    CASE r.id = InitializeId -> ConsumeInitializeAck(c, r)
      [] r.id = RecoverId    -> ConsumeRecoveryAck(c, r)
      [] OTHER               -> ConsumeCommandAck(c, r)

\* The member's answer to a PREPARE or a COMMIT.
Accepts(c, q) ==
    LET m == c.member[q.member] IN
    CASE q.stage = "INITIALIZE" -> m.mode = q.mode /\ m.gen = 0
      [] q.stage = "PREPARE"    -> VerifyMemberReady(c, q.member, q.id = RecoverId)
      [] q.stage = "COMMIT"     -> m.prepared = q.id /\ m.shadowMode = q.mode /\ m.shadowGen = q.gen

\* _service_request; an override (queue_member_response) replaces the outcome
\* or the generation of the response, not what the member did.
Service(ok, gen) ==
    LET q == Head(ctl.requests)
        accepts == Accepts(ctl, q)
        old == ctl.member[q.member]
        new == CASE accepts /\ q.stage = "PREPARE" ->
                       [old EXCEPT !.shadowMode = q.mode, !.shadowGen = q.gen, !.prepared = q.id]
                 [] accepts /\ q.stage = "COMMIT" -> [old EXCEPT !.committed = q.id]
                 [] OTHER -> old
    IN  [ctl EXCEPT
            !.requests = Tail(@),
            !.member[q.member] = new,
            !.responses = @ \cup {[id |-> q.id, member |-> q.member, stage |-> q.stage,
                                   gen |-> gen, ok |-> ok]},
            !.overrides = IF ok = accepts /\ gen = q.gen THEN @ ELSE @ + 1]

-----------------------------------------------------------------------------
(* Publication and recovery.                                               *)

\* The member has this command's shadow, as _publish_profile checks.
ShadowConfirmed(c, m) ==
    /\ c.member[m].committed = c.cmd.id
    /\ c.member[m].shadowMode = c.cmd.target
    /\ c.member[m].shadowGen = c.gen[LevelOf[m]] + 1

InstallComponents(c, l) == [c EXCEPT !.installed[l] = c.gen[l] + 1]

CanInstall(c, l) == ComponentsReady(c, l) /\ l \notin c.dirty /\ c.gen[l] + 1 > c.installed[l]

SwitchMembers(c, l, mode) ==
    [c EXCEPT !.mode[l] = mode,
              !.gen[l] = @ + 1,
              !.member = [m \in Members |->
                  IF m \in MembersOf[l]
                  THEN [@[m] EXCEPT !.mode = mode, !.gen = c.gen[l] + 1, !.prepared = NoId, !.committed = NoId]
                  ELSE @[m]]]

\* _publish_profile: the components are reconfigured before the members are checked.
Publish(c, l) ==
    LET installed == InstallComponents(c, l) IN
    IF ~CanInstall(c, l) THEN Fault(c)
    ELSE IF \E m \in MembersOf[l] : ~ShadowConfirmed(c, m) THEN Fault(installed)
    ELSE [SwitchMembers(installed, l, c.cmd.target) EXCEPT !.cmd.step = "OPEN_ISSUE"]

AllAcked(c, stage) == c.acks = {<<m, stage>> : m \in Members}

RecoveryPossible(c) ==
    \A l \in Levels : ComponentsReady(c, l) /\ c.gen[l] + 1 > c.installed[l]

Rebuild(c, l) ==
    LET s == SwitchMembers(InstallComponents(c, l), l, ResetMode)
    IN  [s EXCEPT !.member = [m \in Members |->
             IF m \in MembersOf[l]
             THEN [@[m] EXCEPT !.shadowMode = ResetMode, !.shadowGen = c.gen[l] + 1]
             ELSE @[m]]]

\* _finish_recovery; a failure leaves a controller that is never initialized again.
FinishRecovery(c) ==
    IF ~RecoveryPossible(c) THEN [c EXCEPT !.phase = "failed"]
    ELSE [Rebuild(Rebuild(c, "l1"), "l2") EXCEPT
             !.phase = "ready", !.closed = {}, !.startup = Levels, !.authRun = -1,
             !.cmd = [NoCommand EXCEPT !.id = c.cmd.id], !.awaited = FALSE, !.used = {}, !.ranges = {}, !.dirty = {}, !.acks = {}]

StepRecovery(b) ==
    \/ /\ b.phase = "prepare"
       /\ ctl' = IF AllAcked(b, "PREPARE")
                 THEN [b EXCEPT !.phase = "commit", !.acks = {},
                                !.requests = @ \o Broadcast(Levels, RecoverId, "COMMIT", ResetMode, b.gen)]
                 ELSE b
    \/ /\ b.phase = "commit"
       /\ ctl' = IF AllAcked(b, "COMMIT") THEN FinishRecovery(b) ELSE b

FinishInitialization(b) ==
    ctl' = IF AllAcked(b, "INITIALIZE")
           THEN [b EXCEPT !.phase = "ready", !.startup = Levels, !.closed = {}, !.acks = {}]
           ELSE b

-----------------------------------------------------------------------------
(* The steps of a command.                                                 *)

Move(b, step) == [b EXCEPT !.cmd.step = step]

\* _consume_frontier: a startup authorization, or an await proof that this
\* level has not used.
FrontierProved(b, l) ==
    IF b.cmd.startup THEN b.cmd.owner = "device" /\ l \in b.startup
    ELSE b.awaited /\ l \notin b.used

\* _frontier_plan_violation: an L1 change with Task dispatches still to come.
FrontierViolated(b, l) ==
    /\ l = "l1"
    /\ \E x \in Contexts :
          \/ ctx[x] = "pending"
          \/ ctx[x] = "active" /\ left[x] > 0 /\ b.cmd.owner # "context"

CheckFrontier(b, l) ==
    LET c == IF b.cmd.startup THEN [b EXCEPT !.startup = @ \ {l}] ELSE [b EXCEPT !.used = @ \cup {l}] IN
    ctl' = IF ~FrontierProved(b, l) THEN Fault(b)
           ELSE IF FrontierViolated(b, l) THEN Fault(c)
           ELSE Move(c, "CLOSE_ISSUE")

\* _clean_transactions_done
WritebackFailed(b) == \E l \in Levels : b.cmd.txn[l] \in {"faulted", "cancelled"}

\* _maintain_caches; slots are the requests the transfer manager has room for.
MaintainCaches(b) ==
    LET begun == IF b.cmd.started THEN b
                 ELSE [b EXCEPT !.cmd.started = TRUE, !.cmd.pending = b.cmd.levels \cap b.dirty]
        Issue(slots) == [AckWritebacks(begun) EXCEPT
            !.cmd.pending = @ \ slots,
            !.cmd.txn = [l \in Levels |-> IF l \in slots THEN "running" ELSE @[l]]]
    IN  \E slots \in SUBSET begun.cmd.pending :
            ctl' = IF WritebackFailed(begun) THEN Fault(begun)
                   ELSE IF CleanupPending(Issue(slots).cmd) THEN Issue(slots)
                   ELSE Move(Issue(slots), "DRAIN_DOWNSTREAM")

DrainDownstream(b, next, quiescent) ==
    LET c == AckWritebacks(b)
    IN  IF WritebackFailed(b) THEN Fault(b)
        ELSE IF ~CleanupPending(c.cmd) /\ quiescent THEN Move(c, next)
        ELSE c

DrainSkipped(b, l) == ctl' = Move(b, "CLEAN_INVALIDATE")   \* mutant: the references are not waited for

\* DRAIN_REFERENCES
DrainReferences(b, l) ==
    ctl' = IF Quiescent(b, l) THEN Move(b, "CLEAN_INVALIDATE") ELSE b

\* WAIT_READY_ACK
WaitReadyAck(b, l) ==
    ctl' = IF b.cmd.ready = MembersOf[l] THEN Move(b, "COMMIT") ELSE b

OpenBeforeCommit(b, l) ==   \* mutant: the gate opens with the commit requests
    ctl' = [b EXCEPT !.requests = @ \o Broadcast({l}, b.cmd.id, "COMMIT", b.cmd.target, b.gen),
                     !.closed = @ \ {l}, !.cmd.step = "WAIT_COMMIT_ACK"]

\* COMMIT
Commit(b, l) ==
    ctl' = [b EXCEPT !.requests = @ \o Broadcast({l}, b.cmd.id, "COMMIT", b.cmd.target, b.gen),
                     !.cmd.step = "WAIT_COMMIT_ACK"]

StepProfile(b) ==
    \E l \in b.cmd.levels :
        \/ b.cmd.step = "ACQUIRE" /\ ctl' = Move(b, "CHECK_FRONTIER")
        \/ b.cmd.step = "CHECK_FRONTIER" /\ CheckFrontier(b, l)
        \/ /\ b.cmd.step = "CLOSE_ISSUE"
           /\ ctl' = [b EXCEPT !.closed = @ \cup {l}, !.cmd.issueClosed = TRUE, !.cmd.step = "DRAIN_REFERENCES"]
        \/ b.cmd.step = "DRAIN_REFERENCES" /\ DrainReferences(b, l)
        \/ b.cmd.step = "CLEAN_INVALIDATE" /\ MaintainCaches(b)
        \/ b.cmd.step = "DRAIN_DOWNSTREAM" /\ ctl' = DrainDownstream(b, "PREPARE", Quiescent(AckWritebacks(b), l))
        \/ /\ b.cmd.step = "PREPARE"
           /\ ctl' = [b EXCEPT !.requests = @ \o Broadcast({l}, b.cmd.id, "PREPARE", b.cmd.target, b.gen),
                               !.cmd.step = "WAIT_READY_ACK"]
        \/ b.cmd.step = "WAIT_READY_ACK" /\ WaitReadyAck(b, l)
        \/ b.cmd.step = "COMMIT" /\ Commit(b, l)
        \/ /\ b.cmd.step = "WAIT_COMMIT_ACK"
           /\ ctl' = IF b.cmd.committed = MembersOf[l] THEN Publish(b, l) ELSE b
        \/ b.cmd.step = "OPEN_ISSUE" /\ ctl' = [b EXCEPT !.closed = @ \ {l}, !.cmd.step = "RELEASE"]
        \/ b.cmd.step = "RELEASE" /\ ctl' = [b EXCEPT !.cmd.state = "completed"]

\* _consume_dependency_events: the scheduler's receipt of a Context's
\* dependencies, or an await proof of the device.
DependenciesProved(b) == b.cmd.owner = "context" \/ (b.awaited /\ "dependency" \notin b.used)

StepMaintenance(b) ==
    \/ b.cmd.step = "ACQUIRE" /\ ctl' = Move(b, "WAIT_DEPENDENCIES")
    \/ /\ b.cmd.step = "WAIT_DEPENDENCIES"
       /\ ctl' = IF ~DependenciesProved(b) THEN b
                 ELSE [b EXCEPT !.used = IF b.cmd.owner = "context" THEN @ ELSE @ \cup {"dependency"},
                                !.cmd.step = "BLOCK_RANGE_ISSUE"]
    \/ /\ b.cmd.step = "BLOCK_RANGE_ISSUE"
       /\ ctl' = [b EXCEPT !.ranges = @ \cup b.cmd.levels, !.cmd.issueClosed = TRUE,
                           !.cmd.step = "DRAIN_RANGE_REFERENCES"]
    \/ /\ b.cmd.step = "DRAIN_RANGE_REFERENCES"
       /\ ctl' = IF rangeTxn THEN b ELSE Move(b, "CLEAN_INVALIDATE")
    \/ b.cmd.step = "CLEAN_INVALIDATE" /\ MaintainCaches(b)
    \/ b.cmd.step = "DRAIN_DOWNSTREAM" /\ ctl' = DrainDownstream(b, "ACK", TRUE)
    \/ b.cmd.step = "ACK" /\ ctl' = Move(b, "UNBLOCK_RANGE_ISSUE")
    \/ /\ b.cmd.step = "UNBLOCK_RANGE_ISSUE"
       /\ ctl' = [b EXCEPT !.ranges = @ \ b.cmd.levels, !.cmd.step = "RELEASE"]
    \/ b.cmd.step = "RELEASE" /\ ctl' = [b EXCEPT !.cmd.state = "completed"]

\* The command has run for profile_command_timeout_cycles; a command that is
\* being cancelled does not time out.
Expire(b) ==
    /\ b.phase \in {"ready", "failed"}
    /\ b.cmd.state \in Live /\ ~b.cmd.cancel
    /\ ctl' = Fault(b)

\* The rest of step(), after the bus.
Advance(b) ==
    LET running == [b EXCEPT !.cmd.state = "running"] IN
    \/ b.phase = "initializing" /\ FinishInitialization(b)
    \/ b.phase \in {"prepare", "commit"} /\ StepRecovery(b)
    \/ /\ b.phase \in {"ready", "failed"}
       /\ \/ b.cmd.state \in {"none", "completed", "cancelled"} /\ ctl' = b
          \/ b.cmd.state = "faulted" /\ ctl' = FaultCleanup(b)
          \/ b.cmd.state \in Live /\ b.cmd.cancel /\ AdvanceCancel(b)
          \/ /\ b.cmd.state \in Live /\ ~b.cmd.cancel
             /\ \/ b.cmd.kind = "profile" /\ StepProfile(running)
                \/ b.cmd.kind = "maintenance" /\ StepMaintenance(running)

\* _service_one_bus_item: a response is served when it is ready, whatever its
\* place in the queue; a request is served while no response is ready;
\* otherwise the bus is idle.
Delivered == {Consume(r) : r \in ctl.responses}

Serviced ==
    IF ctl.requests = <<>> THEN {}
    ELSE {b \in {Service(ok, Head(ctl.requests).gen - d) : ok \in BOOLEAN, d \in {0, 1}} :
              b.overrides <= MaxOverrides}

Idle == IF ctl.requests = <<>> THEN {ctl} ELSE {}

Step(bs) == (\E b \in bs : Advance(b)) /\ UNCHANGED <<env, recoveries>>

Timeout ==
    /\ \E b \in Delivered \cup Serviced \cup Idle : Expire(b)
    /\ UNCHANGED <<env, recoveries>>

-----------------------------------------------------------------------------
(* Calls of the Group, the Device and the reset FSM.                       *)

NoUser == (\A x \in Contexts : ctx[x] = "idle") /\ queued = 0 /\ leases = 0 /\ ~rangeTxn

\* begin_run, called by load_program once the previous launch has retired.
BeginRun ==
    /\ NoUser
    /\ ctl.run < MaxRuns
    /\ ~CancellationPending(ctl) /\ ~RequiresRecovery(ctl.cmd) /\ ctl.phase = "ready"
    /\ LET granted == ctl.startup # {}
           expired == granted /\ ctl.authRun >= 0
       IN  ctl' = [ctl EXCEPT
                      !.run = @ + 1,
                      !.authRun = IF granted /\ ctl.authRun < 0 THEN ctl.run + 1 ELSE @,
                      !.startup = IF expired THEN {} ELSE @,
                      !.cmd = [NoCommand EXCEPT !.id = ctl.cmd.id],
                      !.awaited = FALSE, !.used = {}, !.ranges = {}]
    /\ UNCHANGED <<env, recoveries>>

NoteAwait ==
    /\ ctl.run > 0 /\ ~ctl.awaited
    /\ ctl' = [ctl EXCEPT !.awaited = TRUE]
    /\ UNCHANGED <<env, recoveries>>

\* submit() is refused (False, or an error) while another command is live or
\* awaits recovery.
CanSubmit ==
    /\ ctl.run > 0 /\ ctl.phase = "ready"
    /\ ~CancellationPending(ctl) /\ ~RequiresRecovery(ctl.cmd)

Submit(cmd) ==
    /\ CanSubmit
    /\ ctl.cmd.id < MaxCommands /\ cmd.kind \in Commands[ctl.cmd.id + 1]
    /\ cmd.owner = "context" => \E x \in Contexts : ctx[x] = "active"
    /\ ctl' = [ctl EXCEPT !.cmd = [cmd EXCEPT !.id = ctl.cmd.id + 1, !.state = "pending"]]
    /\ UNCHANGED <<env, recoveries>>

\* A valid descriptor names the active mode as expected and another as target.
SubmitProfile ==
    \E l \in Levels, owner \in {"device", "context"}, startup \in BOOLEAN, target \in Modes :
        /\ target # ctl.mode[l]
        /\ Submit([NoCommand EXCEPT !.kind = "profile", !.levels = {l}, !.target = target,
                                    !.owner = owner, !.startup = startup])

SubmitMaintenance ==
    \E ls \in SUBSET Levels \ {{}}, owner \in {"device", "context"} :
        Submit([NoCommand EXCEPT !.kind = "maintenance", !.levels = ls, !.owner = owner])

\* request_cancel / request_cancel_all of the reset FSM and cancelled Contexts.
RequestCancel ==
    /\ ctl.cmd.state \in Live /\ ~ctl.cmd.cancel
    /\ ctl' = [ctl EXCEPT
                  !.cmd.cancel = TRUE,
                  !.cmd.state = IF @ = "pending" THEN "cancelled" ELSE @]
    /\ UNCHANGED <<env, recoveries>>

\* recover(), called by TileGroup.reset.  Of the last command only the outcome
\* is kept: nothing reads the rest while the gates are closed, and
\* _finish_recovery drops it.
Recover ==
    /\ recoveries < MaxRecoveries
    /\ NoUser
    /\ ctl.phase = "ready" /\ ~CancellationPending(ctl)
    /\ \A l \in Levels : Quiescent(ctl, l)
    /\ ctl' = [ctl EXCEPT !.phase = "prepare", !.acks = {}, !.closed = Levels,
                          !.cmd = [NoCommand EXCEPT !.id = ctl.cmd.id, !.state = ctl.cmd.state],
                          !.requests = Broadcast(Levels, RecoverId, "PREPARE", ResetMode, ctl.gen)]
    /\ recoveries' = recoveries + 1
    /\ UNCHANGED env

\* The transfer manager ends a write-back; cancel_owner() makes it end early.
WritebackEnds(l) ==
    /\ ctl.cmd.txn[l] = "running"
    /\ \E status \in {"done", "faulted", "cancelled"} : ctl' = [ctl EXCEPT !.cmd.txn[l] = status]
    /\ UNCHANGED <<env, recoveries>>

-----------------------------------------------------------------------------
(* The users of the memory.                                                *)

SubmitRoot(x) ==
    /\ ctl.run > 0 /\ ctx[x] = "idle"
    /\ ctx' = [ctx EXCEPT ![x] = "pending"]
    /\ UNCHANGED <<ctl, left, queued, leases, rangeTxn, recoveries>>

AdmitRoot(x) ==
    /\ ctx[x] = "pending" /\ ~GateClosed("l2")
    /\ ctx' = [ctx EXCEPT ![x] = "active"]
    /\ left' = [left EXCEPT ![x] = MaxDispatches]
    /\ ctl' = [ctl EXCEPT !.startup = @ \ {"l2"}]
    /\ UNCHANGED <<queued, leases, rangeTxn, recoveries>>

Dispatch(x) ==
    /\ ctx[x] = "active" /\ left[x] > 0 /\ ~GateClosed("l1")
    /\ left' = [left EXCEPT ![x] = @ - 1]
    /\ queued' = queued + 1
    /\ UNCHANGED <<ctl, ctx, leases, rangeTxn, recoveries>>

\* _step_task_admission
AdmitTask ==
    /\ queued > 0 /\ ~GateClosed("l1")
    /\ queued' = queued - 1
    /\ leases' = leases + 1
    /\ ctl' = [ctl EXCEPT !.startup = @ \ {"l1"}]
    /\ UNCHANGED <<ctx, left, rangeTxn, recoveries>>

\* A Task that wrote leaves a dirty line behind in both caches.
RetireTask ==
    /\ leases > 0
    /\ leases' = leases - 1
    /\ \E ls \in {{}, Levels} : ctl' = [ctl EXCEPT !.dirty = @ \cup ls]
    /\ UNCHANGED <<ctx, left, queued, rangeTxn, recoveries>>

\* A Context retires, or is torn down by the reset FSM, without Tasks.
RetireRoot(x) ==
    /\ ctx[x] # "idle" /\ leases = 0 /\ ~rangeTxn
    /\ ctx' = [ctx EXCEPT ![x] = "idle"]
    /\ left' = [left EXCEPT ![x] = 0]
    /\ queued' = 0
    /\ UNCHANGED <<ctl, leases, rangeTxn, recoveries>>

\* The issue of a DMA looks at the gate of the level; nothing looks at the
\* range gates (range_issue_blocked has no caller).  Transfers are followed
\* while a maintenance command is live or still to come.
IssueTransfer(x) ==
    /\ \E i \in DOMAIN Commands : i >= ctl.cmd.id /\ "maintenance" \in Commands[i]
    /\ ctx[x] = "active" /\ ~rangeTxn /\ ~GateClosed("l2")
    /\ rangeTxn' = TRUE
    /\ UNCHANGED <<ctl, ctx, left, queued, leases, recoveries>>

TransferEnds ==
    /\ rangeTxn
    /\ rangeTxn' = FALSE
    /\ UNCHANGED <<ctl, ctx, left, queued, leases, recoveries>>

Users ==
    \/ \E x \in Contexts :
          SubmitRoot(x) \/ AdmitRoot(x) \/ Dispatch(x) \/ RetireRoot(x) \/ IssueTransfer(x)
    \/ AdmitTask \/ RetireTask \/ TransferEnds

Control ==
    \/ BeginRun \/ NoteAwait \/ SubmitProfile \/ SubmitMaintenance
    \/ RequestCancel \/ Recover
    \/ \E l \in Levels : WritebackEnds(l)

Next == Step(Delivered) \/ Step(Serviced) \/ Step(Idle) \/ Timeout \/ Control \/ Users

Spec == Init /\ [][Next]_vars

\* The Group steps the controller in every cycle, response delays are finite,
\* time passes and the fabric ends every write-back.
FairSpec ==
    /\ Spec
    /\ WF_vars(Step(Delivered)) /\ WF_vars(Step(Serviced)) /\ WF_vars(Step(Idle)) /\ WF_vars(Timeout)
    /\ \A l \in Levels : WF_vars(WritebackEnds(l))

-----------------------------------------------------------------------------
Ids == {InitializeId, RecoverId} \cup 0 .. MaxCommands
Stages == {"INITIALIZE", "PREPARE", "COMMIT"}
Steps == {"ACQUIRE", "CHECK_FRONTIER", "CLOSE_ISSUE", "DRAIN_REFERENCES", "CLEAN_INVALIDATE",
          "DRAIN_DOWNSTREAM", "PREPARE", "WAIT_READY_ACK", "COMMIT", "WAIT_COMMIT_ACK", "OPEN_ISSUE",
          "RELEASE", "WAIT_DEPENDENCIES", "BLOCK_RANGE_ISSUE", "DRAIN_RANGE_REFERENCES", "ACK",
          "UNBLOCK_RANGE_ISSUE"}

Command ==
    [id : 0 .. MaxCommands, kind : {"none", "profile", "maintenance"}, levels : SUBSET Levels,
     target : Modes, owner : {"device", "context"}, startup : BOOLEAN,
     state : Live \cup Terminal \cup {"none"}, step : Steps, cancel : BOOLEAN, issueClosed : BOOLEAN,
     ready : SUBSET Members, committed : SUBSET Members, started : BOOLEAN, pending : SUBSET Levels,
     txn : [Levels -> {"none", "running", "done", "faulted", "cancelled"}]]

Bank == [mode : Modes, gen : Nat, shadowMode : Modes, shadowGen : Int, prepared : Ids, committed : Ids]

BusRequest == [id : Ids, member : Members, stage : Stages, mode : Modes, gen : Int]
BusResponse == [id : Ids, member : Members, stage : Stages, gen : Int, ok : BOOLEAN]

Controller ==
    [phase : {"initializing", "ready", "prepare", "commit", "failed"}, mode : [Levels -> Modes],
     gen : [Levels -> Nat], installed : [Levels -> Nat], closed : SUBSET Levels,
     startup : SUBSET Levels, authRun : Int, run : Nat, member : [Members -> Bank],
     requests : Seq(BusRequest), responses : SUBSET BusResponse, acks : SUBSET (Members \X Stages),
     overrides : Nat, cmd : Command, awaited : BOOLEAN, used : SUBSET (Levels \cup {"dependency"}),
     ranges : SUBSET Levels, dirty : SUBSET Levels]

\* The types of the controller's fields; on the bus there are only requests of
\* known members, and the only live command is the last one submitted.
TypeOK ==
    /\ ctl \in Controller
    /\ ctx \in [Contexts -> {"idle", "pending", "active"}] /\ left \in [Contexts -> 0 .. MaxDispatches]
    /\ queued \in Nat /\ leases \in Nat /\ rangeTxn \in BOOLEAN

\* The members, the components and the controller agree on the profile of an
\* open level: missing, failed and wrong-generation acknowledgements never
\* open a gate (the promise of the Prepare/Commit protocol).
OpenLevelAgrees ==
    \A l \in Levels : ~GateClosed(l) =>
        /\ ctl.installed[l] = ctl.gen[l]
        /\ \A m \in MembersOf[l] : ctl.member[m].mode = ctl.mode[l] /\ ctl.member[m].gen = ctl.gen[l]

UsersAt(l) == leases > 0 \/ queued > 0 \/ (l = "l2" /\ \E x \in Contexts : ctx[x] = "active")

Isolating == {"CLEAN_INVALIDATE", "DRAIN_DOWNSTREAM", "PREPARE", "WAIT_READY_ACK", "COMMIT",
              "WAIT_COMMIT_ACK", "OPEN_ISSUE"}

\* From the drain to the opening of the gate nobody uses the memory that is
\* being reconfigured: the drain is checked once, two steps before PREPARE,
\* and Tasks and Contexts are admitted concurrently.
ReconfigurationIsolated ==
    /\ ctl.cmd.kind = "profile" /\ ctl.cmd.state = "running" /\ ctl.cmd.step \in Isolating
          => \A l \in ctl.cmd.levels : ~UsersAt(l)
    /\ ctl.phase \in {"prepare", "commit"} => \A l \in Levels : ~UsersAt(l)

\* A publication cannot fail half way, with components of the new generation
\* and members of the old one, which would also make every later recovery fail
\* since its generation would be taken: while the last acknowledgements are
\* awaited the components can be reconfigured, and every member that answered
\* holds the shadow of this very command.
PublicationCannotFail ==
    /\ ctl.cmd.kind = "profile" /\ ctl.cmd.state = "running" /\ ctl.cmd.step = "WAIT_COMMIT_ACK" =>
          /\ \A l \in ctl.cmd.levels : CanInstall(ctl, l)
          /\ \A m \in ctl.cmd.committed \cup {r.member : r \in {q \in ctl.responses : q.stage = "COMMIT"}} :
                ShadowConfirmed(ctl, m)
    /\ ctl.phase \in {"prepare", "commit"} => RecoveryPossible(ctl)

\* "Once a profile command closed issue, cancellation never opens the gate":
\* the level of a faulted command, or of one cancelled before publication,
\* stays closed until a recovery has rebuilt every member.
FaultKeepsGateClosed ==
    ctl.cmd.kind = "profile" /\ RequiresRecovery(ctl.cmd)
        /\ (ctl.cmd.state = "cancelled" => ctl.cmd.step # "RELEASE")
        => \A l \in ctl.cmd.levels : GateClosed(l)

\* Every command ends, isolated: no request, response or write-back of it is
\* left.  The drain of the reset FSM waits for this.  Since finitely many are
\* submitted, there comes a time from which none is pending.
CommandsEnd == <>[]~CancellationPending(ctl)

\* A gate tells the truth about its level: open means that all agree, and a
\* command that failed keeps it closed (issue_gate_closed).
GatesHonest == TypeOK /\ OpenLevelAgrees /\ FaultKeepsGateClosed
=============================================================================
