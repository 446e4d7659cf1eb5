----------------------------- MODULE CoSimulator -----------------------------
(***************************************************************************)
(* Simulator._run_model: the CPU, the host session and one Tile Group in   *)
(* lock step.  A cycle is                                                  *)
(*   CPU step -> host step -> Group step -> host harvest -> CPU harvest    *)
(* and then the simulator settles the cycle: it starts or ends a fault     *)
(* drain, ends the run, or goes on.  The Group step is modelled by what    *)
(* the others see of it: host transfers, the control command, Contexts     *)
(* that finish or fault, and the reset FSM.  Time is not counted; how long *)
(* anything takes, and when the cycle cap strikes, is left open.           *)
(***************************************************************************)
EXTENDS CpuDevice

VARIABLES outcome,   \* how the run ended, "running" before
          capped,    \* the drain after the cycle cap is under way
          aborted    \* host_aborted

simVars == <<outcome, capped, aborted>>
vars == <<prog, phase, count, cpuVars, portVars, hostVars, simVars>>

Init ==
    /\ prog \in Programs
    /\ phase = "resolve" /\ count = 0
    /\ CpuInit /\ PortInit /\ HostInit
    /\ outcome = "running" /\ capped = FALSE /\ aborted = FALSE

\* The loop is left with a result, or goes on with the next cycle.
EndRun(how) == outcome' = how /\ phase' = "end"
GoOn == phase' = "cycle" /\ UNCHANGED outcome

-----------------------------------------------------------------------------
(* The CPU step and the host step.                                          *)

CpuStep ==
    \/ /\ \/ BeginStep \/ IdleStep
          \/ \E op \in Launching : Submit(op)
          \/ \E op \in Controls : ControlBusy(op) \/ PassControl(op)
          \/ Await \/ Return \/ EndIssue
          \/ BeginAdmit \/ RejectHost \/ EndAdmit
       /\ UNCHANGED <<portVars, hostVars, simVars>>
    \/ /\ \E op \in Controls, answer \in ControlAnswers : SubmitControl(op, answer)
       /\ UNCHANGED <<queue, slots, answers, portFault, retry, context, held, mode, reset,
                      hostVars, simVars>>
    \/ AdmitGroup /\ UNCHANGED <<hostVars, simVars>>
    \/ AdmitHost /\ UNCHANGED <<portVars, simVars>>

\* The main loop steps the session unless the CPU has faulted; the drain after
\* the cycle cap always does.
SessionSteps == capped \/ ~Faulted

BeginHost ==
    /\ phase = "hostBegin"
    /\ phase' = IF SessionSteps THEN "host" ELSE "transfers"
    /\ count' = 0
    /\ UNCHANGED <<prog, cpuVars, portVars, hostVars, simVars>>

HostStep ==
    /\ FetchCommand \/ FetchNothing \/ EndHostStep
    /\ UNCHANGED <<cpuVars, portVars, simVars>>

-----------------------------------------------------------------------------
(* The Group step.                                                          *)

Transfers(S) ==
    /\ phase = "transfers"
    /\ Elapse(S)
    /\ phase' = "profile"
    /\ UNCHANGED <<prog, count, left, rotation, hostAnswers, cpuVars, portVars, simVars>>

\* profile_controller.step, by what the port sees of it (ProfileController has
\* the rest).  A maintenance command runs and ends.  A reconfiguration closes the
\* L2 gate, waits until no root is queued or holds L2, publishes the new mode and
\* opens the gate; one that fails leaves the gate closed.
Reconfigures == prog[control].op = "reconfig"
Quiet == queue = <<>> /\ Holders = {}

CommandGoes(next) ==
    \/ next = command
    \/ next = "failed" /\ Underway
    \/ next = "completed" /\ command = "running" /\ ~Reconfigures
    \/ next = "draining" /\ command = "running" /\ Reconfigures
    \/ next = "switching" /\ command = "draining" /\ Quiet
    \/ next = "completed" /\ command = "switching"

\* mutant: a change of the gate or of the mode does not change the token
ProfileStepSilently(next) ==
    /\ phase = "profile"
    /\ CommandGoes(next)
    /\ command' = next
    /\ held' = IF next = command \/ ~Reconfigures THEN held ELSE next # "completed"
    /\ mode' = IF next # command /\ command = "switching" /\ next = "completed"
               THEN prog[control].mode ELSE mode
    /\ phase' = "contexts"
    /\ UNCHANGED <<prog, count, queue, slots, answers, portFault, retry, context, reset,
                   cpuVars, hostVars, simVars>>

ProfileStep(next) ==
    /\ phase = "profile"
    /\ CommandGoes(next)
    /\ command' = next
    /\ held' = IF next = command \/ ~Reconfigures THEN held ELSE next # "completed"
    /\ mode' = IF next # command /\ command = "switching" /\ next = "completed"
               THEN prog[control].mode ELSE mode
    /\ retry' = (retry \/ held' # held \/ mode' # mode)
    /\ phase' = "contexts"
    /\ UNCHANGED <<prog, count, queue, slots, answers, portFault, context, reset,
                   cpuVars, hostVars, simVars>>

\* Contexts in F retire their arenas and finish, those in X fault and start the
\* reset; neither happens while the reset holds the scheduler.  Contexts aborted
\* by the reset are declared done.
Contexts(F, X) ==
    /\ phase = "contexts"
    /\ reset # "IDLE" => F = {} /\ X = {}
    /\ context' = [r \in Positions |->
          CASE r \in F -> "finished"
            [] r \in X -> "faulted"
            [] context[r] = "aborted" -> "failed"
            [] OTHER -> context[r]]
    /\ reset' = IF X # {} THEN "FAULT_DETECTED" ELSE reset
    /\ retry' = (retry \/ context' # context)
    /\ phase' = "reset"
    /\ UNCHANGED <<prog, count, queue, slots, answers, portFault, command, held, mode,
                   cpuVars, hostVars, simVars>>

-----------------------------------------------------------------------------
(* ResetDomain.step, one state per cycle.                                   *)

NextReset(s) ==
    CASE s = "FAULT_DETECTED" -> "STOP_QUEUE"
      [] s = "STOP_QUEUE" -> "FREEZE_DISPATCH"
      [] s = "FREEZE_DISPATCH" -> "DRAIN_SAFE"
      [] s = "DRAIN_SAFE" -> "MARK_EVENTS"
      [] s = "MARK_EVENTS" -> "RESET_DOMAIN"
      [] s = "RESET_DOMAIN" -> "CLEAR_CREDIT_CACHE"
      [] s = "CLEAR_CREDIT_CACHE" -> "RESUME"
      [] OTHER -> "DONE"

\* request_cancel_all of the ProfileController
CancelCommand == IF Underway THEN "cancelling" ELSE command

\* A state that has nothing to wait for.
ResetPass ==
    /\ reset \in {"FAULT_DETECTED", "STOP_QUEUE", "MARK_EVENTS", "CLEAR_CREDIT_CACHE", "RESUME"}
    /\ reset' = NextReset(reset)
    /\ UNCHANGED <<context, command, retry>>

ResetFreeze ==
    /\ reset = "FREEZE_DISPATCH"
    /\ reset' = NextReset(reset)
    /\ command' = CancelCommand
    /\ UNCHANGED <<context, retry>>

\* DRAIN_SAFE waits for the transfers and for a cancellation (_outstanding_zero).
ResetDrain ==
    /\ reset = "DRAIN_SAFE"
    /\ reset' = IF InFlight = {} /\ command # "cancelling" THEN NextReset(reset) ELSE reset
    /\ UNCHANGED <<context, command, retry>>

\* RESET_DOMAIN: release_context_memory acknowledges every transfer that has
\* ended and aborts every Context that is left, once no command is waiting to be
\* cancelled.
ResetRelease ==
    /\ reset = "RESET_DOMAIN" /\ InFlight = {}
    /\ command' = CancelCommand
    /\ IF command' = "cancelling"
       THEN UNCHANGED <<context, retry, reset, doing>>
       ELSE /\ context' = [r \in Positions |-> IF r \in Holders THEN "aborted" ELSE context[r]]
            /\ doing' = [r \in Positions |-> IF r \in Holding THEN "acked" ELSE doing[r]]
            /\ retry' = TRUE
            /\ reset' = NextReset(reset)

ResetStep ==
    /\ phase = "reset"
    /\ \/ ~ResetActive /\ UNCHANGED <<reset, context, command, retry, doing>>
       \/ (ResetPass \/ ResetFreeze \/ ResetDrain) /\ UNCHANGED doing
       \/ ResetRelease
    /\ phase' = "hostHarvest"
    /\ UNCHANGED <<prog, count, queue, slots, answers, portFault, held, mode, cpuVars,
                   left, rotation, hostAnswers, simVars>>

\* The reset finds a transfer in flight and raises.  The simulator poisons the
\* Group; in the main loop it also faults the CPU and aborts the session.
Poison ==
    /\ phase = "reset"
    /\ reset = "RESET_DOMAIN" /\ InFlight # {}
    /\ EndRun("poisoned")
    /\ EnterFault("poison", launch)
    /\ IF capped \/ aborted THEN UNCHANGED hostVars ELSE Abort
    /\ aborted' = (aborted \/ ~capped)
    /\ UNCHANGED <<prog, count, pc, startPc, active, activeHost, control, fenced,
                   portVars, capped>>

-----------------------------------------------------------------------------
(* The harvests.                                                            *)

HostHarvest == HarvestHost /\ UNCHANGED <<cpuVars, portVars, simVars>>

\* harvest acknowledges a transfer that the reset has acknowledged already.  The
\* exception leaves run(); the drain after the cycle cap catches it.
HarvestRaises ==
    /\ phase = "hostHarvest" /\ Acknowledged # {}
    /\ EndRun(IF capped THEN "poisoned" ELSE "raised")
    /\ UNCHANGED <<prog, count, cpuVars, portVars, hostVars, capped, aborted>>

PortPoll ==
    /\ \/ RetireSlots \/ EndPlacing \/ CancelPending
       \/ \E c \in Categories : Place(c) \/ FailHead(c)
    /\ UNCHANGED <<cpuVars, hostVars, simVars>>

CpuHarvest == (HarvestClean \/ HarvestFault) /\ UNCHANGED simVars

-----------------------------------------------------------------------------
(* The end of a cycle.                                                      *)

\* _ensure_fault_drain
BeginDrain(s) == IF s = "IDLE" THEN "FAULT_DETECTED" ELSE s

\* The CPU has faulted: abort the session, start the drain, and end the run
\* when the drain is over.
SettleFault ==
    /\ phase = "settle" /\ ~capped /\ Faulted
    /\ IF aborted THEN UNCHANGED hostVars ELSE Abort
    /\ aborted' = TRUE
    /\ reset' = BeginDrain(reset)
    /\ IF reset = "DONE" THEN EndRun("faulted") ELSE GoOn
    /\ UNCHANGED <<prog, count, cpuVars, queue, slots, answers, portFault, retry, context,
                   command, held, mode, capped>>

\* mutant: the run ends although a host routine is still live
SettleSuccessEarly ==
    /\ phase = "settle" /\ ~capped
    /\ ~Faulted /\ Returned /\ pending = <<>> /\ active = {} /\ ControlDone
    /\ EndRun("complete")
    /\ UNCHANGED <<prog, count, cpuVars, portVars, hostVars, capped, aborted>>

SettleSuccess ==
    /\ phase = "settle" /\ ~capped
    /\ Succeeded
    /\ EndRun("complete")
    /\ UNCHANGED <<prog, count, cpuVars, portVars, hostVars, capped, aborted>>

\* The drain after the cycle cap ends with the reset.
SettleCapped ==
    /\ phase = "settle" /\ capped
    /\ IF ResetActive THEN GoOn ELSE EndRun("capped")
    /\ UNCHANGED <<prog, count, cpuVars, portVars, hostVars, capped, aborted>>

SettleOn ==
    /\ phase = "settle" /\ ~capped /\ ~Faulted /\ ~Succeeded
    /\ GoOn
    /\ UNCHANGED <<prog, count, cpuVars, portVars, hostVars, capped, aborted>>

NextCycle ==
    /\ phase = "cycle"
    /\ phase' = "resolve"
    /\ UNCHANGED <<prog, count, cpuVars, portVars, hostVars, simVars>>

\* max_cycles is reached: the CPU is faulted and a bounded drain begins.
CycleCap ==
    /\ phase = "cycle" /\ ~capped
    /\ capped' = TRUE
    /\ EnterFault("cap", launch)
    /\ reset' = BeginDrain(reset)
    /\ phase' = "resolve"
    /\ UNCHANGED <<prog, count, pc, startPc, active, activeHost, control, fenced,
                   queue, slots, answers, portFault, retry, context, command,
                   held, mode, hostVars, outcome, aborted>>

\* The deadline of that drain passes before the reset is done.
Deadline ==
    /\ phase = "cycle" /\ capped
    /\ EndRun("poisoned")
    /\ UNCHANGED <<prog, count, cpuVars, portVars, hostVars, capped, aborted>>

-----------------------------------------------------------------------------
GroupStep ==
    \/ \E S \in SUBSET CanElapse : Transfers(S)
    \/ \E next \in CommandStates : ProfileStep(next)
    \/ \E F \in SUBSET Running : \E X \in SUBSET (Running \ F) : Contexts(F, X)
    \/ ResetStep \/ Poison

Settle == SettleFault \/ SettleSuccess \/ SettleCapped \/ SettleOn

Next ==
    \/ CpuStep \/ BeginHost \/ HostStep \/ GroupStep
    \/ HostHarvest \/ HarvestRaises \/ PortPoll \/ CpuHarvest
    \/ Settle \/ NextCycle \/ CycleCap \/ Deadline

Spec == Init /\ [][Next]_vars

\* The simulator always takes its next step; a host transfer, a command and a
\* Context that are under way end after some number of cycles.
Ends(r) == \E S \in SUBSET CanElapse : r \in S /\ Transfers(S)
Leave(r) == \E F \in SUBSET Running : \E X \in SUBSET (Running \ F) : r \in F \cup X /\ Contexts(F, X)
CommandMoves == \E next \in CommandStates \ {command} : ProfileStep(next)

AllLaunches == UNION {{i \in DOMAIN p : p[i].op \in Launching} : p \in Programs}

Fairness ==
    /\ WF_vars(Next)
    /\ \A r \in AllLaunches : SF_vars(Ends(r)) /\ SF_vars(Leave(r))
    /\ SF_vars(CommandMoves)

FairSpec == Spec /\ Fairness

-----------------------------------------------------------------------------
(* Properties.                                                              *)

\* Every variable holds a value the code could hold in the field it models.
TypeOK ==
    /\ prog \in Programs
    /\ count \in 0..IssueWidth
    /\ pc \in 1..(Len(prog) + 1) /\ startPc \in 1..pc
    /\ \A k \in DOMAIN pending : pending[k].id \in Launches /\ pending[k].needs \subseteq Launches
    /\ Len(pending) <= PendingCapacity
    /\ launch \in [Positions -> {"none", "wait_deps", "wait_admission", "active", "complete", "failed"}]
    /\ handles \cup reserved \cup completions \cup active \cup activeHost \subseteq Launches
    /\ remaining \in [Positions -> Nat]
    /\ control \in {0} \cup Positions /\ fenced \in BOOLEAN
    /\ Len(queue) <= PortCapacity /\ ToSet(queue) \subseteq Launches
    /\ slots \in [Slots -> Launches \cup {NoSlot}]
    /\ context \in [Positions -> {"none", "running", "finished", "faulted", "aborted", "failed"}]
    /\ command \in CommandStates /\ (Underway => control # 0)
    /\ held \in BOOLEAN
    /\ outcome \in {"running", "complete", "faulted", "capped", "poisoned", "raised"}
    /\ {portFault, retry, capped, aborted} \subseteq BOOLEAN

Occupants == {slots[s] : s \in Slots} \ {NoSlot}
Ids(A) == {a.id : a \in A}

\* No two answers for one launch.
OnePerId(A) == \A a, b \in A : a.id = b.id => a = b

\* A launch the CPU counts as active is at exactly one place of the port: queued
\* once, in one slot, or answered once and not polled.
PortAgreement ==
    /\ active = ToSet(queue) \cup Occupants \cup Ids(answers)
    /\ ToSet(queue) \cap Occupants = {}
    /\ Ids(answers) \cap (ToSet(queue) \cup Occupants) = {}
    /\ \A j, k \in DOMAIN queue : queue[j] = queue[k] => j = k
    /\ \A s, t \in Slots : slots[s] = slots[t] => s = t \/ slots[s] = NoSlot
    /\ OnePerId(answers)

\* The same for the host session: a routine is live, or answered once.
HostAgreement ==
    /\ activeHost = Routines \cup Ids(hostAnswers)
    /\ Routines \cap Ids(hostAnswers) = {}
    /\ OnePerId(hostAnswers)

\* So no completion is lost, delivered twice, or "for unknown or retired
\* request" (harvest_completions), on error and cancellation paths too.
LaunchAgreement == PortAgreement /\ HostAgreement /\ active \cap activeHost = {}

\* The references that are still to be consumed: one for each pending launch that
\* waits for r, one for each operation ahead that names r; an accepted control
\* command has consumed its own although the program still stands at it.
Ahead(r) == {i \in Positions : i >= pc /\ r \in prog[i].deps /\ control # i}
Consumers(r) == Cardinality(Waiting(r)) + Cardinality(Ahead(r))

\* _remaining_references never counts a consumer twice or drops one, so
\* _release_reference cannot underflow and an event stays bound (handles) as
\* long as some operation ahead looks it up.
ReferenceAccounting ==
    ~Faulted =>
        /\ \A r \in Launches : r < pc => remaining[r] = Consumers(r)
        /\ \A r \in Launches : r < pc /\ remaining[r] > 0 => r \in handles

\* A completion slot is held by exactly the launches that were handed over and
\* still have consumers, never by more than completion_capacity of them; so the
\* error "completion metadata was not reserved" cannot be raised and a slot is
\* never leaked.
ReservationsExact ==
    /\ Cardinality(reserved) <= CompletionCapacity
    /\ reserved = {r \in active \cup activeHost \cup completions : remaining[r] > 0}
    /\ completions \subseteq reserved

\* The port skips an attempt only when it is pointless: with the admission token
\* current, neither category head could be placed or failed.  Otherwise a launch
\* would wait for an unrelated change.
PortWakes ==
    ~retry /\ ~GroupFault => \A c \in Categories : ~Admissible(c) /\ ~Doomed(c)

\* Every live routine has its turn in the session's rotation, once: one that is
\* left out would never issue its next command.
RoutinesInTurn ==
    ToSet(rotation) = Routines /\ Len(rotation) = Cardinality(Routines)

\* Nobody waits for a turn or an attempt that never comes.
NoMissedWakeup == PortWakes /\ RoutinesInTurn

\* A run reported "model complete" has nothing left anywhere: every launch of the
\* program completed, and port, session, event handles and references are empty;
\* so the closure checks of _run_model have nothing to find.
SuccessIsComplete ==
    outcome = "complete" =>
        /\ \A r \in Launches : launch[r] = "complete"
        /\ queue = <<>> /\ Occupants = {} /\ Holders = {} /\ Routines = {}
        /\ handles = {} /\ completions = {}
        /\ \A r \in Positions : remaining[r] = 0
        /\ command = "idle"

\* A run reported "faulted" has drained the Group: no launch is pending, queued
\* or in a slot, and no Context holds L2.
FaultedIsDrained ==
    outcome = "faulted" =>
        /\ pending = <<>> /\ active = {}
        /\ queue = <<>> /\ Occupants = {} /\ Holders = {}
        /\ handles = {} /\ reserved = {}

\* When the reset releases memory it acknowledges every transfer that has ended
\* (acknowledge_all_terminals).  None of them is a host transfer that completed
\* and whose data the session has yet to take: only a transfer that abort() asked
\* to stop can be acknowledged under the session.
TransfersHarvestedFirst ==
    phase = "reset" /\ reset = "RESET_DOMAIN" => \A r \in Positions : doing[r] # "done"

\* Every run of a program ends: each fault path reaches the end of the drain and
\* each fault-free run its return, whatever the queues' capacities.
Terminates == <>(outcome # "running")

\* None of the errors the controllers raise against themselves can occur: every
\* launch is at one place, every reference and every completion slot is counted
\* once, and no transfer that completed is acknowledged twice.
NoInternalError ==
    TypeOK /\ LaunchAgreement /\ ReferenceAccounting /\ ReservationsExact /\ TransfersHarvestedFirst

\* A second acknowledgement raises out of run() only from a run that has failed
\* already: the session was aborted after a fault of the CPU.
RaisedAfterFault == outcome = "raised" => aborted /\ Faulted

\* What run() reports is what happened (_run_model, _drain_fault).
OutcomeIsTrue == SuccessIsComplete /\ FaultedIsDrained /\ RaisedAfterFault
=============================================================================
