------------------------------ MODULE CpuDevice ------------------------------
(***************************************************************************)
(* CpuDeviceController: the CPU interprets the program in order, keeps a   *)
(* bounded list of launches that wait for their dependencies, hands ready  *)
(* ones to the Group port or to the host session, and harvests what they   *)
(* answer.  A cycle of the CPU is                                          *)
(*   resolve -> issue -> resolve2 -> admit   (step)                        *)
(*   harvest                                 (harvest_completions)         *)
(* and each loop iteration of the code is one step of the specification.   *)
(*                                                                         *)
(* An error completion puts the device into the fault state in the harvest *)
(* that sees it, and that drops every retained completion; so completions  *)
(* holds successful ones only, and the branches of await, control and      *)
(* dependency resolution that handle a retained error are never reached.   *)
(***************************************************************************)
EXTENDS GroupPort, HostSession

CONSTANTS MaxOutstanding, CompletionCapacity,
          NoFault   \* fault_reason is None

Reasons == {"protocol", "capacity", "launch", "control", "poison", "cap"}

ASSUME DeviceAssumption ==
    /\ {IssueWidth, PendingCapacity, CompletionCapacity, MaxOutstanding, PortCapacity}
          \subseteq Nat \ {0}
    /\ L2Units \in Nat
    /\ NoFault \notin Reasons

VARIABLES
    pc,           \* _pc; the program has returned when it is past the end
    startPc,      \* _pc when the step began
    pending,      \* _pending: records [id, needs]
    active,       \* _active: launches the port has accepted
    activeHost,   \* _active_host
    launch,       \* state of each launch record
    handles,      \* _event_handles
    remaining,    \* _remaining_references
    reserved,     \* _completion_reserved
    completions,  \* _completions
    control,      \* _active_control_id, 0 when None
    fenced,       \* _control_completion is set
    fault         \* fault_reason

cpuVars == <<pc, startPc, pending, active, activeHost, launch, handles, remaining,
             reserved, completions, control, fenced, fault>>

CpuInit ==
    /\ pc = 1 /\ startPc = 1
    /\ pending = <<>>
    /\ active = {} /\ activeHost = {}
    /\ launch = [i \in Positions |-> "none"]
    /\ handles = {}
    /\ remaining = [i \in Positions |-> 0]
    /\ reserved = {} /\ completions = {}
    /\ control = 0 /\ fenced = FALSE
    /\ fault = NoFault

Faulted == fault # NoFault
Returned == pc > Len(prog)
ControlDone == control = 0 /\ ~fenced
PendingIds == {pending[k].id : k \in DOMAIN pending}

\* done and succeeded
Succeeded ==
    /\ ~Faulted /\ Returned
    /\ pending = <<>> /\ active = {} /\ activeHost = {} /\ reserved = {}
    /\ ControlDone

-----------------------------------------------------------------------------
(* References.  uses[r] references to the event of r are consumed at once.  *)

\* mutant: the reservation outlives the last reference
ReleaseKeepsReservation(uses) ==
    LET spent == {r \in Positions : uses[r] > 0 /\ remaining[r] = uses[r]}
    IN  /\ remaining' = [r \in Positions |-> remaining[r] - uses[r]]
        /\ completions' = completions \ spent
        /\ handles' = handles \ spent
        /\ UNCHANGED reserved

\* _release_reference
Release(uses) ==
    LET spent == {r \in Positions : uses[r] > 0 /\ remaining[r] = uses[r]}
    IN  /\ remaining' = [r \in Positions |-> remaining[r] - uses[r]]
        /\ completions' = completions \ spent
        /\ reserved' = reserved \ spent
        /\ handles' = handles \ spent

Once(S) == [r \in Positions |-> IF r \in S THEN 1 ELSE 0]

\* _enter_fault, after the launch records became after: the first reason stays,
\* pending launches fail, and every reference is abandoned.
EnterFault(why, after) ==
    /\ fault' = IF Faulted THEN fault ELSE why
    /\ launch' = [r \in Positions |-> IF r \in PendingIds THEN "failed" ELSE after[r]]
    /\ pending' = <<>>
    /\ remaining' = [r \in Positions |-> 0]
    /\ reserved' = {} /\ completions' = {} /\ handles' = {}

-----------------------------------------------------------------------------
(* _resolve_pending_dependencies.                                           *)

Resolved(p) == [p EXCEPT !.needs = @ \ completions]

\* The pending launches that wait for r.
Waiting(r) == {p.id : p \in {q \in ToSet(pending) : r \in q.needs}}

Resolve ==
    /\ pending' = [k \in DOMAIN pending |-> Resolved(pending[k])]
    /\ Release([r \in Positions |->
          IF r \in completions
          THEN Cardinality(Waiting(r))
          ELSE 0])
    /\ launch' = [r \in Positions |->
          IF \E k \in DOMAIN pending' : pending'[k] = [id |-> r, needs |-> {}]
          THEN "wait_admission" ELSE launch[r]]
    /\ UNCHANGED <<prog, pc, active, activeHost, control, fenced, fault>>

BeginStep ==
    /\ phase = "resolve" /\ ~Faulted
    /\ Resolve
    /\ startPc' = pc
    /\ count' = 0
    /\ phase' = "issue"

BeginAdmit ==
    /\ phase = "resolve2"
    /\ Resolve
    /\ count' = 0
    /\ phase' = "admit"
    /\ UNCHANGED startPc

\* A faulted CPU only keeps the books.
IdleStep ==
    /\ phase = "resolve" /\ Faulted
    /\ phase' = "hostBegin"
    /\ UNCHANGED <<prog, count, cpuVars>>

-----------------------------------------------------------------------------
(* _advance_program.                                                        *)

Here(op) == phase = "issue" /\ count < IssueWidth /\ pc <= Len(prog) /\ prog[pc].op = op

\* submit and host_call
Submit(op) ==
    /\ Here(op)
    /\ Len(pending) < PendingCapacity
    /\ pending' = Append(pending, [id |-> pc, needs |-> prog[pc].deps])
    /\ launch' = [launch EXCEPT ![pc] = IF prog[pc].deps = {} THEN "wait_admission" ELSE "wait_deps"]
    /\ handles' = handles \cup {pc}
    /\ remaining' = [remaining EXCEPT ![pc] = References(pc)]
    /\ pc' = pc + 1
    /\ count' = count + 1
    /\ UNCHANGED <<prog, phase, startPc, active, activeHost, reserved, completions,
                   control, fenced, fault>>

Await ==
    /\ Here("await")
    /\ prog[pc].deps \subseteq completions
    /\ Release(Once(prog[pc].deps))
    /\ pc' = pc + 1
    /\ count' = count + 1
    /\ UNCHANGED <<prog, phase, startPc, pending, active, activeHost, launch, control,
                   fenced, fault>>

\* A control command is handed over; its dependencies are consumed and the
\* program stops at it until the command has completed.
CanControl == control = 0 /\ prog[pc].deps \subseteq completions

\* mutant: the dependencies of the command are not consumed
SubmitControlKeeps(op, answer) ==
    /\ Here(op)
    /\ CanControl
    /\ command' = answer
    /\ control' = pc
    /\ phase' = "resolve2"
    /\ UNCHANGED <<prog, count, pc, startPc, pending, active, activeHost, launch, fenced,
                   fault, handles, remaining, reserved, completions>>

SubmitControl(op, answer) ==
    /\ Here(op)
    /\ CanControl
    /\ command' = answer
    /\ control' = pc
    /\ Release(Once(prog[pc].deps))
    /\ phase' = "resolve2"
    /\ UNCHANGED <<prog, count, pc, startPc, pending, active, activeHost, launch, fenced,
                   fault>>

\* The controller is busy cancelling a command of a Context: the CPU tries again.
ControlBusy(op) ==
    /\ Here(op)
    /\ CanControl /\ Holders # {}
    /\ phase' = "resolve2"
    /\ UNCHANGED <<prog, count, cpuVars>>

PassControl(op) ==
    /\ Here(op)
    /\ control = pc /\ fenced
    /\ control' = 0 /\ fenced' = FALSE
    /\ pc' = pc + 1
    /\ count' = count + 1
    /\ UNCHANGED <<prog, phase, startPc, pending, active, activeHost, launch, handles,
                   remaining, reserved, completions, fault>>

Return ==
    /\ Here("return")
    /\ pc' = pc + 1
    /\ count' = count + 1
    /\ UNCHANGED <<prog, phase, startPc, pending, active, activeHost, launch, handles,
                   remaining, reserved, completions, control, fenced, fault>>

CanIssue ==
    /\ count < IssueWidth /\ ~Returned
    /\ CASE prog[pc].op \in Launching -> Len(pending) < PendingCapacity
         [] prog[pc].op = "await" -> prog[pc].deps \subseteq completions
         [] prog[pc].op \in Controls -> CanControl \/ (control = pc /\ fenced)
         [] OTHER -> TRUE

EndIssue ==
    /\ phase = "issue" /\ ~CanIssue
    /\ phase' = "resolve2"
    /\ UNCHANGED <<prog, count, cpuVars>>

-----------------------------------------------------------------------------
(* _admit_ready_launches.  The first ready launch of the list is tried; one *)
(* that cannot go ends the loop.                                            *)

ReadyIndex == SelectInSeq(pending, LAMBDA p : p.needs = {})
Ready == pending[ReadyIndex].id

\* The limit on outstanding launches ends the loop before it starts, and later
\* only for a launch of the Group.
CreditLeft == Cardinality(active) < MaxOutstanding
Open ==
    /\ phase = "admit"
    /\ ReadyIndex # 0
    /\ count < IssueWidth
    /\ IF count = 0 \/ prog[Ready].op = "submit" THEN CreditLeft ELSE TRUE
MustReserve == remaining[Ready] > 0
Room == Cardinality(reserved) < CompletionCapacity
CanTry == Open /\ (MustReserve => Room)

\* A launch is accepted, its completion reserved if anyone refers to it.
Take ==
    /\ CanTry
    /\ pending' = RemoveAt(pending, ReadyIndex)
    /\ launch' = [launch EXCEPT ![Ready] = "active"]
    /\ reserved' = reserved \cup (IF MustReserve THEN {Ready} ELSE {})
    /\ count' = count + 1
    /\ UNCHANGED <<prog, phase, pc, startPc, handles, remaining, completions, control,
                   fenced, fault>>

AdmitGroup ==
    /\ Take
    /\ prog[Ready].op = "submit"
    /\ QueueSubmit(Ready) \/ RejectSubmit(Ready)
    /\ active' = active \cup {Ready}
    /\ UNCHANGED activeHost

AdmitHost ==
    /\ Take
    /\ prog[Ready].op = "host_call"
    /\ HostSubmit(Ready)
    /\ activeHost' = activeHost \cup {Ready}
    /\ UNCHANGED active

\* The host session raises: no handler of that name.
RejectHost ==
    /\ CanTry
    /\ prog[Ready].op = "host_call" /\ ~prog[Ready].known
    /\ EnterFault("protocol", launch)
    /\ phase' = "hostBegin"
    /\ UNCHANGED <<prog, count, pc, startPc, active, activeHost, control, fenced>>

Refuses ==
    \/ prog[Ready].op = "submit" /\ PortFull(Ready)
    \/ prog[Ready].op = "host_call" /\ prog[Ready].known /\ HostFull

\* completion_backpressure_cycles was counted in this step.
Starved == Open /\ MustReserve /\ ~Room

\* The check at the end of step: the CPU gives up when completion slots are the
\* obstacle, the port holds no launch, and the program did not move.
Stuck == Starved /\ active = {} /\ pc = startPc

EndAdmit ==
    /\ phase = "admit"
    /\ CanTry => Refuses
    /\ IF Stuck
       THEN EnterFault("capacity", launch)
       ELSE UNCHANGED <<fault, launch, pending, remaining, reserved, completions, handles>>
    /\ phase' = "hostBegin"
    /\ UNCHANGED <<prog, count, pc, startPc, active, activeHost, control, fenced>>

-----------------------------------------------------------------------------
(* harvest_completions.                                                     *)

\* _normalize_completion: what is not a success of this or an earlier cycle fails.
Good == {a.id : a \in {x \in answers \cup hostAnswers : x.ok}}
Bad == {a.id : a \in {x \in answers \cup hostAnswers : ~x.ok}}
AfterHarvest ==
    [r \in Positions |->
        IF r \in Good THEN "complete" ELSE IF r \in Bad THEN "failed" ELSE launch[r]]
ControlBad == command \in {"failed", "refused"}

\* What both cases share: the answers are taken and the records closed.
TakeAnswers ==
    /\ phase = "harvest"
    /\ active' = active \ (Good \cup Bad)
    /\ activeHost' = activeHost \ (Good \cup Bad)
    /\ answers' = {} /\ hostAnswers' = {}
    /\ command' = PolledCommand
    /\ portFault' = PolledPortFault
    /\ phase' = "settle"
    /\ UNCHANGED <<prog, count, pc, startPc, queue, slots, retry, context, held, mode, reset,
                   doing, left, rotation>>

\* Every answer is a success (_record_completion).
HarvestClean ==
    /\ ~Faulted /\ Bad = {} /\ ~ControlBad
    /\ TakeAnswers
    /\ launch' = AfterHarvest
    /\ completions' = completions \cup {r \in Good : remaining[r] > 0}
    /\ handles' = handles \ {r \in Good : remaining[r] = 0}
    /\ fenced' = (fenced \/ command = "completed")
    /\ UNCHANGED <<pending, remaining, reserved, control, fault>>

\* Some answer is an error, or the device is in the fault state already.  A
\* command that ended is forgotten, and a failed launch drops a kept one.
HarvestFault ==
    /\ Faulted \/ Bad # {} \/ ControlBad
    /\ TakeAnswers
    /\ EnterFault(IF Bad # {} THEN "launch" ELSE "control", AfterHarvest)
    /\ LET drop == CommandEnded \/ (Bad # {} /\ fenced)
       IN  /\ control' = IF drop THEN 0 ELSE control
           /\ fenced' = (fenced /\ ~drop)
=============================================================================
