------------------------------ MODULE GroupPort ------------------------------
(***************************************************************************)
(* GroupPortAdapter: the bounded queue of accepted launches, the slots of  *)
(* the Group's context table, and the completions waiting to be polled.    *)
(* The Group behind it is modelled by what the port sees: the state of     *)
(* each launch's sequencer, the L2 units free for a root, one control      *)
(* command with the L2 mode and the issue gate it moves, and the state of  *)
(* the reset FSM.                                                          *)
(***************************************************************************)
EXTENDS DeviceProgram, SequencesExt

CONSTANTS Slots, PortCapacity, L2Units,
          StartMode   \* the L2 mode of the loaded program

\* A position of the program is never taken for an empty slot.
ASSUME SlotsAssumption == Slots \subseteq Nat /\ NoSlot \notin Slots \cup (Nat \ {0})

VARIABLES
    queue,      \* _pending in order of arrival; a category queue is a part of it
    slots,      \* _slots
    answers,    \* completions collected by this poll: records [id, ok]
    portFault,  \* _fault_reason is set
    retry,      \* _pending_changed, or the admission token is out of date
    context,    \* per launch, the state of its sequencer
    command,    \* the CPU's control command, as ProfileController reports it
    held,       \* the L2 issue gate is closed
    mode,       \* active_modes["l2"]
    reset       \* the state of the Group's reset FSM

portVars == <<queue, slots, answers, portFault, retry, context, command, held, mode, reset>>

Running == {r \in Positions : context[r] = "running"}
SeqFaulted(r) == context[r] \in {"faulted", "aborted", "failed"}
SeqDone(r) == context[r] \in {"finished", "failed"}

ResetActive == reset \notin {"IDLE", "DONE"}

\* _group_fault: after a failure the port refuses work until the run ends.
GroupFault == portFault \/ reset # "IDLE"

Answer(r, good) == [id |-> r, ok |-> good]
Failed(S) == {Answer(r, FALSE) : r \in S}

PortInit ==
    /\ queue = <<>>
    /\ slots = [s \in Slots |-> NoSlot]
    /\ answers = {}
    /\ portFault = FALSE
    /\ retry = FALSE
    /\ context = [i \in Positions |-> "none"]
    /\ command = "idle"
    /\ held = FALSE
    /\ mode = StartMode
    /\ reset = "IDLE"

-----------------------------------------------------------------------------
(* try_submit.  A request the port cannot serve is accepted and answered    *)
(* with an error; only a full queue is back pressure.                       *)

\* _profile_category raises.
WrongMode(r) == prog[r].mode # mode

Refused(r) ==
    prog[r].slot \notin Slots \cup {NoSlot} \/ GroupFault \/ WrongMode(r)

\* _reject_submit
RejectSubmit(r) ==
    /\ Refused(r)
    /\ answers' = answers \cup {Answer(r, FALSE)}
    /\ portFault' = TRUE
    /\ UNCHANGED <<queue, slots, retry, context, command, held, mode, reset>>

\* The rest of try_submit.
QueueSubmit(r) ==
    /\ ~Refused(r)
    /\ Len(queue) < PortCapacity
    /\ queue' = Append(queue, r)
    /\ retry' = TRUE
    /\ UNCHANGED <<slots, answers, portFault, context, command, held, mode, reset>>

PortFull(r) == ~Refused(r) /\ Len(queue) >= PortCapacity

-----------------------------------------------------------------------------
(* poll_completions.                                                        *)

\* What _retire_slots skips: while the reset drains only a faulted Context may
\* leave, and a Context leaves when it is done or the reset is over.
Leaves(r) == (ResetActive => SeqFaulted(r)) /\ (SeqDone(r) \/ reset = "DONE")

\* _retire_slots
RetireSlots ==
    LET gone == {s \in Slots : slots[s] # NoSlot /\ Leaves(slots[s])}
        out == {Answer(slots[s], ~SeqFaulted(slots[s]) /\ reset = "IDLE") : s \in gone}
    IN  /\ phase = "retire"
        /\ slots' = [s \in Slots |-> IF s \in gone THEN NoSlot ELSE slots[s]]
        /\ answers' = answers \cup out
        /\ portFault' = (portFault \/ \E a \in out : ~a.ok)
        /\ retry' = (retry \/ gone # {})
        /\ phase' = "place"
        /\ UNCHANGED <<prog, count, queue, context, command, held, mode, reset>>

\* _queue_head; no launch has position 0.
HeadIndex(c) == SelectInSeq(queue, LAMBDA r : prog[r].cat = c)
HeadOf(c) == IF HeadIndex(c) = 0 THEN 0 ELSE queue[HeadIndex(c)]

\* _vacant_slot
Vacant(r) ==
    {s \in Slots : slots[s] = NoSlot /\ prog[r].slot \in {NoSlot, s}}
LowestSlot(S) == CHOOSE s \in S : \A t \in S : s <= t

\* The L2 a live arena holds; plan_arena compares a request with the rest.
Holders == {r \in Positions : context[r] \in {"running", "faulted"}}
UnitsOf(p, S) == MapThenSumSet(LAMBDA r : p[r].need, S)
UsedUnits == UnitsOf(prog, Holders)
Fits(r) == prog[r].need + UsedUnits <= L2Units
NeverFits(r) == prog[r].need > L2Units

\* _attempt_category with try_admit_context_task: a head compiled for another
\* mode fails before a slot is looked for; a closed gate is a wait.
Admissible(c) ==
    LET r == HeadOf(c)
    IN  r # 0 /\ ~WrongMode(r) /\ Vacant(r) # {} /\ ~held /\ Fits(r)
Doomed(c) ==
    LET r == HeadOf(c)
    IN  r # 0 /\ (WrongMode(r) \/ (Vacant(r) # {} /\ ~held /\ NeverFits(r)))

\* The loop of _admit_pending tries "same" first; "compatible" has its turn when
\* the "same" head is missing or blocked.
Turn(c) == c = "same" \/ ~(Admissible("same") \/ Doomed("same"))

Attempting == phase = "place" /\ ~GroupFault /\ retry

\* _attempt_category: the head is admitted.
Place(c) ==
    LET r == HeadOf(c)
    IN  /\ Attempting /\ Turn(c)
        /\ Admissible(c)
        /\ queue' = RemoveAt(queue, HeadIndex(c))
        /\ slots' = [slots EXCEPT ![LowestSlot(Vacant(r))] = r]
        /\ context' = [context EXCEPT ![r] = "running"]
        /\ UNCHANGED <<prog, phase, count, answers, portFault, retry, command, held, mode, reset>>

\* The head can never be admitted and fails (_fail_pending).
FailHead(c) ==
    /\ Attempting /\ Turn(c)
    /\ Doomed(c)
    /\ queue' = RemoveAt(queue, HeadIndex(c))
    /\ answers' = answers \cup {Answer(HeadOf(c), FALSE)}
    /\ portFault' = TRUE
    /\ UNCHANGED <<prog, phase, count, slots, retry, context, command, held, mode, reset>>

\* _admit_pending ends: both heads are blocked, or nothing has changed since the
\* last attempt.  The token is now current.
EndPlacing ==
    /\ phase = "place" /\ ~GroupFault
    /\ retry => \A c \in Categories : ~Admissible(c) /\ ~Doomed(c)
    /\ retry' = FALSE
    /\ phase' = "harvest"
    /\ UNCHANGED <<prog, count, queue, slots, answers, portFault, context, command, held, mode, reset>>

\* _cancel_pending
CancelPending ==
    /\ phase = "place" /\ GroupFault
    /\ queue' = <<>>
    /\ answers' = answers \cup Failed(ToSet(queue))
    /\ portFault' = (portFault \/ queue # <<>>)
    /\ retry' = FALSE
    /\ phase' = "harvest"
    /\ UNCHANGED <<prog, count, slots, context, command, held, mode, reset>>

-----------------------------------------------------------------------------
(* poll_control_completions: a command that failed after it was accepted    *)
(* fails the port; one refused at once (try_submit_control) only the CPU.   *)

\* try_submit_control: the command is under way, or refused and so answered.
ControlAnswers == {"running", "refused"}

CommandStates ==
    {"idle", "running", "draining", "switching", "cancelling", "completed", "failed", "refused"}
Underway == command \in {"running", "draining", "switching", "cancelling"}
CommandEnded == command \in {"completed", "failed", "refused"}
PolledCommand == IF CommandEnded THEN "idle" ELSE command
PolledPortFault == portFault \/ command = "failed"
=============================================================================
