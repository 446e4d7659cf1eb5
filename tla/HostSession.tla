----------------------------- MODULE HostSession -----------------------------
(***************************************************************************)
(* HostSession: the routines of nexus.host.call.async.  A routine runs its *)
(* commands one at a time: "xfer" is a host read or write billed to the    *)
(* TransferManager, "bad" one whose transfer faults, "pool" a page-pool    *)
(* command, "delay" a HostDelay and "illegal" a command that is refused    *)
(* when it is issued.                                                      *)
(*                                                                         *)
(* doing[r] is what routine r waits for:                                   *)
(*   patch     the software patch cost (ready_cycle) has not elapsed       *)
(*   free      its next command may be issued                              *)
(*   pool, delay, elapsed   a command without a transfer                   *)
(*   queued, moving, xfer   a transfer, by age: a host route has three     *)
(*             legs of at least a cycle each, so it takes more than two    *)
(*   bad       a transfer that is going to fault                           *)
(*   cancel    a transfer asked to stop                                    *)
(*   done, cancelled, faulty   a transfer that ended and was not yet seen  *)
(*   acked     a transfer that ended and that the reset acknowledged       *)
(***************************************************************************)
EXTENDS DeviceProgram, SequencesExt

CONSTANTS IssueWidth, PendingCapacity

VARIABLES
    doing,        \* per launch, the state of its routine
    left,         \* per launch, the commands not issued yet
    rotation,     \* _rotation
    hostAnswers   \* _ready_completions: records [id, ok]

hostVars == <<doing, left, rotation, hostAnswers>>

HostInit ==
    /\ doing = [i \in Positions |-> "none"]
    /\ left = [i \in Positions |-> <<>>]
    /\ rotation = <<>>
    /\ hostAnswers = {}

Routines == {r \in Positions : doing[r] # "none"}

\* Transfers of the host that the TransferManager counts as in flight.
\* (inflight_count; it counts a faulted transfer until it is acknowledged).
InFlight ==
    {r \in Positions : doing[r] \in {"queued", "moving", "xfer", "bad", "cancel", "faulty"}}
Holding == InFlight \cup {r \in Positions : doing[r] \in {"done", "cancelled"}}

HostAnswer(r, good) == [id |-> r, ok |-> good]

\* try_submit, when there is room and the handler is known.
HostFull == Cardinality(Routines) >= PendingCapacity
HostSubmit(r) ==
    /\ prog[r].known
    /\ ~HostFull
    /\ doing' = [doing EXCEPT ![r] = "patch"]
    /\ left' = [left EXCEPT ![r] = prog[r].cmds]
    /\ rotation' = Append(rotation, r)
    /\ UNCHANGED hostAnswers

-----------------------------------------------------------------------------
(* step: up to issue_width commands, round robin.                           *)

FreeIndex == SelectInSeq(rotation, LAMBDA r : doing[r] = "free")

\* _rotation without the routines in R (one _rotation.remove for each): those that
\* stay keep their order, so the j-th of them is the one with j up to it.
Without(s, R) ==
    LET stay == {i \in DOMAIN s : s[i] \notin R}
        upTo(i) == {k \in stay : k <= i}
    IN  [j \in 1 .. Cardinality(stay) |-> s[CHOOSE i \in stay : Cardinality(upTo(i)) = j]]

\* _retire
Retire(r, good) ==
    /\ doing' = [doing EXCEPT ![r] = "none"]
    /\ rotation' = Without(rotation, {r})
    /\ hostAnswers' = hostAnswers \cup {HostAnswer(r, good)}

\* _fetch_command and _issue for the first routine in turn that is free.
Started(c) ==
    CASE c = "xfer" -> "queued"
      [] c = "bad" -> "bad"
      [] OTHER -> c

FetchCommand ==
    /\ phase = "host" /\ count < IssueWidth
    /\ FreeIndex # 0
    /\ \E r \in Routines :
           /\ r = rotation[FreeIndex]
           /\ left[r] # <<>> /\ left[r][1] # "illegal"
           /\ doing' = [doing EXCEPT ![r] = Started(left[r][1])]
           /\ left' = [left EXCEPT ![r] = Tail(@)]
    /\ count' = count + 1
    /\ UNCHANGED <<prog, phase, rotation, hostAnswers>>

\* The generator ends before its first command, or its command is refused; the
\* routine retires and the turn is not counted.
FetchNothing ==
    /\ phase = "host" /\ count < IssueWidth
    /\ FreeIndex # 0
    /\ \E r \in Routines :
           /\ r = rotation[FreeIndex]
           /\ \/ left[r] = <<>> /\ Retire(r, TRUE)
              \/ left[r] # <<>> /\ left[r][1] = "illegal" /\ Retire(r, FALSE)
    /\ UNCHANGED <<prog, phase, count, left>>

EndHostStep ==
    /\ phase = "host"
    /\ count = IssueWidth \/ FreeIndex = 0
    /\ rotation' = IF rotation = <<>> THEN <<>> ELSE Append(Tail(rotation), rotation[1])
    /\ phase' = "transfers"
    /\ UNCHANGED <<prog, count, doing, left, hostAnswers>>

-----------------------------------------------------------------------------
(* One cycle of the Group's transfers and of the clock.  Every transfer     *)
(* advances; those in S, which are old enough, end.                         *)

CanElapse == {r \in Positions : doing[r] \in {"patch", "delay", "xfer", "bad", "cancel"}}

Elapse(S) ==
    doing' = [r \in Positions |->
        CASE doing[r] = "queued" -> "moving"
          [] doing[r] = "moving" -> "xfer"
          [] r \in S /\ doing[r] = "patch" -> "free"
          [] r \in S /\ doing[r] = "delay" -> "elapsed"
          [] r \in S /\ doing[r] = "xfer" -> "done"
          [] r \in S /\ doing[r] = "bad" -> "faulty"
          [] r \in S /\ doing[r] = "cancel" -> "cancelled"
          [] OTHER -> doing[r]]

-----------------------------------------------------------------------------
(* harvest: a result is sent into the generator, which has its next command *)
(* ready for the following cycle or ends.                                   *)

Delivered == {r \in Positions : doing[r] \in {"pool", "elapsed", "done"}}
Lost == {r \in Positions : doing[r] \in {"cancelled", "faulty"}}
\* The second acknowledgement of a transfer raises.
Acknowledged == {r \in Positions : doing[r] = "acked"}

HarvestHost ==
    LET over == {r \in Delivered : left[r] = <<>>}
    IN  /\ phase = "hostHarvest" /\ Acknowledged = {}
        /\ doing' = [r \in Positions |->
              IF r \in over \cup Lost THEN "none" ELSE IF r \in Delivered THEN "free" ELSE doing[r]]
        /\ rotation' = Without(rotation, over \cup Lost)
        /\ hostAnswers' = hostAnswers \cup {HostAnswer(r, TRUE) : r \in over}
                                      \cup {HostAnswer(r, FALSE) : r \in Lost}
        /\ phase' = "retire"
        /\ UNCHANGED <<prog, count, left>>

-----------------------------------------------------------------------------
(* abort: routines without a transfer end now; a transfer is asked to stop  *)
(* and its routine ends when the transfer has.                              *)

Abort ==
    LET quiet == Routines \ Holding
    IN  /\ doing' = [r \in Positions |->
              IF r \in quiet THEN "none" ELSE IF r \in InFlight THEN "cancel" ELSE doing[r]]
        /\ rotation' = Without(rotation, quiet)
        /\ hostAnswers' = hostAnswers \cup {HostAnswer(r, FALSE) : r \in quiet}
        /\ UNCHANGED left
=============================================================================
