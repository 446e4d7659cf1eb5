--------------------------- MODULE EventFrontier ---------------------------
(***************************************************************************)
(* The compiler's event analysis of one Context task                       *)
(* (compiler/resources.py, _event_resource_requirements): how often each   *)
(* event will be referenced, and how many event slots the Context can need *)
(* at once.  The runtime reserves exactly that many slots and refuses a    *)
(* registration that exceeds them, so the second number must bound every   *)
(* schedule the Group scheduler can produce.                               *)
(*                                                                         *)
(* A task is a sequence of actions [op, deps, dst, phases, key]: dst holds *)
(* the completion event of the action, if any; phases the input_released   *)
(* and output_ready events of a dispatch; key the identity of the program  *)
(* it dispatches.                                                          *)
(***************************************************************************)
EXTENDS Integers, FiniteSets, Sequences

Fences == {"wait", "barrier", "control"}

Outputs(a) == a.dst \cup a.phases

OutputsBefore(prog, i) == UNION {Outputs(prog[j]) : j \in 1 .. i - 1}
AllOutputs(prog) == OutputsBefore(prog, Len(prog) + 1)
Producer(prog, n) == CHOOSE i \in 1 .. Len(prog) : n \in Outputs(prog[i])

\* The checks that reject a task: forward references and repeated producers.
WellFormed(prog) ==
    \A i \in 1 .. Len(prog) :
        /\ prog[i].deps \subseteq OutputsBefore(prog, i)
        /\ Outputs(prog[i]) \cap OutputsBefore(prog, i) = {}

Uses(prog) ==
    [n \in AllOutputs(prog) |-> Cardinality({i \in 1 .. Len(prog) : n \in prog[i].deps})]

Consumers(prog, n) == {i \in 1 .. Len(prog) : n \in prog[i].deps}

\* Events proved terminal when action i may issue; a dispatch's own completion
\* also proves its phase events.
Completed(prog) ==
    LET Base[i \in 1 .. Len(prog)] ==
          LET Ancestors(n) ==
                LET p == Producer(prog, n) IN
                Base[p] \cup (IF n \in prog[p].dst THEN prog[p].phases ELSE {})
          IN  prog[i].deps \cup UNION {Ancestors(n) : n \in prog[i].deps}
    IN  Base

\* What the completion of the fence at i proves, beyond the fence itself.
FenceTerminal(prog, i) ==
    IF prog[i].op = "barrier" THEN OutputsBefore(prog, i) ELSE Completed(prog)[i]
FenceIssued(prog, i) ==
    {i} \cup IF prog[i].op = "barrier" THEN 1 .. i - 1
             ELSE {Producer(prog, n) : n \in Completed(prog)[i]}

FencesUpTo(prog, i) == {j \in 1 .. i : prog[j].op \in Fences}

\* mutant: assumes that actions issue in program order
LiveSlotsInOrder(prog) ==
    [i \in 0 .. Len(prog) |->
        {n \in OutputsBefore(prog, i + 1) : \E j \in Consumers(prog, n) : j > i}]

\* live after action i: an event leaves the set at a fence at which it is known
\* terminal and all its consumers are known issued.
LiveSlots(prog) ==
    LET Live[i \in 0 .. Len(prog)] ==
          IF i = 0 THEN {}
          ELSE LET all == Live[i - 1] \cup Outputs(prog[i])
                   fences == FencesUpTo(prog, i)
                   terminal == UNION {FenceTerminal(prog, j) : j \in fences}
                   issued == UNION {FenceIssued(prog, j) : j \in fences}
               IN  IF prog[i].op \notin Fences THEN all
                   ELSE {n \in all : ~(n \in terminal /\ Consumers(prog, n) \subseteq issued)}
    IN  Live

Frontier(prog) ==
    LET peaks == {Cardinality(LiveSlots(prog)[i - 1] \cup Outputs(prog[i])) :
                     i \in 1 .. Len(prog)} \cup {0}
    IN  CHOOSE m \in peaks : \A k \in peaks : k <= m
=============================================================================
