---------------------------- MODULE DeviceProgram ----------------------------
(***************************************************************************)
(* The lowered nexus.program that the CPU model interprets, and the clock  *)
(* of the co-simulation.  An operation is a record                         *)
(*   [op, deps, slot, need, cat, mode, cmds, known]                        *)
(* op is "submit", "host_call", "await", "reconfig", "maintain" or         *)
(* "return".  A launch and the event it defines are named by the position  *)
(* of the operation, so deps is a set of earlier positions.  A submit asks *)
(* for a slot (NoSlot when it has no affinity), needs some units of L2, is *)
(* compiled for an L2 mode and is queued in the category cat; a reconfig   *)
(* changes the L2 mode; a host_call runs the commands cmds and names a     *)
(* known handler or not.                                                   *)
(***************************************************************************)
EXTENDS Naturals, Sequences, FiniteSets

CONSTANTS Programs,     \* the programs the model is run on
          NoSlot        \* no Group context slot

VARIABLES prog,         \* the program of this run
          phase,        \* where in the cycle the co-simulation is
          count         \* operations done so far in this phase (issue_width)

Launching == {"submit", "host_call"}
Controls == {"reconfig", "maintain"}
Categories == {"same", "compatible"}
HostCommands == {"xfer", "bad", "pool", "delay", "illegal"}
Operation ==
    [op : Launching \cup Controls \cup {"await", "return"}, deps : SUBSET Nat,
     slot : Nat \cup {NoSlot}, need : Nat, cat : Categories, mode : Nat,
     cmds : Seq(HostCommands), known : BOOLEAN]

\* _validate_and_count_references: every reference is to an earlier launch, an
\* await has one event, and the return is last.
WellFormed(p) ==
    /\ p # <<>>
    /\ \A i \in DOMAIN p :
          /\ (p[i].op = "return") <=> (i = Len(p))
          /\ p[i].deps \subseteq {d \in 1 .. i - 1 : p[d].op \in Launching}
          /\ p[i].op = "await" => Cardinality(p[i].deps) = 1
          /\ p[i].op \in {"return", "reconfig"} => p[i].deps = {}

ASSUME ProgramsWellFormed == \A p \in Programs : p \in Seq(Operation) /\ WellFormed(p)

Positions == DOMAIN prog
Launches == {i \in Positions : prog[i].op \in Launching}

\* _future_references[event]
References(r) == Cardinality({i \in Positions : r \in prog[i].deps})
=============================================================================
