-------------------------- MODULE MCGroupScheduler --------------------------
(* Two Contexts on one Group.  c1 is a small pipeline (bind, prefetch,       *)
(* dispatch with both phase events, store, wait, completion signal); c2      *)
(* dispatches another program behind a barrier, runs a collective and        *)
(* changes the configuration.                                                *)
EXTENDS GroupScheduler, TLC

CONSTANTS c1, c2

Op(op, deps, dst) == [op |-> op, deps |-> deps, dst |-> dst, phases |-> {}, key |-> NoKey]
Dispatch(deps, dst, phases, key) ==
    [op |-> "dispatch", deps |-> deps, dst |-> dst, phases |-> phases, key |-> key]

Pipeline == <<
    Op("bind", {}, {"b"}),
    Op("prefetch", {"b"}, {"p"}),
    Dispatch({"p"}, {"g"}, {"in", "out"}, "k1"),
    Op("store", {"out"}, {"s"}),
    Op("wait", {"in", "s", "g"}, {}),
    Op("signal", {}, {"end"}) >>

Phased == <<
    Op("collective", {}, {"q"}),
    Dispatch({}, {"h"}, {}, "k2"),
    Op("barrier", {}, {}),
    Op("control", {"q"}, {}),
    Op("signal", {"h"}, {"fin"}) >>

MCLaunches == {c1, c2}
MCPrograms == c1 :> Pipeline @@ c2 :> Phased
MCNames == UNION {AllOutputs(MCPrograms[l]) : l \in MCLaunches}
MCUses == [l \in MCLaunches |-> Uses(MCPrograms[l])]
MCTwoEach == [a \in Adapters |-> 2]
=============================================================================
