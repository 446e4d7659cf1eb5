---------------------------- MODULE MCCoSimulator ----------------------------
(***************************************************************************)
(* Small programs for the co-simulation, one for each way in which the     *)
(* CPU, the port, the session and the reset can meet.                      *)
(***************************************************************************)
EXTENDS CoSimulator

MCNoSlot == 0
BadSlot == 9

Op(name, deps) ==
    [op |-> name, deps |-> deps, slot |-> MCNoSlot, need |-> 0, cat |-> "same",
     mode |-> 0, cmds |-> <<>>, known |-> TRUE]
Launch(deps, need, cat) == [Op("submit", deps) EXCEPT !.need = need, !.cat = cat]
Pinned(slot, need) == [Launch({}, need, "same") EXCEPT !.slot = slot]
Call(deps, cmds) == [Op("host_call", deps) EXCEPT !.cmds = cmds]
UnknownCall(deps) == [Call(deps, <<>>) EXCEPT !.known = FALSE]
End == Op("return", {})

\* Launches that wait for each other, for L2, for a slot and for a category.
Chain == <<Launch({}, 1, "same"), Launch({1}, 2, "compatible"), Launch({1, 2}, 1, "same"), End>>
Contended == <<Launch({}, 2, "same"), Pinned(1, 1), Launch({}, 1, "compatible"), Op("await", {1}), End>>
\* Host routines that feed a launch.
Fed == <<Call({}, <<"xfer", "pool">>), Call({}, <<"delay">>), Launch({1, 2}, 1, "same"),
         Op("await", {3}), End>>
\* A host routine that nobody waits for.
Unawaited == <<Call({}, <<"xfer">>), Launch({}, 1, "same"), End>>
\* A command of the CPU between launches.
Fenced == <<Launch({}, 1, "same"), Op("maintain", {1}), Call({}, <<"xfer">>), Op("await", {3}), End>>
\* More references than completions can be kept.
Starving == <<Call({}, <<"xfer">>), Call({}, <<>>), Launch({}, 1, "same"), Op("await", {1}),
              Op("await", {2}), Op("await", {3}), End>>
\* Work that fails.
Failing == <<Call({}, <<"bad">>), Launch({}, 1, "same"), Launch({1}, 1, "compatible"), End>>
Refusing == <<Launch({}, 1, "same"), Call({}, <<"illegal">>), UnknownCall({1}), End>>
Oversized == <<Launch({}, 9, "compatible"), Op("maintain", {}), End>>
Misplaced == <<Launch({}, 1, "same"), Pinned(BadSlot, 1), End>>
\* A launch for each mode; the second call delays a launch past the reconfiguration.
Reconfig == [Op("reconfig", {}) EXCEPT !.mode = 1]
Moved == <<Launch({}, 1, "same"), Reconfig, [Launch({}, 1, "same") EXCEPT !.mode = 1], End>>
Overtaken == <<Call({}, <<"xfer">>), Launch({1}, 1, "same"), Reconfig, End>>
\* A command that may arrive during a reset.
Late == <<Launch({}, 1, "same"), Call({}, <<"xfer">>), Op("maintain", {2}), End>>
\* A transfer issued in the last cycles of a reset, and a routine that fails while
\* the transfer is under way.
Crossed == <<Launch({}, 1, "same"), Call({}, <<"delay", "xfer">>), Call({}, <<"delay", "illegal">>), End>>

MCPrograms ==
    {Crossed, Chain, Contended, Fed, Fenced, Starving, Failing, Refusing, Oversized, Misplaced,
     Moved, Overtaken, Late, Unawaited}
=============================================================================
