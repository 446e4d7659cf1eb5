------------------------------ MODULE MCTileCore ------------------------------
(***************************************************************************)
(* Two Tiles.  Grid 1 runs on both: two loads, release the input, compute,      *)
(* store, free.  Grid 2 on Tile 2 feeds a stream, then frees a buffer with *)
(* or without its loads finished.  Grid 3 on Tile 1 drains the stream.      *)
(***************************************************************************)
EXTENDS TileCore

I(op) == [op |-> op]
L(key, ev, buffers) == [op |-> "launch", key |-> key, ev |-> ev, buffers |-> buffers]
W(events) == [op |-> "wait", events |-> events]

MCWork == <<[op |-> "alloc", buffer |-> "a"], L("MFE_LOAD", "e1", {"a"}), L("MFE_LOAD", "e2", {"a"}),
            W({"e1", "e2"}), I("signal"), L("BOA", "e3", {"a"}), W({"e3"}), L("MFE_STORE", "e4", {"a"}), I("ret")>>
MCFeed == <<I("acquire"), I("push"), I("push_eos"), [op |-> "alloc", buffer |-> "b"],
            L("MFE_LOAD", "e1", {"b"}), L("MFE_SCATTER", "e2", {"b"}), I("nop"), [op |-> "free", buffer |-> "b"], I("ret")>>
MCDrain == <<I("pop"), [op |-> "br_eos", to |-> 5], I("release"), [op |-> "br", to |-> 1], I("ret")>>

MCRole == <<[tiles |-> {1, 2}, prog |-> MCWork, size |-> 2, same |-> TRUE, signals |-> TRUE],
            [tiles |-> {2}, prog |-> MCFeed, size |-> 1, same |-> FALSE, signals |-> FALSE],
            [tiles |-> {1}, prog |-> MCDrain, size |-> 1, same |-> TRUE, signals |-> FALSE]>>
=============================================================================
