------------------------------ MODULE MCL2Group ------------------------------
(***************************************************************************)
(* Four roots on one Group: p loads x, computes w from it in two tasks and *)
(* shares w; c, submitted when p is done, reads w and stores its own       *)
(* output; e reads w too and has no memory of its own; d takes most of the *)
(* pool.  w lies between x and slack, so what c retains of p leaves d      *)
(* enough bytes but no run of them.                                        *)
(***************************************************************************)
EXTENDS L2Group, TLC

CONSTANTS p, c, d, e

Act(op, slot, deps) == [op |-> op, slot |-> slot, reads |-> {}, writes |-> {},
                        tasks |-> {}, deps |-> deps]
Grid(reads, writes, ids, deps) ==
    [op |-> "grid", slot |-> "none", reads |-> reads, writes |-> writes, tasks |-> ids, deps |-> deps]
Done(S) == {<<i, "done">> : i \in S}

MCOwners == {p, c, d, e}
MCLayout ==
    p :> [bytes |-> 6, bufs |-> "x" :> [off |-> 0, bytes |-> 4] @@ "w" :> [off |-> 2, bytes |-> 3]]
    @@ c :> [bytes |-> 2, bufs |-> "out" :> [off |-> 0, bytes |-> 4]]
    @@ e :> [bytes |-> 0, bufs |-> <<>>]
    @@ d :> [bytes |-> 6, bufs |-> "big" :> [off |-> 0, bytes |-> 12]]
MCSource == <<c, "in">> :> <<p, "w">> @@ <<e, "in">> :> <<p, "w">>
MCExports == {<<p, "w">>}
MCDeps == p :> {} @@ c :> {p} @@ d :> {} @@ e :> {p}

MCProgram ==
    p :> << Act("bind", "x", {}), Act("bind", "w", {}), Act("load", "x", Done({1})),
            Grid({"x"}, {"w"}, {1, 2}, Done({2, 3})),
            Act("publish", "w", {<<4, "out">>}),
            Act("release", "x", {<<4, "in">>}), Act("release", "w", Done({5})) >>
    @@ c :> << Act("bind", "in", {}), Act("bind", "out", {}),
               Grid({"in"}, {"out"}, {1}, Done({1, 2})),
               Act("release", "in", {<<3, "in">>}), Act("store", "out", {<<3, "out">>}),
               Act("release", "out", Done({5})) >>
    @@ e :> << Act("bind", "in", {}), Grid({"in"}, {}, {1}, Done({1})), Act("release", "in", {<<2, "in">>}) >>
    @@ d :> << Act("bind", "big", {}), Act("load", "big", Done({1})), Act("release", "big", Done({2})) >>
=============================================================================
