---------------------------- MODULE MCContextRun ----------------------------
(***************************************************************************)
(* Five Contexts in the style of the repository's examples, one whose two  *)
(* formals are bound to one input, and every Context that one edit makes   *)
(* of them: an op left out, two neighbours exchanged, one dependency of    *)
(* the author left out.                                                    *)
(***************************************************************************)
EXTENDS ContextRun

MCModes == [l \in {"l1", "l2"} |-> {0, 1}]
MCCacheModes == [l \in {"l1", "l2"} |-> {1}]
MCWriteBack == {"l2"}
MCMaintenanceCaps == [l \in {"l1", "l2"} |-> {"invalidate_range"}]
MCInputs == {"x", "y"}
MCDeclared == [n \in MCInputs |-> InputBytes]

Blank(kind, id, deps) ==
    [op |-> kind, id |-> id, deps |-> deps, slot |-> "", ins |-> {}, outs |-> {}, uses |-> {},
     allowed |-> {}, want |-> 0]
On(kind, id, s, deps) == [Blank(kind, id, deps) EXCEPT !.slot = s]
Dma(kind, id, s, use, deps) == [On(kind, id, s, deps) EXCEPT !.uses = {use}]
Grid(id, ins, outs, uses, modes, deps) ==
    [Blank("dispatch", id, deps) EXCEPT !.ins = ins, !.outs = outs, !.uses = uses,
        !.allowed = modes, !.want = CHOOSE m \in modes : \A n \in modes : n <= m]
Span(s, lo, hi) == [slot |-> s, lo |-> lo, hi |-> hi]
Use(kind, n, lo, hi) == [kind |-> kind, input |-> n, lo |-> lo, hi |-> hi, scope |-> NoScope]
Buf(role, sharing) == [role |-> role, sharing |-> sharing]
D(i) == <<i, "done">>
I(i) == <<i, "in">>
O(i) == <<i, "out">>
Context(buffers, imports, body) ==
    [buffers |-> buffers, imports |-> imports, body |-> body, l2 |-> 1,
     actual |-> [f \in MCInputs |-> f]]
Both == {0, 1}

\* One input buffer filled twice, one output: the second prefetch has to wait
\* for the first Grid's reads, and the store for both Grids.
DoubleBuffer ==
    Context("a" :> Buf("in", "private") @@ "o" :> Buf("out", "private"), <<>>,
      <<On("alloc", 1, "a", {}), On("alloc", 2, "o", {}),
        Dma("prefetch", 3, "a", Use("load", "x", 0, 2), {}),
        Grid(4, {"a"}, {Span("o", 0, 2)}, {}, Both, {D(3)}),
        Dma("prefetch", 5, "a", Use("load", "x", 1, 3), {}),
        Grid(6, {"a"}, {Span("o", 0, 1)}, {}, Both, {D(5)}),
        Dma("store", 7, "o", Use("store", "x", 1, 3), {O(4), O(6)}),
        On("release", 8, "a", {D(3), D(5), I(4), I(6)}),
        On("release", 9, "o", {D(7)}),
        Blank("return", 10, {})>>)

\* Gathers before and after a store and a scatter, in two L1 profiles.
Visible ==
    Context("o" :> Buf("out", "private"), <<>>,
      <<On("alloc", 1, "o", {}),
        Grid(2, {}, {Span("o", 0, 2)}, {Use("gather", "x", 1, 3)}, {1}, {}),
        Dma("store", 3, "o", Use("store", "x", 0, 2), {O(2)}),
        Blank("await", 4, {D(3)}),
        Grid(5, {}, {}, {Use("gather", "x", 0, 3), Use("scatter", "y", 0, 2)}, {1}, {D(3)}),
        Grid(6, {}, {}, {Use("gather", "y", 0, 1), Use("scatter", "x", 1, 3)}, {0}, {}),
        Grid(7, {}, {}, {Use("gather", "x", 0, 3)}, {1}, {}),
        On("release", 8, "o", {D(3)}),
        Blank("return", 9, {})>>)

\* An export written by two Grids from an import.
Shared ==
    Context("e" :> Buf("out", "readonly"), <<[id |-> 20, slot |-> "s"]>>,
      <<On("alloc", 1, "e", {}),
        Grid(2, {"s"}, {Span("e", 0, 1)}, {}, Both, {}),
        Grid(3, {"s"}, {Span("e", 1, 2)}, {}, Both, {}),
        Dma("store", 4, "e", Use("store", "y", 0, 2), {O(2), O(3)}),
        On("publish", 5, "e", {O(2), O(3), D(4)}),
        On("release", 6, "e", {D(4), D(5)}),
        On("release", 7, "s", {I(2), I(3)}),
        Blank("return", 8, {})>>)

\* The same, but the second Grid leaves half of the export unwritten.
HalfWritten ==
    [Shared EXCEPT !.body[3] = Grid(3, {"s"}, {Span("e", 0, 1)}, {}, Both, {})]

\* A scratch buffer that stays inside the Context, with a barrier.
Scratch ==
    Context("t" :> Buf("inout", "context-local") @@ "e" :> Buf("in", "readonly"), <<>>,
      <<On("alloc", 1, "t", {}), On("alloc", 2, "e", {}),
        Dma("prefetch", 3, "e", Use("load", "y", 0, 2), {}),
        Grid(4, {"e"}, {Span("t", 0, 2)}, {}, Both, {}),
        On("publish", 5, "e", {D(3), I(4)}),
        Blank("barrier", 6, {}),
        Grid(7, {"t"}, {Span("t", 1, 2)}, {Use("scatter", "y", 0, 1)}, Both, {}),
        Grid(8, {"t"}, {}, {}, Both, {}),
        On("release", 9, "e", {D(3), I(4), D(5)}),
        On("release", 10, "t", {O(4), I(7), O(7), I(8)}),
        Blank("return", 11, {})>>)

\* Both formals are the input x: read through one of them, written through the
\* other, with no dependency of the author between the two.
OneInput ==
    [Context("a" :> Buf("in", "private") @@ "o" :> Buf("out", "private"), <<>>,
       <<On("alloc", 1, "o", {}),
         Grid(2, {}, {Span("o", 0, 2)}, {Use("gather", "x", 0, 2)}, {1}, {}),
         Dma("store", 3, "o", Use("store", "y", 0, 2), {O(2)}),
         Grid(4, {}, {}, {Use("gather", "y", 1, 3)}, {1}, {}),
         Grid(5, {}, {}, {Use("scatter", "x", 1, 3)}, {1}, {}),
         On("alloc", 6, "a", {}),
         Dma("prefetch", 7, "a", Use("load", "y", 0, 2), {}),
         On("release", 8, "o", {D(3)}),
         On("release", 9, "a", {D(7)}),
         Blank("return", 10, {})>>)
       EXCEPT !.actual = [f \in MCInputs |-> "x"]]

Bases == {DoubleBuffer, Visible, Shared, HalfWritten, Scratch, OneInput}

\* The operands of an op are defined before it.
InScope(task) ==
    \A k \in DOMAIN task.body : task.body[k].op # "alloc" =>
        Uses(task.body[k]) \subseteq ImportSlots(task) \cup {task.body[m].slot : m \in
            {j \in 1 .. k - 1 : task.body[j].op = "alloc"}}

Movable(task) == 1 .. Len(task.body) - 1
Edits(task) ==
    {task}
    \cup {[task EXCEPT !.body = RemoveAt(@, k)] : k \in Movable(task)}
    \cup {[task EXCEPT !.body[k] = task.body[k + 1], !.body[k + 1] = task.body[k]] :
             k \in Movable(task) \ {Len(task.body) - 1}}
    \cup UNION {{[task EXCEPT !.body[k].deps = @ \ {d}] : d \in task.body[k].deps} :
               k \in {j \in Movable(task) : task.body[j].op # "await"}}

MCContexts == {t \in UNION {Edits(b) : b \in Bases} : InScope(t)}
=============================================================================
