---------------------------- MODULE MCScopedRun ----------------------------
(***************************************************************************)
(* Three ops over a managed input "kv" (three pages of two bytes, scope A  *)
(* owns page 0 and B page 1) and a plain input "out".  The bindings begin  *)
(* in the middle of a page of the byte store.                              *)
(***************************************************************************)
EXTENDS ScopedRun

MCModes == [l \in {"l1", "l2"} |-> {0, 1}]
MCCacheModes == [l \in {"l1", "l2"} |-> {1}]
MCWriteBack == {"l2"}
\* The L1 caches can only be cleaned as a whole.
MCMaintenanceCaps ==
    ("l1" :> {"clean_invalidate_all"} @@ "l2" :> {"invalidate_range", "clean_invalidate_all"})
MCResetModes == [l \in {"l1", "l2"} |-> 0]
MCZero == [by |-> 0, at |-> 0]
MCUnregistered == [none |-> TRUE]

MCSpecs == ("pool" :> [binding |-> "kv", pageBytes |-> 2, count |-> 3,
                       owners |-> ("A" :> {0} @@ "B" :> {1})])
MCDeclared == ("kv" :> 6 @@ "out" :> 2)
MCInputs == <<"kv", "out">>

\* The right layout, one whose bindings overlap, one that is too small for the
\* pool and one that leaves a seed uncovered.
Place(kv, size, out, n) ==
    ("kv" :> [base |-> kv, size |-> size, perm |-> {"r", "w"}] @@
     "out" :> [base |-> out, size |-> n, perm |-> {"r", "w"}])
GoodLayout == Place(1, 6, 7, 2)
MCLayouts == {GoodLayout, Place(1, 6, 0, 9), Place(1, 5, 7, 2), Place(1, 6, 8, 2), Place(1, 6, 11, 2)}
MCSeeds == {1, 2, 3, 4, 7, 8}

Use(kind, input, lo, hi, scope) ==
    [kind |-> kind, input |-> input, lo |-> lo, hi |-> hi, scope |-> scope]
Act(grid, allowed, want, use) ==
    [grid |-> grid, allowed |-> allowed, want |-> want, uses |-> {use}]
Task(acts, l2allowed, l2) == [acts |-> acts, l2allowed |-> l2allowed, l2 |-> l2]

GatherOut == Task(<<Act(TRUE, {1}, 1, Use("gather", "out", 0, 2, NoScope))>>, {1}, 1)
StoreOut == Task(<<Act(FALSE, {0}, 0, Use("store", "out", 1, 2, NoScope))>>, {0, 1}, 1)
LoadOut == Task(<<Act(FALSE, {0}, 0, Use("load", "out", 0, 1, NoScope))>>, {0, 1}, 1)
BothModes == Task(<<Act(TRUE, {0}, 0, Use("gather", "out", 0, 1, NoScope)),
                    Act(TRUE, {1}, 1, Use("gather", "out", 1, 2, NoScope))>>, {0, 1}, 1)
Plain == Task(<<Act(TRUE, {0}, 0, Use("load", "out", 0, 1, NoScope))>>, {0}, 0)
Gather(s) == Task(<<Act(TRUE, {1}, 1, Use("gather", "kv", 0, 6, s))>>, {1}, 1)
Scatter(s) == Task(<<Act(TRUE, {0, 1}, 1, Use("scatter", "kv", 0, 6, s))>>, {0, 1}, 1)

Whole == {[input |-> "kv", lo |-> 0, hi |-> 6, modes |-> {"read", "write"}]}
AllocPage(s) == [cmd |-> "alloc", pool |-> "pool", scope |-> s, count |-> 1]
FreeAll(s) == [cmd |-> "free", pool |-> "pool", scope |-> s]
Move(cmd, s, granted, page) ==
    [cmd |-> cmd, scope |-> s, input |-> "kv", granted |-> granted, page |-> page]

Grow == [scopes |-> {"B"}, script |-> <<AllocPage("B"), Move("write", "B", TRUE, 0)>>]
Recycle == [scopes |-> {"A", "B"},
            script |-> <<FreeAll("A"), AllocPage("B"), Move("write", "B", TRUE, 0)>>]
Look == [scopes |-> {"A"}, script |-> <<Move("read", "A", FALSE, 0)>>]
DropB == [scopes |-> {"B"}, script |-> <<FreeAll("B")>>]

Submit(task) == [host |-> FALSE, task |-> task]
Call(routine_) == [host |-> TRUE, call |-> routine_]
MakeOp(e, deps, x) ==
    IF x.host THEN HostOp(e, deps, x.call.scopes, Whole, x.call.script)
              ELSE SubmitOp(e, deps, x.task)

Chain(ops, deps) ==
    [k \in DOMAIN ops |-> MakeOp(k, deps[k], ops[k])]
    \o SelectSeq([k \in DOMAIN ops |-> AwaitOp(k)], LAMBDA o : ~ops[o.tag].host)
    \o <<ReturnOp>>

\* The same without dependencies, the first op awaited before the second starts.
Waited(ops) ==
    LET rest == SelectSeq([k \in DOMAIN ops |-> AwaitOp(k)], LAMBDA o : o.tag # 1 /\ ~ops[o.tag].host)
    IN  <<MakeOp(1, {}, ops[1]), AwaitOp(1), MakeOp(2, {}, ops[2]), MakeOp(3, {2}, ops[3])>>
        \o rest \o <<ReturnOp>>

Visibility == {Submit(GatherOut), Submit(StoreOut), Submit(LoadOut), Submit(BothModes), Submit(Plain)}
Paging == {Call(Grow), Call(Recycle), Call(Look), Call(DropB),
           Submit(Gather("A")), Submit(Gather("B")), Submit(Scatter("A"))}
Edges == {<<{}, a, b>> : a \in {{}, {1}}, b \in SUBSET {1, 2}}

MCSources ==
    {Chain(<<a, b, c>>, <<{}, {}, {}>>) : a \in Visibility, b \in Visibility, c \in Visibility}
    \cup {Chain(<<a, b, c>>, d) : a \in Paging, b \in Paging, c \in Paging, d \in Edges}
    \cup {Waited(<<a, b, Submit(Gather("A"))>>) : a \in Paging, b \in Paging}

=============================================================================
