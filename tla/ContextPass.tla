---------------------------- MODULE ContextPass ----------------------------
(***************************************************************************)
(* The compiler on one Context: lowering.py turns its ops into actions and *)
(* completes their dependencies, profile_pass.py inserts the cache         *)
(* maintenance and the changes of the L1 profile, and after each insertion *)
(* the dependencies are completed again (api.py).                          *)
(*                                                                         *)
(* Events are those of the source; the bind of a buffer is the "done" of   *)
(* its alloc or import.  A generated action defines no event: it is a      *)
(* fence, which the Group scheduler does not register past (GroupScheduler,*)
(* FenceHolds).                                                            *)
(***************************************************************************)
EXTENDS GlobalAccess, ContextSource

Action(kind, id, deps) ==
    [op |-> kind, id |-> id, deps |-> deps, slot |-> "", reads |-> {}, outs |-> {}, uses |-> {},
     allowed |-> {}, want |-> 0, mode |-> 0, old |-> 0, ranges |-> {}, frontier |-> <<>>, waits |-> {}]

Fences == {"wait", "barrier", "reconfig", "maintain"}

\* output_events
Outputs(a) ==
    CASE a.op = "dispatch" -> {<<a.id, "done">>}
                              \cup (IF a.reads = {} THEN {} ELSE {<<a.id, "in">>})
                              \cup (IF a.outs = {} THEN {} ELSE {<<a.id, "out">>})
      [] a.op \in Fences -> {}
      [] OTHER -> {<<a.id, "done">>}

\* The events that end the reads and the writes of an action.
ReadDone(a) == <<a.id, IF a.op = "dispatch" THEN "in" ELSE "done">>
WriteDone(a) == <<a.id, IF a.op = "dispatch" THEN "out" ELSE "done">>

\* The slots an action is said to write: a publish seals its slot.
WriteSlots(a) == {w.slot : w \in a.outs} \cup (IF a.op = "publish" THEN {a.slot} ELSE {})

-----------------------------------------------------------------------------
(* lowering.py, _lower_context                                              *)

WholeSlot(s) == {[slot |-> s, lo |-> 0, hi |-> SlotBytes]}

BindOf(task, s) ==
    IF s \in ImportSlots(task)
      THEN <<(CHOOSE i \in ToSet(task.imports) : i.slot = s).id, "done">>
      ELSE <<task.body[CHOOSE k \in Of(task, "alloc", s) : TRUE].id, "done">>

LowerAlloc(o) == [Action("bind", o.id, {}) EXCEPT !.slot = o.slot]
LowerPrefetch(task, o) ==
    [Action("prefetch", o.id, o.deps \cup {BindOf(task, o.slot)})
       EXCEPT !.slot = o.slot, !.outs = WholeSlot(o.slot), !.uses = o.uses]
LowerStore(task, o) ==
    [Action("store", o.id, o.deps \cup {BindOf(task, o.slot)})
       EXCEPT !.slot = o.slot, !.reads = {o.slot}, !.uses = o.uses]
LowerDispatch(task, o) ==
    [Action("dispatch", o.id, o.deps \cup {BindOf(task, s) : s \in o.ins \cup OutSlots(o)})
       EXCEPT !.reads = o.ins, !.outs = o.outs, !.uses = o.uses, !.allowed = o.allowed,
              !.want = o.want, !.mode = o.want]
LowerPublish(task, o) ==
    [Action("publish", o.id, o.deps \cup {BindOf(task, o.slot)}) EXCEPT !.slot = o.slot]
LowerRelease(task, o) ==
    [Action("release", o.id, o.deps \cup {BindOf(task, o.slot)}) EXCEPT !.slot = o.slot]

LowerOp(task, o) ==
    CASE o.op = "alloc" -> LowerAlloc(o)
      [] o.op = "prefetch" -> LowerPrefetch(task, o)
      [] o.op = "store" -> LowerStore(task, o)
      [] o.op = "dispatch" -> LowerDispatch(task, o)
      [] o.op = "publish" -> LowerPublish(task, o)
      [] o.op = "release" -> LowerRelease(task, o)
      [] o.op = "await" -> Action("wait", o.id, o.deps)
      [] o.op = "barrier" -> Action("barrier", o.id, {})
      [] o.op = "return" -> Action("signal", o.id, {})

\* The imports are bound first.
Lower(task) ==
    [k \in DOMAIN task.imports |->
        [Action("import", task.imports[k].id, {}) EXCEPT !.slot = task.imports[k].slot]]
    \o [k \in DOMAIN task.body |-> LowerOp(task, task.body[k])]

-----------------------------------------------------------------------------
(* lowering.py, normalize_action_dependencies                               *)

\* _event_ancestors
Ancestors(anc, deps) == deps \cup UNION {anc[d] : d \in deps \cap DOMAIN anc}

\* _maximal_event_frontier
Frontier(anc, events) == {e \in events : ~\E later \in events : e # later /\ e \in anc[later]}

NoEdges == [s \in {} |-> {}]
At(f, s) == IF s \in DOMAIN f THEN f[s] ELSE {}

\* Per slot the last writer (as a set) and its readers since; the ancestors of
\* every event; the events nothing later covers; the global accesses, by the
\* input their formal is taken to be bound to.
Unordered(actual) ==
    [out |-> <<>>, last |-> NoEdges, readers |-> NoEdges, anc |-> [e \in {} |-> {}],
     open |-> {}, acc |-> {}, actual |-> actual, legal |-> TRUE]

\* The RAW, WAR and WAW edges of the L2 slots.
SlotEdges(n, a) ==
    UNION {At(n.last, s) : s \in a.reads \cup WriteSlots(a)}
    \cup UNION {At(n.readers, s) : s \in WriteSlots(a)}
    \cup (IF a.op = "release" THEN At(n.last, a.slot) \cup At(n.readers, a.slot) ELSE {})

Accesses(a) == {ActionAccess(u) : u \in a.uses}
ActualAccess(n, u) == Actual(n.actual, ActionAccess(u))

\* The RAW, WAR and WAW edges of the global memory.
GlobalEdges(n, a) ==
    {p.ev : p \in {q \in n.acc : \E u \in a.uses :
                      Overlaps(q.a, ActualAccess(n, u)) /\ (Writes(u.kind) \/ q.a.writing)}}

\* Barrier and return take the open events; a generated action keeps its own.
Dependencies(n, a) ==
    CASE a.op \in {"barrier", "signal"} -> n.open
      [] a.op \in {"reconfig", "maintain"} -> a.deps
      [] OTHER -> a.deps \cup SlotEdges(n, a) \cup GlobalEdges(n, a)

\* A dispatch ends after its two phases.
AncestorsOf(a, e, base) == IF e = <<a.id, "done">> THEN base \cup (Outputs(a) \ {e}) ELSE base

OpenAfter(a, anc, open, deps) ==
    CASE a.op = "barrier" -> {}
      [] a.op \in Fences \ {"barrier"} -> Frontier(anc, open) \ Ancestors(anc, deps)
      [] OTHER -> Frontier(anc, open)

Track(n, a, deps, anc) ==
    [out |-> Append(n.out, [a EXCEPT !.deps = deps]),
     last |-> [s \in WriteSlots(a) |-> {WriteDone(a)}] @@ n.last,
     readers |-> [s \in a.reads |-> {ReadDone(a)} \cup (IF s \in WriteSlots(a) THEN {} ELSE At(n.readers, s))]
                 @@ [s \in WriteSlots(a) |-> {}] @@ n.readers,
     anc |-> anc,
     open |-> OpenAfter(a, anc, n.open \cup Outputs(a), deps),
     acc |-> n.acc \cup {[a |-> ActualAccess(n, u), ev |-> <<a.id, "done">>] : u \in a.uses},
     actual |-> n.actual,
     legal |-> /\ n.legal
               /\ deps \subseteq DOMAIN n.anc
               /\ ~\E u, w \in a.uses : /\ u # w /\ Writes(u.kind)
                                        /\ Overlaps(ActualAccess(n, u), ActualAccess(n, w))]

Complete(n, a, deps) ==
    Track(n, a, deps, [e \in Outputs(a) |-> AncestorsOf(a, e, Ancestors(n.anc, deps))] @@ n.anc)

NormalizeAction(n, a) == Complete(n, a, Dependencies(n, a))
Normalize(actions, actual) == FoldLeft(NormalizeAction, Unordered(actual), actions)

-----------------------------------------------------------------------------
(* profile_pass.py, insert_task_maintenance                                 *)

\* The formals are compared here, not what they are bound to.
MaintainAction(id, events, ranges) == [Action("maintain", id, events) EXCEPT !.ranges = ranges]
RangeOf(a, levels) == MaintenanceRange(a, levels, FALSE)

Touching(prior, S) == {p \in prior : \E a \in S : Overlaps(p.a, a)}

\* Clean what write-back caches may hold before it is overwritten.
PreClean(m, a) ==
    LET writes == {u \in Accesses(a) : u.writing}
        old == Touching(m.reads, writes)
    IN  IF WriteBack = {} \/ old = {}
          THEN <<>>
          ELSE <<MaintainAction(a.id, {p.ev : p \in old}, {RangeOf(u, WriteBack) : u \in writes})>>

\* mutant: only the range of the writer is invalidated, not that of the reader
PostInvalidateWritten(m, a) ==
    LET cached == {u \in Accesses(a) : u.levels # {}}
        old == Touching(m.writes, cached)
    IN  IF old = {}
          THEN <<>>
          ELSE <<MaintainAction(a.id, {p.ev : p \in old}, {RangeOf(p.a, Levels) : p \in old})>>

\* Invalidate what was written before it is read through a cache.
PostInvalidate(m, a) ==
    LET cached == {u \in Accesses(a) : u.levels # {}}
        old == Touching(m.writes, cached)
    IN  IF old = {}
          THEN <<>>
          ELSE <<MaintainAction(a.id, {p.ev : p \in old},
                   {RangeOf(u, u.levels) : u \in {c \in cached : \E p \in old : Overlaps(p.a, c)}})>>

Remember(a, uses) == {[a |-> u, ev |-> <<a.id, "done">>] : u \in uses}

MaintainOne(m, a) ==
    [out |-> m.out \o PreClean(m, a) \o PostInvalidate(m, a) \o <<a>>,
     writes |-> m.writes \cup Remember(a, {u \in Accesses(a) : u.writing}),
     reads |-> m.reads \cup Remember(a, {u \in Accesses(a) : u.levels # {}})]

InsertMaintenance(actions) ==
    FoldLeft(MaintainOne, [out |-> <<>>, writes |-> {}, reads |-> {}], actions).out

-----------------------------------------------------------------------------
(* profile_pass.py, bind_context_profiles: the actions it inserts.          *)

NotAwaited(b) == SelectSeq(b.frontier, LAMBDA e : e \notin b.awaited)

\* The Grids since the last change retire, then the profile changes.
Boundary(b, a, selected) ==
    [b EXCEPT !.out = @ \o [k \in DOMAIN NotAwaited(b) |-> Action("wait", a.id, {NotAwaited(b)[k]})]
                       \o <<[Action("reconfig", a.id, ToSet(b.frontier))
                               EXCEPT !.frontier = b.frontier, !.waits = ToSet(b.frontier), !.old = b.cur,
                                      !.mode = selected]>>,
              !.awaited = @ \cup ToSet(b.frontier),
              !.cur = selected, !.exclusive = TRUE, !.frontier = <<>>,
              !.legal = @ /\ b.frontier # <<>>]

Dispatched(b, a) ==
    [b EXCEPT !.out = Append(@, [a EXCEPT !.mode = b.cur]), !.frontier = Append(@, <<a.id, "done">>)]

BindDispatch(b, a, selected) ==
    Dispatched(IF selected = b.cur THEN b ELSE Boundary(b, a, selected), a)

BindL1Action(b, a) ==
    CASE a.op = "dispatch" -> BindDispatch(b, a, IF b.cur \in a.allowed THEN b.cur ELSE a.want)
      [] a.op = "wait" -> [b EXCEPT !.out = Append(@, a), !.awaited = @ \cup a.deps]
      [] OTHER -> [b EXCEPT !.out = Append(@, a)]

BindL1(actions, entry) ==
    FoldLeft(BindL1Action,
             [out |-> <<>>, cur |-> entry, frontier |-> <<>>, awaited |-> {}, exclusive |-> FALSE,
              legal |-> TRUE], actions)

\* The first dispatch decides the profile the Context is entered with (_first_l1).
EntryL1(actions, cur) ==
    LET D == {k \in DOMAIN actions : actions[k].op = "dispatch"}
        first == actions[CHOOSE k \in D : \A m \in D : k <= m]
    IN  IF D = {} \/ cur \in first.allowed THEN cur ELSE first.want

\* Only the first Normalize knows what the formals are bound to.
Unaliased(task) == [f \in DOMAIN task.actual |-> f]

\* The whole way; the last Normalize is _finalize_action_dependencies.
Finalize(lowered, bound, entry, final) ==
    [body |-> final.out,
     legal |-> /\ lowered.legal /\ bound.legal /\ final.legal
               /\ \A a \in ToSet(final.out) : \A r \in a.ranges : MaintainLegal(r.levels),
     call |-> [entry |-> entry, exit |-> bound.cur, exclusive |-> bound.exclusive]]

BindAndFinalize(task, lowered, actions, entry) ==
    LET bound == BindL1(actions, entry)
    IN  Finalize(lowered, bound, entry, Normalize(bound.out, Unaliased(task)))

Compile2(task, lowered, actions, cur) ==
    BindAndFinalize(task, lowered, actions, EntryL1(actions, cur))

CompileContext(task, cur) ==
    LET lowered == Normalize(Lower(task), task.actual)
    IN  Compile2(task, lowered, Normalize(InsertMaintenance(lowered.out), Unaliased(task)).out, cur)
=============================================================================
