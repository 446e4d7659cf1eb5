---------------------------- MODULE TaskVerifier ----------------------------
(***************************************************************************)
(* execution_verifier.py, _verify_task: the loader's check of the actions  *)
(* of one Context.  It trusts nothing the compiler derived: it rebuilds    *)
(* the ancestors of every event and the life of every L2 view from the     *)
(* actions alone.  TaskFailures is the set of the checks that fail; the    *)
(* code stops at the first.                                                *)
(***************************************************************************)
EXTENDS ContextPass

\* The verifier's state after some of the actions.
Unread(call) ==
    [anc |-> [e \in {} |-> {}], open |-> {}, live |-> {}, bound |-> {}, released |-> {},
     bindev |-> [s \in {} |-> <<>>], moved |-> NoEdges, stored |-> [s \in {} |-> <<>>],
     full |-> {}, published |-> NoEdges, grids |-> {}, imports |-> 0,
     l1 |-> call.entry, changed |-> FALSE, frontier |-> <<>>, waits |-> {},
     maint |-> {}, acc |-> {}, last |-> NoEdges, readers |-> NoEdges, fails |-> {}]

Ordered(v, e, a) == e \in Ancestors(v.anc, a.deps)
AllOrdered(v, E, a) == E \subseteq Ancestors(v.anc, a.deps)

Note(v, checks) == [v EXCEPT !.fails = @ \cup {c \in DOMAIN checks : checks[c]}]

Local(task, s) == s \in DOMAIN task.buffers
Known(task, s) == Local(task, s) \/ s \in ImportSlots(task)
Sharing(task, s) == IF Local(task, s) THEN task.buffers[s].sharing ELSE "import"
RoleOf(task, s) == IF Local(task, s) THEN task.buffers[s].role ELSE "in"

\* The dispatches so far that read or write a slot, and the milestones of it.
SlotReaders(v, s) == {g \in v.grids : s \in g.reads}
SlotWriters(v, s) == {g \in v.grids : \E w \in g.outs : w.slot = s}
ReadEvents(v, s) == {<<g.id, "in">> : g \in SlotReaders(v, s)}
WriteEvents(v, s) == {<<g.id, "out">> : g \in SlotWriters(v, s)}
BindEvent(v, s) == IF s \in DOMAIN v.bindev THEN {v.bindev[s]} ELSE {}
StoreEvents(v, s) == IF s \in DOMAIN v.stored THEN ToSet(v.stored[s]) ELSE {}

-----------------------------------------------------------------------------
(* One opcode after the other.                                              *)

Bind(v, a) ==
    [v EXCEPT !.bound = @ \cup {a.slot}, !.live = @ \cup {a.slot},
              !.bindev = (a.slot :> <<a.id, "done">>) @@ @]

VerifyImport(v, task, i, a) ==
    [Bind(Note(v, [import |-> \/ i # v.imports + 1 \/ i > Len(task.imports)
                              \/ i <= Len(task.imports) /\ task.imports[i].slot # a.slot
                              \/ a.deps # {} \/ a.slot \in v.bound]), a)
       EXCEPT !.imports = @ + 1]

VerifyBind(v, task, a) == Bind(Note(v, [bind |-> ~Local(task, a.slot) \/ a.slot \in v.bound]), a)

VerifyPrefetch(v, task, a) ==
    [Note(v, [prefetch |-> \/ ~Local(task, a.slot) \/ a.slot \in DOMAIN v.published
                           \/ a.slot \notin v.live])
       EXCEPT !.moved = (a.slot :> At(@, a.slot) \cup {<<a.id, "done">>}) @@ @,
              !.full = @ \cup {a.slot}]

VerifyStore(v, task, a) ==
    [Note(v, [store |-> \/ ~Known(task, a.slot) \/ a.slot \in DOMAIN v.published
                        \/ a.slot \notin v.live])
       EXCEPT !.stored = (a.slot :> Append(IF a.slot \in DOMAIN @ THEN @[a.slot] ELSE <<>>, <<a.id, "done">>)) @@ @]

VerifyDispatch(v, task, a) ==
    [Note(v, [dispatch |-> \/ ~(a.reads \cup WriteSlots(a) \subseteq v.live)
                           \/ (a.reads \cup WriteSlots(a)) \cap DOMAIN v.published # {},
              role |-> \E s \in WriteSlots(a) : RoleOf(task, s) = "in",
              profile |-> a.mode \notin a.allowed \/ a.want \notin a.allowed \/ a.mode # v.l1])
       EXCEPT !.grids = @ \cup {[id |-> a.id, reads |-> a.reads, outs |-> a.outs]},
              !.frontier = Append(@, <<a.id, "done">>)]

VerifyWait(v, a) ==
    [Note(v, [wait |-> Cardinality(a.deps) # 1]) EXCEPT !.waits = @ \cup a.deps]

\* The frontier is every Grid since the last change, and awaits cover it.
VerifyL1Change(v, a) ==
    [Note(v, [change |-> a.old # v.l1 \/ a.mode = v.l1,
              frontier |-> a.frontier # v.frontier \/ ToSet(a.frontier) # a.deps,
              awaits |-> \/ ~(a.waits \subseteq v.waits)
                        \/ ~(a.deps \subseteq Ancestors(v.anc, a.waits))])
       EXCEPT !.l1 = a.mode, !.changed = TRUE, !.frontier = <<>>]

VerifyMaintain(v, i, a) ==
    [Note(v, [maintain |-> a.ranges = {} \/ \E r \in a.ranges : r.levels = {} \/ r.lo >= r.hi])
       EXCEPT !.maint = @ \cup {[at |-> i, deps |-> a.deps, ranges |-> a.ranges]}]

\* _writer_rectangles, _rectangles_cover_shape
Initialised(v, s) ==
    \/ s \in v.full
    \/ \A b \in 0 .. SlotBytes - 1 :
          \E g \in SlotWriters(v, s) : \E w \in g.outs : w.slot = s /\ w.lo <= b /\ b < w.hi

VerifyPublish(v, task, a) ==
    LET required == BindEvent(v, a.slot) \cup At(v.moved, a.slot) \cup StoreEvents(v, a.slot)
                    \cup ReadEvents(v, a.slot) \cup WriteEvents(v, a.slot)
    IN  [Note(v, [publish |-> \/ Sharing(task, a.slot) # "readonly" \/ a.slot \notin v.live
                              \/ a.slot \in DOMAIN v.published,
                  closure |-> a.deps # required,
                  init |-> ~Initialised(v, a.slot)])
           EXCEPT !.published = (a.slot :> {<<a.id, "done">>}) @@ @]

\* mutant: a release does not wait for the readers
ReleaseRequiredNoReaders(v, task, s) ==
    BindEvent(v, s) \cup At(v.moved, s) \cup StoreEvents(v, s)
    \cup (IF Sharing(task, s) = "context-local" THEN WriteEvents(v, s) ELSE {})
    \cup At(v.published, s)

ReleaseRequired(v, task, s) ==
    BindEvent(v, s) \cup At(v.moved, s) \cup StoreEvents(v, s) \cup ReadEvents(v, s)
    \cup (IF Sharing(task, s) = "context-local" THEN WriteEvents(v, s) ELSE {})
    \cup At(v.published, s)

\* The last store of a slot comes after all of its writers.
LastStoreLate(v, s) ==
    StoreEvents(v, s) = {} \/ WriteEvents(v, s) \subseteq Ancestors(v.anc, {Last(v.stored[s])})

VerifyRelease(v, task, a) ==
    [Note(v, [release |-> ~Known(task, a.slot) \/ a.slot \notin v.live,
              export |-> (Sharing(task, a.slot) = "readonly") # (a.slot \in DOMAIN v.published),
              final |-> ~LastStoreLate(v, a.slot),
              retired |-> ~AllOrdered(v, ReleaseRequired(v, task, a.slot), a),
              writer |-> (RoleOf(task, a.slot) = "in") # (SlotWriters(v, a.slot) = {}),
              lost |-> /\ Sharing(task, a.slot) = "private" /\ SlotWriters(v, a.slot) # {}
                       /\ StoreEvents(v, a.slot) = {}])
       EXCEPT !.live = @ \ {a.slot}, !.released = @ \cup {a.slot}]

\* A barrier and the completion signal cover all that is open.
VerifyClosure(v, a) == Note(v, [open |-> ~AllOrdered(v, v.open, a)])

VerifyOpcode(v, task, i, a) ==
    CASE a.op = "import" -> VerifyImport(v, task, i, a)
      [] a.op = "bind" -> VerifyBind(v, task, a)
      [] a.op = "prefetch" -> VerifyPrefetch(v, task, a)
      [] a.op = "store" -> VerifyStore(v, task, a)
      [] a.op = "dispatch" -> VerifyDispatch(v, task, a)
      [] a.op = "wait" -> VerifyWait(v, a)
      [] a.op = "reconfig" -> VerifyL1Change(v, a)
      [] a.op = "maintain" -> VerifyMaintain(v, i, a)
      [] a.op = "publish" -> VerifyPublish(v, task, a)
      [] a.op = "release" -> VerifyRelease(v, task, a)
      [] a.op \in {"barrier", "signal"} -> VerifyClosure(v, a)

-----------------------------------------------------------------------------
(* What holds for every action, and what the whole task needs.              *)

\* mutant: only the last writer counts, readers are overwritten
SlotHazardNoWar(v, a) ==
    ~AllOrdered(v, UNION {At(v.last, s) : s \in a.reads \cup WriteSlots(a)}, a)

\* _verify_action_hazards
SlotHazard(v, a) ==
    ~AllOrdered(v, UNION {At(v.last, s) : s \in a.reads \cup WriteSlots(a)}
                   \cup UNION {At(v.readers, s) : s \in WriteSlots(a)}, a)

\* _global_access: the levels that really cache in the profiles in force.
LoaderAccess(u, v, l2) ==
    [ActionAccess(u) EXCEPT !.levels =
        {l \in @ : (IF l = "l1" THEN v.l1 ELSE l2) \in CacheModes[l]}]

\* _maintenance_covers
TaskMaintained(v, p, i, u) ==
    \E m \in v.maint :
        /\ p.at < m.at /\ m.at < i /\ p.ev \in Ancestors(v.anc, m.deps)
        /\ \E r \in m.ranges :
              r.input = u.input /\ r.lo <= u.lo /\ r.hi >= u.hi /\ u.levels \subseteq r.levels

\* Do two accesses meet in one of the inputs the call binds (alias_indices)?
SameBytes(task, a, b) == Overlaps(Actual(task.actual, a), Actual(task.actual, b))

\* _verify_global_hazards, for the accesses of one action against earlier ones.
GlobalHazard(v, task, i, a, accesses) ==
    \/ \E p \in v.acc, u \in accesses :
          /\ SameBytes(task, p.a, u)
          /\ \/ (p.a.writing \/ u.writing) /\ ~Ordered(v, p.ev, a)
             \/ p.a.writing /\ ~u.writing /\ u.levels # {} /\ ~TaskMaintained(v, p, i, u)
    \/ \E u, w \in accesses : u # w /\ SameBytes(task, u, w) /\ (u.writing \/ w.writing)

LoaderAccesses(v, task, a) == {LoaderAccess(u, v, task.l2) : u \in a.uses}

CheckAction(v, task, i, a, accesses) ==
    Note(v, [events |-> \/ ~(a.deps \subseteq DOMAIN v.anc) \/ Outputs(a) \cap DOMAIN v.anc # {},
             unbound |-> \E s \in a.reads \cup WriteSlots(a) : ~AllOrdered(v, BindEvent(v, s), a),
             slots |-> SlotHazard(v, a),
             global |-> GlobalHazard(v, task, i, a, accesses)])

Record(v, i, a, anc, accesses) ==
    [v EXCEPT !.anc = anc,
              !.open = OpenAfter(a, anc, @ \cup Outputs(a), a.deps),
              !.last = [s \in WriteSlots(a) |-> {WriteDone(a)}] @@ @,
              !.readers = [s \in a.reads |->
                             {ReadDone(a)} \cup (IF s \in WriteSlots(a) THEN {} ELSE At(v.readers, s))]
                          @@ [s \in WriteSlots(a) |-> {}] @@ @,
              !.acc = @ \cup {[at |-> i, ev |-> <<a.id, "done">>, a |-> u] : u \in accesses}]

VerifyAction(v, task, i, a, accesses) ==
    Record(CheckAction(VerifyOpcode(v, task, i, a), task, i, a, accesses), i, a,
           [e \in Outputs(a) |-> AncestorsOf(a, e, Ancestors(v.anc, a.deps))] @@ v.anc, accesses)

\* The end of _verify_task.
VerifyEnd(v, task, body, call) ==
    Note(v, [exit |-> v.l1 # call.exit \/ v.changed # call.exclusive,
             lifetime |-> \/ v.imports # Len(task.imports) \/ v.live # {}
                          \/ v.bound # DOMAIN task.buffers \cup ImportSlots(task) \/ v.released # v.bound,
             exports |-> DOMAIN v.published # {s \in DOMAIN task.buffers : Sharing(task, s) = "readonly"},
             signal |-> body = <<>> \/ Last(body).op # "signal"])

TaskFailures(task, body, call) ==
    VerifyEnd(FoldLeftDomain(
                LAMBDA v, i : VerifyAction(v, task, i, body[i], LoaderAccesses(v, task, body[i])),
                Unread(call), body), task, body, call).fails
=============================================================================
