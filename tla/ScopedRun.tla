----------------------------- MODULE ScopedRun -----------------------------
(***************************************************************************)
(* A device program on its way from the source to its end: the visibility  *)
(* pass compiles it, the loader binds the inputs and verifies it, and the  *)
(* run executes what was accepted.  The question is whether the dependency *)
(* edges, awaits and maintenance commands that the pass adds and the       *)
(* verifier demands really order the accesses of concurrent roots and host *)
(* routines, keep every cached line equal to the HBM, and keep the pages   *)
(* of one scope's data away from the next owner.                           *)
(*                                                                         *)
(* How a launch is admitted, how a transfer moves and how a controller     *)
(* drains are other modules' questions; here a byte is accessed in one     *)
(* step, and a byte is as large as a cache line.  A root touches the bytes *)
(* of its uses; a scoped use touches the pages its scope owns when the     *)
(* root starts, which is what the index tables of a correct program name.  *)
(* The actions of a Context run in order.                                  *)
(***************************************************************************)
EXTENDS DeviceSource, ProfilePass, ExecutionVerifier, HbmMemory

CONSTANTS
    Sources,     \* the source programs
    Tampered,    \* TRUE: the loader may also get an altered program
    Layouts,     \* the bindings of a launch, [name -> [base, size, perm]]
    Inputs,      \* the names of the inputs, in the order they are bound
    Seeds        \* the HBM addresses the host seeds before the run

VARIABLES
    prog,        \* [src, body, compiled, legal, exit, layout]
    status,      \* "new", "refused", "run", "done", "fault"
    pc,          \* the next op of the body
    st,          \* per event, "none", "pending", "running" or "done"
    touches,     \* per event, the accesses its root still has to make
    routine,     \* per event, the state of its host routine
    reg,         \* the page pools
    region,      \* the HBM bindings
    store,       \* the bytes of the HBM
    cache,       \* per level, the lines it holds
    ledger,      \* precise_write_ledger: the addresses scatters wrote
    mode         \* per level, the profile in force

vars == <<prog, status, pc, st, touches, routine, reg, region, store, cache, ledger, mode>>

Events == {prog.src[k].tag : k \in {j \in DOMAIN prog.src : prog.src[j].op \in {"submit", "host_call"}}}

\* A routine: the commands it still has, the page it was granted last, and the
\* transfer it waits for.
NoFlight == [kind |-> "none", cells |-> {}, at |-> 0]
Idle == [todo |-> <<>>, page |-> 0, flight |-> NoFlight]

NoLines == [a \in {} |-> Blank]
Without(lines, cells) == [a \in DOMAIN lines \ cells |-> lines[a]]

\* What a compiler with a fault in it, or a damaged file, could hand the loader:
\* a control op or an edge is missing.
Altered(body) ==
    {RemoveAt(body, k) : k \in {j \in DOMAIN body :
        body[j].op \in {"await", "memory_maintenance", "profile_reconfig"}}}
    \cup UNION {{[body EXCEPT ![k].deps = @ \ {d}] : d \in body[k].deps} : k \in {j \in DOMAIN body :
        body[j].op \in {"submit", "memory_maintenance"}}}

Given(source, pass, layout, body, compiled) ==
    [src |-> source, body |-> body, compiled |-> compiled, legal |-> pass.legal,
     exit |-> pass.cur, layout |-> layout]

Programs(source, pass, layout) ==
    {Given(source, pass, layout, pass.out, TRUE)}
    \cup (IF Tampered THEN {Given(source, pass, layout, b, FALSE) : b \in Altered(pass.out)} ELSE {})

Init ==
    /\ \E source \in Sources, layout \in Layouts :
          prog \in Programs(source, BindProfiles(source), layout)
    /\ status = "new" /\ pc = 1
    /\ st = [e \in Events |-> "none"]
    /\ touches = [e \in Events |-> {}]
    /\ routine = [e \in Events |-> Idle]
    /\ reg = Unregistered
    /\ region = NoBindings
    /\ store = WriteBytes(EmptyStore, [a \in Seeds |-> [by |-> 0, at |-> 0]])
    /\ cache = [l \in Levels |-> NoLines]
    /\ ledger = {}
    /\ mode = ResetModes

-----------------------------------------------------------------------------
(* The launch: bind the inputs, check the seeds, register the pools.        *)

Bound == FoldLeftDomain(
           LAMBDA r, k : IF CanBind(r, Inputs[k], prog.layout[Inputs[k]])
                           THEN BindExternal(r, Inputs[k], prog.layout[Inputs[k]], k)
                           ELSE r,
           NoBindings, Inputs)

AllBound(bound) == DOMAIN bound = ToSet(Inputs)
Sizes(bound) == [n \in DOMAIN bound |-> bound[n].size]

Launchable(bound) ==
    /\ prog.legal
    /\ AllBound(bound) /\ SeedsCovered(bound, Seeds) /\ Registrable(Sizes(bound), {})
    /\ Failures(prog.body, ResetModes, prog.exit) = {}

Refuse ==
    /\ status = "new" /\ ~Launchable(Bound)
    /\ status' = "refused"
    /\ UNCHANGED <<prog, pc, st, touches, routine, reg, region, store, cache, ledger, mode>>

Launch ==
    /\ status = "new" /\ Launchable(Bound)
    /\ status' = "run"
    /\ region' = Bound
    /\ reg' = Initialize
    /\ UNCHANGED <<prog, pc, st, touches, routine, store, cache, ledger, mode>>

-----------------------------------------------------------------------------
(* The CPU: one op of the body after the other.                             *)

Op == prog.body[pc]
AtOp(kinds) == status = "run" /\ pc <= Len(prog.body) /\ Op.op \in kinds

CpuSubmit ==
    /\ AtOp({"submit", "host_call"})
    /\ st' = [st EXCEPT ![Op.tag] = "pending"]
    /\ pc' = pc + 1
    /\ UNCHANGED <<prog, status, touches, routine, reg, region, store, cache, ledger, mode>>

CpuAwait ==
    /\ AtOp({"await"})
    /\ st[Op.tag] = "done"
    /\ pc' = pc + 1
    /\ UNCHANGED <<prog, status, st, touches, routine, reg, region, store, cache, ledger, mode>>

Cells(input, lo, hi) == (region[input].base + lo) .. (region[input].base + hi - 1)

\* _resolve_ranges: a precise range is the bytes that scatters wrote in it, or
\* all of it when there is none on record.
ResolveRange(r) ==
    LET all == Cells(r.input, r.lo, r.hi)
    IN  IF r.precise /\ ledger \cap all # {} THEN ledger \cap all ELSE all

CpuMaintain ==
    /\ AtOp({"memory_maintenance"})
    /\ \A d \in Op.deps : st[d] = "done"
    /\ cache' = [l \in Levels |->
                   Without(cache[l], UNION {ResolveRange(r) : r \in {x \in Op.ranges : l \in x.levels}})]
    /\ pc' = pc + 1
    /\ UNCHANGED <<prog, status, st, touches, routine, reg, region, store, ledger, mode>>

CpuReconfig ==
    /\ AtOp({"profile_reconfig"})
    /\ mode' = [mode EXCEPT ![Op.level] = Op.new]
    /\ cache' = [cache EXCEPT ![Op.level] = NoLines]
    /\ pc' = pc + 1
    /\ UNCHANGED <<prog, status, st, touches, routine, reg, region, store, ledger>>

CpuReturn ==
    /\ AtOp({"return"})
    /\ pc' = pc + 1
    /\ UNCHANGED <<prog, status, st, touches, routine, reg, region, store, cache, ledger, mode>>

\* The end of _run_model: pages that are still owned are a leak.
FinishRun ==
    /\ status = "run" /\ pc > Len(prog.body) /\ \A e \in Events : st[e] = "done"
    /\ status' = IF Closed(reg) THEN "done" ELSE "fault"
    /\ UNCHANGED <<prog, pc, st, touches, routine, reg, region, store, cache, ledger, mode>>

-----------------------------------------------------------------------------
(* Roots.                                                                   *)

OpOf(e) == prog.body[CHOOSE k \in DOMAIN prog.body :
                        prog.body[k].op \in {"submit", "host_call"} /\ prog.body[k].tag = e]

\* The pages a scope may touch, as addresses; everything when there is no pool.
ScopeCells(scope) ==
    LET spec == Specs[PoolForScope(scope)]
    IN  UNION {Cells(spec.binding, k * spec.pageBytes, (k + 1) * spec.pageBytes) : k \in reg.pages[scope]}

UseCells(u) ==
    IF u.scope = NoScope
      THEN Cells(u.input, u.lo, u.hi)
      ELSE Cells(u.input, u.lo, u.hi) \cap ScopeCells(u.scope)

PageOf(input, cell) ==
    (cell - region[input].base) \div Specs[PoolForBinding(input)].pageBytes
EpochOf(input, cell) ==
    IF IsPoolBinding(input) THEN reg.epoch[PageOf(input, cell)] ELSE 0

TouchesOf(task) ==
    UNION {UNION {{[act |-> k, kind |-> u.kind, cell |-> a, at |-> EpochOf(u.input, a)] :
                       a \in UseCells(u)} :
                  u \in task.acts[k].uses} :
           k \in DOMAIN task.acts}

Start(e) ==
    /\ status = "run" /\ st[e] = "pending"
    /\ \A d \in OpOf(e).deps : st[d] = "done"
    /\ st' = [st EXCEPT ![e] = "running"]
    /\ IF OpOf(e).op = "submit"
         THEN /\ touches' = [touches EXCEPT ![e] = TouchesOf(OpOf(e).task)]
              /\ UNCHANGED routine
         ELSE /\ routine' = [routine EXCEPT ![e] = [Idle EXCEPT !.todo = OpOf(e).script]]
              /\ UNCHANGED touches
    /\ UNCHANGED <<prog, status, pc, reg, region, store, cache, ledger, mode>>

\* The action a root is in, and the L1 profile it was bound to.
ActOf(e) == CHOOSE k \in {t.act : t \in touches[e]} : \A t \in touches[e] : k <= t.act
BoundL1(e, k) == OpOf(e).call.modes[k]

\* The root's own PROFILE_RECONFIG before the next Grid.
GroupReconfig(e) ==
    /\ status = "run" /\ touches[e] # {}
    /\ OpOf(e).task.acts[ActOf(e)].grid
    /\ OpOf(e).call.exclusive /\ mode["l1"] # BoundL1(e, ActOf(e))
    /\ mode' = [mode EXCEPT !["l1"] = BoundL1(e, ActOf(e))]
    /\ cache' = [cache EXCEPT !["l1"] = NoLines]
    /\ UNCHANGED <<prog, status, pc, st, touches, routine, reg, region, store, ledger>>

On(l) == mode[l] \in CacheModes[l]
Hits(l, a) == On(l) /\ a \in DOMAIN cache[l]

\* A gather looks in the L1, then the L2, then the HBM, and fills what it passed.
Line(a) ==
    CASE Hits("l1", a) -> cache["l1"][a]
      [] ~Hits("l1", a) /\ Hits("l2", a) -> cache["l2"][a]
      [] OTHER -> ByteAt(store, a)
Filled(l, a) ==
    IF On(l) /\ a \notin DOMAIN cache[l] /\ ~(l = "l2" /\ Hits("l1", a))
      THEN [b \in DOMAIN cache[l] \cup {a} |-> IF b = a THEN Line(a) ELSE cache[l][b]]
      ELSE cache[l]

Read(t) ==
    /\ ~Writes(t.kind)
    /\ IF t.kind = "gather"
         THEN /\ cache' = [l \in Levels |-> Filled(l, t.cell)]
              /\ status' = IF Line(t.cell).valid THEN status ELSE "fault"
         ELSE /\ status' = IF ByteAt(store, t.cell).valid THEN status ELSE "fault"
              /\ UNCHANGED cache
    /\ UNCHANGED <<store, ledger>>

Write(e, t) ==
    /\ Writes(t.kind)
    /\ store' = WriteBytes(store, [a \in {t.cell} |-> [by |-> e, at |-> t.at]])
    /\ ledger' = IF t.kind = "scatter" THEN ledger \cup {t.cell} ELSE ledger
    /\ UNCHANGED <<cache, status>>

Touch(e) ==
    /\ status = "run" /\ touches[e] # {}
    /\ OpOf(e).task.acts[ActOf(e)].grid => mode["l1"] = BoundL1(e, ActOf(e)) \/ ~OpOf(e).call.exclusive
    /\ \E t \in touches[e] :
          /\ t.act = ActOf(e)
          /\ Read(t) \/ Write(e, t)
          /\ touches' = [touches EXCEPT ![e] = @ \ {t}]
    /\ UNCHANGED <<prog, pc, st, routine, reg, region, mode>>

Complete(e) ==
    /\ status = "run" /\ st[e] = "running"
    /\ touches[e] = {} /\ routine[e].todo = <<>> /\ routine[e].flight = NoFlight
    /\ st' = [st EXCEPT ![e] = "done"]
    /\ UNCHANGED <<prog, status, pc, touches, routine, reg, region, store, cache, ledger, mode>>

-----------------------------------------------------------------------------
(* Host routines.                                                           *)

Command(e) == Head(routine[e].todo)
Next1(e) == [routine[e] EXCEPT !.todo = Tail(@)]
Ready(e) == status = "run" /\ routine[e].todo # <<>> /\ routine[e].flight = NoFlight

FaultRun ==
    /\ status' = "fault"
    /\ UNCHANGED <<prog, pc, st, touches, routine, reg, region, store, cache, ledger, mode>>

\* _invalidate_pages
InvalidatePages(p, new) ==
    LET bytes == Specs[p].pageBytes
        base == region[Specs[p].binding].base
    IN  /\ store' = FoldLeft(LAMBDA s, k : ClearValidity(s, base + k * bytes, bytes),
                             store, SetToSeq(new))
        /\ cache' = [l \in Levels |->
              IF On(l)
                THEN Without(cache[l], UNION {Cells(Specs[p].binding, k * bytes, (k + 1) * bytes) : k \in new})
                ELSE cache[l]]

HostAlloc(e) ==
    /\ Ready(e) /\ Command(e).cmd = "alloc"
    /\ LET c == Command(e)
           new == Taken(reg, c.pool, c.scope, c.count)
       IN  IF CanAllocate(reg, c.pool, c.scope, c.count)
             THEN /\ reg' = Allocate(reg, c.pool, c.scope, c.count)
                  /\ InvalidatePages(c.pool, new)
                  /\ routine' = [routine EXCEPT ![e] = [Next1(e) EXCEPT !.page = CHOOSE k \in new : TRUE]]
                  /\ UNCHANGED <<prog, status, pc, st, touches, region, ledger, mode>>
             ELSE FaultRun

HostFree(e) ==
    /\ Ready(e) /\ Command(e).cmd = "free"
    /\ LET c == Command(e)
       IN  IF CanFree(reg, c.pool, c.scope)
             THEN /\ reg' = Free(reg, c.pool, c.scope)
                  /\ routine' = [routine EXCEPT ![e] = Next1(e)]
                  /\ UNCHANGED <<prog, status, pc, st, touches, region, store, cache, ledger, mode>>
             ELSE FaultRun

\* _validate_memory_command, for one page: inside the ranges the call declares,
\* with the mode it declares, in pages the scope owns.
ValidCommand(e, c, page) ==
    LET bytes == Specs[PoolForBinding(c.input)].pageBytes
        lo == page * bytes
    IN  /\ \E a \in OpOf(e).acc :
              a.input = c.input /\ a.lo <= lo /\ lo + bytes <= a.hi /\ c.cmd \in a.modes
        /\ c.scope \in PoolScopes(PoolForBinding(c.input))
        /\ ScopeOwnsRange(reg, c.scope, c.input, lo, bytes)

\* HostRead and HostWrite of a page: checked and submitted now, moved later.
HostTransfer(e) ==
    /\ Ready(e) /\ Command(e).cmd \in {"read", "write"}
    /\ LET c == Command(e)
           page == IF c.granted THEN routine[e].page ELSE c.page
           bytes == Specs[PoolForBinding(c.input)].pageBytes
       IN  IF ValidCommand(e, c, page)
             THEN /\ routine' = [routine EXCEPT ![e] = [Next1(e) EXCEPT
                        !.flight = [kind |-> c.cmd, cells |-> Cells(c.input, page * bytes, (page + 1) * bytes),
                                    at |-> reg.epoch[page]]]]
                  /\ UNCHANGED <<prog, status, pc, st, touches, reg, region, store, cache, ledger, mode>>
             ELSE FaultRun

\* The transfer ends.
HostLand(e) ==
    /\ status = "run" /\ routine[e].flight # NoFlight
    /\ LET f == routine[e].flight
       IN  IF f.kind = "write"
             THEN /\ store' = WriteBytes(store, [a \in f.cells |-> [by |-> e, at |-> f.at]])
                  /\ UNCHANGED status
             ELSE /\ status' = IF \A a \in f.cells : ByteAt(store, a).valid THEN status ELSE "fault"
                  /\ UNCHANGED store
    /\ routine' = [routine EXCEPT ![e].flight = NoFlight]
    /\ UNCHANGED <<prog, pc, st, touches, reg, region, cache, ledger, mode>>

-----------------------------------------------------------------------------
Ended == status \in {"refused", "done", "fault"} /\ UNCHANGED vars

Next ==
    \/ Refuse \/ Launch
    \/ CpuSubmit \/ CpuAwait \/ CpuMaintain \/ CpuReconfig \/ CpuReturn \/ FinishRun
    \/ \E e \in Events :
          \/ Start(e) \/ GroupReconfig(e) \/ Touch(e) \/ Complete(e)
          \/ HostAlloc(e) \/ HostFree(e) \/ HostTransfer(e) \/ HostLand(e)
    \/ Ended

Spec == Init /\ [][Next]_vars
-----------------------------------------------------------------------------
(* Properties.                                                              *)

Running == {e \in Events : st[e] = "running"}

\* The variables have their types; a store never holds a byte outside the
\* bindings, which do not overlap.
TypeOK ==
    /\ status \in {"new", "refused", "run", "done", "fault"}
    /\ pc \in 1 .. Len(prog.body) + 1
    /\ st \in [Events -> {"none", "pending", "running", "done"}]
    /\ mode["l1"] \in Modes["l1"] /\ mode["l2"] \in Modes["l2"]
    /\ ledger \subseteq UNION {Cells(n, 0, region[n].size) : n \in DOMAIN region}
    /\ \A n, m \in DOMAIN region :
          n # m => Cells(n, 0, region[n].size) \cap Cells(m, 0, region[m].size) = {}

\* bind_profiles takes the event of a host call as awaited and drops a later
\* await of it.
AwaitsHostCall(src) ==
    \E j, k \in DOMAIN src : src[j].op = "host_call" /\ src[k].op = "await" /\ src[k].tag = src[j].tag

\* What bind_profiles makes of a source passes every check of the loader: the
\* pass and the verifier analyse the program independently of each other.  For
\* the order of scopes the source itself is responsible, and what the source
\* verifier accepts is enough, unless it rests on the await of a host call.  The
\* same holds of each of its Contexts when it is compiled on its own.
CompiledIsValid ==
    status = "new" /\ prog.compiled =>
        /\ prog.legal => Failures(prog.body, ResetModes, prog.exit) \subseteq
              IF ProgramAccepted(prog.src) /\ ~AwaitsHostCall(prog.src) THEN {} ELSE {"scope"}
        /\ \A k \in DOMAIN prog.src : prog.src[k].op = "submit" =>
              LET alone == BindStandalone(prog.src[k].task)
              IN  alone.legal => StandaloneFailures(alone, ResetModes) = {}

\* A root that looks into a cache never finds a line that differs from the HBM:
\* the maintenance the verifier demands is enough (_verify_cross_root_maintenance).
CoherentReads ==
    \A e \in Running : \A t \in touches[e] : \A l \in Levels :
        t.kind = "gather" /\ Hits(l, t.cell) => cache[l][t.cell] = ByteAt(store, t.cell)

Conflict(s, t) == s.cell = t.cell /\ (Writes(s.kind) \/ Writes(t.kind))
InFlight(e) == {[kind |-> IF routine[e].flight.kind = "write" THEN "store" ELSE "load", cell |-> a] :
                   a \in routine[e].flight.cells}
Outstanding(e) == {[kind |-> t.kind, cell |-> t.cell] : t \in touches[e]} \cup InFlight(e)

\* Two roots or host routines that run at the same time have no conflicting
\* accesses ahead of them, and a root keeps the profiles it was bound to until
\* its last access (_verify_cross_root_hazards, the exclusive L1 interval).
Isolated ==
    /\ \A e, f \in Running : e # f =>
          \A s \in Outstanding(e), t \in Outstanding(f) : ~Conflict(s, t)
    /\ \A e \in Running : touches[e] # {} =>
          /\ mode["l2"] = OpOf(e).call.l2
          /\ HasL1(OpOf(e).task) /\ ~OpOf(e).call.exclusive => mode["l1"] = OpOf(e).call.exit

\* Nothing an earlier owner of a page wrote, and no late write of it, is visible
\* to the scope that owns the page now: neither in the HBM nor in a cache that is
\* switched on.
NewOwnerClean ==
    reg # Unregistered =>
        \A p \in Pools : \A s \in PoolScopes(p) : \A k \in reg.pages[s] :
            \A a \in Cells(Specs[p].binding, k * Specs[p].pageBytes, (k + 1) * Specs[p].pageBytes) :
                LET mine(b) == b.valid => b.data.at = reg.epoch[k]
                IN  /\ mine(ByteAt(store, a))
                    /\ \A l \in Levels : Hits(l, a) => mine(cache[l][a])

\* The page counts of assert_closed are right at all times, no page has two
\* owners, and the pages a running root may still touch belong to its scope.
PoolExact ==
    /\ TypeOK
    /\ reg # Unregistered =>
        \A p \in Pools :
            /\ reg.initial[p] + reg.allocated[p] - reg.freed[p] = Live(reg, p)
            /\ Live(reg, p) <= reg.peak[p] /\ reg.peak[p] <= Specs[p].count
            /\ \A s, t \in PoolScopes(p) : s # t => reg.pages[s] \cap reg.pages[t] = {}
            /\ \A e \in Running : \A t \in touches[e] :
                  t.cell \in Cells(Specs[p].binding, 0, Specs[p].count * Specs[p].pageBytes) =>
                      \E s \in PoolScopes(p) : t.cell \in ScopeCells(s) /\ s \in TaskScopes(OpOf(e).task)

\* Concurrent roots and host routines cannot be told from isolated ones: no
\* conflicting accesses, no profile change underneath, no stale cache line.
RootsIsolated == CoherentReads /\ Isolated
=============================================================================
