-------------------------- MODULE ExecutionVerifier --------------------------
(***************************************************************************)
(* execution_verifier.py, _verify_device_control: the loader's own check   *)
(* of a compiled device program.  It rebuilds the ancestors of every event *)
(* and accepts the program only if the dependencies it finds order every   *)
(* conflict.  Failures is the set of the checks that fail; the code stops  *)
(* at the first.                                                           *)
(***************************************************************************)
EXTENDS GlobalAccess

\* The access of a use as the verifier derives it, with the profiles in force at
\* its action: a gather hits only in the caches there are, and a DMA store has
\* to fear the write-back caches there are.
VerifiedAccess(u, l1, l2) ==
    LET on == {l \in Levels : (IF l = "l1" THEN l1 ELSE l2) \in CacheModes[l]}
    IN  [input |-> u.input, lo |-> u.lo, hi |-> u.hi, writing |-> Writes(u.kind),
         levels |-> CASE u.kind = "gather" -> on
                      [] u.kind = "store" -> on \cap WriteBack
                      [] OTHER -> {},
         scope |-> u.scope]

VerifiedAccesses(o) ==
    UNION {{VerifiedAccess(u, o.call.modes[k], o.call.l2) : u \in o.task.acts[k].uses} :
              k \in DOMAIN o.task.acts}

\* _device_task_scopes
TaskScopes(task) ==
    {u.scope : u \in {x \in UNION {task.acts[k].uses : k \in DOMAIN task.acts} :
                        x.kind \in {"gather", "scatter"}}} \ {NoScope}

\* The verifier's state: what is known after some ops of the program.
Unknown(entry) ==
    [cur |-> entry, anc |-> <<>>, waited |-> {}, consumed |-> {}, active |-> {},
     subs |-> {}, hist |-> [l \in Levels |-> <<>>], maint |-> {}, scopes |-> {},
     fails |-> {}, returned |-> FALSE]

Produced(v) == DOMAIN v.anc

\* _event_ancestors, _ordered
EventAncestors(v, deps) == deps \cup UNION {v.anc[d] : d \in deps \cap Produced(v)}
Before(v, e, deps) == e \in v.waited \/ e \in EventAncestors(v, deps)

\* A range lies in a global input of the program.
InBounds(r) == r.input \in DOMAIN Declared /\ r.hi <= Declared[r.input]

Failed(v, checks) == [v EXCEPT !.fails = @ \cup {c \in DOMAIN checks : checks[c]}]

-----------------------------------------------------------------------------
(* submit                                                                   *)

\* _verify_cross_root_hazards
CrossRootHazard(v, o, accesses) ==
    \E s \in v.subs :
        /\ ~Before(v, s.tag, o.deps)
        /\ \E new \in accesses, old \in s.acc : Overlaps(old, new) /\ (old.writing \/ new.writing)

ExclusivityHazard(v, o) ==
    \E a \in v.active :
        /\ (o.call.exclusive \/ a.exclusive) /\ HasL1(o.task) /\ a.l1
        /\ ~Before(v, a.tag, o.deps)

\* The scopes a root uses are not being changed by a host call.
UseHazard(v, o) ==
    \E r \in v.scopes :
        /\ r.kind = "mutate" /\ r.scopes \cap TaskScopes(o.task) # {}
        /\ ~Before(v, r.tag, o.deps)

\* A submit's callsite and binding are named by its event.  Its actual inputs
\* have the shapes of the formals, so what the task touches is in bounds.
VerifySubmit(v, i, o) ==
    [Failed(v, [modes |-> v.cur["l1"] # o.call.entry \/ v.cur["l2"] # o.call.l2,
                permitted |-> v.cur["l1"] \notin o.call.used,
                bounds |-> \E a \in VerifiedAccesses(o) : ~InBounds(a),
                event |-> o.tag \in Produced(v) \/ ~(o.deps \subseteq Produced(v)),
                hazard |-> CrossRootHazard(v, o, VerifiedAccesses(o)),
                exclusive |-> ExclusivityHazard(v, o),
                scope |-> UseHazard(v, o)])
       EXCEPT !.anc = (o.tag :> EventAncestors(v, o.deps)) @@ @,
              !.active = @ \cup {[tag |-> o.tag, exclusive |-> o.call.exclusive, l1 |-> HasL1(o.task)]},
              !.subs = @ \cup {[at |-> i, tag |-> o.tag, acc |-> VerifiedAccesses(o)]},
              !.hist = [l \in Levels |->
                          IF l = "l2" \/ HasL1(o.task) THEN Append(@[l], o.tag) ELSE @[l]],
              !.scopes = @ \cup {[tag |-> o.tag, scopes |-> TaskScopes(o.task), kind |-> "use"]},
              !.cur["l1"] = o.call.exit]

-----------------------------------------------------------------------------
(* host_call, await and the control ops                                     *)

\* mutant: a host call may change a scope a root is still using
MutateHazardHostOnly(v, o) ==
    \E r \in v.scopes :
        r.kind = "mutate" /\ r.scopes \cap o.scopes # {} /\ ~Before(v, r.tag, o.deps)

\* The scopes a host call changes are neither used nor changed by another op.
MutateHazard(v, o) ==
    \E r \in v.scopes : r.scopes \cap o.scopes # {} /\ ~Before(v, r.tag, o.deps)

VerifyHostCall(v, o) ==
    [Failed(v, [event |-> o.tag \in Produced(v) \/ ~(o.deps \subseteq Produced(v)),
                bounds |-> \E a \in o.acc : ~InBounds(a) \/ a.modes = {} \/ ~(a.modes \subseteq {"read", "write"}),
                access |-> \E a, b \in o.acc : a # b /\ a.input = b.input /\ a.lo < b.hi /\ b.lo < a.hi,
                scope |-> MutateHazard(v, o)])
       EXCEPT !.anc = (o.tag :> EventAncestors(v, o.deps)) @@ @,
              !.scopes = @ \cup {[tag |-> o.tag, scopes |-> o.scopes, kind |-> "mutate"]}]

VerifyAwait(v, o) ==
    LET closure == EventAncestors(v, {o.tag})
    IN  [Failed(v, [await |-> o.tag \in v.consumed \/ o.tag \notin Produced(v)])
           EXCEPT !.consumed = @ \cup {o.tag},
                  !.waited = @ \cup closure,
                  !.active = {a \in @ : a.tag \notin closure}]

\* _verify_profile_desc: the awaits it names cover its frontier, and only a
\* first profile has none.
ProfileDesc(v, o) ==
    [modes |-> o.old # v.cur[o.level] \/ o.new = o.old \/ o.new \notin Modes[o.level],
     empty |-> o.frontier = <<>> /\ (o.waits # {} \/ ~o.initial),
     waits |-> \/ ~(o.waits \subseteq v.consumed)
               \/ ~(ToSet(o.frontier) \subseteq EventAncestors(v, o.waits))]

\* The frontier is the complete history of the level.
VerifyReconfig(v, o) ==
    [Failed(v, ProfileDesc(v, o) @@ [frontier |-> o.frontier # v.hist[o.level]])
       EXCEPT !.cur[o.level] = o.new, !.hist[o.level] = <<>>]

\* _verify_maintenance_desc
MaintenanceDesc(v, o) ==
    [maintenance |-> o.ranges = {} \/ ~(o.deps \subseteq Produced(v)),
     range |-> \E r \in o.ranges : r.levels = {} \/ ~(r.levels \subseteq Levels) \/ r.lo >= r.hi,
     bounds |-> \E r \in o.ranges : ~InBounds(r)]

VerifyMaintenance(v, i, o) ==
    [Failed(v, MaintenanceDesc(v, o))
       EXCEPT !.maint = @ \cup {[at |-> i, deps |-> o.deps, ranges |-> o.ranges]}]

VerifyReturn(v, last) ==
    [Failed(v, [unawaited |-> v.active # {}, return |-> ~last]) EXCEPT !.returned = TRUE]

VerifyOp(v, i, o, last) ==
    CASE o.op = "submit" -> VerifySubmit(v, i, o)
      [] o.op = "await" -> VerifyAwait(v, o)
      [] o.op = "host_call" -> VerifyHostCall(v, o)
      [] o.op = "profile_reconfig" -> VerifyReconfig(v, o)
      [] o.op = "memory_maintenance" -> VerifyMaintenance(v, i, o)
      [] o.op = "return" -> VerifyReturn(v, last)

-----------------------------------------------------------------------------
(* _verify_cross_root_maintenance, over the whole program                   *)

Covered(range, a) ==
    range.input = a.input /\ range.lo <= a.lo /\ range.hi >= a.hi /\ a.levels \subseteq range.levels

\* mutant: the command need not wait for the writer
MaintenanceCoversUnordered(v, old, new, a) ==
    \E m \in v.maint :
        /\ old.at < m.at /\ m.at < new.at
        /\ \E r \in m.ranges : Covered(r, a)

\* _maintenance_covers
MaintenanceCovers(v, old, new, a) ==
    \E m \in v.maint :
        /\ old.at < m.at /\ m.at < new.at
        /\ old.tag \in EventAncestors(v, m.deps)
        /\ \E r \in m.ranges : Covered(r, a)

\* _maintenance_precedes
MaintenancePrecedes(v, new, a) ==
    \E m \in v.maint : m.at < new.at /\ \E r \in m.ranges : Covered(r, a)

CrossRootMaintenance(v) ==
    \E new \in v.subs : \E a \in new.acc :
        /\ a.levels # {}
        /\ \/ a.writing /\ ~MaintenancePrecedes(v, new, a)
           \/ \E old \in v.subs : \E w \in old.acc :
                  /\ old.at < new.at /\ w.writing /\ Overlaps(w, a)
                  /\ ~MaintenanceCovers(v, old, new, a)

VerifyBody(body, entry) ==
    FoldLeftDomain(LAMBDA v, i : VerifyOp(v, i, body[i], i = Len(body)), Unknown(entry), body)

\* A model, whose bindings are those of its submits.
Finish(v, exit) ==
    Failed(v, [returned |-> ~v.returned, exit |-> v.cur # exit, visibility |-> CrossRootMaintenance(v)])

Failures(body, entry, exit) == Finish(VerifyBody(body, entry), exit).fails

\* A Context on its own: the prefix leads to its entry profile, and cleans what
\* it writes.
StandaloneFailures(p, entry) ==
    LET v == VerifyBody(p.prefix, entry)
    IN  Failed(v, [control |-> \E i \in DOMAIN p.prefix :
                                  p.prefix[i].op \notin {"await", "profile_reconfig", "memory_maintenance"},
                   entry |-> v.cur["l1"] # p.call.entry \/ v.cur["l2"] # p.call.l2,
                   clean |-> \E a \in VerifiedAccesses(p) :
                                /\ a.writing /\ a.levels # {}
                                /\ ~MaintenancePrecedes(v, [at |-> Len(p.prefix) + 1], a),
                   exit |-> p.exit # [l \in Levels |-> IF l = "l1" THEN p.call.exit ELSE p.call.l2]]).fails
=============================================================================
