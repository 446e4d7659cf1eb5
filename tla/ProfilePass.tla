----------------------------- MODULE ProfilePass -----------------------------
(***************************************************************************)
(* compiler/profile_pass.py, bind_profiles for a model: the pass that goes *)
(* over the device program once, adds the RAW/WAR/WAW edges between root   *)
(* Contexts, the cache maintenance, the awaits and the profile changes,    *)
(* and binds every submit to its profiles.                                 *)
(*                                                                         *)
(* A device op is a record with its opcode in "op".  Events are the        *)
(* numbers of the ops that produce them.  An await is named by its event,  *)
(* which is enough because an event is awaited once.                       *)
(***************************************************************************)
EXTENDS GlobalAccess

CONSTANTS ResetModes   \* the profiles after a reset, [level -> mode]

SubmitOp(e, deps, task) == [op |-> "submit", tag |-> e, deps |-> deps, task |-> task]
HostOp(e, deps, scopes, acc, script) ==
    [op |-> "host_call", tag |-> e, deps |-> deps, scopes |-> scopes, acc |-> acc, script |-> script]
AwaitOp(e) == [op |-> "await", tag |-> e]
ReturnOp == [op |-> "return"]

\* The state of the pass.
Fresh ==
    [out |-> <<>>, cur |-> ResetModes, active |-> {}, hist |-> [l \in Levels |-> <<>>],
     awaited |-> {}, submitted |-> {}, prev |-> {}, legal |-> TRUE]

Emit(c, o) == [c EXCEPT !.out = Append(@, o)]

-----------------------------------------------------------------------------
\* wait_events: the awaits that are still missing, in order.  Only submitted
\* events are waited for.
WaitEvents(c, events) ==
    LET missing == SelectSeq(events, LAMBDA e : e \notin c.awaited)
    IN  [c EXCEPT !.out = @ \o [k \in DOMAIN missing |-> AwaitOp(missing[k])],
                  !.awaited = @ \cup ToSet(events),
                  !.active = {a \in @ : a.tag \notin ToSet(events)},
                  !.legal = @ /\ ToSet(events) \subseteq c.submitted]

\* initial: its reason is that no work of the level has run before.
ProfileCommand(c, level, new) ==
    [op |-> "profile_reconfig", level |-> level, old |-> c.cur[level], new |-> new,
     frontier |-> c.hist[level], waits |-> ToSet(c.hist[level]), initial |-> c.hist[level] = <<>>]

\* reconfigure: the complete history of the level retires first.
Reconfigure(c, level, new) ==
    IF c.cur[level] = new
      THEN c
      ELSE [Emit(WaitEvents(c, c.hist[level]), ProfileCommand(c, level, new))
              EXCEPT !.cur[level] = new, !.hist[level] = <<>>]

-----------------------------------------------------------------------------
(* The edges and the maintenance one submit needs.                          *)

Hazard(old, new) == Overlaps(old, new) /\ (old.writing \/ new.writing)

HazardEvents(c, accesses) ==
    {p.tag : p \in {q \in c.prev : \E old \in q.acc, new \in accesses : Hazard(old, new)}}

\* A command the target has no maintenance for is an error of the compiler.
EmitMaintenance(c, deps, ranges) ==
    [Emit(c, [op |-> "memory_maintenance", deps |-> deps, ranges |-> ranges])
       EXCEPT !.legal = @ /\ \A r \in ranges : MaintainLegal(r.levels)]

Stale(old, new) == old.writing /\ ~new.writing /\ new.levels # {} /\ Overlaps(old, new)

\* mutant: only the last root is looked at
DeviceMaintenanceLast(c, accesses) ==
    LET last == {p \in c.prev : \A q \in c.prev : q.tag <= p.tag}
        old(a) == {w \in UNION {p.acc : p \in last} : Stale(w, a)}
        seen == {a \in accesses : old(a) # {}}
    IN  IF seen = {}
          THEN c
          ELSE EmitMaintenance(c,
                 {p.tag : p \in last},
                 {MaintenanceRange(a, a.levels, \A w \in old(a) : w.precise) : a \in seen})

\* _device_maintenance: invalidate what earlier roots wrote before a cached
\* read of it; to the committed bytes alone when scatters wrote all of it.
DeviceMaintenance(c, accesses) ==
    LET old(a) == {w \in UNION {p.acc : p \in c.prev} : Stale(w, a)}
        seen == {a \in accesses : old(a) # {}}
    IN  IF seen = {}
          THEN c
          ELSE EmitMaintenance(c,
                 {p.tag : p \in {q \in c.prev : \E w \in q.acc, a \in seen : Stale(w, a)}},
                 {MaintenanceRange(a, a.levels, \A w \in old(a) : w.precise) : a \in seen})

\* _writeback_levels_for
WritebackLevels(bound) ==
    {l \in WriteBack :
        IF l = "l1" THEN bound.used \cap CacheModes["l1"] # {} ELSE bound.l2 \in CacheModes["l2"]}

\* _prewrite_clean
PrewriteClean(c, deps, accesses, levels) ==
    LET writes == {a \in accesses : a.writing}
    IN  IF writes = {} \/ levels = {}
          THEN c
          ELSE EmitMaintenance(c, deps, {MaintenanceRange(a, levels, FALSE) : a \in writes})

-----------------------------------------------------------------------------
(* One op of the source program.                                            *)

\* The roots that own the L1 alone end before another root uses it, and all
\* others before a root that changes the L1 profile.
ActiveInOrder(c, S) == SetToSortSeq({a.tag : a \in S}, <)

ExclusiveWaits(c, task, bound) ==
    LET owners == IF HasL1(task) THEN {a \in c.active : a.exclusive} ELSE {}
        users == IF bound.exclusive THEN {a \in c.active : a.l1} ELSE {}
    IN  WaitEvents(WaitEvents(c, ActiveInOrder(c, owners)), ActiveInOrder(c, users \ owners))

Submitted(c, e, deps, task, bound, accesses) ==
    [Emit(c, [op |-> "submit", tag |-> e, deps |-> deps, task |-> task, call |-> bound])
       EXCEPT !.cur = [l \in Levels |-> IF l = "l1" THEN bound.exit ELSE bound.l2],
              !.submitted = @ \cup {e},
              !.active = @ \cup {[tag |-> e, exclusive |-> bound.exclusive, l1 |-> HasL1(task)]},
              !.hist = [l \in Levels |->
                          IF l = "l2" \/ HasL1(task) THEN Append(@[l], e) ELSE @[l]],
              !.prev = @ \cup {[tag |-> e, acc |-> accesses]},
              !.legal = @ /\ bound.legal]

SubmitBound(c, o, bound, deps, accesses) ==
    Submitted(
      Reconfigure(
        Reconfigure(
          ExclusiveWaits(
            PrewriteClean(DeviceMaintenance(c, accesses), deps, accesses, WritebackLevels(bound)),
            o.task, bound),
          "l2", bound.l2),
        "l1", bound.entry),
      o.tag, deps, o.task, bound, accesses)

\* The profiles a Context is bound to: the current ones if it may.
BindFrom(task, cur) ==
    BindContext(task, FirstL1(task, cur["l1"]), IF cur["l2"] \in task.l2allowed THEN cur["l2"] ELSE task.l2)

PassSubmit(c, o) ==
    SubmitBound([c EXCEPT !.legal = @ /\ o.deps \subseteq c.submitted], o,
      BindFrom(o.task, c.cur),
      o.deps \cup HazardEvents(c, MappedAccesses(o.task)),
      MappedAccesses(o.task))

PassAwait(c, o) ==
    IF o.tag \in c.awaited
      THEN c
      ELSE Emit([c EXCEPT !.awaited = @ \cup {o.tag},
                          !.active = {a \in @ : a.tag # o.tag},
                          !.legal = @ /\ o.tag \in c.submitted], o)

\* The event of a host call counts as awaited from the start.
PassHostCall(c, o) ==
    Emit([c EXCEPT !.submitted = @ \cup {o.tag}, !.awaited = @ \cup {o.tag},
                   !.legal = @ /\ o.deps \subseteq c.submitted], o)

PassOp(c, o) ==
    CASE o.op = "await" -> PassAwait(c, o)
      [] o.op = "host_call" -> PassHostCall(c, o)
      [] o.op = "submit" -> PassSubmit(c, o)
      [] o.op = "return" -> Emit(c, o)

BindProfiles(source) == FoldLeft(PassOp, Fresh, source)

\* bind_profiles for a Context compiled on its own: the control that precedes it.
BindStandalone(task) ==
    LET bound == BindFrom(task, ResetModes)
        prefix == PrewriteClean(Reconfigure(Reconfigure(Fresh, "l2", bound.l2), "l1", bound.entry),
                                {}, MappedAccesses(task), WritebackLevels(bound))
    IN  [prefix |-> prefix.out, task |-> task, call |-> bound, legal |-> bound.legal /\ prefix.legal,
         exit |-> [l \in Levels |-> IF l = "l1" THEN bound.exit ELSE bound.l2]]
=============================================================================
