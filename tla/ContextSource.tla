--------------------------- MODULE ContextSource ---------------------------
(***************************************************************************)
(* workload_ir.py, the checks of a nest.context in the source program: the *)
(* life of its L2 buffers, and the dependencies its author has to write.   *)
(*                                                                         *)
(* A Context is [buffers, imports, body, actual]: its own buffers with     *)
(* their role and sharing, the readonly buffers it imports (each with the  *)
(* id of its bind), its ops, and the input each of its global formals is   *)
(* bound to.  An op has an id; its events are pairs of the id and a phase, *)
(* "done" or, of a dispatch, also "in" (input_released) and "out"          *)
(* (output_ready).  A dispatch reads the slots in ins, writes the spans in *)
(* outs and makes the global accesses in uses.                             *)
(***************************************************************************)
EXTENDS Naturals, FiniteSets, SequencesExt

CONSTANT SlotBytes   \* the size of an L2 buffer

ASSUME SlotBytesAssumption == SlotBytes \in Nat \ {0}

OutSlots(o) == {w.slot : w \in o.outs}

\* The events an op defines; a Tile Program signals the phases it has.
OpEvents(o) ==
    CASE o.op = "dispatch" -> {<<o.id, "done">>}
                              \cup (IF o.ins = {} THEN {} ELSE {<<o.id, "in">>})
                              \cup (IF o.outs = {} THEN {} ELSE {<<o.id, "out">>})
      [] o.op \in {"prefetch", "store", "publish"} -> {<<o.id, "done">>}
      [] OTHER -> {}

Uses(o) == o.ins \cup OutSlots(o) \cup (IF o.slot = "" THEN {} ELSE {o.slot})

-----------------------------------------------------------------------------
(* What happens to one slot.                                                *)

Of(task, kind, s) == {k \in DOMAIN task.body : task.body[k].op = kind /\ task.body[k].slot = s}
Readers(task, s) == {k \in DOMAIN task.body : s \in task.body[k].ins}
Writers(task, s) == {k \in DOMAIN task.body : s \in OutSlots(task.body[k])}
Phase(task, K, ph) == {<<task.body[k].id, ph>> : k \in K}

\* _covers_full_buffer over _dispatch_write_intervals.
CoversBuffer(task, s) ==
    \A b \in 0 .. SlotBytes - 1 :
        \E k \in Writers(task, s) : \E w \in task.body[k].outs : w.slot = s /\ w.lo <= b /\ b < w.hi

\* Exactly one release, which no use of the slot follows.
ReleasedOnce(task, s) ==
    /\ Cardinality(Of(task, "release", s)) = 1
    /\ \A r \in Of(task, "release", s), k \in DOMAIN task.body : k > r => s \notin Uses(task.body[k])

ReleaseDeps(task, s, events) ==
    \A r \in Of(task, "release", s) : task.body[r].deps = events

\* The role says whether a dispatch writes the slot; an output that nobody
\* else sees has to be stored.
RoleKept(task, s) ==
    /\ task.buffers[s].role = "in" <=> Writers(task, s) = {}
    /\ task.buffers[s].role # "in" /\ task.buffers[s].sharing = "private" => Of(task, "store", s) # {}

\* A store waits for the writers before it, the last store for all of them.
StoresOrdered(task, s) ==
    \A k \in Of(task, "store", s) : \A w \in Writers(task, s) :
        w < k \/ (\A m \in Of(task, "store", s) : m <= k) => <<task.body[w].id, "out">> \in task.body[k].deps

AccessEvents(task, s) ==
    Phase(task, Of(task, "prefetch", s) \cup Of(task, "store", s), "done")
    \cup Phase(task, Readers(task, s), "in")

\* A readonly buffer is published once, after all accesses, completely written,
\* and then left alone.
PublishedOnce(task, s) ==
    IF task.buffers[s].sharing # "readonly"
      THEN Of(task, "publish", s) = {}
      ELSE /\ Cardinality(Of(task, "publish", s)) = 1
           /\ Of(task, "prefetch", s) # {} \/ CoversBuffer(task, s)
           /\ \A p \in Of(task, "publish", s) :
                 /\ task.body[p].deps = AccessEvents(task, s) \cup Phase(task, Writers(task, s), "out")
                 /\ \A k \in DOMAIN task.body :
                       k > p /\ task.body[k].op # "release" => s \notin Uses(task.body[k])

LocalAccepted(task, s) ==
    /\ ReleasedOnce(task, s) /\ RoleKept(task, s) /\ StoresOrdered(task, s) /\ PublishedOnce(task, s)
    /\ ReleaseDeps(task, s,
         AccessEvents(task, s) \cup Phase(task, Of(task, "publish", s), "done")
         \cup (IF task.buffers[s].sharing = "context-local"
                 THEN Phase(task, Writers(task, s), "out") ELSE {}))

ImportAccepted(task, s) ==
    /\ ReleasedOnce(task, s)
    /\ Of(task, "prefetch", s) = {} /\ Of(task, "publish", s) = {} /\ Writers(task, s) = {}
    /\ ReleaseDeps(task, s, AccessEvents(task, s))

ImportSlots(task) == {i.slot : i \in ToSet(task.imports)}

\* _verify_release_graph
ReleaseGraph(task) ==
    /\ \A s \in DOMAIN task.buffers : LocalAccepted(task, s)
    /\ \A s \in ImportSlots(task) : ImportAccepted(task, s)

\* _verify_context: an op depends on events that are defined before it, and
\* asks for an L1 profile its program allows.
ContextAccepted(task) ==
    /\ \A k \in DOMAIN task.body :
          /\ task.body[k].deps \subseteq UNION {OpEvents(task.body[m]) : m \in 1 .. k - 1}
          /\ task.body[k].op = "dispatch" => task.body[k].want \in task.body[k].allowed
    /\ ReleaseGraph(task)
=============================================================================
