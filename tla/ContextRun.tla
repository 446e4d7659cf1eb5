----------------------------- MODULE ContextRun -----------------------------
(***************************************************************************)
(* One Context from its source to its end.  The source is checked, the     *)
(* compiler completes it, the loader verifies what it is given, and the    *)
(* Group executes the accepted actions in any order their dependencies and *)
(* the fences allow.  The author of a Context writes a sequential program; *)
(* the question is whether that freedom can ever be seen.                  *)
(*                                                                         *)
(* An action takes effect in one step, a dispatch in up to five: the reads *)
(* of its L2 buffers (then input_released fires), the writes (then         *)
(* output_ready), its gathers, its scatters, and its end.  Since an event  *)
(* only ever enables others, firing it with the step is the worst case.    *)
(* Memory holds, for every byte, the id of the op that wrote it last, or   *)
(* 0; a cache holds whole lines.                                           *)
(***************************************************************************)
EXTENDS TaskVerifier

CONSTANTS
    Contexts,    \* the source Contexts
    ResetL1,     \* the L1 profile the Context finds
    InputBytes,  \* the size of every global input
    InputNames,
    LineBytes    \* the size of a cache line

VARIABLES
    job,     \* [task, body, call, given]
    status,  \* "new", "refused", "run", "done"
    made,    \* the steps taken, pairs <<k, part>>
    l2,      \* [slot -> [byte -> id]]
    hbm,     \* [input -> [byte -> id]]
    cache,   \* [level -> the lines it holds]
    l1       \* the L1 profile in force

vars == <<job, status, made, l2, hbm, cache, l1>>

\* What a compiler with a fault in it, or a damaged file, could hand the loader:
\* an edge or a generated action is missing.
Damaged(body) ==
    {RemoveAt(body, k) : k \in {j \in DOMAIN body : body[j].op \in Fences}}
    \cup UNION {{[body EXCEPT ![k].deps = @ \ {d}] : d \in body[k].deps} : k \in DOMAIN body}

Slots(task) == DOMAIN task.buffers \cup ImportSlots(task)
Empty == [x \in {} |-> 0]

Job(task, c, body, given) == [task |-> task, body |-> body, call |-> c.call, given |-> given]

\* The loader gets what the compiler made of an accepted source; and, to see
\* that it relies on neither, what the compiler makes of a source that was not
\* checked, and damaged bodies.
Jobs(task, c) ==
    IF ~c.legal
      THEN {Job(task, c, c.body, "error")}
      ELSE IF ~ContextAccepted(task)
      THEN {Job(task, c, c.body, "unchecked")}
      ELSE {Job(task, c, c.body, "compiled")} \cup {Job(task, c, b, "damaged") : b \in Damaged(c.body)}

Init ==
    /\ \E task \in Contexts : job \in Jobs(task, CompileContext(task, ResetL1))
    /\ status = "new"
    /\ made = {}
    /\ l2 = [s \in Slots(job.task) |-> [b \in 0 .. SlotBytes - 1 |-> 0]]
    /\ hbm = [n \in InputNames |-> [b \in 0 .. InputBytes - 1 |-> 0]]
    /\ cache = [l \in Levels |-> Empty]
    /\ l1 = job.call.entry

Accepted == job.given # "error" /\ TaskFailures(job.task, job.body, job.call) = {}

Load ==
    /\ status = "new"
    /\ status' = IF Accepted THEN "run" ELSE "refused"
    /\ UNCHANGED <<job, made, l2, hbm, cache, l1>>

-----------------------------------------------------------------------------
(* Which step may be taken.                                                 *)

Parts(a) ==
    IF a.op # "dispatch"
      THEN {"end"}
      ELSE (IF a.reads = {} THEN {} ELSE {"read"}) \cup (IF a.outs = {} THEN {} ELSE {"write"})
           \cup {u.kind : u \in a.uses} \cup {"end"}

\* The step that fires an event.
PartOf(ev) == CASE ev[2] = "in" -> "read" [] ev[2] = "out" -> "write" [] OTHER -> "end"

Fired(ev) == \E k \in DOMAIN job.body :
                 job.body[k].id = ev[1] /\ ev \in Outputs(job.body[k]) /\ <<k, PartOf(ev)>> \in made

\* Registration stops at a fence, an action issues when its dependencies have
\* fired, and a barrier when nothing before it is queued or in flight.
Issued(k) ==
    /\ \A e \in job.body[k].deps : Fired(e)
    /\ \A f \in 1 .. k - 1 : job.body[f].op \in Fences => <<f, "end">> \in made
    /\ job.body[k].op = "barrier" => \A j \in 1 .. k - 1 : <<j, "end">> \in made

\* A Tile computes its output from its input, and a Grid ends last.
Enabled(k, part) ==
    /\ status = "run" /\ part \in Parts(job.body[k]) /\ <<k, part>> \notin made
    /\ part = "write" /\ "read" \in Parts(job.body[k]) => <<k, "read">> \in made
    /\ part = "end" => \A p \in Parts(job.body[k]) \ {"end"} : <<k, p>> \in made
    /\ Issued(k)

-----------------------------------------------------------------------------
(* What a step does.                                                        *)

SlotAfter(k, outs) ==
    [s \in DOMAIN l2 |-> [b \in DOMAIN l2[s] |->
        IF \E w \in outs : w.slot = s /\ w.lo <= b /\ b < w.hi THEN job.body[k].id ELSE l2[s][b]]]

UsesOf(k, kind) == {u \in job.body[k].uses : u.kind = kind}

\* The input a use or a range of the Context means.
InputOf(x) == job.task.actual[x.input]

HbmAfter(k, kind) ==
    [n \in DOMAIN hbm |-> [b \in DOMAIN hbm[n] |->
        IF \E u \in UsesOf(k, kind) : InputOf(u) = n /\ u.lo <= b /\ b < u.hi
          THEN job.body[k].id ELSE hbm[n][b]]]

Caching(l) == (IF l = "l1" THEN l1 ELSE job.task.l2) \in CacheModes[l]
Holds(l, x) == Caching(l) /\ x \in DOMAIN cache[l]
LineOf(n, b) == [input |-> n, line |-> b \div LineBytes]

\* The nearest cache that has the line answers a gather.
Looked(n, b) ==
    LET x == LineOf(n, b)
    IN  IF Holds("l1", x) THEN cache["l1"][x][b % LineBytes]
        ELSE IF Holds("l2", x) THEN cache["l2"][x][b % LineBytes]
        ELSE hbm[n][b]

Line(x) == [i \in 0 .. LineBytes - 1 |->
               IF x.line * LineBytes + i < InputBytes THEN Looked(x.input, x.line * LineBytes + i) ELSE 0]

Filled(k) ==
    LET lines == {LineOf(InputOf(u), b) : u \in UsesOf(k, "gather"), b \in 0 .. InputBytes - 1}
        asked == {x \in lines : \E u \in UsesOf(k, "gather") :
                     InputOf(u) = x.input /\ \E b \in u.lo .. u.hi - 1 : b \div LineBytes = x.line}
    IN  [l \in Levels |-> IF Caching(l) THEN [x \in asked |-> Line(x)] @@ cache[l] ELSE cache[l]]

\* A maintenance command drops every line that a range of it touches.
Maintained(k) ==
    [l \in Levels |->
        LET gone == {x \in DOMAIN cache[l] : \E r \in job.body[k].ranges :
                        /\ l \in r.levels /\ InputOf(r) = x.input
                        /\ \E b \in r.lo .. r.hi - 1 : b \div LineBytes = x.line}
        IN  [x \in DOMAIN cache[l] \ gone |-> cache[l][x]]]

Take(k, part) == Enabled(k, part) /\ made' = made \cup {<<k, part>>}
Is(k, kinds) == job.body[k].op \in kinds

\* BIND_L2_VIEW, BIND_L2_IMPORT, PUBLISH_L2, RELEASE_L2, WAIT_EVENT,
\* BARRIER_GROUP, and the end of a Grid: no byte moves.
Mark(k) ==
    /\ Take(k, "end") /\ Is(k, {"bind", "import", "publish", "release", "wait", "barrier", "dispatch"})
    /\ UNCHANGED <<job, status, l2, hbm, cache, l1>>

Prefetch(k) ==
    /\ Take(k, "end") /\ Is(k, {"prefetch"})
    /\ l2' = SlotAfter(k, job.body[k].outs)
    /\ UNCHANGED <<job, status, hbm, cache, l1>>

StoreBack(k) ==
    /\ Take(k, "end") /\ Is(k, {"store"})
    /\ hbm' = HbmAfter(k, "store")
    /\ UNCHANGED <<job, status, l2, cache, l1>>

GridRead(k) ==
    /\ Take(k, "read")
    /\ UNCHANGED <<job, status, l2, hbm, cache, l1>>

GridWrite(k) ==
    /\ Take(k, "write")
    /\ l2' = SlotAfter(k, job.body[k].outs)
    /\ UNCHANGED <<job, status, hbm, cache, l1>>

GridGather(k) ==
    /\ Take(k, "gather")
    /\ cache' = Filled(k)
    /\ UNCHANGED <<job, status, l2, hbm, l1>>

GridScatter(k) ==
    /\ Take(k, "scatter")
    /\ hbm' = HbmAfter(k, "scatter")
    /\ UNCHANGED <<job, status, l2, cache, l1>>

Maintain(k) ==
    /\ Take(k, "end") /\ Is(k, {"maintain"})
    /\ cache' = Maintained(k)
    /\ UNCHANGED <<job, status, l2, hbm, l1>>

\* A new profile starts with an empty cache.
ChangeL1(k) ==
    /\ Take(k, "end") /\ Is(k, {"reconfig"})
    /\ l1' = job.body[k].mode
    /\ cache' = [cache EXCEPT !["l1"] = Empty]
    /\ UNCHANGED <<job, status, l2, hbm>>

Signal(k) ==
    /\ Take(k, "end") /\ Is(k, {"signal"})
    /\ status' = "done"
    /\ UNCHANGED <<job, l2, hbm, cache, l1>>

Ended == status \in {"refused", "done"} /\ UNCHANGED vars

Next ==
    \/ Load
    \/ \E k \in DOMAIN job.body :
          \/ Mark(k) \/ Prefetch(k) \/ StoreBack(k) \/ GridRead(k) \/ GridWrite(k)
          \/ GridGather(k) \/ GridScatter(k) \/ Maintain(k) \/ ChangeL1(k) \/ Signal(k)
    \/ Ended

Spec == Init /\ [][Next]_vars

-----------------------------------------------------------------------------
(* The sequential program.                                                  *)

LastOf(K) == IF K = {} THEN 0 ELSE job.body[CHOOSE k \in K : \A m \in K : m <= k].id

\* The id of the last op before action k that writes a byte of a slot, or of an
\* input.
SlotBefore(k, s, b) ==
    LastOf({m \in 1 .. k - 1 : \E w \in job.body[m].outs : w.slot = s /\ w.lo <= b /\ b < w.hi})
HbmBefore(k, n, b) ==
    LastOf({m \in 1 .. k - 1 : \E u \in job.body[m].uses :
               Writes(u.kind) /\ InputOf(u) = n /\ u.lo <= b /\ b < u.hi})

ReadsSlots(k, part) == IF part = "read" \/ Is(k, {"store"}) THEN job.body[k].reads ELSE {}
WritesSlots(k, part) ==
    IF part = "write" \/ Is(k, {"prefetch"}) THEN {w.slot : w \in job.body[k].outs} ELSE {}
Steps == {<<k, p>> \in (DOMAIN job.body) \X {"read", "write", "gather", "scatter", "end"} : Enabled(k, p)}

\* Whatever the order of execution, every read of an L2 buffer, every DMA load
\* and every gather sees the bytes the sequential program would see; the Context
\* signals its end when nothing of it is left to do, and leaves the memory the
\* sequential program would leave
\* (normalize_action_dependencies, _verify_action_hazards,
\* _verify_global_hazards, insert_task_maintenance).
AsIfSequential ==
    /\ \A t \in Steps :
          /\ \A s \in ReadsSlots(t[1], t[2]) : \A b \in DOMAIN l2[s] : l2[s][b] = SlotBefore(t[1], s, b)
          /\ \A u \in job.body[t[1]].uses : \A b \in u.lo .. u.hi - 1 :
                /\ t[2] = "end" /\ u.kind = "load" =>
                      hbm[InputOf(u)][b] = HbmBefore(t[1], InputOf(u), b)
                /\ t[2] = "gather" /\ u.kind = "gather" =>
                      Looked(InputOf(u), b) = HbmBefore(t[1], InputOf(u), b)
    /\ status = "done" =>
          /\ \A k \in DOMAIN job.body : \A p \in Parts(job.body[k]) : <<k, p>> \in made
          /\ \A n \in InputNames : \A b \in DOMAIN hbm[n] : hbm[n][b] = HbmBefore(Len(job.body) + 1, n, b)

\* An L2 view is touched only between its bind and its release (_verify_task).
ViewsAlive ==
    \A t \in Steps : \A s \in ReadsSlots(t[1], t[2]) \cup WritesSlots(t[1], t[2]) :
        /\ \E k \in DOMAIN job.body : Is(k, {"bind", "import"}) /\ job.body[k].slot = s /\ <<k, "end">> \in made
        /\ ~\E k \in DOMAIN job.body : Is(k, {"release"}) /\ job.body[k].slot = s /\ <<k, "end">> \in made

\* A published buffer is completely written and final: nothing writes it any
\* more (PUBLISH_L2 in _verify_task).
PublishedIsFinal ==
    /\ \A t \in Steps : Is(t[1], {"publish"}) =>
          \A b \in 0 .. SlotBytes - 1 : l2[job.body[t[1]].slot][b] # 0
    /\ \A t \in Steps : \A s \in WritesSlots(t[1], t[2]) :
          ~\E k \in DOMAIN job.body : Is(k, {"publish"}) /\ job.body[k].slot = s /\ <<k, "end">> \in made

\* A gather reads through one formal what the Context wrote through another.
ReadThroughAlias(task) ==
    \E k, m \in DOMAIN task.body : k < m /\
        \E w \in task.body[k].uses, u \in task.body[m].uses :
            /\ Writes(w.kind) /\ u.kind = "gather" /\ w.input # u.input
            /\ SameBytes(task, w, u)

\* What the compiler makes of an accepted source passes every check of the
\* loader: compiler and loader analyse the task independently of each other.
\* They disagree in one case: insert_task_maintenance compares formals, so it
\* emits no invalidation for a gather through another formal than the write's,
\* and the loader, which compares inputs, misses it.
CompiledTaskIsValid ==
    status = "new" /\ job.given = "compiled" =>
        TaskFailures(job.task, job.body, job.call)
            \subseteq (IF ReadThroughAlias(job.task) THEN {"global"} ELSE {})

\* An L2 buffer is used only while it may be used.
LifetimesKept == ViewsAlive /\ PublishedIsFinal
=============================================================================
