---------------------------- MODULE DeviceSource ----------------------------
(***************************************************************************)
(* workload_ir.py, _verify_nexus_program: what the source verifier demands *)
(* of a device program before it is compiled.  Overlapping accesses of two *)
(* submissions, and changes of a page scope against its uses, have to be   *)
(* ordered by dependencies or by a preceding await.  Programs are those of *)
(* ProfilePass, without the shared buffers of an earlier Context.          *)
(***************************************************************************)
EXTENDS GlobalAccess

Produces(o) == o.op \in {"submit", "host_call"}

\* _verify_host_call
HostCallAccepted(o) ==
    /\ \A a \in o.acc : a.input \in DOMAIN Declared /\ a.hi <= Declared[a.input]
    /\ \A a, b \in o.acc : a # b /\ a.input = b.input => a.hi <= b.lo \/ b.hi <= a.lo

\* Names are defined once and before they are used.
EventsDefined(body) ==
    \A k \in DOMAIN body :
        LET defined == {body[j].tag : j \in {i \in 1 .. k - 1 : Produces(body[i])}}
        IN  /\ Produces(body[k]) => body[k].tag \notin defined /\ body[k].deps \subseteq defined
            /\ body[k].op = "await" => body[k].tag \in defined

\* The walk both hazard checks make: the events that have ended when an op
\* starts, after an await and by the dependencies of the op.
Closure(w, events) == events \cup UNION {w.ancestors[e] : e \in events \cap DOMAIN w.ancestors}

WalkOp(w, o) ==
    CASE o.op = "await" -> [w EXCEPT !.awaited = @ \cup Closure(w, {o.tag})]
      [] Produces(o) ->
           [w EXCEPT !.ancestors = (o.tag :> (w.awaited \cup Closure(w, o.deps))) @@ @]
      [] OTHER -> w

OrderedBefore(body) ==
    FoldLeft(WalkOp, [ancestors |-> [e \in {} |-> {}], awaited |-> {}], body).ancestors

\* _context_global_accesses, _context_scopes
ContextUses(o) == UNION {o.task.acts[k].uses : k \in DOMAIN o.task.acts}
ContextAccesses(o) ==
    {[input |-> u.input, lo |-> u.lo, hi |-> u.hi, writing |-> Writes(u.kind), scope |-> u.scope] :
        u \in ContextUses(o)}
ContextScopes(o) == {u.scope : u \in {x \in ContextUses(o) : x.kind \in {"gather", "scatter"}}} \ {NoScope}

\* _verify_device_memory_dependencies: one of two submissions, j before k.
MemoryOrdered(body, before, j, k) ==
    body[j].op = "submit" /\ body[k].op = "submit" /\ body[j].tag \notin before[body[k].tag] =>
        \A old \in ContextAccesses(body[j]), new \in ContextAccesses(body[k]) :
            Overlaps(old, new) => ~old.writing /\ ~new.writing

\* _verify_scope_dependencies: a host call changes its scopes, a submission
\* uses those of its Context; two uses need no order.
ScopesOf(o) == IF o.op = "submit" THEN ContextScopes(o) ELSE o.scopes

ScopeOrdered(body, before, j, k) ==
    (body[j].op = "host_call" \/ body[k].op = "host_call") /\ body[j].tag \notin before[body[k].tag] =>
        ScopesOf(body[j]) \cap ScopesOf(body[k]) = {}

PairsOrdered(body, before) ==
    \A k \in DOMAIN body : \A j \in 1 .. k - 1 :
        Produces(body[j]) /\ Produces(body[k]) =>
            MemoryOrdered(body, before, j, k) /\ ScopeOrdered(body, before, j, k)

\* _verify_nexus_program
ProgramAccepted(body) ==
    /\ body # <<>> /\ body[Len(body)].op = "return"
    /\ EventsDefined(body)
    /\ \A k \in DOMAIN body : body[k].op = "host_call" => HostCallAccepted(body[k])
    /\ PairsOrdered(body, OrderedBefore(body))
=============================================================================
