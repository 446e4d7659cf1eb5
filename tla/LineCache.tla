------------------------------- MODULE LineCache -------------------------------
(***************************************************************************)
(* The two tables a Gather shares with every other Gather: a deterministic *)
(* LRU cache of lines, and the table of outstanding refills (MSHR).  A     *)
(* cache is the sequence of its resident lines, least recently used first; *)
(* its lines are clean (dirty lines come from seeds only).  A refill       *)
(* entry is named by its token and keeps its waiters in arrival order.     *)
(***************************************************************************)
EXTENDS Integers, SequencesExt

EmptyCache == <<>>

Without(cache, line) == SelectSeq(cache, LAMBDA x : x.line # line)
Resident(cache, line) == \E k \in DOMAIN cache : cache[k].line = line
DataOf(cache, line) == (CHOOSE x \in ToSet(cache) : x.line = line).data

\* record_hit and read_line move the line to the recently used end.
Touch(cache, line) == Append(Without(cache, line), [line |-> line, data |-> DataOf(cache, line)])

\* _evict_one: the least recently used line goes.
Evict(cache) == Tail(cache)

\* refill(): replace a resident line in place, else evict until there is room.
Refill(cache, lines, line, data) ==
    LET others == Without(cache, line)
        kept == IF Len(others) >= lines THEN Evict(others) ELSE others
    IN Append(IF Resident(cache, line) THEN others ELSE kept, [line |-> line, data |-> data])

\* begin_maintenance(invalidate=True) on the lines that meet the byte ranges.
Invalidate(cache, lineBytes, ranges) ==
    SelectSeq(cache, LAMBDA x :
        (x.line * lineBytes .. (x.line + 1) * lineBytes - 1) \cap ranges = {})

-----------------------------------------------------------------------------
EmptyMshr == [entry |-> <<>>, next |-> 1, version |-> 0]

Active(mshr, token) == token \in DOMAIN mshr.entry
Holders(mshr, line) == {t \in DOMAIN mshr.entry : mshr.entry[t].line = line}

\* allocate() of a line nobody refills: the caller leads a new entry.
Lead(mshr, line) ==
    [mshr EXCEPT !.entry = (mshr.next :> [line |-> line, waiters |-> <<>>]) @@ @,
                 !.next = @ + 1]

\* allocate() of a line being refilled, then wait() with the caller's callback.
Follow(mshr, token, callback) == [mshr EXCEPT !.entry[token].waiters = Append(@, callback)]

\* Mutant: the requests waiting for room are not told.
VacateSilently(mshr, token) ==
    [mshr EXCEPT !.entry = [t \in DOMAIN @ \ {token} |-> @[t]]]
\* complete() and cancel() drop the entry and wake the requests waiting for room.
Vacate(mshr, token) ==
    [mshr EXCEPT !.entry = [t \in DOMAIN @ \ {token} |-> @[t]], !.version = @ + 1]
=============================================================================
