--------------------------- MODULE EventTableOps ---------------------------
(***************************************************************************)
(* The data of the bounded event table (runtime/event_table.py) and what   *)
(* each method of EventTable does to it, as operators on table values.     *)
(* EventTable.tla turns them into a state machine of the table alone;      *)
(* GroupScheduler.tla chains several of them in one scheduler step.        *)
(*                                                                         *)
(* A launch is the code's pair (owner, generation); NoLaunch is ("", 0).   *)
(* A table is a pair of functions: e, from event names to entries (status  *)
(* "ABSENT" stands for a name without a slot), and q, from launches to     *)
(* quotas (open = FALSE stands for a missing key of _quotas).  Ids, time   *)
(* stamps, error codes and the PMU counters are left out.                  *)
(***************************************************************************)
EXTENDS Integers, FiniteSets

CONSTANTS
    Names,       \* event names
    Launches,    \* (owner, generation) pairs of managed launches
    NoLaunch,    \* the identity ("", 0) of the compatibility interface
    Capacity,    \* capacity of the table
    EventUses    \* per launch: the compiler's map from event name to use count

ASSUME TableAssumption ==
    /\ IsFiniteSet(Names)
    /\ IsFiniteSet(Launches)
    /\ NoLaunch \notin Launches
    /\ Capacity \in Nat \ {0}

\* event_uses of a launch: a map from the names it may produce to use counts.
ASSUME UsesAssumption ==
    /\ DOMAIN EventUses = Launches
    /\ \A l \in Launches :
          /\ DOMAIN EventUses[l] \subseteq Names
          /\ \A n \in DOMAIN EventUses[l] : EventUses[l][n] \in Nat

Terminal == {"DONE", "ERROR", "TIMEOUT", "RESET"}
EventStatus == {"ABSENT", "PENDING"} \cup Terminal

EventEntry ==
    [status : EventStatus, launch : Launches \cup {NoLaunch}, bound : BOOLEAN,
     producer : Nat, refs : Nat, uses : Nat, managed : BOOLEAN,
     seq : Nat, expected : Nat]

Quota == [open : BOOLEAN, limit : Nat, produced : SUBSET Names]

\* What a new EventEntry holds.
FreshEntry(l, m) ==
    [status |-> "PENDING", launch |-> l, bound |-> FALSE, producer |-> 0,
     refs |-> 0, uses |-> 0, managed |-> m, seq |-> 0, expected |-> 0]

NoEntry == [FreshEntry(NoLaunch, FALSE) EXCEPT !.status = "ABSENT"]
NoQuota == [open |-> FALSE, limit |-> 0, produced |-> {}]
EmptyEntries == [n \in Names |-> NoEntry]
EmptyQuotas == [l \in Launches |-> NoQuota]

Live(e) == {n \in Names : e[n].status # "ABSENT"}
OwnedBy(e, l) == {n \in Live(e) : e[n].launch = l}
ManagedOf(e, l) == {n \in OwnedBy(e, l) : e[n].managed}
Unmanaged(e) == {n \in Live(e) : ~e[n].managed}
Opened(q) == {l \in Launches : q[l].open}

\* The slots the open quotas claim: launch l claims q[l].limit of them.
Claims(q) == UNION {{l} \X (1 .. q[l].limit) : l \in Opened(q)}
Reserved(e, q) == Cardinality(Claims(q)) + Cardinality(Unmanaged(e))

-----------------------------------------------------------------------------
(* Quotas and compatibility entries.                                       *)

\* _allocate(managed=False) for a set of names that fits.
AllocateUnmanaged(e, S, l) ==
    [n \in Names |-> IF n \in S THEN FreshEntry(l, FALSE) ELSE e[n]]

CanReserveQuota(e, q, l, limit) ==
    /\ ~q[l].open
    /\ OwnedBy(e, l) = {}
    /\ Reserved(e, q) + limit <= Capacity

OpenQuota(q, l, limit) ==
    [q EXCEPT ![l] = [open |-> TRUE, limit |-> limit, produced |-> {}]]

CanCancelQuota(e, q, l) ==
    /\ q[l].open
    /\ q[l].produced = {}
    /\ ManagedOf(e, l) = {}

CloseQuota(q, l) == [q EXCEPT ![l] = NoQuota]

-----------------------------------------------------------------------------
(* Registration of one action of a launch.                                 *)

\* mutant: checks the frontier against the live events only, not the new ones
OutputsOKLate(e, q, l, S) ==
    /\ q[l].open
    /\ S \cap q[l].produced = {}
    /\ S \subseteq DOMAIN EventUses[l]
    /\ S \cap Live(e) = {}
    /\ Cardinality(ManagedOf(e, l)) <= q[l].limit

\* _preflight_outputs
OutputsOK(e, q, l, S) ==
    /\ q[l].open
    /\ S \cap q[l].produced = {}
    /\ S \subseteq DOMAIN EventUses[l]
    /\ S \cap Live(e) = {}
    /\ Cardinality(ManagedOf(e, l)) + Cardinality(S) <= q[l].limit

\* add_consumer's checks, which preflight_action makes as well.
ConsumerOK(e, l, n) ==
    /\ n \in OwnedBy(e, l)
    /\ e[n].bound
    /\ e[n].managed => e[n].refs < e[n].uses

\* preflight_action
PreflightAction(e, q, l, outs, deps) ==
    /\ OutputsOK(e, q, l, outs)
    /\ \A n \in deps : ConsumerOK(e, l, n) /\ e[n].managed

\* reserve_outputs: _allocate(managed=True), future_uses, produced
ReserveOutputsE(e, l, S) ==
    [n \in Names |-> IF n \in S
                     THEN [FreshEntry(l, TRUE) EXCEPT !.uses = EventUses[l][n]]
                     ELSE e[n]]
ReserveOutputsQ(q, l, S) == [q EXCEPT ![l].produced = @ \cup S]

BindOK(e, l, n, p) ==
    /\ n \in OwnedBy(e, l)
    /\ e[n].status = "PENDING"
    /\ e[n].bound => e[n].producer = p

BindE(e, S, p) ==
    [n \in Names |-> IF n \in S THEN [e[n] EXCEPT !.bound = TRUE, !.producer = p]
                                ELSE e[n]]

AddConsumersE(e, S) ==
    [n \in Names |-> IF n \in S THEN [e[n] EXCEPT !.refs = @ + 1] ELSE e[n]]

-----------------------------------------------------------------------------
(* Consumption, cancellation and signalling.                               *)

\* mutant: never reclaims after the last reference
ReclaimedNever(x) == x

\* _maybe_reclaim: what is left of an entry after the last reference went.
Reclaimed(x) ==
    IF x.managed /\ x.status # "PENDING" /\ x.refs = 0 /\ x.uses = 0
    THEN NoEntry ELSE x

DropUse(x) == Reclaimed([x EXCEPT !.refs = @ - 1, !.uses = @ - 1])

\* consume_dependencies: every dependency must be DONE and pinned ...
ConsumeOK(e, q, l, S) ==
    /\ q[l].open
    /\ \A n \in S : /\ n \in ManagedOf(e, l)
                    /\ e[n].bound
                    /\ e[n].status = "DONE"
                    /\ e[n].refs > 0
                    /\ e[n].uses > 0

\* ... while cancel_dependencies takes any pinned dependency.
CancelDepsOK(e, q, l, S) ==
    /\ q[l].open
    /\ \A n \in S : n \in ManagedOf(e, l) /\ e[n].refs > 0 /\ e[n].uses > 0

DropUsesE(e, S) == [n \in Names |-> IF n \in S THEN DropUse(e[n]) ELSE e[n]]

AbandonOK(e, q, l) ==
    /\ q[l].open
    /\ \A n \in ManagedOf(e, l) : e[n].refs = 0

AbandonE(e, l) ==
    [n \in Names |-> IF n \in ManagedOf(e, l)
                     THEN Reclaimed([e[n] EXCEPT !.uses = 0]) ELSE e[n]]

CancelOutputsOK(e, l, S, p) ==
    \A n \in S : n \in ManagedOf(e, l) /\ e[n].bound /\ e[n].producer = p

CancelOutput(x) ==
    Reclaimed([x EXCEPT !.status = IF @ = "PENDING" THEN "RESET" ELSE @])

CancelOutputsE(e, S) ==
    [n \in Names |-> IF n \in S THEN CancelOutput(e[n]) ELSE e[n]]

\* mutant: a second completion overwrites the first
SignalOKRepeated(x, p, s) ==
    /\ x.seq = s
    /\ x.bound => p = x.producer

\* The checks of signal() on a live entry; s is the sequence to compare with.
SignalOK(x, p, s) ==
    /\ x.seq = s
    /\ x.bound => p = x.producer
    /\ x.status = "PENDING"

SignalEntry(x, st, p) == Reclaimed([x EXCEPT !.status = st, !.producer = p])

\* release_owner's checks when the launch has a quota.
ReleaseOK(e, l) ==
    \A n \in OwnedBy(e, l) :
        e[n].status # "PENDING" /\ e[n].refs = 0 /\ e[n].uses = 0

DropEntries(e, S) == [n \in Names |-> IF n \in S THEN NoEntry ELSE e[n]]

\* reset(): pending entries become RESET and are not reclaimed.
ResetE(e) ==
    [n \in Names |-> IF e[n].status = "PENDING" THEN [e[n] EXCEPT !.status = "RESET"]
                                                ELSE e[n]]
=============================================================================
