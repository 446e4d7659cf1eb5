---------------------------- MODULE StreamQueue ----------------------------
(***************************************************************************)
(* A stream queue between Tiles (stream_queue.py) together with the way    *)
(* the Tile controller drives it (tile.py: STREAM_ACQUIRE, STREAM_PUSH,    *)
(* STREAM_PUSH_EOS, STREAM_POP, STREAM_RELEASE).  The queue keeps four     *)
(* counts that must always add up to its depth; the tokens themselves are  *)
(* in the hands of the Tiles between two calls, so the counts and the      *)
(* tokens can disagree.                                                    *)
(*                                                                         *)
(* reset() is called by the Group reset FSM.  Isolated says whether the    *)
(* Contexts that hold leases and tokens have been torn down by then (what  *)
(* the reset FSM does before CLEAR_CREDIT_CACHE) or go on using them.      *)
(* Payloads, time stamps and the stall counters are left out.              *)
(***************************************************************************)
EXTENDS Integers, Sequences, FiniteSets

CONSTANTS
    Producers,      \* producing Tiles
    Depth,          \* depth of the queue
    MaxTokens,      \* bound on the valid tokens a producer pushes per generation
    MaxResets,      \* bound on resets
    Isolated        \* callers forget their leases and tokens before a reset

ASSUME StreamAssumption ==
    /\ IsFiniteSet(Producers) /\ Producers # {}
    /\ Depth \in Nat \ {0}
    /\ MaxTokens \in Nat /\ MaxResets \in Nat
    /\ Isolated \in BOOLEAN

VARIABLES
    fifo,         \* _fifo
    available,    \* _credit_available
    leased,       \* _credit_leased
    unreleased,   \* _popped_unreleased
    eos,          \* _producer_eos_bitmap
    nextSeq,      \* _producer_seq
    faulted,      \* _faulted
    generation,   \* _generation
    inHand,       \* producer side: <<producer, register>> of a token acquired, not pushed (ctx.tokens)
    popped        \* consumer side: popped tokens not yet released (ctx.tokens)

queueVars == <<fifo, available, leased, unreleased, eos, nextSeq, faulted, generation>>
vars == <<queueVars, inHand, popped>>

\* A StreamToken; VALID and EOS are exclusive flags, and push() stamps only
\* valid tokens with the generation and the sequence.
Token == [producer : Producers, eos : BOOLEAN, seq : Nat, gen : Nat]
IsValid(t) == ~t.eos

Init ==
    /\ fifo = <<>>
    /\ available = Depth
    /\ leased = 0
    /\ unreleased = 0
    /\ eos = {}
    /\ nextSeq = [p \in Producers |-> 0]
    /\ faulted = FALSE
    /\ generation = 0
    /\ inHand = {}
    /\ popped = {}

\* A program never holds more leases than the queue has credits, so Depth
\* registers are enough for the tokens of one producer.
Registers == 1 .. Depth
LeasesOf(p) == {l \in inHand : l[1] = p}

Acquire(p, r) ==
    /\ p \notin eos
    /\ <<p, r>> \notin inHand
    /\ nextSeq[p] + Cardinality(LeasesOf(p)) < MaxTokens
    /\ available > 0 /\ ~faulted
    /\ available' = available - 1
    /\ leased' = leased + 1
    /\ inHand' = inHand \cup {<<p, r>>}
    /\ UNCHANGED <<fifo, unreleased, eos, nextSeq, faulted, generation, popped>>

PushUncounted(p, r) ==   \* mutant: the lease is not given up
    /\ <<p, r>> \in inHand
    /\ fifo' = Append(fifo, [producer |-> p, eos |-> FALSE,
                             seq |-> nextSeq[p], gen |-> generation])
    /\ nextSeq' = [nextSeq EXCEPT ![p] = @ + 1]
    /\ inHand' = inHand \ {<<p, r>>}
    /\ UNCHANGED <<available, leased, unreleased, eos, faulted, generation, popped>>

Push(p, r) ==
    /\ <<p, r>> \in inHand
    /\ fifo' = Append(fifo, [producer |-> p, eos |-> FALSE,
                             seq |-> nextSeq[p], gen |-> generation])
    /\ nextSeq' = [nextSeq EXCEPT ![p] = @ + 1]
    /\ leased' = IF leased > 0 THEN leased - 1 ELSE leased
    /\ inHand' = inHand \ {<<p, r>>}
    /\ UNCHANGED <<available, unreleased, eos, faulted, generation, popped>>

\* push() of an error token only latches the fault.
PushError(p) ==
    /\ p \notin eos
    /\ faulted' = TRUE
    /\ UNCHANGED <<fifo, available, leased, unreleased, eos, nextSeq, generation, inHand, popped>>

\* push_eos() after the producer's last token: no credit is involved.
PushEos(p) ==
    /\ p \notin eos
    /\ nextSeq[p] = MaxTokens
    /\ eos' = eos \cup {p}
    /\ fifo' = Append(fifo, [producer |-> p, eos |-> TRUE, seq |-> 0, gen |-> 0])
    /\ UNCHANGED <<available, leased, unreleased, nextSeq, faulted, generation, inHand, popped>>

Pop ==
    /\ fifo # <<>>
    /\ fifo' = Tail(fifo)
    /\ unreleased' = IF IsValid(Head(fifo)) THEN unreleased + 1 ELSE unreleased
    /\ popped' = popped \cup {Head(fifo)}
    /\ UNCHANGED <<available, leased, eos, nextSeq, faulted, generation, inHand>>

ReleaseSilently(t) ==   \* mutant: the credit is not returned
    /\ t \in popped
    /\ popped' = popped \ {t}
    /\ unreleased' = IF IsValid(t) THEN unreleased - 1 ELSE unreleased
    /\ UNCHANGED <<fifo, available, leased, eos, nextSeq, faulted, generation, inHand>>

\* release(); a Tile forgets the token, so it is released once.  The token's
\* generation is not looked at.
Release(t) ==
    /\ t \in popped
    /\ popped' = popped \ {t}
    /\ IF IsValid(t)
       THEN unreleased' = unreleased - 1 /\ available' = available + 1
       ELSE UNCHANGED <<unreleased, available>>
    /\ UNCHANGED <<fifo, leased, eos, nextSeq, faulted, generation, inHand>>

Reset ==
    /\ generation < MaxResets
    /\ fifo' = <<>>
    /\ available' = Depth
    /\ leased' = 0
    /\ unreleased' = 0
    /\ eos' = {}
    /\ nextSeq' = [p \in Producers |-> 0]
    /\ faulted' = FALSE
    /\ generation' = generation + 1
    /\ inHand' = IF Isolated THEN {} ELSE inHand
    /\ popped' = IF Isolated THEN {} ELSE popped

\* all_eos_seen (ALL_PRODUCERS), and every token came back.
Drained == eos = Producers /\ fifo = <<>> /\ popped = {}

\* Nothing is left to do: the streams have ended or the fault blocks them.
Finished ==
    /\ Drained \/ faulted
    /\ UNCHANGED vars

Next ==
    \/ \E p \in Producers, r \in Registers : Acquire(p, r) \/ Push(p, r)
    \/ \E p \in Producers : PushError(p) \/ PushEos(p)
    \/ Pop
    \/ \E t \in popped : Release(t)
    \/ Reset
    \/ Finished

Spec == Init /\ [][Next]_vars

\* A Tile retries a stalled STREAM_ACQUIRE or STREAM_POP in every cycle and
\* issues the other stream instructions when they reach the head.
FairSpec ==
    /\ Spec
    /\ \A p \in Producers : /\ WF_vars(\E r \in Registers : Acquire(p, r))
                            /\ WF_vars(\E r \in Registers : Push(p, r)) /\ WF_vars(PushEos(p))
    /\ WF_vars(Pop)
    /\ WF_vars(\E t \in popped : Release(t))

-----------------------------------------------------------------------------
\* _valid_fifo_count: the places of a queue that hold a valid token.
ValidAt(q) == {i \in 1 .. Len(q) : IsValid(q[i])}
ValidIn(q) == Cardinality(ValidAt(q))

\* Every count is one of the code's non-negative counters.
TypeOK ==
    /\ fifo \in Seq(Token)
    /\ available \in 0 .. Depth /\ leased \in 0 .. Depth /\ unreleased \in 0 .. Depth
    /\ eos \subseteq Producers /\ nextSeq \in [Producers -> Nat]
    /\ faulted \in BOOLEAN /\ generation \in Nat
    /\ inHand \subseteq Producers \X Registers /\ popped \subseteq Token

\* credit_invariant_holds(): available, leased, queued and popped credits add
\* up to the depth, and the counters agree with the tokens the Tiles hold.
CreditsAddUp ==
    /\ available + leased + ValidIn(fifo) + unreleased = Depth
    /\ unreleased = Cardinality({t \in popped : IsValid(t)})
    /\ leased = Cardinality(inHand)

\* Valid tokens belong to the queue's generation and leave it in the order in
\* which their producer pushed them (sequence_id and generation of push()).
TokensInOrder ==
    /\ \A i \in ValidAt(fifo) :
          fifo[i].gen = generation /\ fifo[i].seq < nextSeq[fifo[i].producer]
    /\ \A i, j \in ValidAt(fifo) :
          i < j /\ fifo[i].producer = fifo[j].producer => fifo[i].seq < fifo[j].seq
    /\ \A t \in popped : IsValid(t) =>
          /\ t.gen = generation /\ t.seq < nextSeq[t.producer]
          /\ \A i \in ValidAt(fifo) : fifo[i].producer = t.producer => t.seq < fifo[i].seq

\* No token is lost, invented or overtaken: the credits add up and the tokens
\* of a producer stay in order (acquire, push, pop, release, reset).
CreditInvariant == TypeOK /\ CreditsAddUp /\ TokensInOrder

\* Without a fault or a reset every stream is drained in the end, however
\* small the queue: no credit is lost on the way.
StreamsDrain == <>[](Drained \/ faulted)

=============================================================================
