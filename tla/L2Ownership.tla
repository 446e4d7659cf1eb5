----------------------------- MODULE L2Ownership -----------------------------
(***************************************************************************)
(* What the L2 memory promises, whatever structures keep it: an address is *)
(* granted only while nobody holds it; from then on its holders only       *)
(* leave, so it never passes from one root to another that the first still *)
(* reaches; and once it is sealed nobody writes it until it is free again. *)
(***************************************************************************)
CONSTANTS Addresses, Holders

VARIABLES
    holders,  \* per address, who may still reach it
    writers,  \* per address, the holders with a write under way
    sealed    \* the addresses that are published

vars == <<holders, writers, sealed>>

Grant(a) ==
    /\ holders[a] = {}
    /\ holders'[a] \in SUBSET Holders
    /\ writers'[a] = {}
    /\ a \notin sealed'

\* A holder reads, writes while the address is not sealed, seals it, or leaves.
Use(a) ==
    /\ holders'[a] # {} /\ holders'[a] \subseteq holders[a]
    /\ writers'[a] \subseteq holders'[a]
    /\ a \in sealed => a \in sealed'
    /\ a \in sealed' => writers'[a] = {}

Free(a) ==
    /\ holders'[a] = {} /\ writers'[a] = {}
    /\ a \notin sealed'

Init ==
    /\ holders = [a \in Addresses |-> {}]
    /\ writers = [a \in Addresses |-> {}]
    /\ sealed = {}

Next == \A a \in Addresses : Grant(a) \/ Use(a) \/ Free(a)

Spec == Init /\ [][Next]_vars
=============================================================================
