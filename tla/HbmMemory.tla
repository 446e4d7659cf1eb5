------------------------------ MODULE HbmMemory ------------------------------
(***************************************************************************)
(* ByteStore and HBMRegion: the bytes of the HBM and the bindings that     *)
(* lie over them.  A store is a function from the pages that were touched  *)
(* to their bytes [valid, data]; StorePage is the size of a page.  A       *)
(* region is a function from the bound names to [base, size, perm, gen].   *)
(*                                                                         *)
(* PagePoolRegistry: which scope owns which pages of which pool.  Every    *)
(* pool lives in one HBM binding.  A registry is a record                  *)
(*                                                                         *)
(*   pages    [scope -> the pages it owns]                                 *)
(*   epoch    [page -> its epoch]: the code keys epochs by the page number *)
(*            alone, so the pools share them                               *)
(*   initial, allocated, freed, peak   page counts of every pool           *)
(*                                                                         *)
(* Leases and root pins are left out: no caller takes one, so the checks   *)
(* for them in allocate, free and assert_closed always succeed.            *)
(***************************************************************************)
EXTENDS Naturals, FiniteSets, SequencesExt

CONSTANTS
    StorePage,    \* page_bytes
    HbmBase, HbmSize,
    Zero          \* the data a new page is created with

ASSUME StorePageAssumption == StorePage \in Nat \ {0}

\* A byte nobody wrote; its data is what a page is created with.
Blank == [valid |-> FALSE, data |-> Zero]

EmptyStore == [p \in {} |-> Blank]

\* _read_relaxed, of one byte
ByteAt(store, a) ==
    IF a \div StorePage \in DOMAIN store
      THEN store[a \div StorePage][a % StorePage]
      ELSE Blank

\* _write: data is a function from addresses.
WriteBytes(store, data) ==
    LET at(p, o) == p * StorePage + o
    IN  [p \in DOMAIN store \cup {a \div StorePage : a \in DOMAIN data} |->
            [o \in 0 .. StorePage - 1 |->
                IF at(p, o) \in DOMAIN data
                  THEN [valid |-> TRUE, data |-> data[at(p, o)]]
                  ELSE ByteAt(store, at(p, o))]]

\* mutant: only the page the range begins in is cleared
ClearFirstPage(store, first, size) ==
    [p \in DOMAIN store |->
        [o \in 0 .. StorePage - 1 |->
            IF p = first \div StorePage /\ p * StorePage + o \in first .. first + size - 1
              THEN [store[p][o] EXCEPT !.valid = FALSE]
              ELSE store[p][o]]]

\* _clear_hbm_validity: the bytes stay, and no page is created.
ClearValidity(store, first, size) ==
    [p \in DOMAIN store |->
        [o \in 0 .. StorePage - 1 |->
            IF p * StorePage + o \in first .. first + size - 1
              THEN [store[p][o] EXCEPT !.valid = FALSE]
              ELSE store[p][o]]]

-----------------------------------------------------------------------------
(* The region.                                                              *)

NoBindings == [n \in {} |-> Blank]

End(r) == r.base + r.size
Within(a, r) == r.base <= a /\ a < End(r)

\* bind_external
CanBind(region, name, r) ==
    /\ name \notin DOMAIN region
    /\ r.size > 0 /\ r.base >= HbmBase /\ End(r) <= HbmBase + HbmSize
    /\ \A n \in DOMAIN region : End(r) <= region[n].base \/ End(region[n]) <= r.base

BindExternal(region, name, r, generation) ==
    [n \in DOMAIN region \cup {name} |->
        IF n = name THEN [base |-> r.base, size |-> r.size, perm |-> r.perm, gen |-> generation]
                    ELSE region[n]]

\* validate_seed_coverage
SeedsCovered(region, seeds) == \A a \in seeds : \E n \in DOMAIN region : Within(a, region[n])

-----------------------------------------------------------------------------
(* The page pools.                                                          *)

CONSTANTS
    Specs,        \* [pool -> [binding, pageBytes, count, owners]]
    Unregistered  \* the registry before initialize

Pools == DOMAIN Specs
PoolScopes(p) == DOMAIN Specs[p].owners
Scopes == UNION {PoolScopes(p) : p \in Pools}
PagesOf(p) == 0 .. Specs[p].count - 1
AllPages == UNION {PagesOf(p) : p \in Pools}

\* HostPagePoolSpec: no page has two owners, no owner is without pages.
ValidSpec(p) ==
    /\ Specs[p].pageBytes > 0 /\ Specs[p].count > 0
    /\ \A s \in PoolScopes(p) :
          /\ Specs[p].owners[s] # {} /\ Specs[p].owners[s] \subseteq PagesOf(p)
          /\ \A t \in PoolScopes(p) \ {s} : Specs[p].owners[s] \cap Specs[p].owners[t] = {}

ASSUME SpecsAssumption == \A p \in Pools : ValidSpec(p)

\* binding_for_scope, pool_for_scope
PoolForScope(s) == CHOOSE p \in Pools : s \in PoolScopes(p)
IsPoolBinding(b) == \E p \in Pools : Specs[p].binding = b
PoolForBinding(b) == CHOOSE p \in Pools : Specs[p].binding = b

Live(reg, p) == FoldFunctionOnSet(LAMBDA S, n : n + Cardinality(S), 0, reg.pages, PoolScopes(p))

\* initialize: a scope belongs to one pool, a pool fits into its binding, which
\* backs no other pool and has no lines in a cache.
Registrable(size, cached) ==
    /\ \A p, q \in Pools : p # q => /\ Specs[p].binding # Specs[q].binding
                                    /\ PoolScopes(p) \cap PoolScopes(q) = {}
    /\ \A p \in Pools :
          /\ Specs[p].binding \in DOMAIN size
          /\ Specs[p].count * Specs[p].pageBytes <= size[Specs[p].binding]
          /\ Specs[p].binding \notin cached

OwnedAtFirst(p) == Cardinality(UNION {Specs[p].owners[s] : s \in PoolScopes(p)})

Initialize ==
    [pages |-> [s \in Scopes |-> Specs[PoolForScope(s)].owners[s]],
     epoch |-> [k \in AllPages |-> 0],
     initial |-> [p \in Pools |-> OwnedAtFirst(p)],
     allocated |-> [p \in Pools |-> 0],
     freed |-> [p \in Pools |-> 0],
     peak |-> [p \in Pools |-> OwnedAtFirst(p)]]

-----------------------------------------------------------------------------
\* scope_owns_range: [offset, offset + size) lies in pages the scope owns.
ScopeOwnsRange(reg, s, b, offset, size) ==
    LET spec == Specs[PoolForScope(s)]
    IN  /\ size > 0 /\ b = spec.binding /\ offset + size <= spec.count * spec.pageBytes
        /\ offset \div spec.pageBytes .. (offset + size - 1) \div spec.pageBytes
             \subseteq reg.pages[s]

\* _require_scope: the pool exists and the scope is one of its owners.
KnownScope(p, s) == p \in Pools /\ s \in PoolScopes(p)

\* The pages change hands: their epochs move (allocate, free).
Advanced(epoch, pages) == [k \in DOMAIN epoch |-> IF k \in pages THEN epoch[k] + 1 ELSE epoch[k]]

FreePages(reg, p, s) == PagesOf(p) \ UNION {reg.pages[t] : t \in PoolScopes(p)}

CanAllocate(reg, p, s, n) ==
    KnownScope(p, s) /\ n > 0 /\ Cardinality(FreePages(reg, p, s)) >= n

\* The lowest free pages.
Taken(reg, p, s, n) == ToSet(SubSeq(SetToSortSeq(FreePages(reg, p, s), <), 1, n))

Granted(reg, p, s, new) ==
    LET after == [reg EXCEPT !.pages[s] = @ \cup new,
                             !.epoch = Advanced(@, new),
                             !.allocated[p] = @ + Cardinality(new)]
    IN  [after EXCEPT !.peak[p] = IF Live(after, p) > @ THEN Live(after, p) ELSE @]

Allocate(reg, p, s, n) == Granted(reg, p, s, Taken(reg, p, s, n))

CanFree(reg, p, s) == KnownScope(p, s) /\ reg.pages[s] # {}

Free(reg, p, s) ==
    [reg EXCEPT !.pages[s] = {},
                !.epoch = Advanced(@, reg.pages[s]),
                !.freed[p] = @ + Cardinality(reg.pages[s])]

\* assert_closed
Closed(reg) ==
    /\ \A s \in Scopes : reg.pages[s] = {}
    /\ \A p \in Pools : reg.initial[p] + reg.allocated[p] = reg.freed[p]
=============================================================================
