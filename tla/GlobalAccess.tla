---------------------------- MODULE GlobalAccess ----------------------------
(***************************************************************************)
(* The global memory a Context touches, as the compiler's visibility pass  *)
(* and the loader's verifier both see it: ranges of the global inputs, and *)
(* when two of them conflict.                                              *)
(*                                                                         *)
(* A Context is a record [acts, l2allowed, l2].  Each of its actions       *)
(* [grid, allowed, want, uses] is a dispatch (grid), with the L1 profiles  *)
(* its Tile Program allows and the one it asks for, or a DMA.  A use       *)
(* [kind, input, lo, hi, scope] is a Tile "gather" or "scatter" or a DMA   *)
(* "load" or "store" of [lo, hi) of an input; scope is NoScope for memory  *)
(* that no page pool manages.  Inside a Context an input is a formal, and  *)
(* a submit may bind two formals to one input of the program.              *)
(***************************************************************************)
EXTENDS Naturals, FiniteSets, SequencesExt

CONSTANTS
    Modes,        \* [level -> set of profile ids]
    CacheModes,   \* [level -> the profiles that have a cache]
    WriteBack,    \* the levels whose cache is write_back
    MaintenanceCaps,  \* [level -> the maintenance_caps of the target]
    Declared,     \* [input -> its bytes, by its declared shape]
    NoScope

Levels == {"l1", "l2"}

ASSUME ModesAssumption ==
    /\ \A l \in Levels : CacheModes[l] \subseteq Modes[l]
    /\ WriteBack \subseteq Levels
    /\ \A l \in Levels : MaintenanceCaps[l] \subseteq {"invalidate_range", "clean_invalidate_all", "bypass"}

Writes(kind) == kind \in {"scatter", "store"}

\* _action_accesses: a gather may hit in either cache, a scatter reports the
\* exact bytes it wrote.
ActionAccess(u) ==
    [input |-> u.input, lo |-> u.lo, hi |-> u.hi, writing |-> Writes(u.kind),
     levels |-> IF u.kind = "gather" THEN Levels ELSE {},
     scope |-> u.scope, precise |-> u.kind = "scatter"]

\* The access with its formal replaced by the input it is bound to.
Actual(actual, a) == [a EXCEPT !.input = actual[@]]

\* _mapped_accesses, of a task whose uses name the inputs of the program.
MappedAccesses(task) ==
    {ActionAccess(u) : u \in UNION {task.acts[k].uses : k \in DOMAIN task.acts}}

ScopesDisjoint(a, b) == a.scope # NoScope /\ b.scope # NoScope /\ a.scope # b.scope

\* _overlaps: the scopes of a pool own disjoint pages.
Overlaps(a, b) ==
    /\ ~ScopesDisjoint(a, b)
    /\ a.input = b.input /\ a.lo < b.hi /\ b.lo < a.hi

\* _maintenance_range: the bytes of the access, or the whole input when one of
\* the levels has no maintenance by range; MaintainLegal is false when that
\* level cannot be cleaned as a whole either.
AllHave(levels, cap) == \A l \in levels : cap \in MaintenanceCaps[l]
MaintainLegal(levels) == AllHave(levels, "invalidate_range") \/ AllHave(levels, "clean_invalidate_all")

MaintenanceRange(a, levels, precise) ==
    [input |-> a.input, levels |-> levels, precise |-> precise,
     lo |-> IF AllHave(levels, "invalidate_range") THEN a.lo ELSE 0,
     hi |-> IF AllHave(levels, "invalidate_range") THEN a.hi ELSE Declared[a.input]]

\* _has_l1
HasL1(task) == \E k \in DOMAIN task.acts : task.acts[k].grid

\* _first_l1: the first dispatch keeps the current profile if it may.
FirstL1(task, mode) ==
    IF ~HasL1(task)
      THEN mode
      ELSE LET a == task.acts[CHOOSE k \in DOMAIN task.acts :
                        /\ task.acts[k].grid
                        /\ \A m \in DOMAIN task.acts : task.acts[m].grid => k <= m]
           IN  IF mode \in a.allowed THEN mode ELSE a.want

\* bind_context_profiles: every dispatch keeps the profile or changes it, which
\* needs an earlier Grid to wait for and makes the Context own the L1.  modes is
\* the L1 profile in force at each action; used gives the permitted profiles.
BindAction(b, a) ==
    LET selected == IF b.exit \in a.allowed THEN b.exit ELSE a.want
    IN  IF ~a.grid
          THEN [b EXCEPT !.modes = Append(@, b.exit)]
          ELSE [b EXCEPT !.exit = selected,
                         !.modes = Append(@, selected),
                         !.used = @ \cup {selected},
                         !.exclusive = @ \/ selected # b.exit,
                         !.legal = @ /\ a.want \in a.allowed /\ (selected = b.exit \/ b.frontier),
                         !.frontier = TRUE]

BindContext(task, entryL1, l2Mode) ==
    FoldLeft(BindAction,
             [entry |-> entryL1, exit |-> entryL1, l2 |-> l2Mode, used |-> {entryL1}, modes |-> <<>>,
              exclusive |-> FALSE, frontier |-> FALSE, legal |-> l2Mode \in task.l2allowed],
             task.acts)
=============================================================================
