------------------------ MODULE GroupSchedulerProofs ------------------------
(***************************************************************************)
(* The Group scheduler keeps its books, never meets an event in a state it *)
(* cannot handle and runs every program as it is written, for every set of *)
(* well-formed programs, every policy and every capacity.                  *)
(*                                                                         *)
(* The invariant Good is stated for one launch at a time, as a predicate   *)
(* on its part of the table, its quota, its sequencer and the state of the *)
(* reset FSM; a step moves one launch through one of the lemmas below and  *)
(* leaves the others as they are.                                          *)
(***************************************************************************)
EXTENDS GroupScheduler, DistinctSequences, FiniteSetTheorems

-----------------------------------------------------------------------------
(* Programs.                                                               *)

Size(l) == Len(Programs[l])
Own(l) == AllOutputs(Programs[l])
Made(l, n) == Producer(Programs[l], n)
Act(l, i) == Programs[l][i]

\* What the assumptions say of the program of one launch.
LEMMA ProgramFacts ==
    ASSUME NEW l \in Launches
    PROVE  /\ Size(l) \in Nat
           /\ \A i \in 1 .. Size(l) :
                 /\ ActionOK(Act(l, i))
                 /\ Act(l, i).deps \subseteq OutputsBefore(Programs[l], i)
                 /\ Outputs(Act(l, i)) \cap OutputsBefore(Programs[l], i) = {}
           /\ Own(l) \subseteq Names
           /\ EventUses[l] = Uses(Programs[l])
           /\ DOMAIN EventUses[l] = Own(l)
           /\ Frontier(Programs[l]) <= Capacity
           /\ \A k \in Launches \ {l} : Own(l) \cap Own(k) = {}
<1>1. /\ Programs[l] \in Seq({Programs[l][i] : i \in DOMAIN Programs[l]})
      /\ WellFormed(Programs[l])
      /\ \A i \in DOMAIN Programs[l] : ActionOK(Programs[l][i])
      /\ EventUses[l] = Uses(Programs[l])
      /\ Frontier(Programs[l]) <= Capacity
      /\ \A k \in Launches \ {l} : DOMAIN EventUses[l] \cap DOMAIN EventUses[k] = {}
  BY ProgramAssumption
<1>2. Size(l) \in Nat /\ DOMAIN Programs[l] = 1 .. Size(l)
  BY <1>1, LenProperties DEF Size
<1>3. \A k \in Launches : DOMAIN EventUses[k] = Own(k)
  BY ProgramAssumption DEF Uses, Own
<1>4. Own(l) \subseteq Names
  BY <1>3, UsesAssumption
<1> QED
  BY <1>1, <1>2, <1>3, <1>4 DEF WellFormed, Act, Size

\* Every event has one producer, which comes before its consumers.
LEMMA MadeFacts ==
    ASSUME NEW l \in Launches
    PROVE  /\ \A n \in Own(l) : Made(l, n) \in 1 .. Size(l) /\ n \in Outputs(Act(l, Made(l, n)))
           /\ \A i \in 1 .. Size(l) : \A n \in Outputs(Act(l, i)) : n \in Own(l) /\ Made(l, n) = i
           /\ \A i \in 1 .. Size(l) : \A n \in Act(l, i).deps : n \in Own(l) /\ Made(l, n) < i
           /\ \A k \in 1 .. Size(l) + 1 : \A n :
                 n \in OutputsBefore(Programs[l], k) <=> n \in Own(l) /\ Made(l, n) < k
<1> DEFINE P == Programs[l]
<1>1. /\ Size(l) \in Nat
      /\ \A i \in 1 .. Size(l) :
            /\ Act(l, i).deps \subseteq OutputsBefore(P, i)
            /\ Outputs(Act(l, i)) \cap OutputsBefore(P, i) = {}
  BY ProgramFacts
<1>2. \A k, n : n \in OutputsBefore(P, k) <=> \E j \in 1 .. k - 1 : n \in Outputs(Act(l, j))
  BY DEF OutputsBefore, Act
<1>3. \A n : n \in Own(l) <=> \E j \in 1 .. Size(l) : n \in Outputs(Act(l, j))
  BY <1>1, <1>2 DEF Own, AllOutputs, Size
<1>4. \A n \in Own(l) : Made(l, n) \in 1 .. Size(l) /\ n \in Outputs(Act(l, Made(l, n)))
  BY <1>3 DEF Made, Producer, Size, Act
<1>5. \A i, j \in 1 .. Size(l) : \A n : n \in Outputs(Act(l, i)) /\ n \in Outputs(Act(l, j)) => i = j
  <2> SUFFICES ASSUME NEW i \in 1 .. Size(l), NEW j \in 1 .. Size(l), NEW n,
                      n \in Outputs(Act(l, i)), n \in Outputs(Act(l, j)), i < j
               PROVE  FALSE
    BY <1>1
  <2>1. i \in 1 .. j - 1
    BY <1>1
  <2> QED
    BY <1>1, <1>2, <2>1
<1>6. \A i \in 1 .. Size(l) : \A n \in Outputs(Act(l, i)) : n \in Own(l) /\ Made(l, n) = i
  BY <1>3, <1>4, <1>5
<1>7. ASSUME NEW k \in 1 .. Size(l) + 1, NEW n
      PROVE  n \in OutputsBefore(P, k) <=> n \in Own(l) /\ Made(l, n) < k
  <2>1. \A j : j \in 1 .. k - 1 <=> j \in 1 .. Size(l) /\ j < k
    BY <1>1
  <2> QED
    BY <1>2, <1>4, <1>6, <2>1
<1>8. \A i \in 1 .. Size(l) : i \in 1 .. Size(l) + 1
  BY <1>1
<1>9. \A i \in 1 .. Size(l) : \A n \in Act(l, i).deps : n \in Own(l) /\ Made(l, n) < i
  BY <1>1, <1>7, <1>8
<1> QED
  BY <1>4, <1>6, <1>7, <1>9

-----------------------------------------------------------------------------
(* The compiler's analysis: its recursive functions exist, and the frontier *)
(* is the largest number of slots they find.                               *)

\* One step of Completed, given the earlier ones.
CompletedStep(l, f, i) ==
    Act(l, i).deps \cup
    UNION {f[Made(l, n)] \cup (IF n \in Act(l, Made(l, n)).dst THEN Act(l, Made(l, n)).phases ELSE {}) :
              n \in Act(l, i).deps}

\* The step at i reads earlier values only.
LEMMA CompletedStepSame ==
    ASSUME NEW l \in Launches, NEW i \in 1 .. Size(l), NEW f, NEW g,
           \A j \in 1 .. i - 1 : f[j] = g[j]
    PROVE  CompletedStep(l, f, i) = CompletedStep(l, g, i)
<1>1. \A n \in Act(l, i).deps : Made(l, n) \in 1 .. i - 1
  BY ProgramFacts, MadeFacts
<1>2. \A n \in Act(l, i).deps : f[Made(l, n)] = g[Made(l, n)]
  BY <1>1
<1> QED
  BY <1>2 DEF CompletedStep

\* The recursion of Completed has a solution, by descent to a least length without one.
LEMMA CompletedExists ==
    ASSUME NEW l \in Launches
    PROVE  \E f : f = [i \in 1 .. Size(l) |-> CompletedStep(l, f, i)]
<1> DEFINE Up(k) == \E f : f = [i \in 1 .. k |-> CompletedStep(l, f, i)]
           T == {k \in 0 .. Size(l) : ~Up(k)}
<1>1. Size(l) \in Nat
  BY ProgramFacts
<1>2. CASE T = {}
  BY <1>1, <1>2
<1>3. CASE T # {}
  <2>1. PICK k \in T : \A j \in T : k <= j
    <3>1. T \subseteq Nat
      BY <1>1
    <3> HIDE DEF T
    <3> QED
      BY <1>3, <3>1, LeastExists
  <2>2. k # 0
    <3> SUFFICES Up(0)
      OBVIOUS
    <3> DEFINE f == [i \in 1 .. 0 |-> {}]
    <3>1. f = [i \in 1 .. 0 |-> CompletedStep(l, f, i)]
      OBVIOUS
    <3> HIDE DEF f
    <3> QED
      BY <3>1
  <2>3. k - 1 \in 0 .. Size(l) /\ k \in 1 .. Size(l)
    BY <1>1, <2>2
  <2>4. Up(k - 1)
    BY <1>1, <2>1, <2>3
  <2>5. PICK f : f = [i \in 1 .. k - 1 |-> CompletedStep(l, f, i)]
    BY <2>4
  <2> DEFINE g == [i \in 1 .. k |-> IF i < k THEN f[i] ELSE CompletedStep(l, f, i)]
  <2>6. \A j \in 1 .. k - 1 : f[j] = g[j]
    BY <1>1, <2>3
  <2>7. \A i \in 1 .. k : CompletedStep(l, f, i) = CompletedStep(l, g, i)
    <3> SUFFICES ASSUME NEW i \in 1 .. k PROVE CompletedStep(l, f, i) = CompletedStep(l, g, i)
      OBVIOUS
    <3> HIDE DEF g
    <3>1. i \in 1 .. Size(l) /\ \A j \in 1 .. i - 1 : f[j] = g[j]
      BY <1>1, <2>3, <2>6
    <3> QED
      BY <3>1, CompletedStepSame
  <2>8. \A i \in 1 .. k : g[i] = CompletedStep(l, f, i)
    <3>1. \A i \in 1 .. k : i < k => i \in 1 .. k - 1
      BY <1>1, <2>3
    <3> QED
      BY <2>5, <3>1
  <2>9. g = [i \in 1 .. k |-> CompletedStep(l, g, i)]
    <3>1. g = [i \in 1 .. k |-> g[i]]
      OBVIOUS
    <3> HIDE DEF g
    <3> QED
      BY <2>7, <2>8, <3>1
  <2>10. Up(k)
    <3> HIDE DEF g
    <3> QED
      BY <2>9
  <2> QED
    BY <2>1, <2>10
<1> QED
  BY <1>2, <1>3

\* What an action's predecessors prove comes from earlier actions.
LEMMA CompletedFacts ==
    ASSUME NEW l \in Launches
    PROVE  /\ \A i \in 1 .. Size(l) : \A m : m \in Completed(Programs[l])[i] <=>
                 \/ m \in Act(l, i).deps
                 \/ \E n \in Act(l, i).deps :
                       \/ m \in Completed(Programs[l])[Made(l, n)]
                       \/ n \in Act(l, Made(l, n)).dst /\ m \in Act(l, Made(l, n)).phases
           /\ \A i \in 1 .. Size(l) : \A m \in Completed(Programs[l])[i] : m \in Own(l) /\ Made(l, m) < i
<1> DEFINE C == Completed(Programs[l])
           T == {i \in 1 .. Size(l) : \E m \in C[i] : ~(m \in Own(l) /\ Made(l, m) < i)}
<1>1. C = CHOOSE f : f = [i \in 1 .. Size(l) |-> CompletedStep(l, f, i)]
  BY DEF Completed, CompletedStep, Made, Act, Size
<1>2. C = [i \in 1 .. Size(l) |-> CompletedStep(l, C, i)]
  <2> HIDE DEF C
  <2> QED
    BY <1>1, CompletedExists
<1> HIDE DEF C
<1>3. \A i \in 1 .. Size(l) : \A m : m \in C[i] <=>
         \/ m \in Act(l, i).deps
         \/ \E n \in Act(l, i).deps :
               \/ m \in C[Made(l, n)]
               \/ n \in Act(l, Made(l, n)).dst /\ m \in Act(l, Made(l, n)).phases
  <2>1. \A i \in 1 .. Size(l) : C[i] = CompletedStep(l, C, i)
    BY <1>2
  <2> QED
    BY <2>1 DEF CompletedStep
<1>4. Size(l) \in Nat
  BY ProgramFacts
<1>5. T = {}
  <2> SUFFICES ASSUME T # {} PROVE FALSE
    OBVIOUS
  <2>1. PICK i \in T : \A j \in T : i <= j
    <3>1. T \subseteq Nat
      BY <1>4
    <3> HIDE DEF T
    <3> QED
      BY <3>1, LeastExists
  <2>2. PICK m \in C[i] : ~(m \in Own(l) /\ Made(l, m) < i)
    OBVIOUS
  <2>3. PICK n \in Act(l, i).deps :
           m \in C[Made(l, n)] \/ (n \in Act(l, Made(l, n)).dst /\ m \in Act(l, Made(l, n)).phases)
    BY <1>3, <2>2, MadeFacts
  <2>4. Made(l, n) \in 1 .. Size(l) /\ Made(l, n) < i /\ i \in 1 .. Size(l)
    BY <2>3, MadeFacts
  <2>5. CASE m \in C[Made(l, n)]
    <3>1. Made(l, n) \notin T
      BY <1>4, <2>1, <2>4
    <3>2. m \in Own(l) /\ Made(l, m) < Made(l, n)
      BY <2>4, <2>5, <3>1
    <3>3. Made(l, m) \in 1 .. Size(l)
      BY <3>2, MadeFacts
    <3> QED
      BY <1>4, <2>2, <2>4, <3>2, <3>3
  <2>6. CASE m \in Act(l, Made(l, n)).phases
    <3>1. m \in Outputs(Act(l, Made(l, n)))
      BY <2>6 DEF Outputs
    <3> QED
      BY <2>2, <2>4, <3>1, MadeFacts
  <2> QED
    BY <2>3, <2>5, <2>6
<1> QED
  BY <1>3, <1>5 DEF C

\* What the fences up to i prove: which events are terminal, which actions issued.
ProvedTerminal(l, i) == UNION {FenceTerminal(Programs[l], j) : j \in FencesUpTo(Programs[l], i)}
ProvedIssued(l, i) == UNION {FenceIssued(Programs[l], j) : j \in FencesUpTo(Programs[l], i)}

\* One step of LiveSlots, given the one before.
SlotsStep(l, S, i) ==
    IF Act(l, i).op \notin Fences THEN S \cup Outputs(Act(l, i))
    ELSE {n \in S \cup Outputs(Act(l, i)) :
             ~(n \in ProvedTerminal(l, i) /\ Consumers(Programs[l], n) \subseteq ProvedIssued(l, i))}

\* So has the recursion of LiveSlots.
LEMMA SlotsExist ==
    ASSUME NEW l \in Launches
    PROVE  \E f : f = [i \in 0 .. Size(l) |-> IF i = 0 THEN {} ELSE SlotsStep(l, f[i - 1], i)]
<1> DEFINE Up(k) == \E f : f = [i \in 0 .. k |-> IF i = 0 THEN {} ELSE SlotsStep(l, f[i - 1], i)]
           T == {k \in 0 .. Size(l) : ~Up(k)}
<1>1. Size(l) \in Nat
  BY ProgramFacts
<1>2. CASE T = {}
  <2>1. Up(Size(l))
    <3> HIDE DEF Up
    <3> QED
      BY <1>1, <1>2
  <2> QED
    BY <2>1
<1>3. CASE T # {}
  <2>1. PICK k \in T : \A j \in T : k <= j
    <3>1. T \subseteq Nat
      BY <1>1
    <3> HIDE DEF T
    <3> QED
      BY <1>3, <3>1, LeastExists
  <2>2. k # 0
    <3> SUFFICES Up(0)
      OBVIOUS
    <3> DEFINE f == [i \in 0 .. 0 |-> {}]
    <3>1. \A i \in 0 .. 0 : i = 0
      OBVIOUS
    <3>2. f = [i \in 0 .. 0 |-> IF i = 0 THEN {} ELSE SlotsStep(l, f[i - 1], i)]
      BY <3>1
    <3> HIDE DEF f
    <3> QED
      BY <3>2
  <2>3. k - 1 \in 0 .. Size(l) /\ k \in 1 .. Size(l)
    BY <1>1, <2>2
  <2>4. Up(k - 1)
    <3> HIDE DEF Up
    <3> QED
      BY <1>1, <2>1, <2>3
  <2>5. PICK f : f = [i \in 0 .. k - 1 |-> IF i = 0 THEN {} ELSE SlotsStep(l, f[i - 1], i)]
    BY <2>4
  <2> DEFINE g == [i \in 0 .. k |-> IF i < k THEN f[i] ELSE SlotsStep(l, f[i - 1], i)]
  <2>6. \A i \in 0 .. k : i # 0 => g[i - 1] = f[i - 1]
    BY <1>1, <2>3
  <2>7. \A i \in 0 .. k : g[i] = IF i = 0 THEN {} ELSE SlotsStep(l, f[i - 1], i)
    <3>1. \A i \in 0 .. k : i < k => i \in 0 .. k - 1
      BY <1>1, <2>3
    <3>2. \A i \in 0 .. k : ~(i < k) => i # 0
      BY <1>1, <2>3
    <3> QED
      BY <2>5, <3>1, <3>2
  <2>8. g = [i \in 0 .. k |-> IF i = 0 THEN {} ELSE SlotsStep(l, g[i - 1], i)]
    <3>1. g = [i \in 0 .. k |-> g[i]]
      OBVIOUS
    <3> HIDE DEF g
    <3>2. \A i \in 0 .. k : g[i] = IF i = 0 THEN {} ELSE SlotsStep(l, g[i - 1], i)
      BY <2>6, <2>7
    <3> QED
      BY <3>1, <3>2
  <2>9. Up(k)
    <3> HIDE DEF g
    <3> QED
      BY <2>8
  <2> QED
    BY <2>1, <2>9
<1> QED
  BY <1>2, <1>3

\* LiveSlots satisfies its equation and names events of the launch only.
LEMMA SlotsFacts ==
    ASSUME NEW l \in Launches
    PROVE  /\ LiveSlots(Programs[l])[0] = {}
           /\ \A i \in 1 .. Size(l) :
                 LiveSlots(Programs[l])[i] = SlotsStep(l, LiveSlots(Programs[l])[i - 1], i)
           /\ \A i \in 0 .. Size(l) : LiveSlots(Programs[l])[i] \subseteq Own(l)
<1> DEFINE S == LiveSlots(Programs[l])
           T == {i \in 0 .. Size(l) : ~(S[i] \subseteq Own(l))}
<1>1. S = CHOOSE f : f = [i \in 0 .. Size(l) |-> IF i = 0 THEN {} ELSE SlotsStep(l, f[i - 1], i)]
  BY DEF LiveSlots, SlotsStep, Act, Size, ProvedTerminal, ProvedIssued
<1>2. S = [i \in 0 .. Size(l) |-> IF i = 0 THEN {} ELSE SlotsStep(l, S[i - 1], i)]
  <2> HIDE DEF S
  <2> QED
    BY <1>1, SlotsExist
<1> HIDE DEF S
<1>3. Size(l) \in Nat
  BY ProgramFacts
<1>4. S[0] = {} /\ \A i \in 1 .. Size(l) : S[i] = SlotsStep(l, S[i - 1], i)
  <2>1. \A i \in 1 .. Size(l) : i \in 0 .. Size(l) /\ i # 0
    BY <1>3
  <2>2. 0 \in 0 .. Size(l)
    BY <1>3
  <2>3. \A i \in 0 .. Size(l) : S[i] = IF i = 0 THEN {} ELSE SlotsStep(l, S[i - 1], i)
    BY <1>2
  <2> QED
    BY <2>1, <2>2, <2>3
<1>5. T = {}
  <2> SUFFICES ASSUME T # {} PROVE FALSE
    OBVIOUS
  <2>1. PICK i \in T : \A j \in T : i <= j
    <3>1. T \subseteq Nat
      BY <1>3
    <3> HIDE DEF T
    <3> QED
      BY <3>1, LeastExists
  <2>2. i # 0
    BY <1>4
  <2>3. i \in 1 .. Size(l) /\ i - 1 \in 0 .. Size(l) /\ i - 1 \notin T
    BY <1>3, <2>1, <2>2
  <2>4. S[i - 1] \subseteq Own(l)
    BY <2>3
  <2>5. S[i] \subseteq S[i - 1] \cup Outputs(Act(l, i))
    BY <1>4, <2>3 DEF SlotsStep
  <2>6. Outputs(Act(l, i)) \subseteq Own(l)
    BY <2>3, MadeFacts
  <2> QED
    BY <2>4, <2>5, <2>6
<1> QED
  BY <1>4, <1>5 DEF S

\* The frontier bounds the slots at every registration.
LEMMA FrontierFacts ==
    ASSUME NEW l \in Launches
    PROVE  /\ Frontier(Programs[l]) \in Nat
           /\ \A i \in 1 .. Size(l) :
                 Cardinality(LiveSlots(Programs[l])[i - 1] \cup Outputs(Act(l, i))) <= Frontier(Programs[l])
<1> DEFINE at(i) == LiveSlots(Programs[l])[i - 1] \cup Outputs(Act(l, i))
           peaks == {Cardinality(at(i)) : i \in 1 .. Size(l)} \cup {0}
           top == Cardinality(Names)
           T == {b \in Nat : \A k \in peaks : k <= b}
<1>1. IsFiniteSet(Names) /\ top \in Nat /\ Size(l) \in Nat
  BY TableAssumption, FS_CardinalityType, ProgramFacts
<1>2. \A i \in 1 .. Size(l) : Cardinality(at(i)) \in Nat /\ Cardinality(at(i)) <= top
  <2> SUFFICES ASSUME NEW i \in 1 .. Size(l)
               PROVE  Cardinality(at(i)) \in Nat /\ Cardinality(at(i)) <= top
    OBVIOUS
  <2>1. i - 1 \in 0 .. Size(l)
    BY <1>1
  <2>2. at(i) \in SUBSET Names
    BY <2>1, SlotsFacts, MadeFacts, ProgramFacts
  <2> HIDE DEF at
  <2> QED
    BY <1>1, <2>2, FS_Subset, FS_CardinalityType
<1>3. peaks \subseteq Nat /\ \A k \in peaks : k <= top
  <2> HIDE DEF at, top
  <2>1. top >= 0
    BY <1>1
  <2> QED
    BY <1>1, <1>2, <2>1
<1>4. Frontier(Programs[l]) = CHOOSE m \in peaks : \A k \in peaks : k <= m
  BY DEF Frontier, Act, Size
<1>5. \A i \in 1 .. Size(l) : Cardinality(at(i)) \in peaks
  OBVIOUS
<1>6. 0 \in peaks
  OBVIOUS
<1> HIDE DEF peaks, top
<1>7. top \in T /\ T \subseteq Nat
  BY <1>1, <1>3
<1>8. PICK b \in T : \A c \in T : b <= c
  <2> HIDE DEF T
  <2> QED
    BY <1>7, LeastExists
<1>9. b \in peaks
  <2> SUFFICES ASSUME b \notin peaks PROVE FALSE
    OBVIOUS
  <2>1. b # 0 /\ b \in Nat
    BY <1>6
  <2>2. b - 1 \in T
    BY <1>3, <2>1
  <2> QED
    BY <1>8, <2>1, <2>2
<1>10. \E m \in peaks : \A k \in peaks : k <= m
  BY <1>9
<1>11. Frontier(Programs[l]) \in peaks /\ \A k \in peaks : k <= Frontier(Programs[l])
  BY <1>4, <1>10
<1> QED
  BY <1>3, <1>5, <1>11

-----------------------------------------------------------------------------
(* The invariant of one launch l: e is the event table, q its quota, x its *)
(* sequencer and s the state of the reset FSM.                             *)

ContextState ==
    [stage : {"new", "active", "done", "retired"}, pc : Nat, fence : Nat,
     queued : SUBSET Nat, flying : SUBSET Nat, jobs : Nat, owed : SUBSET Names,
     broken : SUBSET Nat, faulted : BOOLEAN, closed : BOOLEAN, arena : BOOLEAN]

Late == {"CLEAR_CREDIT_CACHE", "RESUME", "DONE"}
InUse(x) == x.stage \in {"active", "done"}
Running(x) == x.queued \cup x.flying

\* The consumers of n among the actions in Q, and the ones still to issue.
Pins(l, n, Q) == {i \in Q : n \in Act(l, i).deps}
Readers(l, n, x) == {i \in 1 .. Size(l) : n \in Act(l, i).deps /\ (i >= x.pc \/ i \in x.queued)}

\* The sequencer: what runs was registered, and it closes at its end or fault.
Flow(l, x) ==
    /\ x \in ContextState
    /\ x.pc \in 1 .. Size(l) + 1
    /\ Running(x) \subseteq 1 .. x.pc - 1
    /\ x.queued \cap x.flying = {}
    /\ \A i \in x.flying : Act(l, i).op \in Async \cup {"control"}
    /\ x.broken \subseteq 1 .. Size(l)
    /\ x.stage # "active" => Running(x) = {}
    /\ x.stage = "done" => x.closed
    /\ x.faulted => x.closed
    /\ InUse(x) /\ ~x.faulted => (x.closed <=> x.pc = Size(l) + 1)

\* The one fence that runs is the last action registered, and nothing before a
\* barrier runs once the barrier has issued.
FencesKept(l, x) ==
    /\ x.fence # 0 => /\ x.fence \in Running(x) /\ x.fence = x.pc - 1
                      /\ Act(l, x.fence).op \in Fences
    /\ \A i \in Running(x) : Act(l, i).op \in Fences => i = x.fence
    /\ \A i \in 1 .. x.pc - 1 :
          Act(l, i).op = "barrier" /\ (i < x.pc - 1 \/ (~x.faulted /\ i \notin x.queued))
             => \A j \in Running(x) : i < j

\* The events of the launch: each under its producer, with a pin for every queued
\* consumer and no more pins than uses; the outputs of queued actions are there.
Booked(l, e, Q) ==
    /\ \A n \in Own(l) :
          /\ e[n] \in EventEntry
          /\ e[n].status = "ABSENT" => e[n] = NoEntry
          /\ e[n].status # "ABSENT" =>
                e[n].launch = l /\ e[n].managed /\ e[n].bound /\ e[n].producer = Made(l, n)
          /\ e[n].refs = Cardinality(Pins(l, n, Q))
          /\ e[n].refs <= e[n].uses
    /\ \A i \in Q : \A n \in Outputs(Act(l, i)) : e[n].status # "ABSENT"

\* Only registered actions of a Context in use have events.
Produced(l, e, x) ==
    \A n \in Own(l) : e[n].status # "ABSENT" => Made(l, n) < x.pc /\ InUse(x)

\* A pending event is one whose producer runs, and the outputs of what is queued
\* or in flight are pending until the reset marks them.
StatusTrue(l, e, x, s) ==
    /\ \A n \in Own(l) : e[n].status = "PENDING" => Made(l, n) \in Running(x)
    /\ s # "RESET_DOMAIN" =>
          /\ \A i \in x.queued : \A n \in Outputs(Act(l, i)) : e[n].status = "PENDING"
          /\ \A i \in x.flying : \A n \in Act(l, i).dst : e[n].status = "PENDING"
    /\ s = "IDLE" => \A n \in Own(l) : e[n].status \in {"ABSENT", "PENDING", "DONE"}
    /\ s \in Late \cup {"RESET_DOMAIN"} => \A n \in Own(l) : e[n].status # "PENDING"

\* Without a fault an event's uses are its consumers still to issue, and a finished
\* event without uses is gone; after a fault no use is left, unless a Grid has
\* faulted and holds its Context until the reset.
UsesTrue(l, e, x, s) ==
    /\ ~x.faulted => \A n \in Own(l) :
          /\ Made(l, n) < x.pc => e[n].uses = Cardinality(Readers(l, n, x))
          /\ e[n].status \in Terminal /\ e[n].uses = 0 => s = "RESET_DOMAIN" /\ Made(l, n) \in Running(x)
    /\ x.faulted => (\A n \in Own(l) : e[n].uses = 0) \/ x.broken \cap x.flying # {}

QuotaTrue(l, q, x) ==
    q = IF InUse(x)
        THEN [open |-> TRUE, limit |-> Frontier(Programs[l]), produced |-> OutputsBefore(Programs[l], x.pc)]
        ELSE NoQuota

\* What the compiler derives from an issued action is true.
KnownTrue(l, e, x) ==
    ~x.faulted => \A i \in 1 .. x.pc - 1 : i \notin x.queued =>
        \A n \in Completed(Programs[l])[i] : e[n].status # "PENDING" /\ Made(l, n) \notin x.queued

\* The live events are among those the compiler counted.
SlotsTrue(l, e, x) ==
    ~x.faulted => \A n \in Own(l) : e[n].status # "ABSENT" =>
        n \in IF x.fence = 0 THEN LiveSlots(Programs[l])[x.pc - 1]
              ELSE LiveSlots(Programs[l])[x.pc - 2] \cup Outputs(Act(l, x.pc - 1))

\* A fault starts the reset, which waits for all but the Grids and then takes
\* every Context with it.
ResetTrue(l, x, s) ==
    /\ x.faulted => s # "IDLE"
    /\ s \in {"MARK_EVENTS", "RESET_DOMAIN"} => \A i \in x.flying : Act(l, i).op = "dispatch"
    /\ s \in Late => Running(x) = {} /\ (InUse(x) => x.faulted)

Good(l, e, q, x, s) ==
    /\ Flow(l, x) /\ FencesKept(l, x)
    /\ Booked(l, e, x.queued) /\ Produced(l, e, x)
    /\ StatusTrue(l, e, x, s) /\ UsesTrue(l, e, x, s)
    /\ QuotaTrue(l, q, x)
    /\ KnownTrue(l, e, x) /\ SlotsTrue(l, e, x)
    /\ ResetTrue(l, x, s)

-----------------------------------------------------------------------------
(* One entry of the table.                                                 *)

\* An absent entry counts nothing.
LEMMA NoEntryFacts ==
    /\ NoEntry \in EventEntry /\ NoEntry.status = "ABSENT" /\ NoEntry.launch = NoLaunch
    /\ ~NoEntry.managed /\ ~NoEntry.bound /\ NoEntry.refs = 0 /\ NoEntry.uses = 0
BY DEF EventEntry, NoEntry, FreshEntry, EventStatus, Terminal

\* What a signal leaves of an entry: nothing when no use is left.
LEMMA SignalFacts ==
    ASSUME NEW x \in EventEntry, x.managed, NEW st \in Terminal, x.refs <= x.uses
    PROVE  LET y == SignalEntry(x, st, x.producer) IN
           /\ y \in EventEntry
           /\ x.uses = 0 => y = NoEntry
           /\ x.uses # 0 => /\ y.status = st /\ y.launch = x.launch /\ y.managed /\ y.bound = x.bound
                            /\ y.producer = x.producer /\ y.refs = x.refs /\ y.uses = x.uses
<1> DEFINE x1 == [x EXCEPT !.status = st, !.producer = x.producer]
<1>1. /\ x1 \in EventEntry /\ x1.status = st /\ x1.launch = x.launch /\ x1.managed /\ x1.bound = x.bound
      /\ x1.producer = x.producer /\ x1.refs = x.refs /\ x1.uses = x.uses
  BY DEF EventEntry, EventStatus
<1>2. st # "PENDING" /\ x.refs \in Nat /\ x.uses \in Nat
  BY DEF Terminal, EventEntry
<1>3. SignalEntry(x, st, x.producer) = Reclaimed(x1)
  BY DEF SignalEntry
<1> HIDE DEF x1
<1>4. Reclaimed(x1) = IF x.uses = 0 THEN NoEntry ELSE x1
  BY <1>1, <1>2 DEF Reclaimed
<1> QED
  BY <1>1, <1>3, <1>4, NoEntryFacts

\* What the last or another use leaves of a finished entry.
LEMMA DropFacts ==
    ASSUME NEW x \in EventEntry, x.managed, x.status \in Terminal, x.refs # 0, x.refs <= x.uses
    PROVE  LET y == DropUse(x) IN
           /\ y \in EventEntry
           /\ x.uses = 1 => y = NoEntry /\ x.refs = 1
           /\ x.uses # 1 => /\ y.status = x.status /\ y.launch = x.launch /\ y.managed /\ y.bound = x.bound
                            /\ y.producer = x.producer /\ y.refs = x.refs - 1 /\ y.uses = x.uses - 1
<1> DEFINE x1 == [x EXCEPT !.refs = @ - 1, !.uses = @ - 1]
<1>1. x.refs \in Nat /\ x.uses \in Nat /\ x.refs - 1 \in Nat /\ x.uses - 1 \in Nat
  BY DEF EventEntry
<1>2. /\ x1 \in EventEntry /\ x1.status = x.status /\ x1.launch = x.launch /\ x1.managed /\ x1.bound = x.bound
      /\ x1.producer = x.producer /\ x1.refs = x.refs - 1 /\ x1.uses = x.uses - 1
  BY <1>1 DEF EventEntry
<1>3. x.status # "PENDING"
  BY DEF Terminal
<1>4. DropUse(x) = Reclaimed(x1)
  BY DEF DropUse
<1> HIDE DEF x1
<1>5. Reclaimed(x1) = IF x.uses = 1 THEN NoEntry ELSE x1
  BY <1>1, <1>2, <1>3 DEF Reclaimed
<1> QED
  BY <1>1, <1>2, <1>4, <1>5, NoEntryFacts

\* The entries that fault handling leaves: only a pending event of a producer in
\* flight keeps its slot, without uses.
CancelledEntry(x, out) ==
    IF x.status = "PENDING" /\ ~out THEN [x EXCEPT !.refs = 0, !.uses = 0] ELSE NoEntry

\* The three stages of cancel_context on one entry: d says whether it is one of the
\* dependencies, k how often.
LEMMA CancelEntryFacts ==
    ASSUME NEW x \in EventEntry, x.managed, x.status # "ABSENT", x.refs <= x.uses,
           NEW out \in BOOLEAN, NEW d \in BOOLEAN, x.refs # 0 <=> d
    PROVE  LET y == IF out THEN CancelOutput(x) ELSE x
               z == IF d THEN Reclaimed([y EXCEPT !.refs = @ - x.refs, !.uses = @ - x.refs]) ELSE y
               w == IF z.managed THEN Reclaimed([z EXCEPT !.uses = 0]) ELSE z
           IN  w = CancelledEntry(x, out) /\ (z.status # "ABSENT" => z.managed /\ z.launch = x.launch)
<1> DEFINE y == IF out THEN CancelOutput(x) ELSE x
           z == IF d THEN Reclaimed([y EXCEPT !.refs = @ - x.refs, !.uses = @ - x.refs]) ELSE y
           w == IF z.managed THEN Reclaimed([z EXCEPT !.uses = 0]) ELSE z
           st == IF out /\ x.status = "PENDING" THEN "RESET" ELSE x.status
           x1 == [x EXCEPT !.status = st]
           x2 == [x EXCEPT !.status = st, !.refs = 0, !.uses = @ - x.refs]
           x3 == [x EXCEPT !.status = st, !.refs = 0, !.uses = 0]
<1>1. st \in EventStatus /\ st # "ABSENT" /\ (st = "PENDING" <=> x.status = "PENDING" /\ ~out)
  BY DEF EventEntry, EventStatus, Terminal
<1>2. x.refs \in Nat /\ x.uses \in Nat /\ x.uses - x.refs \in Nat
  BY DEF EventEntry
<1> HIDE DEF st
<1>3. x1 \in EventEntry /\ x2 \in EventEntry /\ x3 \in EventEntry
  BY <1>1, <1>2 DEF EventEntry
<1>4. /\ x1.managed /\ x2.managed /\ x3.managed
      /\ x1.status = st /\ x2.status = st /\ x3.status = st
      /\ x1.refs = x.refs /\ x1.uses = x.uses /\ x2.refs = 0 /\ x2.uses = x.uses - x.refs
      /\ x3.refs = 0 /\ x3.uses = 0
      /\ x1.launch = x.launch /\ x2.launch = x.launch /\ x3.launch = x.launch
  BY <1>1, <1>2 DEF EventEntry
<1>5. /\ ~out => x = x1
      /\ x.refs = 0 => x1 = x2
      /\ [x1 EXCEPT !.refs = @ - x.refs, !.uses = @ - x.refs] = x2
      /\ [x2 EXCEPT !.uses = 0] = x3
  <2>1. ~out => x = x1
    BY DEF EventEntry, st
  <2>2. ASSUME x.refs = 0 PROVE x1 = x2
    <3>1. x.uses - x.refs = x.uses
      BY <1>2, <2>2
    <3>2. x2 = [x EXCEPT !.status = st, !.refs = 0, !.uses = x.uses]
      BY <3>1
    <3> QED
      BY <2>2, <3>2 DEF EventEntry
  <2>3. x.refs - x.refs = 0
    BY <1>2
  <2>4. [x1 EXCEPT !.refs = @ - x.refs, !.uses = @ - x.refs] = x2
    BY <1>2, <2>3 DEF EventEntry
  <2>5. [x2 EXCEPT !.uses = 0] = x3
    BY DEF EventEntry
  <2> QED
    BY <2>1, <2>2, <2>4, <2>5
<1>6. y = IF out THEN Reclaimed(x1) ELSE x1
  BY <1>5 DEF CancelOutput, st
<1>7. CASE y = NoEntry /\ y # x1
  <2>1. x.refs = 0 /\ x.uses = 0 /\ out /\ st # "PENDING" /\ ~d
    BY <1>4, <1>6, <1>7 DEF Reclaimed
  <2>2. z = NoEntry /\ w = NoEntry
    BY <1>7, <2>1, NoEntryFacts
  <2> QED
    BY <1>1, <2>1, <2>2, NoEntryFacts DEF CancelledEntry
<1>8. CASE y = x1
  <2>1. z = IF d THEN Reclaimed(x2) ELSE x2
    BY <1>5, <1>8
  <2>2. CASE z = NoEntry /\ z # x2
    <3>1. st # "PENDING" /\ w = NoEntry
      BY <1>4, <2>1, <2>2, NoEntryFacts DEF Reclaimed
    <3> QED
      BY <1>1, <2>2, <3>1, NoEntryFacts DEF CancelledEntry
  <2>3. CASE z = x2
    <3>1. w = Reclaimed(x3)
      BY <1>4, <1>5, <2>3
    <3>2. w = IF st = "PENDING" THEN x3 ELSE NoEntry
      BY <1>4, <3>1 DEF Reclaimed
    <3>3. st = "PENDING" => x3 = [x EXCEPT !.refs = 0, !.uses = 0]
      BY <1>1 DEF EventEntry
    <3> QED
      BY <1>1, <1>4, <2>3, <3>2, <3>3 DEF CancelledEntry
  <2> QED
    BY <2>1, <2>2, <2>3 DEF Reclaimed
<1> QED
  BY <1>6, <1>7, <1>8 DEF Reclaimed

-----------------------------------------------------------------------------
(* The table of one launch.                                                *)

\* The number of pins when an action joins or leaves the queue.
LEMMA PinFacts ==
    ASSUME NEW l \in Launches, NEW n, NEW Q, Q \subseteq 1 .. Size(l)
    PROVE  /\ IsFiniteSet(Pins(l, n, Q)) /\ Cardinality(Pins(l, n, Q)) \in Nat
           /\ Cardinality(Pins(l, n, Q)) = 0 <=> Pins(l, n, Q) = {}
           /\ \A i \in (1 .. Size(l)) \ Q :
                 Cardinality(Pins(l, n, Q \cup {i})) =
                    Cardinality(Pins(l, n, Q)) + IF n \in Act(l, i).deps THEN 1 ELSE 0
           /\ \A i \in Q :
                 Cardinality(Pins(l, n, Q \ {i})) =
                    Cardinality(Pins(l, n, Q)) - IF n \in Act(l, i).deps THEN 1 ELSE 0
<1>1. IsFiniteSet(1 .. Size(l)) /\ Pins(l, n, Q) \in SUBSET (1 .. Size(l))
  <2>1. Size(l) \in Nat
    BY ProgramFacts
  <2>2. IsFiniteSet(1 .. Size(l))
    BY <2>1, FS_Interval
  <2> QED
    BY <2>2 DEF Pins
<1>2. IsFiniteSet(Pins(l, n, Q))
  BY <1>1, FS_Subset
<1>3. Cardinality(Pins(l, n, Q)) \in Nat /\ (Cardinality(Pins(l, n, Q)) = 0 <=> Pins(l, n, Q) = {})
  BY <1>2, FS_CardinalityType, FS_EmptySet
<1>4. ASSUME NEW i \in (1 .. Size(l)) \ Q
      PROVE  Cardinality(Pins(l, n, Q \cup {i})) =
                Cardinality(Pins(l, n, Q)) + IF n \in Act(l, i).deps THEN 1 ELSE 0
  <2>1. CASE n \in Act(l, i).deps
    <3>1. Pins(l, n, Q \cup {i}) = Pins(l, n, Q) \cup {i} /\ i \notin Pins(l, n, Q)
      BY <2>1 DEF Pins
    <3> QED
      BY <1>2, <2>1, <3>1, FS_AddElement
  <2>2. CASE n \notin Act(l, i).deps
    <3>1. Pins(l, n, Q \cup {i}) = Pins(l, n, Q)
      BY <2>2 DEF Pins
    <3> QED
      BY <1>3, <2>2, <3>1
  <2> QED
    BY <2>1, <2>2
<1>5. ASSUME NEW i \in Q
      PROVE  Cardinality(Pins(l, n, Q \ {i})) =
                Cardinality(Pins(l, n, Q)) - IF n \in Act(l, i).deps THEN 1 ELSE 0
  <2>1. CASE n \in Act(l, i).deps
    <3>1. Pins(l, n, Q \ {i}) = Pins(l, n, Q) \ {i} /\ i \in Pins(l, n, Q)
      BY <2>1 DEF Pins
    <3> QED
      BY <1>2, <2>1, <3>1, FS_RemoveElement
  <2>2. CASE n \notin Act(l, i).deps
    <3>1. Pins(l, n, Q \ {i}) = Pins(l, n, Q)
      BY <2>2 DEF Pins
    <3> QED
      BY <1>3, <2>2, <3>1
  <2> QED
    BY <2>1, <2>2
<1> QED
  BY <1>2, <1>3, <1>4, <1>5

\* A queued consumer pins what it reads.
LEMMA PinnedFacts ==
    ASSUME NEW l \in Launches, NEW e, NEW Q, Q \subseteq 1 .. Size(l), Booked(l, e, Q)
    PROVE  \A i \in Q : \A n \in Act(l, i).deps :
              /\ n \in Own(l) /\ e[n].refs \in Nat \ {0} /\ e[n].uses \in Nat \ {0}
              /\ e[n].status # "ABSENT"
<1> SUFFICES ASSUME NEW i \in Q, NEW n \in Act(l, i).deps
             PROVE  /\ n \in Own(l) /\ e[n].refs \in Nat \ {0} /\ e[n].uses \in Nat \ {0}
                    /\ e[n].status # "ABSENT"
  OBVIOUS
<1>1. n \in Own(l)
  BY MadeFacts
<1>2. i \in Pins(l, n, Q)
  BY DEF Pins
<1>3. e[n].refs \in Nat \ {0}
  <2>1. /\ Cardinality(Pins(l, n, Q)) \in Nat
        /\ Cardinality(Pins(l, n, Q)) = 0 <=> Pins(l, n, Q) = {}
    BY PinFacts
  <2>2. e[n].refs = Cardinality(Pins(l, n, Q))
    BY <1>1 DEF Booked
  <2> QED
    BY <1>2, <2>1, <2>2
<1>4. e[n].uses \in Nat \ {0}
  BY <1>1, <1>3 DEF Booked, EventEntry
<1>5. e[n].status # "ABSENT"
  BY <1>1, <1>3, NoEntryFacts DEF Booked
<1> QED
  BY <1>1, <1>3, <1>4, <1>5

\* The pending events in S, of actions outside Q, are signalled.
Signals(l, e, f, S, st, Q) ==
    /\ f = [n \in Names |-> IF n \in S THEN SignalEntry(e[n], st, e[n].producer) ELSE e[n]]
    /\ st \in Terminal
    /\ S \subseteq Own(l)
    /\ \A m \in S : e[m].status = "PENDING" /\ Made(l, m) \notin Q

SignalOne(e, m, st) == [e EXCEPT ![m] = SignalEntry(@, st, @.producer)]

\* A signal keeps the entries of the launch in order.
LEMMA SignalBooked ==
    ASSUME NEW l \in Launches, NEW e \in [Names -> EventEntry], NEW Q, Booked(l, e, Q),
           Q \subseteq 1 .. Size(l), NEW f, NEW S, NEW st, Signals(l, e, f, S, st, Q)
    PROVE  /\ f \in [Names -> EventEntry] /\ Booked(l, f, Q)
           /\ \A n \in Names \ S : f[n] = e[n]
           /\ \A n \in S : /\ e[n].uses = 0 => f[n] = NoEntry
                           /\ e[n].uses # 0 => f[n].status = st /\ f[n].uses = e[n].uses
<1>1. /\ Own(l) \subseteq Names /\ st \in Terminal /\ S \subseteq Own(l)
      /\ \A m \in S : e[m].status = "PENDING" /\ Made(l, m) \notin Q
  BY ProgramFacts DEF Signals
<1>2. \A m \in S : e[m] \in EventEntry /\ e[m].managed /\ e[m].refs <= e[m].uses
  BY <1>1 DEF Booked
<1>3. \A m \in S :
      /\ f[m] \in EventEntry
      /\ e[m].uses = 0 => f[m] = NoEntry
      /\ e[m].uses # 0 => /\ f[m].status = st /\ f[m].launch = e[m].launch /\ f[m].managed /\ f[m].bound = e[m].bound
                          /\ f[m].producer = e[m].producer /\ f[m].refs = e[m].refs /\ f[m].uses = e[m].uses
  <2> SUFFICES ASSUME NEW m \in S
               PROVE  /\ f[m] \in EventEntry
                      /\ e[m].uses = 0 => f[m] = NoEntry
                      /\ e[m].uses # 0 => /\ f[m].status = st /\ f[m].launch = e[m].launch /\ f[m].managed
                                          /\ f[m].bound = e[m].bound /\ f[m].producer = e[m].producer
                                          /\ f[m].refs = e[m].refs /\ f[m].uses = e[m].uses
    OBVIOUS
  <2>1. f[m] = SignalEntry(e[m], st, e[m].producer)
    BY <1>1 DEF Signals
  <2> QED
    BY <1>1, <1>2, <2>1, SignalFacts
<1>4. \A n \in Names \ S : f[n] = e[n]
  BY DEF Signals
<1>5. f \in [Names -> EventEntry]
  <2>1. \A n \in Names : f[n] \in EventEntry
    BY <1>3, <1>4
  <2> QED
    BY <2>1 DEF Signals
<1>6. \A m \in S : e[m].uses = 0 => e[m].refs = 0
  BY <1>2 DEF EventEntry
<1>7. \A i \in Q : \A n \in Outputs(Act(l, i)) : n \notin S /\ n \in Names
  BY <1>1, MadeFacts
<1>8. st # "ABSENT"
  BY <1>1 DEF Terminal
<1>9. ASSUME NEW n \in Own(l)
      PROVE  /\ f[n] \in EventEntry
             /\ f[n].status = "ABSENT" => f[n] = NoEntry
             /\ f[n].status # "ABSENT" =>
                   f[n].launch = l /\ f[n].managed /\ f[n].bound /\ f[n].producer = Made(l, n)
             /\ f[n].refs = Cardinality(Pins(l, n, Q))
             /\ f[n].refs <= f[n].uses
  <2>1. CASE n \notin S
    BY <1>1, <1>4, <2>1 DEF Booked
  <2>2. CASE n \in S /\ e[n].uses = 0
    <3>1. f[n] = NoEntry /\ Cardinality(Pins(l, n, Q)) = 0
      BY <1>3, <1>6, <2>2 DEF Booked
    <3> QED
      BY <3>1, NoEntryFacts
  <2>3. CASE n \in S /\ e[n].uses # 0
    BY <1>1, <1>3, <1>8, <2>3 DEF Booked
  <2> QED
    BY <2>1, <2>2, <2>3
<1>10. Booked(l, f, Q)
  BY <1>4, <1>7, <1>9 DEF Booked
<1> QED
  BY <1>3, <1>4, <1>5, <1>10

\* consume_dependencies when action i leaves the queue.
Consumes(l, e, f, Q, i) ==
    /\ f = DropUsesE(e, Act(l, i).deps)
    /\ i \in Q
    /\ \A n \in Act(l, i).deps : e[n].status \in Terminal
    /\ \A j \in Q : \A n \in Outputs(Act(l, j)) : e[n].status = "PENDING"

\* So does the issue of a queued action, which takes one pin and one use of each dependency.
LEMMA ConsumeBooked ==
    ASSUME NEW l \in Launches, NEW e \in [Names -> EventEntry], NEW Q, Booked(l, e, Q),
           Q \subseteq 1 .. Size(l), NEW f, NEW i, Consumes(l, e, f, Q, i)
    PROVE  /\ f \in [Names -> EventEntry] /\ Booked(l, f, Q \ {i})
           /\ \A n \in Names \ Act(l, i).deps : f[n] = e[n]
           /\ \A n \in Act(l, i).deps :
                 /\ n \in Own(l) /\ e[n].uses \in Nat \ {0}
                 /\ e[n].uses = 1 => f[n] = NoEntry
                 /\ e[n].uses # 1 => f[n].status = e[n].status
                 /\ f[n].uses = e[n].uses - 1
<1>0. /\ f = DropUsesE(e, Act(l, i).deps) /\ i \in Q
      /\ \A n \in Act(l, i).deps : e[n].status \in Terminal
      /\ \A j \in Q : \A n \in Outputs(Act(l, j)) : e[n].status = "PENDING"
  BY DEF Consumes
<1> USE <1>0
<1> DEFINE D == Act(l, i).deps
<1>1. Own(l) \subseteq Names /\ D \subseteq Own(l)
  BY ProgramFacts, MadeFacts
<1>2. \A n \in D : /\ e[n] \in EventEntry /\ e[n].managed /\ e[n].refs <= e[n].uses /\ e[n].launch = l
                    /\ e[n].bound /\ e[n].producer = Made(l, n)
                    /\ e[n].refs # 0 /\ e[n].uses \in Nat \ {0}
  <2>1. \A n \in D : /\ e[n].status # "ABSENT" /\ e[n].refs \in Nat \ {0} /\ e[n].uses \in Nat \ {0}
                      /\ n \in Own(l)
    BY PinnedFacts
  <2> HIDE DEF D
  <2> QED
    BY <2>1 DEF Booked
<1>3. \A n \in Names : f[n] = IF n \in D THEN DropUse(e[n]) ELSE e[n]
  BY DEF DropUsesE
<1> HIDE DEF D
<1>4. \A n \in D :
         /\ f[n] \in EventEntry
         /\ e[n].uses = 1 => f[n] = NoEntry /\ e[n].refs = 1
         /\ e[n].uses # 1 => /\ f[n].status = e[n].status /\ f[n].launch = e[n].launch /\ f[n].managed
                             /\ f[n].bound = e[n].bound /\ f[n].producer = e[n].producer
                             /\ f[n].refs = e[n].refs - 1 /\ f[n].uses = e[n].uses - 1
  <2> SUFFICES ASSUME NEW n \in D
               PROVE  /\ f[n] \in EventEntry
                      /\ e[n].uses = 1 => f[n] = NoEntry /\ e[n].refs = 1
                      /\ e[n].uses # 1 => /\ f[n].status = e[n].status /\ f[n].launch = e[n].launch /\ f[n].managed
                                          /\ f[n].bound = e[n].bound /\ f[n].producer = e[n].producer
                                          /\ f[n].refs = e[n].refs - 1 /\ f[n].uses = e[n].uses - 1
    OBVIOUS
  <2>1. f[n] = DropUse(e[n]) /\ e[n].status \in Terminal
    BY <1>1, <1>3 DEF D
  <2> QED
    BY <1>2, <2>1, DropFacts
<1>5. \A n \in D : f[n].refs = e[n].refs - 1 /\ f[n].uses = e[n].uses - 1
  BY <1>4, NoEntryFacts
<1>6. f \in [Names -> EventEntry]
  <2>1. \A n \in Names : f[n] \in EventEntry
    BY <1>3, <1>4
  <2> QED
    BY <2>1 DEF DropUsesE
<1>7. \A j \in Q : \A n \in Outputs(Act(l, j)) : n \notin D /\ n \in Names
  BY <1>1, MadeFacts DEF Terminal, D
<1>8. ASSUME NEW n \in Own(l)
      PROVE  /\ f[n] \in EventEntry
             /\ f[n].status = "ABSENT" => f[n] = NoEntry
             /\ f[n].status # "ABSENT" =>
                   f[n].launch = l /\ f[n].managed /\ f[n].bound /\ f[n].producer = Made(l, n)
             /\ f[n].refs = Cardinality(Pins(l, n, Q \ {i}))
             /\ f[n].refs <= f[n].uses
  <2>1. /\ e[n].refs = Cardinality(Pins(l, n, Q)) /\ e[n] \in EventEntry /\ e[n].refs <= e[n].uses
        /\ e[n].refs \in Nat /\ e[n].uses \in Nat
    BY DEF Booked, EventEntry
  <2>2. Cardinality(Pins(l, n, Q \ {i})) = e[n].refs - IF n \in D THEN 1 ELSE 0
    <3>1. Cardinality(Pins(l, n, Q \ {i})) =
             Cardinality(Pins(l, n, Q)) - IF n \in Act(l, i).deps THEN 1 ELSE 0
      BY PinFacts
    <3> QED
      BY <2>1, <3>1 DEF D
  <2>3. CASE n \notin D
    BY <1>1, <1>3, <2>1, <2>2, <2>3 DEF Booked
  <2>4. CASE n \in D /\ e[n].uses = 1
    BY <1>4, <1>5, <2>1, <2>2, <2>4, NoEntryFacts
  <2>5. CASE n \in D /\ e[n].uses # 1
    <3>1. e[n].status # "ABSENT"
      BY <2>5 DEF Terminal, D
    <3> QED
      BY <1>2, <1>4, <1>5, <2>1, <2>2, <2>5, <3>1
  <2> QED
    BY <2>3, <2>4, <2>5
<1>9. Booked(l, f, Q \ {i})
  <2>1. \A j \in Q \ {i} : \A n \in Outputs(Act(l, j)) : f[n].status # "ABSENT"
    BY <1>3, <1>7
  <2> QED
    BY <1>8, <2>1 DEF Booked
<1> QED
  BY <1>1, <1>2, <1>3, <1>4, <1>5, <1>6, <1>9 DEF D

\* cancel_context: see CancelledEntry.
LEMMA CancelBooked ==
    ASSUME NEW l \in Launches, NEW e \in [Names -> EventEntry], Booked(l, e, ctx[l].queued),
           ctx[l].queued \subseteq 1 .. Size(l),
           \A n \in Names \ Own(l) : e[n].status = "ABSENT" \/ e[n].launch # l
    PROVE  /\ CancelContextE(e, l) \in [Names -> EventEntry]
           /\ \A n \in Names \ Own(l) : CancelContextE(e, l)[n] = e[n]
           /\ \A n \in Own(l) :
                 CancelContextE(e, l)[n] = CancelledEntry(e[n], Made(l, n) \in ctx[l].queued)
<1> DEFINE Q == ctx[l].queued
           outs == UNION {Outputs(Programs[l][i]) : i \in Q}
           deps == UNION {Programs[l][i].deps : i \in Q}
           e1 == CancelOutputsE(e, outs)
           e2 == [n \in Names |->
                    IF n \in deps
                    THEN Reclaimed([e1[n] EXCEPT !.refs = @ - QueuedUses(l, n),
                                                 !.uses = @ - QueuedUses(l, n)])
                    ELSE e1[n]]
           c == CancelContextE(e, l)
<1>1. c = AbandonE(e2, l)
  BY DEF CancelContextE
<1>2. \A n : n \in outs <=> \E i \in Q : n \in Outputs(Act(l, i))
  BY DEF Act
<1>3. \A n : n \in deps <=> \E i \in Q : n \in Act(l, i).deps
  BY DEF Act
<1>4. Own(l) \subseteq Names
  BY ProgramFacts
<1>5. outs \subseteq Own(l) /\ \A n \in Own(l) : n \in outs <=> Made(l, n) \in Q
  BY <1>2, MadeFacts
<1>6. deps \subseteq Own(l) /\ \A n \in Own(l) : n \in deps <=> e[n].refs # 0
  <2>1. deps \subseteq Own(l)
    BY <1>3, MadeFacts
  <2>2. \A n \in Own(l) : n \in deps <=> Pins(l, n, Q) # {}
    BY <1>3 DEF Pins
  <2> QED
    BY <2>1, <2>2, PinFacts DEF Booked
<1>7. \A n \in Own(l) : QueuedUses(l, n) = e[n].refs
  BY DEF QueuedUses, Booked, Pins, Act
<1>8. /\ \A n \in Names : e1[n] = IF n \in outs THEN CancelOutput(e[n]) ELSE e[n]
      /\ \A n \in Names : e2[n] = IF n \in deps
                                  THEN Reclaimed([e1[n] EXCEPT !.refs = @ - QueuedUses(l, n),
                                                               !.uses = @ - QueuedUses(l, n)])
                                  ELSE e1[n]
  BY DEF CancelOutputsE
<1> HIDE DEF outs, deps, e1, e2, c
<1>9. /\ DOMAIN c = Names /\ c = [n \in Names |-> c[n]]
      /\ \A n \in Names : c[n] = IF n \in ManagedOf(e2, l) THEN Reclaimed([e2[n] EXCEPT !.uses = 0]) ELSE e2[n]
  BY <1>1 DEF AbandonE
<1>10. \A n \in Names : n \in ManagedOf(e2, l) <=> e2[n].status # "ABSENT" /\ e2[n].launch = l /\ e2[n].managed
  BY DEF ManagedOf, OwnedBy, Live
<1>11. ASSUME NEW n \in Names \ Own(l) PROVE c[n] = e[n]
  <2>1. e2[n] = e[n]
    BY <1>5, <1>6, <1>8, <1>11
  <2> QED
    BY <1>9, <1>10, <1>11, <2>1
<1>12. ASSUME NEW n \in Own(l) PROVE c[n] = CancelledEntry(e[n], Made(l, n) \in Q)
  <2>1. n \in Names /\ e[n] \in EventEntry
    BY <1>4
  <2>2. CASE e[n].status = "ABSENT"
    <3>1. e[n] = NoEntry
      BY <2>2 DEF Booked
    <3>2. n \notin outs /\ n \notin deps
      BY <1>2, <1>6, <2>2, <3>1, NoEntryFacts DEF Booked
    <3>3. e2[n] = NoEntry
      BY <1>8, <2>1, <3>1, <3>2
    <3>4. c[n] = NoEntry
      BY <1>9, <1>10, <2>1, <3>3, NoEntryFacts
    <3> QED
      BY <2>2, <3>4 DEF CancelledEntry
  <2>3. CASE e[n].status # "ABSENT"
    <3> DEFINE x == e[n]
               out == Made(l, n) \in Q
               d == n \in deps
               y == IF out THEN CancelOutput(x) ELSE x
               z == IF d THEN Reclaimed([y EXCEPT !.refs = @ - x.refs, !.uses = @ - x.refs]) ELSE y
               w == IF z.managed THEN Reclaimed([z EXCEPT !.uses = 0]) ELSE z
    <3>1. x.managed /\ x.launch = l /\ x.refs <= x.uses /\ (x.refs # 0 <=> d)
      BY <1>6, <2>3 DEF Booked
    <3>2. w = CancelledEntry(x, out) /\ (z.status # "ABSENT" => z.managed /\ z.launch = x.launch)
      <4> HIDE DEF x, out, d
      <4>1. x \in EventEntry /\ x.status # "ABSENT" /\ out \in BOOLEAN /\ d \in BOOLEAN
        BY <2>1, <2>3 DEF x, out, d
      <4> QED
        BY <3>1, <4>1, CancelEntryFacts
    <3>3. e1[n] = y
      BY <1>5, <1>8, <2>1
    <3>4. e2[n] = z
      <4> HIDE DEF y
      <4> QED
        BY <1>7, <1>8, <2>1, <3>3
    <3>5. z.status = "ABSENT" => ~z.managed
      <4>1. x.status # "ABSENT"
        BY <2>3
      <4>2. y = NoEntry \/ y.status # "ABSENT"
        <5>1. x \in EventEntry
          BY <2>1
        <5> HIDE DEF x, out
        <5> QED
          BY <4>1, <5>1 DEF CancelOutput, Reclaimed, EventEntry
      <4>3. d => y.status # "ABSENT"
        <5> HIDE DEF out, d
        <5>1. x \in EventEntry
          BY <2>1
        <5> HIDE DEF x
        <5>2. d => x.refs # 0
          BY <3>1
        <5> QED
          BY <4>1, <5>1, <5>2 DEF CancelOutput, Reclaimed, EventEntry
      <4>4. d => y \in EventEntry
        <5>1. x \in EventEntry
          BY <2>1
        <5> HIDE DEF x, out, d
        <5> QED
          BY <4>1, <5>1, NoEntryFacts DEF CancelOutput, Reclaimed, EventEntry, EventStatus, Terminal
      <4> HIDE DEF y, x, d
      <4> QED
        BY <4>2, <4>3, <4>4, NoEntryFacts DEF Reclaimed, EventEntry
    <3>6. c[n] = w
      <4> HIDE DEF z
      <4>1. n \in ManagedOf(e2, l) <=> z.managed
        BY <1>10, <2>1, <3>1, <3>2, <3>4, <3>5
      <4> QED
        BY <1>9, <2>1, <3>4, <4>1
    <3> QED
      BY <3>2, <3>6
  <2> QED
    BY <2>2, <2>3
<1>13. \A n \in Names : c[n] \in EventEntry
  <2> SUFFICES ASSUME NEW n \in Names PROVE c[n] \in EventEntry
    OBVIOUS
  <2>1. CASE n \notin Own(l)
    BY <1>11, <2>1
  <2>2. CASE n \in Own(l)
    <3> DEFINE x == e[n]
    <3>1. x \in EventEntry
      OBVIOUS
    <3>2. c[n] = CancelledEntry(x, Made(l, n) \in Q)
      BY <1>12, <2>2
    <3> HIDE DEF x
    <3>3. [x EXCEPT !.refs = 0, !.uses = 0] \in EventEntry
      BY <3>1 DEF EventEntry
    <3> QED
      BY <3>2, <3>3, NoEntryFacts DEF CancelledEntry
  <2> QED
    BY <2>1, <2>2
<1>14. c \in [Names -> EventEntry]
  BY <1>9, <1>13
<1> QED
  BY <1>11, <1>12, <1>14 DEF c

\* preflight_action passed: the outputs of action i are reserved and bound, and its
\* dependencies pinned.
Reserves(l, e, f, Q, i) ==
    /\ f = AddConsumersE(BindE(ReserveOutputsE(e, l, Outputs(Act(l, i))), Outputs(Act(l, i)), i),
                         Act(l, i).deps)
    /\ i \in (1 .. Size(l)) \ Q
    /\ \A n \in Outputs(Act(l, i)) : e[n].status = "ABSENT"
    /\ \A n \in Act(l, i).deps : e[n].status # "ABSENT" /\ e[n].refs < e[n].uses

\* So does a registration, whose outputs are pending with all their uses.
LEMMA RegisterBooked ==
    ASSUME NEW l \in Launches, NEW e \in [Names -> EventEntry], NEW Q, Booked(l, e, Q),
           Q \subseteq 1 .. Size(l), NEW f, NEW i, Reserves(l, e, f, Q, i)
    PROVE  /\ f \in [Names -> EventEntry] /\ Booked(l, f, Q \cup {i})
           /\ \A n \in Names \ (Outputs(Act(l, i)) \cup Act(l, i).deps) : f[n] = e[n]
           /\ \A n \in Outputs(Act(l, i)) :
                 f[n].status = "PENDING" /\ f[n].uses = Cardinality(Consumers(Programs[l], n))
           /\ \A n \in Act(l, i).deps : f[n].status = e[n].status /\ f[n].uses = e[n].uses
<1>0. /\ f = AddConsumersE(BindE(ReserveOutputsE(e, l, Outputs(Act(l, i))), Outputs(Act(l, i)), i),
                           Act(l, i).deps)
      /\ i \in (1 .. Size(l)) \ Q
      /\ \A n \in Outputs(Act(l, i)) : e[n].status = "ABSENT"
      /\ \A n \in Act(l, i).deps : e[n].status # "ABSENT" /\ e[n].refs < e[n].uses
  BY DEF Reserves
<1> USE <1>0
<1> DEFINE O == Outputs(Act(l, i))
           D == Act(l, i).deps
           new(n) == [FreshEntry(l, TRUE) EXCEPT !.uses = EventUses[l][n], !.bound = TRUE, !.producer = i]
<1>1. Own(l) \subseteq Names /\ D \subseteq Own(l) /\ O \subseteq Own(l)
  BY ProgramFacts, MadeFacts
<1>2. \A n \in D : n \notin O
  BY MadeFacts
<1>3. \A n \in O : EventUses[l][n] = Cardinality(Consumers(Programs[l], n)) /\ EventUses[l][n] \in Nat
  <2>1. EventUses[l] = Uses(Programs[l]) /\ DOMAIN EventUses[l] = Own(l)
    BY ProgramFacts
  <2>2. \A n \in Own(l) : EventUses[l][n] \in Nat
    BY <2>1, UsesAssumption
  <2>3. \A n \in Own(l) : EventUses[l][n] = Cardinality(Consumers(Programs[l], n))
    BY <2>1 DEF Uses, Consumers, Own
  <2> QED
    BY <1>1, <2>2, <2>3
<1>4. \A n \in Names : f[n] = IF n \in O THEN new(n)
                              ELSE IF n \in D THEN [e[n] EXCEPT !.refs = @ + 1] ELSE e[n]
  <2> SUFFICES ASSUME NEW n \in Names
               PROVE  f[n] = IF n \in O THEN new(n)
                             ELSE IF n \in D THEN [e[n] EXCEPT !.refs = @ + 1] ELSE e[n]
    OBVIOUS
  <2>1. CASE n \in O
    <3>1. n \notin D
      BY <1>2, <2>1
    <3> QED
      BY <2>1, <3>1 DEF AddConsumersE, BindE, ReserveOutputsE, FreshEntry
  <2>2. CASE n \notin O
    BY <2>2 DEF AddConsumersE, BindE, ReserveOutputsE
  <2> QED
    BY <2>1, <2>2
<1>5. i \in Nat
  BY ProgramFacts
<1>6. \A n \in O : /\ f[n] \in EventEntry /\ f[n].status = "PENDING" /\ f[n].launch = l /\ f[n].managed
                    /\ f[n].bound /\ f[n].producer = i /\ f[n].refs = 0
                    /\ f[n].uses = Cardinality(Consumers(Programs[l], n)) /\ f[n].uses \in Nat
  <2> SUFFICES ASSUME NEW n \in O
               PROVE  /\ f[n] \in EventEntry /\ f[n].status = "PENDING" /\ f[n].launch = l /\ f[n].managed
                      /\ f[n].bound /\ f[n].producer = i /\ f[n].refs = 0
                      /\ f[n].uses = Cardinality(Consumers(Programs[l], n)) /\ f[n].uses \in Nat
    OBVIOUS
  <2>1. f[n] = new(n)
    BY <1>1, <1>4
  <2> HIDE DEF O
  <2>2. /\ new(n) \in EventEntry /\ new(n).status = "PENDING" /\ new(n).launch = l /\ new(n).managed
        /\ new(n).bound /\ new(n).producer = i /\ new(n).refs = 0 /\ new(n).uses = EventUses[l][n]
    BY <1>3, <1>5 DEF EventEntry, FreshEntry, EventStatus
  <2> QED
    BY <1>3, <2>1, <2>2
<1>7. \A n \in D : /\ f[n] \in EventEntry /\ f[n].status = e[n].status /\ f[n].launch = e[n].launch
                    /\ f[n].managed = e[n].managed /\ f[n].bound = e[n].bound /\ f[n].producer = e[n].producer
                    /\ f[n].refs = e[n].refs + 1 /\ f[n].uses = e[n].uses
  <2> SUFFICES ASSUME NEW n \in D
               PROVE  /\ f[n] \in EventEntry /\ f[n].status = e[n].status /\ f[n].launch = e[n].launch
                      /\ f[n].managed = e[n].managed /\ f[n].bound = e[n].bound /\ f[n].producer = e[n].producer
                      /\ f[n].refs = e[n].refs + 1 /\ f[n].uses = e[n].uses
    OBVIOUS
  <2>1. f[n] = [e[n] EXCEPT !.refs = @ + 1] /\ e[n] \in EventEntry
    BY <1>1, <1>2, <1>4
  <2> QED
    BY <2>1 DEF EventEntry
<1> HIDE DEF O, D, new
<1>8. f \in [Names -> EventEntry]
  <2>1. \A n \in Names : f[n] \in EventEntry
    <3> SUFFICES ASSUME NEW n \in Names PROVE f[n] \in EventEntry
      OBVIOUS
    <3>1. n \in O \/ n \in D \/ f[n] = e[n]
      BY <1>4
    <3> QED
      BY <1>6, <1>7, <3>1
  <2> QED
    BY <2>1 DEF AddConsumersE
<1>9. ASSUME NEW n \in Own(l)
      PROVE  /\ f[n] \in EventEntry
             /\ f[n].status = "ABSENT" => f[n] = NoEntry
             /\ f[n].status # "ABSENT" =>
                   f[n].launch = l /\ f[n].managed /\ f[n].bound /\ f[n].producer = Made(l, n)
             /\ f[n].refs = Cardinality(Pins(l, n, Q \cup {i}))
             /\ f[n].refs <= f[n].uses
  <2>1. /\ e[n].refs = Cardinality(Pins(l, n, Q)) /\ e[n] \in EventEntry /\ e[n].refs <= e[n].uses
        /\ e[n].refs \in Nat /\ e[n].uses \in Nat
    BY DEF Booked, EventEntry
  <2>2. Cardinality(Pins(l, n, Q \cup {i})) = e[n].refs + IF n \in D THEN 1 ELSE 0
    <3>1. \A k \in (1 .. Size(l)) \ Q :
             Cardinality(Pins(l, n, Q \cup {k})) =
                Cardinality(Pins(l, n, Q)) + IF n \in Act(l, k).deps THEN 1 ELSE 0
      BY PinFacts
    <3> QED
      BY <2>1, <3>1 DEF D
  <2>3. CASE n \in O
    <3>1. e[n] = NoEntry /\ n \notin D /\ Made(l, n) = i
      BY <1>2, <2>3, MadeFacts DEF Booked, O
    <3> QED
      BY <1>6, <2>2, <2>3, <3>1, NoEntryFacts
  <2>4. CASE n \in D
    <3>1. e[n].status # "ABSENT" /\ e[n].refs < e[n].uses
      BY <2>4 DEF D
    <3> QED
      BY <1>7, <2>1, <2>2, <2>4, <3>1 DEF Booked
  <2>5. CASE n \notin O /\ n \notin D
    <3>1. f[n] = e[n]
      BY <1>1, <1>4, <2>5
    <3> QED
      BY <2>1, <2>2, <2>5, <3>1 DEF Booked
  <2> QED
    BY <2>3, <2>4, <2>5
<1>10. \A j \in Q \cup {i} : \A n \in Outputs(Act(l, j)) : f[n].status # "ABSENT"
  <2> SUFFICES ASSUME NEW j \in Q \cup {i}, NEW n \in Outputs(Act(l, j)) PROVE f[n].status # "ABSENT"
    OBVIOUS
  <2>1. n \in Own(l) /\ Made(l, n) = j /\ n \in Names
    BY <1>1, MadeFacts
  <2>2. CASE n \in O
    BY <1>6, <2>2
  <2>3. CASE n \notin O
    <3>1. e[n].status # "ABSENT"
      BY <2>3 DEF Booked, O
    <3> QED
      BY <1>4, <1>7, <2>1, <2>3, <3>1
  <2> QED
    BY <2>2, <2>3
<1>11. Booked(l, f, Q \cup {i})
  BY <1>9, <1>10 DEF Booked
<1>12. \A n \in Names \ (O \cup D) : f[n] = e[n]
  BY <1>4
<1> QED
  BY <1>6, <1>7, <1>8, <1>11, <1>12 DEF O, D

-----------------------------------------------------------------------------
(* What leaves the table alone, or empties it.                             *)

SameRun(x, y) ==
    /\ y \in ContextState
    /\ y.pc = x.pc /\ y.fence = x.fence /\ y.queued = x.queued /\ y.flying = x.flying
    /\ y.broken = x.broken /\ y.faulted = x.faulted /\ y.closed = x.closed

\* Another Context's step, or one that changes only what Good does not read.
LEMMA GoodSame ==
    ASSUME NEW l \in Launches, NEW e, NEW f, NEW q, NEW x, NEW y, NEW s, Good(l, e, q, x, s),
           \A n \in Own(l) : f[n] = e[n], SameRun(x, y), y.stage = x.stage
    PROVE  Good(l, f, q, y, s)
<1>1. \A i \in 1 .. Size(l) : \A n \in Outputs(Act(l, i)) : f[n] = e[n]
  BY MadeFacts
<1>2. Flow(l, x) /\ x.pc \in 1 .. Size(l) + 1 /\ Size(l) \in Nat /\ x.queued \subseteq 1 .. Size(l)
      /\ x.flying \subseteq 1 .. Size(l)
  BY ProgramFacts DEF Good, Flow, Running
<1>3. Flow(l, y) /\ FencesKept(l, y)
  BY DEF Good, Flow, FencesKept, Running, InUse, SameRun
<1>4. Booked(l, f, y.queued)
  BY <1>1, <1>2 DEF Good, Booked, SameRun
<1>5. Produced(l, f, y)
  BY DEF Good, Produced, InUse, SameRun
<1>6. StatusTrue(l, f, y, s)
  <2>1. \A i \in 1 .. Size(l) : \A n \in Act(l, i).dst : f[n] = e[n]
    BY <1>1 DEF Outputs
  <2> QED
    BY <1>1, <1>2, <2>1 DEF Good, StatusTrue, Running, SameRun
<1>7. \A n : Readers(l, n, y) = Readers(l, n, x)
  BY DEF Readers, SameRun
<1>8. UsesTrue(l, f, y, s)
  BY <1>7 DEF Good, UsesTrue, Running, SameRun
<1>9. QuotaTrue(l, q, y)
  BY DEF Good, QuotaTrue, InUse, SameRun
<1>10. KnownTrue(l, f, y)
  <2>1. \A i \in 1 .. x.pc - 1 : \A n \in Completed(Programs[l])[i] : f[n] = e[n]
    BY <1>2, CompletedFacts
  <2> QED
    BY <2>1 DEF Good, KnownTrue, SameRun
<1>11. SlotsTrue(l, f, y)
  BY DEF Good, SlotsTrue, SameRun
<1>12. ResetTrue(l, y, s)
  BY DEF Good, ResetTrue, Running, InUse, SameRun
<1> QED
  BY <1>3, <1>4, <1>5, <1>6, <1>8, <1>9, <1>10, <1>11, <1>12 DEF Good

\* A step of the reset FSM that neither marks nor releases anything.
Turns(l, x, s, t) ==
    \/ t = s
    \/ s = "IDLE" /\ t = "FAULT_DETECTED"
    \/ /\ s \in {"FAULT_DETECTED", "STOP_QUEUE", "FREEZE_DISPATCH", "DRAIN_SAFE"}
       /\ t \in {"STOP_QUEUE", "FREEZE_DISPATCH", "DRAIN_SAFE"}
    \/ s = "DRAIN_SAFE" /\ t = "MARK_EVENTS" /\ \A i \in x.flying : Act(l, i).op = "dispatch"
    \/ s \in Late /\ t \in Late

\* A launch stays good when the reset FSM moves by itself.
LEMMA GoodTurn ==
    ASSUME NEW l \in Launches, NEW e, NEW q, NEW x, NEW s, NEW t, Good(l, e, q, x, s), Turns(l, x, s, t)
    PROVE  Good(l, e, q, x, t)
<1>1. StatusTrue(l, e, x, t)
  BY DEF Good, StatusTrue, Turns, Late
<1>2. UsesTrue(l, e, x, t)
  BY DEF Good, UsesTrue, Turns, Late
<1>3. ResetTrue(l, x, t)
  BY DEF Good, ResetTrue, Turns, Late
<1> QED
  BY <1>1, <1>2, <1>3 DEF Good

\* A Context whose work is over is declared done ...
LEMMA GoodFinish ==
    ASSUME NEW l \in Launches, NEW e, NEW q, NEW x, NEW y, NEW s, Good(l, e, q, x, s),
           SameRun(x, y), x.stage = "active", y.stage = "done", x.closed, Running(x) = {}
    PROVE  Good(l, e, q, y, s)
<1>1. Flow(l, y) /\ FencesKept(l, y)
  BY DEF Good, Flow, FencesKept, Running, InUse, SameRun
<1>2. Booked(l, e, y.queued) /\ Produced(l, e, y)
  BY DEF Good, Produced, InUse, SameRun
<1>3. StatusTrue(l, e, y, s)
  BY DEF Good, StatusTrue, Running, SameRun
<1>4. \A n : Readers(l, n, y) = Readers(l, n, x)
  BY DEF Readers, SameRun
<1>5. UsesTrue(l, e, y, s)
  BY <1>4 DEF Good, UsesTrue, Running, SameRun
<1>6. QuotaTrue(l, q, y) /\ KnownTrue(l, e, y) /\ SlotsTrue(l, e, y) /\ ResetTrue(l, y, s)
  BY DEF Good, QuotaTrue, KnownTrue, SlotsTrue, ResetTrue, Running, InUse, SameRun
<1> QED
  BY <1>1, <1>2, <1>3, <1>5, <1>6 DEF Good

\* ... and leaves nothing behind.
LEMMA GoodRetire ==
    ASSUME NEW l \in Launches, NEW e, NEW f, NEW q, NEW x, NEW y, NEW s, Good(l, e, q, x, s),
           SameRun(x, y), x.stage = "done", y.stage = "retired", \A n \in Own(l) : f[n] = NoEntry
    PROVE  Good(l, f, NoQuota, y, s)
<1>1. Flow(l, y) /\ FencesKept(l, y)
  BY DEF Good, Flow, FencesKept, Running, InUse, SameRun
<1>2. y.queued = {} /\ y.flying = {} /\ Running(y) = {}
  BY DEF Good, Flow, Running, SameRun
<1>3. \A n : Pins(l, n, {}) = {} /\ Cardinality({}) = 0
  BY FS_EmptySet DEF Pins
<1>4. Booked(l, f, y.queued) /\ Produced(l, f, y)
  BY <1>2, <1>3, NoEntryFacts DEF Booked, Produced
<1>5. StatusTrue(l, f, y, s)
  BY <1>2, NoEntryFacts DEF StatusTrue
<1>6. ~y.faulted => \A n : Readers(l, n, y) = {}
  <2>1. ~y.faulted => y.pc = Size(l) + 1 /\ Size(l) \in Nat
    BY ProgramFacts DEF Good, Flow, InUse, SameRun
  <2> QED
    BY <1>2, <2>1 DEF Readers
<1>7. UsesTrue(l, f, y, s)
  BY <1>3, <1>6, NoEntryFacts DEF UsesTrue, Terminal
<1>8. QuotaTrue(l, NoQuota, y)
  BY DEF QuotaTrue, InUse
<1>9. KnownTrue(l, f, y)
  <2>1. \A i \in 1 .. y.pc - 1 : \A n \in Completed(Programs[l])[i] : n \in Own(l)
    BY <1>1, ProgramFacts, CompletedFacts DEF Flow
  <2> QED
    BY <1>2, <2>1, NoEntryFacts DEF KnownTrue
<1>10. SlotsTrue(l, f, y) /\ ResetTrue(l, y, s)
  BY <1>2, NoEntryFacts DEF Good, SlotsTrue, ResetTrue, InUse, SameRun
<1> QED
  BY <1>1, <1>4, <1>5, <1>7, <1>8, <1>9, <1>10 DEF Good

\* An admitted Context starts with an empty table and its whole quota.
LEMMA GoodAdmit ==
    ASSUME NEW l \in Launches, NEW e, NEW q, NEW x, Good(l, e, q, x, "IDLE"), x.stage = "new",
           NEW r, r = [open |-> TRUE, limit |-> Frontier(Programs[l]), produced |-> {}]
    PROVE  Good(l, e, r, Activated(Loaded(l)), "IDLE") /\ Activated(Loaded(l)).stage = "active"
<1> DEFINE y == Activated(Loaded(l))
<1>1. /\ y \in ContextState /\ y.stage = "active" /\ y.pc = 1 /\ y.fence = 0 /\ y.queued = {} /\ y.flying = {}
      /\ y.broken = {} /\ ~y.faulted /\ y.closed = (Programs[l] = <<>>)
  BY DEF Activated, Loaded, NewContext, ContextState
<1> HIDE DEF y
<1>2. Size(l) \in Nat /\ (Programs[l] = <<>> <=> Size(l) = 0)
  <2>1. Programs[l] \in Seq({Programs[l][i] : i \in DOMAIN Programs[l]})
    BY ProgramAssumption
  <2> QED
    BY <2>1, ProgramFacts, EmptySeq DEF Size
<1>3. 1 .. y.pc - 1 = {} /\ Running(y) = {}
  BY <1>1 DEF Running
<1>4. Flow(l, y) /\ FencesKept(l, y)
  <2>1. y.closed <=> Size(l) = 0
    BY <1>1, <1>2, Zenon
  <2>2. y.closed <=> y.pc = Size(l) + 1
    BY <1>1, <1>2, <2>1
  <2>3. Flow(l, y)
    BY <1>1, <1>2, <1>3, <2>2 DEF Flow, InUse
  <2> QED
    BY <1>1, <1>3, <2>3 DEF FencesKept
<1>5. x.queued = {}
  BY DEF Good, Flow, Running
<1>6. \A n \in Own(l) : e[n].status = "ABSENT"
  BY DEF Good, Produced, InUse
<1>7. Booked(l, e, y.queued) /\ Produced(l, e, y)
  BY <1>1, <1>5, <1>6 DEF Good, Produced
<1>8. StatusTrue(l, e, y, "IDLE")
  BY <1>1, <1>6 DEF StatusTrue, Late
<1>9. UsesTrue(l, e, y, "IDLE")
  <2>1. \A n \in Own(l) : ~(Made(l, n) < 1)
    BY <1>2, MadeFacts
  <2> QED
    BY <1>1, <1>6, <2>1 DEF UsesTrue, Terminal
<1>10. OutputsBefore(Programs[l], 1) = {}
  BY DEF OutputsBefore
<1>11. QuotaTrue(l, r, y)
  BY <1>1, <1>10 DEF QuotaTrue, InUse
<1>12. KnownTrue(l, e, y) /\ SlotsTrue(l, e, y) /\ ResetTrue(l, y, "IDLE")
  BY <1>1, <1>3, <1>6 DEF KnownTrue, SlotsTrue, ResetTrue, Late
<1> QED
  BY <1>1, <1>4, <1>7, <1>8, <1>9, <1>11, <1>12 DEF Good, y

-----------------------------------------------------------------------------
(* Completions and faults.                                                 *)

\* The argument behind the compiler's frontier: when no fence runs, an event that
\* the fences so far prove terminal and fully read has given its slot back.
LEMMA FenceDone ==
    ASSUME NEW l \in Launches, NEW e, NEW x, NEW s, Flow(l, x), FencesKept(l, x), StatusTrue(l, e, x, s),
           UsesTrue(l, e, x, s), KnownTrue(l, e, x), \A n \in Own(l) : e[n] \in EventEntry,
           s # "RESET_DOMAIN", ~x.faulted, x.fence = 0,
           NEW n \in ProvedTerminal(l, x.pc - 1), Consumers(Programs[l], n) \subseteq ProvedIssued(l, x.pc - 1)
    PROVE  e[n].status = "ABSENT"
<1> DEFINE P == Programs[l]
           F == FencesUpTo(P, x.pc - 1)
<1>1. /\ Size(l) \in Nat /\ x.pc \in 1 .. Size(l) + 1
      /\ \A i \in 1 .. x.pc - 1 : i \in 1 .. Size(l) /\ i \in Nat /\ i < x.pc
  BY ProgramFacts DEF Flow
<1>2. \A j \in F : j \in 1 .. x.pc - 1 /\ j \notin Running(x) /\ j \notin x.queued
  BY <1>1 DEF FencesKept, FencesUpTo, Act, Running
<1>3. \A j \in F : Act(l, j).op = "barrier" => \A i \in 1 .. j - 1 : i \in 1 .. x.pc - 1 /\ i \notin Running(x)
  <2> SUFFICES ASSUME NEW j \in F, Act(l, j).op = "barrier", NEW i \in 1 .. j - 1
               PROVE  i \in 1 .. x.pc - 1 /\ i \notin Running(x)
    OBVIOUS
  <2>1. j \in 1 .. x.pc - 1 /\ j \notin x.queued
    BY <1>2
  <2>2. \A k \in Running(x) : j < k
    BY <2>1 DEF FencesKept
  <2> HIDE DEF F
  <2> QED
    BY <1>1, <2>1, <2>2
<1>4. \A j \in F : \A m \in FenceTerminal(P, j) :
         m \in Own(l) /\ Made(l, m) < x.pc /\ e[m].status # "PENDING"
  <2> SUFFICES ASSUME NEW j \in F, NEW m \in FenceTerminal(P, j)
               PROVE  m \in Own(l) /\ Made(l, m) < x.pc /\ e[m].status # "PENDING"
    OBVIOUS
  <2>1. j \in 1 .. x.pc - 1 /\ j \in 1 .. Size(l) /\ j \in 1 .. Size(l) + 1 /\ j \notin x.queued
    BY <1>1, <1>2
  <2>2. CASE Act(l, j).op = "barrier"
    <3>1. m \in OutputsBefore(P, j)
      BY <2>2 DEF FenceTerminal, Act
    <3>2. m \in Own(l) /\ Made(l, m) < j /\ Made(l, m) \in 1 .. Size(l)
      BY <2>1, <3>1, MadeFacts
    <3>3. Made(l, m) \in 1 .. j - 1 /\ Made(l, m) < x.pc
      BY <1>1, <2>1, <3>2
    <3>4. Made(l, m) \notin Running(x)
      BY <1>3, <2>2, <3>3
    <3> QED
      BY <3>2, <3>3, <3>4 DEF StatusTrue
  <2>3. CASE Act(l, j).op # "barrier"
    <3>1. m \in Completed(P)[j]
      BY <2>3 DEF FenceTerminal, Act
    <3>2. m \in Own(l) /\ Made(l, m) < j /\ Made(l, m) \in 1 .. Size(l)
      BY <2>1, <3>1, CompletedFacts, MadeFacts
    <3>3. e[m].status # "PENDING"
      BY <2>1, <3>1 DEF KnownTrue
    <3> QED
      BY <1>1, <2>1, <3>2, <3>3
  <2> QED
    BY <2>2, <2>3
<1>5. \A j \in F : \A i \in FenceIssued(P, j) : i \in 1 .. x.pc - 1 /\ i \notin x.queued
  <2> SUFFICES ASSUME NEW j \in F, NEW i \in FenceIssued(P, j)
               PROVE  i \in 1 .. x.pc - 1 /\ i \notin x.queued
    OBVIOUS
  <2>1. j \in 1 .. x.pc - 1 /\ j \in 1 .. Size(l) /\ j \notin x.queued
    BY <1>1, <1>2
  <2>2. CASE i = j
    BY <2>1, <2>2
  <2>3. CASE i # j /\ Act(l, j).op = "barrier"
    <3>1. i \in 1 .. j - 1
      BY <2>3 DEF FenceIssued, Act
    <3> QED
      BY <1>3, <2>3, <3>1 DEF Running
  <2>4. CASE i # j /\ Act(l, j).op # "barrier"
    <3>1. PICK m \in Completed(P)[j] : i = Made(l, m)
      BY <2>4 DEF FenceIssued, Act, Made
    <3>2. m \in Own(l) /\ Made(l, m) < j /\ Made(l, m) \in 1 .. Size(l)
      BY <2>1, <3>1, CompletedFacts, MadeFacts
    <3>3. Made(l, m) \notin x.queued
      BY <2>1, <3>1 DEF KnownTrue
    <3> QED
      BY <1>1, <2>1, <3>1, <3>2, <3>3
  <2> QED
    BY <2>2, <2>3, <2>4
<1>6. n \in Own(l) /\ Made(l, n) < x.pc /\ e[n].status # "PENDING"
  BY <1>4 DEF ProvedTerminal
<1>7. \A i \in Consumers(P, n) : i \in 1 .. x.pc - 1 /\ i \notin x.queued
  BY <1>5 DEF ProvedIssued
<1>8. Readers(l, n, x) = {}
  <2> SUFFICES ASSUME NEW i \in Readers(l, n, x) PROVE FALSE
    OBVIOUS
  <2>1. i \in Consumers(P, n) /\ (i >= x.pc \/ i \in x.queued)
    BY DEF Readers, Consumers, Act, Size
  <2> QED
    BY <1>1, <1>7, <2>1
<1>9. e[n].uses = 0
  BY <1>6, <1>8, FS_EmptySet DEF UsesTrue
<1> QED
  BY <1>6, <1>9 DEF UsesTrue, EventEntry, EventStatus

\* What a completion signal of event m leaves of the sequencer x.
Answers(l, e, x, y, m) ==
    /\ m \in Own(l) /\ e[m].status = "PENDING" /\ Made(l, m) \in x.flying /\ Act(l, Made(l, m)).op \in Async
    /\ y \in ContextState /\ y.stage = x.stage /\ y.pc = x.pc /\ y.queued = x.queued /\ y.fence = x.fence
    /\ y.broken = x.broken /\ y.faulted = x.faulted /\ y.closed = x.closed /\ ~x.faulted
    /\ \/ y.flying = x.flying /\ m \notin Act(l, Made(l, m)).dst
       \/ /\ y.flying = x.flying \ {Made(l, m)}
          /\ \A n \in Outputs(Act(l, Made(l, m))) : n # m => e[n].status # "PENDING"

\* An event of an action in flight is signalled DONE; m may be the last event of
\* its producer, which then lands.
LEMMA GoodSignal ==
    ASSUME NEW l \in Launches, NEW e \in [Names -> EventEntry], NEW f, NEW q, NEW x, NEW y, NEW s, NEW m,
           Good(l, e, q, x, s), Answers(l, e, x, y, m), f = SignalOne(e, m, "DONE")
    PROVE  Good(l, f, q, y, s) /\ f \in [Names -> EventEntry] /\ \A n \in Names \ {m} : f[n] = e[n]
<1> USE DEF Answers
<1> DEFINE i == Made(l, m)
<1>1. /\ Flow(l, x) /\ FencesKept(l, x) /\ Booked(l, e, x.queued) /\ Produced(l, e, x)
      /\ StatusTrue(l, e, x, s) /\ UsesTrue(l, e, x, s) /\ QuotaTrue(l, q, x)
      /\ KnownTrue(l, e, x) /\ SlotsTrue(l, e, x) /\ ResetTrue(l, x, s)
  BY DEF Good
<1>2. /\ Size(l) \in Nat /\ x.pc \in 1 .. Size(l) + 1 /\ i \notin x.queued
      /\ x.queued \subseteq 1 .. Size(l) /\ x.flying \subseteq 1 .. Size(l)
      /\ Own(l) \subseteq Names
  BY <1>1, ProgramFacts DEF Flow, Running
<1>3. Signals(l, e, f, {m}, "DONE", x.queued)
  BY <1>2 DEF Signals, SignalOne, Terminal
<1>4. x.queued \subseteq 1 .. Size(l) /\ Booked(l, e, x.queued)
  BY <1>1, <1>2
<1>5. /\ f \in [Names -> EventEntry] /\ Booked(l, f, x.queued)
      /\ \A n \in Names \ {m} : f[n] = e[n]
      /\ e[m].uses = 0 => f[m] = NoEntry
      /\ e[m].uses # 0 => f[m].status = "DONE" /\ f[m].uses = e[m].uses
  <2>1. /\ f \in [Names -> EventEntry] /\ Booked(l, f, x.queued)
        /\ \A n \in {m} : /\ e[n].uses = 0 => f[n] = NoEntry
                          /\ e[n].uses # 0 => f[n].status = "DONE" /\ f[n].uses = e[n].uses
    BY <1>3, <1>4, SignalBooked
  <2>2. \A n \in Names \ {m} : f[n] = e[n]
    BY DEF SignalOne
  <2> QED
    BY <2>1, <2>2
<1>6. f[m].status # "PENDING" /\ f[m].uses = e[m].uses
      /\ (f[m].status # "ABSENT" => f[m].uses # 0 /\ f[m].status = "DONE")
  BY <1>5, NoEntryFacts
<1>7. Running(y) \subseteq Running(x) /\ y.flying \subseteq x.flying
      /\ \A j \in Running(x) : j \in Running(y) \/ j = i
  BY DEF Running
<1>8. x.fence # i
  <2>1. Act(l, i).op \notin Fences
    BY DEF Async, Adapters, Fences
  <2>2. i # 0
    BY <1>2
  <2> QED
    BY <1>1, <2>1, <2>2 DEF FencesKept
<1>9. Flow(l, y)
  BY <1>1, <1>7 DEF Flow, InUse, Running
<1>10. FencesKept(l, y)
  BY <1>1, <1>7, <1>8 DEF FencesKept
<1>11. Booked(l, f, y.queued) /\ Produced(l, f, y)
  BY <1>1, <1>2, <1>5 DEF Produced, InUse
<1>12. s # "RESET_DOMAIN" /\ s \notin Late
  BY <1>1 DEF StatusTrue
<1>13. StatusTrue(l, f, y, s)
  <2>1. ASSUME NEW n \in Own(l), f[n].status = "PENDING" PROVE Made(l, n) \in Running(y)
    <3>1. n # m /\ e[n].status = "PENDING"
      BY <1>2, <1>5, <1>6, <2>1
    <3>2. Made(l, n) \in Running(x) /\ n \in Outputs(Act(l, Made(l, n)))
      BY <1>1, <3>1, MadeFacts DEF StatusTrue
    <3> QED
      BY <1>7, <3>1, <3>2 DEF Running
  <2>2. ASSUME NEW j \in y.queued, NEW n \in Outputs(Act(l, j)) PROVE f[n].status = "PENDING"
    <3>1. n \in Own(l) /\ Made(l, n) = j /\ n # m
      BY <1>2, MadeFacts
    <3> QED
      BY <1>1, <1>2, <1>5, <1>12, <3>1 DEF StatusTrue
  <2>3. ASSUME NEW j \in y.flying, NEW n \in Act(l, j).dst PROVE f[n].status = "PENDING"
    <3>1. n \in Own(l) /\ Made(l, n) = j
      BY <1>2, <1>7, MadeFacts DEF Outputs
    <3>2. n # m
      BY <3>1
    <3>3. e[n].status = "PENDING"
      BY <1>1, <1>7, <1>12 DEF StatusTrue
    <3> QED
      BY <1>2, <1>5, <3>1, <3>2, <3>3
  <2>4. s = "IDLE" => \A n \in Own(l) : f[n].status \in {"ABSENT", "PENDING", "DONE"}
    BY <1>1, <1>2, <1>5, <1>6 DEF StatusTrue
  <2> QED
    BY <1>12, <2>1, <2>2, <2>3, <2>4 DEF StatusTrue
<1>14. \A n : Readers(l, n, y) = Readers(l, n, x)
  BY DEF Readers
<1>15. UsesTrue(l, f, y, s)
  <2>1. ASSUME NEW n \in Own(l)
        PROVE  /\ Made(l, n) < y.pc => f[n].uses = Cardinality(Readers(l, n, y))
               /\ f[n].status \in Terminal /\ f[n].uses = 0 => s = "RESET_DOMAIN" /\ Made(l, n) \in Running(y)
    <3>1. CASE n = m
      BY <1>1, <1>6, <1>14, <3>1 DEF UsesTrue, Terminal
    <3>2. CASE n # m
      <4>1. f[n] = e[n]
        BY <1>2, <1>5, <3>2
      <4> QED
        BY <1>1, <1>12, <1>14, <4>1 DEF UsesTrue
    <3> QED
      BY <3>1, <3>2
  <2> QED
    BY <2>1 DEF UsesTrue
<1>16. QuotaTrue(l, q, y)
  BY <1>1 DEF QuotaTrue, InUse
<1>17. KnownTrue(l, f, y)
  <2>1. \A j \in 1 .. x.pc - 1 : \A n \in Completed(Programs[l])[j] : n \in Own(l)
    BY <1>2, CompletedFacts
  <2> QED
    BY <1>1, <1>2, <1>5, <1>6, <2>1 DEF KnownTrue
<1>18. SlotsTrue(l, f, y)
  BY <1>1, <1>2, <1>5 DEF SlotsTrue
<1>19. ResetTrue(l, y, s)
  BY <1>1, <1>7, <1>12 DEF ResetTrue
<1> QED
  BY <1>5, <1>9, <1>10, <1>11, <1>13, <1>15, <1>16, <1>17, <1>18, <1>19 DEF Good

\* A configuration command has ended, and with it the fence it was.
LEMMA GoodControl ==
    ASSUME NEW l \in Launches, NEW e \in [Names -> EventEntry], NEW q, NEW x, NEW y, NEW s,
           Good(l, e, q, x, s), ~x.faulted, NEW i \in x.flying, Act(l, i).op = "control",
           y \in ContextState, y.stage = x.stage, y.pc = x.pc, y.queued = x.queued,
           y.flying = x.flying \ {i}, y.fence = (IF x.fence = i THEN 0 ELSE x.fence),
           y.broken = x.broken, y.faulted = x.faulted, y.closed = x.closed
    PROVE  Good(l, e, q, y, s)
<1>1. /\ Flow(l, x) /\ FencesKept(l, x) /\ Booked(l, e, x.queued) /\ Produced(l, e, x)
      /\ StatusTrue(l, e, x, s) /\ UsesTrue(l, e, x, s) /\ QuotaTrue(l, q, x)
      /\ KnownTrue(l, e, x) /\ SlotsTrue(l, e, x) /\ ResetTrue(l, x, s)
  BY DEF Good
<1>2. /\ Size(l) \in Nat /\ x.pc \in 1 .. Size(l) + 1 /\ i \in 1 .. Size(l) /\ i \in 1 .. x.pc - 1
      /\ i \notin x.queued /\ Own(l) \subseteq Names
  BY <1>1, ProgramFacts DEF Flow, Running
<1>3. Running(y) = Running(x) \ {i}
  BY <1>2 DEF Running
<1>4. i = x.fence /\ y.fence = 0 /\ i = x.pc - 1
  BY <1>1, <1>2 DEF FencesKept, Fences, Running
<1>5. Flow(l, y)
  BY <1>1, <1>3 DEF Flow, InUse, Running
<1>6. FencesKept(l, y)
  BY <1>1, <1>3, <1>4 DEF FencesKept
<1>7. Booked(l, e, y.queued) /\ Produced(l, e, y) /\ QuotaTrue(l, q, y) /\ KnownTrue(l, e, y)
  BY <1>1 DEF Produced, QuotaTrue, KnownTrue, InUse
<1>8. Outputs(Act(l, i)) = {}
  BY <1>2, ProgramFacts DEF ActionOK, Outputs
<1>9. s \notin {"MARK_EVENTS", "RESET_DOMAIN"} /\ s \notin Late
  BY <1>1 DEF ResetTrue, Running
<1>10. StatusTrue(l, e, y, s)
  <2>1. ASSUME NEW n \in Own(l), e[n].status = "PENDING" PROVE Made(l, n) \in Running(y)
    BY <1>1, <1>3, <1>8, <2>1, MadeFacts DEF StatusTrue
  <2> QED
    BY <1>1, <2>1 DEF StatusTrue
<1>11. \A n : Readers(l, n, y) = Readers(l, n, x)
  BY DEF Readers
<1>12. UsesTrue(l, e, y, s)
  BY <1>1, <1>9, <1>11 DEF UsesTrue
<1>13. SlotsTrue(l, e, y)
  <2> SUFFICES ASSUME NEW n \in Own(l), e[n].status # "ABSENT"
               PROVE  n \in LiveSlots(Programs[l])[y.pc - 1]
    BY <1>4 DEF SlotsTrue
  <2>1. n \in LiveSlots(Programs[l])[x.pc - 2] \cup Outputs(Act(l, x.pc - 1))
    BY <1>1, <1>2, <1>4 DEF SlotsTrue
  <2>2. x.pc - 2 = i - 1 /\ x.pc - 1 = i
    BY <1>2, <1>4
  <2>3. LiveSlots(Programs[l])[i] = SlotsStep(l, LiveSlots(Programs[l])[i - 1], i)
    BY <1>2, SlotsFacts
  <2>4. ~(n \in ProvedTerminal(l, i) /\ Consumers(Programs[l], n) \subseteq ProvedIssued(l, i))
    <3>1. y.pc - 1 = i
      BY <2>2
    <3>2. \A k \in Own(l) : e[k] \in EventEntry
      BY <1>2
    <3> QED
      BY <1>5, <1>6, <1>7, <1>9, <1>10, <1>12, <1>4, <3>1, <3>2, FenceDone
  <2> QED
    BY <2>1, <2>2, <2>3, <2>4 DEF SlotsStep
<1>14. ResetTrue(l, y, s)
  BY <1>1, <1>3, <1>9 DEF ResetTrue
<1> QED
  BY <1>5, <1>6, <1>7, <1>10, <1>12, <1>13, <1>14 DEF Good

-----------------------------------------------------------------------------
(* Faults.                                                                 *)

\* The table f that a fault handler cancels: that of e, but for an event it has
\* just signalled; the actions in L have landed.
Cut(l, e, f, x, L) ==
    /\ L \subseteq x.flying
    /\ Booked(l, f, x.queued)
    /\ \A n \in Own(l) : f[n].status = "PENDING" => e[n].status = "PENDING" /\ Made(l, n) \notin L
    /\ \A i \in x.flying \ L : \A n \in Act(l, i).dst : f[n].status = e[n].status

Cancelled(l, f, g, Q) == \A n \in Own(l) : g[n] = CancelledEntry(f[n], Made(l, n) \in Q)

\* The sequencer y after MarkFault and CancelActions.
Stopped(x, y, L) ==
    /\ y \in ContextState
    /\ y.stage = x.stage /\ y.pc = x.pc /\ y.broken = x.broken
    /\ y.queued = {} /\ y.flying = x.flying \ L
    /\ y.fence = (IF x.fence \in x.queued \cup L THEN 0 ELSE x.fence)
    /\ y.faulted /\ y.closed

\* What cancel_context leaves of an entry.
LEMMA CancelledFacts ==
    ASSUME NEW x \in EventEntry, NEW out \in BOOLEAN
    PROVE  LET y == CancelledEntry(x, out) IN
           /\ y \in EventEntry /\ y.refs = 0 /\ y.uses = 0
           /\ y.status \in {"PENDING", "ABSENT"}
           /\ y.status = "ABSENT" => y = NoEntry
           /\ y.status = "PENDING" <=> x.status = "PENDING" /\ ~out
           /\ y.status = "PENDING" => /\ y.launch = x.launch /\ y.managed = x.managed
                                      /\ y.bound = x.bound /\ y.producer = x.producer
<1> DEFINE z == [x EXCEPT !.refs = 0, !.uses = 0]
<1>1. /\ z \in EventEntry /\ z.refs = 0 /\ z.uses = 0 /\ z.status = x.status /\ z.launch = x.launch
      /\ z.managed = x.managed /\ z.bound = x.bound /\ z.producer = x.producer
  BY DEF EventEntry
<1>2. CancelledEntry(x, out) = IF x.status = "PENDING" /\ ~out THEN z ELSE NoEntry
  BY DEF CancelledEntry
<1> HIDE DEF z
<1> QED
  BY <1>1, <1>2, NoEntryFacts

\* A fault of a Context, with its cancellation, keeps it good.
LEMMA GoodCancel ==
    ASSUME NEW l \in Launches, NEW e, NEW f, NEW g, NEW q, NEW x, NEW y, NEW s, NEW L,
           Good(l, e, q, x, s), Cut(l, e, f, x, L), Cancelled(l, f, g, x.queued), Stopped(x, y, L)
    PROVE  Good(l, g, q, y, Trigger(s))
<1> DEFINE t == Trigger(s)
<1>1. /\ Flow(l, x) /\ FencesKept(l, x) /\ Booked(l, e, x.queued) /\ Produced(l, e, x)
      /\ StatusTrue(l, e, x, s) /\ QuotaTrue(l, q, x) /\ ResetTrue(l, x, s)
  BY DEF Good
<1>2. /\ Size(l) \in Nat /\ x.pc \in 1 .. Size(l) + 1
      /\ x.queued \subseteq 1 .. Size(l) /\ x.flying \subseteq 1 .. Size(l) /\ x.queued \cap x.flying = {}
  BY <1>1, ProgramFacts DEF Flow, Running
<1>3. Running(y) = x.flying \ L /\ Running(y) \subseteq Running(x) /\ y.flying = x.flying \ L /\ y.queued = {}
  BY DEF Running, Stopped
<1>4. t # "IDLE" /\ (t = s \/ t = "FAULT_DETECTED")
  BY DEF Trigger
<1> HIDE DEF t
<1>5. \A n \in Own(l) :
         /\ g[n] \in EventEntry /\ g[n].refs = 0 /\ g[n].uses = 0
         /\ g[n].status \in {"PENDING", "ABSENT"}
         /\ g[n].status = "ABSENT" => g[n] = NoEntry
         /\ g[n].status = "PENDING" <=> f[n].status = "PENDING" /\ Made(l, n) \notin x.queued
         /\ g[n].status = "PENDING" => /\ g[n].launch = f[n].launch /\ g[n].managed = f[n].managed
                                       /\ g[n].bound = f[n].bound /\ g[n].producer = f[n].producer
  <2> SUFFICES ASSUME NEW n \in Own(l)
               PROVE  /\ g[n] \in EventEntry /\ g[n].refs = 0 /\ g[n].uses = 0
                      /\ g[n].status \in {"PENDING", "ABSENT"}
                      /\ g[n].status = "ABSENT" => g[n] = NoEntry
                      /\ g[n].status = "PENDING" <=> f[n].status = "PENDING" /\ Made(l, n) \notin x.queued
                      /\ g[n].status = "PENDING" => /\ g[n].launch = f[n].launch /\ g[n].managed = f[n].managed
                                                    /\ g[n].bound = f[n].bound /\ g[n].producer = f[n].producer
    OBVIOUS
  <2> DEFINE out == Made(l, n) \in x.queued
             v == f[n]
  <2>1. v \in EventEntry /\ g[n] = CancelledEntry(v, out) /\ out \in BOOLEAN
    BY DEF Cut, Booked, Cancelled
  <2> HIDE DEF out, v
  <2>2. /\ g[n] \in EventEntry /\ g[n].refs = 0 /\ g[n].uses = 0
        /\ g[n].status \in {"PENDING", "ABSENT"}
        /\ g[n].status = "ABSENT" => g[n] = NoEntry
        /\ g[n].status = "PENDING" <=> v.status = "PENDING" /\ ~out
        /\ g[n].status = "PENDING" => /\ g[n].launch = v.launch /\ g[n].managed = v.managed
                                      /\ g[n].bound = v.bound /\ g[n].producer = v.producer
    BY <2>1, CancelledFacts
  <2> QED
    BY <2>2 DEF out, v
<1>6. \A n \in Own(l) : g[n].status # "ABSENT" =>
         /\ g[n].status = "PENDING" /\ f[n].status = "PENDING" /\ e[n].status = "PENDING"
         /\ Made(l, n) \in x.flying \ L
  BY <1>1, <1>5 DEF Cut, StatusTrue, Running
<1>7. Flow(l, y)
  BY <1>1, <1>3 DEF Flow, Stopped
<1>8. FencesKept(l, y)
  BY <1>1, <1>2, <1>3 DEF FencesKept, Stopped, Running
<1>9. Booked(l, g, y.queued)
  <2>1. \A n : Pins(l, n, {}) = {} /\ Cardinality({}) = 0
    BY FS_EmptySet DEF Pins
  <2>2. \A n \in Own(l) : f[n].status = "PENDING" =>
           f[n].launch = l /\ f[n].managed /\ f[n].bound /\ f[n].producer = Made(l, n)
    BY DEF Cut, Booked
  <2>3. \A n \in Own(l) : g[n].status # "ABSENT" =>
           g[n].launch = l /\ g[n].managed /\ g[n].bound /\ g[n].producer = Made(l, n)
    BY <1>5, <1>6, <2>2
  <2>4. \A n \in Own(l) : g[n].refs = Cardinality(Pins(l, n, {})) /\ g[n].refs <= g[n].uses
    BY <1>5, <2>1
  <2> QED
    BY <1>3, <1>5, <2>3, <2>4 DEF Booked
<1>10. Produced(l, g, y)
  BY <1>1, <1>6 DEF Produced, InUse, Stopped
<1>11. StatusTrue(l, g, y, t)
  <2>1. \A n \in Own(l) : g[n].status = "PENDING" => Made(l, n) \in Running(y)
    BY <1>3, <1>6
  <2>2. ASSUME t # "RESET_DOMAIN", NEW i \in y.flying, NEW n \in Act(l, i).dst
        PROVE  g[n].status = "PENDING"
    <3>1. i \in x.flying /\ i \notin L /\ i \notin x.queued
      BY <1>2, <1>3
    <3>2. n \in Own(l) /\ Made(l, n) = i
      BY <1>2, <3>1, MadeFacts DEF Outputs
    <3>3. s # "RESET_DOMAIN"
      BY <2>2 DEF t, Trigger
    <3>4. f[n].status = "PENDING"
      BY <1>1, <3>1, <3>3 DEF Cut, StatusTrue
    <3> QED
      BY <1>5, <3>1, <3>2, <3>4
  <2>3. t \in Late \cup {"RESET_DOMAIN"} => t = s
    BY <1>4 DEF Late
  <2> QED
    BY <1>1, <1>3, <1>4, <1>6, <2>1, <2>2, <2>3 DEF StatusTrue
<1>12. UsesTrue(l, g, y, t)
  BY <1>5 DEF UsesTrue, Stopped
<1>13. QuotaTrue(l, q, y) /\ KnownTrue(l, g, y) /\ SlotsTrue(l, g, y)
  BY <1>1 DEF QuotaTrue, KnownTrue, SlotsTrue, InUse, Stopped
<1>14. ResetTrue(l, y, t)
  BY <1>1, <1>3, <1>4 DEF ResetTrue, Stopped, Late
<1> QED
  BY <1>7, <1>8, <1>9, <1>10, <1>11, <1>12, <1>13, <1>14 DEF Good, t

\* The table of a fault that signals nothing ...
LEMMA CutSame ==
    ASSUME NEW l \in Launches, NEW e, NEW q, NEW x, NEW s, Good(l, e, q, x, s), NEW L, L \subseteq x.flying,
           \A i \in L : Act(l, i).op = "control"
    PROVE  Cut(l, e, e, x, L)
<1>1. \A i \in L : i \in 1 .. Size(l) /\ Outputs(Act(l, i)) = {}
  BY ProgramFacts DEF Good, Flow, Running, ActionOK, Outputs
<1>2. \A n \in Own(l) : Made(l, n) \notin L
  BY <1>1, MadeFacts
<1> QED
  BY <1>2 DEF Cut, Good

\* ... and of one that signals an event of an action in flight.
LEMMA CutSignal ==
    ASSUME NEW l \in Launches, NEW e \in [Names -> EventEntry], NEW f, NEW q, NEW x, NEW s,
           Good(l, e, q, x, s), NEW L, NEW m \in Own(l), e[m].status = "PENDING", Made(l, m) \in x.flying,
           f = SignalOne(e, m, "ERROR"),
           \/ L = {} /\ m \notin Act(l, Made(l, m)).dst
           \/ /\ L = {Made(l, m)}
              /\ \A n \in Outputs(Act(l, Made(l, m))) : n # m => e[n].status # "PENDING"
    PROVE  Cut(l, e, f, x, L) /\ f \in [Names -> EventEntry] /\ \A n \in Names \ {m} : f[n] = e[n]
<1>1. /\ x.queued \subseteq 1 .. Size(l) /\ Booked(l, e, x.queued) /\ Own(l) \subseteq Names
      /\ x.flying \subseteq 1 .. Size(l) /\ Made(l, m) \notin x.queued
  BY ProgramFacts DEF Good, Flow, Running
<1>2. Signals(l, e, f, {m}, "ERROR", x.queued)
  BY <1>1 DEF Signals, SignalOne, Terminal
<1>3. /\ f \in [Names -> EventEntry] /\ Booked(l, f, x.queued)
      /\ \A n \in {m} : /\ e[n].uses = 0 => f[n] = NoEntry
                        /\ e[n].uses # 0 => f[n].status = "ERROR" /\ f[n].uses = e[n].uses
  BY <1>1, <1>2, SignalBooked
<1>4. \A n \in Names \ {m} : f[n] = e[n]
  BY DEF SignalOne
<1>5. f[m].status # "PENDING"
  BY <1>3, NoEntryFacts
<1>6. ASSUME NEW n \in Own(l), f[n].status = "PENDING" PROVE e[n].status = "PENDING" /\ Made(l, n) \notin L
  <2>1. n # m /\ e[n].status = "PENDING"
    BY <1>1, <1>4, <1>5, <1>6
  <2> QED
    BY <2>1, MadeFacts
<1>7. ASSUME NEW i \in x.flying \ L, NEW n \in Act(l, i).dst PROVE f[n].status = e[n].status
  <2>1. n \in Own(l) /\ Made(l, n) = i
    BY <1>1, MadeFacts DEF Outputs
  <2>2. n # m
    BY <2>1
  <2> QED
    BY <1>1, <1>4, <2>1, <2>2
<1> QED
  BY <1>3, <1>4, <1>6, <1>7 DEF Cut

\* A Task of a Grid faults, and the Context keeps what it has until the reset.
LEMMA GoodTileFault ==
    ASSUME NEW l \in Launches, NEW e, NEW q, NEW x, NEW y, NEW s, Good(l, e, q, x, s), NEW i \in x.flying,
           y \in ContextState, y.stage = x.stage, y.pc = x.pc, y.fence = x.fence, y.queued = x.queued,
           y.flying = x.flying, y.broken = x.broken \cup {i}, y.faulted, y.closed
    PROVE  Good(l, e, q, y, Trigger(s))
<1> DEFINE t == Trigger(s)
<1>1. /\ Flow(l, x) /\ FencesKept(l, x) /\ Booked(l, e, x.queued) /\ Produced(l, e, x)
      /\ StatusTrue(l, e, x, s) /\ QuotaTrue(l, q, x) /\ ResetTrue(l, x, s)
  BY DEF Good
<1>2. t # "IDLE" /\ t = (IF s = "IDLE" THEN "FAULT_DETECTED" ELSE s)
  BY DEF Trigger
<1> HIDE DEF t
<1>3. Running(y) = Running(x) /\ x.flying \subseteq 1 .. Size(l)
  BY <1>1, ProgramFacts DEF Running, Flow
<1>4. Flow(l, y)
  BY <1>1, <1>3 DEF Flow, Running
<1>5. FencesKept(l, y)
  BY <1>1, <1>3 DEF FencesKept
<1>6. Booked(l, e, y.queued) /\ Produced(l, e, y) /\ QuotaTrue(l, q, y)
  BY <1>1 DEF Produced, QuotaTrue, InUse
<1>7. StatusTrue(l, e, y, t)
  BY <1>1, <1>2, <1>3 DEF StatusTrue, Late
<1>8. UsesTrue(l, e, y, t) /\ KnownTrue(l, e, y) /\ SlotsTrue(l, e, y)
  BY DEF UsesTrue, KnownTrue, SlotsTrue
<1>9. ResetTrue(l, y, t)
  BY <1>1, <1>2, <1>3 DEF ResetTrue, Late
<1> QED
  BY <1>4, <1>5, <1>6, <1>7, <1>8, <1>9 DEF Good, t

-----------------------------------------------------------------------------
(* Issue.                                                                  *)

\* What the dependencies of an action that issues tell about its ancestors.
LEMMA KnownAtIssue ==
    ASSUME NEW l \in Launches, NEW e, NEW q, NEW x, Good(l, e, q, x, "IDLE"), NEW i \in x.queued,
           \A n \in Act(l, i).deps : e[n].status = "DONE"
    PROVE  \A n \in Completed(Programs[l])[i] :
              n \in Own(l) /\ e[n].status # "PENDING" /\ Made(l, n) \notin x.queued
<1>1. /\ Flow(l, x) /\ StatusTrue(l, e, x, "IDLE") /\ KnownTrue(l, e, x) /\ ~x.faulted
  BY DEF Good, ResetTrue
<1>2. Size(l) \in Nat /\ i \in 1 .. Size(l) /\ i \in 1 .. x.pc - 1 /\ x.pc \in 1 .. Size(l) + 1
      /\ x.queued \subseteq 1 .. Size(l) /\ x.flying \subseteq 1 .. Size(l)
  BY <1>1, ProgramFacts DEF Flow, Running
<1>3. \A n \in Act(l, i).deps : /\ n \in Own(l) /\ Made(l, n) < i /\ Made(l, n) \in 1 .. Size(l)
                                /\ n \in Outputs(Act(l, Made(l, n))) /\ e[n].status # "PENDING"
  BY <1>2, MadeFacts
<1>4. \A n \in Act(l, i).deps : Made(l, n) \notin x.queued /\ Made(l, n) \in 1 .. x.pc - 1
  <2> SUFFICES ASSUME NEW n \in Act(l, i).deps
               PROVE  Made(l, n) \notin x.queued /\ Made(l, n) \in 1 .. x.pc - 1
    OBVIOUS
  <2>1. Made(l, n) \notin x.queued
    BY <1>1, <1>3 DEF StatusTrue
  <2> QED
    BY <1>2, <1>3, <2>1
<1> SUFFICES ASSUME NEW n \in Completed(Programs[l])[i]
             PROVE  e[n].status # "PENDING" /\ Made(l, n) \notin x.queued
  BY <1>2, CompletedFacts
<1>5. CASE n \in Act(l, i).deps
  BY <1>3, <1>4, <1>5
<1>6. ASSUME NEW m \in Act(l, i).deps, n \in Completed(Programs[l])[Made(l, m)]
      PROVE  e[n].status # "PENDING" /\ Made(l, n) \notin x.queued
  BY <1>1, <1>4, <1>6 DEF KnownTrue
<1>7. ASSUME NEW m \in Act(l, i).deps, m \in Act(l, Made(l, m)).dst, n \in Act(l, Made(l, m)).phases
      PROVE  e[n].status # "PENDING" /\ Made(l, n) \notin x.queued
  <2>1. n \in Own(l) /\ Made(l, n) = Made(l, m)
    BY <1>3, <1>7, MadeFacts DEF Outputs
  <2>2. Made(l, m) \notin x.flying
    BY <1>1, <1>3, <1>7 DEF StatusTrue
  <2> QED
    BY <1>1, <1>4, <2>1, <2>2 DEF StatusTrue, Running
<1> QED
  BY <1>2, <1>5, <1>6, <1>7, CompletedFacts

\* The action i leaves the queue of x.
Leaves(l, x, y, i) ==
    /\ y \in ContextState
    /\ y.stage = x.stage /\ y.pc = x.pc /\ y.queued = x.queued \ {i}
    /\ y.broken = x.broken /\ y.faulted = x.faulted /\ y.closed = x.closed

\* consume_dependencies takes the uses of the action that leaves the queue.
LEMMA ConsumeType ==
    ASSUME NEW l \in Launches, NEW e \in [Names -> EventEntry], NEW h, NEW q, NEW x, NEW s,
           Good(l, e, q, x, s), NEW i, Consumes(l, e, h, x.queued, i)
    PROVE  h \in [Names -> EventEntry]
<1>1. x.queued \subseteq 1 .. Size(l) /\ Booked(l, e, x.queued)
  BY ProgramFacts DEF Good, Flow, Running
<1> QED
  BY <1>1, ConsumeBooked

\* What the issue of action i does to the table of its launch.
LEMMA ConsumeFacts ==
    ASSUME NEW l \in Launches, NEW e \in [Names -> EventEntry], NEW h \in [Names -> EventEntry], NEW q, NEW x,
           Good(l, e, q, x, "IDLE"), NEW i \in x.queued, NEW y, Leaves(l, x, y, i),
           \A n \in Act(l, i).deps : e[n].status = "DONE", Consumes(l, e, h, x.queued, i)
    PROVE  /\ Booked(l, h, x.queued \ {i})
           /\ \A n \in Names \ Own(l) : h[n] = e[n]
           /\ \A n \in Outputs(Act(l, i)) : h[n] = e[n] /\ n \notin Act(l, i).deps
           /\ \A n \in Own(l) :
                 /\ h[n].status = "PENDING" <=> e[n].status = "PENDING"
                 /\ h[n].status # "ABSENT" => e[n].status # "ABSENT"
                 /\ h[n].status \in {"ABSENT", "PENDING", "DONE"}
                 /\ ~(h[n].status \in Terminal /\ h[n].uses = 0)
                 /\ Made(l, n) < x.pc => h[n].uses = Cardinality(Readers(l, n, y))
<1>1. /\ Flow(l, x) /\ StatusTrue(l, e, x, "IDLE") /\ UsesTrue(l, e, x, "IDLE") /\ Booked(l, e, x.queued)
      /\ ~x.faulted
  BY DEF Good, ResetTrue
<1>2. /\ Size(l) \in Nat /\ i \in 1 .. Size(l) /\ i < x.pc /\ x.pc \in 1 .. Size(l) + 1
      /\ x.queued \subseteq 1 .. Size(l) /\ Own(l) \subseteq Names
  BY <1>1, ProgramFacts DEF Flow, Running
<1> DEFINE D == Act(l, i).deps
<1>3. /\ Booked(l, h, x.queued \ {i})
      /\ \A n \in Names \ D : h[n] = e[n]
      /\ \A n \in D : /\ n \in Own(l) /\ e[n].uses \in Nat \ {0}
                      /\ e[n].uses = 1 => h[n] = NoEntry
                      /\ e[n].uses # 1 => h[n].status = e[n].status
                      /\ h[n].uses = e[n].uses - 1
  <2>1. x.queued \subseteq 1 .. Size(l) /\ Booked(l, e, x.queued)
    BY <1>1, <1>2
  <2>2. Booked(l, h, x.queued \ {i})
    BY <2>1, ConsumeBooked
  <2>3. \A n \in Names \ Act(l, i).deps : h[n] = e[n]
    BY <2>1, <2>2, ConsumeBooked
  <2>4. \A n \in Act(l, i).deps :
                      /\ n \in Own(l) /\ e[n].uses \in Nat \ {0}
                      /\ e[n].uses = 1 => h[n] = NoEntry
                      /\ e[n].uses # 1 => h[n].status = e[n].status
                      /\ h[n].uses = e[n].uses - 1
    BY <2>1, <2>2, ConsumeBooked
  <2> QED
    BY <2>2, <2>3, <2>4
<1>4. \A n \in Outputs(Act(l, i)) : n \in Own(l) /\ n \notin D
  BY <1>2, MadeFacts
<1>5. \A n \in D : e[n].status = "DONE"
  OBVIOUS
<1> HIDE DEF D
<1>6. ASSUME NEW n \in Own(l)
      PROVE  /\ h[n].status = "PENDING" <=> e[n].status = "PENDING"
             /\ h[n].status # "ABSENT" => e[n].status # "ABSENT"
             /\ h[n].status \in {"ABSENT", "PENDING", "DONE"}
             /\ ~(h[n].status \in Terminal /\ h[n].uses = 0)
  <2>1. CASE n \notin D
    <3>1. h[n] = e[n]
      BY <1>2, <1>3, <2>1
    <3> QED
      BY <1>1, <3>1 DEF StatusTrue, UsesTrue
  <2>2. CASE n \in D /\ e[n].uses = 1
    BY <1>3, <1>5, <2>2, NoEntryFacts DEF Terminal
  <2>3. CASE n \in D /\ e[n].uses # 1
    BY <1>3, <1>5, <2>3
  <2> QED
    BY <2>1, <2>2, <2>3
<1>7. ASSUME NEW n \in Own(l), Made(l, n) < x.pc
      PROVE  h[n].uses = Cardinality(Readers(l, n, y))
  <2>1. e[n].uses = Cardinality(Readers(l, n, x)) /\ e[n].uses \in Nat
    BY <1>1, <1>7 DEF UsesTrue, Booked, EventEntry
  <2>2. IsFiniteSet(Readers(l, n, x))
    <3>1. IsFiniteSet(1 .. Size(l)) /\ Readers(l, n, x) \in SUBSET (1 .. Size(l))
      BY <1>2, FS_Interval DEF Readers
    <3> QED
      BY <3>1, FS_Subset
  <2>3. CASE n \in D
    <3>1. i \in Readers(l, n, x) /\ Readers(l, n, y) = Readers(l, n, x) \ {i}
      BY <1>2, <2>3 DEF Readers, D, Leaves
    <3>2. Cardinality(Readers(l, n, y)) = Cardinality(Readers(l, n, x)) - 1
      BY <2>2, <3>1, FS_RemoveElement
    <3> QED
      BY <1>3, <2>1, <2>3, <3>2
  <2>4. CASE n \notin D
    <3>1. Readers(l, n, y) = Readers(l, n, x)
      BY <1>2, <2>4 DEF Readers, D, Leaves
    <3> QED
      BY <1>2, <1>3, <2>1, <2>4, <3>1
  <2> QED
    BY <2>3, <2>4
<1>8. \A n \in Names \ Own(l) : h[n] = e[n]
  BY <1>3
<1>9. \A n \in Outputs(Act(l, i)) : h[n] = e[n]
  BY <1>2, <1>3, <1>4
<1> QED
  BY <1>3, <1>4, <1>6, <1>7, <1>8, <1>9 DEF D

\* An action that completes later is accepted.
LEMMA GoodIssueLater ==
    ASSUME NEW l \in Launches, NEW e \in [Names -> EventEntry], NEW h \in [Names -> EventEntry],
           NEW q, NEW x, NEW y, Good(l, e, q, x, "IDLE"), NEW i \in x.queued,
           \A n \in Act(l, i).deps : e[n].status = "DONE", Consumes(l, e, h, x.queued, i),
           Act(l, i).op \in Async \cup {"control"}, Leaves(l, x, y, i),
           y.flying = x.flying \cup {i}, y.fence = x.fence
    PROVE  Good(l, h, q, y, "IDLE")
<1>1. /\ Flow(l, x) /\ FencesKept(l, x) /\ Produced(l, e, x) /\ StatusTrue(l, e, x, "IDLE")
      /\ QuotaTrue(l, q, x) /\ KnownTrue(l, e, x) /\ SlotsTrue(l, e, x) /\ ResetTrue(l, x, "IDLE")
      /\ ~x.faulted
  BY DEF Good, ResetTrue
<1>2. /\ Size(l) \in Nat /\ i \in 1 .. Size(l) /\ x.pc \in 1 .. Size(l) + 1
      /\ x.queued \subseteq 1 .. Size(l) /\ x.flying \subseteq 1 .. Size(l)
  BY <1>1, ProgramFacts DEF Flow, Running
<1>3. Running(y) = Running(x) /\ ~y.faulted /\ y.pc = x.pc /\ y.queued \subseteq x.queued
  BY <1>1 DEF Running, Leaves
<1>4. Booked(l, h, x.queued \ {i})
  BY ConsumeFacts
<1>5. \A n \in Outputs(Act(l, i)) : h[n] = e[n]
  BY <1>4, ConsumeFacts
<1>6. \A n \in Own(l) : /\ h[n].status = "PENDING" <=> e[n].status = "PENDING"
                        /\ h[n].status # "ABSENT" => e[n].status # "ABSENT"
                        /\ h[n].status \in {"ABSENT", "PENDING", "DONE"}
                        /\ ~(h[n].status \in Terminal /\ h[n].uses = 0)
  BY <1>4, ConsumeFacts
<1>7. \A n \in Own(l) : Made(l, n) < x.pc => h[n].uses = Cardinality(Readers(l, n, y))
  BY <1>4, ConsumeFacts
<1>8. \A n \in Completed(Programs[l])[i] :
         n \in Own(l) /\ e[n].status # "PENDING" /\ Made(l, n) \notin x.queued
  BY KnownAtIssue
<1>9. Flow(l, y)
  BY <1>1, <1>3 DEF Flow, InUse, Leaves
<1>10. FencesKept(l, y)
  <2>1. Act(l, i).op # "barrier"
    BY DEF Async, Adapters
  <2> QED
    BY <1>1, <1>3, <2>1 DEF FencesKept, Leaves
<1>11. Produced(l, h, y) /\ QuotaTrue(l, q, y)
  BY <1>1, <1>3, <1>6 DEF Produced, QuotaTrue, InUse, Leaves
<1>12. StatusTrue(l, h, y, "IDLE")
  <2>1. \A j \in x.queued : \A n \in Outputs(Act(l, j)) : n \in Own(l) /\ h[n].status = "PENDING"
    BY <1>1, <1>2, <1>6, MadeFacts DEF StatusTrue
  <2>2. \A j \in x.flying : \A n \in Act(l, j).dst : h[n].status = "PENDING"
    BY <1>1, <1>2, <1>6, MadeFacts DEF StatusTrue, Outputs
  <2>3. \A n \in Act(l, i).dst : h[n].status = "PENDING"
    BY <2>1 DEF Outputs
  <2> QED
    BY <1>1, <1>3, <1>6, <2>1, <2>2, <2>3 DEF StatusTrue, Late
<1>13. UsesTrue(l, h, y, "IDLE")
  BY <1>3, <1>6, <1>7 DEF UsesTrue
<1>14. KnownTrue(l, h, y)
  <2> SUFFICES ASSUME NEW j \in 1 .. x.pc - 1, j \notin y.queued, NEW n \in Completed(Programs[l])[j]
               PROVE  h[n].status # "PENDING" /\ Made(l, n) \notin y.queued
    BY <1>3 DEF KnownTrue
  <2>1. j \in 1 .. Size(l) /\ n \in Own(l)
    BY <1>2, CompletedFacts
  <2>2. CASE j = i
    BY <1>3, <1>6, <1>8, <2>1, <2>2
  <2>3. CASE j # i
    BY <1>1, <1>3, <1>6, <2>1, <2>3 DEF KnownTrue, Leaves
  <2> QED
    BY <2>2, <2>3
<1>15. SlotsTrue(l, h, y)
  BY <1>1, <1>3, <1>6 DEF SlotsTrue
<1>16. ResetTrue(l, y, "IDLE")
  BY <1>3 DEF ResetTrue, Late
<1> QED
  BY <1>4, <1>9, <1>10, <1>11, <1>12, <1>13, <1>14, <1>15, <1>16 DEF Good, Leaves

\* A synchronous action is accepted, signalled and over in one step.
LEMMA GoodIssueNow ==
    ASSUME NEW l \in Launches, NEW e \in [Names -> EventEntry], NEW h \in [Names -> EventEntry],
           NEW f \in [Names -> EventEntry], NEW q, NEW x, NEW y, Good(l, e, q, x, "IDLE"), NEW i \in x.queued,
           \A n \in Act(l, i).deps : e[n].status = "DONE", Consumes(l, e, h, x.queued, i),
           Signals(l, h, f, Act(l, i).dst, "DONE", x.queued \ {i}),
           Act(l, i).op \in Sync, Act(l, i).op = "barrier" => \A j \in Running(x) : j >= i,
           Leaves(l, x, y, i), y.flying = x.flying, y.fence = (IF x.fence = i THEN 0 ELSE x.fence)
    PROVE  Good(l, f, q, y, "IDLE")
<1>0. Booked(l, h, x.queued \ {i})
  BY ConsumeFacts
<1>1. /\ Flow(l, x) /\ FencesKept(l, x) /\ Produced(l, e, x) /\ StatusTrue(l, e, x, "IDLE")
      /\ QuotaTrue(l, q, x) /\ KnownTrue(l, e, x) /\ SlotsTrue(l, e, x) /\ ResetTrue(l, x, "IDLE")
      /\ ~x.faulted
  BY DEF Good, ResetTrue
<1>2. /\ Size(l) \in Nat /\ i \in 1 .. Size(l) /\ i \in 1 .. x.pc - 1 /\ x.pc \in 1 .. Size(l) + 1
      /\ x.queued \subseteq 1 .. Size(l) /\ x.flying \subseteq 1 .. Size(l) /\ i \notin x.flying
      /\ Own(l) \subseteq Names
  BY <1>1, ProgramFacts DEF Flow, Running
<1>3. /\ Running(y) = Running(x) \ {i} /\ ~y.faulted /\ y.pc = x.pc /\ y.queued \subseteq x.queued
      /\ i \notin y.queued
  BY <1>1, <1>2 DEF Running, Leaves
<1>4. Outputs(Act(l, i)) = Act(l, i).dst
  BY <1>2, ProgramFacts DEF ActionOK, Outputs, Sync
<1> DEFINE S == Act(l, i).dst
<1>5. /\ Booked(l, h, x.queued \ {i})
      /\ \A n \in S : h[n] = e[n] /\ n \in Own(l) /\ e[n].status = "PENDING"
  <2>1. \A n \in Outputs(Act(l, i)) : h[n] = e[n]
    BY <1>0, ConsumeFacts
  <2> QED
    BY <1>0, <1>1, <1>2, <1>4, <2>1, MadeFacts DEF StatusTrue
<1>6. \A n \in Own(l) : /\ h[n].status = "PENDING" <=> e[n].status = "PENDING"
                        /\ h[n].status # "ABSENT" => e[n].status # "ABSENT"
                        /\ h[n].status \in {"ABSENT", "PENDING", "DONE"}
                        /\ ~(h[n].status \in Terminal /\ h[n].uses = 0)
  BY <1>0, ConsumeFacts
<1>7. \A n \in Own(l) : Made(l, n) < x.pc => h[n].uses = Cardinality(Readers(l, n, y))
  BY <1>0, ConsumeFacts
<1>8. \A n \in Completed(Programs[l])[i] :
         n \in Own(l) /\ e[n].status # "PENDING" /\ Made(l, n) \notin x.queued
  BY KnownAtIssue
<1>9. /\ Booked(l, f, x.queued \ {i})
      /\ \A n \in Names \ S : f[n] = h[n]
      /\ \A n \in S : /\ h[n].uses = 0 => f[n] = NoEntry
                      /\ h[n].uses # 0 => f[n].status = "DONE" /\ f[n].uses = h[n].uses
  <2>1. x.queued \ {i} \subseteq 1 .. Size(l)
    BY <1>2
  <2> QED
    BY <1>5, <2>1, SignalBooked
<1>10. \A n \in Own(l) : /\ f[n].status = "PENDING" <=> e[n].status = "PENDING" /\ n \notin S
                         /\ f[n].status # "ABSENT" => e[n].status # "ABSENT"
                         /\ f[n].status \in {"ABSENT", "PENDING", "DONE"}
                         /\ ~(f[n].status \in Terminal /\ f[n].uses = 0)
                         /\ f[n].uses = h[n].uses
  <2> SUFFICES ASSUME NEW n \in Own(l)
               PROVE  /\ f[n].status = "PENDING" <=> e[n].status = "PENDING" /\ n \notin S
                      /\ f[n].status # "ABSENT" => e[n].status # "ABSENT"
                      /\ f[n].status \in {"ABSENT", "PENDING", "DONE"}
                      /\ ~(f[n].status \in Terminal /\ f[n].uses = 0)
                      /\ f[n].uses = h[n].uses
    OBVIOUS
  <2> HIDE DEF S
  <2>1. CASE n \notin S
    BY <1>2, <1>6, <1>9, <2>1
  <2>2. CASE n \in S /\ h[n].uses = 0
    BY <1>5, <1>9, <2>2, NoEntryFacts DEF Terminal
  <2>3. CASE n \in S /\ h[n].uses # 0
    BY <1>5, <1>9, <2>3
  <2> QED
    BY <2>1, <2>2, <2>3
<1>11. \A n \in Own(l) : n \in S <=> Made(l, n) = i
  BY <1>2, <1>4, MadeFacts
<1> HIDE DEF S
<1>12. Flow(l, y)
  BY <1>1, <1>2, <1>3 DEF Flow, InUse, Leaves
<1>13. FencesKept(l, y)
  <2>1. y.fence # 0 => /\ y.fence \in Running(y) /\ y.fence = y.pc - 1 /\ Act(l, y.fence).op \in Fences
    BY <1>1, <1>3 DEF FencesKept
  <2>2. \A k \in Running(y) : Act(l, k).op \in Fences => k = y.fence
    BY <1>1, <1>3 DEF FencesKept
  <2>3. ASSUME NEW k \in 1 .. x.pc - 1, Act(l, k).op = "barrier", k < x.pc - 1 \/ k \notin y.queued,
               NEW j \in Running(y)
        PROVE  k < j
    <3>1. j \in Running(x) /\ j # i /\ j \in Nat
      BY <1>2, <1>3 DEF Running
    <3>2. CASE k = i
      BY <1>2, <2>3, <3>1, <3>2
    <3>3. CASE k # i
      BY <1>1, <2>3, <3>1, <3>3 DEF FencesKept, Leaves
    <3> QED
      BY <3>2, <3>3
  <2> QED
    BY <1>3, <2>1, <2>2, <2>3 DEF FencesKept
<1>14. Booked(l, f, y.queued) /\ Produced(l, f, y) /\ QuotaTrue(l, q, y)
  BY <1>1, <1>3, <1>9, <1>10 DEF Produced, QuotaTrue, InUse, Leaves
<1>15. StatusTrue(l, f, y, "IDLE")
  <2>1. \A n \in Own(l) : f[n].status = "PENDING" => Made(l, n) \in Running(y)
    BY <1>1, <1>3, <1>10, <1>11 DEF StatusTrue
  <2>2. \A j \in y.queued : \A n \in Outputs(Act(l, j)) : f[n].status = "PENDING"
    BY <1>1, <1>2, <1>3, <1>10, <1>11, MadeFacts DEF StatusTrue
  <2>3. \A j \in y.flying : \A n \in Act(l, j).dst : f[n].status = "PENDING"
    BY <1>1, <1>2, <1>10, <1>11, MadeFacts DEF StatusTrue, Outputs
  <2> QED
    BY <1>10, <2>1, <2>2, <2>3 DEF StatusTrue, Late
<1>16. UsesTrue(l, f, y, "IDLE")
  BY <1>3, <1>7, <1>10 DEF UsesTrue
<1>17. KnownTrue(l, f, y)
  <2> SUFFICES ASSUME NEW j \in 1 .. x.pc - 1, j \notin y.queued, NEW n \in Completed(Programs[l])[j]
               PROVE  f[n].status # "PENDING" /\ Made(l, n) \notin y.queued
    BY <1>3 DEF KnownTrue
  <2>1. j \in 1 .. Size(l) /\ n \in Own(l)
    BY <1>2, CompletedFacts
  <2>2. CASE j = i
    BY <1>3, <1>8, <1>10, <2>1, <2>2
  <2>3. CASE j # i
    BY <1>1, <1>3, <1>10, <2>1, <2>3 DEF KnownTrue, Leaves
  <2> QED
    BY <2>2, <2>3
<1>18. SlotsTrue(l, f, y)
  <2>1. CASE x.fence # i
    BY <1>1, <1>3, <1>10, <2>1 DEF SlotsTrue
  <2>2. CASE x.fence = i
    <3> SUFFICES ASSUME NEW n \in Own(l), f[n].status # "ABSENT"
                 PROVE  n \in LiveSlots(Programs[l])[y.pc - 1]
      BY <2>2 DEF SlotsTrue
    <3>1. i = x.pc - 1
      BY <1>1, <1>2, <2>2 DEF FencesKept
    <3>2. n \in LiveSlots(Programs[l])[x.pc - 2] \cup Outputs(Act(l, x.pc - 1))
      BY <1>1, <1>2, <1>10, <2>2 DEF SlotsTrue
    <3>3. x.pc - 2 = i - 1 /\ x.pc - 1 = i /\ y.pc - 1 = i
      BY <1>2, <1>3, <3>1
    <3>4. LiveSlots(Programs[l])[i] = SlotsStep(l, LiveSlots(Programs[l])[i - 1], i)
      BY <1>2, SlotsFacts
    <3>5. ~(n \in ProvedTerminal(l, i) /\ Consumers(Programs[l], n) \subseteq ProvedIssued(l, i))
      <4>1. \A k \in Own(l) : f[k] \in EventEntry
        BY <1>2
      <4>2. y.fence = 0 /\ ~y.faulted
        BY <1>3, <2>2
      <4> QED
        BY <1>12, <1>13, <1>15, <1>16, <1>17, <3>3, <4>1, <4>2, FenceDone
    <3> QED
      BY <3>2, <3>3, <3>4, <3>5 DEF SlotsStep
  <2> QED
    BY <2>1, <2>2
<1>19. ResetTrue(l, y, "IDLE")
  BY <1>3 DEF ResetTrue, Late
<1> QED
  BY <1>12, <1>13, <1>14, <1>15, <1>16, <1>17, <1>18, <1>19 DEF Good

-----------------------------------------------------------------------------
(* Registration.                                                           *)

\* The events of a launch are among those its program produces.
OwnOnly(l, e) == \A n \in Names \ Own(l) : e[n].status = "ABSENT" \/ e[n].launch # l

MayRegister(l, x) == x.stage = "active" /\ ~x.faulted /\ ~x.closed /\ x.fence = 0

\* The compiler's frontier suffices: preflight_action accepts the next action.
LEMMA PreflightPasses ==
    ASSUME NEW l \in Launches, NEW e \in [Names -> EventEntry], NEW k \in [Launches -> Quota], NEW x, NEW s,
           Good(l, e, k[l], x, s), OwnOnly(l, e), MayRegister(l, x)
    PROVE  /\ x.pc \in 1 .. Size(l)
           /\ PreflightAction(e, k, l, Outputs(Act(l, x.pc)), Act(l, x.pc).deps)
           /\ \A n \in Outputs(Act(l, x.pc)) : e[n].status = "ABSENT"
           /\ \A n \in Act(l, x.pc).deps : e[n].status # "ABSENT" /\ e[n].refs < e[n].uses
<1> DEFINE i == x.pc
           O == Outputs(Act(l, i))
           D == Act(l, i).deps
           P == Programs[l]
<1>1. /\ Flow(l, x) /\ Booked(l, e, x.queued) /\ Produced(l, e, x) /\ UsesTrue(l, e, x, s)
      /\ QuotaTrue(l, k[l], x) /\ SlotsTrue(l, e, x) /\ x.fence = 0 /\ ~x.faulted /\ InUse(x) /\ ~x.closed
  BY DEF Good, MayRegister, InUse
<1>2. Size(l) \in Nat /\ i \in 1 .. Size(l) /\ i \in 1 .. Size(l) + 1 /\ Running(x) \subseteq 1 .. i - 1
      /\ Own(l) \subseteq Names /\ DOMAIN EventUses[l] = Own(l)
  BY <1>1, ProgramFacts DEF Flow
<1>3. /\ k[l].open /\ k[l].limit = Frontier(P) /\ k[l].produced = OutputsBefore(P, i)
  BY <1>1 DEF QuotaTrue
<1>4. O \subseteq Own(l) /\ O \cap OutputsBefore(P, i) = {} /\ D \subseteq Own(l)
      /\ \A n \in O : Made(l, n) = i
  BY <1>2, ProgramFacts, MadeFacts
<1>5. \A n \in O : e[n].status = "ABSENT"
  BY <1>1, <1>2, <1>4 DEF Produced
<1>6. Cardinality(ManagedOf(e, l)) + Cardinality(O) <= Frontier(P)
  <2> DEFINE M == ManagedOf(e, l)
             B == LiveSlots(P)[i - 1]
  <2>1. M \subseteq Own(l) /\ M \cap O = {} /\ M \subseteq B
    <3>1. \A n \in M : n \in Names /\ e[n].status # "ABSENT" /\ e[n].launch = l
      BY DEF ManagedOf, OwnedBy, Live
    <3>2. M \subseteq Own(l)
      BY <3>1 DEF OwnOnly
    <3> QED
      BY <1>1, <1>5, <3>1, <3>2 DEF SlotsTrue
  <2>2. B \subseteq Own(l)
    BY <1>2, SlotsFacts
  <2>3. IsFiniteSet(Names)
    BY TableAssumption
  <2>4. IsFiniteSet(M) /\ IsFiniteSet(O) /\ IsFiniteSet(B \cup O)
    <3>1. M \in SUBSET Names /\ O \in SUBSET Names /\ B \cup O \in SUBSET Names
      BY <1>2, <1>4, <2>1, <2>2
    <3> QED
      BY <2>3, <3>1, FS_Subset
  <2>5. Cardinality(B \cup O) <= Frontier(P) /\ Frontier(P) \in Nat
    BY <1>2, FrontierFacts
  <2> HIDE DEF M, B, O
  <2>6. Cardinality(M \cup O) = Cardinality(M) + Cardinality(O)
    <3>1. Cardinality(M \cap O) = 0
      BY <2>1, FS_EmptySet
    <3>2. /\ Cardinality(M \cup O) = Cardinality(M) + Cardinality(O) - Cardinality(M \cap O)
          /\ Cardinality(M) \in Nat /\ Cardinality(O) \in Nat
      BY <2>4, FS_Union, FS_CardinalityType
    <3> QED
      BY <3>1, <3>2
  <2>7. Cardinality(M \cup O) <= Cardinality(B \cup O) /\ Cardinality(M \cup O) \in Nat
        /\ Cardinality(B \cup O) \in Nat
    <3>1. M \cup O \in SUBSET (B \cup O)
      BY <2>1
    <3> QED
      BY <2>4, <3>1, FS_Subset, FS_CardinalityType
  <2> QED
    BY <2>5, <2>6, <2>7 DEF M
<1>7. ASSUME NEW n \in D
      PROVE  e[n].status # "ABSENT" /\ e[n].refs < e[n].uses /\ e[n].bound /\ e[n].managed /\ e[n].launch = l
  <2> DEFINE R == Readers(l, n, x)
             T == Pins(l, n, x.queued)
  <2>1. n \in Own(l) /\ Made(l, n) < i
    BY <1>2, MadeFacts
  <2>2. e[n].uses = Cardinality(R) /\ e[n].refs = Cardinality(T)
    BY <1>1, <2>1 DEF UsesTrue, Booked
  <2>3. i \in R /\ T \subseteq R \ {i}
    BY <1>2 DEF Readers, Pins, Running
  <2>4. IsFiniteSet(R)
    <3>1. IsFiniteSet(1 .. Size(l)) /\ R \in SUBSET (1 .. Size(l))
      BY <1>2, FS_Interval DEF Readers
    <3> QED
      BY <3>1, FS_Subset
  <2>5. IsFiniteSet(R \ {i}) /\ Cardinality(R \ {i}) = Cardinality(R) - 1
    BY <2>3, <2>4, FS_RemoveElement
  <2>6. Cardinality(T) <= Cardinality(R \ {i}) /\ Cardinality(T) \in Nat /\ Cardinality(R) \in Nat
    <3>1. T \in SUBSET (R \ {i})
      BY <2>3
    <3> HIDE DEF T, R
    <3> QED
      BY <2>4, <2>5, <3>1, FS_Subset, FS_CardinalityType
  <2>7. e[n].refs < e[n].uses /\ e[n].uses # 0
    <3> HIDE DEF T, R
    <3> QED
      BY <2>2, <2>5, <2>6
  <2>8. e[n].status # "ABSENT"
    BY <1>1, <2>1, <2>7, NoEntryFacts DEF Booked
  <2> QED
    BY <1>1, <2>1, <2>7, <2>8 DEF Booked
<1>8. OutputsOK(e, k, l, O)
  BY <1>2, <1>3, <1>4, <1>5, <1>6 DEF OutputsOK, Live
<1>9. \A n \in D : ConsumerOK(e, l, n) /\ e[n].managed
  BY <1>2, <1>4, <1>7 DEF ConsumerOK, OwnedBy, Live
<1> QED
  BY <1>2, <1>5, <1>7, <1>8, <1>9 DEF PreflightAction

\* What registering the next action does to the quota and the sequencer.
Registers(l, q, r, x, y) ==
    /\ r = [q EXCEPT !.produced = @ \cup Outputs(Act(l, x.pc))]
    /\ y \in ContextState
    /\ y.stage = x.stage /\ y.pc = x.pc + 1 /\ y.queued = x.queued \cup {x.pc} /\ y.flying = x.flying
    /\ y.fence = (IF Act(l, x.pc).op \in Fences THEN x.pc ELSE x.fence)
    /\ y.broken = x.broken /\ y.faulted = x.faulted /\ y.closed = (x.pc + 1 > Size(l))

\* Registering the next action keeps the launch good.
LEMMA GoodRegister ==
    ASSUME NEW l \in Launches, NEW e \in [Names -> EventEntry], NEW f \in [Names -> EventEntry], NEW q, NEW r,
           NEW x, NEW y, NEW s, Good(l, e, q, x, s), MayRegister(l, x), s # "RESET_DOMAIN", x.pc \in 1 .. Size(l),
           Reserves(l, e, f, x.queued, x.pc), Registers(l, q, r, x, y)
    PROVE  Good(l, f, r, y, s) /\ \A n \in Names \ Own(l) : f[n] = e[n]
<1> DEFINE i == x.pc
           O == Outputs(Act(l, i))
           D == Act(l, i).deps
           P == Programs[l]
<1>1. /\ Flow(l, x) /\ FencesKept(l, x) /\ Booked(l, e, x.queued) /\ Produced(l, e, x)
      /\ StatusTrue(l, e, x, s) /\ UsesTrue(l, e, x, s) /\ QuotaTrue(l, q, x) /\ KnownTrue(l, e, x)
      /\ SlotsTrue(l, e, x) /\ ResetTrue(l, x, s) /\ x.fence = 0 /\ ~x.faulted /\ InUse(x) /\ x.stage = "active"
  BY DEF Good, MayRegister, InUse
<1>2. /\ Size(l) \in Nat /\ i \in 1 .. Size(l) /\ i \in Nat /\ Running(x) \subseteq 1 .. i - 1
      /\ x.queued \subseteq 1 .. Size(l) /\ x.flying \subseteq 1 .. Size(l) /\ i \notin Running(x)
      /\ Own(l) \subseteq Names
  BY <1>1, ProgramFacts DEF Flow, Running
<1>3. s \notin Late
  BY <1>1 DEF ResetTrue
<1>4. Booked(l, f, x.queued \cup {i})
  BY <1>1, <1>2, RegisterBooked
<1>5. /\ \A n \in Names \ (O \cup D) : f[n] = e[n]
      /\ \A n \in O : f[n].status = "PENDING" /\ f[n].uses = Cardinality(Consumers(P, n))
      /\ \A n \in D : f[n].status = e[n].status /\ f[n].uses = e[n].uses
  BY <1>1, <1>2, <1>4, RegisterBooked
<1>6. /\ O \subseteq Own(l) /\ D \subseteq Own(l) /\ \A n \in Own(l) : n \in O <=> Made(l, n) = i
  BY <1>2, MadeFacts
<1>7. \A n \in Own(l) : Made(l, n) # i => f[n].status = e[n].status /\ f[n].uses = e[n].uses
  BY <1>2, <1>5, <1>6
<1>8. \A n \in Own(l) : Made(l, n) = i =>
         f[n].status = "PENDING" /\ f[n].uses = Cardinality(Consumers(P, n)) /\ e[n].status = "ABSENT"
  BY <1>5, <1>6 DEF Reserves
<1> HIDE DEF O, D
<1>9. /\ y.queued = x.queued \cup {i} /\ y.flying = x.flying /\ y.pc = i + 1 /\ ~y.faulted
      /\ Running(y) = Running(x) \cup {i} /\ InUse(y) /\ y.stage = "active"
  BY <1>1 DEF Registers, Running, InUse
<1>10. Flow(l, y)
  <2>1. y.closed <=> y.pc = Size(l) + 1
    <3>1. y.closed <=> x.pc + 1 > Size(l)
      BY Zenon DEF Registers
    <3>2. x.pc + 1 > Size(l) <=> y.pc = Size(l) + 1
      BY <1>2, <1>9
    <3> QED
      BY <3>1, <3>2
  <2>2. Running(y) \subseteq 1 .. y.pc - 1 /\ y.pc \in 1 .. Size(l) + 1
    BY <1>2, <1>9
  <2>3. y.queued \cap y.flying = {}
    BY <1>1, <1>2, <1>9 DEF Flow, Running
  <2> QED
    BY <1>1, <1>9, <2>1, <2>2, <2>3 DEF Flow, Registers
<1>11. FencesKept(l, y)
  <2>1. \A j \in Running(x) : Act(l, j).op \notin Fences
    BY <1>1, <1>2 DEF FencesKept
  <2>2. y.fence = IF Act(l, i).op \in Fences THEN i ELSE 0
    BY <1>1 DEF Registers
  <2>3. y.fence # 0 => y.fence \in Running(y) /\ y.fence = y.pc - 1 /\ Act(l, y.fence).op \in Fences
    BY <1>2, <1>9, <2>2
  <2>4. \A j \in Running(y) : Act(l, j).op \in Fences => j = y.fence
    BY <1>9, <2>1, <2>2
  <2>5. ASSUME NEW j \in 1 .. y.pc - 1, Act(l, j).op = "barrier", j < y.pc - 1 \/ j \notin y.queued,
               NEW b \in Running(y)
        PROVE  j < b
    <3>1. j \in 1 .. x.pc - 1 /\ j < i
      BY <1>2, <1>9, <2>5
    <3>2. j \notin x.queued
      BY <2>1, <2>5 DEF Running, Fences
    <3>3. \A c \in Running(x) : j < c
      BY <1>1, <2>5, <3>1, <3>2 DEF FencesKept
    <3> QED
      BY <1>9, <3>1, <3>3
  <2> QED
    BY <1>9, <2>3, <2>4, <2>5 DEF FencesKept
<1>12. Booked(l, f, y.queued) /\ Produced(l, f, y)
  <2>1. \A n \in Own(l) : Made(l, n) \in Nat /\ (Made(l, n) < i => Made(l, n) < y.pc) /\ i < y.pc
    BY <1>2, <1>9, MadeFacts
  <2>2. Produced(l, f, y)
    BY <1>1, <1>7, <1>9, <2>1 DEF Produced
  <2> QED
    BY <1>4, <1>9, <2>2
<1>13. StatusTrue(l, f, y, s)
  <2>1. \A n \in Own(l) : f[n].status = "PENDING" => Made(l, n) \in Running(y)
    BY <1>1, <1>7, <1>9 DEF StatusTrue
  <2>2. \A j \in y.queued : \A n \in Outputs(Act(l, j)) : f[n].status = "PENDING"
    BY <1>1, <1>2, <1>7, <1>8, <1>9, MadeFacts DEF StatusTrue
  <2>3. \A j \in y.flying : \A n \in Act(l, j).dst : f[n].status = "PENDING"
    <3> SUFFICES ASSUME NEW j \in x.flying, NEW n \in Act(l, j).dst PROVE f[n].status = "PENDING"
      BY <1>9
    <3>1. n \in Own(l) /\ Made(l, n) = j /\ j # i
      BY <1>2, MadeFacts DEF Outputs, Running
    <3> QED
      BY <1>1, <1>7, <3>1 DEF StatusTrue
  <2>4. s = "IDLE" => \A n \in Own(l) : f[n].status \in {"ABSENT", "PENDING", "DONE"}
    BY <1>1, <1>7, <1>8 DEF StatusTrue
  <2> QED
    BY <1>3, <2>1, <2>2, <2>3, <2>4 DEF StatusTrue
<1>14. UsesTrue(l, f, y, s)
  <2>1. ASSUME NEW n \in Own(l)
        PROVE  /\ Made(l, n) < y.pc => f[n].uses = Cardinality(Readers(l, n, y))
               /\ ~(f[n].status \in Terminal /\ f[n].uses = 0)
    <3>1. CASE Made(l, n) = i
      <4>1. \A j \in Consumers(P, n) : j \in 1 .. Size(l) /\ i < j
        BY <3>1, MadeFacts DEF Consumers, Act, Size
      <4>2. Readers(l, n, y) = Consumers(P, n)
        <5>1. \A j \in Readers(l, n, y) : j \in Consumers(P, n)
          BY DEF Readers, Consumers, Act, Size
        <5>2. \A j \in Consumers(P, n) : j \in Readers(l, n, y)
          BY <1>2, <1>9, <4>1 DEF Readers, Consumers, Act, Size
        <5> QED
          BY <5>1, <5>2
      <4> QED
        BY <1>8, <3>1, <4>2 DEF Terminal
    <3>2. CASE Made(l, n) # i
      <4>1. Made(l, n) < y.pc => Made(l, n) < x.pc
        BY <1>2, <1>9, <3>2, MadeFacts
      <4>2. Readers(l, n, y) = Readers(l, n, x)
        <5>1. \A j \in 1 .. Size(l) : (j >= y.pc \/ j \in y.queued) <=> (j >= x.pc \/ j \in x.queued)
          BY <1>2, <1>9
        <5> QED
          BY <5>1 DEF Readers
      <4> QED
        BY <1>1, <1>7, <3>2, <4>1, <4>2 DEF UsesTrue
    <3> QED
      BY <3>1, <3>2
  <2> QED
    BY <1>9, <2>1 DEF UsesTrue
<1>15. QuotaTrue(l, r, y)
  <2>1. OutputsBefore(P, i + 1) = OutputsBefore(P, i) \cup Outputs(Act(l, i))
    <3>1. 1 .. (i + 1) - 1 = (1 .. i - 1) \cup {i}
      BY <1>2
    <3> QED
      BY <3>1 DEF OutputsBefore, Act
  <2>2. q = [open |-> TRUE, limit |-> Frontier(P), produced |-> OutputsBefore(P, i)]
    BY <1>1 DEF QuotaTrue
  <2>3. r = [open |-> TRUE, limit |-> Frontier(P), produced |-> OutputsBefore(P, i + 1)]
    BY <2>1, <2>2 DEF Registers
  <2> QED
    BY <1>9, <2>3 DEF QuotaTrue
<1>16. KnownTrue(l, f, y)
  <2> SUFFICES ASSUME NEW j \in 1 .. y.pc - 1, j \notin y.queued, NEW n \in Completed(P)[j]
               PROVE  f[n].status # "PENDING" /\ Made(l, n) \notin y.queued
    BY DEF KnownTrue
  <2>1. j \in 1 .. x.pc - 1 /\ j \notin x.queued /\ j \in 1 .. Size(l) /\ j < i
    BY <1>2, <1>9
  <2>2. n \in Own(l) /\ Made(l, n) < j /\ Made(l, n) \in 1 .. Size(l)
    BY <2>1, CompletedFacts, MadeFacts
  <2>3. Made(l, n) # i
    BY <1>2, <2>1, <2>2
  <2>4. e[n].status # "PENDING" /\ Made(l, n) \notin x.queued
    BY <1>1, <2>1 DEF KnownTrue
  <2> QED
    BY <1>7, <1>9, <2>2, <2>3, <2>4
<1>17. SlotsTrue(l, f, y)
  <2>1. \A n \in Own(l) : f[n].status # "ABSENT" => n \in LiveSlots(P)[i - 1] \cup Outputs(Act(l, i))
    BY <1>1, <1>6, <1>7 DEF SlotsTrue, O
  <2>2. CASE Act(l, i).op \in Fences
    <3>1. y.fence # 0 /\ y.pc - 2 = i - 1 /\ y.pc - 1 = i
      BY <1>2, <1>9, <2>2 DEF Registers
    <3> QED
      BY <2>1, <3>1 DEF SlotsTrue
  <2>3. CASE Act(l, i).op \notin Fences
    <3>1. y.fence = 0 /\ y.pc - 1 = i
      BY <1>1, <1>2, <1>9, <2>3 DEF Registers
    <3>2. LiveSlots(P)[i] = LiveSlots(P)[i - 1] \cup Outputs(Act(l, i))
      BY <1>2, <2>3, SlotsFacts DEF SlotsStep
    <3> QED
      BY <2>1, <3>1, <3>2 DEF SlotsTrue
  <2> QED
    BY <2>2, <2>3
<1>18. ResetTrue(l, y, s)
  BY <1>1, <1>3, <1>9 DEF ResetTrue
<1>19. \A n \in Names \ Own(l) : f[n] = e[n]
  BY <1>5, <1>6
<1> QED
  BY <1>10, <1>11, <1>12, <1>13, <1>14, <1>15, <1>16, <1>17, <1>18, <1>19 DEF Good

-----------------------------------------------------------------------------
(* The cleanup of the reset.                                               *)

\* MARK_EVENTS: no event is pending any more.
LEMMA MarkFacts ==
    ASSUME NEW e \in [Names -> EventEntry]
    PROVE  /\ ResetE(e) \in [Names -> EventEntry]
           /\ \A n \in Names :
                 /\ ResetE(e)[n].status = IF e[n].status = "PENDING" THEN "RESET" ELSE e[n].status
                 /\ e[n].status # "PENDING" => ResetE(e)[n] = e[n]
                 /\ ResetE(e)[n].launch = e[n].launch /\ ResetE(e)[n].managed = e[n].managed
                 /\ ResetE(e)[n].bound = e[n].bound /\ ResetE(e)[n].producer = e[n].producer
                 /\ ResetE(e)[n].refs = e[n].refs /\ ResetE(e)[n].uses = e[n].uses
                 /\ ResetE(e)[n] \in EventEntry
<1>1. ASSUME NEW x \in EventEntry
      PROVE  LET y == [x EXCEPT !.status = "RESET"] IN
             /\ y \in EventEntry /\ y.status = "RESET" /\ y.launch = x.launch /\ y.managed = x.managed
             /\ y.bound = x.bound /\ y.producer = x.producer /\ y.refs = x.refs /\ y.uses = x.uses
  BY DEF EventEntry, EventStatus, Terminal
<1>2. ASSUME NEW n \in Names
      PROVE  /\ ResetE(e)[n].status = IF e[n].status = "PENDING" THEN "RESET" ELSE e[n].status
             /\ e[n].status # "PENDING" => ResetE(e)[n] = e[n]
             /\ ResetE(e)[n].launch = e[n].launch /\ ResetE(e)[n].managed = e[n].managed
             /\ ResetE(e)[n].bound = e[n].bound /\ ResetE(e)[n].producer = e[n].producer
             /\ ResetE(e)[n].refs = e[n].refs /\ ResetE(e)[n].uses = e[n].uses
             /\ ResetE(e)[n] \in EventEntry
  <2> DEFINE x == e[n]
             y == [x EXCEPT !.status = "RESET"]
  <2>1. ResetE(e)[n] = IF x.status = "PENDING" THEN y ELSE x
    BY DEF ResetE
  <2>2. x \in EventEntry
    OBVIOUS
  <2> HIDE DEF x
  <2>3. /\ y \in EventEntry /\ y.status = "RESET" /\ y.launch = x.launch /\ y.managed = x.managed
        /\ y.bound = x.bound /\ y.producer = x.producer /\ y.refs = x.refs /\ y.uses = x.uses
    BY <1>1, <2>2
  <2> HIDE DEF y
  <2>4. /\ ResetE(e)[n].status = IF x.status = "PENDING" THEN "RESET" ELSE x.status
        /\ x.status # "PENDING" => ResetE(e)[n] = x
        /\ ResetE(e)[n].launch = x.launch /\ ResetE(e)[n].managed = x.managed
        /\ ResetE(e)[n].bound = x.bound /\ ResetE(e)[n].producer = x.producer
        /\ ResetE(e)[n].refs = x.refs /\ ResetE(e)[n].uses = x.uses
        /\ ResetE(e)[n] \in EventEntry
    BY <2>1, <2>2, <2>3
  <2> QED
    BY <2>4 DEF x
<1>3. ResetE(e) \in [Names -> EventEntry]
  BY <1>2 DEF ResetE
<1> QED
  BY <1>2, <1>3

\* MARK_EVENTS keeps every launch good.
LEMMA GoodMark ==
    ASSUME NEW l \in Launches, NEW e \in [Names -> EventEntry], NEW q, NEW x, Good(l, e, q, x, "MARK_EVENTS")
    PROVE  Good(l, ResetE(e), q, x, "RESET_DOMAIN")
<1> DEFINE g == ResetE(e)
<1>1. \A n \in Names :
         /\ g[n].status = IF e[n].status = "PENDING" THEN "RESET" ELSE e[n].status
         /\ e[n].status # "PENDING" => g[n] = e[n]
         /\ g[n].launch = e[n].launch /\ g[n].managed = e[n].managed
         /\ g[n].bound = e[n].bound /\ g[n].producer = e[n].producer
         /\ g[n].refs = e[n].refs /\ g[n].uses = e[n].uses
         /\ g[n] \in EventEntry
  BY MarkFacts
<1> HIDE DEF g
<1>2. Own(l) \subseteq Names /\ x.queued \subseteq 1 .. Size(l) /\ x.pc \in 1 .. Size(l) + 1 /\ Size(l) \in Nat
  BY ProgramFacts DEF Good, Flow, Running
<1>3. \A n \in Own(l) : /\ g[n].status # "PENDING"
                        /\ g[n].status = "ABSENT" <=> e[n].status = "ABSENT"
  BY <1>1, <1>2
<1>4. Booked(l, g, x.queued)
  <2>1. ASSUME NEW n \in Own(l)
        PROVE  /\ g[n] \in EventEntry
               /\ g[n].status = "ABSENT" => g[n] = NoEntry
               /\ g[n].status # "ABSENT" =>
                     g[n].launch = l /\ g[n].managed /\ g[n].bound /\ g[n].producer = Made(l, n)
               /\ g[n].refs = Cardinality(Pins(l, n, x.queued))
               /\ g[n].refs <= g[n].uses
    BY <1>1, <1>2, <1>3 DEF Good, Booked
  <2>2. \A i \in x.queued : \A n \in Outputs(Act(l, i)) : g[n].status # "ABSENT"
    BY <1>2, <1>3, MadeFacts DEF Good, Booked
  <2> QED
    BY <2>1, <2>2 DEF Booked
<1>5. Produced(l, g, x)
  BY <1>3 DEF Good, Produced
<1>6. StatusTrue(l, g, x, "RESET_DOMAIN")
  BY <1>3 DEF StatusTrue
<1>7. UsesTrue(l, g, x, "RESET_DOMAIN")
  <2>1. ASSUME ~x.faulted, NEW n \in Own(l)
        PROVE  /\ Made(l, n) < x.pc => g[n].uses = Cardinality(Readers(l, n, x))
               /\ g[n].status \in Terminal /\ g[n].uses = 0 => Made(l, n) \in Running(x)
    <3>1. g[n].uses = e[n].uses
      BY <1>1, <1>2
    <3>2. CASE e[n].status = "PENDING"
      BY <2>1, <3>1, <3>2 DEF Good, UsesTrue, StatusTrue
    <3>3. CASE e[n].status # "PENDING"
      <4>1. g[n] = e[n]
        BY <1>1, <1>2, <3>3
      <4> QED
        BY <2>1, <4>1 DEF Good, UsesTrue
    <3> QED
      BY <3>2, <3>3
  <2>2. x.faulted => (\A n \in Own(l) : g[n].uses = 0) \/ x.broken \cap x.flying # {}
    BY <1>1, <1>2 DEF Good, UsesTrue
  <2> QED
    BY <2>1, <2>2 DEF UsesTrue
<1>8. KnownTrue(l, g, x)
  <2>1. \A i \in 1 .. x.pc - 1 : \A n \in Completed(Programs[l])[i] : n \in Own(l)
    BY <1>2, CompletedFacts
  <2> QED
    BY <1>3, <2>1 DEF Good, KnownTrue
<1>9. SlotsTrue(l, g, x)
  BY <1>3 DEF Good, SlotsTrue
<1>10. ResetTrue(l, x, "RESET_DOMAIN")
  BY DEF Good, ResetTrue, Late
<1> QED
  BY <1>4, <1>5, <1>6, <1>7, <1>8, <1>9, <1>10 DEF Good, g

\* RESET_DOMAIN: a Context in use has nothing left ...
LEMMA GoodRelease ==
    ASSUME NEW l \in Launches, NEW e, NEW g, NEW q, NEW x, NEW y, Good(l, e, q, x, "RESET_DOMAIN"), InUse(x),
           \A n \in Own(l) : g[n] = NoEntry,
           y \in ContextState, y.stage = x.stage, y.pc = x.pc, y.fence = 0, y.queued = {}, y.flying = {},
           y.broken = x.broken, y.faulted, y.closed
    PROVE  Good(l, g, q, y, "CLEAR_CREDIT_CACHE")
<1>1. Running(y) = {}
  BY DEF Running
<1>2. Flow(l, y) /\ FencesKept(l, y)
  BY <1>1 DEF Good, Flow, FencesKept
<1>3. \A n : Pins(l, n, {}) = {} /\ Cardinality({}) = 0
  BY FS_EmptySet DEF Pins
<1>4. Booked(l, g, y.queued) /\ Produced(l, g, y)
  BY <1>3, NoEntryFacts DEF Booked, Produced
<1>5. StatusTrue(l, g, y, "CLEAR_CREDIT_CACHE") /\ UsesTrue(l, g, y, "CLEAR_CREDIT_CACHE")
  BY NoEntryFacts DEF StatusTrue, UsesTrue
<1>6. QuotaTrue(l, q, y) /\ KnownTrue(l, g, y) /\ SlotsTrue(l, g, y)
  BY DEF Good, QuotaTrue, KnownTrue, SlotsTrue, InUse
<1>7. ResetTrue(l, y, "CLEAR_CREDIT_CACHE")
  BY <1>1 DEF ResetTrue
<1> QED
  BY <1>2, <1>4, <1>5, <1>6, <1>7 DEF Good

\* ... and the others never had anything.
LEMMA GoodReleaseIdle ==
    ASSUME NEW l \in Launches, NEW e, NEW q, NEW x, Good(l, e, q, x, "RESET_DOMAIN"), ~InUse(x)
    PROVE  Good(l, e, q, x, "CLEAR_CREDIT_CACHE")
<1>1. \A n \in Own(l) : e[n].status = "ABSENT"
  BY DEF Good, Produced
<1>2. Running(x) = {} /\ x.queued = {} /\ x.flying = {}
  BY DEF Good, Flow, Running, InUse
<1>3. StatusTrue(l, e, x, "CLEAR_CREDIT_CACHE")
  BY <1>1, <1>2 DEF StatusTrue
<1>4. UsesTrue(l, e, x, "CLEAR_CREDIT_CACHE")
  BY <1>1 DEF Good, UsesTrue, Terminal
<1>5. ResetTrue(l, x, "CLEAR_CREDIT_CACHE")
  BY <1>2 DEF ResetTrue
<1> QED
  BY <1>3, <1>4, <1>5 DEF Good

-----------------------------------------------------------------------------
(* The lists of the scheduler.                                             *)

\* Kept leaves exactly the elements at the given positions, each once.
LEMMA KeptFacts ==
    ASSUME NEW S, NEW s \in Seq(S), NEW I, I \subseteq DOMAIN s
    PROVE  /\ Kept(s, I) \in Seq(S)
           /\ Len(Kept(s, I)) \in Nat /\ Len(Kept(s, I)) <= Len(s)
           /\ \A v : v \in Members(Kept(s, I)) <=> \E i \in I : s[i] = v
           /\ Distinct(s) => Distinct(Kept(s, I))
<1> DEFINE upTo(i) == {k \in I : k <= i}
           n == Cardinality(I)
           rank == [i \in I |-> Cardinality(upTo(i))]
           at(j) == CHOOSE i \in I : Cardinality(upTo(i)) = j
           q == Kept(s, I)
<1>1. Len(s) \in Nat /\ DOMAIN s = 1 .. Len(s) /\ \A k \in DOMAIN s : s[k] \in S
  BY LenProperties, ElementOfSeq
<1>2. IsFiniteSet(I) /\ n \in Nat /\ I \subseteq Nat /\ n <= Len(s)
  <2>1. IsFiniteSet(1 .. Len(s)) /\ I \in SUBSET (1 .. Len(s)) /\ Cardinality(1 .. Len(s)) = Len(s)
    <3> DEFINE m == Len(s)
    <3>1. m \in Nat /\ I \in SUBSET (1 .. m)
      BY <1>1
    <3> HIDE DEF m
    <3>2. IsFiniteSet(1 .. m) /\ Cardinality(1 .. m) = m
      BY <3>1, FS_Interval
    <3> QED
      BY <3>1, <3>2 DEF m
  <2> QED
    BY <2>1, FS_Subset, FS_CardinalityType
<1>3. \A i \in I : IsFiniteSet(upTo(i)) /\ rank[i] \in Nat /\ rank[i] <= n /\ rank[i] # 0
  <2> SUFFICES ASSUME NEW i \in I
               PROVE  IsFiniteSet(upTo(i)) /\ rank[i] \in Nat /\ rank[i] <= n /\ rank[i] # 0
    OBVIOUS
  <2>1. upTo(i) \in SUBSET I /\ i \in upTo(i)
    BY <1>2
  <2>2. IsFiniteSet(upTo(i)) /\ Cardinality(upTo(i)) <= n
    BY <1>2, <2>1, FS_Subset
  <2>3. Cardinality(upTo(i)) \in Nat /\ Cardinality(upTo(i)) # 0
    BY <2>1, <2>2, FS_CardinalityType, FS_EmptySet
  <2> QED
    BY <2>2, <2>3
<1>4. \A i, k \in I : i < k => rank[i] # rank[k]
  <2> SUFFICES ASSUME NEW i \in I, NEW k \in I, i < k
               PROVE  rank[i] # rank[k]
    OBVIOUS
  <2>1. upTo(i) \in SUBSET upTo(k) /\ k \in upTo(k) /\ k \notin upTo(i)
    BY <1>2
  <2>2. IsFiniteSet(upTo(k))
    BY <1>3
  <2>3. Cardinality(upTo(k)) # Cardinality(upTo(i))
    BY <2>1, <2>2, FS_Subset
  <2> QED
    BY <2>3
<1>5. \A i, k \in I : rank[i] = rank[k] => i = k
  <2>1. \A i, k \in I : i < k \/ k < i \/ i = k
    BY <1>2
  <2> QED
    BY <1>4, <2>1
<1>6. rank \in Injection(I, 1 .. n)
  <2>1. \A i \in I : Cardinality(upTo(i)) \in 1 .. n
    <3> SUFFICES ASSUME NEW i \in I PROVE Cardinality(upTo(i)) \in 1 .. n
      OBVIOUS
    <3>1. Cardinality(upTo(i)) \in Nat /\ Cardinality(upTo(i)) <= n /\ Cardinality(upTo(i)) # 0
      BY <1>3
    <3> HIDE DEF upTo, n
    <3> QED
      BY <1>2, <3>1
  <2>2. rank \in [I -> 1 .. n]
    BY <2>1
  <2> QED
    BY <1>5, <2>2 DEF Injection, IsInjective
<1>7. rank \in Surjection(I, 1 .. n)
  <2>1. IsFiniteSet(1 .. n) /\ Cardinality(1 .. n) = n
    BY <1>2, FS_Interval
  <2> QED
    BY <1>2, <1>6, <2>1, FS_Injection
<1>8. \A j \in 1 .. n : \E i \in I : rank[i] = j
  BY <1>7 DEF Surjection
<1>9. \A j \in 1 .. n : at(j) \in I /\ rank[at(j)] = j
  <2> SUFFICES ASSUME NEW j \in 1 .. n PROVE at(j) \in I /\ rank[at(j)] = j
    OBVIOUS
  <2>1. \E i \in I : Cardinality(upTo(i)) = j
    BY <1>8
  <2>2. at(j) \in I /\ Cardinality(upTo(at(j))) = j
    BY <2>1
  <2> QED
    BY <2>2
<1>10. q = [j \in 1 .. n |-> s[at(j)]]
  BY DEF Kept
<1> HIDE DEF upTo, at, rank, q, n
<1>11. \A j \in 1 .. n : at(j) \in DOMAIN s /\ s[at(j)] \in S
  BY <1>1, <1>9
<1>12. q \in Seq(S) /\ Len(q) = n
  <2>1. q \in [1 .. n -> S]
    BY <1>10, <1>11
  <2> QED
    BY <1>2, <2>1, SeqDef, LenProperties
<1>13. ASSUME Distinct(s) PROVE Distinct(q)
  <2> SUFFICES ASSUME NEW j \in 1 .. n, NEW k \in 1 .. n, q[j] = q[k] PROVE j = k
    BY <1>12 DEF Distinct
  <2>1. at(j) = at(k)
    BY <1>1, <1>10, <1>11, <1>13 DEF Distinct
  <2> QED
    BY <1>9, <2>1
<1>14. ASSUME NEW v \in Members(q) PROVE \E i \in I : s[i] = v
  BY <1>9, <1>10, <1>12, <1>14 DEF Members
<1>15. ASSUME NEW i \in I PROVE s[i] \in Members(q)
  <2>1. rank[i] \in 1 .. n
    BY <1>2, <1>3
  <2>2. at(rank[i]) = i
    BY <1>5, <1>9, <2>1
  <2> QED
    BY <1>10, <1>12, <2>1, <2>2 DEF Members
<1> QED
  BY <1>2, <1>12, <1>13, <1>14, <1>15 DEF q

\* The elements of a sequence, and of one with a new element at its end.
LEMMA MembersFacts ==
    ASSUME NEW S, NEW s \in Seq(S)
    PROVE  /\ Members(s) \subseteq S
           /\ Members(s) = Range(s)
           /\ Members(s) = {} => s = <<>>
           /\ \A i \in DOMAIN s : s[i] \in Members(s)
           /\ DOMAIN s = 1 .. Len(s) /\ Len(s) \in Nat
<1>1. Len(s) \in Nat /\ DOMAIN s = 1 .. Len(s) /\ \A k \in DOMAIN s : s[k] \in S
  BY LenProperties, ElementOfSeq
<1>2. Members(s) = Range(s)
  BY <1>1 DEF Members, Range
<1>3. ASSUME Members(s) = {} PROVE s = <<>>
  <2>1. Len(s) = 0
    BY <1>1, <1>3 DEF Members
  <2> QED
    BY <2>1, EmptySeq
<1> QED
  BY <1>1, <1>2, <1>3 DEF Members

-----------------------------------------------------------------------------
(* The invariant of the scheduler.                                         *)

AllGood == \A l \in Launches : Good(l, entries, quotas[l], ctx[l], reset)

\* The table and the sequencers; an event that nobody produces is never there.
Shape ==
    /\ entries \in [Names -> EventEntry]
    /\ quotas \in [Launches -> Quota]
    /\ ctx \in [Launches -> ContextState]
    /\ reset \in ResetStates
    /\ \A n \in Names : (\A l \in Launches : n \notin Own(l)) => entries[n] = NoEntry

\* The lists of the scheduler: the Contexts in use, and records of the right kind.
Lists ==
    /\ active \in Seq(Launches) /\ Distinct(active)
    /\ \A l \in Launches : l \in Members(active) <=> InUse(ctx[l])
    /\ queue \in Seq(AllRecords) /\ Distinct(queue)
    /\ inflight \subseteq AllRecords /\ control \subseteq AllRecords /\ routes \subseteq inflight
    /\ \A r \in inflight : act(r).op \in Async
    /\ \A r \in control : act(r).op = "control"
    /\ \A r \in routes : act(r).op = "dispatch"
    /\ IsFiniteSet(inflight)
    /\ registerCursor \in Nat /\ scanCursor \in Nat

\* Where in the tick the reset and the end of a Context are seen.
Turn ==
    /\ phase \in {"arrive", "issue", "register", "finish", "close"}
    /\ phase = "issue" => reset \in {"IDLE", "DONE"}
    /\ phase = "register" => reset \in {"IDLE", "FAULT_DETECTED", "DONE"}
    /\ phase # "close" => \A l \in Launches : ctx[l].stage # "done"

Credits ==
    /\ used \in [Adapters -> Nat]
    /\ epochRefs \in Nat
    /\ CreditConservation

IInv == Shape /\ AllGood /\ Lists /\ Turn /\ OwnersAgree /\ Credits

\* A record is a launch and a position in its program.
LEMMA RecordFacts ==
    ASSUME NEW r \in AllRecords
    PROVE  /\ r = <<r[1], r[2]>> /\ r[1] \in Launches /\ r[2] \in 1 .. Size(r[1])
           /\ act(r) = Act(r[1], r[2])
<1>1. PICK l \in Launches : r \in {l} \X (1 .. Len(Programs[l]))
  BY DEF AllRecords
<1> QED
  BY <1>1 DEF act, Act, Size

\* Every position of every program is a record.
LEMMA RecordExists ==
    ASSUME NEW l \in Launches, NEW i \in 1 .. Size(l)
    PROVE  <<l, i>> \in AllRecords /\ act(<<l, i>>) = Act(l, i)
BY DEF AllRecords, act, Act, Size

\* What is queued or in flight belongs to an active Context.
LEMMA QueuedFacts ==
    ASSUME IInv, NEW r \in Members(queue)
    PROVE  /\ r \in AllRecords /\ r = <<r[1], r[2]>> /\ r[1] \in Launches /\ act(r) = Act(r[1], r[2])
           /\ r[2] \in ctx[r[1]].queued /\ ctx[r[1]].stage = "active" /\ r[2] \in 1 .. Size(r[1])
<1>1. r \in AllRecords
  BY MembersFacts DEF IInv, Lists
<1>2. r = <<r[1], r[2]>> /\ r[1] \in Launches /\ r[2] \in 1 .. Size(r[1]) /\ act(r) = Act(r[1], r[2])
  BY <1>1, RecordFacts
<1>3. r[2] \in ctx[r[1]].queued
  <2>1. ASSUME NEW l \in Launches, NEW i \in 1 .. Size(l), <<l, i>> \in Members(queue) PROVE i \in ctx[l].queued
    BY <2>1 DEF IInv, OwnersAgree, Size
  <2>2. <<r[1], r[2]>> \in Members(queue)
    BY <1>2, Zenon
  <2> QED
    BY <1>2, <2>1, <2>2
<1>4. ctx[r[1]].stage = "active"
  BY <1>2, <1>3 DEF IInv, AllGood, Good, Flow, Running
<1> QED
  BY <1>1, <1>2, <1>3, <1>4

\* What is accepted and unfinished belongs to an active Context.
LEMMA FlyingFacts ==
    ASSUME IInv, NEW r \in inflight \cup control
    PROVE  /\ r \in AllRecords /\ r = <<r[1], r[2]>> /\ r[1] \in Launches /\ act(r) = Act(r[1], r[2])
           /\ r[2] \in ctx[r[1]].flying /\ ctx[r[1]].stage = "active" /\ r[2] \in 1 .. Size(r[1])
<1>1. r \in AllRecords
  BY DEF IInv, Lists
<1>2. r = <<r[1], r[2]>> /\ r[1] \in Launches /\ r[2] \in 1 .. Size(r[1]) /\ act(r) = Act(r[1], r[2])
  BY <1>1, RecordFacts
<1>3. r[2] \in ctx[r[1]].flying
  <2>1. ASSUME NEW l \in Launches, NEW i \in 1 .. Size(l), <<l, i>> \in inflight \cup control
        PROVE  i \in ctx[l].flying
    BY <2>1 DEF IInv, OwnersAgree, Size
  <2>2. <<r[1], r[2]>> \in inflight \cup control
    BY <1>2, Zenon
  <2> QED
    BY <1>2, <2>1, <2>2
<1>4. ctx[r[1]].stage = "active"
  BY <1>2, <1>3 DEF IInv, AllGood, Good, Flow, Running
<1> QED
  BY <1>1, <1>2, <1>3, <1>4

\* An accepted action in flight, its completion event and the other events of it.
LEMMA DstFacts ==
    ASSUME IInv, NEW r \in inflight
    PROVE  /\ act(r).op \in Async /\ act(r).dst = {Dst(r)} /\ Dst(r) \in Own(r[1]) /\ Made(r[1], Dst(r)) = r[2]
           /\ Outputs(act(r)) = {Dst(r)} \cup act(r).phases
           /\ act(r).op # "dispatch" => act(r).phases = {}
           /\ Dst(r) \notin act(r).phases
           /\ \A n \in act(r).phases : n \in Own(r[1]) /\ Made(r[1], n) = r[2]
<1>1. /\ r[1] \in Launches /\ act(r) = Act(r[1], r[2]) /\ r[2] \in 1 .. Size(r[1])
  BY FlyingFacts
<1>2. act(r).op \in Async /\ ActionOK(act(r))
  BY <1>1, ProgramFacts DEF IInv, Lists
<1>3. PICK n \in Names : act(r).dst = {n}
  BY <1>2 DEF ActionOK
<1>4. Dst(r) = n
  BY <1>3 DEF Dst
<1>5. Outputs(act(r)) = {Dst(r)} \cup act(r).phases
  BY <1>3, <1>4 DEF Outputs
<1>6. \A m \in Outputs(act(r)) : m \in Own(r[1]) /\ Made(r[1], m) = r[2]
  BY <1>1, MadeFacts
<1> QED
  BY <1>2, <1>3, <1>4, <1>5, <1>6 DEF ActionOK

\* The events of a launch are its own.
LEMMA OwnFacts ==
    ASSUME Shape, AllGood, NEW l \in Launches
    PROVE  OwnOnly(l, entries)
<1> SUFFICES ASSUME NEW n \in Names \ Own(l), entries[n].status # "ABSENT" PROVE entries[n].launch # l
  BY DEF OwnOnly
<1>1. PICK k \in Launches : n \in Own(k)
  BY NoEntryFacts DEF Shape
<1>2. entries[n].launch = k
  BY <1>1 DEF AllGood, Good, Booked
<1> QED
  BY <1>1, <1>2

\* A step of one launch leaves the others as they are.
LEMMA OneMoves ==
    ASSUME Shape, AllGood, NEW l \in Launches,
           entries' \in [Names -> EventEntry], quotas' \in [Launches -> Quota],
           ctx' \in [Launches -> ContextState], reset' \in ResetStates,
           \A n \in Names \ Own(l) : entries'[n] = entries[n],
           \A k \in Launches \ {l} : ctx'[k] = ctx[k] /\ quotas'[k] = quotas[k],
           reset' = reset \/ reset' = Trigger(reset),
           Good(l, entries', quotas'[l], ctx'[l], reset')
    PROVE  Shape' /\ AllGood'
<1>1. ASSUME NEW k \in Launches \ {l} PROVE Good(k, entries', quotas'[k], ctx'[k], reset')
  <2>1. Own(k) \subseteq Names /\ Own(k) \cap Own(l) = {}
    BY ProgramFacts
  <2>2. \A n \in Own(k) : entries'[n] = entries[n]
    BY <2>1
  <2>3. Good(k, entries, quotas[k], ctx[k], reset)
    BY DEF AllGood
  <2>4. Turns(k, ctx[k], reset, reset')
    BY DEF Turns, Trigger
  <2>5. Good(k, entries, quotas[k], ctx[k], reset')
    BY <2>3, <2>4, GoodTurn
  <2>6. SameRun(ctx[k], ctx[k])
    BY DEF SameRun, Shape
  <2> QED
    BY <2>2, <2>5, <2>6, GoodSame
<1>2. AllGood'
  BY <1>1 DEF AllGood
<1>3. \A n \in Names : (\A k \in Launches : n \notin Own(k)) => entries'[n] = NoEntry
  BY DEF Shape
<1> QED
  BY <1>2, <1>3 DEF Shape

-----------------------------------------------------------------------------
(* The table in completions and faults.                                    *)

\* A Context is cancelled after a fault; f is the table the handler has by then.
LEMMA CancelStep ==
    ASSUME IInv, NEW l \in Launches, NEW f \in [Names -> EventEntry], NEW L, NEW y,
           Cut(l, entries, f, ctx[l], L), \A n \in Names \ Own(l) : f[n] = entries[n],
           Stopped(ctx[l], y, L), entries' = CancelContextE(f, l), ctx' = [ctx EXCEPT ![l] = y],
           quotas' = quotas, reset' = Trigger(reset)
    PROVE  Shape' /\ AllGood'
<1> DEFINE g == CancelContextE(f, l)
<1>1. Shape /\ AllGood /\ Good(l, entries, quotas[l], ctx[l], reset)
  BY DEF IInv, AllGood
<1>2. OwnOnly(l, f)
  BY <1>1, OwnFacts DEF OwnOnly
<1>3. ctx[l].queued \subseteq 1 .. Size(l) /\ Booked(l, f, ctx[l].queued)
  BY <1>1, ProgramFacts DEF Good, Flow, Running, Cut
<1>4. g \in [Names -> EventEntry] /\ Cancelled(l, f, g, ctx[l].queued) /\ \A n \in Names \ Own(l) : g[n] = f[n]
  <2>1. \A n \in Names \ Own(l) : f[n].status = "ABSENT" \/ f[n].launch # l
    BY <1>2 DEF OwnOnly
  <2> QED
    BY <1>3, <2>1, CancelBooked DEF Cancelled
<1> HIDE DEF g
<1>5. Good(l, g, quotas[l], y, Trigger(reset))
  BY <1>1, <1>4, GoodCancel
<1>6. entries' = g /\ \A n \in Names \ Own(l) : entries'[n] = entries[n]
  BY <1>4 DEF g
<1>7. /\ ctx' \in [Launches -> ContextState] /\ ctx'[l] = y
      /\ \A k \in Launches \ {l} : ctx'[k] = ctx[k]
  BY <1>1 DEF Shape, Stopped
<1>8. reset' \in ResetStates
  BY <1>1 DEF Shape, Trigger, ResetStates
<1>9. Good(l, entries', quotas'[l], ctx'[l], reset')
  BY <1>5, <1>6, <1>7
<1> QED
  BY <1>1, <1>4, <1>6, <1>7, <1>8, <1>9, OneMoves DEF Shape

\* x is the sequencer c once the actions in L have landed.
Lands(c, x, L) ==
    /\ x \in ContextState
    /\ x.stage = c.stage /\ x.pc = c.pc /\ x.queued = c.queued /\ x.flying = c.flying \ L
    /\ x.fence = (IF c.fence \in L THEN 0 ELSE c.fence)
    /\ x.broken = c.broken /\ x.faulted = c.faulted /\ x.closed = c.closed

\* Landed and JobDone take one action out of flight.
LEMMA LandsFacts ==
    ASSUME NEW c \in ContextState, NEW i
    PROVE  /\ Lands(c, Landed(c, i), {i})
           /\ c.jobs # 0 => Lands(c, JobDone(c, i), {i})
           /\ Lands(c, c, {})
<1>1. Lands(c, Landed(c, i), {i})
  BY DEF Lands, Landed, ContextState
<1>2. ASSUME c.jobs # 0 PROVE Lands(c, JobDone(c, i), {i})
  <2>1. c.jobs - 1 \in Nat
    BY <1>2 DEF ContextState
  <2> QED
    BY <2>1 DEF Lands, Landed, JobDone, ContextState
<1>3. Lands(c, c, {})
  BY DEF Lands
<1> QED
  BY <1>1, <1>2, <1>3

\* mark_fault and the cancellation stop a sequencer.
LEMMA StoppedFacts ==
    ASSUME NEW c \in ContextState, NEW x, NEW L, Lands(c, x, L)
    PROVE  Stopped(c, CancelActions(MarkFault(x)), L)
<1> DEFINE y == [x EXCEPT !.faulted = TRUE, !.closed = TRUE]
<1>1. /\ y \in ContextState /\ y.stage = x.stage /\ y.pc = x.pc /\ y.broken = x.broken
      /\ y.queued = x.queued /\ y.flying = x.flying /\ y.fence = x.fence /\ y.faulted /\ y.closed
  BY DEF Lands, ContextState
<1>2. MarkFault(x) = y
  BY DEF MarkFault
<1> HIDE DEF y
<1> DEFINE z == CancelActions(y)
<1>3. /\ z \in ContextState /\ z.stage = y.stage /\ z.pc = y.pc /\ z.broken = y.broken
      /\ z.queued = {} /\ z.flying = y.flying /\ z.fence = (IF y.fence \in y.queued THEN 0 ELSE y.fence)
      /\ z.faulted /\ z.closed
  BY <1>1 DEF CancelActions, ContextState
<1> HIDE DEF z
<1>4. z.fence = IF c.fence \in c.queued \cup L THEN 0 ELSE c.fence
  BY <1>1, <1>3 DEF Lands
<1>5. Stopped(c, z, L)
  BY <1>1, <1>3, <1>4 DEF Stopped, Lands
<1> QED
  BY <1>2, <1>5 DEF z

\* notify_event for event n of the accepted action r.
LEMMA NotifyStep ==
    ASSUME IInv, NEW r \in inflight, NEW n \in Outputs(act(r)), entries[n].status = "PENDING", NEW ok \in BOOLEAN,
           NEW L, NEW x, Lands(ctx[r[1]], x, L), Notify(r[1], n, ok, x), quotas' = quotas,
           \/ L = {} /\ n \notin act(r).dst
           \/ L = {r[2]} /\ \A m \in Outputs(act(r)) : m # n => entries[m].status # "PENDING"
    PROVE  Shape' /\ AllGood'
<1> DEFINE l == r[1]
           i == r[2]
           c == ctx[l]
<1>1. l \in Launches /\ i \in c.flying /\ act(r) = Act(l, i) /\ i \in 1 .. Size(l) /\ Act(l, i).op \in Async
  BY FlyingFacts, DstFacts
<1>2. n \in Own(l) /\ Made(l, n) = i
  BY <1>1, MadeFacts
<1>3. /\ Shape /\ AllGood /\ Good(l, entries, quotas[l], c, reset) /\ c \in ContextState
      /\ entries \in [Names -> EventEntry] /\ Own(l) \subseteq Names
  BY <1>1, ProgramFacts DEF IInv, AllGood, Shape
<1> HIDE DEF l, i
<1>4. c.fence # i
  <2>1. Act(l, i).op \notin Fences /\ i # 0
    BY <1>1, ProgramFacts DEF Async, Adapters, Fences
  <2> QED
    BY <1>3, <2>1 DEF Good, FencesKept
<1> HIDE DEF c
<1>5. CASE ok /\ ~x.faulted
  <2> DEFINE y == [x EXCEPT !.owed = @ \ {n}]
  <2>1. entries' = SignalOne(entries, n, "DONE") /\ ctx' = [ctx EXCEPT ![l] = y] /\ reset' = reset
    BY <1>5 DEF Notify, NotifyDone, SignalOne, l
  <2>2. /\ y \in ContextState /\ y.stage = x.stage /\ y.pc = x.pc /\ y.queued = x.queued /\ y.flying = x.flying
        /\ y.fence = x.fence /\ y.broken = x.broken /\ y.faulted = x.faulted /\ y.closed = x.closed
    BY DEF Lands, ContextState
  <2> HIDE DEF y
  <2>3. /\ y.stage = c.stage /\ y.pc = c.pc /\ y.queued = c.queued /\ y.fence = c.fence
        /\ y.broken = c.broken /\ y.faulted = c.faulted /\ y.closed = c.closed /\ y.flying = c.flying \ L
        /\ ~c.faulted
    BY <1>4, <1>5, <2>2 DEF Lands, c, l, i
  <2>4. \/ y.flying = c.flying /\ n \notin Act(l, Made(l, n)).dst
        \/ /\ y.flying = c.flying \ {Made(l, n)}
           /\ \A m \in Outputs(Act(l, Made(l, n))) : m # n => entries[m].status # "PENDING"
    BY <1>1, <1>2, <2>3 DEF i
  <2>5. Made(l, n) \in c.flying /\ Act(l, Made(l, n)).op \in Async
    BY <1>1, <1>2
  <2>6. /\ Good(l, entries', quotas[l], y, reset) /\ entries' \in [Names -> EventEntry]
        /\ \A m \in Names \ {n} : entries'[m] = entries[m]
    <3> DEFINE f == entries'
    <3>1. f = SignalOne(entries, n, "DONE")
      BY <2>1
    <3> HIDE DEF f
    <3>2. y \in ContextState
      BY <2>2
    <3>3. Answers(l, entries, c, y, n)
      BY <1>2, <2>3, <2>4, <2>5, <3>2 DEF Answers
    <3>4. /\ Good(l, f, quotas[l], y, reset) /\ f \in [Names -> EventEntry]
          /\ \A m \in Names \ {n} : f[m] = entries[m]
      BY <1>1, <1>3, <3>1, <3>3, GoodSignal
    <3> QED
      BY <3>4 DEF f
  <2>7. /\ ctx' \in [Launches -> ContextState] /\ ctx'[l] = y
        /\ \A k \in Launches \ {l} : ctx'[k] = ctx[k]
    BY <1>1, <1>3, <2>1, <2>2 DEF Shape
  <2>8. Good(l, entries', quotas'[l], ctx'[l], reset') /\ \A m \in Names \ Own(l) : entries'[m] = entries[m]
    BY <1>2, <2>1, <2>6, <2>7
  <2> QED
    BY <1>1, <1>3, <2>1, <2>6, <2>7, <2>8, OneMoves DEF Shape
<1>6. CASE ~(ok /\ ~x.faulted)
  <2> DEFINE f == SignalOne(entries, n, "ERROR")
             y == CancelActions(MarkFault(x))
  <2>1. /\ entries' = CancelContextE(f, l) /\ ctx' = [ctx EXCEPT ![l] = y] /\ reset' = Trigger(reset)
    BY <1>6 DEF Notify, NotifyError, SignalOne, l
  <2>2. Stopped(c, y, L)
    BY <1>3, StoppedFacts DEF c, l
  <2>3. f = SignalOne(entries, n, "ERROR")
    OBVIOUS
  <2> HIDE DEF f, y
  <2>4. \/ L = {} /\ n \notin Act(l, Made(l, n)).dst
        \/ /\ L = {Made(l, n)}
           /\ \A m \in Outputs(Act(l, Made(l, n))) : m # n => entries[m].status # "PENDING"
    BY <1>1, <1>2 DEF i
  <2>5. Made(l, n) \in c.flying
    BY <1>1, <1>2
  <2>6. Cut(l, entries, f, c, L) /\ f \in [Names -> EventEntry] /\ \A m \in Names \ {n} : f[m] = entries[m]
    BY <1>1, <1>2, <1>3, <2>3, <2>4, <2>5, CutSignal
  <2>7. \A m \in Names \ Own(l) : f[m] = entries[m]
    BY <1>2, <2>6
  <2> QED
    BY <1>1, <2>1, <2>2, <2>6, <2>7, CancelStep DEF c
<1> QED
  BY <1>5, <1>6


\* A transfer in flight finds its event pending, and its Context waits for it.
LEMMA TransferFacts ==
    ASSUME IInv, NEW r \in inflight, act(r).op \in Transfers
    PROVE  /\ entries[Dst(r)].status = "PENDING" /\ Dst(r) \in Outputs(act(r)) /\ Outputs(act(r)) = {Dst(r)}
           /\ ctx[r[1]].jobs \in Nat \ {0} /\ reset \notin {"MARK_EVENTS", "RESET_DOMAIN"} \cup Late
<1>1. /\ r[1] \in Launches /\ r[2] \in ctx[r[1]].flying /\ act(r) = Act(r[1], r[2])
  BY FlyingFacts
<1>2. /\ act(r).dst = {Dst(r)} /\ Outputs(act(r)) = {Dst(r)} \cup act(r).phases
      /\ act(r).op # "dispatch" => act(r).phases = {}
  BY DstFacts
<1>3. act(r).op # "dispatch"
  BY DEF Transfers
<1>4. Good(r[1], entries, quotas[r[1]], ctx[r[1]], reset)
  BY <1>1 DEF IInv, AllGood
<1>5. reset \notin {"MARK_EVENTS", "RESET_DOMAIN"} \cup Late
  BY <1>1, <1>3, <1>4 DEF Good, ResetTrue, Running
<1>6. entries[Dst(r)].status = "PENDING"
  BY <1>1, <1>2, <1>4, <1>5 DEF Good, StatusTrue
<1> DEFINE J == {t \in inflight : t[1] = r[1] /\ act(t).op \in Transfers}
<1>7. J \in SUBSET inflight /\ r \in J /\ IsFiniteSet(inflight)
  BY DEF IInv, Lists
<1>8. ctx[r[1]].jobs = Cardinality(J)
  BY <1>1 DEF IInv, OwnersAgree
<1> HIDE DEF J
<1>9. IsFiniteSet(J) /\ Cardinality(J) \in Nat /\ Cardinality(J) # 0
  BY <1>7, FS_Subset, FS_CardinalityType, FS_EmptySet
<1> QED
  BY <1>2, <1>3, <1>5, <1>6, <1>8, <1>9

\* A transfer or a collective ends.
LEMMA JobTable ==
    ASSUME IInv, NEW r \in inflight, NEW ok \in BOOLEAN, act(r).op \in Transfers,
           Notify(r[1], Dst(r), ok, JobDone(ctx[r[1]], r[2])), quotas' = quotas
    PROVE  Shape' /\ AllGood'
<1>1. /\ entries[Dst(r)].status = "PENDING" /\ Dst(r) \in Outputs(act(r)) /\ Outputs(act(r)) = {Dst(r)}
      /\ ctx[r[1]].jobs # 0
  BY TransferFacts
<1>2. r[1] \in Launches /\ ctx[r[1]] \in ContextState
  BY FlyingFacts DEF IInv, Shape
<1>3. Lands(ctx[r[1]], JobDone(ctx[r[1]], r[2]), {r[2]})
  BY <1>1, <1>2, LandsFacts
<1>4. \A m \in Outputs(act(r)) : m # Dst(r) => entries[m].status # "PENDING"
  BY <1>1
<1> DEFINE x == JobDone(ctx[r[1]], r[2])
           n == Dst(r)
<1>5. /\ Lands(ctx[r[1]], x, {r[2]}) /\ Notify(r[1], n, ok, x) /\ n \in Outputs(act(r))
      /\ entries[n].status = "PENDING" /\ \A m \in Outputs(act(r)) : m # n => entries[m].status # "PENDING"
  BY <1>1, <1>3, <1>4
<1> HIDE DEF x, n
<1> QED
  BY <1>5, NotifyStep

\* A phase signal keeps every launch good.
LEMMA PhaseTable ==
    ASSUME IInv, NEW r \in routes, NEW n \in act(r).phases, PhaseSignal(r, n)
    PROVE  Shape' /\ AllGood'
<1>1. r \in inflight
  BY DEF IInv, Lists
<1>2. /\ n \in Outputs(act(r)) /\ n \notin act(r).dst /\ r[1] \in Launches
  BY <1>1, FlyingFacts, DstFacts
<1>3. ctx[r[1]] \in ContextState
  BY <1>2 DEF IInv, Shape
<1>4. Lands(ctx[r[1]], ctx[r[1]], {})
  BY <1>3, LandsFacts
<1> DEFINE x == ctx[r[1]]
<1>5. Lands(ctx[r[1]], x, {}) /\ Notify(r[1], n, TRUE, x) /\ quotas' = quotas /\ entries[n].status = "PENDING"
  BY <1>4 DEF PhaseSignal
<1> HIDE DEF x
<1> QED
  BY <1>1, <1>2, <1>5, NotifyStep

\* So does a Grid that completes.
LEMMA GridTable ==
    ASSUME IInv, NEW r \in routes, GridCompletes(r)
    PROVE  Shape' /\ AllGood'
<1>1. r \in inflight
  BY DEF IInv, Lists
<1>2. /\ Outputs(act(r)) = {Dst(r)} \cup act(r).phases /\ r[1] \in Launches
      /\ \A n \in act(r).phases : n \in Own(r[1])
  BY <1>1, FlyingFacts, DstFacts
<1>3. ctx[r[1]] \in ContextState /\ Own(r[1]) \subseteq Names
  BY <1>2, ProgramFacts DEF IInv, Shape
<1>4. Lands(ctx[r[1]], Landed(ctx[r[1]], r[2]), {r[2]})
  BY <1>3, LandsFacts
<1>5. \A m \in Outputs(act(r)) : m # Dst(r) => entries[m].status # "PENDING"
  BY <1>2, <1>3 DEF GridCompletes, Live
<1> DEFINE x == Landed(ctx[r[1]], r[2])
           n == Dst(r)
<1>6. /\ Lands(ctx[r[1]], x, {r[2]}) /\ Notify(r[1], n, TRUE, x) /\ n \in Outputs(act(r))
      /\ entries[n].status = "PENDING" /\ \A m \in Outputs(act(r)) : m # n => entries[m].status # "PENDING"
      /\ quotas' = quotas
  BY <1>2, <1>4, <1>5 DEF GridCompletes
<1> HIDE DEF x, n
<1> QED
  BY <1>1, <1>6, NotifyStep

\* A fault that signals no event.
LEMMA FaultTable ==
    ASSUME IInv, NEW l \in Launches, NEW L, NEW x, L \subseteq ctx[l].flying, \A i \in L : Act(l, i).op = "control",
           Lands(ctx[l], x, L), entries' = CancelContextE(entries, l),
           ctx' = [ctx EXCEPT ![l] = CancelActions(MarkFault(x))], quotas' = quotas, reset' = Trigger(reset)
    PROVE  Shape' /\ AllGood'
<1>1. /\ Good(l, entries, quotas[l], ctx[l], reset) /\ ctx[l] \in ContextState
      /\ entries \in [Names -> EventEntry]
  BY DEF IInv, AllGood, Shape
<1>2. Cut(l, entries, entries, ctx[l], L)
  BY <1>1, CutSame
<1>3. Stopped(ctx[l], CancelActions(MarkFault(x)), L)
  BY <1>1, StoppedFacts
<1> DEFINE f == entries
           y == CancelActions(MarkFault(x))
<1>4. /\ f \in [Names -> EventEntry] /\ Cut(l, entries, f, ctx[l], L) /\ \A n \in Names \ Own(l) : f[n] = entries[n]
      /\ Stopped(ctx[l], y, L) /\ entries' = CancelContextE(f, l) /\ ctx' = [ctx EXCEPT ![l] = y]
  BY <1>1, <1>2, <1>3
<1> HIDE DEF f, y
<1> QED
  BY <1>4, CancelStep

\* So does one that completes after MARK_EVENTS.
LEMMA LateGridTable ==
    ASSUME IInv, NEW r \in routes, GridCompletesLate(r)
    PROVE  Shape' /\ AllGood'
<1>1. r[1] \in Launches
  BY FlyingFacts DEF IInv, Lists
<1>2. Lands(ctx[r[1]], ctx[r[1]], {})
  BY <1>1, LandsFacts DEF IInv, Shape
<1> DEFINE l == r[1]
           x == ctx[l]
           L == {}
<1>3. /\ L \subseteq ctx[l].flying /\ \A i \in L : Act(l, i).op = "control"
      /\ Lands(ctx[l], x, L) /\ entries' = CancelContextE(entries, l)
      /\ ctx' = [ctx EXCEPT ![l] = CancelActions(MarkFault(x))] /\ quotas' = quotas /\ reset' = Trigger(reset)
  BY <1>1, <1>2 DEF GridCompletesLate, IInv, Shape
<1> HIDE DEF l, x, L
<1> QED
  BY <1>1, <1>3, FaultTable DEF l

\* So does a fault of a Task.
LEMMA TileFaultTable ==
    ASSUME IInv, NEW r \in routes, TileFault(r)
    PROVE  Shape' /\ AllGood'
<1> DEFINE l == r[1]
           i == r[2]
           x == ctx[l]
           y == [MarkFault(x) EXCEPT !.broken = @ \cup {i}]
<1>1. l \in Launches /\ i \in x.flying /\ i \in 1 .. Size(l)
  BY FlyingFacts DEF IInv, Lists
<1>2. /\ Shape /\ AllGood /\ Good(l, entries, quotas[l], x, reset) /\ x \in ContextState /\ i \in Nat
      /\ entries \in [Names -> EventEntry] /\ quotas \in [Launches -> Quota] /\ ctx \in [Launches -> ContextState]
  BY <1>1, ProgramFacts DEF IInv, AllGood, Shape
<1>3. ctx' = [ctx EXCEPT ![l] = y] /\ entries' = entries /\ quotas' = quotas /\ reset' = Trigger(reset)
  BY DEF TileFault
<1> HIDE DEF i, x
<1>4. /\ y \in ContextState /\ y.stage = x.stage /\ y.pc = x.pc /\ y.fence = x.fence /\ y.queued = x.queued
      /\ y.flying = x.flying /\ y.broken = x.broken \cup {i} /\ y.faulted /\ y.closed
  BY <1>2 DEF ContextState, MarkFault
<1> HIDE DEF y, l
<1>5. Good(l, entries, quotas[l], y, Trigger(reset))
  BY <1>1, <1>2, <1>4, GoodTileFault
<1>6. /\ ctx' \in [Launches -> ContextState] /\ ctx'[l] = y
      /\ \A k \in Launches \ {l} : ctx'[k] = ctx[k]
  BY <1>1, <1>2, <1>3, <1>4
<1>7. reset' \in ResetStates
  BY <1>2, <1>3 DEF Shape, Trigger, ResetStates
<1>8. Good(l, entries', quotas'[l], ctx'[l], reset')
  BY <1>3, <1>5, <1>6
<1> QED
  BY <1>1, <1>2, <1>3, <1>6, <1>7, <1>8, OneMoves

\* So does the end of a configuration command, done or cancelled.
LEMMA ControlTable ==
    ASSUME IInv, NEW r \in control, NEW ok \in BOOLEAN, ControlCompletes(r, ok)
    PROVE  Shape' /\ AllGood'
<1> DEFINE l == r[1]
           i == r[2]
           c == ctx[l]
           x == Landed(c, i)
<1>1. l \in Launches /\ i \in c.flying /\ i \in 1 .. Size(l) /\ Act(l, i).op = "control"
  BY FlyingFacts DEF IInv, Lists
<1>2. /\ Shape /\ AllGood /\ Good(l, entries, quotas[l], c, reset) /\ c \in ContextState
      /\ entries \in [Names -> EventEntry] /\ quotas \in [Launches -> Quota] /\ ctx \in [Launches -> ContextState]
  BY <1>1, ProgramFacts DEF IInv, AllGood, Shape
<1>3. Lands(c, x, {i})
  BY <1>2, LandsFacts
<1>4. CASE ok /\ ~c.faulted
  <2>1. ctx' = [ctx EXCEPT ![l] = x] /\ entries' = entries /\ quotas' = quotas /\ reset' = reset
    BY <1>4 DEF ControlCompletes
  <2> HIDE DEF x, c, l, i
  <2>2. /\ x \in ContextState /\ x.stage = c.stage /\ x.pc = c.pc /\ x.queued = c.queued
        /\ x.flying = c.flying \ {i} /\ x.fence = (IF c.fence = i THEN 0 ELSE c.fence)
        /\ x.broken = c.broken /\ x.faulted = c.faulted /\ x.closed = c.closed
    BY <1>3 DEF Lands
  <2>3. Good(l, entries, quotas[l], x, reset)
    BY <1>1, <1>2, <1>4, <2>2, GoodControl
  <2>4. /\ ctx' \in [Launches -> ContextState] /\ ctx'[l] = x
        /\ \A k \in Launches \ {l} : ctx'[k] = ctx[k]
    BY <1>1, <1>2, <2>1, <2>2
  <2>5. Good(l, entries', quotas'[l], ctx'[l], reset') /\ reset' \in ResetStates
    BY <1>2, <2>1, <2>3, <2>4 DEF Shape
  <2> QED
    BY <1>1, <1>2, <2>1, <2>4, <2>5, OneMoves
<1>5. CASE ~(ok /\ ~c.faulted)
  <2>1. /\ entries' = CancelContextE(entries, l) /\ ctx' = [ctx EXCEPT ![l] = CancelActions(MarkFault(x))]
        /\ quotas' = quotas /\ reset' = Trigger(reset)
    BY <1>5 DEF ControlCompletes
  <2> DEFINE L == {i}
  <2>2. Lands(ctx[l], x, L) /\ L \subseteq ctx[l].flying /\ \A j \in L : Act(l, j).op = "control"
    BY <1>1, <1>3
  <2> HIDE DEF x, c, l, L
  <2> QED
    BY <1>1, <2>1, <2>2, FaultTable
<1> QED
  BY <1>4, <1>5

\* An admitted Context starts good, with nothing queued or in flight.
LEMMA AdmitTable ==
    ASSUME IInv, NEW l \in Launches, Admit(l)
    PROVE  Shape' /\ AllGood' /\ ctx'[l].stage = "active" /\ ctx'[l].queued = {} /\ ctx'[l].flying = {}
           /\ ctx'[l].jobs = 0 /\ \A k \in Launches \ {l} : ctx'[k] = ctx[k]
<1> DEFINE y == Activated(Loaded(l))
           q == [open |-> TRUE, limit |-> Frontier(Programs[l]), produced |-> {}]
<1>1. /\ Shape /\ AllGood /\ Good(l, entries, quotas[l], ctx[l], "IDLE") /\ ctx[l].stage = "new"
      /\ entries \in [Names -> EventEntry] /\ quotas \in [Launches -> Quota] /\ ctx \in [Launches -> ContextState]
  BY DEF IInv, AllGood, Shape, Admit
<1>2. q = [open |-> TRUE, limit |-> Frontier(Programs[l]), produced |-> {}]
  OBVIOUS
<1>3. /\ ctx' = [ctx EXCEPT ![l] = y] /\ entries' = entries /\ reset' = reset /\ reset = "IDLE"
      /\ quotas' = [quotas EXCEPT ![l] = q]
  BY DEF Admit, OpenQuota
<1>4. y.queued = {} /\ y.flying = {} /\ y.jobs = 0
  BY DEF Activated, Loaded, NewContext
<1>5. q \in Quota
  BY FrontierFacts DEF Quota
<1> HIDE DEF q
<1>6. Good(l, entries, q, y, "IDLE") /\ y.stage = "active"
  BY <1>1, <1>2, GoodAdmit
<1>7. y \in ContextState
  BY <1>6 DEF Good, Flow
<1> HIDE DEF y
<1>8. /\ ctx' \in [Launches -> ContextState] /\ ctx'[l] = y
      /\ \A k \in Launches \ {l} : ctx'[k] = ctx[k]
      /\ quotas' \in [Launches -> Quota] /\ quotas'[l] = q
      /\ \A k \in Launches \ {l} : quotas'[k] = quotas[k]
  BY <1>1, <1>3, <1>5, <1>7
<1>9. Good(l, entries', quotas'[l], ctx'[l], reset') /\ reset' \in ResetStates
  BY <1>3, <1>6, <1>8 DEF ResetStates
<1>10. Shape' /\ AllGood'
  BY <1>1, <1>3, <1>8, <1>9, OneMoves
<1> QED
  BY <1>4, <1>6, <1>8, <1>10

-----------------------------------------------------------------------------
(* The table in issue and registration.                                    *)

\* The window holds records of the queue.
LEMMA ScannedFacts ==
    ASSUME IInv
    PROVE  /\ \A k \in 1 .. Len(Scanned) : Scanned[k] \in Members(queue)
           /\ ScanCount \in Nat /\ (queue # <<>> => ScanCursorAfter \in Nat)
           /\ Len(Scanned) # 0 => queue # <<>>
<1> DEFINE S == Members(queue)
           N == Len(queue)
<1>1. queue \in Seq(AllRecords) /\ scanCursor \in Nat
  BY DEF IInv, Lists
<1>2. N \in Nat /\ DOMAIN queue = 1 .. N /\ \A i \in 1 .. N : queue[i] \in S
  BY <1>1, MembersFacts
<1>3. ScanCount \in Nat /\ ScanCount <= N
  BY <1>2, ConfigAssumption DEF ScanCount
<1>4. \A v \in Nat : N # 0 => v % N \in 0 .. N - 1
  BY <1>2
<1>5. ASSUME NEW k \in 1 .. ScanCount PROVE queue[((scanCursor + k - 1) % N) + 1] \in S
  <2>1. N # 0 /\ scanCursor + k - 1 \in Nat
    BY <1>1, <1>2, <1>3
  <2>2. (scanCursor + k - 1) % N \in 0 .. N - 1
    BY <1>4, <2>1
  <2>3. ((scanCursor + k - 1) % N) + 1 \in 1 .. N
    BY <1>2, <2>2
  <2> QED
    BY <1>2, <2>3
<1>6. Window \in [1 .. ScanCount -> S]
  BY <1>5 DEF Window
<1>7. Window \in Seq(S)
  BY <1>3, <1>6, SeqDef
<1>8. DOMAIN Window = 1 .. ScanCount /\ Len(Window) = ScanCount
  BY <1>3, <1>6, <1>7, LenProperties
<1>9. Scanned \in Seq(S) /\ Len(Scanned) \in Nat /\ Len(Scanned) <= ScanCount
  <2> DEFINE I == {k \in DOMAIN Window : IsHead(Window[k])}
  <2>1. I \subseteq DOMAIN Window
    OBVIOUS
  <2> HIDE DEF I, S
  <2>2. Kept(Window, I) \in Seq(S) /\ Len(Kept(Window, I)) \in Nat /\ Len(Kept(Window, I)) <= Len(Window)
    BY <1>7, <2>1, KeptFacts
  <2> QED
    BY <1>3, <1>7, <1>8, <2>2 DEF Scanned, I
<1> HIDE DEF S
<1>10. \A k \in 1 .. Len(Scanned) : Scanned[k] \in S
  BY <1>9, ElementOfSeq, LenProperties
<1>11. ASSUME queue # <<>> PROVE ScanCursorAfter \in Nat
  <2>1. N # 0
    BY <1>1, <1>11, EmptySeq
  <2>2. scanCursor % N \in 0 .. N - 1
    BY <1>1, <1>4, <2>1
  <2> QED
    BY <1>2, <1>3, <2>2 DEF ScanCursorAfter
<1>12. ASSUME Len(Scanned) # 0 PROVE queue # <<>>
  BY <1>3, <1>9, <1>12, EmptySeq
<1> QED
  BY <1>3, <1>10, <1>11, <1>12 DEF S

\* A record of the queue is looked at outside a reset only.
LEMMA IssueFacts ==
    ASSUME IInv, phase = "issue", NEW r \in Members(queue), Eligible(r)
    PROVE  /\ reset = "IDLE" /\ r[1] \in Launches /\ r[2] \in ctx[r[1]].queued /\ r[2] \notin ctx[r[1]].flying
           /\ act(r) = Act(r[1], r[2]) /\ r[2] \in 1 .. Size(r[1])
           /\ Good(r[1], entries, quotas[r[1]], ctx[r[1]], "IDLE") /\ ctx[r[1]] \in ContextState
           /\ \A n \in Act(r[1], r[2]).deps : entries[n].status = "DONE"
           /\ Consumes(r[1], entries, DropUsesE(entries, act(r).deps), ctx[r[1]].queued, r[2])
<1>1. r[1] \in Launches /\ act(r) = Act(r[1], r[2]) /\ r[2] \in ctx[r[1]].queued /\ r[2] \in 1 .. Size(r[1])
  BY QueuedFacts
<1>2. Good(r[1], entries, quotas[r[1]], ctx[r[1]], reset) /\ ctx[r[1]] \in ContextState
  BY <1>1 DEF IInv, AllGood, Shape
<1>3. reset = "IDLE"
  <2>1. reset \in {"IDLE", "DONE"}
    BY DEF IInv, Turn
  <2>2. reset \notin Late
    BY <1>1, <1>2 DEF Good, ResetTrue, Running
  <2> QED
    BY <2>1, <2>2 DEF Late
<1>4. \A n \in Act(r[1], r[2]).deps : entries[n].status = "DONE"
  BY <1>1 DEF Eligible, DependenciesDone
<1>5. \A j \in ctx[r[1]].queued : \A n \in Outputs(Act(r[1], j)) : entries[n].status = "PENDING"
  BY <1>2, <1>3 DEF Good, StatusTrue
<1>6. Consumes(r[1], entries, DropUsesE(entries, act(r).deps), ctx[r[1]].queued, r[2])
  BY <1>1, <1>4, <1>5 DEF Consumes, Terminal
<1>7. r[2] \notin ctx[r[1]].flying
  BY <1>1, <1>2 DEF Good, Flow
<1> QED
  BY <1>1, <1>2, <1>3, <1>4, <1>6, <1>7

\* The action of r leaves the queue for good or for its flight.
LEMMA IssueStep ==
    ASSUME IInv, phase = "issue", NEW r \in Members(queue), Eligible(r), quotas' = quotas, reset' = reset,
           NEW y, Leaves(r[1], ctx[r[1]], y, r[2]), ctx' = [ctx EXCEPT ![r[1]] = y],
           entries' \in [Names -> EventEntry], \A n \in Names \ Own(r[1]) : entries'[n] = entries[n],
           Good(r[1], entries', quotas[r[1]], y, "IDLE")
    PROVE  Shape' /\ AllGood'
<1> DEFINE l == r[1]
<1>1. reset = "IDLE" /\ l \in Launches
  BY IssueFacts
<1>2. Shape /\ AllGood /\ ctx \in [Launches -> ContextState] /\ quotas \in [Launches -> Quota]
  BY DEF IInv, Shape
<1>3. y \in ContextState
  BY DEF Leaves
<1> HIDE DEF l
<1>4. /\ ctx' \in [Launches -> ContextState] /\ ctx'[l] = y /\ \A k \in Launches \ {l} : ctx'[k] = ctx[k]
  BY <1>1, <1>2, <1>3 DEF l
<1>5. Good(l, entries', quotas'[l], ctx'[l], reset') /\ reset' \in ResetStates
  BY <1>1, <1>4 DEF l, ResetStates
<1>6. \A n \in Names \ Own(l) : entries'[n] = entries[n]
  BY DEF l
<1> QED
  BY <1>1, <1>2, <1>4, <1>5, <1>6, OneMoves

\* Into its flight: y is the sequencer after it.
LEMMA LaterTable ==
    ASSUME IInv, phase = "issue", NEW r \in Members(queue), Eligible(r), quotas' = quotas, reset' = reset,
           act(r).op \in Async \cup {"control"}, entries' = Consumed(entries, r),
           NEW y, Leaves(r[1], ctx[r[1]], y, r[2]), ctx' = [ctx EXCEPT ![r[1]] = y],
           y.flying = ctx[r[1]].flying \cup {r[2]}, y.fence = ctx[r[1]].fence
    PROVE  Shape' /\ AllGood'
<1> DEFINE l == r[1]
           i == r[2]
           x == ctx[l]
           h == DropUsesE(entries, act(r).deps)
<1>1. /\ l \in Launches /\ i \in x.queued /\ act(r) = Act(l, i) /\ i \in 1 .. Size(l)
      /\ Good(l, entries, quotas[l], x, "IDLE") /\ \A n \in Act(l, i).deps : entries[n].status = "DONE"
      /\ Consumes(l, entries, h, x.queued, i) /\ entries \in [Names -> EventEntry]
  BY IssueFacts DEF IInv, Shape
<1>2. entries' = h
  BY DEF Consumed
<1>3. Leaves(l, x, y, i) /\ y.flying = x.flying \cup {i} /\ y.fence = x.fence /\ Act(l, i).op \in Async \cup {"control"}
  BY <1>1
<1> HIDE DEF l, i, x, h
<1>4. h \in [Names -> EventEntry]
  BY <1>1, ConsumeType
<1>5. Booked(l, h, x.queued \ {i}) /\ \A n \in Names \ Own(l) : h[n] = entries[n]
  BY <1>1, <1>3, <1>4, ConsumeFacts
<1>6. Good(l, h, quotas[l], y, "IDLE")
  BY <1>1, <1>3, <1>4, GoodIssueLater
<1> QED
  BY <1>2, <1>4, <1>5, <1>6, IssueStep DEF l

\* The issue of a transfer, a collective or a dispatch keeps every launch good.
LEMMA AsyncTable ==
    ASSUME IInv, phase = "issue", NEW r \in Members(queue), Eligible(r), quotas' = quotas, reset' = reset,
           IssueAsync(r)
    PROVE  Shape' /\ AllGood'
<1> DEFINE x == ctx[r[1]]
           z == Issued(x, r[2])
           y == IF act(r).op = "dispatch" THEN [z EXCEPT !.owed = @ \cup Outputs(act(r))] ELSE JobStarted(z)
<1>1. /\ r[1] \in Launches /\ r[2] \in x.queued /\ x \in ContextState /\ act(r) = Act(r[1], r[2])
      /\ r[2] \in 1 .. Size(r[1])
  BY IssueFacts
<1>2. Outputs(act(r)) \subseteq Names /\ r[2] \in Nat
  BY <1>1, MadeFacts, ProgramFacts
<1>3. ctx' = [ctx EXCEPT ![r[1]] = y] /\ entries' = Consumed(entries, r) /\ act(r).op \in Async
  BY DEF IssueAsync
<1> HIDE DEF x
<1>4. /\ z \in ContextState /\ z.stage = x.stage /\ z.pc = x.pc /\ z.queued = x.queued \ {r[2]}
      /\ z.flying = x.flying \cup {r[2]} /\ z.fence = x.fence
      /\ z.broken = x.broken /\ z.faulted = x.faulted /\ z.closed = x.closed
  BY <1>1, <1>2 DEF ContextState, Issued
<1> HIDE DEF z
<1>5. /\ y \in ContextState /\ y.stage = z.stage /\ y.pc = z.pc /\ y.queued = z.queued /\ y.flying = z.flying
      /\ y.fence = z.fence /\ y.broken = z.broken /\ y.faulted = z.faulted /\ y.closed = z.closed
  <2>1. z.jobs + 1 \in Nat /\ z.owed \cup Outputs(act(r)) \in SUBSET Names
    BY <1>2, <1>4 DEF ContextState
  <2> HIDE DEF y
  <2>2. CASE act(r).op = "dispatch"
    <3>1. y = [z EXCEPT !.owed = @ \cup Outputs(act(r))]
      BY <2>2 DEF y
    <3> QED
      BY <1>4, <2>1, <3>1 DEF ContextState
  <2>3. CASE act(r).op # "dispatch"
    <3>1. y = [z EXCEPT !.jobs = @ + 1]
      BY <2>3 DEF y, JobStarted
    <3> QED
      BY <1>4, <2>1, <3>1 DEF ContextState
  <2> QED
    BY <2>2, <2>3
<1> HIDE DEF y
<1>6. Leaves(r[1], x, y, r[2]) /\ y.flying = x.flying \cup {r[2]} /\ y.fence = x.fence
  BY <1>4, <1>5 DEF Leaves
<1> QED
  BY <1>3, <1>6, LaterTable DEF x

\* So does the issue of a configuration command.
LEMMA ControlIssueTable ==
    ASSUME IInv, phase = "issue", NEW r \in Members(queue), Eligible(r), quotas' = quotas, reset' = reset,
           IssueControl(r)
    PROVE  Shape' /\ AllGood'
<1> DEFINE x == ctx[r[1]]
           y == Issued(x, r[2])
<1>1. /\ r[1] \in Launches /\ r[2] \in x.queued /\ x \in ContextState /\ r[2] \in 1 .. Size(r[1])
  BY IssueFacts
<1>2. r[2] \in Nat
  BY <1>1, ProgramFacts
<1>3. ctx' = [ctx EXCEPT ![r[1]] = y] /\ entries' = Consumed(entries, r) /\ act(r).op = "control"
  BY DEF IssueControl
<1> HIDE DEF x
<1>4. /\ y \in ContextState /\ y.stage = x.stage /\ y.pc = x.pc /\ y.queued = x.queued \ {r[2]}
      /\ y.flying = x.flying \cup {r[2]} /\ y.fence = x.fence
      /\ y.broken = x.broken /\ y.faulted = x.faulted /\ y.closed = x.closed
  BY <1>1, <1>2 DEF ContextState, Issued
<1> HIDE DEF y
<1>5. Leaves(r[1], x, y, r[2]) /\ y.flying = x.flying \cup {r[2]} /\ y.fence = x.fence
  BY <1>4 DEF Leaves
<1> QED
  BY <1>3, <1>5, LaterTable DEF x

\* At once: the signal comes before the consumption, but the two touch different
\* events.
LEMMA SyncTable ==
    ASSUME IInv, phase = "issue", NEW r \in Members(queue), Eligible(r), quotas' = quotas, reset' = reset,
           IssueSync(r)
    PROVE  Shape' /\ AllGood'
<1> DEFINE l == r[1]
           i == r[2]
           x == ctx[l]
           a == act(r)
           z == Landed([x EXCEPT !.queued = @ \ {i}], i)
           y == [z EXCEPT !.arena = IF a.op = "signal" THEN FALSE ELSE @]
           e == [n \in Names |-> IF n \in a.dst THEN SignalEntry(entries[n], "DONE", entries[n].producer) ELSE entries[n]]
           h == DropUsesE(entries, a.deps)
           f == [n \in Names |-> IF n \in a.dst THEN SignalEntry(h[n], "DONE", h[n].producer) ELSE h[n]]
<1>1. /\ l \in Launches /\ i \in x.queued /\ i \notin x.flying /\ a = Act(l, i) /\ i \in 1 .. Size(l)
      /\ Good(l, entries, quotas[l], x, "IDLE") /\ \A n \in Act(l, i).deps : entries[n].status = "DONE"
      /\ Consumes(l, entries, h, x.queued, i) /\ entries \in [Names -> EventEntry] /\ x \in ContextState
  BY IssueFacts DEF IInv, Shape
<1>2. ctx' = [ctx EXCEPT ![l] = y] /\ entries' = DropUsesE(e, a.deps) /\ a.op \in Sync
  BY DEF IssueSync, Consumed
<1>3. \A n \in a.dst : n \in Own(l) /\ n \in Names /\ Made(l, n) = i /\ n \in Outputs(a)
  BY <1>1, MadeFacts, ProgramFacts DEF Outputs
<1>4. a.op = "barrier" => \A j \in Running(x) : j >= i
  BY DEF Eligible, BarrierReady, Running
<1> HIDE DEF l, i, a, x
<1>5. /\ y \in ContextState /\ y.stage = x.stage /\ y.pc = x.pc /\ y.queued = x.queued \ {i}
      /\ y.flying = x.flying \ {i} /\ y.fence = (IF x.fence = i THEN 0 ELSE x.fence)
      /\ y.broken = x.broken /\ y.faulted = x.faulted /\ y.closed = x.closed
  <2> DEFINE w == [x EXCEPT !.queued = @ \ {i}]
  <2>1. /\ w \in ContextState /\ w.stage = x.stage /\ w.pc = x.pc /\ w.queued = x.queued \ {i}
        /\ w.flying = x.flying /\ w.fence = x.fence
        /\ w.broken = x.broken /\ w.faulted = x.faulted /\ w.closed = x.closed
    BY <1>1 DEF ContextState
  <2>2. z = Landed(w, i)
    OBVIOUS
  <2> HIDE DEF w, z
  <2>3. Lands(w, z, {i})
    BY <2>1, <2>2, LandsFacts
  <2>4. /\ y \in ContextState /\ y.stage = z.stage /\ y.pc = z.pc /\ y.queued = z.queued /\ y.flying = z.flying
        /\ y.fence = z.fence /\ y.broken = z.broken /\ y.faulted = z.faulted /\ y.closed = z.closed
    BY <2>3 DEF Lands, ContextState
  <2> HIDE DEF y
  <2> QED
    BY <2>1, <2>3, <2>4 DEF Lands
<1> HIDE DEF y
<1>6. Leaves(l, x, y, i) /\ y.flying = x.flying /\ y.fence = (IF x.fence = i THEN 0 ELSE x.fence)
  BY <1>1, <1>5 DEF Leaves
<1>7. h \in [Names -> EventEntry]
  <2> HIDE DEF h
  <2> QED
    BY <1>1, ConsumeType
<1>8. /\ Booked(l, h, x.queued \ {i}) /\ \A n \in Names \ Own(l) : h[n] = entries[n]
      /\ \A n \in Outputs(Act(l, i)) : h[n] = entries[n] /\ n \notin Act(l, i).deps
  <2> HIDE DEF h
  <2> QED
    BY <1>1, <1>6, <1>7, ConsumeFacts
<1>9. \A n \in a.dst : n \notin a.deps /\ h[n] = entries[n] /\ h[n].status = "PENDING"
  <2>1. \A n \in Outputs(Act(l, i)) : entries[n].status = "PENDING"
    BY <1>1 DEF Good, StatusTrue
  <2> HIDE DEF h
  <2> QED
    BY <1>1, <1>3, <1>8, <2>1
<1>10. entries' = f
  BY <1>2, <1>9 DEF DropUsesE
<1>11. Signals(l, h, f, Act(l, i).dst, "DONE", x.queued \ {i})
  <2> HIDE DEF h
  <2> QED
    BY <1>1, <1>3, <1>9 DEF Signals, Terminal
<1> HIDE DEF h, f
<1>12. x.queued \ {i} \subseteq 1 .. Size(l) /\ Own(l) \subseteq Names
  BY <1>1, ProgramFacts DEF Good, Flow, Running
<1>13. f \in [Names -> EventEntry]
  BY <1>1, <1>7, <1>8, <1>11, <1>12, SignalBooked
<1>14. \A n \in Names \ Own(l) : f[n] = entries[n]
  <2>1. \A n \in Names \ Act(l, i).dst : f[n] = h[n]
    BY <1>11 DEF Signals
  <2> QED
    BY <1>1, <1>3, <1>8, <2>1
<1>15. Act(l, i).op \in Sync /\ (Act(l, i).op = "barrier" => \A j \in Running(x) : j >= i)
  BY <1>1, <1>2, <1>4
<1>16. Good(l, f, quotas[l], y, "IDLE")
  BY <1>1, <1>6, <1>7, <1>11, <1>13, <1>15, GoodIssueNow
<1> QED
  BY <1>2, <1>6, <1>10, <1>13, <1>14, <1>16, IssueStep DEF l, x, i

\* An issue that faults keeps every launch good.
LEMMA IssueFaultTable ==
    ASSUME IInv, NEW k \in 1 .. Len(Scanned), IssueFaults(k)
    PROVE  Shape' /\ AllGood'
<1> DEFINE l == Scanned[k][1]
           x == ctx[l]
           L == {}
<1>1. l \in Launches
  BY ScannedFacts, QueuedFacts
<1>2. Lands(ctx[l], ctx[l], {}) /\ ctx \in [Launches -> ContextState]
  BY <1>1, LandsFacts DEF IInv, Shape
<1>3. /\ L \subseteq ctx[l].flying /\ \A i \in L : Act(l, i).op = "control"
      /\ Lands(ctx[l], x, L) /\ entries' = CancelContextE(entries, l)
      /\ ctx' = [ctx EXCEPT ![l] = CancelActions(MarkFault(x))] /\ quotas' = quotas /\ reset' = Trigger(reset)
  BY <1>1, <1>2 DEF IssueFaults
<1> HIDE DEF l, x, L
<1> QED
  BY <1>1, <1>3, FaultTable

\* The candidates of a registration are the active Contexts that may register.
LEMMA RegistrableFacts ==
    ASSUME IInv
    PROVE  /\ Registrable \in Seq(Launches) /\ Len(Registrable) \in Nat
           /\ \A l : l \in Members(Registrable) <=> l \in Members(active) /\ CanRegister(l)
           /\ Registrable # <<>> => Len(Registrable) # 0
           /\ \A k \in 0 .. Len(Registrable) - 1 : Candidate(k) \in Members(Registrable)
<1> DEFINE N == Len(Registrable)
           I == {i \in DOMAIN active : CanRegister(active[i])}
<1>1. active \in Seq(Launches) /\ registerCursor \in Nat
  BY DEF IInv, Lists
<1>2. DOMAIN active = 1 .. Len(active) /\ I \subseteq DOMAIN active
  BY <1>1, LenProperties
<1>3. \A l : (\E i \in I : active[i] = l) <=> l \in Members(active) /\ CanRegister(l)
  BY <1>2 DEF Members
<1>4. Registrable = Kept(active, I)
  BY DEF Registrable
<1> HIDE DEF I
<1>5. /\ Registrable \in Seq(Launches) /\ N \in Nat
      /\ \A l : l \in Members(Registrable) <=> \E i \in I : active[i] = l
  BY <1>1, <1>2, <1>4, KeptFacts
<1>6. DOMAIN Registrable = 1 .. N /\ \A i \in 1 .. N : Registrable[i] \in Members(Registrable)
  BY <1>5, MembersFacts
<1>7. Registrable # <<>> => N # 0
  BY <1>5, EmptySeq
<1>8. ASSUME NEW k \in 0 .. N - 1 PROVE Candidate(k) \in Members(Registrable)
  <2>1. N # 0 /\ registerCursor + k \in Nat
    BY <1>1, <1>5
  <2>2. (registerCursor + k) % N \in 0 .. N - 1
    BY <1>5, <2>1
  <2>3. ((registerCursor + k) % N) + 1 \in 1 .. N
    BY <1>5, <2>2
  <2> QED
    BY <1>6, <2>3 DEF Candidate
<1> QED
  BY <1>3, <1>5, <1>7, <1>8

\* The sequencer after note_registered.
LEMMA RegisteredFacts ==
    ASSUME IInv, NEW l \in Launches, CanRegister(l)
    PROVE  /\ MayRegister(l, ctx[l]) /\ ctx[l].pc \in 1 .. Size(l) /\ ctx[l].pc \notin ctx[l].queued
           /\ PreflightAction(entries, quotas, l, Outputs(Act(l, ctx[l].pc)), Act(l, ctx[l].pc).deps)
           /\ \A n \in Outputs(Act(l, ctx[l].pc)) : entries[n].status = "ABSENT"
           /\ \A n \in Act(l, ctx[l].pc).deps : entries[n].status # "ABSENT" /\ entries[n].refs < entries[n].uses
           /\ Registered(l) \in ContextState /\ Registered(l).stage = ctx[l].stage
           /\ Registered(l).pc = ctx[l].pc + 1 /\ Registered(l).queued = ctx[l].queued \cup {ctx[l].pc}
           /\ Registered(l).flying = ctx[l].flying /\ Registered(l).jobs = ctx[l].jobs
           /\ Registered(l).fence = (IF Act(l, ctx[l].pc).op \in Fences THEN ctx[l].pc ELSE ctx[l].fence)
           /\ Registered(l).broken = ctx[l].broken /\ Registered(l).faulted = ctx[l].faulted
           /\ Registered(l).closed = (ctx[l].pc + 1 > Size(l))
<1> DEFINE x == ctx[l]
           b == x.pc + 1 > Size(l)
           y == [x EXCEPT !.queued = @ \cup {x.pc}, !.fence = IF Act(l, x.pc).op \in Fences THEN x.pc ELSE @,
                          !.pc = x.pc + 1, !.closed = b]
<1>1. /\ Good(l, entries, quotas[l], x, reset) /\ x \in ContextState /\ entries \in [Names -> EventEntry]
      /\ quotas \in [Launches -> Quota] /\ OwnOnly(l, entries)
  BY OwnFacts DEF IInv, AllGood, Shape
<1>2. MayRegister(l, x)
  BY DEF MayRegister, CanRegister
<1>3. Registered(l) = y
  BY DEF Registered, Size, Act
<1> HIDE DEF x
<1>4. x.pc \in 1 .. Size(l)
  BY <1>1, <1>2, PreflightPasses
<1>5. /\ PreflightAction(entries, quotas, l, Outputs(Act(l, x.pc)), Act(l, x.pc).deps)
      /\ \A n \in Outputs(Act(l, x.pc)) : entries[n].status = "ABSENT"
      /\ \A n \in Act(l, x.pc).deps : entries[n].status # "ABSENT" /\ entries[n].refs < entries[n].uses
  BY <1>1, <1>2, PreflightPasses
<1>6. x.pc \notin x.queued /\ x.pc \in Nat /\ x.pc + 1 \in Nat
  BY <1>1, <1>4, ProgramFacts DEF Good, Flow, Running
<1>7. b \in BOOLEAN
  OBVIOUS
<1> HIDE DEF b
<1>8. /\ y \in ContextState /\ y.stage = x.stage /\ y.pc = x.pc + 1 /\ y.queued = x.queued \cup {x.pc}
      /\ y.flying = x.flying /\ y.jobs = x.jobs /\ y.fence = (IF Act(l, x.pc).op \in Fences THEN x.pc ELSE x.fence)
      /\ y.broken = x.broken /\ y.faulted = x.faulted /\ y.closed = b
  BY <1>1, <1>6, <1>7 DEF ContextState
<1> HIDE DEF y
<1> QED
  BY <1>2, <1>3, <1>4, <1>5, <1>6, <1>8 DEF x, b

\* A registration keeps every launch good.
LEMMA RegisterTable ==
    ASSUME IInv, NEW k \in 0 .. Len(Registrable) - 1, RegisterOne(k)
    PROVE  Shape' /\ AllGood'
<1> DEFINE l == Candidate(k)
           x == ctx[l]
           i == x.pc
           y == Registered(l)
           q == quotas[l]
           r == [q EXCEPT !.produced = @ \cup Outputs(Act(l, i))]
           f == AddConsumersE(BindE(ReserveOutputsE(entries, l, Outputs(Act(l, i))), Outputs(Act(l, i)), i), Act(l, i).deps)
<1>1. l \in Launches /\ CanRegister(l)
  <2>1. l \in Members(Registrable) /\ Registrable \in Seq(Launches) /\ CanRegister(l)
    BY RegistrableFacts
  <2> HIDE DEF l
  <2> QED
    BY <2>1, MembersFacts
<1>2. /\ entries' = f /\ quotas' = [quotas EXCEPT ![l] = r] /\ ctx' = [ctx EXCEPT ![l] = y] /\ reset' = reset
      /\ phase = "register"
  BY DEF RegisterOne, Act, ReserveOutputsQ
<1>3. reset # "RESET_DOMAIN"
  BY <1>2 DEF IInv, Turn
<1>4. /\ Shape /\ AllGood /\ Good(l, entries, q, x, reset) /\ x \in ContextState /\ entries \in [Names -> EventEntry]
      /\ quotas \in [Launches -> Quota] /\ ctx \in [Launches -> ContextState] /\ q \in Quota /\ reset \in ResetStates
  BY <1>1 DEF IInv, AllGood, Shape
<1> HIDE DEF l
<1>5. /\ MayRegister(l, x) /\ i \in 1 .. Size(l) /\ i \notin x.queued
      /\ \A n \in Outputs(Act(l, i)) : entries[n].status = "ABSENT"
      /\ \A n \in Act(l, i).deps : entries[n].status # "ABSENT" /\ entries[n].refs < entries[n].uses
  BY <1>1, RegisteredFacts
<1>6. Reserves(l, entries, f, x.queued, i)
  BY <1>5 DEF Reserves
<1>7. Registers(l, q, r, x, y) /\ y \in ContextState
  BY <1>1, RegisteredFacts DEF Registers
<1>8. r \in Quota
  <2>1. Outputs(Act(l, i)) \subseteq Names
    BY <1>1, <1>5, MadeFacts, ProgramFacts
  <2> HIDE DEF q
  <2> QED
    BY <1>4, <2>1 DEF Quota
<1> HIDE DEF x, i, y, q, r, f
<1>9. x.queued \subseteq 1 .. Size(l) /\ Booked(l, entries, x.queued)
  BY <1>1, <1>4, ProgramFacts DEF Good, Flow, Running
<1>10. f \in [Names -> EventEntry]
  BY <1>1, <1>4, <1>6, <1>9, RegisterBooked
<1>11. i = x.pc
  BY DEF i
<1>12. Good(l, f, r, y, reset) /\ \A n \in Names \ Own(l) : f[n] = entries[n]
  BY <1>1, <1>3, <1>4, <1>5, <1>6, <1>7, <1>10, <1>11, GoodRegister
<1>13. /\ ctx' \in [Launches -> ContextState] /\ ctx'[l] = y /\ \A j \in Launches \ {l} : ctx'[j] = ctx[j]
       /\ quotas' \in [Launches -> Quota] /\ quotas'[l] = r /\ \A j \in Launches \ {l} : quotas'[j] = quotas[j]
  BY <1>1, <1>2, <1>4, <1>7, <1>8
<1>14. Good(l, entries', quotas'[l], ctx'[l], reset') /\ entries' \in [Names -> EventEntry]
       /\ \A n \in Names \ Own(l) : entries'[n] = entries[n]
  BY <1>2, <1>10, <1>12, <1>13
<1> QED
  BY <1>1, <1>2, <1>4, <1>13, <1>14, OneMoves

\* Contexts are declared done.
LEMMA FinishTable ==
    ASSUME IInv, Finish
    PROVE  /\ Shape' /\ AllGood'
           /\ \A l \in Launches : /\ InUse(ctx'[l]) <=> InUse(ctx[l])
                                  /\ ctx'[l].queued = ctx[l].queued /\ ctx'[l].flying = ctx[l].flying
                                  /\ ctx'[l].jobs = ctx[l].jobs
<1>1. /\ Shape /\ AllGood /\ entries' = entries /\ quotas' = quotas /\ reset' = reset
      /\ ctx \in [Launches -> ContextState]
  BY DEF IInv, Shape, Finish, tableVars
<1>2. ASSUME NEW l \in Launches
      PROVE  /\ Good(l, entries, quotas[l], ctx'[l], reset) /\ ctx'[l] \in ContextState
             /\ InUse(ctx'[l]) <=> InUse(ctx[l])
             /\ ctx'[l].queued = ctx[l].queued /\ ctx'[l].flying = ctx[l].flying /\ ctx'[l].jobs = ctx[l].jobs
  <2> DEFINE x == ctx[l]
             y == [x EXCEPT !.stage = "done"]
  <2>1. Good(l, entries, quotas[l], x, reset) /\ x \in ContextState
    BY <1>1 DEF AllGood
  <2>2. CASE Finishes(l)
    <3>1. ctx'[l] = y /\ x.stage = "active" /\ x.closed /\ Running(x) = {}
      BY <2>2 DEF Finish, Finishes, Running
    <3> HIDE DEF x
    <3>2. SameRun(x, y) /\ y \in ContextState /\ y.stage = "done" /\ y.queued = x.queued /\ y.flying = x.flying /\ y.jobs = x.jobs
      BY <2>1 DEF SameRun, ContextState
    <3> HIDE DEF y
    <3>3. Good(l, entries, quotas[l], y, reset)
      BY <2>1, <3>1, <3>2, GoodFinish
    <3> QED
      BY <3>1, <3>2, <3>3 DEF InUse, x
  <2>3. CASE ~Finishes(l)
    <3>1. ctx'[l] = x
      BY <2>3 DEF Finish
    <3> QED
      BY <2>1, <3>1
  <2> QED
    BY <2>2, <2>3
<1>3. ctx' \in [Launches -> ContextState]
  <2>1. ctx' = [l \in Launches |-> IF Finishes(l) THEN [ctx[l] EXCEPT !.stage = "done"] ELSE ctx[l]]
    BY DEF Finish
  <2> HIDE DEF Finish
  <2>2. ctx' = [l \in Launches |-> ctx'[l]]
    BY <2>1
  <2> QED
    BY <1>2, <2>2
<1>4. AllGood'
  BY <1>1, <1>2 DEF AllGood
<1>5. Shape'
  BY <1>1, <1>3 DEF Shape
<1> QED
  BY <1>2, <1>4, <1>5

-----------------------------------------------------------------------------
(* The table at the end of the tick.                                       *)

\* Done Contexts are retired; e and c are the table and the sequencers by then.
LEMMA RetireTable ==
    ASSUME NEW e \in [Names -> EventEntry], NEW c \in [Launches -> ContextState], NEW s \in ResetStates,
           Lists, Shape, \A l \in Launches : Good(l, e, quotas[l], c[l], s),
           \A n \in Names : (\A l \in Launches : n \notin Own(l)) => e[n] = NoEntry,
           \A l \in Launches : InUse(c[l]) <=> InUse(ctx[l]),
           Retire(e, c), reset' = s
    PROVE  /\ Shape' /\ AllGood'
           /\ active' \in Seq(Launches) /\ Distinct(active')
           /\ \A l \in Launches :
                 /\ l \in Members(active') <=> InUse(ctx'[l])
                 /\ ctx'[l].stage # "done" /\ ctx'[l].queued = c[l].queued /\ ctx'[l].flying = c[l].flying
                 /\ ctx'[l].jobs = c[l].jobs
<1> DEFINE done == {l \in Members(active) : c[l].stage = "done"}
           I == {i \in DOMAIN active : active[i] \notin done}
<1>1. /\ entries' = DropEntries(e, UNION {OwnedBy(e, l) : l \in done})
      /\ quotas' = [l \in Launches |-> IF l \in done THEN NoQuota ELSE quotas[l]]
      /\ ctx' = [l \in Launches |-> IF l \in done THEN [c[l] EXCEPT !.stage = "retired"] ELSE c[l]]
      /\ active' = Kept(active, I)
  BY DEF Retire, RetireE, RetireQ
<1>2. /\ active \in Seq(Launches) /\ Distinct(active) /\ \A l \in Launches : l \in Members(active) <=> InUse(c[l])
      /\ Members(active) \subseteq Launches /\ DOMAIN active = 1 .. Len(active) /\ quotas \in [Launches -> Quota]
  BY MembersFacts DEF Lists, Shape
<1>3. \A l \in Launches : l \in done <=> c[l].stage = "done"
  BY <1>2 DEF InUse
<1>4. /\ active' \in Seq(Launches) /\ Distinct(active')
      /\ \A l : l \in Members(active') <=> \E i \in I : active[i] = l
  <2>1. I \subseteq DOMAIN active
    OBVIOUS
  <2> HIDE DEF I
  <2> QED
    BY <1>1, <1>2, <2>1, KeptFacts
<1>5. \A l : l \in Members(active') <=> l \in Members(active) /\ l \notin done
  <2>1. \A l : l \in Members(active) <=> \E i \in DOMAIN active : active[i] = l
    BY <1>2 DEF Members
  <2> HIDE DEF done
  <2> QED
    BY <1>4, <2>1
<1>6. \A l \in Launches : done \subseteq Launches
  BY <1>2
<1> HIDE DEF done
<1>7. ASSUME NEW l \in Launches
      PROVE  /\ ctx'[l] \in ContextState /\ ctx'[l].stage # "done" /\ ctx'[l].queued = c[l].queued
             /\ ctx'[l].flying = c[l].flying /\ ctx'[l].jobs = c[l].jobs /\ SameRun(c[l], ctx'[l])
             /\ l \in done => ctx'[l].stage = "retired"
             /\ l \notin done => ctx'[l] = c[l]
  <2>1. CASE l \in done
    <3> DEFINE x == c[l]
               y == [x EXCEPT !.stage = "retired"]
    <3>1. ctx'[l] = y /\ x \in ContextState
      BY <1>1, <2>1
    <3> HIDE DEF x
    <3>2. y \in ContextState /\ y.stage = "retired" /\ y.queued = x.queued /\ y.flying = x.flying /\ y.jobs = x.jobs
          /\ SameRun(x, y)
      BY <3>1 DEF ContextState, SameRun
    <3> QED
      BY <2>1, <3>1, <3>2 DEF x
  <2>2. CASE l \notin done
    <3>1. ctx'[l] = c[l] /\ c[l].stage # "done" /\ c[l] \in ContextState
      BY <1>1, <1>3, <2>2
    <3> QED
      BY <2>2, <3>1 DEF SameRun
  <2> QED
    BY <2>1, <2>2
<1>8. ASSUME NEW n \in Names
      PROVE  /\ entries'[n] = e[n] \/ entries'[n] = NoEntry
             /\ e[n].status # "ABSENT" /\ e[n].launch \in done => entries'[n] = NoEntry
             /\ e[n].launch \notin done => entries'[n] = e[n]
  BY <1>1 DEF DropEntries, OwnedBy, Live
<1>9. entries' \in [Names -> EventEntry]
  <2>1. entries' = [n \in Names |-> entries'[n]]
    BY <1>1 DEF DropEntries
  <2>2. \A n \in Names : entries'[n] \in EventEntry
    BY <1>8, NoEntryFacts
  <2> QED
    BY <2>1, <2>2
<1>10. ASSUME NEW l \in Launches, NEW n \in Own(l)
       PROVE  n \in Names /\ (e[n].status = "ABSENT" => e[n] = NoEntry) /\ (e[n].status # "ABSENT" => e[n].launch = l)
  BY <1>10, ProgramFacts DEF Good, Booked
<1>11. ASSUME NEW l \in Launches PROVE Good(l, entries', quotas'[l], ctx'[l], s)
  <2>1. Good(l, e, quotas[l], c[l], s)
    OBVIOUS
  <2>2. CASE l \in done
    <3>1. \A n \in Own(l) : entries'[n] = NoEntry
      BY <1>8, <1>10, <2>2
    <3>2. c[l].stage = "done" /\ ctx'[l].stage = "retired" /\ SameRun(c[l], ctx'[l])
      BY <1>3, <1>7, <2>2
    <3>3. quotas'[l] = NoQuota
      BY <1>1, <2>2
    <3>4. Good(l, entries', NoQuota, ctx'[l], s)
      <4> DEFINE f == entries'
                 y == ctx'[l]
                 x == c[l]
      <4>1. (\A n \in Own(l) : f[n] = NoEntry) /\ x.stage = "done" /\ y.stage = "retired" /\ SameRun(x, y) /\ Good(l, e, quotas[l], x, s)
        BY <2>1, <3>1, <3>2
      <4> HIDE DEF f, y, x
      <4>2. Good(l, f, NoQuota, y, s)
        BY <4>1, GoodRetire
      <4> QED
        BY <4>2 DEF f, y
    <3> QED
      BY <3>3, <3>4
  <2>3. CASE l \notin done
    <3>1. \A n \in Own(l) : entries'[n] = e[n]
      BY <1>8, <1>10, <2>3
    <3>2. ctx'[l] = c[l] /\ SameRun(c[l], ctx'[l]) /\ quotas'[l] = quotas[l]
      BY <1>1, <1>7, <2>3
    <3>3. Good(l, entries', quotas[l], ctx'[l], s)
      BY <2>1, <3>1, <3>2, GoodSame
    <3> QED
      BY <3>2, <3>3
  <2> QED
    BY <2>2, <2>3
<1>12. AllGood'
  BY <1>11 DEF AllGood
<1>13. Shape'
  <2>1. quotas' \in [Launches -> Quota]
    BY <1>1, <1>2 DEF Quota, NoQuota
  <2>2. ctx' \in [Launches -> ContextState]
    <3>1. ctx' = [l \in Launches |-> ctx'[l]]
      BY <1>1
    <3> QED
      BY <1>7, <3>1
  <2>3. \A n \in Names : (\A l \in Launches : n \notin Own(l)) => entries'[n] = NoEntry
    BY <1>8
  <2> QED
    BY <1>9, <2>1, <2>2, <2>3 DEF Shape
<1>14. ASSUME NEW l \in Launches PROVE l \in Members(active') <=> InUse(ctx'[l])
  BY <1>2, <1>3, <1>5, <1>7 DEF InUse
<1> QED
  BY <1>4, <1>7, <1>12, <1>13, <1>14

\* How the reset FSM moves.
LEMMA ResetStepFacts ==
    ASSUME reset \in ResetStates
    PROVE  /\ ResetActive => ResetStep \in ResetStates
           /\ reset = "FAULT_DETECTED" => ResetStep = "STOP_QUEUE"
           /\ reset = "STOP_QUEUE" => ResetStep = "FREEZE_DISPATCH"
           /\ reset = "FREEZE_DISPATCH" => ResetStep = "DRAIN_SAFE"
           /\ reset = "DRAIN_SAFE" => ResetStep = "DRAIN_SAFE" \/ (ResetStep = "MARK_EVENTS" /\ Drained)
           /\ reset = "MARK_EVENTS" => ResetStep = "RESET_DOMAIN"
           /\ reset = "RESET_DOMAIN" => ResetStep = "CLEAR_CREDIT_CACHE"
           /\ reset = "CLEAR_CREDIT_CACHE" => ResetStep = "RESUME"
           /\ reset = "RESUME" => ResetStep = "DONE"
BY DEF ResetStates, ResetStep, ResetActive

\* What the end of the tick leaves of the lists of Contexts.
Closes(c) ==
    /\ active' \in Seq(Launches) /\ Distinct(active')
    /\ \A l \in Launches :
          /\ l \in Members(active') <=> InUse(ctx'[l])
          /\ ctx'[l].stage # "done" /\ ctx'[l].queued = c[l].queued /\ ctx'[l].flying = c[l].flying
          /\ ctx'[l].jobs = c[l].jobs

\* The end of a tick keeps every launch good and retires the done Contexts.
LEMMA CloseTable ==
    ASSUME IInv, Close
    PROVE  Shape' /\ AllGood' /\ Closes(ctx)
<1> DEFINE s == reset'
<1>1. Lists /\ Shape /\ AllGood /\ reset \in ResetStates
  BY DEF IInv, Shape
<1>2. reset \notin {"MARK_EVENTS", "RESET_DOMAIN"} /\ reset' = IF ResetActive THEN ResetStep ELSE reset
  BY DEF Close
<1>3. s \in ResetStates
  BY <1>1, <1>2, ResetStepFacts
<1>4. ASSUME NEW l \in Launches PROVE Good(l, entries, quotas[l], ctx[l], s)
  <2>1. Good(l, entries, quotas[l], ctx[l], reset)
    BY <1>1 DEF AllGood
  <2>2. Drained => \A i \in ctx[l].flying : Act(l, i).op = "dispatch"
    <3> SUFFICES ASSUME Drained, NEW i \in ctx[l].flying PROVE Act(l, i).op = "dispatch"
      OBVIOUS
    <3>1. i \in 1 .. Size(l) /\ <<l, i>> \in inflight
      BY DEF IInv, OwnersAgree, Drained, Size
    <3>2. act(<<l, i>>) = Act(l, i)
      BY <3>1, RecordExists
    <3>3. act(<<l, i>>).op \in Async /\ act(<<l, i>>).op \notin Transfers
      BY <1>1, <3>1 DEF Lists, Drained
    <3> QED
      BY <3>2, <3>3 DEF Async, Adapters, Transfers
  <2>3. Turns(l, ctx[l], reset, s)
    BY <1>1, <1>2, <2>2, ResetStepFacts DEF Turns, ResetStates, ResetActive, Late
  <2> HIDE DEF s
  <2> QED
    BY <2>1, <2>3, GoodTurn
<1> DEFINE e == entries
           c == ctx
<1>5. /\ e \in [Names -> EventEntry] /\ c \in [Launches -> ContextState]
      /\ \A l \in Launches : Good(l, e, quotas[l], c[l], s)
      /\ \A n \in Names : (\A l \in Launches : n \notin Own(l)) => e[n] = NoEntry
      /\ \A l \in Launches : InUse(c[l]) <=> InUse(ctx[l])
      /\ Retire(e, c) /\ reset' = s
  BY <1>1, <1>4 DEF Shape, Close
<1> HIDE DEF e, c, s
<1>6. /\ Shape' /\ AllGood' /\ Closes(c)
  BY <1>1, <1>3, <1>5, RetireTable DEF Closes
<1> QED
  BY <1>6 DEF c

\* So does the tick of MARK_EVENTS.
LEMMA MarkTable ==
    ASSUME IInv, CloseMarkEvents
    PROVE  Shape' /\ AllGood' /\ Closes(ctx)
<1> DEFINE s == "RESET_DOMAIN"
           e == ResetE(entries)
           c == ctx
<1>1. Lists /\ Shape /\ AllGood /\ reset \in ResetStates /\ reset = "MARK_EVENTS" /\ entries \in [Names -> EventEntry]
  BY DEF IInv, Shape, CloseMarkEvents
<1>2. reset' = s
  BY <1>1, ResetStepFacts DEF CloseMarkEvents
<1>3. s \in ResetStates
  BY DEF ResetStates
<1>4. e \in [Names -> EventEntry] /\ \A n \in Names : entries[n] = NoEntry => e[n] = NoEntry
  BY <1>1, MarkFacts, NoEntryFacts
<1>5. ASSUME NEW l \in Launches PROVE Good(l, e, quotas[l], ctx[l], s)
  BY <1>1, GoodMark DEF AllGood
<1>6. /\ e \in [Names -> EventEntry] /\ c \in [Launches -> ContextState]
      /\ \A l \in Launches : Good(l, e, quotas[l], c[l], s)
      /\ \A n \in Names : (\A l \in Launches : n \notin Own(l)) => e[n] = NoEntry
      /\ \A l \in Launches : InUse(c[l]) <=> InUse(ctx[l])
      /\ Retire(e, c) /\ reset' = s
  BY <1>1, <1>2, <1>4, <1>5 DEF Shape, CloseMarkEvents
<1> HIDE DEF e, c, s
<1>7. /\ Shape' /\ AllGood' /\ Closes(c)
  BY <1>1, <1>3, <1>6, RetireTable DEF Closes
<1> QED
  BY <1>7 DEF c

\* The sequencers that abort_actions leaves behind.
Aborted == [l \in Launches |->
               IF l \in Members(active) THEN [AbortActions(MarkFault(ctx[l])) EXCEPT !.arena = FALSE] ELSE ctx[l]]

\* So does the tick of RESET_DOMAIN, after which nothing is queued or in flight.
LEMMA ResetDomainTable ==
    ASSUME IInv, CloseResetDomain
    PROVE  /\ Shape' /\ AllGood' /\ Closes(Aborted)
           /\ \A l \in Launches : Aborted[l].queued = {} /\ Aborted[l].flying = {} /\ control = {}
           /\ \A l \in Launches : Aborted[l].jobs = 0
<1> DEFINE s == "CLEAR_CREDIT_CACHE"
           e == [n \in Names |->
                   IF n \in Live(entries) /\ entries[n].launch \in Members(active)
                   THEN CancelContextE(entries, entries[n].launch)[n] ELSE entries[n]]
           c == Aborted
<1>1. /\ Lists /\ Shape /\ AllGood /\ OwnersAgree /\ reset \in ResetStates /\ reset = "RESET_DOMAIN"
      /\ entries \in [Names -> EventEntry] /\ ctx \in [Launches -> ContextState] /\ IsFiniteSet(inflight)
      /\ \A l \in Launches : l \in Members(active) <=> InUse(ctx[l])
  BY DEF IInv, Shape, Lists, CloseResetDomain
<1>2. reset' = s
  BY <1>1, ResetStepFacts DEF CloseResetDomain
<1>3. s \in ResetStates
  BY DEF ResetStates
<1>4. Retire(e, c)
  BY DEF CloseResetDomain, Aborted
<1>5. ASSUME NEW l \in Launches, NEW n \in Own(l) PROVE e[n] = NoEntry /\ n \in Names
  <2>1. /\ Good(l, entries, quotas[l], ctx[l], "RESET_DOMAIN") /\ n \in Names
    BY <1>1, ProgramFacts DEF AllGood
  <2>2. CASE entries[n].status = "ABSENT"
    BY <2>1, <2>2 DEF Live, Good, Booked
  <2>3. CASE entries[n].status # "ABSENT"
    <3>1. entries[n].launch = l /\ InUse(ctx[l]) /\ entries[n].status # "PENDING"
      BY <2>1, <2>3 DEF Good, Booked, Produced, StatusTrue
    <3>2. e[n] = CancelContextE(entries, l)[n]
      BY <1>1, <2>1, <2>3, <3>1 DEF Live
    <3>3. Booked(l, entries, ctx[l].queued) /\ ctx[l].queued \subseteq 1 .. Size(l)
      BY <2>1, ProgramFacts DEF Good, Flow, Running
    <3>4. \A m \in Names \ Own(l) : entries[m].status = "ABSENT" \/ entries[m].launch # l
      BY <1>1, OwnFacts DEF OwnOnly
    <3>5. CancelContextE(entries, l)[n] = CancelledEntry(entries[n], Made(l, n) \in ctx[l].queued)
      BY <1>1, <3>3, <3>4, CancelBooked
    <3> QED
      BY <2>1, <3>1, <3>2, <3>5 DEF CancelledEntry
  <2> QED
    BY <2>2, <2>3
<1>6. \A n \in Names : (\A l \in Launches : n \notin Own(l)) => e[n] = NoEntry
  BY <1>1, NoEntryFacts DEF Live, Shape
<1>7. \A n \in Names : e[n] = NoEntry
  BY <1>5, <1>6
<1>8. e \in [Names -> EventEntry]
  BY <1>7, NoEntryFacts
<1> HIDE DEF e
<1>9. ASSUME NEW l \in Launches
      PROVE  /\ c[l] \in ContextState /\ Good(l, e, quotas[l], c[l], s)
             /\ InUse(c[l]) <=> InUse(ctx[l])
             /\ c[l].queued = {} /\ c[l].flying = {}
  <2> DEFINE x == ctx[l]
             w == MarkFault(x)
             z == AbortActions(w)
             y == [z EXCEPT !.arena = FALSE]
  <2>1. Good(l, entries, quotas[l], x, "RESET_DOMAIN") /\ x \in ContextState
    BY <1>1 DEF AllGood
  <2>2. CASE InUse(x)
    <3>1. c[l] = y
      BY <1>1, <2>2 DEF Aborted
    <3> HIDE DEF x, c
    <3>2. w \in ContextState /\ w.stage = x.stage /\ w.pc = x.pc /\ w.broken = x.broken /\ w.faulted
      BY <2>1 DEF MarkFault, ContextState
    <3> HIDE DEF w
    <3>3. /\ z \in ContextState /\ z.stage = w.stage /\ z.pc = w.pc /\ z.broken = w.broken /\ z.faulted = w.faulted
          /\ z.queued = {} /\ z.flying = {} /\ z.fence = 0 /\ z.closed /\ z.jobs = 0
      BY <3>2 DEF AbortActions, ContextState
    <3> HIDE DEF z
    <3>4. /\ y \in ContextState /\ y.stage = z.stage /\ y.pc = z.pc /\ y.broken = z.broken /\ y.faulted = z.faulted
          /\ y.queued = {} /\ y.flying = {} /\ y.fence = 0 /\ y.closed = z.closed
      BY <3>3 DEF ContextState
    <3> HIDE DEF y
    <3>5. /\ y.stage = x.stage /\ y.pc = x.pc /\ y.broken = x.broken /\ y.faulted /\ y.closed
      BY <3>2, <3>3, <3>4
    <3>6. \A n \in Own(l) : e[n] = NoEntry
      BY <1>5
    <3>7. Good(l, e, quotas[l], y, "CLEAR_CREDIT_CACHE")
      BY <2>1, <2>2, <3>4, <3>5, <3>6, GoodRelease
    <3> QED
      BY <3>1, <3>4, <3>5, <3>7 DEF InUse, x
  <2>3. CASE ~InUse(x)
    <3>1. c[l] = x
      BY <1>1, <2>3 DEF Aborted
    <3>2. Good(l, entries, quotas[l], x, s)
      BY <2>1, <2>3, GoodReleaseIdle
    <3>3. \A n \in Own(l) : e[n] = entries[n]
      BY <1>5, <2>1, <2>3 DEF Good, Produced, Booked
    <3>4. SameRun(x, x)
      BY <2>1 DEF SameRun
    <3>5. Good(l, e, quotas[l], x, s)
      <4> HIDE DEF x
      <4> QED
        BY <3>2, <3>3, <3>4, GoodSame
    <3>6. x.queued = {} /\ x.flying = {}
      BY <2>1, <2>3 DEF Good, Flow, Running, InUse
    <3> QED
      BY <2>1, <3>1, <3>5, <3>6
  <2> QED
    BY <2>2, <2>3
<1>10. c \in [Launches -> ContextState]
  <2>1. c = [l \in Launches |-> c[l]]
    BY DEF Aborted
  <2> HIDE DEF c
  <2> QED
    BY <1>9, <2>1
<1>11. /\ \A l \in Launches : Good(l, e, quotas[l], c[l], s)
       /\ \A n \in Names : (\A l \in Launches : n \notin Own(l)) => e[n] = NoEntry
       /\ \A l \in Launches : InUse(c[l]) <=> InUse(ctx[l])
  BY <1>7, <1>9
<1> HIDE DEF c
<1>12. /\ Shape' /\ AllGood' /\ Closes(c)
  <2> HIDE DEF s
  <2> QED
    BY <1>1, <1>2, <1>3, <1>4, <1>8, <1>10, <1>11, RetireTable DEF Closes
<1>13. control = {}
  <2> SUFFICES ASSUME NEW r \in control PROVE FALSE
    OBVIOUS
  <2>1. r[1] \in Launches /\ r[2] \in ctx[r[1]].flying /\ act(r) = Act(r[1], r[2]) /\ act(r).op = "control"
    BY <1>1, FlyingFacts DEF Lists
  <2>2. Good(r[1], entries, quotas[r[1]], ctx[r[1]], "RESET_DOMAIN")
    BY <1>1, <2>1 DEF AllGood
  <2> QED
    BY <2>1, <2>2 DEF Good, ResetTrue
<1>14. ASSUME NEW l \in Launches PROVE Aborted[l].jobs = 0
  <2> DEFINE J == {t \in inflight : t[1] = l /\ act(t).op \in Transfers}
  <2>1. ctx[l].jobs = Cardinality(J)
    BY <1>1 DEF OwnersAgree
  <2>2. ASSUME NEW r \in J PROVE FALSE
    <3>1. r[1] \in Launches /\ r[2] \in ctx[r[1]].flying /\ act(r) = Act(r[1], r[2]) /\ act(r).op \in Transfers
      BY <2>2, FlyingFacts
    <3>2. Good(r[1], entries, quotas[r[1]], ctx[r[1]], "RESET_DOMAIN")
      BY <1>1, <3>1 DEF AllGood
    <3> QED
      BY <3>1, <3>2 DEF Good, ResetTrue, Transfers
  <2>3. ctx[l].jobs = 0
    BY <2>1, <2>2, FS_EmptySet
  <2>4. CASE l \in Members(active)
    <3>1. Aborted[l] = [AbortActions(MarkFault(ctx[l])) EXCEPT !.arena = FALSE]
      BY <2>4 DEF Aborted
    <3> QED
      BY <1>1, <3>1 DEF AbortActions, MarkFault, ContextState
  <2>5. CASE l \notin Members(active)
    BY <2>3, <2>5 DEF Aborted
  <2> QED
    BY <2>4, <2>5
<1> QED
  BY <1>9, <1>12, <1>13, <1>14 DEF c

-----------------------------------------------------------------------------
(* The lists of the scheduler against those of the sequencers.             *)

\* The records of the launch l in a set R.
Of(l, R) == {i \in 1 .. Size(l) : <<l, i>> \in R}

\* What the configuration says of the capacities.
LEMMA ConfigFacts ==
    /\ ActionCapacity \in Nat /\ ContextQuota \in Nat /\ InflightCapacity \in Nat
    /\ 0 <= ActionCapacity /\ 0 <= ContextQuota /\ 0 <= InflightCapacity
    /\ \A a \in Adapters : AdapterCapacity[a] \in Nat
BY ConfigAssumption

QueuePart ==
    /\ queue \in Seq(AllRecords) /\ Distinct(queue) /\ Len(queue) <= ActionCapacity
    /\ \A l \in Launches : Cardinality(ctx[l].queued) <= ContextQuota /\ ctx[l].queued = Of(l, Members(queue))

\* Taking a record out of a set, or putting it in, moves one ordinal of its launch.
LEMMA OfFacts ==
    ASSUME NEW l \in Launches, NEW r \in AllRecords, NEW R
    PROVE  /\ l = r[1] => Of(l, R \ {r}) = Of(l, R) \ {r[2]} /\ Of(l, R \cup {r}) = Of(l, R) \cup {r[2]}
           /\ l # r[1] => Of(l, R \ {r}) = Of(l, R) /\ Of(l, R \cup {r}) = Of(l, R)
<1>1. r = <<r[1], r[2]>> /\ r[2] \in 1 .. Size(r[1])
  BY RecordFacts
<1>2. \A i : <<l, i>> = r <=> l = r[1] /\ i = r[2]
  BY <1>1
<1> QED
  BY <1>1, <1>2 DEF Of

OneLess(S, R, r) == S = R \ {r}
OneMore(S, R, r) == S = R \cup {r}

\* The records of a launch when one record goes or comes.
LEMMA OfOne ==
    ASSUME NEW l \in Launches, NEW r \in AllRecords, NEW R, NEW S
    PROVE  /\ OneLess(S, R, r) => Of(l, S) = IF l = r[1] THEN Of(l, R) \ {r[2]} ELSE Of(l, R)
           /\ OneMore(S, R, r) => Of(l, S) = IF l = r[1] THEN Of(l, R) \cup {r[2]} ELSE Of(l, R)
<1>1. r = <<r[1], r[2]>> /\ r[2] \in 1 .. Size(r[1])
  BY RecordFacts
<1>2. \A i : <<l, i>> = r <=> l = r[1] /\ i = r[2]
  BY <1>1
<1>3. ASSUME OneLess(S, R, r) PROVE Of(l, S) = IF l = r[1] THEN Of(l, R) \ {r[2]} ELSE Of(l, R)
  BY <1>2, <1>3 DEF Of, OneLess
<1>4. ASSUME OneMore(S, R, r) PROVE Of(l, S) = IF l = r[1] THEN Of(l, R) \cup {r[2]} ELSE Of(l, R)
  BY <1>1, <1>2, <1>4 DEF Of, OneMore
<1> QED
  BY <1>3, <1>4

\* Sets of ordinals are finite, and smaller ones no larger.
LEMMA OfFinite ==
    ASSUME NEW l \in Launches, NEW S, S \subseteq 1 .. Size(l)
    PROVE  /\ IsFiniteSet(S) /\ Cardinality(S) \in Nat
           /\ \A T \in SUBSET S : Cardinality(T) <= Cardinality(S)
           /\ \A i \in (1 .. Size(l)) \ S : Cardinality(S \cup {i}) = Cardinality(S) + 1
<1>1. IsFiniteSet(1 .. Size(l)) /\ S \in SUBSET (1 .. Size(l))
  <2>1. Size(l) \in Nat
    BY ProgramFacts
  <2> QED
    BY <2>1, FS_Interval
<1>2. IsFiniteSet(S)
  BY <1>1, FS_Subset
<1> QED
  BY <1>1, <1>2, FS_Subset, FS_CardinalityType, FS_AddElement

\* The invariant contains QueuePart.
LEMMA QueueIs ==
    ASSUME IInv
    PROVE  QueuePart /\ Len(queue) \in Nat /\ Members(queue) \subseteq AllRecords
<1>1. queue \in Seq(AllRecords) /\ OwnersAgree /\ Distinct(queue)
  BY DEF IInv, Lists
<1>2. Len(queue) \in Nat /\ Members(queue) \subseteq AllRecords
  BY <1>1, MembersFacts
<1> QED
  BY <1>1, <1>2 DEF OwnersAgree, QueuePart, Of, Size

\* A step that touches no queue keeps it.
LEMMA QueueSame ==
    ASSUME IInv, queue' = queue, \A l \in Launches : ctx'[l].queued = ctx[l].queued
    PROVE  QueuePart'
<1>1. QueuePart
  BY QueueIs
<1> QED
  BY <1>1 DEF QueuePart

\* The records of a cancelled Context go.
LEMMA QueueCancel ==
    ASSUME IInv, NEW l \in Launches, queue' = Without(queue, l), ctx'[l].queued = {},
           \A k \in Launches \ {l} : ctx'[k].queued = ctx[k].queued
    PROVE  QueuePart'
<1> DEFINE I == {i \in DOMAIN queue : queue[i][1] # l}
<1>1. QueuePart /\ Len(queue) \in Nat /\ queue \in Seq(AllRecords) /\ Members(queue) \subseteq AllRecords
  BY QueueIs DEF QueuePart
<1>2. I \subseteq DOMAIN queue /\ queue' = Kept(queue, I)
  BY DEF Without
<1>3. \A v : (\E i \in I : queue[i] = v) <=> v \in Members(queue) /\ v[1] # l
  BY <1>1, MembersFacts DEF Members
<1> HIDE DEF I
<1>4. /\ queue' \in Seq(AllRecords) /\ Len(queue') \in Nat /\ Len(queue') <= Len(queue) /\ Distinct(queue')
      /\ \A v : v \in Members(queue') <=> \E i \in I : queue[i] = v
  BY <1>1, <1>2, KeptFacts DEF QueuePart
<1>5. Members(queue') = {v \in Members(queue) : v[1] # l}
  BY <1>3, <1>4
<1>6. ASSUME NEW k \in Launches
      PROVE  Cardinality(ctx'[k].queued) <= ContextQuota /\ ctx'[k].queued = Of(k, Members(queue'))
  <2>1. CASE k = l
    <3>1. Of(k, Members(queue')) = {}
      BY <1>5, <2>1 DEF Of
    <3> QED
      BY <2>1, <3>1, FS_EmptySet, ConfigFacts
  <2>2. CASE k # l
    <3>1. Of(k, Members(queue')) = Of(k, Members(queue))
      BY <1>5, <2>2 DEF Of
    <3> QED
      BY <1>1, <2>2, <3>1 DEF QueuePart
  <2> QED
    BY <2>1, <2>2
<1>7. Len(queue') <= ActionCapacity
  BY <1>1, <1>4, ConfigFacts DEF QueuePart
<1> QED
  BY <1>4, <1>6, <1>7 DEF QueuePart

\* The record that issues goes.
LEMMA QueueIssue ==
    ASSUME IInv, NEW r \in Members(queue), queue' = Dequeue(r), ctx'[r[1]].queued = ctx[r[1]].queued \ {r[2]},
           \A k \in Launches \ {r[1]} : ctx'[k].queued = ctx[k].queued
    PROVE  QueuePart'
<1> DEFINE I == {i \in DOMAIN queue : queue[i] # r}
<1>1. QueuePart /\ Len(queue) \in Nat /\ queue \in Seq(AllRecords) /\ Members(queue) \subseteq AllRecords
  BY QueueIs DEF QueuePart
<1>2. I \subseteq DOMAIN queue /\ queue' = Kept(queue, I) /\ r \in AllRecords
  BY <1>1 DEF Dequeue
<1>3. \A v : (\E i \in I : queue[i] = v) <=> v \in Members(queue) /\ v # r
  BY <1>1, MembersFacts DEF Members
<1> HIDE DEF I
<1>4. /\ queue' \in Seq(AllRecords) /\ Len(queue') \in Nat /\ Len(queue') <= Len(queue) /\ Distinct(queue')
      /\ \A v : v \in Members(queue') <=> \E i \in I : queue[i] = v
  BY <1>1, <1>2, KeptFacts DEF QueuePart
<1>5. Members(queue') = Members(queue) \ {r}
  BY <1>3, <1>4
<1>6. ASSUME NEW k \in Launches
      PROVE  Cardinality(ctx'[k].queued) <= ContextQuota /\ ctx'[k].queued = Of(k, Members(queue'))
  <2>1. ctx'[k].queued = Of(k, Members(queue'))
    <3> DEFINE M == Members(queue)
    <3>1. Of(k, M \ {r}) = IF k = r[1] THEN Of(k, M) \ {r[2]} ELSE Of(k, M)
      BY <1>2, OfFacts
    <3>2. ctx[k].queued = Of(k, M)
      BY <1>1 DEF QueuePart
    <3>3. ctx'[k].queued = IF k = r[1] THEN ctx[k].queued \ {r[2]} ELSE ctx[k].queued
      OBVIOUS
    <3> HIDE DEF M
    <3> QED
      BY <1>5, <3>1, <3>2, <3>3 DEF M
  <2>2. ctx[k].queued \subseteq 1 .. Size(k) /\ ctx'[k].queued \in SUBSET ctx[k].queued /\ Cardinality(ctx[k].queued) <= ContextQuota
    BY <1>1 DEF QueuePart, Of
  <2>3. Cardinality(ctx'[k].queued) <= Cardinality(ctx[k].queued) /\ Cardinality(ctx[k].queued) \in Nat
    BY <2>2, OfFinite
  <2>4. Cardinality(ctx'[k].queued) \in Nat
    <3>1. ctx'[k].queued \subseteq 1 .. Size(k)
      BY <2>2
    <3> QED
      BY <3>1, OfFinite
  <2> QED
    BY <2>1, <2>2, <2>3, <2>4, ConfigFacts
<1>7. Len(queue') <= ActionCapacity
  BY <1>1, <1>4, ConfigFacts DEF QueuePart
<1> QED
  BY <1>4, <1>6, <1>7 DEF QueuePart

\* A new record joins the end.
LEMMA QueueRegister ==
    ASSUME IInv, NEW l \in Launches, NEW i \in 1 .. Size(l), i \notin ctx[l].queued, UnderQuota(l),
           Len(queue) < ActionCapacity, queue' = Append(queue, <<l, i>>),
           ctx'[l].queued = ctx[l].queued \cup {i}, \A k \in Launches \ {l} : ctx'[k].queued = ctx[k].queued
    PROVE  QueuePart'
<1> DEFINE r == <<l, i>>
<1>1. QueuePart /\ Len(queue) \in Nat /\ queue \in Seq(AllRecords) /\ Members(queue) \subseteq AllRecords
  BY QueueIs DEF QueuePart
<1>2. r \in AllRecords /\ r[1] = l /\ r[2] = i
  BY RecordExists
<1>3. r \notin Members(queue)
  BY <1>1 DEF QueuePart, Of
<1> HIDE DEF r
<1>4. /\ queue' \in Seq(AllRecords) /\ Len(queue') = Len(queue) + 1 /\ Distinct(queue')
      /\ Members(queue') = Members(queue) \cup {r}
  <2>1. Members(queue) = Range(queue) /\ Distinct(queue) /\ queue' = Append(queue, r)
    BY <1>1, MembersFacts DEF QueuePart, r
  <2>2. /\ queue' \in Seq(AllRecords) /\ Len(queue') = Len(queue) + 1 /\ Distinct(queue')
        /\ Range(queue') = Range(queue) \cup {r}
    BY <1>1, <1>2, <1>3, <2>1, AppendDistinct
  <2>3. Members(queue') = Range(queue')
    BY <2>2, MembersFacts
  <2> QED
    BY <2>1, <2>2, <2>3
<1>5. ASSUME NEW k \in Launches
      PROVE  Cardinality(ctx'[k].queued) <= ContextQuota /\ ctx'[k].queued = Of(k, Members(queue'))
  <2>1. ctx'[k].queued = Of(k, Members(queue'))
    <3> DEFINE M == Members(queue)
    <3>1. Of(k, M \cup {r}) = IF k = l THEN Of(k, M) \cup {i} ELSE Of(k, M)
      <4> HIDE DEF M
      <4>1. Of(k, M \cup {r}) = IF k = r[1] THEN Of(k, M) \cup {r[2]} ELSE Of(k, M)
        BY <1>2, OfFacts
      <4> QED
        BY <1>2, <4>1
    <3>2. ctx[k].queued = Of(k, M)
      BY <1>1 DEF QueuePart
    <3>3. ctx'[k].queued = IF k = l THEN ctx[k].queued \cup {i} ELSE ctx[k].queued
      OBVIOUS
    <3> HIDE DEF M
    <3> QED
      BY <1>4, <3>1, <3>2, <3>3 DEF M
  <2>2. CASE k = l
    <3>1. ctx[l].queued \subseteq 1 .. Size(l)
      BY <1>1 DEF QueuePart, Of
    <3>2. Cardinality(ctx'[l].queued) = Cardinality(ctx[l].queued) + 1 /\ Cardinality(ctx[l].queued) \in Nat
      BY <3>1, OfFinite
    <3>3. Cardinality(ctx[l].queued) + 1 <= ContextQuota
      BY <3>2, ConfigFacts DEF UnderQuota
    <3> QED
      BY <2>1, <2>2, <3>2, <3>3
  <2>3. CASE k # l
    BY <1>1, <2>1, <2>3 DEF QueuePart
  <2> QED
    BY <2>2, <2>3
<1>6. Len(queue') <= ActionCapacity
  BY <1>1, <1>4, ConfigFacts
<1> QED
  BY <1>4, <1>5, <1>6 DEF QueuePart

\* A reset empties the queue.
LEMMA QueueEmpty ==
    ASSUME queue' = <<>>, \A l \in Launches : ctx'[l].queued = {}
    PROVE  QueuePart'
<1>1. queue' \in Seq(AllRecords) /\ Len(queue') = 0
  BY EmptySeq
<1>2. Distinct(queue') /\ Members(queue') = {}
  BY <1>1 DEF Distinct, Members
<1>3. \A l \in Launches : Of(l, Members(queue')) = {} /\ Cardinality(ctx'[l].queued) = 0
  BY <1>2, FS_EmptySet DEF Of
<1> QED
  BY <1>1, <1>2, <1>3, ConfigFacts DEF QueuePart

-----------------------------------------------------------------------------
(* What is in flight, and its credits.                                     *)

\* The records of a kind in a set R: the jobs of a launch, the users of an adapter.
Jobs(l, R) == {r \in R : r[1] = l /\ act(r).op \in Transfers}
On(a, R) == {r \in R : act(r).op = a}

FlightPart ==
    /\ inflight \subseteq AllRecords /\ control \subseteq AllRecords /\ routes \subseteq inflight
    /\ \A r \in inflight : act(r).op \in Async
    /\ \A r \in control : act(r).op = "control"
    /\ \A r \in routes : act(r).op = "dispatch"
    /\ IsFiniteSet(inflight)
    /\ \A l \in Launches : ctx[l].flying = Of(l, inflight \cup control)
    /\ \A l \in Launches : ctx[l].jobs = Cardinality(Jobs(l, inflight))
    /\ Credits

\* The invariant contains FlightPart.
LEMMA FlightIs ==
    ASSUME IInv
    PROVE  FlightPart
BY DEF IInv, Lists, OwnersAgree, FlightPart, Of, Jobs, Size

\* One record more or less counts for one.
LEMMA CountOne ==
    ASSUME NEW T, IsFiniteSet(T), NEW r
    PROVE  /\ Cardinality(T) \in Nat /\ (Cardinality(T) = 0 <=> T = {})
           /\ r \in T => Cardinality(T \ {r}) = Cardinality(T) - 1 /\ T \cup {r} = T
           /\ r \notin T => Cardinality(T \cup {r}) = Cardinality(T) + 1 /\ T \ {r} = T
<1>1. Cardinality(T) \in Nat /\ (Cardinality(T) = 0 <=> T = {})
  BY FS_CardinalityType, FS_EmptySet
<1>2. r \in T => Cardinality(T \ {r}) = Cardinality(T) - 1
  BY FS_RemoveElement
<1>3. r \notin T => Cardinality(T \cup {r}) = Cardinality(T) + 1
  BY FS_AddElement
<1> QED
  BY <1>1, <1>2, <1>3

\* The credits in terms of the kinds of records.
LEMMA CreditsAre ==
    Credits <=>
        /\ used \in [Adapters -> Nat] /\ epochRefs \in Nat
        /\ \A a \in Adapters : used[a] = Cardinality(On(a, inflight)) /\ used[a] <= AdapterCapacity[a]
        /\ Cardinality(inflight) <= InflightCapacity
        /\ SameProgram => /\ epochRefs = Cardinality(On("dispatch", inflight))
                          /\ \A r \in On("dispatch", inflight) : act(r).key = epochKey
                          /\ epochKey = NoKey <=> On("dispatch", inflight) = {}
BY DEF Credits, CreditConservation, On

\* A step that accepts and returns nothing keeps it.
LEMMA FlightSame ==
    ASSUME IInv, inflight' = inflight, control' = control, routes' \subseteq routes, used' = used,
           epochKey' = epochKey, epochRefs' = epochRefs,
           \A l \in Launches : ctx'[l].flying = ctx[l].flying /\ ctx'[l].jobs = ctx[l].jobs
    PROVE  FlightPart'
<1>1. FlightPart
  BY FlightIs
<1>2. Credits'
  BY <1>1 DEF FlightPart, Credits, CreditConservation
<1>3. \A r : act(r)' = act(r)
  BY DEF act
<1>4. \A l \in Launches : Jobs(l, inflight') = Jobs(l, inflight)
  OBVIOUS
<1> QED
  BY <1>1, <1>2, <1>3, <1>4 DEF FlightPart, Jobs, act

\* A record comes back and returns its credits.
LEMMA FlightReturn ==
    ASSUME IInv, NEW r \in inflight, ReturnCredit(r), control' = control, routes' \subseteq routes \ {r},
           ctx'[r[1]].flying = ctx[r[1]].flying \ {r[2]},
           ctx'[r[1]].jobs = ctx[r[1]].jobs - (IF act(r).op \in Transfers THEN 1 ELSE 0),
           \A k \in Launches \ {r[1]} : ctx'[k].flying = ctx[k].flying /\ ctx'[k].jobs = ctx[k].jobs
    PROVE  FlightPart'
<1> DEFINE G == On("dispatch", inflight)
<1>1. FlightPart /\ Credits /\ IsFiniteSet(inflight) /\ r \in AllRecords
  BY FlightIs DEF FlightPart
<1>2. r \notin control
  BY <1>1 DEF FlightPart, Async, Adapters
<1>3. /\ inflight' = inflight \ {r}
      /\ used' = IF act(r).op \in Adapters THEN [used EXCEPT ![act(r).op] = @ - 1] ELSE used
      /\ act(r).op = "dispatch" /\ SameProgram =>
            epochRefs' = epochRefs - 1 /\ epochKey' = IF epochRefs = 1 THEN NoKey ELSE epochKey
      /\ ~(act(r).op = "dispatch" /\ SameProgram) => epochRefs' = epochRefs /\ epochKey' = epochKey
  BY DEF ReturnCredit, ReleaseEpoch
<1>4. /\ used \in [Adapters -> Nat] /\ epochRefs \in Nat
      /\ \A a \in Adapters : used[a] = Cardinality(On(a, inflight)) /\ used[a] <= AdapterCapacity[a]
      /\ Cardinality(inflight) <= InflightCapacity
      /\ SameProgram => /\ epochRefs = Cardinality(G)
                        /\ \A t \in G : act(t).key = epochKey
                        /\ epochKey = NoKey <=> G = {}
  BY <1>1, CreditsAre
<1>5. /\ \A l : Jobs(l, inflight \ {r}) = Jobs(l, inflight) \ {r} /\ Jobs(l, inflight) \subseteq inflight
      /\ \A a : On(a, inflight \ {r}) = On(a, inflight) \ {r} /\ On(a, inflight) \subseteq inflight
      /\ \A l : r \in Jobs(l, inflight) <=> l = r[1] /\ act(r).op \in Transfers
      /\ \A a : r \in On(a, inflight) <=> a = act(r).op
  BY DEF Jobs, On
<1>6. ASSUME NEW l \in Launches
      PROVE  ctx'[l].flying = Of(l, inflight' \cup control') /\ ctx'[l].jobs = Cardinality(Jobs(l, inflight'))
  <2> DEFINE F == inflight \cup control
             J == Jobs(l, inflight)
  <2> DEFINE E == inflight' \cup control'
  <2>1. OneLess(E, F, r)
    BY <1>2, <1>3 DEF OneLess
  <2> HIDE DEF E, F
  <2>2. Of(l, E) = IF l = r[1] THEN Of(l, F) \ {r[2]} ELSE Of(l, F)
    BY <1>1, <2>1, OfOne
  <2> USE DEF E, F
  <2>3. ctx[l].flying = Of(l, F) /\ ctx[l].jobs = Cardinality(J)
    BY <1>1 DEF FlightPart
  <2>4. ctx'[l].flying = IF l = r[1] THEN ctx[l].flying \ {r[2]} ELSE ctx[l].flying
    OBVIOUS
  <2>5. ctx'[l].jobs = IF l = r[1] THEN ctx[l].jobs - (IF act(r).op \in Transfers THEN 1 ELSE 0) ELSE ctx[l].jobs
    OBVIOUS
  <2>6. ctx'[l].flying = Of(l, E)
    <3> HIDE DEF E, F
    <3> QED
      BY <2>2, <2>3, <2>4
  <2>7. IsFiniteSet(J) /\ (r \in J <=> l = r[1] /\ act(r).op \in Transfers) /\ Jobs(l, inflight') = J \ {r}
    BY <1>1, <1>3, <1>5, FS_Subset
  <2> HIDE DEF E, F, J
  <2>8. Cardinality(J) \in Nat /\ (r \in J => Cardinality(J \ {r}) = Cardinality(J) - 1) /\ (r \notin J => J \ {r} = J)
    BY <2>7, CountOne
  <2>9. ctx'[l].jobs = Cardinality(J \ {r})
    <3>1. CASE l = r[1] /\ act(r).op \in Transfers
      <4>1. ctx'[l].jobs = ctx[l].jobs - 1 /\ r \in J
        BY <2>5, <2>7, <3>1
      <4> QED
        BY <2>3, <2>8, <4>1
    <3>2. CASE ~(l = r[1] /\ act(r).op \in Transfers)
      <4>1. ctx'[l].jobs = ctx[l].jobs /\ J \ {r} = J
        <5>1. ctx[l].jobs - 0 = ctx[l].jobs
          BY <2>3, <2>8
        <5> QED
          BY <2>5, <2>7, <2>8, <3>2, <5>1
      <4> QED
        BY <2>3, <4>1
    <3> QED
      BY <3>1, <3>2
  <2> QED
    BY <2>6, <2>7, <2>9 DEF E
<1>7. ASSUME NEW a \in Adapters
      PROVE  /\ used'[a] \in Nat /\ used'[a] = Cardinality(On(a, inflight')) /\ used'[a] <= AdapterCapacity[a]
  <2> DEFINE T == On(a, inflight)
  <2>1. IsFiniteSet(T) /\ (r \in T <=> a = act(r).op) /\ On(a, inflight') = T \ {r} /\ used[a] = Cardinality(T)
    BY <1>1, <1>3, <1>4, <1>5, FS_Subset
  <2>2. used'[a] = IF a = act(r).op THEN used[a] - 1 ELSE used[a]
    BY <1>3, <1>4
  <2> HIDE DEF T
  <2>3. /\ Cardinality(T) \in Nat /\ (Cardinality(T) = 0 <=> T = {})
        /\ (r \in T => Cardinality(T \ {r}) = Cardinality(T) - 1) /\ (r \notin T => T \ {r} = T)
    BY <2>1, CountOne
  <2>4. used[a] <= AdapterCapacity[a] /\ AdapterCapacity[a] \in Nat
    BY <1>4, ConfigFacts
  <2>5. CASE a = act(r).op
    <3>1. used'[a] = Cardinality(T \ {r}) /\ used'[a] = used[a] - 1 /\ used[a] # 0 /\ used[a] \in Nat
      BY <2>1, <2>2, <2>3, <2>5
    <3> QED
      BY <2>1, <2>4, <3>1
  <2>6. CASE a # act(r).op
    <3>1. T \ {r} = T /\ used'[a] = used[a] /\ used[a] \in Nat
      BY <2>1, <2>2, <2>3, <2>6
    <3> QED
      BY <2>1, <2>4, <3>1
  <2> QED
    BY <2>5, <2>6
<1>8. used' \in [Adapters -> Nat]
  <2>1. used' = [a \in Adapters |-> used'[a]]
    BY <1>3, <1>4
  <2> QED
    BY <1>7, <2>1
<1>9. IsFiniteSet(inflight') /\ Cardinality(inflight') <= InflightCapacity
  <2>1. Cardinality(inflight) \in Nat /\ Cardinality(inflight \ {r}) = Cardinality(inflight) - 1
    BY <1>1, CountOne
  <2>2. IsFiniteSet(inflight \ {r})
    BY <1>1, FS_RemoveElement
  <2> QED
    BY <1>3, <1>4, <2>1, <2>2, ConfigFacts
<1>10. /\ epochRefs' \in Nat
       /\ SameProgram => /\ epochRefs' = Cardinality(On("dispatch", inflight'))
                         /\ \A t \in On("dispatch", inflight') : act(t).key = epochKey'
                         /\ epochKey' = NoKey <=> On("dispatch", inflight') = {}
  <2>1. IsFiniteSet(G) /\ (r \in G <=> act(r).op = "dispatch") /\ On("dispatch", inflight') = G \ {r}
    BY <1>1, <1>3, <1>5, FS_Subset
  <2> HIDE DEF G
  <2>2. /\ Cardinality(G) \in Nat /\ (Cardinality(G) = 0 <=> G = {})
        /\ (r \in G => Cardinality(G \ {r}) = Cardinality(G) - 1)
    BY <2>1, CountOne
  <2>3. IsFiniteSet(G \ {r})
    BY <2>1, FS_RemoveElement
  <2>4. Cardinality(G \ {r}) \in Nat /\ (Cardinality(G \ {r}) = 0 <=> G \ {r} = {})
    <3> DEFINE H == G \ {r}
    <3>1. IsFiniteSet(H)
      BY <2>3
    <3> HIDE DEF H
    <3>2. Cardinality(H) \in Nat /\ (Cardinality(H) = 0 <=> H = {})
      BY <3>1, CountOne
    <3> QED
      BY <3>2 DEF H
  <2>5. CASE ~SameProgram
    BY <1>3, <1>4, <2>5
  <2>6. CASE SameProgram /\ act(r).op # "dispatch"
    <3>1. G \ {r} = G
      BY <2>1, <2>6
    <3> QED
      BY <1>3, <1>4, <2>1, <2>6, <3>1
  <2>7. CASE SameProgram /\ act(r).op = "dispatch"
    <3>1. epochRefs' = Cardinality(G \ {r}) /\ (epochRefs = 1 <=> G \ {r} = {}) /\ epochKey # NoKey
      BY <1>3, <1>4, <2>1, <2>2, <2>4, <2>7
    <3>2. CASE epochRefs = 1
      BY <1>3, <2>1, <2>4, <2>7, <3>1, <3>2
    <3>3. CASE epochRefs # 1
      <4>1. epochKey' = epochKey
        BY <1>3, <2>7, <3>3
      <4> QED
        BY <1>4, <2>1, <2>4, <2>7, <3>1, <3>3, <4>1
    <3> QED
      BY <3>2, <3>3
  <2> QED
    BY <2>5, <2>6, <2>7
<1>11. Credits'
  <2>1. \A t : act(t)' = act(t)
    BY DEF act
  <2> QED
    BY <1>7, <1>8, <1>9, <1>10, <2>1 DEF Credits, CreditConservation, On
<1>12. routes' \subseteq inflight' /\ routes' \subseteq routes
  BY <1>1, <1>3 DEF FlightPart
<1>13. inflight' \subseteq inflight
  BY <1>3
<1> QED
  BY <1>1, <1>6, <1>9, <1>11, <1>12, <1>13 DEF FlightPart, Jobs, act

\* An accepted action takes its credits.
LEMMA FlightIssue ==
    ASSUME IInv, NEW r \in Members(queue), Eligible(r), act(r).op \in Async, control' = control,
           inflight' = inflight \cup {r},
           used' = IF act(r).op \in Adapters THEN [used EXCEPT ![act(r).op] = @ + 1] ELSE used,
           act(r).op = "dispatch" => routes' = routes \cup {r} /\ AcquireEpoch(r),
           act(r).op # "dispatch" => routes' = routes /\ epochKey' = epochKey /\ epochRefs' = epochRefs,
           ctx'[r[1]].flying = ctx[r[1]].flying \cup {r[2]},
           ctx'[r[1]].jobs = (IF act(r).op \in Transfers THEN ctx[r[1]].jobs + 1 ELSE ctx[r[1]].jobs),
           \A k \in Launches \ {r[1]} : ctx'[k].flying = ctx[k].flying /\ ctx'[k].jobs = ctx[k].jobs
    PROVE  FlightPart'
<1> DEFINE G == On("dispatch", inflight)
<1>1. FlightPart /\ Credits /\ IsFiniteSet(inflight)
  BY FlightIs DEF FlightPart
<1>2. r \in AllRecords /\ r \notin inflight /\ (act(r).op = "dispatch" => act(r).key # NoKey)
  <2>1. /\ r \in AllRecords /\ r[1] \in Launches /\ r[2] \in ctx[r[1]].queued /\ act(r) = Act(r[1], r[2]) /\ r[2] \in 1 .. Size(r[1])
    BY QueuedFacts
  <2>2. r \notin inflight
    <3> SUFFICES ASSUME r \in inflight PROVE FALSE
      OBVIOUS
    <3>1. r[2] \in ctx[r[1]].flying
      BY FlyingFacts
    <3> QED
      BY <2>1, <3>1 DEF IInv, AllGood, Good, Flow
  <2>3. ActionOK(act(r))
    BY <2>1, ProgramFacts
  <2> QED
    BY <2>1, <2>2, <2>3 DEF ActionOK
<1>3. /\ used \in [Adapters -> Nat] /\ epochRefs \in Nat
      /\ \A a \in Adapters : used[a] = Cardinality(On(a, inflight)) /\ used[a] <= AdapterCapacity[a]
      /\ Cardinality(inflight) <= InflightCapacity
      /\ SameProgram => /\ epochRefs = Cardinality(G)
                        /\ \A t \in G : act(t).key = epochKey
                        /\ epochKey = NoKey <=> G = {}
  BY <1>1, CreditsAre
<1>4. /\ Cardinality(inflight) < InflightCapacity
      /\ act(r).op \in Adapters => used[act(r).op] < AdapterCapacity[act(r).op]
      /\ act(r).op = "dispatch" /\ SameProgram => epochKey \in {NoKey, act(r).key}
  BY DEF Eligible, HasCredit, EpochAllows, ProgramKey
<1>5. /\ \A l : Jobs(l, inflight) \subseteq inflight
      /\ \A l : Jobs(l, inflight \cup {r}) = IF l = r[1] /\ act(r).op \in Transfers THEN Jobs(l, inflight) \cup {r} ELSE Jobs(l, inflight)
      /\ \A a : On(a, inflight) \subseteq inflight
      /\ \A a : On(a, inflight \cup {r}) = IF a = act(r).op THEN On(a, inflight) \cup {r} ELSE On(a, inflight)
      /\ \A l : r \notin Jobs(l, inflight)
      /\ \A a : r \notin On(a, inflight)
  BY <1>2 DEF Jobs, On
<1>6. ASSUME NEW l \in Launches
      PROVE  ctx'[l].flying = Of(l, inflight' \cup control') /\ ctx'[l].jobs = Cardinality(Jobs(l, inflight'))
  <2> DEFINE F == inflight \cup control
             J == Jobs(l, inflight)
             E == inflight' \cup control'
  <2>1. OneMore(E, F, r)
    BY DEF OneMore
  <2> HIDE DEF E, F
  <2>2. Of(l, E) = IF l = r[1] THEN Of(l, F) \cup {r[2]} ELSE Of(l, F)
    BY <1>2, <2>1, OfOne
  <2> USE DEF E, F
  <2>3. ctx[l].flying = Of(l, F) /\ ctx[l].jobs = Cardinality(J)
    BY <1>1 DEF FlightPart
  <2>4. ctx'[l].flying = IF l = r[1] THEN ctx[l].flying \cup {r[2]} ELSE ctx[l].flying
    OBVIOUS
  <2>5. ctx'[l].jobs = IF l = r[1] /\ act(r).op \in Transfers THEN ctx[l].jobs + 1 ELSE ctx[l].jobs
    OBVIOUS
  <2>6. ctx'[l].flying = Of(l, E)
    <3> HIDE DEF E, F
    <3> QED
      BY <2>2, <2>3, <2>4
  <2>7. /\ IsFiniteSet(J) /\ r \notin J
        /\ Jobs(l, inflight') = IF l = r[1] /\ act(r).op \in Transfers THEN J \cup {r} ELSE J
    BY <1>1, <1>5, FS_Subset
  <2> HIDE DEF E, F, J
  <2>8. Cardinality(J \cup {r}) = Cardinality(J) + 1
    BY <2>7, CountOne
  <2>9. ctx'[l].jobs = Cardinality(Jobs(l, inflight'))
    BY <2>3, <2>5, <2>7, <2>8
  <2> QED
    BY <2>6, <2>9 DEF E
<1>7. ASSUME NEW a \in Adapters
      PROVE  /\ used'[a] \in Nat /\ used'[a] = Cardinality(On(a, inflight')) /\ used'[a] <= AdapterCapacity[a]
  <2> DEFINE T == On(a, inflight)
  <2>1. /\ IsFiniteSet(T) /\ r \notin T /\ used[a] = Cardinality(T)
        /\ On(a, inflight') = IF a = act(r).op THEN T \cup {r} ELSE T
    BY <1>1, <1>3, <1>5, FS_Subset
  <2>2. used'[a] = IF a = act(r).op THEN used[a] + 1 ELSE used[a]
    BY <1>3
  <2> HIDE DEF T
  <2>3. Cardinality(T) \in Nat /\ Cardinality(T \cup {r}) = Cardinality(T) + 1
    BY <2>1, CountOne
  <2>4. used[a] <= AdapterCapacity[a] /\ AdapterCapacity[a] \in Nat
    BY <1>3, ConfigFacts
  <2>5. CASE a = act(r).op
    <3>1. used'[a] = Cardinality(T \cup {r}) /\ used'[a] = used[a] + 1 /\ used[a] \in Nat /\ used[a] < AdapterCapacity[a]
      BY <1>4, <2>1, <2>2, <2>3, <2>5
    <3>2. On(a, inflight') = T \cup {r}
      BY <2>1, <2>5
    <3>3. used[a] + 1 \in Nat /\ used[a] + 1 <= AdapterCapacity[a]
      BY <2>4, <3>1
    <3> QED
      BY <3>1, <3>2, <3>3
  <2>6. CASE a # act(r).op
    BY <2>1, <2>2, <2>3, <2>4, <2>6
  <2> QED
    BY <2>5, <2>6
<1>8. used' \in [Adapters -> Nat]
  <2>1. used' = [a \in Adapters |-> used'[a]]
    BY <1>3
  <2> QED
    BY <1>7, <2>1
<1>9. IsFiniteSet(inflight') /\ Cardinality(inflight') <= InflightCapacity
  <2>1. Cardinality(inflight) \in Nat /\ Cardinality(inflight \cup {r}) = Cardinality(inflight) + 1
    BY <1>1, <1>2, CountOne
  <2>2. IsFiniteSet(inflight \cup {r})
    BY <1>1, FS_AddElement
  <2> QED
    BY <1>4, <2>1, <2>2, ConfigFacts
<1>10. /\ epochRefs' \in Nat
       /\ SameProgram => /\ epochRefs' = Cardinality(On("dispatch", inflight'))
                         /\ \A t \in On("dispatch", inflight') : act(t).key = epochKey'
                         /\ epochKey' = NoKey <=> On("dispatch", inflight') = {}
  <2>1. /\ IsFiniteSet(G) /\ r \notin G
        /\ On("dispatch", inflight') = IF act(r).op = "dispatch" THEN G \cup {r} ELSE G
    BY <1>1, <1>5, FS_Subset
  <2> HIDE DEF G
  <2>2. Cardinality(G) \in Nat /\ Cardinality(G \cup {r}) = Cardinality(G) + 1
    BY <2>1, CountOne
  <2>3. CASE ~SameProgram
    <3>1. epochRefs' = epochRefs
      BY <2>3 DEF AcquireEpoch
    <3> QED
      BY <1>3, <2>3, <3>1
  <2>4. CASE SameProgram /\ act(r).op # "dispatch"
    BY <1>3, <2>1, <2>4
  <2>5. CASE SameProgram /\ act(r).op = "dispatch"
    <3>1. epochRefs' = epochRefs + 1 /\ epochKey' = act(r).key
      BY <2>5 DEF AcquireEpoch, ProgramKey
    <3>2. \A t \in G : act(t).key = act(r).key
      BY <1>3, <1>4, <2>5
    <3>3. On("dispatch", inflight') = G \cup {r} /\ epochRefs = Cardinality(G)
      BY <1>3, <2>1, <2>5
    <3>4. epochRefs' \in Nat /\ epochRefs' = Cardinality(On("dispatch", inflight'))
      <4>1. Cardinality(On("dispatch", inflight')) = Cardinality(G \cup {r}) /\ epochRefs = Cardinality(G)
        BY <3>3, Zenon
      <4> QED
        BY <2>2, <3>1, <4>1
    <3>5. \A t \in On("dispatch", inflight') : act(t).key = epochKey'
      BY <3>1, <3>2, <3>3
    <3>6. epochKey' # NoKey /\ On("dispatch", inflight') # {}
      BY <1>2, <2>5, <3>1, <3>3
    <3> QED
      BY <3>4, <3>5, <3>6
  <2> QED
    BY <2>3, <2>4, <2>5
<1>11. Credits'
  <2>1. \A t : act(t)' = act(t)
    BY DEF act
  <2> QED
    BY <1>7, <1>8, <1>9, <1>10, <2>1 DEF Credits, CreditConservation, On
<1>12. routes' \subseteq inflight' /\ \A t \in routes' : act(t).op = "dispatch"
  BY <1>1 DEF FlightPart
<1>13. inflight' \subseteq AllRecords /\ \A t \in inflight' : act(t).op \in Async
  BY <1>1, <1>2 DEF FlightPart
<1> QED
  BY <1>1, <1>6, <1>9, <1>11, <1>12, <1>13 DEF FlightPart, Jobs, act

\* A configuration command is accepted, or ends.
LEMMA FlightControl ==
    ASSUME IInv, NEW r \in AllRecords, act(r).op = "control", inflight' = inflight, routes' = routes, used' = used,
           epochKey' = epochKey, epochRefs' = epochRefs,
           \/ /\ control' = control \cup {r}
              /\ ctx'[r[1]].flying = ctx[r[1]].flying \cup {r[2]}
           \/ /\ control' = control \ {r}
              /\ ctx'[r[1]].flying = ctx[r[1]].flying \ {r[2]},
           ctx'[r[1]].jobs = ctx[r[1]].jobs,
           \A k \in Launches \ {r[1]} : ctx'[k].flying = ctx[k].flying /\ ctx'[k].jobs = ctx[k].jobs
    PROVE  FlightPart'
<1>1. FlightPart
  BY FlightIs
<1>2. r \notin inflight
  BY <1>1 DEF FlightPart, Async, Adapters
<1>3. ASSUME NEW l \in Launches
      PROVE  ctx'[l].flying = Of(l, inflight' \cup control') /\ ctx'[l].jobs = Cardinality(Jobs(l, inflight'))
  <2> DEFINE F == inflight \cup control
             E == inflight' \cup control'
  <2>1. ctx[l].flying = Of(l, F) /\ ctx[l].jobs = Cardinality(Jobs(l, inflight))
    BY <1>1 DEF FlightPart
  <2>2. ctx'[l].jobs = ctx[l].jobs
    OBVIOUS
  <2>3. CASE control' = control \cup {r} /\ ctx'[r[1]].flying = ctx[r[1]].flying \cup {r[2]}
    <3>1. OneMore(E, F, r)
      BY <2>3 DEF OneMore
    <3>2. ctx'[l].flying = IF l = r[1] THEN ctx[l].flying \cup {r[2]} ELSE ctx[l].flying
      BY <2>3
    <3> HIDE DEF E, F
    <3>3. Of(l, E) = IF l = r[1] THEN Of(l, F) \cup {r[2]} ELSE Of(l, F)
      BY <3>1, OfOne
    <3> QED
      BY <2>1, <2>2, <3>2, <3>3 DEF E
  <2>4. CASE control' = control \ {r} /\ ctx'[r[1]].flying = ctx[r[1]].flying \ {r[2]}
    <3>1. OneLess(E, F, r)
      BY <1>2, <2>4 DEF OneLess
    <3>2. ctx'[l].flying = IF l = r[1] THEN ctx[l].flying \ {r[2]} ELSE ctx[l].flying
      BY <2>4
    <3> HIDE DEF E, F
    <3>3. Of(l, E) = IF l = r[1] THEN Of(l, F) \ {r[2]} ELSE Of(l, F)
      BY <3>1, OfOne
    <3> QED
      BY <2>1, <2>2, <3>2, <3>3 DEF E
  <2> QED
    BY <2>3, <2>4
<1>4. control' \subseteq AllRecords /\ \A t \in control' : act(t).op = "control"
  BY <1>1 DEF FlightPart
<1>5. Credits'
  BY <1>1 DEF FlightPart, Credits, CreditConservation
<1> QED
  BY <1>1, <1>3, <1>4, <1>5 DEF FlightPart, Jobs, act

\* A reset forgets everything.
LEMMA FlightAbort ==
    ASSUME AbortInflight, control' = {}, routes' = {},
           \A l \in Launches : ctx'[l].flying = {} /\ ctx'[l].jobs = 0
    PROVE  FlightPart'
<1>1. inflight' = {} /\ used' = [a \in Adapters |-> 0] /\ epochKey' = NoKey /\ epochRefs' = 0
  BY DEF AbortInflight
<1>2. IsFiniteSet(inflight') /\ Cardinality(inflight') = 0
  BY <1>1, FS_EmptySet
<1>3. ASSUME NEW P PROVE {r \in inflight' : act(r).op = P} = {}
  BY <1>1
<1>4. Credits'
  <2>1. used' \in [Adapters -> Nat] /\ epochRefs' \in Nat
    BY <1>1
  <2>2. \A a \in Adapters : used'[a] = Cardinality({r \in inflight' : act(r).op = a}) /\ used'[a] <= AdapterCapacity[a]
    BY <1>1, <1>3, FS_EmptySet, ConfigFacts
  <2>3. Cardinality({r \in inflight' : act(r).op = "dispatch"}) = 0 /\ {r \in inflight' : act(r).op = "dispatch"} = {}
    BY <1>3, FS_EmptySet
  <2>4. Cardinality(inflight') <= InflightCapacity
    BY <1>2, ConfigFacts
  <2> QED
    BY <1>1, <2>1, <2>2, <2>3, <2>4 DEF Credits, CreditConservation, act
<1>5. \A l \in Launches : Jobs(l, inflight') = {} /\ Of(l, inflight' \cup control') = {}
  BY <1>1 DEF Jobs, Of
<1>6. \A l \in Launches : ctx'[l].jobs = Cardinality(Jobs(l, inflight'))
  BY <1>5, FS_EmptySet
<1> QED
  BY <1>1, <1>2, <1>4, <1>5, <1>6 DEF FlightPart, Jobs, act

-----------------------------------------------------------------------------
(* The Contexts in use, and the turn of the tick.                          *)

ActivePart ==
    /\ active \in Seq(Launches) /\ Distinct(active)
    /\ \A l \in Launches : l \in Members(active) <=> InUse(ctx[l])
    /\ registerCursor \in Nat /\ scanCursor \in Nat

\* The invariant in the parts that the steps below preserve one by one.
LEMMA Assemble ==
    ASSUME Shape', AllGood', QueuePart', FlightPart', ActivePart', Turn'
    PROVE  IInv'
BY DEF IInv, Lists, OwnersAgree, QueuePart, FlightPart, ActivePart, Of, Jobs, Size

\* The invariant contains ActivePart and Turn.
LEMMA ActiveIs ==
    ASSUME IInv
    PROVE  ActivePart /\ Turn
BY DEF IInv, Lists, ActivePart

\* A step that admits and retires nobody keeps ActivePart.
LEMMA ActiveSame ==
    ASSUME IInv, active' = active, registerCursor' \in Nat, scanCursor' \in Nat,
           \A l \in Launches : InUse(ctx'[l]) <=> InUse(ctx[l])
    PROVE  ActivePart'
<1>1. ActivePart
  BY ActiveIs
<1> QED
  BY <1>1 DEF ActivePart, InUse

\* So does an admission.
LEMMA ActiveAdmit ==
    ASSUME IInv, NEW l \in Launches, ~InUse(ctx[l]), active' = Append(active, l), InUse(ctx'[l]),
           registerCursor' = registerCursor, scanCursor' = scanCursor,
           \A k \in Launches \ {l} : ctx'[k] = ctx[k]
    PROVE  ActivePart'
<1>1. ActivePart
  BY ActiveIs
<1>2. active \in Seq(Launches) /\ Distinct(active) /\ l \notin Members(active) /\ Members(active) = Range(active)
  BY <1>1, MembersFacts DEF ActivePart
<1>3. /\ active' \in Seq(Launches) /\ Distinct(active') /\ Range(active') = Range(active) \cup {l}
  BY <1>2, AppendDistinct
<1>4. Members(active') = Members(active) \cup {l}
  BY <1>2, <1>3, MembersFacts
<1>5. \A k \in Launches : k \in Members(active') <=> InUse(ctx'[k])
  BY <1>1, <1>4 DEF ActivePart
<1> QED
  BY <1>1, <1>3, <1>5 DEF ActivePart, InUse

\* Completions and faults come before the tick and declare nobody done.
LEMMA TurnArrive ==
    ASSUME IInv, phase = "arrive", phase' = phase, \A l \in Launches : ctx'[l].stage # "done"
    PROVE  Turn'
BY DEF Turn

\* An issue, also one that faults, ends the phase "issue".
LEMMA TurnIssue ==
    ASSUME IInv, phase = "issue", phase' = "register", reset' = reset \/ reset' = Trigger(reset),
           \A l \in Launches : ctx'[l].stage = ctx[l].stage
    PROVE  Turn'
<1>1. reset \in {"IDLE", "DONE"} /\ \A l \in Launches : ctx[l].stage # "done"
  BY DEF IInv, Turn
<1> QED
  BY <1>1 DEF Turn, Trigger

\* One launch moves; what the others keep.
LEMMA OthersKeep ==
    ASSUME IInv, NEW l \in Launches, NEW y, ctx' = [ctx EXCEPT ![l] = y]
    PROVE  ctx'[l] = y /\ \A k \in Launches \ {l} : ctx'[k] = ctx[k]
BY DEF IInv, Shape

\* notify_event on the lists: x is the sequencer it starts from.
LEMMA NotifyLists ==
    ASSUME IInv, NEW l \in Launches, NEW n, NEW ok \in BOOLEAN, NEW x \in ContextState, Notify(l, n, ok, x),
           x.queued = ctx[l].queued, x.stage = ctx[l].stage
    PROVE  /\ ctx'[l].flying = x.flying /\ ctx'[l].jobs = x.jobs /\ ctx'[l].stage = x.stage
           /\ \A k \in Launches \ {l} : ctx'[k] = ctx[k]
           /\ QueuePart'
<1>1. CASE ok /\ ~x.faulted
  <2> DEFINE y == [x EXCEPT !.owed = @ \ {n}]
  <2>1. ctx' = [ctx EXCEPT ![l] = y] /\ queue' = queue
    BY <1>1 DEF Notify, NotifyDone
  <2>2. y.flying = x.flying /\ y.jobs = x.jobs /\ y.stage = x.stage /\ y.queued = x.queued
    BY DEF ContextState
  <2> HIDE DEF y
  <2>3. ctx'[l] = y /\ \A k \in Launches \ {l} : ctx'[k] = ctx[k]
    BY <2>1, OthersKeep
  <2>4. \A k \in Launches : ctx'[k].queued = ctx[k].queued
    BY <2>2, <2>3
  <2>5. QueuePart'
    BY <2>1, <2>4, QueueSame
  <2> QED
    BY <2>2, <2>3, <2>5
<1>2. CASE ~(ok /\ ~x.faulted)
  <2> DEFINE w == MarkFault(x)
             y == CancelActions(w)
  <2>1. ctx' = [ctx EXCEPT ![l] = y] /\ queue' = Without(queue, l)
    BY <1>2 DEF Notify, NotifyError
  <2>2. w \in ContextState /\ w.flying = x.flying /\ w.jobs = x.jobs /\ w.stage = x.stage
    BY DEF MarkFault, ContextState
  <2> HIDE DEF w
  <2>3. y.flying = w.flying /\ y.jobs = w.jobs /\ y.stage = w.stage /\ y.queued = {}
    BY <2>2 DEF CancelActions, ContextState
  <2> HIDE DEF y
  <2>4. ctx'[l] = y /\ \A k \in Launches \ {l} : ctx'[k] = ctx[k]
    BY <2>1, OthersKeep
  <2>5. ctx'[l].queued = {} /\ \A k \in Launches \ {l} : ctx'[k].queued = ctx[k].queued
    BY <2>3, <2>4
  <2>6. QueuePart'
    BY <2>1, <2>5, QueueCancel
  <2> QED
    BY <2>2, <2>3, <2>4, <2>6
<1> QED
  BY <1>1, <1>2

\* The same for a fault that signals nothing.
LEMMA FaultLists ==
    ASSUME IInv, NEW l \in Launches, NEW x \in ContextState, queue' = Without(queue, l),
           ctx' = [ctx EXCEPT ![l] = CancelActions(MarkFault(x))]
    PROVE  /\ ctx'[l].flying = x.flying /\ ctx'[l].jobs = x.jobs /\ ctx'[l].stage = x.stage
           /\ \A k \in Launches \ {l} : ctx'[k] = ctx[k]
           /\ QueuePart'
<1> DEFINE w == MarkFault(x)
           y == CancelActions(w)
<1>1. ctx' = [ctx EXCEPT ![l] = y]
  OBVIOUS
<1>2. w \in ContextState /\ w.flying = x.flying /\ w.jobs = x.jobs /\ w.stage = x.stage
  BY DEF MarkFault, ContextState
<1> HIDE DEF w
<1>3. y.flying = w.flying /\ y.jobs = w.jobs /\ y.stage = w.stage /\ y.queued = {}
  BY <1>2 DEF CancelActions, ContextState
<1> HIDE DEF y
<1>4. ctx'[l] = y /\ \A k \in Launches \ {l} : ctx'[k] = ctx[k]
  BY <1>1, OthersKeep
<1>5. ctx'[l].queued = {} /\ \A k \in Launches \ {l} : ctx'[k].queued = ctx[k].queued
  BY <1>3, <1>4
<1>6. QueuePart'
  BY <1>5, QueueCancel
<1> QED
  BY <1>2, <1>3, <1>4, <1>6

-----------------------------------------------------------------------------
(* The steps.                                                              *)

\* An accepted action of r completes: x is its sequencer once it has landed.
LEMMA CompletionStep ==
    ASSUME IInv, NEW r \in inflight, NEW n, NEW ok \in BOOLEAN, NEW x, phase = "arrive", phase' = phase,
           Notify(r[1], n, ok, x), ReturnCredit(r), routes' \subseteq routes \ {r}, control' = control,
           active' = active, registerCursor' = registerCursor, scanCursor' = scanCursor,
           Lands(ctx[r[1]], x, {r[2]}),
           x.jobs = ctx[r[1]].jobs - (IF act(r).op \in Transfers THEN 1 ELSE 0)
    PROVE  QueuePart' /\ FlightPart' /\ ActivePart' /\ Turn'
<1> DEFINE l == r[1]
<1>1. l \in Launches
  BY FlyingFacts
<1>2. x \in ContextState /\ x.queued = ctx[l].queued /\ x.stage = ctx[l].stage /\ x.flying = ctx[l].flying \ {r[2]}
  BY DEF Lands
<1>3. Notify(l, n, ok, x)
  OBVIOUS
<1> HIDE DEF l
<1>4. /\ ctx'[l].flying = x.flying /\ ctx'[l].jobs = x.jobs /\ ctx'[l].stage = x.stage
      /\ \A k \in Launches \ {l} : ctx'[k] = ctx[k]
      /\ QueuePart'
  BY <1>1, <1>2, <1>3, NotifyLists
<1>5. FlightPart'
  <2>1. /\ ctx'[r[1]].flying = ctx[r[1]].flying \ {r[2]}
        /\ ctx'[r[1]].jobs = ctx[r[1]].jobs - (IF act(r).op \in Transfers THEN 1 ELSE 0)
        /\ \A k \in Launches \ {r[1]} : ctx'[k].flying = ctx[k].flying /\ ctx'[k].jobs = ctx[k].jobs
    BY <1>2, <1>4 DEF l
  <2> QED
    BY <2>1, FlightReturn
<1>6. \A k \in Launches : ctx'[k].stage = ctx[k].stage
  BY <1>1, <1>2, <1>4
<1>7. ActivePart'
  <2>1. \A k \in Launches : InUse(ctx'[k]) <=> InUse(ctx[k])
    BY <1>6 DEF InUse
  <2>2. registerCursor' \in Nat /\ scanCursor' \in Nat
    BY DEF IInv, Lists
  <2> QED
    BY <2>1, <2>2, ActiveSame
<1>8. Turn'
  <2>1. \A k \in Launches : ctx'[k].stage # "done"
    BY <1>6 DEF IInv, Turn
  <2> QED
    BY <2>1, TurnArrive
<1> QED
  BY <1>4, <1>5, <1>7, <1>8

\* A transfer or a collective ends.
LEMMA JobStep ==
    ASSUME IInv, NEW r \in inflight, NEW ok \in BOOLEAN, TransferCompletes(r, ok) \/ CollectiveCompletes(r)
    PROVE  IInv'
<1> DEFINE c == ctx[r[1]]
           x == JobDone(c, r[2])
<1>1. PICK b \in BOOLEAN :
         /\ phase = "arrive" /\ act(r).op \in Transfers
         /\ Notify(r[1], Dst(r), b, JobDone(ctx[r[1]], r[2])) /\ ReturnCredit(r)
         /\ quotas' = quotas /\ phase' = phase /\ active' = active /\ control' = control /\ routes' = routes
         /\ registerCursor' = registerCursor /\ scanCursor' = scanCursor
  BY DEF TransferCompletes, CollectiveCompletes, Transfers, cursorVars
<1>2. Shape' /\ AllGood'
  BY <1>1, JobTable
<1>3. ctx[r[1]].jobs \in Nat \ {0} /\ r[1] \in Launches /\ c \in ContextState
  BY <1>1, TransferFacts, FlyingFacts DEF IInv, Shape
<1>4. Lands(c, x, {r[2]})
  BY <1>3, LandsFacts
<1>5. r \notin routes
  BY <1>1 DEF IInv, Lists, Transfers
<1>6. routes' \subseteq routes \ {r}
  BY <1>1, <1>5
<1>7. x.jobs = ctx[r[1]].jobs - (IF act(r).op \in Transfers THEN 1 ELSE 0)
  <2>1. x.jobs = ctx[r[1]].jobs - 1
    BY <1>3 DEF JobDone, Landed, ContextState
  <2> QED
    BY <1>1, <2>1
<1>8. Notify(r[1], Dst(r), b, x)
  BY <1>1
<1>9. QueuePart' /\ FlightPart' /\ ActivePart' /\ Turn'
  <2>1. Lands(ctx[r[1]], x, {r[2]})
    BY <1>4
  <2> HIDE DEF x, c
  <2> QED
    BY <1>1, <1>6, <1>7, <1>8, <2>1, CompletionStep
<1> QED
  BY <1>2, <1>9, Assemble

\* All Tasks of a Grid have retired.
LEMMA GridStep ==
    ASSUME IInv, NEW r \in routes, GridCompletes(r)
    PROVE  IInv'
<1> DEFINE c == ctx[r[1]]
           x == Landed(c, r[2])
<1>1. r \in inflight /\ act(r).op = "dispatch"
  BY DEF IInv, Lists
<1>2. /\ phase = "arrive" /\ Notify(r[1], Dst(r), TRUE, x) /\ ReturnCredit(r)
      /\ quotas' = quotas /\ phase' = phase /\ active' = active /\ control' = control /\ routes' \subseteq routes \ {r}
      /\ registerCursor' = registerCursor /\ scanCursor' = scanCursor
  BY DEF GridCompletes, cursorVars
<1>3. Shape' /\ AllGood'
  BY GridTable
<1>4. r[1] \in Launches /\ c \in ContextState
  BY <1>1, FlyingFacts DEF IInv, Shape
<1>5. Lands(ctx[r[1]], x, {r[2]})
  BY <1>4, LandsFacts
<1>6. x.jobs = ctx[r[1]].jobs - (IF act(r).op \in Transfers THEN 1 ELSE 0)
  <2>1. x.jobs = ctx[r[1]].jobs /\ ctx[r[1]].jobs \in Nat
    BY <1>4 DEF Landed, ContextState
  <2>2. act(r).op \notin Transfers
    BY <1>1 DEF Transfers
  <2> QED
    BY <2>1, <2>2
<1> HIDE DEF x
<1>7. QueuePart' /\ FlightPart' /\ ActivePart' /\ Turn'
  BY <1>1, <1>2, <1>5, <1>6, CompletionStep
<1> QED
  BY <1>3, <1>7, Assemble

\* A step of "arrive" that returns nothing.
LEMMA ArriveStep ==
    ASSUME IInv, NEW l \in Launches, phase = "arrive", phase' = phase, control' = control, routes' \subseteq routes,
           active' = active, UNCHANGED creditVars, UNCHANGED cursorVars, QueuePart',
           ctx'[l].flying = ctx[l].flying, ctx'[l].jobs = ctx[l].jobs, ctx'[l].stage = ctx[l].stage,
           \A k \in Launches \ {l} : ctx'[k] = ctx[k]
    PROVE  FlightPart' /\ ActivePart' /\ Turn'
<1>1. \A k \in Launches : ctx'[k].flying = ctx[k].flying /\ ctx'[k].jobs = ctx[k].jobs /\ ctx'[k].stage = ctx[k].stage
  OBVIOUS
<1>2. FlightPart'
  BY <1>1, FlightSame DEF creditVars
<1>3. ActivePart'
  <2>1. \A k \in Launches : InUse(ctx'[k]) <=> InUse(ctx[k])
    BY <1>1 DEF InUse
  <2>2. registerCursor' \in Nat /\ scanCursor' \in Nat
    BY DEF IInv, Lists, cursorVars
  <2> QED
    BY <2>1, <2>2, ActiveSame
<1>4. Turn'
  <2>1. \A k \in Launches : ctx'[k].stage # "done"
    BY <1>1 DEF IInv, Turn
  <2> QED
    BY <2>1, TurnArrive
<1> QED
  BY <1>2, <1>3, <1>4

\* A Grid signals a phase.
LEMMA PhaseStep ==
    ASSUME IInv, NEW r \in routes, NEW n \in act(r).phases, PhaseSignal(r, n)
    PROVE  IInv'
<1> DEFINE l == r[1]
           x == ctx[l]
<1>1. Shape' /\ AllGood'
  BY PhaseTable
<1>2. l \in Launches /\ x \in ContextState
  BY FlyingFacts DEF IInv, Shape, Lists
<1>3. /\ phase = "arrive" /\ Notify(l, n, TRUE, x)
      /\ phase' = phase /\ active' = active /\ control' = control /\ routes' \subseteq routes
      /\ UNCHANGED creditVars /\ UNCHANGED cursorVars
  BY DEF PhaseSignal
<1>4. x.queued = ctx[l].queued /\ x.stage = ctx[l].stage /\ x.flying = ctx[l].flying /\ x.jobs = ctx[l].jobs
  OBVIOUS
<1> HIDE DEF l, x
<1>5. /\ ctx'[l].flying = x.flying /\ ctx'[l].jobs = x.jobs /\ ctx'[l].stage = x.stage
      /\ \A k \in Launches \ {l} : ctx'[k] = ctx[k]
      /\ QueuePart'
  BY <1>2, <1>3, <1>4, NotifyLists
<1>6. FlightPart' /\ ActivePart' /\ Turn'
  BY <1>2, <1>3, <1>4, <1>5, ArriveStep
<1> QED
  BY <1>1, <1>5, <1>6, Assemble

\* A Grid completes after MARK_EVENTS.
LEMMA LateGridStep ==
    ASSUME IInv, NEW r \in routes, GridCompletesLate(r)
    PROVE  IInv'
<1> DEFINE l == r[1]
           x == ctx[l]
<1>1. Shape' /\ AllGood'
  BY LateGridTable
<1>2. l \in Launches /\ x \in ContextState
  BY FlyingFacts DEF IInv, Shape, Lists
<1>3. /\ phase = "arrive" /\ queue' = Without(queue, l) /\ ctx' = [ctx EXCEPT ![l] = CancelActions(MarkFault(x))]
      /\ phase' = phase /\ active' = active /\ control' = control /\ routes' \subseteq routes
      /\ UNCHANGED creditVars /\ UNCHANGED cursorVars
  BY <1>2 DEF GridCompletesLate, IInv, Shape
<1>4. x.stage = ctx[l].stage /\ x.flying = ctx[l].flying /\ x.jobs = ctx[l].jobs
  OBVIOUS
<1> HIDE DEF l, x
<1>5. /\ ctx'[l].flying = x.flying /\ ctx'[l].jobs = x.jobs /\ ctx'[l].stage = x.stage
      /\ \A k \in Launches \ {l} : ctx'[k] = ctx[k]
      /\ QueuePart'
  BY <1>2, <1>3, FaultLists
<1>6. FlightPart' /\ ActivePart' /\ Turn'
  BY <1>2, <1>3, <1>4, <1>5, ArriveStep
<1> QED
  BY <1>1, <1>5, <1>6, Assemble

\* A Task of a Grid faults.
LEMMA TileFaultStep ==
    ASSUME IInv, NEW r \in routes, TileFault(r)
    PROVE  IInv'
<1> DEFINE l == r[1]
           x == ctx[l]
           y == [MarkFault(x) EXCEPT !.broken = @ \cup {r[2]}]
<1>1. Shape' /\ AllGood'
  BY TileFaultTable
<1>2. l \in Launches /\ x \in ContextState
  BY FlyingFacts DEF IInv, Shape, Lists
<1>3. /\ phase = "arrive" /\ queue' = queue /\ ctx' = [ctx EXCEPT ![l] = y]
      /\ phase' = phase /\ active' = active /\ control' = control /\ routes' \subseteq routes
      /\ UNCHANGED creditVars /\ UNCHANGED cursorVars
  BY DEF TileFault
<1>4. y.stage = x.stage /\ y.flying = x.flying /\ y.jobs = x.jobs /\ y.queued = x.queued
  <2> HIDE DEF x
  <2> QED
    BY <1>2 DEF MarkFault, ContextState
<1> HIDE DEF y, l
<1>5. ctx'[l] = y /\ \A k \in Launches \ {l} : ctx'[k] = ctx[k]
  BY <1>2, <1>3, OthersKeep
<1>6. QueuePart'
  <2>1. \A k \in Launches : ctx'[k].queued = ctx[k].queued
    BY <1>4, <1>5
  <2> QED
    BY <1>3, <2>1, QueueSame
<1>7. FlightPart' /\ ActivePart' /\ Turn'
  <2>1. ctx'[l].flying = ctx[l].flying /\ ctx'[l].jobs = ctx[l].jobs /\ ctx'[l].stage = ctx[l].stage
    BY <1>4, <1>5
  <2> QED
    BY <1>2, <1>3, <1>5, <1>6, <2>1, ArriveStep
<1> QED
  BY <1>1, <1>6, <1>7, Assemble

\* A configuration command ends.
LEMMA ControlStep ==
    ASSUME IInv, NEW r \in control, NEW ok \in BOOLEAN, ControlCompletes(r, ok)
    PROVE  IInv'
<1> DEFINE l == r[1]
           c == ctx[l]
           x == Landed(c, r[2])
<1>1. Shape' /\ AllGood'
  BY ControlTable
<1>2. l \in Launches /\ c \in ContextState /\ r \in AllRecords /\ act(r).op = "control"
  BY FlyingFacts DEF IInv, Shape, Lists
<1>3. /\ phase = "arrive" /\ phase' = phase /\ active' = active /\ control' = control \ {r} /\ routes' = routes
      /\ inflight' = inflight /\ used' = used /\ epochKey' = epochKey /\ epochRefs' = epochRefs
      /\ registerCursor' = registerCursor /\ scanCursor' = scanCursor
  BY DEF ControlCompletes, creditVars, cursorVars
<1>4. /\ x \in ContextState /\ x.stage = c.stage /\ x.flying = c.flying \ {r[2]} /\ x.jobs = c.jobs /\ x.queued = c.queued
  <2> HIDE DEF c
  <2> QED
    BY <1>2 DEF Landed, ContextState
<1>5. /\ ctx'[l].flying = x.flying /\ ctx'[l].jobs = x.jobs /\ ctx'[l].stage = x.stage
      /\ \A k \in Launches \ {l} : ctx'[k] = ctx[k]
      /\ QueuePart'
  <2>1. CASE ok /\ ~c.faulted
    <3>1. ctx' = [ctx EXCEPT ![l] = x] /\ queue' = queue
      BY <2>1 DEF ControlCompletes
    <3> HIDE DEF x, l
    <3>2. ctx'[l] = x /\ \A k \in Launches \ {l} : ctx'[k] = ctx[k]
      BY <1>2, <3>1, OthersKeep
    <3>3. \A k \in Launches : ctx'[k].queued = ctx[k].queued
      BY <1>4, <3>2
    <3> QED
      BY <3>1, <3>2, <3>3, QueueSame
  <2>2. CASE ~(ok /\ ~c.faulted)
    <3>1. ctx' = [ctx EXCEPT ![l] = CancelActions(MarkFault(x))] /\ queue' = Without(queue, l)
      BY <2>2 DEF ControlCompletes
    <3> HIDE DEF x, l
    <3> QED
      BY <1>2, <1>4, <3>1, FaultLists
  <2> QED
    BY <2>1, <2>2
<1>6. FlightPart'
  <2>1. /\ ctx'[r[1]].flying = ctx[r[1]].flying \ {r[2]} /\ ctx'[r[1]].jobs = ctx[r[1]].jobs
        /\ \A k \in Launches \ {r[1]} : ctx'[k].flying = ctx[k].flying /\ ctx'[k].jobs = ctx[k].jobs
    BY <1>4, <1>5
  <2> QED
    BY <1>2, <1>3, <2>1, FlightControl
<1>7. \A k \in Launches : ctx'[k].stage = ctx[k].stage
  <2> HIDE DEF x, l
  <2> QED
    BY <1>4, <1>5
<1>8. ActivePart'
  <2>1. \A k \in Launches : InUse(ctx'[k]) <=> InUse(ctx[k])
    BY <1>7 DEF InUse
  <2>2. registerCursor' \in Nat /\ scanCursor' \in Nat
    BY <1>3 DEF IInv, Lists
  <2> QED
    BY <1>3, <2>1, <2>2, ActiveSame
<1>9. Turn'
  <2>1. \A k \in Launches : ctx'[k].stage # "done"
    BY <1>3, <1>7 DEF IInv, Turn
  <2> QED
    BY <1>3, <2>1, TurnArrive
<1> QED
  BY <1>1, <1>5, <1>6, <1>8, <1>9, Assemble

\* The port admits a Context.
LEMMA AdmitStep ==
    ASSUME IInv, NEW l \in Launches, Admit(l)
    PROVE  IInv'
<1>1. /\ Shape' /\ AllGood' /\ ctx'[l].stage = "active" /\ ctx'[l].queued = {} /\ ctx'[l].flying = {}
      /\ ctx'[l].jobs = 0 /\ \A k \in Launches \ {l} : ctx'[k] = ctx[k]
  BY AdmitTable
<1>2. /\ phase = "arrive" /\ phase' = phase /\ active' = Append(active, l) /\ queue' = queue /\ control' = control
      /\ routes' = routes /\ inflight' = inflight /\ used' = used /\ epochKey' = epochKey /\ epochRefs' = epochRefs
      /\ registerCursor' = registerCursor /\ scanCursor' = scanCursor /\ ctx[l].stage = "new"
  BY DEF Admit, creditVars, cursorVars
<1>3. ctx[l].queued = {} /\ ctx[l].flying = {}
  BY <1>2 DEF IInv, AllGood, Good, Flow, Running
<1>4. ctx[l].jobs = 0
  <2> DEFINE J == Jobs(l, inflight)
  <2>1. ctx[l].jobs = Cardinality(J)
    BY FlightIs DEF FlightPart
  <2>2. ASSUME NEW r \in J PROVE FALSE
    <3>1. r \in inflight /\ r[1] = l
      BY <2>2 DEF Jobs
    <3>2. r[2] \in ctx[r[1]].flying
      BY <3>1, FlyingFacts
    <3> QED
      BY <1>3, <3>1, <3>2
  <2>3. J = {}
    BY <2>2
  <2> QED
    BY <2>1, <2>3, FS_EmptySet
<1>5. QueuePart'
  <2>1. \A k \in Launches : ctx'[k].queued = ctx[k].queued
    BY <1>1, <1>3
  <2> QED
    BY <1>2, <2>1, QueueSame
<1>6. FlightPart'
  <2>1. \A k \in Launches : ctx'[k].flying = ctx[k].flying /\ ctx'[k].jobs = ctx[k].jobs
    BY <1>1, <1>3, <1>4
  <2> QED
    BY <1>2, <2>1, FlightSame
<1>7. ActivePart'
  <2>1. ~InUse(ctx[l]) /\ InUse(ctx'[l])
    BY <1>1, <1>2 DEF InUse
  <2> QED
    BY <1>1, <1>2, <2>1, ActiveAdmit
<1>8. Turn'
  <2>1. \A k \in Launches : ctx'[k].stage # "done"
    BY <1>1, <1>2 DEF IInv, Turn
  <2> QED
    BY <1>2, <2>1, TurnArrive
<1> QED
  BY <1>1, <1>5, <1>6, <1>7, <1>8, Assemble

\* The completions of the tick are in.
LEMMA EndArrivalsStep ==
    ASSUME IInv, EndArrivals
    PROVE  IInv'
<1>1. /\ entries' = entries /\ quotas' = quotas /\ active' = active /\ ctx' = ctx /\ queue' = queue
      /\ control' = control /\ routes' = routes /\ inflight' = inflight /\ used' = used /\ epochKey' = epochKey
      /\ epochRefs' = epochRefs /\ registerCursor' = registerCursor /\ scanCursor' = scanCursor /\ reset' = reset
  BY DEF EndArrivals, tableVars, creditVars, cursorVars
<1>2. Shape' /\ AllGood'
  BY <1>1 DEF IInv, Shape, AllGood
<1>3. QueuePart'
  BY <1>1, QueueSame
<1>4. FlightPart'
  BY <1>1, FlightSame
<1>5. ActivePart'
  <2>1. registerCursor' \in Nat /\ scanCursor' \in Nat
    BY <1>1 DEF IInv, Lists
  <2> QED
    BY <1>1, <2>1, ActiveSame
<1>6. Turn'
  BY <1>1 DEF IInv, Turn, EndArrivals, ResetActive
<1> QED
  BY <1>2, <1>3, <1>4, <1>5, <1>6, Assemble

\* The action of r leaves the queue: y is its sequencer afterwards.
LEMMA IssuedLists ==
    ASSUME IInv, phase = "issue", phase' = "register", NEW r \in Members(queue), queue' = Dequeue(r),
           scanCursor' = ScanCursorAfter, registerCursor' = registerCursor, active' = active, reset' = reset,
           NEW y, ctx' = [ctx EXCEPT ![r[1]] = y],
           y.queued = ctx[r[1]].queued \ {r[2]}, y.stage = ctx[r[1]].stage
    PROVE  /\ ctx'[r[1]] = y /\ \A k \in Launches \ {r[1]} : ctx'[k] = ctx[k]
           /\ QueuePart' /\ ActivePart' /\ Turn'
<1>1. r[1] \in Launches
  BY QueuedFacts
<1>2. ctx'[r[1]] = y /\ \A k \in Launches \ {r[1]} : ctx'[k] = ctx[k]
  BY <1>1, OthersKeep
<1>3. QueuePart'
  BY <1>2, QueueIssue
<1>4. \A k \in Launches : ctx'[k].stage = ctx[k].stage
  BY <1>2
<1>5. ActivePart'
  <2>1. \A k \in Launches : InUse(ctx'[k]) <=> InUse(ctx[k])
    BY <1>4 DEF InUse
  <2>2. queue # <<>>
    BY DEF Members
  <2>3. registerCursor' \in Nat /\ scanCursor' \in Nat
    BY <2>2, ScannedFacts DEF IInv, Lists
  <2> QED
    BY <2>1, <2>3, ActiveSame
<1>6. Turn'
  BY <1>4, TurnIssue
<1> QED
  BY <1>2, <1>3, <1>5, <1>6

\* A synchronous action is issued and completes.
LEMMA SyncStep ==
    ASSUME IInv, phase = "issue", phase' = "register", NEW r \in Members(queue), Eligible(r), IssueSync(r),
           queue' = Dequeue(r), scanCursor' = ScanCursorAfter, registerCursor' = registerCursor, active' = active,
           quotas' = quotas, reset' = reset
    PROVE  IInv'
<1> DEFINE c == ctx[r[1]]
           y == [Landed([c EXCEPT !.queued = @ \ {r[2]}], r[2]) EXCEPT !.arena = IF act(r).op = "signal" THEN FALSE ELSE @]
<1>1. Shape' /\ AllGood'
  BY SyncTable
<1>2. c \in ContextState /\ r[2] \notin c.flying
  BY IssueFacts
<1>3. ctx' = [ctx EXCEPT ![r[1]] = y]
  BY DEF IssueSync
<1>4. y.queued = c.queued \ {r[2]} /\ y.stage = c.stage /\ y.flying = c.flying /\ y.jobs = c.jobs
  <2> HIDE DEF c
  <2>1. y.queued = c.queued \ {r[2]} /\ y.stage = c.stage /\ y.flying = c.flying \ {r[2]} /\ y.jobs = c.jobs
    BY <1>2 DEF Landed, ContextState
  <2> QED
    BY <1>2, <2>1
<1>5. /\ inflight' = inflight /\ control' = control /\ routes' = routes /\ used' = used
      /\ epochKey' = epochKey /\ epochRefs' = epochRefs
  BY DEF IssueSync, creditVars
<1> HIDE DEF y
<1>6. /\ ctx'[r[1]] = y /\ \A k \in Launches \ {r[1]} : ctx'[k] = ctx[k]
      /\ QueuePart' /\ ActivePart' /\ Turn'
  BY <1>3, <1>4, IssuedLists
<1>7. FlightPart'
  <2>1. \A k \in Launches : ctx'[k].flying = ctx[k].flying /\ ctx'[k].jobs = ctx[k].jobs
    BY <1>4, <1>6
  <2> QED
    BY <1>5, <2>1, FlightSame
<1> QED
  BY <1>1, <1>6, <1>7, Assemble

\* A transfer, a collective or a dispatch is accepted.
LEMMA AsyncStep ==
    ASSUME IInv, phase = "issue", phase' = "register", NEW r \in Members(queue), Eligible(r), IssueAsync(r),
           queue' = Dequeue(r), scanCursor' = ScanCursorAfter, registerCursor' = registerCursor, active' = active,
           quotas' = quotas, reset' = reset
    PROVE  IInv'
<1> DEFINE c == ctx[r[1]]
           x == Issued(c, r[2])
           y == IF act(r).op = "dispatch" THEN [x EXCEPT !.owed = @ \cup Outputs(act(r))] ELSE JobStarted(x)
<1>1. Shape' /\ AllGood'
  BY AsyncTable
<1>2. c \in ContextState
  BY IssueFacts
<1>3. /\ ctx' = [ctx EXCEPT ![r[1]] = y] /\ act(r).op \in Async
      /\ act(r).op = "dispatch" => routes' = routes \cup {r} /\ AcquireEpoch(r)
      /\ act(r).op # "dispatch" => routes' = routes /\ epochKey' = epochKey /\ epochRefs' = epochRefs
      /\ inflight' = inflight \cup {r} /\ control' = control
      /\ used' = IF act(r).op \in Adapters THEN [used EXCEPT ![act(r).op] = @ + 1] ELSE used
  BY DEF IssueAsync
<1>4. /\ y.queued = c.queued \ {r[2]} /\ y.stage = c.stage /\ y.flying = c.flying \cup {r[2]}
      /\ y.jobs = IF act(r).op \in Transfers THEN c.jobs + 1 ELSE c.jobs
  <2> HIDE DEF c
  <2>1. /\ x \in ContextState /\ x.queued = c.queued \ {r[2]} /\ x.stage = c.stage
        /\ x.flying = c.flying \cup {r[2]} /\ x.jobs = c.jobs
    <3>1. r[2] \in Nat
      BY IssueFacts
    <3> QED
      BY <1>2, <3>1 DEF Issued, ContextState
  <2> HIDE DEF x
  <2>2. CASE act(r).op = "dispatch"
    <3>1. act(r).op \notin Transfers /\ y = [x EXCEPT !.owed = @ \cup Outputs(act(r))]
      BY <2>2 DEF Transfers
    <3> QED
      BY <2>1, <3>1 DEF ContextState
  <2>3. CASE act(r).op # "dispatch"
    <3>1. act(r).op \in Transfers /\ y = JobStarted(x)
      BY <1>3, <2>3 DEF Transfers, Async, Adapters
    <3> QED
      BY <2>1, <3>1 DEF JobStarted, ContextState
  <2> QED
    BY <2>2, <2>3
<1> HIDE DEF y
<1>5. /\ ctx'[r[1]] = y /\ \A k \in Launches \ {r[1]} : ctx'[k] = ctx[k]
      /\ QueuePart' /\ ActivePart' /\ Turn'
  BY <1>3, <1>4, IssuedLists
<1>6. FlightPart'
  <2>1. /\ ctx'[r[1]].flying = ctx[r[1]].flying \cup {r[2]}
        /\ ctx'[r[1]].jobs = (IF act(r).op \in Transfers THEN ctx[r[1]].jobs + 1 ELSE ctx[r[1]].jobs)
        /\ \A k \in Launches \ {r[1]} : ctx'[k].flying = ctx[k].flying /\ ctx'[k].jobs = ctx[k].jobs
    BY <1>4, <1>5
  <2> QED
    BY <1>3, <2>1, FlightIssue
<1> QED
  BY <1>1, <1>5, <1>6, Assemble

\* A configuration command is accepted.
LEMMA ControlIssueStep ==
    ASSUME IInv, phase = "issue", phase' = "register", NEW r \in Members(queue), Eligible(r), IssueControl(r),
           queue' = Dequeue(r), scanCursor' = ScanCursorAfter, registerCursor' = registerCursor, active' = active,
           quotas' = quotas, reset' = reset
    PROVE  IInv'
<1> DEFINE c == ctx[r[1]]
           y == Issued(c, r[2])
<1>1. Shape' /\ AllGood'
  BY ControlIssueTable
<1>2. c \in ContextState /\ r[2] \in Nat /\ r \in AllRecords /\ r[1] \in Launches
  BY IssueFacts, QueuedFacts
<1>3. /\ ctx' = [ctx EXCEPT ![r[1]] = y] /\ act(r).op = "control" /\ control' = control \cup {r}
      /\ inflight' = inflight /\ routes' = routes /\ used' = used /\ epochKey' = epochKey /\ epochRefs' = epochRefs
  BY <1>2 DEF IssueControl, creditVars, IInv, Shape
<1>4. y.queued = c.queued \ {r[2]} /\ y.stage = c.stage /\ y.flying = c.flying \cup {r[2]} /\ y.jobs = c.jobs
  <2> HIDE DEF c
  <2> QED
    BY <1>2 DEF Issued, ContextState
<1> HIDE DEF y
<1>5. /\ ctx'[r[1]] = y /\ \A k \in Launches \ {r[1]} : ctx'[k] = ctx[k]
      /\ QueuePart' /\ ActivePart' /\ Turn'
  BY <1>3, <1>4, IssuedLists
<1>6. FlightPart'
  <2>1. /\ ctx'[r[1]].flying = ctx[r[1]].flying \cup {r[2]} /\ ctx'[r[1]].jobs = ctx[r[1]].jobs
        /\ \A k \in Launches \ {r[1]} : ctx'[k].flying = ctx[k].flying /\ ctx'[k].jobs = ctx[k].jobs
    BY <1>4, <1>5
  <2> QED
    BY <1>2, <1>3, <2>1, FlightControl
<1> QED
  BY <1>1, <1>5, <1>6, Assemble

\* One record of the window is issued.
LEMMA IssueOneStep ==
    ASSUME IInv, NEW k \in 1 .. Len(Scanned), IssueOne(k)
    PROVE  IInv'
<1> DEFINE r == Scanned[k]
<1>1. r \in Members(queue)
  BY ScannedFacts
<1>2. /\ phase = "issue" /\ Eligible(r) /\ (IssueSync(r) \/ IssueAsync(r) \/ IssueControl(r))
      /\ queue' = Dequeue(r) /\ scanCursor' = ScanCursorAfter /\ phase' = "register"
      /\ quotas' = quotas /\ active' = active /\ registerCursor' = registerCursor /\ reset' = reset
  BY DEF IssueOne
<1> HIDE DEF r
<1>3. CASE IssueSync(r)
  BY <1>1, <1>2, <1>3, SyncStep
<1>4. CASE IssueAsync(r)
  BY <1>1, <1>2, <1>4, AsyncStep
<1>5. CASE IssueControl(r)
  BY <1>1, <1>2, <1>5, ControlIssueStep
<1> QED
  BY <1>2, <1>3, <1>4, <1>5

\* An issue faults.
LEMMA IssueFaultsStep ==
    ASSUME IInv, NEW k \in 1 .. Len(Scanned), IssueFaults(k)
    PROVE  IInv'
<1> DEFINE r == Scanned[k]
           l == r[1]
           x == ctx[l]
<1>1. r \in Members(queue) /\ Shape' /\ AllGood'
  BY ScannedFacts, IssueFaultTable
<1>2. l \in Launches /\ x \in ContextState
  BY <1>1, QueuedFacts DEF IInv, Shape
<1>3. /\ phase = "issue" /\ queue' = Without(queue, l) /\ ctx' = [ctx EXCEPT ![l] = CancelActions(MarkFault(x))]
      /\ reset' = Trigger(reset) /\ scanCursor' = ScanCursorAfter /\ phase' = "register"
      /\ active' = active /\ control' = control /\ routes' = routes /\ inflight' = inflight /\ used' = used
      /\ epochKey' = epochKey /\ epochRefs' = epochRefs /\ registerCursor' = registerCursor
  BY <1>2 DEF IssueFaults, creditVars, IInv, Shape
<1>4. queue # <<>>
  BY <1>1 DEF Members
<1> HIDE DEF r, l
<1>5. /\ ctx'[l].flying = x.flying /\ ctx'[l].jobs = x.jobs /\ ctx'[l].stage = x.stage
      /\ \A j \in Launches \ {l} : ctx'[j] = ctx[j]
      /\ QueuePart'
  BY <1>2, <1>3, FaultLists
<1>6. \A j \in Launches : ctx'[j].flying = ctx[j].flying /\ ctx'[j].jobs = ctx[j].jobs /\ ctx'[j].stage = ctx[j].stage
  BY <1>5
<1>7. FlightPart'
  BY <1>3, <1>6, FlightSame
<1>8. ActivePart'
  <2>1. \A j \in Launches : InUse(ctx'[j]) <=> InUse(ctx[j])
    BY <1>6 DEF InUse
  <2>2. registerCursor' \in Nat /\ scanCursor' \in Nat
    BY <1>3, <1>4, ScannedFacts DEF IInv, Lists
  <2> QED
    BY <1>3, <2>1, <2>2, ActiveSame
<1>9. Turn'
  BY <1>3, <1>6, TurnIssue
<1> QED
  BY <1>1, <1>5, <1>7, <1>8, <1>9, Assemble

\* A step of the tick that moves a cursor and the phase only.
LEMMA PassStep ==
    ASSUME IInv, entries' = entries, quotas' = quotas, active' = active, ctx' = ctx, queue' = queue,
           control' = control, routes' = routes, inflight' = inflight, used' = used, epochKey' = epochKey,
           epochRefs' = epochRefs, reset' = reset, registerCursor' \in Nat, scanCursor' \in Nat, Turn'
    PROVE  IInv'
<1>1. Shape' /\ AllGood'
  BY DEF IInv, Shape, AllGood
<1>2. QueuePart'
  BY QueueSame
<1>3. FlightPart'
  BY FlightSame
<1>4. ActivePart'
  BY ActiveSame
<1> QED
  BY <1>1, <1>2, <1>3, <1>4, Assemble

\* Nothing is issued; the scan cursor may move.
LEMMA IssueNothingStep ==
    ASSUME IInv, IssueNothing
    PROVE  IInv'
<1>1. /\ phase = "issue" /\ phase' = "register"
      /\ entries' = entries /\ quotas' = quotas /\ active' = active /\ ctx' = ctx /\ queue' = queue
      /\ control' = control /\ routes' = routes /\ inflight' = inflight /\ used' = used /\ epochKey' = epochKey
      /\ epochRefs' = epochRefs /\ registerCursor' = registerCursor /\ reset' = reset
      /\ scanCursor' = IF queue = <<>> THEN scanCursor ELSE ScanCursorAfter
  BY DEF IssueNothing, tableVars, creditVars
<1>2. registerCursor' \in Nat /\ scanCursor' \in Nat
  BY <1>1, ScannedFacts DEF IInv, Lists
<1>3. Turn'
  BY <1>1, TurnIssue
<1> QED
  BY <1>1, <1>2, <1>3, PassStep

\* One action is registered.
LEMMA RegisterOneStep ==
    ASSUME IInv, NEW k \in 0 .. Len(Registrable) - 1, RegisterOne(k)
    PROVE  IInv'
<1> DEFINE l == Candidate(k)
           i == ctx[l].pc
           y == Registered(l)
<1>1. Shape' /\ AllGood'
  BY RegisterTable
<1>2. l \in Launches /\ CanRegister(l)
  <2>1. l \in Members(Registrable)
    BY RegistrableFacts
  <2>2. l \in Members(active) /\ CanRegister(l)
    BY <2>1, RegistrableFacts
  <2>3. l \in Launches
    BY <2>2, MembersFacts DEF IInv, Lists
  <2> QED
    BY <2>2, <2>3
<1>3. /\ phase = "register" /\ phase' = "finish" /\ Len(queue) < ActionCapacity /\ UnderQuota(l)
      /\ queue' = Append(queue, <<l, i>>) /\ ctx' = [ctx EXCEPT ![l] = y]
      /\ registerCursor' = (((registerCursor % Len(Registrable)) + k) % Len(Registrable)) + 1
      /\ active' = active /\ control' = control /\ routes' = routes /\ inflight' = inflight /\ used' = used
      /\ epochKey' = epochKey /\ epochRefs' = epochRefs /\ scanCursor' = scanCursor /\ reset' = reset
  BY DEF RegisterOne, creditVars
<1>4. /\ i \in 1 .. Size(l) /\ i \notin ctx[l].queued /\ y.stage = ctx[l].stage
      /\ y.queued = ctx[l].queued \cup {i} /\ y.flying = ctx[l].flying /\ y.jobs = ctx[l].jobs
  BY <1>2, RegisteredFacts
<1>5. registerCursor' \in Nat /\ scanCursor' \in Nat
  <2> DEFINE m == Len(Registrable)
             a == registerCursor % m
  <2>1. m \in Nat /\ m > 0 /\ k \in Nat /\ registerCursor \in Nat /\ scanCursor \in Nat
    BY RegistrableFacts DEF IInv, Lists
  <2>2. registerCursor' = ((a + k) % m) + 1
    BY <1>3
  <2> HIDE DEF m
  <2>3. a \in Nat
    BY <2>1
  <2> HIDE DEF a
  <2>4. a + k \in Nat
    BY <2>1, <2>3
  <2>5. (a + k) % m \in Nat
    BY <2>1, <2>4
  <2> QED
    BY <1>3, <2>1, <2>2, <2>5
<1> HIDE DEF y, l
<1>6. ctx'[l] = y /\ \A j \in Launches \ {l} : ctx'[j] = ctx[j]
  BY <1>2, <1>3, OthersKeep
<1>7. QueuePart'
  <2>1. ctx'[l].queued = ctx[l].queued \cup {i} /\ \A j \in Launches \ {l} : ctx'[j].queued = ctx[j].queued
    BY <1>4, <1>6
  <2> HIDE DEF i
  <2> QED
    BY <1>2, <1>3, <1>4, <2>1, QueueRegister
<1>8. \A j \in Launches : ctx'[j].flying = ctx[j].flying /\ ctx'[j].jobs = ctx[j].jobs /\ ctx'[j].stage = ctx[j].stage
  BY <1>4, <1>6
<1>9. FlightPart'
  BY <1>3, <1>8, FlightSame
<1>10. ActivePart'
  <2>1. \A j \in Launches : InUse(ctx'[j]) <=> InUse(ctx[j])
    BY <1>8 DEF InUse
  <2> QED
    BY <1>3, <1>5, <2>1, ActiveSame
<1>11. Turn'
  BY <1>3, <1>8 DEF IInv, Turn
<1> QED
  BY <1>1, <1>7, <1>9, <1>10, <1>11, Assemble

\* Nothing is registered; the register cursor may move.
LEMMA RegisterNothingStep ==
    ASSUME IInv, RegisterNothing
    PROVE  IInv'
<1>1. /\ phase = "register" /\ phase' = "finish"
      /\ entries' = entries /\ quotas' = quotas /\ active' = active /\ ctx' = ctx /\ queue' = queue
      /\ control' = control /\ routes' = routes /\ inflight' = inflight /\ used' = used /\ epochKey' = epochKey
      /\ epochRefs' = epochRefs /\ scanCursor' = scanCursor /\ reset' = reset
      /\ \/ registerCursor' = registerCursor
         \/ Registrable # <<>> /\ registerCursor' = (registerCursor % Len(Registrable)) + 1
  BY DEF RegisterNothing, tableVars, creditVars
<1>2. registerCursor' \in Nat /\ scanCursor' \in Nat
  <2>1. registerCursor \in Nat /\ scanCursor \in Nat
    BY DEF IInv, Lists
  <2>2. ASSUME Registrable # <<>> PROVE (registerCursor % Len(Registrable)) + 1 \in Nat
    <3>1. Len(Registrable) \in Nat /\ Len(Registrable) > 0
      BY <2>2, RegistrableFacts
    <3> QED
      BY <2>1, <3>1
  <2> QED
    BY <1>1, <2>1, <2>2
<1>3. Turn'
  BY <1>1 DEF IInv, Turn
<1> QED
  BY <1>1, <1>2, <1>3, PassStep

\* Contexts are declared done.
LEMMA FinishStep ==
    ASSUME IInv, Finish
    PROVE  IInv'
<1>1. /\ Shape' /\ AllGood'
      /\ \A l \in Launches : /\ InUse(ctx'[l]) <=> InUse(ctx[l])
                             /\ ctx'[l].queued = ctx[l].queued /\ ctx'[l].flying = ctx[l].flying
                             /\ ctx'[l].jobs = ctx[l].jobs
  BY FinishTable
<1>2. /\ phase' = "close" /\ active' = active /\ queue' = queue /\ control' = control /\ routes' = routes
      /\ inflight' = inflight /\ used' = used /\ epochKey' = epochKey /\ epochRefs' = epochRefs
      /\ registerCursor' = registerCursor /\ scanCursor' = scanCursor
  BY DEF Finish, creditVars, cursorVars
<1>3. QueuePart'
  BY <1>1, <1>2, QueueSame
<1>4. FlightPart'
  BY <1>1, <1>2, FlightSame
<1>5. ActivePart'
  <2>1. registerCursor' \in Nat /\ scanCursor' \in Nat
    BY <1>2 DEF IInv, Lists
  <2> QED
    BY <1>1, <1>2, <2>1, ActiveSame
<1>6. Turn'
  BY <1>2 DEF Turn
<1> QED
  BY <1>1, <1>3, <1>4, <1>5, <1>6, Assemble

\* The end of a tick with c the sequencers before retirement.
LEMMA ClosesStep ==
    ASSUME IInv, NEW c, Closes(c), phase' = "arrive", UNCHANGED cursorVars
    PROVE  ActivePart' /\ Turn'
<1>1. registerCursor' \in Nat /\ scanCursor' \in Nat
  BY DEF IInv, Lists, cursorVars
<1>2. ActivePart'
  BY <1>1 DEF ActivePart, Closes
<1>3. Turn'
  BY DEF Turn, Closes
<1> QED
  BY <1>2, <1>3

\* A tick ends, with or without MARK_EVENTS.
LEMMA CloseStep ==
    ASSUME IInv, Close \/ CloseMarkEvents
    PROVE  IInv'
<1>1. Shape' /\ AllGood' /\ Closes(ctx)
  BY CloseTable, MarkTable
<1>2. /\ phase' = "arrive" /\ queue' = queue /\ control' = control /\ routes' = routes
      /\ inflight' = inflight /\ used' = used /\ epochKey' = epochKey /\ epochRefs' = epochRefs
      /\ UNCHANGED cursorVars
  BY DEF Close, CloseMarkEvents, creditVars
<1>3. \A l \in Launches : /\ ctx'[l].queued = ctx[l].queued /\ ctx'[l].flying = ctx[l].flying
                          /\ ctx'[l].jobs = ctx[l].jobs
  BY <1>1 DEF Closes
<1>4. QueuePart'
  BY <1>2, <1>3, QueueSame
<1>5. FlightPart'
  BY <1>2, <1>3, FlightSame
<1>6. ActivePart' /\ Turn'
  BY <1>1, <1>2, ClosesStep
<1> QED
  BY <1>1, <1>4, <1>5, <1>6, Assemble

\* A tick ends with RESET_DOMAIN.
LEMMA CloseResetDomainStep ==
    ASSUME IInv, CloseResetDomain
    PROVE  IInv'
<1>1. /\ Shape' /\ AllGood' /\ Closes(Aborted)
      /\ \A l \in Launches : Aborted[l].queued = {} /\ Aborted[l].flying = {} /\ control = {}
      /\ \A l \in Launches : Aborted[l].jobs = 0
  BY ResetDomainTable
<1>2. /\ phase' = "arrive" /\ queue' = <<>> /\ AbortInflight /\ routes' = {} /\ control' = control
      /\ UNCHANGED cursorVars
  BY DEF CloseResetDomain
<1>3. control = {}
  <2> SUFFICES ASSUME NEW r \in control PROVE FALSE
    OBVIOUS
  <2>1. r[1] \in Launches
    BY FlyingFacts
  <2> QED
    BY <1>1, <2>1
<1>4. \A l \in Launches : ctx'[l].queued = {} /\ ctx'[l].flying = {} /\ ctx'[l].jobs = 0
  BY <1>1 DEF Closes
<1>5. QueuePart'
  BY <1>2, <1>4, QueueEmpty
<1>6. FlightPart'
  BY <1>2, <1>3, <1>4, FlightAbort
<1>7. ActivePart' /\ Turn'
  BY <1>1, <1>2, ClosesStep
<1> QED
  BY <1>1, <1>5, <1>6, <1>7, Assemble

-----------------------------------------------------------------------------
(* The invariant is inductive.                                             *)

\* A launch that was never admitted is good.
LEMMA NewGood ==
    ASSUME NEW l \in Launches
    PROVE  Good(l, EmptyEntries, NoQuota, NewContext, "IDLE") /\ NewContext \in ContextState
<1> DEFINE e == EmptyEntries
           x == NewContext
<1>1. \A n \in Own(l) : e[n] = NoEntry
  BY ProgramFacts DEF EmptyEntries
<1>2. /\ x \in ContextState /\ x.stage = "new" /\ x.pc = 1 /\ x.fence = 0 /\ x.queued = {} /\ x.flying = {}
      /\ x.broken = {} /\ ~x.faulted /\ ~x.closed
  BY DEF NewContext, ContextState
<1> HIDE DEF x, e
<1>3. Running(x) = {} /\ ~InUse(x)
  BY <1>2 DEF Running, InUse
<1>4. Flow(l, x) /\ FencesKept(l, x)
  BY <1>2, <1>3, ProgramFacts DEF Flow, FencesKept
<1>5. Booked(l, e, x.queued)
  <2>1. \A n : Cardinality(Pins(l, n, {})) = 0
    <3> TAKE n
    <3>1. Pins(l, n, {}) = {}
      BY DEF Pins
    <3> QED
      BY <3>1, FS_EmptySet
  <2> QED
    BY <1>1, <1>2, <2>1, NoEntryFacts DEF Booked
<1>6. Produced(l, e, x) /\ StatusTrue(l, e, x, "IDLE")
  BY <1>1, <1>2, <1>3, NoEntryFacts DEF Produced, StatusTrue, Late
<1>7. UsesTrue(l, e, x, "IDLE")
  <2>1. \A n \in Own(l) : ~(Made(l, n) < 1) /\ e[n].status \notin Terminal
    BY <1>1, MadeFacts, ProgramFacts, NoEntryFacts DEF Terminal
  <2> QED
    BY <1>2, <2>1 DEF UsesTrue
<1>8. QuotaTrue(l, NoQuota, x)
  BY <1>3 DEF QuotaTrue
<1>9. KnownTrue(l, e, x)
  BY <1>2 DEF KnownTrue
<1>10. SlotsTrue(l, e, x)
  BY <1>1, NoEntryFacts DEF SlotsTrue
<1>11. ResetTrue(l, x, "IDLE")
  BY <1>2, <1>3 DEF ResetTrue, Late
<1>12. Good(l, e, NoQuota, x, "IDLE")
  BY <1>4, <1>5, <1>6, <1>7, <1>8, <1>9, <1>10, <1>11 DEF Good
<1> QED
  BY <1>2, <1>12 DEF e, x

\* The invariant holds initially.
LEMMA InitStep ==
    ASSUME Init
    PROVE  IInv
<1>1. Shape
  <2>1. entries \in [Names -> EventEntry] /\ \A n \in Names : entries[n] = NoEntry
    BY NoEntryFacts DEF Init, EmptyEntries
  <2>2. quotas \in [Launches -> Quota]
    BY DEF Init, EmptyQuotas, NoQuota, Quota
  <2>3. ctx \in [Launches -> ContextState]
    BY NewGood DEF Init
  <2> QED
    BY <2>1, <2>2, <2>3 DEF Shape, Init, ResetStates
<1>2. AllGood
  <2> SUFFICES ASSUME NEW l \in Launches PROVE Good(l, entries, quotas[l], ctx[l], reset)
    BY DEF AllGood
  <2>1. entries = EmptyEntries /\ quotas[l] = NoQuota /\ ctx[l] = NewContext /\ reset = "IDLE"
    BY DEF Init, EmptyQuotas
  <2> QED
    BY <2>1, NewGood
<1>3. \A l \in Launches : ctx[l].queued = {} /\ ctx[l].flying = {} /\ ctx[l].jobs = 0 /\ ctx[l].stage = "new"
  BY DEF Init, NewContext
<1>4. active = <<>> /\ queue = <<>> /\ inflight = {} /\ control = {} /\ routes = {}
  BY DEF Init
<1>5. Lists
  <2>1. active \in Seq(Launches) /\ queue \in Seq(AllRecords) /\ Distinct(active) /\ Distinct(queue)
    BY <1>4 DEF Distinct
  <2>2. \A l \in Launches : l \notin Members(active) /\ ~InUse(ctx[l])
    BY <1>3, <1>4 DEF Members, InUse
  <2>3. IsFiniteSet(inflight)
    BY <1>4, FS_EmptySet
  <2>4. registerCursor \in Nat /\ scanCursor \in Nat
    BY DEF Init
  <2> QED
    BY <1>4, <2>1, <2>2, <2>3, <2>4 DEF Lists
<1>6. Turn
  BY <1>3 DEF Turn, Init
<1>7. OwnersAgree
  <2>1. Len(queue) <= ActionCapacity /\ Members(queue) = {}
    BY <1>4, ConfigFacts DEF Members
  <2> SUFFICES ASSUME NEW l \in Launches
               PROVE  /\ Cardinality(ctx[l].queued) <= ContextQuota
                      /\ ctx[l].queued = {i \in 1 .. Len(Programs[l]) : <<l, i>> \in Members(queue)}
                      /\ ctx[l].flying = {i \in 1 .. Len(Programs[l]) : <<l, i>> \in inflight \cup control}
                      /\ ctx[l].jobs = Cardinality({r \in inflight : r[1] = l /\ act(r).op \in Transfers})
    BY <2>1 DEF OwnersAgree
  <2>2. Cardinality(ctx[l].queued) <= ContextQuota
    BY <1>3, ConfigFacts, FS_EmptySet
  <2>3. ctx[l].queued = {i \in 1 .. Len(Programs[l]) : <<l, i>> \in Members(queue)}
    BY <1>3, <2>1
  <2>4. ctx[l].flying = {i \in 1 .. Len(Programs[l]) : <<l, i>> \in inflight \cup control}
    BY <1>3, <1>4
  <2>5. {r \in inflight : r[1] = l /\ act(r).op \in Transfers} = {}
    BY <1>4
  <2> QED
    BY <1>3, <2>2, <2>3, <2>4, <2>5, FS_EmptySet
<1>8. Credits
  <2>1. \A a : On(a, inflight) = {}
    BY <1>4 DEF On
  <2>2. Cardinality({}) = 0
    BY FS_EmptySet
  <2>3. used \in [Adapters -> Nat] /\ epochRefs = 0 /\ epochKey = NoKey /\ \A a \in Adapters : used[a] = 0
    BY DEF Init
  <2>4. \A a \in Adapters : used[a] = Cardinality(On(a, inflight)) /\ used[a] <= AdapterCapacity[a]
    BY <2>1, <2>2, <2>3, ConfigFacts
  <2>5. Cardinality(inflight) <= InflightCapacity
    BY <1>4, <2>2, ConfigFacts
  <2> QED
    BY <2>1, <2>2, <2>3, <2>4, <2>5, CreditsAre
<1> QED
  BY <1>1, <1>2, <1>5, <1>6, <1>7, <1>8 DEF IInv

\* Every completion and admission preserves the invariant.
LEMMA ArrivalStep ==
    ASSUME IInv, Arrival
    PROVE  IInv'
<1>1. ASSUME NEW r \in inflight, NEW ok \in BOOLEAN, TransferCompletes(r, ok) \/ CollectiveCompletes(r) PROVE IInv'
  BY <1>1, JobStep
<1>2. ASSUME NEW r \in routes, NEW n \in act(r).phases, PhaseSignal(r, n) PROVE IInv'
  BY <1>2, PhaseStep
<1>3. ASSUME NEW r \in routes, GridCompletes(r) PROVE IInv'
  BY <1>3, GridStep
<1>4. ASSUME NEW r \in routes, GridCompletesLate(r) PROVE IInv'
  BY <1>4, LateGridStep
<1>5. ASSUME NEW r \in routes, TileFault(r) PROVE IInv'
  BY <1>5, TileFaultStep
<1>6. ASSUME NEW r \in control, NEW ok \in BOOLEAN, ControlCompletes(r, ok) PROVE IInv'
  BY <1>6, ControlStep
<1>7. ASSUME NEW l \in Launches, Admit(l) PROVE IInv'
  BY <1>7, AdmitStep
<1> QED
  BY <1>1, <1>2, <1>3, <1>4, <1>5, <1>6, <1>7, Zenon DEF Arrival

\* So does every other step of the tick.
LEMMA TickStep ==
    ASSUME IInv, Tick
    PROVE  IInv'
<1>1. ASSUME NEW k \in 1 .. Len(Scanned), IssueOne(k) PROVE IInv'
  BY <1>1, IssueOneStep
<1>2. ASSUME NEW k \in 1 .. Len(Scanned), IssueFaults(k) PROVE IInv'
  BY <1>2, IssueFaultsStep
<1>3. ASSUME NEW k \in 0 .. Len(Registrable) - 1, RegisterOne(k) PROVE IInv'
  BY <1>3, RegisterOneStep
<1> QED
  BY <1>1, <1>2, <1>3, EndArrivalsStep, IssueNothingStep, RegisterNothingStep, FinishStep, CloseStep,
     CloseResetDomainStep, Zenon DEF Tick

\* So does a stuttering step.
LEMMA StutterStep ==
    ASSUME IInv, UNCHANGED vars
    PROVE  IInv'
<1>1. /\ entries' = entries /\ quotas' = quotas /\ phase' = phase /\ active' = active /\ ctx' = ctx /\ queue' = queue
      /\ control' = control /\ routes' = routes /\ inflight' = inflight /\ used' = used /\ epochKey' = epochKey
      /\ epochRefs' = epochRefs /\ registerCursor' = registerCursor /\ scanCursor' = scanCursor /\ reset' = reset
  BY DEF vars
<1>2. Turn' /\ registerCursor' \in Nat /\ scanCursor' \in Nat
  BY <1>1 DEF IInv, Turn, Lists
<1> QED
  BY <1>1, <1>2, PassStep

\* The scheduler's inductive invariant holds in every reachable state of every
\* Group: the table, the sequencers and the lists describe one and the same run.
THEOREM SchedulerInvariant == Spec => []IInv
<1>1. Init => IInv
  BY InitStep
<1>2. IInv /\ [Next]_vars => IInv'
  <2> SUFFICES ASSUME IInv, [Next]_vars PROVE IInv'
    OBVIOUS
  <2>1. CASE Arrival
    BY <2>1, ArrivalStep
  <2>2. CASE Tick
    BY <2>2, TickStep
  <2>3. CASE UNCHANGED vars
    BY <2>3, StutterStep
  <2> QED
    BY <2>1, <2>2, <2>3 DEF Next
<1> QED
  BY <1>1, <1>2, PTL DEF Spec

-----------------------------------------------------------------------------
(* What the invariant says.                                                *)

\* Every variable has its type.
LEMMA TypeFollows ==
    ASSUME IInv
    PROVE  TypeOK
<1>1. ASSUME NEW l \in Launches
      PROVE  /\ ctx[l].stage \in {"new", "active", "done", "retired"}
             /\ ctx[l].pc \in 1 .. Len(Programs[l]) + 1
             /\ ctx[l].fence \in 0 .. Len(Programs[l])
             /\ ctx[l].queued \cup ctx[l].flying \cup ctx[l].broken \subseteq 1 .. Len(Programs[l])
             /\ ctx[l].jobs \in Nat
             /\ ctx[l].owed \subseteq Names
             /\ {ctx[l].faulted, ctx[l].closed, ctx[l].arena} \subseteq BOOLEAN
  <2> DEFINE x == ctx[l]
  <2>1. Size(l) \in Nat /\ Size(l) = Len(Programs[l])
    BY ProgramFacts DEF Size
  <2>2. Flow(l, x) /\ FencesKept(l, x)
    BY DEF IInv, AllGood, Good
  <2> HIDE DEF x
  <2>3. x \in ContextState /\ x.pc \in 1 .. Size(l) + 1 /\ Running(x) \subseteq 1 .. x.pc - 1 /\ x.broken \subseteq 1 .. Size(l)
    BY <2>2 DEF Flow
  <2>4. Running(x) \subseteq 1 .. Size(l)
    BY <2>1, <2>3
  <2>5. x.queued \cup x.flying \cup x.broken \subseteq 1 .. Size(l)
    BY <2>3, <2>4 DEF Running
  <2>6. x.fence \in 0 .. Size(l)
    <3>1. CASE x.fence = 0
      BY <2>1, <3>1
    <3>2. CASE x.fence # 0
      <4>1. x.fence \in Running(x)
        BY <2>2, <3>2 DEF FencesKept
      <4> QED
        BY <2>1, <2>4, <4>1
    <3> QED
      BY <3>1, <3>2
  <2>7. /\ x.stage \in {"new", "active", "done", "retired"} /\ x.jobs \in Nat /\ x.owed \subseteq Names
        /\ x.faulted \in BOOLEAN /\ x.closed \in BOOLEAN /\ x.arena \in BOOLEAN
    BY <2>3 DEF ContextState
  <2> QED
    BY <2>1, <2>3, <2>5, <2>6, <2>7 DEF x
<1>2. Members(active) \subseteq Launches /\ Members(queue) \subseteq AllRecords
  BY MembersFacts DEF IInv, Lists
<1>3. Members(queue) \cup inflight \cup control \cup routes \subseteq AllRecords
  BY <1>2 DEF IInv, Lists
<1> QED
  BY <1>1, <1>2, <1>3 DEF TypeOK, IInv, Shape, Lists, Turn, Credits

\* A reset that is over has left nothing.
LEMMA ResetFollows ==
    ASSUME IInv
    PROVE  ResetLeavesNothing
<1> SUFFICES ASSUME reset \in Late
             PROVE  /\ queue = <<>> /\ inflight = {} /\ control = {} /\ routes = {}
                    /\ \A n \in Live(entries) : entries[n].status # "PENDING"
  BY DEF ResetLeavesNothing, Late
<1>1. \A l \in Launches : ctx[l].queued = {} /\ ctx[l].flying = {}
  BY DEF IInv, AllGood, Good, ResetTrue, Running
<1>2. Members(queue) = {}
  BY <1>1, QueuedFacts
<1>3. queue = <<>>
  BY <1>2, MembersFacts DEF IInv, Lists
<1>4. inflight \cup control = {}
  BY <1>1, FlyingFacts
<1>5. inflight = {} /\ control = {} /\ routes = {}
  BY <1>4 DEF IInv, Lists
<1>6. \A n \in Live(entries) : entries[n].status # "PENDING"
  <2> SUFFICES ASSUME NEW n \in Names PROVE entries[n].status # "PENDING"
    BY DEF Live
  <2>1. CASE \E l \in Launches : n \in Own(l)
    BY <2>1 DEF IInv, AllGood, Good, StatusTrue
  <2>2. CASE \A l \in Launches : n \notin Own(l)
    BY <2>2, NoEntryFacts DEF IInv, Shape
  <2> QED
    BY <2>1, <2>2
<1> QED
  BY <1>3, <1>5, <1>6

\* The books of the scheduler agree in every reachable state of every Group: its
\* credits are the accepted actions, its queue and its accepted actions are the
\* sequencers' own, and a reset that is over has left nothing (note_completion,
\* _release_epoch, cancel_context, abort_inflight).
THEOREM BooksAlwaysAgree == Spec => []BooksAgree
<1>1. IInv => BooksAgree
  BY TypeFollows, ResetFollows DEF BooksAgree, IInv, Credits
<1> QED
  BY <1>1, SchedulerInvariant, PTL

\* The events a launch owns are its program's.
LEMMA OwnedFacts ==
    ASSUME IInv, NEW l \in Launches, NEW n \in OwnedBy(entries, l)
    PROVE  n \in Own(l) /\ n \in Names /\ entries[n].status # "ABSENT"
<1>1. n \in Names /\ entries[n].status # "ABSENT" /\ entries[n].launch = l
  BY DEF OwnedBy, Live
<1>2. OwnOnly(l, entries)
  BY OwnFacts DEF IInv
<1> QED
  BY <1>1, <1>2 DEF OwnOnly

\* cancel_context finds every output and every pin of what is queued.
LEMMA CancelFollows ==
    ASSUME IInv
    PROVE  CancelAlwaysPossible
<1> SUFFICES ASSUME NEW l \in Launches, Open(l)
             PROVE  /\ quotas[l].open
                    /\ \A i \in ctx[l].queued : CancelOutputsOK(entries, l, Outputs(Programs[l][i]), i)
                    /\ \A i \in ctx[l].queued : CancelDepsOK(entries, quotas, l, Programs[l][i].deps)
                    /\ \A n \in ManagedOf(entries, l) :
                          entries[n].refs = QueuedUses(l, n) /\ entries[n].refs <= entries[n].uses
  BY DEF CancelAlwaysPossible
<1> DEFINE Q == ctx[l].queued
<1>1. Booked(l, entries, Q) /\ QuotaTrue(l, quotas[l], ctx[l]) /\ Flow(l, ctx[l])
  BY DEF IInv, AllGood, Good
<1>2. quotas[l].open
  BY <1>1 DEF QuotaTrue, InUse, Open
<1>3. Q \subseteq 1 .. Size(l)
  BY <1>1, ProgramFacts DEF Flow, Running
<1>4. \A n \in Own(l) : entries[n].status # "ABSENT" => n \in ManagedOf(entries, l)
  BY <1>1, ProgramFacts DEF Booked, ManagedOf, OwnedBy, Live
<1>5. ASSUME NEW i \in Q PROVE CancelOutputsOK(entries, l, Outputs(Programs[l][i]), i)
  <2> SUFFICES ASSUME NEW n \in Outputs(Act(l, i))
               PROVE  n \in ManagedOf(entries, l) /\ entries[n].bound /\ entries[n].producer = i
    BY DEF CancelOutputsOK, Act
  <2>1. n \in Own(l) /\ Made(l, n) = i
    BY <1>3, MadeFacts
  <2>2. entries[n].status # "ABSENT"
    BY <1>1 DEF Booked
  <2>3. entries[n].bound /\ entries[n].producer = i
    BY <1>1, <2>1, <2>2 DEF Booked
  <2> QED
    BY <1>4, <2>1, <2>2, <2>3
<1>6. ASSUME NEW i \in Q PROVE CancelDepsOK(entries, quotas, l, Programs[l][i].deps)
  <2> SUFFICES ASSUME NEW n \in Act(l, i).deps
               PROVE  n \in ManagedOf(entries, l) /\ entries[n].refs > 0 /\ entries[n].uses > 0
    BY <1>2 DEF CancelDepsOK, Act
  <2> HIDE DEF Q
  <2>1. /\ n \in Own(l) /\ entries[n].refs \in Nat \ {0} /\ entries[n].uses \in Nat \ {0}
        /\ entries[n].status # "ABSENT"
    BY <1>1, <1>3, PinnedFacts
  <2> QED
    BY <1>4, <2>1
<1>7. ASSUME NEW n \in ManagedOf(entries, l)
      PROVE  entries[n].refs = QueuedUses(l, n) /\ entries[n].refs <= entries[n].uses
  <2>1. n \in Own(l)
    BY OwnedFacts DEF ManagedOf
  <2>2. entries[n].refs = Cardinality(Pins(l, n, Q)) /\ entries[n].refs <= entries[n].uses
    BY <1>1, <2>1 DEF Booked
  <2> QED
    BY <2>2 DEF QueuedUses, Pins, Act
<1> QED
  BY <1>2, <1>5, <1>6, <1>7

\* A Context that is done runs nothing and has neither pins nor uses left.
LEMMA DoneFacts ==
    ASSUME IInv, NEW l \in Launches, ctx[l].stage = "done", NEW n \in OwnedBy(entries, l)
    PROVE  /\ entries[n].status # "PENDING" /\ entries[n].refs = 0 /\ entries[n].uses = 0
           /\ n \in Own(l) /\ entries[n].status # "ABSENT" /\ Running(ctx[l]) = {}
<1> DEFINE x == ctx[l]
<1>1. Good(l, entries, quotas[l], x, reset) /\ x.stage = "done"
  BY DEF IInv, AllGood
<1>2. n \in Own(l) /\ entries[n].status # "ABSENT"
  BY OwnedFacts
<1> HIDE DEF x
<1>3. Running(x) = {} /\ x.closed /\ InUse(x)
  BY <1>1 DEF Good, Flow, InUse
<1>4. x.queued = {} /\ x.flying = {}
  BY <1>3 DEF Running
<1>5. entries[n].status # "PENDING"
  BY <1>1, <1>2, <1>3 DEF Good, StatusTrue
<1>6. entries[n].refs = 0
  <2>1. entries[n].refs = Cardinality(Pins(l, n, x.queued))
    BY <1>1, <1>2 DEF Good, Booked
  <2>2. Pins(l, n, x.queued) = {}
    BY <1>4 DEF Pins
  <2> QED
    BY <2>1, <2>2, FS_EmptySet
<1>7. entries[n].uses = 0
  <2>1. CASE x.faulted
    BY <1>1, <1>2, <1>4, <2>1 DEF Good, UsesTrue
  <2>2. CASE ~x.faulted
    <3>1. x.pc = Size(l) + 1
      BY <1>1, <1>3, <2>2 DEF Good, Flow
    <3>2. Size(l) \in Nat /\ Made(l, n) \in 1 .. Size(l)
      BY <1>2, ProgramFacts, MadeFacts
    <3>3. entries[n].uses = Cardinality(Readers(l, n, x))
      BY <1>1, <1>2, <2>2, <3>1, <3>2 DEF Good, UsesTrue
    <3>4. Readers(l, n, x) = {}
      BY <1>4, <3>1, <3>2 DEF Readers
    <3> QED
      BY <3>3, <3>4, FS_EmptySet
  <2> QED
    BY <2>1, <2>2
<1> QED
  BY <1>2, <1>3, <1>5, <1>6, <1>7 DEF x

\* release_owner accepts a done Context.
LEMMA RetireFollows ==
    ASSUME IInv
    PROVE  RetireAlwaysPossible
<1> SUFFICES ASSUME NEW l \in Launches, ctx[l].stage = "done" PROVE quotas[l].open /\ ReleaseOK(entries, l)
  BY DEF RetireAlwaysPossible
<1>1. quotas[l].open
  <2>1. QuotaTrue(l, quotas[l], ctx[l])
    BY DEF IInv, AllGood, Good
  <2> QED
    BY <2>1 DEF QuotaTrue, InUse
<1> QED
  BY <1>1, DoneFacts DEF ReleaseOK

\* Neither an issue nor a completion meets a stale event.
LEMMA StaleFollows ==
    ASSUME IInv
    PROVE  NoStaleEvent
<1>1. ASSUME phase = "issue", NEW r \in Members(queue), NEW n \in act(r).deps
      PROVE  entries[n].bound /\ entries[n].status \in {"PENDING", "DONE"}
  <2> DEFINE l == r[1]
             Q == ctx[l].queued
  <2>1. l \in Launches /\ r[2] \in Q /\ act(r) = Act(l, r[2]) /\ reset \in {"IDLE", "DONE"}
    BY <1>1, QueuedFacts DEF IInv, Turn
  <2>2. Good(l, entries, quotas[l], ctx[l], reset)
    BY <2>1 DEF IInv, AllGood
  <2>3. Q \subseteq 1 .. Size(l) /\ Booked(l, entries, Q)
    BY <2>1, <2>2, ProgramFacts DEF Good, Flow, Running
  <2>4. reset = "IDLE"
    BY <2>1, <2>2 DEF Good, ResetTrue, Running, Late
  <2>5. n \in Own(l) /\ entries[n].status # "ABSENT"
    <3>1. n \in Act(l, r[2]).deps
      BY <2>1
    <3> HIDE DEF Q, l
    <3> QED
      BY <2>1, <2>3, <3>1, PinnedFacts
  <2>6. entries[n].bound
    BY <2>3, <2>5 DEF Booked
  <2>7. entries[n].status \in {"ABSENT", "PENDING", "DONE"}
    BY <2>2, <2>4, <2>5 DEF Good, StatusTrue
  <2> QED
    BY <2>5, <2>6, <2>7
<1>2. ASSUME NEW r \in inflight, act(r).op \in Transfers PROVE entries[Dst(r)].status = "PENDING"
  BY <1>2, TransferFacts
<1> QED
  BY <1>1, <1>2 DEF NoStaleEvent

\* No call of the scheduler into the event table is ever refused, in any Group: a
\* Context can be cancelled at any moment and released when it is done, the next
\* action of a program always fits the quota the compiler computed, and neither a
\* queued action nor a completion meets an event in a state it cannot handle
\* (EventProtocolError, _fault_context).
THEOREM NoErrorEscapes == Spec => []NoInternalError
<1>1. IInv => NoInternalError
  <2> SUFFICES ASSUME IInv PROVE NoInternalError
    OBVIOUS
  <2>1. RegistrationNeverFaults
    BY RegisteredFacts DEF RegistrationNeverFaults, Act
  <2> QED
    BY <2>1, CancelFollows, RetireFollows, StaleFollows DEF NoInternalError
<1> QED
  BY <1>1, SchedulerInvariant, PTL

\* Nothing passes a fence.
LEMMA FenceFollows ==
    ASSUME IInv
    PROVE  FenceHolds
<1> SUFFICES ASSUME NEW l \in Launches, NEW i \in 1 .. ctx[l].pc - 2
             PROVE  /\ Act(l, i).op \in Fences => i \notin Running(ctx[l])
                    /\ Act(l, i).op = "barrier" => \A j \in 1 .. i : j \notin Running(ctx[l])
  BY DEF FenceHolds, Running, Act
<1> DEFINE x == ctx[l]
<1>1. Flow(l, x) /\ FencesKept(l, x) /\ i \in 1 .. x.pc - 2
  BY DEF IInv, AllGood, Good
<1> HIDE DEF x
<1>2. x.pc \in Nat /\ i \in 1 .. x.pc - 1 /\ i < x.pc - 1 /\ i # 0 /\ i \in Nat
  BY <1>1, ProgramFacts DEF Flow
<1>3. Act(l, i).op \in Fences => i \notin Running(x)
  BY <1>1, <1>2 DEF FencesKept
<1>4. ASSUME Act(l, i).op = "barrier", NEW j \in 1 .. i PROVE j \notin Running(x)
  <2>1. \A k \in Running(x) : i < k
    BY <1>1, <1>2, <1>4 DEF FencesKept
  <2> QED
    BY <1>2, <2>1
<1> QED
  BY <1>3, <1>4 DEF x

\* A Context that is done without fault has done everything.
LEMMA SuccessFollows ==
    ASSUME IInv
    PROVE  SuccessIsComplete
<1> SUFFICES ASSUME NEW l \in Launches, ctx[l].stage = "done", ~ctx[l].faulted
             PROVE  quotas[l].produced = AllOutputs(Programs[l]) /\ OwnedBy(entries, l) = {}
  BY DEF SuccessIsComplete
<1>1. Good(l, entries, quotas[l], ctx[l], reset)
  BY DEF IInv, AllGood
<1>2. ctx[l].pc = Size(l) + 1 /\ InUse(ctx[l])
  BY <1>1 DEF Good, Flow, InUse
<1>3. quotas[l].produced = AllOutputs(Programs[l])
  BY <1>1, <1>2 DEF Good, QuotaTrue, AllOutputs, Size
<1>4. ASSUME NEW n \in OwnedBy(entries, l) PROVE FALSE
  <2>1. /\ entries[n].status # "PENDING" /\ entries[n].uses = 0
        /\ n \in Own(l) /\ entries[n].status # "ABSENT" /\ Running(ctx[l]) = {}
    BY DoneFacts
  <2>2. entries[n].status \in Terminal
    BY <1>1, <2>1 DEF Good, Booked, EventEntry, EventStatus, Terminal
  <2>3. Made(l, n) \in Running(ctx[l])
    BY <1>1, <2>1, <2>2 DEF Good, UsesTrue
  <2> QED
    BY <2>1, <2>3
<1> QED
  BY <1>3, <1>4

\* Every Context of every Group runs as its program says: nothing registers past a
\* wait, barrier or configuration command that has not completed, nothing before a
\* barrier is unfinished once the program is past it, and a Context that ends
\* without fault has produced every event of its program and leaves no event behind.
THEOREM RunsAlwaysAsWritten == Spec => []RunsAsWritten
<1>1. IInv => RunsAsWritten
  BY FenceFollows, SuccessFollows DEF RunsAsWritten
<1> QED
  BY <1>1, SchedulerInvariant, PTL
=============================================================================
