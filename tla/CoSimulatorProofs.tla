-------------------------- MODULE CoSimulatorProofs --------------------------
(***************************************************************************)
(* Proofs about the co-simulation, for every set of well-formed programs   *)
(* and every capacity of the CPU, the port and the session.                *)
(*                                                                         *)
(* The properties are spread over the three parties, so the invariant IInv *)
(* relates them.  A launch the CPU counts is at one place (LaunchAgreement) *)
(* only because a pending one is at none (PendingFresh); a reference is    *)
(* counted once (References in Counted) because the program counter        *)
(* separates what is issued from what is ahead (ControlTrue); a fault      *)
(* clears all of it at once (FaultClears); the drain empties the Group in  *)
(* the order of the reset states (SlotsDrain, DoneDrained), and a host     *)
(* transfer is too young to end between the drain and the release (Ages).  *)
(***************************************************************************)
EXTENDS CoSimulator, DistinctSequences, FiniteSetTheorems

-----------------------------------------------------------------------------
(* The inductive invariant, in parts.                                      *)

Phases ==
    {"resolve", "issue", "resolve2", "admit", "hostBegin", "host", "transfers", "profile",
     "contexts", "reset", "hostHarvest", "retire", "place", "harvest", "settle", "cycle", "end"}
ResetStates ==
    {"IDLE", "FAULT_DETECTED", "STOP_QUEUE", "FREEZE_DISPATCH", "DRAIN_SAFE", "MARK_EVENTS",
     "RESET_DOMAIN", "CLEAR_CREDIT_CACHE", "RESUME", "DONE"}
RoutineStates ==
    {"none", "patch", "free", "pool", "delay", "elapsed", "queued", "moving", "xfer", "bad",
     "cancel", "done", "cancelled", "faulty", "acked"}
LaunchStates == {"none", "wait_deps", "wait_admission", "active", "complete", "failed"}
ContextStates == {"none", "running", "finished", "faulted", "aborted", "failed"}
Outcomes == {"running", "complete", "faulted", "capped", "poisoned", "raised"}

Pendings == [id : Launches, needs : SUBSET Launches]
Answers == [id : Launches, ok : BOOLEAN]

SimTypes ==
    /\ prog \in Programs
    /\ phase \in Phases
    /\ outcome \in Outcomes /\ (outcome = "running" <=> phase # "end")
    /\ capped \in BOOLEAN /\ aborted \in BOOLEAN
    /\ count \in 0..IssueWidth
CpuTypes ==
    /\ pc \in 1..(Len(prog) + 1) /\ startPc \in 1..pc
    /\ pending \in Seq(Pendings) /\ Len(pending) <= PendingCapacity
    /\ launch \in [Positions -> LaunchStates]
    /\ handles \subseteq Launches /\ reserved \subseteq Launches /\ completions \subseteq Launches
    /\ active \subseteq Launches /\ activeHost \subseteq Launches
    /\ control \in {0} \cup Positions /\ fenced \in BOOLEAN
PortTypes ==
    /\ queue \in Seq(Launches) /\ Len(queue) <= PortCapacity
    /\ slots \in [Slots -> Launches \cup {NoSlot}]
    /\ answers \subseteq Answers
    /\ context \in [Positions -> ContextStates]
    /\ command \in CommandStates
    /\ held \in BOOLEAN /\ portFault \in BOOLEAN /\ retry \in BOOLEAN
    /\ reset \in ResetStates
HostTypes ==
    /\ doing \in [Positions -> RoutineStates]
    /\ left \in [Positions -> Seq(HostCommands)]
    /\ hostAnswers \subseteq Answers
Types == SimTypes /\ CpuTypes /\ PortTypes /\ HostTypes

\* A pending launch is pending once and nowhere else, and the program has issued
\* it and everything it waits for.
PendingFresh ==
    /\ \A j, k \in DOMAIN pending : pending[j].id = pending[k].id => j = k
    /\ PendingIds \cap (active \cup activeHost) = {}
    /\ \A r \in PendingIds \cup active \cup activeHost \cup handles : r < pc
    /\ \A k \in DOMAIN pending : \A d \in pending[k].needs : d < pending[k].id

\* The program stands at the command it handed over, which is under way, or has
\* ended and fences the program.
ControlTrue ==
    /\ control # 0 => control = pc /\ pc \in Positions /\ prog[pc].op \in Controls
    /\ command # "idle" => control # 0
    /\ fenced => control # 0 /\ command = "idle"

\* A fault leaves nothing pending, bound or counted; only a fault aborts.
FaultClears ==
    /\ phase \in {"issue", "resolve2", "admit"} => ~Faulted
    /\ Faulted => /\ pending = <<>> /\ handles = {} /\ completions = {} /\ reserved = {}
                  /\ remaining = [r \in Positions |-> 0]
    /\ aborted => Faulted

\* References are counted from the issue of a launch on, and a bound event has
\* consumers or a launch that is still to complete.
Counted ==
    /\ remaining \in [Positions -> Nat]
    /\ ReferenceAccounting
    /\ \A r \in Positions : r \notin Launches \/ r >= pc => remaining[r] = 0
    /\ ~Faulted => \A r \in handles : remaining[r] > 0 \/ r \in PendingIds \cup active \cup activeHost

\* Without a fault an issued launch is somewhere or complete.
NoneLost ==
    ~Faulted => \A r \in Launches :
        r < pc => r \in PendingIds \cup active \cup activeHost \/ launch[r] = "complete"

\* A Context that holds L2 is in a slot; the reset leaves none.
SlotsDrain ==
    /\ Holders \subseteq Occupants
    /\ reset \in {"CLEAR_CREDIT_CACHE", "RESUME", "DONE"} => Holders = {}

\* After the reset the port empties its slots, its queue and its answers in turn.
DoneDrained ==
    reset = "DONE" =>
        /\ phase \in {"place", "harvest", "settle"} => Occupants = {}
        /\ phase \in {"harvest", "settle"} => queue = <<>>
        /\ phase = "settle" => answers = {}

\* Phases by their place between the drain and the release.
Early == {"retire", "place", "harvest", "settle", "cycle", "resolve", "issue", "resolve2",
          "admit", "hostBegin"}
Issuing == {"host", "transfers"}
Closing == {"profile", "contexts", "reset"}

\* What a routine may be doing in phase p of the cycle that ends the reset state
\* s: a transfer issued after DRAIN_SAFE is at most two cycles old at the release.
Flying == {"queued", "moving", "xfer", "bad", "cancel", "faulty"}
Young(p, s, d) ==
    /\ s = "MARK_EVENTS" =>
          /\ p = "hostHarvest" => d \notin Flying
          /\ p \in Early => d \notin Flying \cup {"done", "cancelled"}
          /\ p \in Issuing => d \notin {"moving", "xfer", "cancel", "done"}
          /\ p \in Closing => d \notin {"queued", "xfer", "done"}
    /\ s = "RESET_DOMAIN" =>
          /\ p \in Early \cup {"hostHarvest"} => d \notin {"queued", "xfer", "done"}
          /\ p \in Issuing => d \notin {"xfer", "done"}
          /\ p \in Closing => d # "done"
Ages == \A r \in Positions : Young(phase, reset, doing[r])

\* Only abort() stops a transfer.
StoppedByAbort ==
    \A r \in Positions : doing[r] \in {"cancel", "cancelled", "acked"} => aborted

\* The inductive invariant.
IInv ==
    /\ Types /\ LaunchAgreement /\ PendingFresh /\ ControlTrue /\ FaultClears /\ Counted
    /\ ReservationsExact /\ NoneLost /\ SlotsDrain /\ DoneDrained /\ Ages /\ StoppedByAbort
    /\ OutcomeIsTrue

-----------------------------------------------------------------------------
(* The program, and positions of sequences.                                *)

\* What _validate_and_count_references leaves a run to rely on.
LEMMA ProgramFacts ==
    ASSUME prog \in Programs
    PROVE  /\ Len(prog) \in Nat /\ Positions = 1 .. Len(prog) /\ IsFiniteSet(Positions)
           /\ Positions \subseteq Nat /\ 0 \notin Positions /\ NoSlot \notin Positions
           /\ Launches \subseteq Positions /\ IsFiniteSet(Launches)
           /\ \A i \in Positions :
                 /\ prog[i] \in Operation
                 /\ prog[i].deps \subseteq Launches /\ \A d \in prog[i].deps : d < i
<1>1. prog \in Seq(Operation) /\ WellFormed(prog)
  BY ProgramsWellFormed
<1>2. Len(prog) \in Nat /\ Positions = 1 .. Len(prog)
  BY <1>1, LenProperties DEF Positions
<1>3. IsFiniteSet(Positions)
  BY <1>2, FS_Interval
<1>4. \A i \in Positions : prog[i] \in Operation
  BY <1>1, <1>2, ElementOfSeq
<1>5. Launches \subseteq Positions /\ IsFiniteSet(Launches)
  BY <1>3, FS_Subset DEF Launches
<1>6. NoSlot \notin Positions
  BY <1>2, SlotsAssumption
<1>7. ASSUME NEW i \in Positions
      PROVE  prog[i].deps \subseteq Launches /\ \A d \in prog[i].deps : d < i
  <2>1. prog[i].deps \subseteq {d \in 1 .. i - 1 : prog[d].op \in Launching}
    BY <1>1 DEF WellFormed, Positions
  <2>2. i \in Nat /\ i <= Len(prog)
    BY <1>2
  <2> QED
    BY <1>2, <2>1, <2>2 DEF Launches
<1> QED
  BY <1>2, <1>3, <1>4, <1>5, <1>6, <1>7

\* The positions of a sequence are those up to its length.
LEMMA SeqFacts ==
    ASSUME NEW S, NEW s \in Seq(S)
    PROVE  /\ Len(s) \in Nat /\ DOMAIN s = 1 .. Len(s)
           /\ \A k \in DOMAIN s : s[k] \in S
           /\ (s = <<>> <=> Len(s) = 0)
BY LenProperties, ElementOfSeq, EmptySeq

\* _queue_head returns a queued launch, or none.
LEMMA HeadFacts ==
    ASSUME prog \in Programs, queue \in Seq(Launches), NEW c, HeadOf(c) # 0
    PROVE  HeadIndex(c) \in 1 .. Len(queue) /\ HeadOf(c) = queue[HeadIndex(c)]
           /\ HeadOf(c) \in Launches /\ HeadOf(c) \in ToSet(queue)
<1> DEFINE I == {i \in 1 .. Len(queue) : prog[queue[i]].cat = c}
<1>1. HeadIndex(c) # 0 /\ HeadOf(c) = queue[HeadIndex(c)]
  BY DEF HeadOf
<1>2. HeadIndex(c) = IF I # {} THEN Min(I) ELSE 0
  BY DEF HeadIndex, SelectInSeq
<1>3. I # {}
  BY <1>1, <1>2
<1>4. I \subseteq Nat
  BY SeqFacts
<1>5. \E x \in I : \A y \in I : x <= y
  BY <1>3, <1>4, LeastExists
<1>6. Min(I) \in I
  BY <1>5 DEF Min
<1>7. HeadIndex(c) \in 1 .. Len(queue)
  BY <1>2, <1>3, <1>6
<1> QED
  BY <1>1, <1>7, SeqFacts DEF ToSet

\* _admit_ready_launches tries a pending launch that waits for nothing.
LEMMA ReadyFacts ==
    ASSUME prog \in Programs, pending \in Seq(Pendings), ReadyIndex # 0
    PROVE  /\ ReadyIndex \in 1 .. Len(pending) /\ pending[ReadyIndex].needs = {}
           /\ pending[ReadyIndex] \in Pendings
           /\ Ready \in Launches /\ Ready \in Positions /\ Ready \in PendingIds
<1> DEFINE I == {i \in 1 .. Len(pending) : pending[i].needs = {}}
<1>2. ReadyIndex = IF I # {} THEN Min(I) ELSE 0
  BY DEF ReadyIndex, SelectInSeq
<1>3. I # {}
  BY <1>2
<1>4. I \subseteq Nat
  BY SeqFacts
<1>5. \E x \in I : \A y \in I : x <= y
  BY <1>3, <1>4, LeastExists
<1>6. Min(I) \in I
  BY <1>5 DEF Min
<1>7. ReadyIndex \in I
  BY <1>2, <1>3, <1>6
<1>8. pending[ReadyIndex] \in Pendings /\ ReadyIndex \in DOMAIN pending
  BY <1>7, SeqFacts
<1> QED
  BY <1>7, <1>8, ProgramFacts DEF Ready, PendingIds, Pendings

\* _vacant_slot finds one of the vacant slots.
LEMMA LowestFacts ==
    ASSUME NEW r, Vacant(r) # {}
    PROVE  LowestSlot(Vacant(r)) \in Slots /\ slots[LowestSlot(Vacant(r))] = NoSlot
<1>1. Vacant(r) \subseteq Nat
  BY SlotsAssumption DEF Vacant
<1>2. \E x \in Vacant(r) : \A y \in Vacant(r) : x <= y
  BY <1>1, LeastExists
<1>3. LowestSlot(Vacant(r)) \in Vacant(r)
  BY <1>2 DEF LowestSlot
<1> QED
  BY <1>3 DEF Vacant

-----------------------------------------------------------------------------
(* The three things that happen to the list of pending launches.           *)

IdsIn(p) == {p[k].id : k \in DOMAIN p}
ApartIn(p) == \A j, k \in DOMAIN p : p[j].id = p[k].id => j = k
WaitingIn(p, r) == {x.id : x \in {q \in ToSet(p) : r \in q.needs}}

\* A member waits for r when one of the list's positions says so.
LEMMA WaitingFacts ==
    ASSUME NEW p \in Seq(Pendings), NEW r, NEW x
    PROVE  x \in WaitingIn(p, r) <=> \E k \in DOMAIN p : p[k].id = x /\ r \in p[k].needs
BY DEF WaitingIn, ToSet

\* One leaves.
LEMMA LeaveFacts ==
    ASSUME NEW p \in Seq(Pendings), NEW i \in 1 .. Len(p), ApartIn(p), p[i].needs = {}
    PROVE  /\ RemoveAt(p, i) \in Seq(Pendings) /\ Len(RemoveAt(p, i)) = Len(p) - 1
           /\ ApartIn(RemoveAt(p, i)) /\ IdsIn(RemoveAt(p, i)) = IdsIn(p) \ {p[i].id}
           /\ \A r : WaitingIn(RemoveAt(p, i), r) = WaitingIn(p, r)
           /\ \A k \in DOMAIN RemoveAt(p, i) : \E j \in DOMAIN p : RemoveAt(p, i)[k] = p[j]
<1> DEFINE q == RemoveAt(p, i)
<1>1. /\ q \in Seq(Pendings) /\ Len(q) = Len(p) - 1
      /\ \A j \in 1 .. Len(p) - 1 : q[j] = IF j < i THEN p[j] ELSE p[j + 1]
  BY RemoveAtSeq
<1>2. /\ Len(p) \in Nat /\ Len(q) \in Nat /\ i \in Nat /\ i <= Len(p) /\ 1 <= i
      /\ DOMAIN p = 1 .. Len(p) /\ DOMAIN q = 1 .. Len(q)
  BY <1>1, SeqFacts
<1> HIDE DEF q
<1> DEFINE From(k) == IF k < i THEN k ELSE k + 1
<1>3. \A k \in DOMAIN q : From(k) \in DOMAIN p /\ From(k) # i /\ q[k] = p[From(k)]
  BY <1>1, <1>2
<1>4. \A j \in DOMAIN p : j # i => \E k \in DOMAIN q : From(k) = j
  <2> SUFFICES ASSUME NEW j \in DOMAIN p, j # i PROVE \E k \in DOMAIN q : From(k) = j
    OBVIOUS
  <2>1. CASE j < i
    BY <1>1, <1>2, <2>1
  <2>2. CASE j > i
    <3>1. j - 1 \in DOMAIN q /\ From(j - 1) = j
      BY <1>1, <1>2, <2>2
    <3> QED
      BY <3>1
  <2> QED
    BY <1>2, <2>1, <2>2
<1>5. \A j, k \in DOMAIN q : From(j) = From(k) => j = k
  BY <1>2
<1> HIDE DEF From
<1>6. ApartIn(q)
  BY <1>3, <1>5 DEF ApartIn
<1>7. IdsIn(q) = IdsIn(p) \ {p[i].id}
  <2>1. ASSUME NEW x \in IdsIn(q) PROVE x \in IdsIn(p) \ {p[i].id}
    BY <1>2, <1>3, <2>1 DEF IdsIn, ApartIn
  <2>2. ASSUME NEW x \in IdsIn(p), x # p[i].id PROVE x \in IdsIn(q)
    <3>1. PICK j \in DOMAIN p : p[j].id = x
      BY <2>2 DEF IdsIn
    <3>2. PICK k \in DOMAIN q : From(k) = j
      BY <1>4, <2>2, <3>1
    <3> QED
      BY <1>3, <3>1, <3>2 DEF IdsIn
  <2> QED
    BY <2>1, <2>2
<1>8. ASSUME NEW r PROVE WaitingIn(q, r) = WaitingIn(p, r)
  <2>1. ASSUME NEW x \in WaitingIn(q, r) PROVE x \in WaitingIn(p, r)
    BY <1>1, <1>3, <2>1, WaitingFacts
  <2>2. ASSUME NEW x \in WaitingIn(p, r) PROVE x \in WaitingIn(q, r)
    <3>1. PICK j \in DOMAIN p : p[j].id = x /\ r \in p[j].needs
      BY <2>2, WaitingFacts
    <3>2. j # i
      BY <3>1
    <3>3. PICK k \in DOMAIN q : From(k) = j
      BY <1>4, <3>2
    <3> QED
      BY <1>1, <1>3, <3>1, <3>3, WaitingFacts
  <2> QED
    BY <2>1, <2>2
<1> QED
  BY <1>1, <1>3, <1>6, <1>7, <1>8 DEF q

\* One joins.
LEMMA JoinFacts ==
    ASSUME NEW p \in Seq(Pendings), NEW e \in Pendings, ApartIn(p), e.id \notin IdsIn(p)
    PROVE  /\ Append(p, e) \in Seq(Pendings) /\ Len(Append(p, e)) = Len(p) + 1
           /\ ApartIn(Append(p, e)) /\ IdsIn(Append(p, e)) = IdsIn(p) \cup {e.id}
           /\ \A r : WaitingIn(Append(p, e), r)
                      = WaitingIn(p, r) \cup (IF r \in e.needs THEN {e.id} ELSE {})
           /\ \A k \in DOMAIN Append(p, e) :
                 Append(p, e)[k] = e \/ \E j \in DOMAIN p : Append(p, e)[k] = p[j]
<1> DEFINE q == Append(p, e)
<1>1. /\ q \in Seq(Pendings) /\ Len(q) = Len(p) + 1 /\ Len(p) \in Nat
      /\ \A i \in 1 .. Len(p) : q[i] = p[i]
      /\ q[Len(p) + 1] = e
  BY AppendProperties
<1>2. DOMAIN p = 1 .. Len(p) /\ DOMAIN q = 1 .. Len(q)
  BY <1>1, SeqFacts
<1> HIDE DEF q
<1>3. /\ \A k \in DOMAIN p : k \in DOMAIN q /\ q[k] = p[k]
      /\ Len(p) + 1 \in DOMAIN q /\ Len(p) + 1 \notin DOMAIN p
      /\ \A k \in DOMAIN q : k \in DOMAIN p \/ k = Len(p) + 1
  BY <1>1, <1>2
<1>4. ApartIn(q)
  BY <1>1, <1>3 DEF ApartIn, IdsIn
<1>5. IdsIn(q) = IdsIn(p) \cup {e.id}
  BY <1>1, <1>3 DEF IdsIn
<1>6. ASSUME NEW r
      PROVE  WaitingIn(q, r) = WaitingIn(p, r) \cup (IF r \in e.needs THEN {e.id} ELSE {})
  <2>1. ASSUME NEW x
        PROVE  x \in WaitingIn(q, r) <=> x \in WaitingIn(p, r) \/ (r \in e.needs /\ x = e.id)
    BY <1>1, <1>3, WaitingFacts
  <2> QED
    BY <2>1
<1> QED
  BY <1>1, <1>3, <1>4, <1>5, <1>6 DEF q

\* All forget what has completed.
LEMMA ForgetFacts ==
    ASSUME NEW p \in Seq(Pendings), ApartIn(p), NEW C
    PROVE  LET q == [k \in DOMAIN p |-> [p[k] EXCEPT !.needs = @ \ C]]
           IN  /\ q \in Seq(Pendings) /\ Len(q) = Len(p) /\ DOMAIN q = DOMAIN p
               /\ ApartIn(q) /\ IdsIn(q) = IdsIn(p)
               /\ \A r : WaitingIn(q, r) = IF r \in C THEN {} ELSE WaitingIn(p, r)
               /\ \A k \in DOMAIN p : q[k].id = p[k].id /\ q[k].needs = p[k].needs \ C
<1> DEFINE q == [k \in DOMAIN p |-> [p[k] EXCEPT !.needs = @ \ C]]
<1>1. Len(p) \in Nat /\ DOMAIN p = 1 .. Len(p) /\ \A k \in DOMAIN p : p[k] \in Pendings
  BY SeqFacts
<1>2. \A k \in DOMAIN p : /\ q[k] \in Pendings
                          /\ q[k].id = p[k].id /\ q[k].needs = p[k].needs \ C
  BY <1>1 DEF Pendings
<1>3. q \in [1 .. Len(p) -> Pendings]
  BY <1>1, <1>2
<1>4. q \in Seq(Pendings)
  BY <1>1, <1>3, SeqDef
<1>5. DOMAIN q = DOMAIN p /\ Len(q) = Len(p)
  <2>1. DOMAIN q = 1 .. Len(p)
    BY <1>1
  <2> QED
    BY <1>1, <1>4, <2>1, LenProperties
<1> HIDE DEF q
<1>6. ApartIn(q) /\ IdsIn(q) = IdsIn(p)
  BY <1>2, <1>5 DEF ApartIn, IdsIn
<1>7. ASSUME NEW r PROVE WaitingIn(q, r) = IF r \in C THEN {} ELSE WaitingIn(p, r)
  <2>1. ASSUME NEW x PROVE x \in WaitingIn(q, r) <=> r \notin C /\ x \in WaitingIn(p, r)
    BY <1>2, <1>4, <1>5, WaitingFacts
  <2> QED
    BY <2>1
<1> QED
  BY <1>2, <1>4, <1>5, <1>6, <1>7 DEF q

-----------------------------------------------------------------------------
(* Who writes what.                                                        *)

\* A control command is handed over and the rest of the port left alone.
Commands(op, answer) ==
    /\ SubmitControl(op, answer)
    /\ UNCHANGED <<queue, slots, answers, portFault, retry, context, held, mode, reset, hostVars, simVars>>

\* The steps that change the state of the CPU,
CpuWrites ==
    \/ BeginStep
    \/ BeginAdmit
    \/ (\E op \in Launching : Submit(op))
    \/ Await
    \/ (\E op \in Controls, answer \in ControlAnswers : SubmitControl(op, answer))
    \/ (\E op \in Controls : PassControl(op))
    \/ Return
    \/ RejectHost
    \/ EndAdmit
    \/ AdmitGroup
    \/ AdmitHost
    \/ Poison
    \/ HarvestClean
    \/ HarvestFault
    \/ CycleCap

\* of the port and the Group behind it,
PortWrites ==
    \/ (\E op \in Controls, answer \in ControlAnswers : Commands(op, answer))
    \/ AdmitGroup
    \/ (\E next \in CommandStates : ProfileStep(next))
    \/ (\E F \in SUBSET Running : \E X \in SUBSET (Running \ F) : Contexts(F, X))
    \/ ResetStep
    \/ RetireSlots
    \/ EndPlacing
    \/ CancelPending
    \/ (\E c \in Categories : Place(c))
    \/ (\E c \in Categories : FailHead(c))
    \/ HarvestClean
    \/ HarvestFault
    \/ SettleFault
    \/ CycleCap

\* and of the routines of the session.
HostWrites ==
    \/ AdmitHost
    \/ FetchCommand
    \/ FetchNothing
    \/ (\E S \in SUBSET CanElapse : Transfers(S))
    \/ ResetStep
    \/ Poison
    \/ HostHarvest
    \/ HarvestClean
    \/ HarvestFault
    \/ SettleFault

\* The steps that move a launch of the Group,
PlaceWrites ==
    \/ AdmitGroup
    \/ (RetireSlots /\ UNCHANGED cpuVars)
    \/ (CancelPending /\ UNCHANGED cpuVars)
    \/ (\E c \in Categories : Place(c) /\ UNCHANGED cpuVars)
    \/ (\E c \in Categories : FailHead(c) /\ UNCHANGED cpuVars)
    \/ HarvestClean
    \/ HarvestFault

\* and those that move one of the session.
RoutineWrites ==
    \/ AdmitHost
    \/ (FetchCommand /\ UNCHANGED cpuVars)
    \/ (FetchNothing /\ UNCHANGED cpuVars)
    \/ (\E S \in SUBSET CanElapse : Transfers(S))
    \/ ResetStep
    \/ Poison
    \/ HostHarvest
    \/ HarvestClean
    \/ HarvestFault
    \/ SettleFault

\* Every other step leaves them alone; no step changes the program.
LEMMA Writers ==
    ASSUME [Next]_vars
    PROVE  /\ prog' = prog
           /\ UNCHANGED cpuVars \/ CpuWrites
           /\ UNCHANGED portVars \/ PortWrites
           /\ UNCHANGED <<doing, left, hostAnswers>> \/ HostWrites
           /\ UNCHANGED <<active, queue, slots, answers>> \/ PlaceWrites
           /\ UNCHANGED <<activeHost, doing, hostAnswers>> \/ RoutineWrites
           /\ UNCHANGED hostVars \/ EndHostStep \/ HostWrites
<1> DEFINE Goal == /\ prog' = prog
                   /\ UNCHANGED cpuVars \/ CpuWrites
                   /\ UNCHANGED portVars \/ PortWrites
                   /\ UNCHANGED <<doing, left, hostAnswers>> \/ HostWrites
                   /\ UNCHANGED <<active, queue, slots, answers>> \/ PlaceWrites
                   /\ UNCHANGED <<activeHost, doing, hostAnswers>> \/ RoutineWrites
                   /\ UNCHANGED hostVars \/ EndHostStep \/ HostWrites
<1>1. ASSUME BeginStep /\ UNCHANGED <<portVars, hostVars, simVars>> PROVE Goal
  BY <1>1 DEF BeginStep, Resolve, Release, cpuVars, portVars, hostVars, simVars, CpuWrites, PortWrites, HostWrites, PlaceWrites, RoutineWrites
<1>2. ASSUME IdleStep /\ UNCHANGED <<portVars, hostVars, simVars>> PROVE Goal
  BY <1>2 DEF IdleStep, cpuVars, portVars, hostVars, simVars, CpuWrites, PortWrites, HostWrites, PlaceWrites, RoutineWrites
<1>3. ASSUME Await /\ UNCHANGED <<portVars, hostVars, simVars>> PROVE Goal
  BY <1>3 DEF Await, Release, cpuVars, portVars, hostVars, simVars, CpuWrites, PortWrites, HostWrites, PlaceWrites, RoutineWrites
<1>4. ASSUME Return /\ UNCHANGED <<portVars, hostVars, simVars>> PROVE Goal
  BY <1>4 DEF Return, cpuVars, portVars, hostVars, simVars, CpuWrites, PortWrites, HostWrites, PlaceWrites, RoutineWrites
<1>5. ASSUME EndIssue /\ UNCHANGED <<portVars, hostVars, simVars>> PROVE Goal
  BY <1>5 DEF EndIssue, cpuVars, portVars, hostVars, simVars, CpuWrites, PortWrites, HostWrites, PlaceWrites, RoutineWrites
<1>6. ASSUME BeginAdmit /\ UNCHANGED <<portVars, hostVars, simVars>> PROVE Goal
  BY <1>6 DEF BeginAdmit, Resolve, Release, cpuVars, portVars, hostVars, simVars, CpuWrites, PortWrites, HostWrites, PlaceWrites, RoutineWrites
<1>7. ASSUME RejectHost /\ UNCHANGED <<portVars, hostVars, simVars>> PROVE Goal
  BY <1>7 DEF RejectHost, cpuVars, portVars, hostVars, simVars, CpuWrites, PortWrites, HostWrites, PlaceWrites, RoutineWrites
<1>8. ASSUME EndAdmit /\ UNCHANGED <<portVars, hostVars, simVars>> PROVE Goal
  BY <1>8 DEF EndAdmit, cpuVars, portVars, hostVars, simVars, CpuWrites, PortWrites, HostWrites, PlaceWrites, RoutineWrites
<1>9. ASSUME NEW op \in Launching, Submit(op) /\ UNCHANGED <<portVars, hostVars, simVars>> PROVE Goal
  BY <1>9 DEF Submit, cpuVars, portVars, hostVars, simVars, CpuWrites, PortWrites, HostWrites, PlaceWrites, RoutineWrites
<1>10. ASSUME NEW op \in Controls, ControlBusy(op) /\ UNCHANGED <<portVars, hostVars, simVars>> PROVE Goal
  BY <1>10 DEF ControlBusy, cpuVars, portVars, hostVars, simVars, CpuWrites, PortWrites, HostWrites, PlaceWrites, RoutineWrites
<1>11. ASSUME NEW op \in Controls, PassControl(op) /\ UNCHANGED <<portVars, hostVars, simVars>> PROVE Goal
  BY <1>11 DEF PassControl, cpuVars, portVars, hostVars, simVars, CpuWrites, PortWrites, HostWrites, PlaceWrites, RoutineWrites
<1>12. ASSUME NEW op \in Controls, NEW answer \in ControlAnswers, Commands(op, answer) PROVE Goal
  BY <1>12 DEF Commands, SubmitControl, Release, Here, CanControl, cpuVars, portVars, hostVars, simVars, CpuWrites, PortWrites, HostWrites, PlaceWrites, RoutineWrites
<1>13. ASSUME AdmitGroup /\ UNCHANGED <<hostVars, simVars>> PROVE Goal
  BY <1>13 DEF AdmitGroup, Take, cpuVars, portVars, hostVars, simVars, CpuWrites, PortWrites, HostWrites, PlaceWrites, RoutineWrites
<1>14. ASSUME AdmitHost /\ UNCHANGED <<portVars, simVars>> PROVE Goal
  BY <1>14 DEF AdmitHost, Take, HostSubmit, cpuVars, portVars, hostVars, simVars, CpuWrites, PortWrites, HostWrites, PlaceWrites, RoutineWrites
<1>15. ASSUME BeginHost PROVE Goal
  BY <1>15 DEF BeginHost, cpuVars, portVars, hostVars, simVars, CpuWrites, PortWrites, HostWrites, PlaceWrites, RoutineWrites
<1>16. ASSUME FetchCommand /\ UNCHANGED <<cpuVars, portVars, simVars>> PROVE Goal
  BY <1>16 DEF FetchCommand, cpuVars, portVars, hostVars, simVars, CpuWrites, PortWrites, HostWrites, PlaceWrites, RoutineWrites
<1>17. ASSUME FetchNothing /\ UNCHANGED <<cpuVars, portVars, simVars>> PROVE Goal
  BY <1>17 DEF FetchNothing, cpuVars, portVars, hostVars, simVars, CpuWrites, PortWrites, HostWrites, PlaceWrites, RoutineWrites
<1>18. ASSUME EndHostStep /\ UNCHANGED <<cpuVars, portVars, simVars>> PROVE Goal
  BY <1>18 DEF EndHostStep, cpuVars, portVars, hostVars, simVars, CpuWrites, PortWrites, HostWrites, PlaceWrites, RoutineWrites
<1>19. ASSUME NEW S \in SUBSET CanElapse, Transfers(S) PROVE Goal
  BY <1>19 DEF Transfers, cpuVars, portVars, hostVars, simVars, CpuWrites, PortWrites, HostWrites, PlaceWrites, RoutineWrites
<1>20. ASSUME NEW next \in CommandStates, ProfileStep(next) PROVE Goal
  BY <1>20 DEF ProfileStep, cpuVars, portVars, hostVars, simVars, CpuWrites, PortWrites, HostWrites, PlaceWrites, RoutineWrites
<1>21. ASSUME NEW F \in SUBSET Running, NEW X \in SUBSET (Running \ F), Contexts(F, X) PROVE Goal
  BY <1>21 DEF Contexts, cpuVars, portVars, hostVars, simVars, CpuWrites, PortWrites, HostWrites, PlaceWrites, RoutineWrites
<1>22. ASSUME ResetStep PROVE Goal
  BY <1>22 DEF ResetStep, cpuVars, portVars, hostVars, simVars, CpuWrites, PortWrites, HostWrites, PlaceWrites, RoutineWrites
<1>23. ASSUME Poison PROVE Goal
  BY <1>23 DEF Poison, EndRun, cpuVars, portVars, hostVars, simVars, CpuWrites, PortWrites, HostWrites, PlaceWrites, RoutineWrites
<1>24. ASSUME HostHarvest PROVE Goal
  BY <1>24 DEF HostHarvest, HarvestHost, cpuVars, portVars, hostVars, simVars, CpuWrites, PortWrites, HostWrites, PlaceWrites, RoutineWrites
<1>25. ASSUME HarvestRaises PROVE Goal
  BY <1>25 DEF HarvestRaises, EndRun, cpuVars, portVars, hostVars, simVars, CpuWrites, PortWrites, HostWrites, PlaceWrites, RoutineWrites
<1>26. ASSUME RetireSlots /\ UNCHANGED <<cpuVars, hostVars, simVars>> PROVE Goal
  BY <1>26 DEF RetireSlots, cpuVars, portVars, hostVars, simVars, CpuWrites, PortWrites, HostWrites, PlaceWrites, RoutineWrites
<1>27. ASSUME EndPlacing /\ UNCHANGED <<cpuVars, hostVars, simVars>> PROVE Goal
  BY <1>27 DEF EndPlacing, cpuVars, portVars, hostVars, simVars, CpuWrites, PortWrites, HostWrites, PlaceWrites, RoutineWrites
<1>28. ASSUME CancelPending /\ UNCHANGED <<cpuVars, hostVars, simVars>> PROVE Goal
  BY <1>28 DEF CancelPending, cpuVars, portVars, hostVars, simVars, CpuWrites, PortWrites, HostWrites, PlaceWrites, RoutineWrites
<1>29. ASSUME NEW c \in Categories, Place(c) /\ UNCHANGED <<cpuVars, hostVars, simVars>> PROVE Goal
  BY <1>29 DEF Place, cpuVars, portVars, hostVars, simVars, CpuWrites, PortWrites, HostWrites, PlaceWrites, RoutineWrites
<1>30. ASSUME NEW c \in Categories, FailHead(c) /\ UNCHANGED <<cpuVars, hostVars, simVars>> PROVE Goal
  BY <1>30 DEF FailHead, cpuVars, portVars, hostVars, simVars, CpuWrites, PortWrites, HostWrites, PlaceWrites, RoutineWrites
<1>31. ASSUME HarvestClean /\ UNCHANGED simVars PROVE Goal
  BY <1>31 DEF HarvestClean, TakeAnswers, cpuVars, portVars, hostVars, simVars, CpuWrites, PortWrites, HostWrites, PlaceWrites, RoutineWrites
<1>32. ASSUME HarvestFault /\ UNCHANGED simVars PROVE Goal
  BY <1>32 DEF HarvestFault, TakeAnswers, cpuVars, portVars, hostVars, simVars, CpuWrites, PortWrites, HostWrites, PlaceWrites, RoutineWrites
<1>33. ASSUME SettleFault PROVE Goal
  BY <1>33 DEF SettleFault, EndRun, GoOn, cpuVars, portVars, hostVars, simVars, CpuWrites, PortWrites, HostWrites, PlaceWrites, RoutineWrites
<1>34. ASSUME SettleSuccess PROVE Goal
  BY <1>34 DEF SettleSuccess, EndRun, cpuVars, portVars, hostVars, simVars, CpuWrites, PortWrites, HostWrites, PlaceWrites, RoutineWrites
<1>35. ASSUME SettleCapped PROVE Goal
  BY <1>35 DEF SettleCapped, EndRun, GoOn, cpuVars, portVars, hostVars, simVars, CpuWrites, PortWrites, HostWrites, PlaceWrites, RoutineWrites
<1>36. ASSUME SettleOn PROVE Goal
  BY <1>36 DEF SettleOn, GoOn, cpuVars, portVars, hostVars, simVars, CpuWrites, PortWrites, HostWrites, PlaceWrites, RoutineWrites
<1>37. ASSUME NextCycle PROVE Goal
  BY <1>37 DEF NextCycle, cpuVars, portVars, hostVars, simVars, CpuWrites, PortWrites, HostWrites, PlaceWrites, RoutineWrites
<1>38. ASSUME CycleCap PROVE Goal
  BY <1>38 DEF CycleCap, cpuVars, portVars, hostVars, simVars, CpuWrites, PortWrites, HostWrites, PlaceWrites, RoutineWrites
<1>39. ASSUME Deadline PROVE Goal
  BY <1>39 DEF Deadline, EndRun, cpuVars, portVars, hostVars, simVars, CpuWrites, PortWrites, HostWrites, PlaceWrites, RoutineWrites
<1>40. ASSUME UNCHANGED vars PROVE Goal
  BY <1>40 DEF vars, cpuVars, portVars, hostVars, simVars
<1> HIDE DEF Goal
<1>41. ASSUME CpuStep PROVE Goal
  BY <1>41, <1>1, <1>2, <1>3, <1>4, <1>5, <1>6, <1>7, <1>8, <1>9, <1>10, <1>11, <1>12, <1>13, <1>14 DEF CpuStep, Commands
<1>42. ASSUME HostStep PROVE Goal
  BY <1>42, <1>16, <1>17, <1>18 DEF HostStep
<1>43. ASSUME GroupStep PROVE Goal
  BY <1>43, <1>19, <1>20, <1>21, <1>22, <1>23 DEF GroupStep
<1>44. ASSUME PortPoll PROVE Goal
  BY <1>44, <1>26, <1>27, <1>28, <1>29, <1>30 DEF PortPoll
<1>45. ASSUME CpuHarvest PROVE Goal
  BY <1>45, <1>31, <1>32 DEF CpuHarvest
<1>46. ASSUME Settle PROVE Goal
  BY <1>46, <1>33, <1>34, <1>35, <1>36 DEF Settle
<1>47. Goal
  BY <1>15, <1>24, <1>25, <1>37, <1>38, <1>39, <1>40, <1>41, <1>42, <1>43, <1>44, <1>45, <1>46 DEF Next
<1> QED
  BY <1>47 DEF Goal

-----------------------------------------------------------------------------
(* Types.                                                                  *)

\* The sets a program defines do not change.
LEMMA SameProgram ==
    ASSUME prog' = prog
    PROVE  /\ Positions' = Positions /\ Launches' = Launches
           /\ Pendings' = Pendings /\ Answers' = Answers
BY DEF Positions, Launches, Pendings, Answers

\* _resolve_pending_dependencies drops what has completed from every need.
LEMMA ResolveFacts ==
    ASSUME pending \in Seq(Pendings), ApartIn(pending), Resolve
    PROVE  /\ pending' \in Seq(Pendings) /\ Len(pending') = Len(pending)
           /\ ApartIn(pending') /\ IdsIn(pending') = IdsIn(pending)
           /\ DOMAIN pending' = DOMAIN pending
           /\ \A r : WaitingIn(pending', r) = IF r \in completions THEN {} ELSE WaitingIn(pending, r)
           /\ \A k \in DOMAIN pending : /\ pending'[k].id = pending[k].id
                                        /\ pending'[k].needs = pending[k].needs \ completions
<1> DEFINE q == [k \in DOMAIN pending |-> [pending[k] EXCEPT !.needs = @ \ completions]]
<1>1. pending' = q
  BY DEF Resolve, Resolved
<1>2. /\ q \in Seq(Pendings) /\ Len(q) = Len(pending) /\ DOMAIN q = DOMAIN pending
      /\ ApartIn(q) /\ IdsIn(q) = IdsIn(pending)
      /\ \A r : WaitingIn(q, r) = IF r \in completions THEN {} ELSE WaitingIn(pending, r)
      /\ \A k \in DOMAIN pending : q[k].id = pending[k].id /\ q[k].needs = pending[k].needs \ completions
  BY ForgetFacts
<1> HIDE DEF q
<1> QED
  BY <1>1, <1>2

\* _release_reference only ever forgets.
LEMMA ReleaseFacts ==
    ASSUME NEW uses, Release(uses)
    PROVE  completions' \subseteq completions /\ reserved' \subseteq reserved /\ handles' \subseteq handles
BY DEF Release

\* The CPU's variables keep their types.
LEMMA CpuTypesStep ==
    ASSUME Types, PendingFresh, [Next]_vars
    PROVE  CpuTypes'
<1>1. /\ prog' = prog /\ prog \in Programs /\ Positions' = Positions /\ Launches' = Launches
      /\ Pendings' = Pendings
  BY Writers, SameProgram DEF Types, SimTypes
<1>2. /\ pending \in Seq(Pendings) /\ ApartIn(pending) /\ Len(pending) \in Nat
      /\ Len(prog) \in Nat /\ Positions = 1 .. Len(prog) /\ Launches \subseteq Positions
  BY <1>1, SeqFacts, ProgramFacts DEF Types, CpuTypes, PendingFresh, ApartIn
<1>3. CASE UNCHANGED cpuVars
  BY <1>1, <1>3 DEF cpuVars, Types, CpuTypes
<1>4. ASSUME Resolve, UNCHANGED startPc \/ startPc' = pc PROVE CpuTypes'
  <2>1. pending' \in Seq(Pendings) /\ Len(pending') = Len(pending)
    BY <1>2, <1>4, ResolveFacts
  <2>2. launch' \in [Positions -> LaunchStates]
    BY <1>4 DEF Resolve, Types, CpuTypes, LaunchStates
  <2>3. completions' \subseteq completions /\ reserved' \subseteq reserved /\ handles' \subseteq handles
    BY <1>4, ReleaseFacts DEF Resolve
  <2>4. UNCHANGED <<pc, active, activeHost, control, fenced>>
    BY <1>4 DEF Resolve
  <2>5. startPc' \in 1..pc
    BY <1>2, <1>4 DEF Types, CpuTypes
  <2> QED
    BY <1>1, <2>1, <2>2, <2>3, <2>4, <2>5 DEF Types, CpuTypes
<1>5. ASSUME NEW op \in Launching, Submit(op) PROVE CpuTypes'
  <2> DEFINE e == [id |-> pc, needs |-> prog[pc].deps]
  <2>1. pc \in Positions /\ pc \in Launches /\ e \in Pendings
    BY <1>1, <1>2, <1>5, ProgramFacts DEF Submit, Here, Types, CpuTypes, Launches, Pendings
  <2>2. Append(pending, e) \in Seq(Pendings) /\ Len(Append(pending, e)) = Len(pending) + 1
    BY <1>2, <2>1, AppendProperties
  <2>3. PendingCapacity \in Nat
    BY DeviceAssumption
  <2>4. pending' \in Seq(Pendings) /\ Len(pending') <= PendingCapacity
    BY <1>2, <1>5, <2>2, <2>3 DEF Submit
  <2>5. launch' \in [Positions -> LaunchStates]
    BY <1>5 DEF Submit, Types, CpuTypes, LaunchStates
  <2>6. pc' \in 1..(Len(prog) + 1) /\ startPc' \in 1..pc'
    BY <1>2, <1>5 DEF Submit, Here, Types, CpuTypes
  <2>7. handles' \subseteq Launches
    BY <1>5, <2>1 DEF Submit, Types, CpuTypes
  <2> QED
    BY <1>1, <1>5, <2>4, <2>5, <2>6, <2>7 DEF Submit, Types, CpuTypes
<1>6. ASSUME Await \/ Return \/ \E op \in Controls : PassControl(op) PROVE CpuTypes'
  <2>1. pc' \in 1..(Len(prog) + 1) /\ startPc' \in 1..pc'
    BY <1>2, <1>6 DEF Await, Return, PassControl, Here, Types, CpuTypes
  <2> QED
    BY <1>1, <1>2, <1>6, <2>1 DEF Await, Return, PassControl, Release, Types, CpuTypes
<1>7. ASSUME NEW op \in Controls, NEW answer \in ControlAnswers, SubmitControl(op, answer)
      PROVE  CpuTypes'
  <2>1. completions' \subseteq completions /\ reserved' \subseteq reserved /\ handles' \subseteq handles
    BY <1>7, ReleaseFacts DEF SubmitControl
  <2>2. control' \in Positions
    BY <1>2, <1>7 DEF SubmitControl, Here, Types, CpuTypes
  <2>3. UNCHANGED <<pc, startPc, pending, active, activeHost, launch, fenced>>
    BY <1>7 DEF SubmitControl
  <2> QED
    BY <1>1, <2>1, <2>2, <2>3 DEF Types, CpuTypes
<1>8. ASSUME NEW why, NEW after \in [Positions -> LaunchStates], EnterFault(why, after),
             UNCHANGED <<pc, startPc>>, active' \subseteq active, activeHost' \subseteq activeHost,
             control' \in {0, control}, fenced' \in BOOLEAN
      PROVE  CpuTypes'
  <2>1. pending' \in Seq(Pendings) /\ Len(pending') = 0
    BY <1>8 DEF EnterFault
  <2>2. launch' \in [Positions -> LaunchStates]
    BY <1>8 DEF EnterFault, LaunchStates
  <2>3. PendingCapacity \in Nat
    BY DeviceAssumption
  <2> QED
    BY <1>1, <1>8, <2>1, <2>2, <2>3 DEF EnterFault, Types, CpuTypes
<1>9. launch \in [Positions -> LaunchStates] /\ fenced \in BOOLEAN
  BY DEF Types, CpuTypes
<1>10. CASE RejectHost
  BY <1>8, <1>9, <1>10 DEF RejectHost
<1>11. CASE EndAdmit
  <2>1. CASE Stuck
    BY <1>8, <1>9, <1>11, <2>1 DEF EndAdmit
  <2>2. CASE ~Stuck
    BY <1>3, <1>11, <2>2 DEF EndAdmit, cpuVars
  <2> QED
    BY <2>1, <2>2
<1>12. CASE Poison
  BY <1>8, <1>9, <1>12 DEF Poison
<1>13. CASE CycleCap
  BY <1>8, <1>9, <1>13 DEF CycleCap
<1>14. AfterHarvest \in [Positions -> LaunchStates]
  BY <1>9 DEF AfterHarvest, LaunchStates
<1>15. CASE HarvestFault
  BY <1>8, <1>9, <1>14, <1>15 DEF HarvestFault, TakeAnswers
<1>16. CASE HarvestClean
  <2>1. Good \cap {r \in Launches : TRUE} \subseteq Launches /\ Good \subseteq Launches
    BY DEF Good, Types, PortTypes, HostTypes, Answers
  <2> QED
    BY <1>1, <1>9, <1>14, <1>16, <2>1 DEF HarvestClean, TakeAnswers, Types, CpuTypes
<1>17. ASSUME Take, active' \subseteq active \cup {Ready}, activeHost' \subseteq activeHost \cup {Ready}
       PROVE  CpuTypes'
  <2>1. Ready \in Launches /\ ReadyIndex \in 1 .. Len(pending) /\ pending[ReadyIndex].needs = {}
    BY <1>1, <1>2, <1>17, ReadyFacts DEF Take, CanTry, Open
  <2>2. pending' \in Seq(Pendings) /\ Len(pending') = Len(pending) - 1
    BY <1>2, <1>17, <2>1, LeaveFacts DEF Take
  <2>3. launch' \in [Positions -> LaunchStates]
    BY <1>9, <1>17 DEF Take, LaunchStates
  <2>4. Len(pending') <= PendingCapacity
    BY <1>2, <2>2, DeviceAssumption DEF Types, CpuTypes
  <2> QED
    BY <1>1, <1>17, <2>1, <2>2, <2>3, <2>4 DEF Take, Types, CpuTypes
<1>18. CASE AdmitGroup \/ AdmitHost
  BY <1>17, <1>18 DEF AdmitGroup, AdmitHost
<1>19. CASE BeginStep \/ BeginAdmit
  BY <1>4, <1>19 DEF BeginStep, BeginAdmit
<1> QED
  BY <1>3, <1>5, <1>6, <1>7, <1>10, <1>11, <1>12, <1>13, <1>15, <1>16, <1>18, <1>19, Writers DEF CpuWrites

\* The launch that _admit_ready_launches hands over.
LEMMA TakeFacts ==
    ASSUME Types, PendingFresh, Take
    PROVE  /\ ReadyIndex \in 1 .. Len(pending) /\ pending[ReadyIndex].needs = {}
           /\ Ready \in Launches /\ Ready \in Positions /\ Ready \in PendingIds
           /\ Ready \notin active /\ Ready \notin activeHost
           /\ pending' \in Seq(Pendings) /\ Len(pending') = Len(pending) - 1
           /\ ApartIn(pending') /\ IdsIn(pending') = IdsIn(pending) \ {Ready}
           /\ \A r : WaitingIn(pending', r) = WaitingIn(pending, r)
           /\ \A k \in DOMAIN pending' : \E j \in DOMAIN pending : pending'[k] = pending[j]
<1>1. prog \in Programs /\ pending \in Seq(Pendings) /\ ApartIn(pending) /\ ReadyIndex # 0
  BY DEF Types, SimTypes, CpuTypes, PendingFresh, ApartIn, Take, CanTry, Open
<1>2. /\ ReadyIndex \in 1 .. Len(pending) /\ pending[ReadyIndex].needs = {}
      /\ Ready \in Launches /\ Ready \in Positions /\ Ready \in PendingIds
  BY <1>1, ReadyFacts
<1>3. Ready \notin active /\ Ready \notin activeHost
  BY <1>2 DEF PendingFresh
<1>4. pending' = RemoveAt(pending, ReadyIndex) /\ Ready = pending[ReadyIndex].id
  BY DEF Take, Ready
<1>5. /\ RemoveAt(pending, ReadyIndex) \in Seq(Pendings)
      /\ Len(RemoveAt(pending, ReadyIndex)) = Len(pending) - 1
      /\ ApartIn(RemoveAt(pending, ReadyIndex))
      /\ IdsIn(RemoveAt(pending, ReadyIndex)) = IdsIn(pending) \ {pending[ReadyIndex].id}
      /\ \A r : WaitingIn(RemoveAt(pending, ReadyIndex), r) = WaitingIn(pending, r)
      /\ \A k \in DOMAIN RemoveAt(pending, ReadyIndex) :
            \E j \in DOMAIN pending : RemoveAt(pending, ReadyIndex)[k] = pending[j]
  BY <1>1, <1>2, LeaveFacts
<1> QED
  BY <1>2, <1>3, <1>4, <1>5

\* Removing the head of a category shortens the queue.
LEMMA QueueLess ==
    ASSUME PortTypes, NEW i \in 1 .. Len(queue)
    PROVE  /\ RemoveAt(queue, i) \in Seq(Launches) /\ Len(RemoveAt(queue, i)) <= PortCapacity
<1>1. queue \in Seq(Launches) /\ Len(queue) <= PortCapacity /\ PortCapacity \in Nat /\ Len(queue) \in Nat
  BY DeviceAssumption, SeqFacts DEF PortTypes
<1>2. RemoveAt(queue, i) \in Seq(Launches) /\ Len(RemoveAt(queue, i)) = Len(queue) - 1
  BY <1>1, RemoveAtSeq
<1> QED
  BY <1>1, <1>2

\* The port's variables keep their types.
LEMMA PortTypesStep ==
    ASSUME Types, PendingFresh, [Next]_vars
    PROVE  PortTypes'
<1>1. /\ prog' = prog /\ prog \in Programs /\ Positions' = Positions /\ Launches' = Launches
      /\ Answers' = Answers /\ Launches \subseteq Positions
  BY Writers, SameProgram, ProgramFacts DEF Types, SimTypes
<1>2. PortTypes
  BY DEF Types
<1>3. \A r \in Launches, g \in BOOLEAN : Answer(r, g) \in Answers
  BY DEF Answer, Answers
<1>4. CASE UNCHANGED portVars
  BY <1>1, <1>2, <1>4 DEF portVars, PortTypes
<1>5. ASSUME NEW op \in Controls, NEW answer \in ControlAnswers, Commands(op, answer) PROVE PortTypes'
  <2>1. command' \in CommandStates
    BY <1>5 DEF Commands, SubmitControl, ControlAnswers, CommandStates
  <2> QED
    BY <1>1, <1>2, <1>5, <2>1 DEF Commands, PortTypes
<1>6. CASE AdmitGroup
  <2>1. Ready \in Launches
    BY <1>6, TakeFacts DEF AdmitGroup
  <2>2. CASE RejectSubmit(Ready)
    <3>1. answers' \subseteq Answers /\ portFault' \in BOOLEAN
      BY <1>2, <1>3, <2>1, <2>2 DEF RejectSubmit, PortTypes
    <3> QED
      BY <1>1, <1>2, <2>2, <3>1 DEF RejectSubmit, PortTypes
  <2>3. CASE QueueSubmit(Ready)
    <3>1. queue' \in Seq(Launches) /\ Len(queue') <= PortCapacity
      BY <1>2, <2>1, <2>3, AppendProperties, SeqFacts, DeviceAssumption DEF QueueSubmit, PortTypes
    <3> QED
      BY <1>1, <1>2, <2>3, <3>1 DEF QueueSubmit, PortTypes
  <2> QED
    BY <1>6, <2>2, <2>3 DEF AdmitGroup
<1>7. ASSUME NEW next \in CommandStates, ProfileStep(next) PROVE PortTypes'
  <2>1. held' \in BOOLEAN /\ retry' \in BOOLEAN /\ command' \in CommandStates
    BY <1>2, <1>7 DEF ProfileStep, PortTypes
  <2> QED
    BY <1>1, <1>2, <1>7, <2>1 DEF ProfileStep, PortTypes
<1>8. ASSUME NEW F, NEW X, Contexts(F, X) PROVE PortTypes'
  <2>1. context' \in [Positions -> ContextStates]
    BY <1>2, <1>8 DEF Contexts, PortTypes, ContextStates
  <2>2. reset' \in ResetStates /\ retry' \in BOOLEAN
    BY <1>2, <1>8 DEF Contexts, PortTypes, ResetStates
  <2> QED
    BY <1>1, <1>2, <1>8, <2>1, <2>2 DEF Contexts, PortTypes
<1>9. CASE ResetStep
  <2>1. NextReset(reset) \in ResetStates
    BY DEF NextReset, ResetStates
  <2>2. CancelCommand \in CommandStates
    BY <1>2 DEF CancelCommand, CommandStates, PortTypes
  <2>3. reset' \in ResetStates /\ command' \in CommandStates /\ retry' \in BOOLEAN
    BY <1>2, <1>9, <2>1, <2>2 DEF ResetStep, ResetPass, ResetFreeze, ResetDrain, ResetRelease, PortTypes
  <2>4. context' \in [Positions -> ContextStates]
    BY <1>2, <1>9 DEF ResetStep, ResetPass, ResetFreeze, ResetDrain, ResetRelease, PortTypes, ContextStates
  <2> QED
    BY <1>1, <1>2, <1>9, <2>3, <2>4 DEF ResetStep, PortTypes
<1>10. CASE RetireSlots
  <2> DEFINE gone == {s \in Slots : slots[s] # NoSlot /\ Leaves(slots[s])}
             out == {Answer(slots[s], ~SeqFaulted(slots[s]) /\ reset = "IDLE") : s \in gone}
  <2>1. out \subseteq Answers
    BY <1>2, <1>3 DEF PortTypes
  <2>2. slots' = [s \in Slots |-> IF s \in gone THEN NoSlot ELSE slots[s]] /\ answers' = answers \cup out
    BY <1>10 DEF RetireSlots
  <2>3. portFault' \in BOOLEAN /\ retry' \in BOOLEAN
    BY <1>2, <1>10 DEF RetireSlots, PortTypes
  <2>4. UNCHANGED <<queue, context, command, held, reset>>
    BY <1>10 DEF RetireSlots
  <2>5. slots' \in [Slots -> Launches \cup {NoSlot}]
    BY <1>2, <2>2 DEF PortTypes
  <2> HIDE DEF gone, out
  <2> QED
    BY <1>1, <1>2, <2>1, <2>2, <2>3, <2>4, <2>5 DEF PortTypes
<1>11. CASE EndPlacing
  BY <1>1, <1>2, <1>11 DEF EndPlacing, PortTypes
<1>12. CASE CancelPending
  <2>1. Failed(ToSet(queue)) \subseteq Answers
    BY <1>2, <1>3, SeqFacts DEF Failed, ToSet, PortTypes
  <2>2. queue' \in Seq(Launches) /\ Len(queue') <= PortCapacity
    BY <1>12, DeviceAssumption DEF CancelPending
  <2>3. portFault' \in BOOLEAN
    BY <1>2, <1>12 DEF CancelPending, PortTypes
  <2> QED
    BY <1>1, <1>2, <1>12, <2>1, <2>2, <2>3 DEF CancelPending, PortTypes
<1>13. ASSUME NEW c \in Categories, Place(c) PROVE PortTypes'
  <2>1. HeadOf(c) # 0 /\ Vacant(HeadOf(c)) # {}
    BY <1>13 DEF Place, Admissible
  <2>2. HeadOf(c) \in Launches /\ HeadIndex(c) \in 1 .. Len(queue)
    BY <1>1, <1>2, <2>1, HeadFacts DEF PortTypes
  <2>3. queue' \in Seq(Launches) /\ Len(queue') <= PortCapacity
    BY <1>2, <1>13, <2>2, QueueLess DEF Place
  <2>4. slots' \in [Slots -> Launches \cup {NoSlot}]
    BY <1>2, <1>13, <2>2 DEF Place, PortTypes
  <2>5. context' \in [Positions -> ContextStates]
    BY <1>2, <1>13 DEF Place, PortTypes, ContextStates
  <2> QED
    BY <1>1, <1>2, <1>13, <2>3, <2>4, <2>5 DEF Place, PortTypes
<1>14. ASSUME NEW c \in Categories, FailHead(c) PROVE PortTypes'
  <2>1. HeadOf(c) # 0
    BY <1>14 DEF FailHead, Doomed
  <2>2. HeadOf(c) \in Launches /\ HeadIndex(c) \in 1 .. Len(queue)
    BY <1>1, <1>2, <2>1, HeadFacts DEF PortTypes
  <2>3. queue' \in Seq(Launches) /\ Len(queue') <= PortCapacity
    BY <1>2, <1>14, <2>2, QueueLess DEF FailHead
  <2>4. answers' \subseteq Answers
    BY <1>2, <1>3, <1>14, <2>2 DEF FailHead, PortTypes
  <2> QED
    BY <1>1, <1>2, <1>14, <2>3, <2>4 DEF FailHead, PortTypes
<1>15. CASE HarvestClean \/ HarvestFault
  <2>1. TakeAnswers
    BY <1>15 DEF HarvestClean, HarvestFault
  <2>2. command' \in CommandStates /\ portFault' \in BOOLEAN
    BY <1>2, <2>1 DEF TakeAnswers, PolledCommand, PolledPortFault, CommandStates, PortTypes
  <2> QED
    BY <1>1, <1>2, <2>1, <2>2 DEF TakeAnswers, PortTypes
<1>16. CASE SettleFault \/ CycleCap
  <2>1. reset' \in ResetStates
    BY <1>2, <1>16 DEF SettleFault, CycleCap, BeginDrain, PortTypes, ResetStates
  <2> QED
    BY <1>1, <1>2, <1>16, <2>1 DEF SettleFault, CycleCap, PortTypes
<1> QED
  BY <1>4, <1>5, <1>6, <1>7, <1>8, <1>9, <1>10, <1>11, <1>12, <1>13, <1>14, <1>15, <1>16, Writers DEF PortWrites

\* A command that is issued is one of those a routine waits for.
LEMMA StartedFacts ==
    ASSUME NEW c \in HostCommands, c # "illegal"
    PROVE  Started(c) \in RoutineStates \ {"none", "cancel", "cancelled", "acked", "moving", "xfer", "done"}
BY DEF Started, HostCommands, RoutineStates

\* The session's variables keep their types.
LEMMA HostTypesStep ==
    ASSUME Types, PendingFresh, LaunchAgreement, [Next]_vars
    PROVE  HostTypes'
<1>1. /\ prog' = prog /\ prog \in Programs /\ Positions' = Positions /\ Launches' = Launches
      /\ Answers' = Answers
  BY Writers, SameProgram DEF Types, SimTypes
<1>2. HostTypes
  BY DEF Types
<1>3. \A r \in Routines, g \in BOOLEAN : HostAnswer(r, g) \in Answers
  BY DEF HostAnswer, Answers, LaunchAgreement, HostAgreement, Types, CpuTypes
<1>4. CASE UNCHANGED <<doing, left, hostAnswers>>
  BY <1>1, <1>2, <1>4 DEF HostTypes
<1>5. CASE AdmitHost
  <2>1. Ready \in Positions
    BY <1>5, TakeFacts DEF AdmitHost
  <2>2. prog[Ready].cmds \in Seq(HostCommands)
    BY <1>1, <2>1, ProgramFacts DEF Operation
  <2>3. doing' \in [Positions -> RoutineStates] /\ left' \in [Positions -> Seq(HostCommands)]
    BY <1>2, <1>5, <2>2 DEF AdmitHost, HostSubmit, HostTypes, RoutineStates
  <2> QED
    BY <1>1, <1>2, <1>5, <2>3 DEF AdmitHost, HostSubmit, HostTypes
<1>6. CASE FetchCommand
  <2>1. PICK r \in Routines :
           /\ left[r] # <<>> /\ left[r][1] # "illegal"
           /\ doing' = [doing EXCEPT ![r] = Started(left[r][1])]
           /\ left' = [left EXCEPT ![r] = Tail(@)]
    BY <1>6 DEF FetchCommand
  <2>2. left[r] \in Seq(HostCommands)
    BY <1>2 DEF HostTypes, Routines
  <2>3. left[r][1] \in HostCommands /\ Tail(left[r]) \in Seq(HostCommands)
    BY <2>1, <2>2, HeadTailProperties, SeqFacts
  <2>4. doing' \in [Positions -> RoutineStates]
    BY <1>2, <2>1, <2>3, StartedFacts DEF HostTypes
  <2>5. left' \in [Positions -> Seq(HostCommands)]
    BY <1>2, <2>1, <2>3 DEF HostTypes
  <2> QED
    BY <1>1, <1>2, <1>6, <2>4, <2>5 DEF FetchCommand, HostTypes
<1>7. CASE FetchNothing
  <2>1. PICK r \in Routines : \E g \in BOOLEAN : Retire(r, g)
    BY <1>7 DEF FetchNothing
  <2>2. PICK g \in BOOLEAN : Retire(r, g)
    BY <2>1
  <2>3. doing' \in [Positions -> RoutineStates] /\ hostAnswers' \subseteq Answers
    BY <1>2, <1>3, <2>2 DEF Retire, HostTypes, RoutineStates
  <2> QED
    BY <1>1, <1>2, <1>7, <2>3 DEF FetchNothing, HostTypes
<1>8. ASSUME NEW S, Transfers(S) PROVE HostTypes'
  <2>1. doing' \in [Positions -> RoutineStates]
    BY <1>2, <1>8 DEF Transfers, Elapse, HostTypes, RoutineStates
  <2> QED
    BY <1>1, <1>2, <1>8, <2>1 DEF Transfers, HostTypes
<1>9. CASE ResetStep
  <2>1. doing' \in [Positions -> RoutineStates]
    BY <1>2, <1>9 DEF ResetStep, ResetRelease, HostTypes, RoutineStates
  <2> QED
    BY <1>1, <1>2, <1>9, <2>1 DEF ResetStep, HostTypes
<1>10. CASE HostHarvest
  <2>1. Delivered \cup Lost \subseteq Routines
    BY DEF Delivered, Lost, Routines
  <2>2. doing' \in [Positions -> RoutineStates]
    BY <1>2, <1>10 DEF HostHarvest, HarvestHost, HostTypes, RoutineStates
  <2>3. hostAnswers' \subseteq Answers
    BY <1>2, <1>3, <1>10, <2>1 DEF HostHarvest, HarvestHost, HostTypes
  <2> QED
    BY <1>1, <1>2, <1>10, <2>2, <2>3 DEF HostHarvest, HarvestHost, HostTypes
<1>11. ASSUME Abort PROVE HostTypes'
  <2>1. doing' \in [Positions -> RoutineStates]
    BY <1>2, <1>11 DEF Abort, HostTypes, RoutineStates
  <2>2. hostAnswers' \subseteq Answers
    BY <1>2, <1>3, <1>11 DEF Abort, HostTypes
  <2> QED
    BY <1>1, <1>2, <1>11, <2>1, <2>2 DEF Abort, HostTypes
<1>12. CASE Poison \/ SettleFault
  BY <1>4, <1>11, <1>12 DEF Poison, SettleFault, hostVars
<1>13. CASE HarvestClean \/ HarvestFault
  BY <1>1, <1>2, <1>13 DEF HarvestClean, HarvestFault, TakeAnswers, HostTypes
<1> QED
  BY <1>4, <1>5, <1>6, <1>7, <1>8, <1>9, <1>10, <1>12, <1>13, Writers DEF HostWrites

\* The clock of the co-simulation keeps its types, and a run has a result when it
\* has ended.
LEMMA SimTypesStep ==
    ASSUME Types, [Next]_vars
    PROVE  SimTypes'
<1>a. SimTypes /\ prog' = prog /\ IssueWidth \in Nat \ {0}
  BY Writers, DeviceAssumption DEF Types
<1>1. ASSUME BeginStep /\ UNCHANGED <<portVars, hostVars, simVars>> PROVE SimTypes'
  BY <1>1, <1>a DEF BeginStep, Resolve, SimTypes, Phases, Outcomes, simVars
<1>2. ASSUME IdleStep /\ UNCHANGED <<portVars, hostVars, simVars>> PROVE SimTypes'
  BY <1>2, <1>a DEF IdleStep, SimTypes, Phases, Outcomes, simVars
<1>3. ASSUME Await /\ UNCHANGED <<portVars, hostVars, simVars>> PROVE SimTypes'
  BY <1>3, <1>a DEF Await, Here, SimTypes, Phases, Outcomes, simVars
<1>4. ASSUME Return /\ UNCHANGED <<portVars, hostVars, simVars>> PROVE SimTypes'
  BY <1>4, <1>a DEF Return, Here, SimTypes, Phases, Outcomes, simVars
<1>5. ASSUME EndIssue /\ UNCHANGED <<portVars, hostVars, simVars>> PROVE SimTypes'
  BY <1>5, <1>a DEF EndIssue, SimTypes, Phases, Outcomes, simVars
<1>6. ASSUME BeginAdmit /\ UNCHANGED <<portVars, hostVars, simVars>> PROVE SimTypes'
  BY <1>6, <1>a DEF BeginAdmit, Resolve, SimTypes, Phases, Outcomes, simVars
<1>7. ASSUME RejectHost /\ UNCHANGED <<portVars, hostVars, simVars>> PROVE SimTypes'
  BY <1>7, <1>a DEF RejectHost, CanTry, Open, SimTypes, Phases, Outcomes, simVars
<1>8. ASSUME EndAdmit /\ UNCHANGED <<portVars, hostVars, simVars>> PROVE SimTypes'
  BY <1>8, <1>a DEF EndAdmit, SimTypes, Phases, Outcomes, simVars
<1>9. ASSUME NEW op \in Launching, Submit(op) /\ UNCHANGED <<portVars, hostVars, simVars>> PROVE SimTypes'
  BY <1>9, <1>a DEF Submit, Here, SimTypes, Phases, Outcomes, simVars
<1>10. ASSUME NEW op \in Controls, ControlBusy(op) /\ UNCHANGED <<portVars, hostVars, simVars>> PROVE SimTypes'
  BY <1>10, <1>a DEF ControlBusy, Here, SimTypes, Phases, Outcomes, simVars
<1>11. ASSUME NEW op \in Controls, PassControl(op) /\ UNCHANGED <<portVars, hostVars, simVars>> PROVE SimTypes'
  BY <1>11, <1>a DEF PassControl, Here, SimTypes, Phases, Outcomes, simVars
<1>12. ASSUME NEW op \in Controls, NEW answer \in ControlAnswers, Commands(op, answer) PROVE SimTypes'
  BY <1>12, <1>a DEF Commands, SubmitControl, Here, CanControl, SimTypes, Phases, Outcomes, simVars
<1>13. ASSUME AdmitGroup /\ UNCHANGED <<hostVars, simVars>> PROVE SimTypes'
  BY <1>13, <1>a DEF AdmitGroup, Take, CanTry, Open, SimTypes, Phases, Outcomes, simVars
<1>14. ASSUME AdmitHost /\ UNCHANGED <<portVars, simVars>> PROVE SimTypes'
  BY <1>14, <1>a DEF AdmitHost, Take, CanTry, Open, SimTypes, Phases, Outcomes, simVars
<1>15. ASSUME BeginHost PROVE SimTypes'
  BY <1>15, <1>a DEF BeginHost, SimTypes, Phases, Outcomes, simVars
<1>16. ASSUME FetchCommand /\ UNCHANGED <<cpuVars, portVars, simVars>> PROVE SimTypes'
  BY <1>16, <1>a DEF FetchCommand, SimTypes, Phases, Outcomes, simVars
<1>17. ASSUME FetchNothing /\ UNCHANGED <<cpuVars, portVars, simVars>> PROVE SimTypes'
  BY <1>17, <1>a DEF FetchNothing, SimTypes, Phases, Outcomes, simVars
<1>18. ASSUME EndHostStep /\ UNCHANGED <<cpuVars, portVars, simVars>> PROVE SimTypes'
  BY <1>18, <1>a DEF EndHostStep, SimTypes, Phases, Outcomes, simVars
<1>19. ASSUME NEW S \in SUBSET CanElapse, Transfers(S) PROVE SimTypes'
  BY <1>19, <1>a DEF Transfers, SimTypes, Phases, Outcomes, simVars
<1>20. ASSUME NEW next \in CommandStates, ProfileStep(next) PROVE SimTypes'
  BY <1>20, <1>a DEF ProfileStep, SimTypes, Phases, Outcomes, simVars
<1>21. ASSUME NEW F \in SUBSET Running, NEW X \in SUBSET (Running \ F), Contexts(F, X) PROVE SimTypes'
  BY <1>21, <1>a DEF Contexts, SimTypes, Phases, Outcomes, simVars
<1>22. ASSUME ResetStep PROVE SimTypes'
  BY <1>22, <1>a DEF ResetStep, SimTypes, Phases, Outcomes, simVars
<1>23. ASSUME Poison PROVE SimTypes'
  BY <1>23, <1>a DEF Poison, EndRun, SimTypes, Phases, Outcomes, simVars
<1>24. ASSUME HostHarvest PROVE SimTypes'
  BY <1>24, <1>a DEF HostHarvest, HarvestHost, SimTypes, Phases, Outcomes, simVars
<1>25. ASSUME HarvestRaises PROVE SimTypes'
  BY <1>25, <1>a DEF HarvestRaises, EndRun, SimTypes, Phases, Outcomes, simVars
<1>26. ASSUME RetireSlots /\ UNCHANGED <<cpuVars, hostVars, simVars>> PROVE SimTypes'
  BY <1>26, <1>a DEF RetireSlots, SimTypes, Phases, Outcomes, simVars
<1>27. ASSUME EndPlacing /\ UNCHANGED <<cpuVars, hostVars, simVars>> PROVE SimTypes'
  BY <1>27, <1>a DEF EndPlacing, SimTypes, Phases, Outcomes, simVars
<1>28. ASSUME CancelPending /\ UNCHANGED <<cpuVars, hostVars, simVars>> PROVE SimTypes'
  BY <1>28, <1>a DEF CancelPending, SimTypes, Phases, Outcomes, simVars
<1>29. ASSUME NEW c \in Categories, Place(c) /\ UNCHANGED <<cpuVars, hostVars, simVars>> PROVE SimTypes'
  BY <1>29, <1>a DEF Place, Attempting, SimTypes, Phases, Outcomes, simVars
<1>30. ASSUME NEW c \in Categories, FailHead(c) /\ UNCHANGED <<cpuVars, hostVars, simVars>> PROVE SimTypes'
  BY <1>30, <1>a DEF FailHead, Attempting, SimTypes, Phases, Outcomes, simVars
<1>31. ASSUME HarvestClean /\ UNCHANGED simVars PROVE SimTypes'
  BY <1>31, <1>a DEF HarvestClean, TakeAnswers, SimTypes, Phases, Outcomes, simVars
<1>32. ASSUME HarvestFault /\ UNCHANGED simVars PROVE SimTypes'
  BY <1>32, <1>a DEF HarvestFault, TakeAnswers, SimTypes, Phases, Outcomes, simVars
<1>33. ASSUME SettleFault PROVE SimTypes'
  BY <1>33, <1>a DEF SettleFault, EndRun, GoOn, SimTypes, Phases, Outcomes, simVars
<1>34. ASSUME SettleSuccess PROVE SimTypes'
  BY <1>34, <1>a DEF SettleSuccess, EndRun, SimTypes, Phases, Outcomes, simVars
<1>35. ASSUME SettleCapped PROVE SimTypes'
  BY <1>35, <1>a DEF SettleCapped, EndRun, GoOn, SimTypes, Phases, Outcomes, simVars
<1>36. ASSUME SettleOn PROVE SimTypes'
  BY <1>36, <1>a DEF SettleOn, GoOn, SimTypes, Phases, Outcomes, simVars
<1>37. ASSUME NextCycle PROVE SimTypes'
  BY <1>37, <1>a DEF NextCycle, SimTypes, Phases, Outcomes, simVars
<1>38. ASSUME CycleCap PROVE SimTypes'
  BY <1>38, <1>a DEF CycleCap, SimTypes, Phases, Outcomes, simVars
<1>39. ASSUME Deadline PROVE SimTypes'
  BY <1>39, <1>a DEF Deadline, EndRun, SimTypes, Phases, Outcomes, simVars
<1>40. ASSUME UNCHANGED vars PROVE SimTypes'
  BY <1>40, <1>a DEF vars, simVars, SimTypes
<1>41. ASSUME CpuStep PROVE SimTypes'
  BY <1>41, <1>1, <1>2, <1>3, <1>4, <1>5, <1>6, <1>7, <1>8, <1>9, <1>10, <1>11, <1>12, <1>13, <1>14 DEF CpuStep, Commands
<1>42. ASSUME HostStep PROVE SimTypes'
  BY <1>42, <1>16, <1>17, <1>18 DEF HostStep
<1>43. ASSUME GroupStep PROVE SimTypes'
  BY <1>43, <1>19, <1>20, <1>21, <1>22, <1>23 DEF GroupStep
<1>44. ASSUME PortPoll PROVE SimTypes'
  BY <1>44, <1>26, <1>27, <1>28, <1>29, <1>30 DEF PortPoll
<1>45. ASSUME CpuHarvest PROVE SimTypes'
  BY <1>45, <1>31, <1>32 DEF CpuHarvest
<1>46. ASSUME Settle PROVE SimTypes'
  BY <1>46, <1>33, <1>34, <1>35, <1>36 DEF Settle
<1> QED
  BY <1>15, <1>24, <1>25, <1>37, <1>38, <1>39, <1>40, <1>41, <1>42, <1>43, <1>44, <1>45, <1>46 DEF Next

-----------------------------------------------------------------------------
(* Every launch is at one place.                                           *)

Unrepeated(q) == \A j, k \in DOMAIN q : q[j] = q[k] => j = k

\* A queue without one of its launches.
LEMMA QueueRemove ==
    ASSUME NEW q \in Seq(Launches), Unrepeated(q), NEW i \in 1 .. Len(q)
    PROVE  ToSet(RemoveAt(q, i)) = ToSet(q) \ {q[i]} /\ Unrepeated(RemoveAt(q, i))
<1>1. Distinct(q)
  BY SeqFacts DEF Unrepeated, Distinct
<1>2. Distinct(RemoveAt(q, i)) /\ Range(RemoveAt(q, i)) = Range(q) \ {q[i]} /\ RemoveAt(q, i) \in Seq(Launches)
  BY <1>1, RemoveAtDistinct, RemoveAtSeq
<1>3. DOMAIN RemoveAt(q, i) = 1 .. Len(RemoveAt(q, i))
  BY <1>2, SeqFacts
<1> QED
  BY <1>2, <1>3 DEF Unrepeated, Distinct, Range, ToSet

\* A queue with one more.
LEMMA QueueAppend ==
    ASSUME NEW q \in Seq(Launches), Unrepeated(q), NEW r \in Launches, r \notin ToSet(q)
    PROVE  ToSet(Append(q, r)) = ToSet(q) \cup {r} /\ Unrepeated(Append(q, r))
<1>1. Distinct(q) /\ r \notin Range(q)
  BY SeqFacts DEF Unrepeated, Distinct, Range, ToSet
<1>2. Distinct(Append(q, r)) /\ Range(Append(q, r)) = Range(q) \cup {r} /\ Append(q, r) \in Seq(Launches)
  BY <1>1, AppendDistinct
<1>3. DOMAIN Append(q, r) = 1 .. Len(Append(q, r))
  BY <1>2, SeqFacts
<1> QED
  BY <1>2, <1>3 DEF Unrepeated, Distinct, Range, ToSet

\* What harvest_completions polls are the answers of both parties.
LEMMA Polled ==
    ASSUME Types
    PROVE  Good \cup Bad = Ids(answers) \cup Ids(hostAnswers)
<1>1. \A a \in answers \cup hostAnswers : a.ok \in BOOLEAN
  BY DEF Types, PortTypes, HostTypes, Answers
<1>2. ASSUME NEW x \in Good \cup Bad PROVE x \in Ids(answers) \cup Ids(hostAnswers)
  BY <1>2 DEF Good, Bad, Ids
<1>3. ASSUME NEW x \in Ids(answers) \cup Ids(hostAnswers) PROVE x \in Good \cup Bad
  <2>1. PICK a \in answers \cup hostAnswers : a.id = x
    BY <1>3 DEF Ids
  <2> QED
    BY <1>1, <2>1 DEF Good, Bad
<1> QED
  BY <1>2, <1>3

\* A launch of the Group is queued, in a slot or answered.
LEMMA PortAgreementStep ==
    ASSUME Types, PendingFresh, LaunchAgreement, [Next]_vars
    PROVE  PortAgreement'
<1>1. /\ prog \in Programs /\ queue \in Seq(Launches) /\ Unrepeated(queue) /\ OnePerId(answers)
      /\ slots \in [Slots -> Launches \cup {NoSlot}]
      /\ active = ToSet(queue) \cup Occupants \cup Ids(answers)
      /\ ToSet(queue) \cap Occupants = {} /\ Ids(answers) \cap (ToSet(queue) \cup Occupants) = {}
      /\ \A s, t \in Slots : slots[s] = slots[t] => s = t \/ slots[s] = NoSlot
  BY DEF Types, SimTypes, PortTypes, LaunchAgreement, PortAgreement, Unrepeated
<1>2. ToSet(queue) \subseteq Launches /\ NoSlot \notin Launches
  BY <1>1, SeqFacts, ProgramFacts DEF ToSet
<1>3. CASE UNCHANGED <<active, queue, slots, answers>>
  BY <1>3 DEF LaunchAgreement, PortAgreement, Occupants
<1>4. ASSUME NEW A, NEW r, r \notin Ids(A), OnePerId(A)
      PROVE  /\ Ids(A \cup {Answer(r, FALSE)}) = Ids(A) \cup {r}
             /\ OnePerId(A \cup {Answer(r, FALSE)})
  <2>1. Answer(r, FALSE).id = r
    BY DEF Answer
  <2> QED
    BY <1>4, <2>1 DEF Ids, OnePerId
<1>5. CASE AdmitGroup
  <2>1. Ready \in Launches /\ Ready \notin active
    BY <1>5, TakeFacts DEF AdmitGroup
  <2>2. active' = active \cup {Ready}
    BY <1>5 DEF AdmitGroup
  <2>3. CASE RejectSubmit(Ready)
    <3>1. answers' = answers \cup {Answer(Ready, FALSE)} /\ queue' = queue /\ slots' = slots
      BY <2>3 DEF RejectSubmit
    <3>2. Ids(answers') = Ids(answers) \cup {Ready} /\ OnePerId(answers')
      BY <1>1, <1>4, <2>1, <3>1
    <3>3. Occupants' = Occupants
      BY <3>1 DEF Occupants
    <3> QED
      BY <1>1, <2>1, <2>2, <3>1, <3>2, <3>3 DEF PortAgreement, Unrepeated
  <2>4. CASE QueueSubmit(Ready)
    <3>1. queue' = Append(queue, Ready) /\ answers' = answers /\ slots' = slots
      BY <2>4 DEF QueueSubmit
    <3>2. ToSet(queue') = ToSet(queue) \cup {Ready} /\ Unrepeated(queue')
      BY <1>1, <2>1, <3>1, QueueAppend
    <3>3. Occupants' = Occupants
      BY <3>1 DEF Occupants
    <3> QED
      BY <1>1, <2>1, <2>2, <3>1, <3>2, <3>3 DEF PortAgreement, Unrepeated
  <2> QED
    BY <1>5, <2>3, <2>4 DEF AdmitGroup
<1>6. CASE RetireSlots /\ UNCHANGED cpuVars
  <2> DEFINE gone == {s \in Slots : slots[s] # NoSlot /\ Leaves(slots[s])}
             out == {Answer(slots[s], ~SeqFaulted(slots[s]) /\ reset = "IDLE") : s \in gone}
             away == {slots[s] : s \in gone}
  <2>1. /\ slots' = [s \in Slots |-> IF s \in gone THEN NoSlot ELSE slots[s]]
        /\ answers' = answers \cup out /\ queue' = queue /\ active' = active
    BY <1>6 DEF RetireSlots, cpuVars
  <2>2. away \subseteq Occupants /\ Occupants' = Occupants \ away
    <3>1. \A s \in Slots : s \in gone <=> slots[s] \in away
      BY <1>1
    <3>2. away \subseteq Occupants
      BY DEF Occupants
    <3>3. ASSUME NEW x \in Occupants' PROVE x \in Occupants \ away
      <4>1. PICK s \in Slots : slots'[s] = x /\ x # NoSlot
        BY <3>3 DEF Occupants
      <4>2. s \notin gone /\ slots[s] = x
        BY <2>1, <4>1
      <4> QED
        BY <3>1, <4>1, <4>2 DEF Occupants
    <3>4. ASSUME NEW x \in Occupants, x \notin away PROVE x \in Occupants'
      <4>1. PICK s \in Slots : slots[s] = x /\ x # NoSlot
        BY <3>4 DEF Occupants
      <4>2. slots'[s] = x
        BY <2>1, <3>1, <3>4, <4>1
      <4> QED
        BY <4>1, <4>2 DEF Occupants
    <3> QED
      BY <3>2, <3>3, <3>4
  <2>3. Ids(out) = away
    <3>1. \A s : Answer(slots[s], ~SeqFaulted(slots[s]) /\ reset = "IDLE").id = slots[s]
      BY DEF Answer
    <3>2. ASSUME NEW x \in Ids(out) PROVE x \in away
      BY <3>1, <3>2 DEF Ids
    <3>3. ASSUME NEW x \in away PROVE x \in Ids(out)
      BY <3>1, <3>3 DEF Ids
    <3> QED
      BY <3>2, <3>3
  <2>4. OnePerId(out)
    BY DEF OnePerId, Answer
  <2>5. \A s, t \in Slots : slots'[s] = slots'[t] => s = t \/ slots'[s] = NoSlot
    BY <1>1, <2>1
  <2> HIDE DEF gone, out, away
  <2>6. Ids(answers') = Ids(answers) \cup away
    BY <2>1, <2>3 DEF Ids
  <2>7. OnePerId(answers')
    <3>1. \A a \in answers, b \in out : a.id # b.id
      BY <1>1, <2>2, <2>3 DEF Ids
    <3> QED
      BY <1>1, <2>1, <2>4, <3>1 DEF OnePerId
  <2> QED
    BY <1>1, <2>1, <2>2, <2>5, <2>6, <2>7 DEF PortAgreement, Unrepeated
<1>7. CASE CancelPending /\ UNCHANGED cpuVars
  <2>1. /\ queue' = <<>> /\ answers' = answers \cup Failed(ToSet(queue)) /\ slots' = slots /\ active' = active
    BY <1>7 DEF CancelPending, cpuVars
  <2>2. ToSet(queue') = {} /\ Unrepeated(queue') /\ Occupants' = Occupants
    BY <2>1 DEF ToSet, Unrepeated, Occupants
  <2>3. Ids(Failed(ToSet(queue))) = ToSet(queue) /\ OnePerId(Failed(ToSet(queue)))
    <3>1. \A r, g : Answer(r, g).id = r
      BY DEF Answer
    <3>2. \A a \in Failed(ToSet(queue)) : \E r \in ToSet(queue) : a = Answer(r, FALSE)
      BY DEF Failed
    <3>3. \A r \in ToSet(queue) : Answer(r, FALSE) \in Failed(ToSet(queue))
      BY DEF Failed
    <3>4. Ids(Failed(ToSet(queue))) = ToSet(queue)
      <4>1. ASSUME NEW x \in Ids(Failed(ToSet(queue))) PROVE x \in ToSet(queue)
        <5>1. PICK a \in Failed(ToSet(queue)) : x = a.id
          BY <4>1 DEF Ids
        <5>2. PICK r \in ToSet(queue) : a = Answer(r, FALSE)
          BY <3>2
        <5> QED
          BY <3>1, <5>1, <5>2, Zenon
      <4>2. ASSUME NEW r \in ToSet(queue) PROVE r \in Ids(Failed(ToSet(queue)))
        <5>1. Answer(r, FALSE) \in Failed(ToSet(queue)) /\ Answer(r, FALSE).id = r
          BY <3>1, <3>3, Zenon
        <5> QED
          BY <5>1 DEF Ids
      <4> QED
        BY <4>1, <4>2
    <3>5. ASSUME NEW a \in Failed(ToSet(queue)), NEW b \in Failed(ToSet(queue)), a.id = b.id PROVE a = b
      <4>1. PICK r \in ToSet(queue) : a = Answer(r, FALSE)
        BY <3>2
      <4>2. PICK q \in ToSet(queue) : b = Answer(q, FALSE)
        BY <3>2
      <4>3. a.id = r /\ b.id = q
        BY <3>1, <4>1, <4>2, Zenon
      <4> QED
        BY <3>5, <4>1, <4>2, <4>3
    <3> QED
      BY <3>4, <3>5 DEF OnePerId
  <2>4. Ids(answers') = Ids(answers) \cup ToSet(queue)
    BY <2>1, <2>3 DEF Ids
  <2>5. OnePerId(answers')
    <3>1. \A a \in answers, b \in Failed(ToSet(queue)) : a.id # b.id
      BY <1>1, <2>3 DEF Ids
    <3> QED
      BY <1>1, <2>1, <2>3, <3>1 DEF OnePerId
  <2> QED
    BY <1>1, <2>1, <2>2, <2>4, <2>5 DEF PortAgreement, Unrepeated
<1>8. ASSUME NEW c \in Categories, Place(c) /\ UNCHANGED cpuVars PROVE PortAgreement'
  <2> DEFINE r == HeadOf(c)
             v == LowestSlot(Vacant(r))
  <2>1. r # 0 /\ Vacant(r) # {}
    BY <1>8 DEF Place, Admissible
  <2>2. r \in Launches /\ r \in ToSet(queue) /\ HeadIndex(c) \in 1 .. Len(queue) /\ r = queue[HeadIndex(c)]
    BY <1>1, <2>1, HeadFacts
  <2>3. v \in Slots /\ slots[v] = NoSlot
    BY <2>1, LowestFacts
  <2>4. /\ queue' = RemoveAt(queue, HeadIndex(c)) /\ slots' = [slots EXCEPT ![v] = r]
        /\ answers' = answers /\ active' = active
    BY <1>8 DEF Place, cpuVars
  <2> HIDE DEF r, v
  <2>5. ToSet(queue') = ToSet(queue) \ {r} /\ Unrepeated(queue')
    BY <1>1, <2>2, <2>4, QueueRemove
  <2>6. Occupants' = Occupants \cup {r}
    BY <1>1, <1>2, <2>2, <2>3, <2>4 DEF Occupants
  <2>7. \A s, t \in Slots : slots'[s] = slots'[t] => s = t \/ slots'[s] = NoSlot
    <3>1. \A s \in Slots : slots[s] # r
      BY <1>1, <1>2, <2>2 DEF Occupants
    <3> QED
      BY <1>1, <2>3, <2>4, <3>1
  <2> QED
    BY <1>1, <2>2, <2>4, <2>5, <2>6, <2>7 DEF PortAgreement, Unrepeated
<1>9. ASSUME NEW c \in Categories, FailHead(c) /\ UNCHANGED cpuVars PROVE PortAgreement'
  <2> DEFINE r == HeadOf(c)
  <2>1. r # 0
    BY <1>9 DEF FailHead, Doomed
  <2>2. r \in Launches /\ r \in ToSet(queue) /\ HeadIndex(c) \in 1 .. Len(queue) /\ r = queue[HeadIndex(c)]
    BY <1>1, <2>1, HeadFacts
  <2>3. /\ queue' = RemoveAt(queue, HeadIndex(c)) /\ answers' = answers \cup {Answer(r, FALSE)}
        /\ slots' = slots /\ active' = active
    BY <1>9 DEF FailHead, cpuVars
  <2> HIDE DEF r
  <2>4. ToSet(queue') = ToSet(queue) \ {r} /\ Unrepeated(queue')
    BY <1>1, <2>2, <2>3, QueueRemove
  <2>5. Ids(answers') = Ids(answers) \cup {r} /\ OnePerId(answers')
    BY <1>1, <1>4, <2>2, <2>3
  <2>6. Occupants' = Occupants
    BY <2>3 DEF Occupants
  <2>7. /\ active' = ToSet(queue') \cup Occupants' \cup Ids(answers')
        /\ ToSet(queue') \cap Occupants' = {} /\ Ids(answers') \cap (ToSet(queue') \cup Occupants') = {}
    BY <1>1, <2>2, <2>3, <2>4, <2>5, <2>6
  <2> QED
    BY <1>1, <2>3, <2>4, <2>5, <2>7 DEF PortAgreement, Unrepeated
<1>10. CASE HarvestClean \/ HarvestFault
  <2>1. TakeAnswers
    BY <1>10 DEF HarvestClean, HarvestFault
  <2>2. active' = active \ (Ids(answers) \cup Ids(hostAnswers)) /\ answers' = {} /\ queue' = queue /\ slots' = slots
    BY <2>1, Polled DEF TakeAnswers
  <2>3. Ids(answers') = {} /\ OnePerId(answers') /\ Occupants' = Occupants
    BY <2>2 DEF Ids, OnePerId, Occupants
  <2>4. active \cap Ids(hostAnswers) = {}
    BY DEF LaunchAgreement, HostAgreement
  <2> QED
    BY <1>1, <2>2, <2>3, <2>4 DEF PortAgreement, Unrepeated
<1> QED
  BY <1>3, <1>5, <1>6, <1>7, <1>8, <1>9, <1>10, Writers DEF PlaceWrites

\* One answer for each routine that ends well (O) or badly (L).
LEMMA HostAnswerFacts ==
    ASSUME NEW O, NEW L, O \cap L = {}
    PROVE  LET A == {HostAnswer(r, TRUE) : r \in O} \cup {HostAnswer(r, FALSE) : r \in L}
           IN  Ids(A) = O \cup L /\ OnePerId(A)
<1> DEFINE A == {HostAnswer(r, TRUE) : r \in O} \cup {HostAnswer(r, FALSE) : r \in L}
<1>1. \A r, g : HostAnswer(r, g).id = r
  BY DEF HostAnswer
<1>2. /\ \A a \in A : \E r \in O \cup L : a = HostAnswer(r, r \in O)
      /\ \A r \in O \cup L : HostAnswer(r, r \in O) \in A
  <2>1. ASSUME NEW a \in A PROVE \E r \in O \cup L : a = HostAnswer(r, r \in O)
    <3>1. CASE \E r \in O : a = HostAnswer(r, TRUE)
      <4>1. PICK r \in O : a = HostAnswer(r, TRUE)
        BY <3>1
      <4>2. (r \in O) = TRUE
        OBVIOUS
      <4> QED
        BY <4>1, <4>2
    <3>2. CASE \E r \in L : a = HostAnswer(r, FALSE)
      <4>1. PICK r \in L : a = HostAnswer(r, FALSE)
        BY <3>2
      <4>2. (r \in O) = FALSE
        OBVIOUS
      <4> QED
        BY <4>1, <4>2
    <3> QED
      BY <3>1, <3>2
  <2>2. ASSUME NEW r \in O \cup L PROVE HostAnswer(r, r \in O) \in A
    <3>1. CASE r \in O
      <4>1. (r \in O) = TRUE
        BY <3>1
      <4> QED
        BY <3>1, <4>1
    <3>2. CASE r \notin O
      <4>1. (r \in O) = FALSE
        BY <3>2
      <4> QED
        BY <3>2, <4>1
    <3> QED
      BY <3>1, <3>2
  <2> QED
    BY <2>1, <2>2
<1> HIDE DEF A
<1>3. ASSUME NEW x \in Ids(A) PROVE x \in O \cup L
  <2>1. PICK a \in A : x = a.id
    BY <1>3 DEF Ids
  <2>2. PICK r \in O \cup L : a = HostAnswer(r, r \in O)
    BY <1>2
  <2> QED
    BY <1>1, <2>1, <2>2
<1>4. ASSUME NEW r \in O \cup L PROVE r \in Ids(A)
  <2>1. HostAnswer(r, r \in O) \in A /\ HostAnswer(r, r \in O).id = r
    BY <1>1, <1>2
  <2> QED
    BY <2>1 DEF Ids
<1>5. ASSUME NEW a \in A, NEW b \in A, a.id = b.id PROVE a = b
  <2>1. PICK r \in O \cup L : a = HostAnswer(r, r \in O)
    BY <1>2
  <2>2. PICK q \in O \cup L : b = HostAnswer(q, q \in O)
    BY <1>2
  <2>3. r = q
    BY <1>1, <1>5, <2>1, <2>2
  <2> QED
    BY <2>1, <2>2, <2>3
<1> QED
  BY <1>3, <1>4, <1>5 DEF A, OnePerId

\* A launch of the session is a live routine or answered.
LEMMA HostAgreementStep ==
    ASSUME Types, PendingFresh, LaunchAgreement, [Next]_vars
    PROVE  HostAgreement'
<1>1. /\ prog' = prog /\ Positions' = Positions /\ prog \in Programs /\ OnePerId(hostAnswers)
      /\ doing \in [Positions -> RoutineStates] /\ left \in [Positions -> Seq(HostCommands)]
      /\ activeHost = Routines \cup Ids(hostAnswers) /\ Routines \cap Ids(hostAnswers) = {}
  BY Writers, SameProgram DEF Types, SimTypes, HostTypes, LaunchAgreement, HostAgreement
<1>2. CASE UNCHANGED <<activeHost, doing, hostAnswers>>
  BY <1>1, <1>2 DEF HostAgreement, Routines
<1>3. ASSUME Routines' = Routines, UNCHANGED <<activeHost, hostAnswers>> PROVE HostAgreement'
  BY <1>1, <1>3 DEF HostAgreement
\* Routines in R end with the answers in A.
<1>4. ASSUME NEW R, NEW A, R \subseteq Routines, Routines' = Routines \ R, hostAnswers' = hostAnswers \cup A,
             Ids(A) = R, OnePerId(A), activeHost' = activeHost
      PROVE  HostAgreement'
  <2>1. Ids(hostAnswers') = Ids(hostAnswers) \cup R
    BY <1>4 DEF Ids
  <2>2. OnePerId(hostAnswers')
    <3>1. \A a \in hostAnswers, b \in A : a.id # b.id
      BY <1>1, <1>4 DEF Ids
    <3> QED
      BY <1>1, <1>4, <3>1 DEF OnePerId
  <2> QED
    BY <1>1, <1>4, <2>1, <2>2 DEF HostAgreement
<1>5. \A r, g : HostAnswer(r, g).id = r
  BY DEF HostAnswer
<1>6. CASE AdmitHost
  <2>1. Ready \in Positions /\ Ready \notin activeHost
    BY <1>6, TakeFacts DEF AdmitHost
  <2>2. Routines' = Routines \cup {Ready}
    BY <1>1, <1>6, <2>1 DEF AdmitHost, HostSubmit, Routines
  <2>3. activeHost' = activeHost \cup {Ready} /\ hostAnswers' = hostAnswers
    BY <1>6 DEF AdmitHost, HostSubmit
  <2> QED
    BY <1>1, <2>1, <2>2, <2>3 DEF HostAgreement
<1>7. CASE FetchCommand /\ UNCHANGED cpuVars
  <2>1. PICK r \in Routines :
           /\ left[r] # <<>> /\ left[r][1] # "illegal"
           /\ doing' = [doing EXCEPT ![r] = Started(left[r][1])]
    BY <1>7 DEF FetchCommand
  <2>2. left[r][1] \in HostCommands
    BY <1>1, <2>1, SeqFacts, HeadTailProperties DEF Routines
  <2>3. Started(left[r][1]) # "none"
    BY <2>1, <2>2, StartedFacts
  <2>4. Routines' = Routines
    BY <1>1, <2>1, <2>3 DEF Routines
  <2> QED
    BY <1>3, <1>7, <2>4 DEF FetchCommand, cpuVars
<1>8. CASE FetchNothing /\ UNCHANGED cpuVars
  <2>1. PICK r \in Routines : \E g \in BOOLEAN : Retire(r, g)
    BY <1>8 DEF FetchNothing
  <2>2. PICK g \in BOOLEAN : Retire(r, g)
    BY <2>1
  <2>3. Routines' = Routines \ {r} /\ hostAnswers' = hostAnswers \cup {HostAnswer(r, g)}
    BY <1>1, <2>2 DEF Retire, Routines
  <2>4. Ids({HostAnswer(r, g)}) = {r} /\ OnePerId({HostAnswer(r, g)})
    BY <1>5 DEF Ids, OnePerId
  <2>5. activeHost' = activeHost
    BY <1>8 DEF cpuVars
  <2> QED
    BY <1>4, <2>3, <2>4, <2>5
<1>9. ASSUME NEW S, Transfers(S) PROVE HostAgreement'
  <2>1. Routines' = Routines
    BY <1>1, <1>9 DEF Transfers, Elapse, Routines
  <2> QED
    BY <1>3, <1>9, <2>1 DEF Transfers, cpuVars
<1>10. CASE ResetStep
  <2>1. Routines' = Routines
    BY <1>1, <1>10 DEF ResetStep, ResetRelease, Routines, Holding, InFlight
  <2> QED
    BY <1>3, <1>10, <2>1 DEF ResetStep, cpuVars
<1>11. ASSUME Abort, activeHost' = activeHost PROVE HostAgreement'
  <2> DEFINE quiet == Routines \ Holding
             A == {HostAnswer(r, FALSE) : r \in quiet}
  <2>1. /\ doing' = [r \in Positions |->
              IF r \in quiet THEN "none" ELSE IF r \in InFlight THEN "cancel" ELSE doing[r]]
        /\ hostAnswers' = hostAnswers \cup A
    BY <1>11 DEF Abort
  <2>2. Routines' = Routines \ quiet
    BY <1>1, <2>1 DEF Routines, Holding, InFlight
  <2>3. Ids(A) = quiet /\ OnePerId(A)
    <3> DEFINE B == {HostAnswer(r, TRUE) : r \in {}} \cup {HostAnswer(r, FALSE) : r \in quiet}
    <3>1. A = B
      OBVIOUS
    <3>2. Ids(B) = {} \cup quiet /\ OnePerId(B)
      BY HostAnswerFacts
    <3> HIDE DEF A, B
    <3> QED
      BY <3>1, <3>2
  <2>4. quiet \subseteq Routines
    OBVIOUS
  <2> HIDE DEF quiet, A
  <2> QED
    BY <1>4, <1>11, <2>1, <2>2, <2>3, <2>4
<1>12. CASE Poison \/ SettleFault
  BY <1>2, <1>11, <1>12 DEF Poison, SettleFault, hostVars, cpuVars
<1>13. CASE HostHarvest
  <2> DEFINE over == {r \in Delivered : left[r] = <<>>}
             R == over \cup Lost
             A == {HostAnswer(r, TRUE) : r \in over} \cup {HostAnswer(r, FALSE) : r \in Lost}
  <2>1. /\ doing' = [r \in Positions |-> IF r \in R THEN "none" ELSE IF r \in Delivered THEN "free" ELSE doing[r]]
        /\ hostAnswers' = hostAnswers \cup A /\ activeHost' = activeHost
    BY <1>13 DEF HostHarvest, HarvestHost, cpuVars
  <2>2. R \subseteq Routines /\ over \cap Lost = {}
    BY DEF Delivered, Lost, Routines
  <2>3. Routines' = Routines \ R
    BY <1>1, <2>1 DEF Routines, Delivered, Lost
  <2>4. Ids(A) = R /\ OnePerId(A)
    <3> HIDE DEF over
    <3> QED
      BY <2>2, HostAnswerFacts
  <2> HIDE DEF A
  <2> HIDE DEF R
  <2> QED
    BY <1>4, <2>1, <2>2, <2>3, <2>4
<1>14. CASE HarvestClean \/ HarvestFault
  <2>1. TakeAnswers
    BY <1>14 DEF HarvestClean, HarvestFault
  <2>2. /\ activeHost' = activeHost \ (Ids(answers) \cup Ids(hostAnswers)) /\ hostAnswers' = {}
        /\ Routines' = Routines
    BY <1>1, <2>1, Polled DEF TakeAnswers, Routines
  <2>3. Ids(hostAnswers') = {} /\ OnePerId(hostAnswers')
    BY <2>2 DEF Ids, OnePerId
  <2>4. activeHost \cap Ids(answers) = {}
    BY DEF LaunchAgreement, PortAgreement
  <2> QED
    BY <1>1, <2>2, <2>3, <2>4 DEF HostAgreement
<1> QED
  BY <1>2, <1>6, <1>7, <1>8, <1>9, <1>10, <1>12, <1>13, <1>14, Writers DEF RoutineWrites

\* A pending launch is at no other place, and a launch is not at both parties.
LEMMA PendingFreshStep ==
    ASSUME Types, PendingFresh, LaunchAgreement, [Next]_vars
    PROVE  PendingFresh' /\ (active \cap activeHost = {})'
<1> DEFINE Before(p) == \A k \in DOMAIN p : \A d \in p[k].needs : d < p[k].id
           Goal == PendingFresh' /\ (active \cap activeHost = {})'
<1>1. /\ prog' = prog /\ prog \in Programs /\ pending \in Seq(Pendings) /\ pc \in Nat
      /\ Launches \subseteq Positions /\ Positions = 1 .. Len(prog) /\ Positions \subseteq Nat /\ Len(prog) \in Nat
      /\ active \subseteq Launches /\ activeHost \subseteq Launches /\ handles \subseteq Launches
  BY Writers, ProgramFacts DEF Types, SimTypes, CpuTypes
<1>2. /\ ApartIn(pending) /\ PendingIds = IdsIn(pending) /\ IdsIn(pending) \cap (active \cup activeHost) = {}
      /\ \A r \in IdsIn(pending) \cup active \cup activeHost \cup handles : r < pc
      /\ Before(pending) /\ active \cap activeHost = {} /\ PendingIds' = IdsIn(pending')
  BY DEF PendingFresh, ApartIn, IdsIn, PendingIds, LaunchAgreement
<1>3. IdsIn(pending) \subseteq Launches
  <2>1. \A k \in DOMAIN pending : pending[k] \in Pendings
    BY <1>1, SeqFacts
  <2>2. \A k \in DOMAIN pending : pending[k].id \in Launches
    BY <2>1 DEF Pendings
  <2> QED
    BY <2>2 DEF IdsIn
<1>4. ASSUME ApartIn(pending'), IdsIn(pending') \cap (active' \cup activeHost') = {},
             \A r \in IdsIn(pending') \cup active' \cup activeHost' \cup handles' : r < pc',
             Before(pending'), active' \cap activeHost' = {}
      PROVE  Goal
  BY <1>2, <1>4 DEF PendingFresh, ApartIn
<1>5. CASE UNCHANGED cpuVars
  BY <1>2, <1>4, <1>5 DEF cpuVars
\* Nothing joins, and the program does not go back.
<1>6. ASSUME ApartIn(pending'), IdsIn(pending') \subseteq IdsIn(pending), Before(pending'), pc' = pc \/ pc' = pc + 1,
             active' \subseteq active, activeHost' \subseteq activeHost, handles' \subseteq handles
      PROVE  Goal
  <2>1. \A r \in IdsIn(pending') \cup active' \cup activeHost' \cup handles' : r \in Nat /\ r < pc
    BY <1>1, <1>2, <1>3, <1>6
  <2>2. \A r \in IdsIn(pending') \cup active' \cup activeHost' \cup handles' : r < pc'
    BY <1>1, <1>6, <2>1
  <2>3. IdsIn(pending') \cap (active' \cup activeHost') = {} /\ active' \cap activeHost' = {}
    BY <1>2, <1>6
  <2> QED
    BY <1>4, <1>6, <2>2, <2>3
<1>7. ASSUME Resolve PROVE Goal
  <2>1. /\ ApartIn(pending') /\ IdsIn(pending') = IdsIn(pending) /\ DOMAIN pending' = DOMAIN pending
        /\ \A k \in DOMAIN pending : /\ pending'[k].id = pending[k].id
                                     /\ pending'[k].needs = pending[k].needs \ completions
    BY <1>1, <1>2, <1>7, ResolveFacts
  <2>2. Before(pending')
    BY <1>2, <2>1
  <2>3. handles' \subseteq handles /\ UNCHANGED <<pc, active, activeHost>>
    BY <1>7, ReleaseFacts DEF Resolve
  <2> HIDE DEF Before, Goal
  <2> QED
    BY <1>6, <2>1, <2>2, <2>3
<1>8. ASSUME NEW op \in Launching, Submit(op) PROVE Goal
  <2> DEFINE e == [id |-> pc, needs |-> prog[pc].deps]
  <2>1. pc \in Positions /\ pc \in Launches /\ e \in Pendings
    BY <1>1, <1>8, ProgramFacts DEF Submit, Here, Types, CpuTypes, Launches, Pendings
  <2>2. e.id = pc /\ e.needs = prog[pc].deps /\ pc \notin IdsIn(pending) /\ pc \notin active /\ pc \notin activeHost
    BY <1>1, <1>2
  <2>3. pending' = Append(pending, e) /\ pc' = pc + 1 /\ handles' = handles \cup {pc} /\ UNCHANGED <<active, activeHost>>
    BY <1>8 DEF Submit
  <2>4. \A d \in e.needs : d < e.id
    BY <1>1, <2>1, <2>2, ProgramFacts
  <2> HIDE DEF e
  <2>5. /\ ApartIn(pending') /\ IdsIn(pending') = IdsIn(pending) \cup {pc}
        /\ \A k \in DOMAIN pending' : pending'[k] = e \/ \E j \in DOMAIN pending : pending'[k] = pending[j]
    BY <1>1, <1>2, <2>1, <2>2, <2>3, JoinFacts
  <2>6. Before(pending')
    BY <1>2, <2>4, <2>5
  <2>7. \A r \in IdsIn(pending') \cup active' \cup activeHost' \cup handles' : r < pc'
    <3>1. \A r \in IdsIn(pending) \cup active \cup activeHost \cup handles : r \in Nat /\ r < pc
      BY <1>1, <1>2, <1>3
    <3>2. \A r \in IdsIn(pending') \cup active' \cup activeHost' \cup handles' :
             r \in IdsIn(pending) \cup active \cup activeHost \cup handles \/ r = pc
      BY <2>3, <2>5
    <3>3. \A r \in Nat : r < pc => r < pc + 1
      BY <1>1
    <3> QED
      BY <1>1, <2>3, <3>1, <3>2, <3>3
  <2>8. IdsIn(pending') \cap (active' \cup activeHost') = {} /\ active' \cap activeHost' = {}
    BY <1>2, <2>2, <2>3, <2>5
  <2> HIDE DEF Before, Goal
  <2> QED
    BY <1>4, <2>5, <2>6, <2>7, <2>8
<1>9. CASE Await \/ Return \/ \E op \in Controls : PassControl(op)
  <2>1. UNCHANGED <<pending, active, activeHost>> /\ pc' = pc + 1 /\ handles' \subseteq handles
    BY <1>9, ReleaseFacts DEF Await, Return, PassControl
  <2> QED
    BY <1>2, <1>6, <2>1
<1>10. ASSUME NEW op \in Controls, NEW answer \in ControlAnswers, SubmitControl(op, answer) PROVE Goal
  <2>1. UNCHANGED <<pending, active, activeHost, pc>> /\ handles' \subseteq handles
    BY <1>10, ReleaseFacts DEF SubmitControl
  <2> QED
    BY <1>2, <1>6, <2>1
<1>11. ASSUME NEW why, NEW after, EnterFault(why, after), pc' = pc,
              active' \subseteq active, activeHost' \subseteq activeHost
       PROVE  Goal
  <2>1. pending' = <<>> /\ handles' = {}
    BY <1>11 DEF EnterFault
  <2>2. DOMAIN pending' = {}
    BY <2>1
  <2>3. ApartIn(pending') /\ IdsIn(pending') = {} /\ Before(pending')
    BY <2>2 DEF ApartIn, IdsIn
  <2> HIDE DEF Before, Goal
  <2> QED
    BY <1>6, <1>11, <2>1, <2>3
<1>12. CASE RejectHost \/ Poison \/ CycleCap \/ HarvestFault
  BY <1>11, <1>12 DEF RejectHost, Poison, CycleCap, HarvestFault, TakeAnswers
<1>13. CASE EndAdmit
  <2>1. CASE Stuck
    BY <1>11, <1>13, <2>1 DEF EndAdmit
  <2>2. CASE ~Stuck
    BY <1>5, <1>13, <2>2 DEF EndAdmit, cpuVars
  <2> QED
    BY <2>1, <2>2
<1>14. CASE HarvestClean
  <2>1. UNCHANGED <<pending, pc>> /\ handles' \subseteq handles /\ active' \subseteq active /\ activeHost' \subseteq activeHost
    BY <1>14 DEF HarvestClean, TakeAnswers
  <2> QED
    BY <1>2, <1>6, <2>1
<1>15. CASE AdmitGroup \/ AdmitHost
  <2>1. /\ Take /\ UNCHANGED <<handles, pc>>
        /\ \/ active' = active \cup {Ready} /\ activeHost' = activeHost
           \/ active' = active /\ activeHost' = activeHost \cup {Ready}
    BY <1>15 DEF AdmitGroup, AdmitHost, Take
  <2>2. /\ Ready \in PendingIds /\ Ready \notin active /\ Ready \notin activeHost
        /\ ApartIn(pending') /\ IdsIn(pending') = IdsIn(pending) \ {Ready}
        /\ \A k \in DOMAIN pending' : \E j \in DOMAIN pending : pending'[k] = pending[j]
    BY <2>1, TakeFacts
  <2>3. Before(pending')
    BY <1>2, <2>2
  <2>4. \A r \in IdsIn(pending') \cup active' \cup activeHost' \cup handles' : r < pc'
    BY <1>2, <2>1, <2>2
  <2>5. IdsIn(pending') \cap (active' \cup activeHost') = {} /\ active' \cap activeHost' = {}
    BY <1>2, <2>1, <2>2
  <2>6. ApartIn(pending')
    BY <2>2
  <2> HIDE DEF Before
  <2> QED
    BY <1>4, <2>3, <2>4, <2>5, <2>6
<1>16. CASE BeginStep \/ BeginAdmit
  BY <1>7, <1>16 DEF BeginStep, BeginAdmit
<1> QED
  BY <1>5, <1>8, <1>9, <1>10, <1>12, <1>13, <1>14, <1>15, <1>16, Writers DEF CpuWrites

-----------------------------------------------------------------------------
(* The program counter, the fence and the fault.                           *)

\* The program waits at the command it handed over.
LEMMA ControlStep ==
    ASSUME Types, ControlTrue, [Next]_vars
    PROVE  ControlTrue'
<1>a. /\ ControlTrue /\ prog' = prog /\ Positions' = Positions /\ Positions = 1 .. Len(prog)
      /\ pc \in 1 .. (Len(prog) + 1) /\ Len(prog) \in Nat /\ 0 \notin Positions
  BY Writers, SameProgram, ProgramFacts DEF Types, SimTypes, CpuTypes
<1>1. ASSUME BeginStep /\ UNCHANGED <<portVars, hostVars, simVars>> PROVE ControlTrue'
  BY <1>1, <1>a DEF BeginStep, Resolve, ControlTrue, cpuVars, portVars
<1>2. ASSUME IdleStep /\ UNCHANGED <<portVars, hostVars, simVars>> PROVE ControlTrue'
  BY <1>2, <1>a DEF IdleStep, ControlTrue, cpuVars, portVars
<1>3. ASSUME Await /\ UNCHANGED <<portVars, hostVars, simVars>> PROVE ControlTrue'
  BY <1>3, <1>a DEF Await, Here, Controls, ControlTrue, cpuVars, portVars
<1>4. ASSUME Return /\ UNCHANGED <<portVars, hostVars, simVars>> PROVE ControlTrue'
  BY <1>4, <1>a DEF Return, Here, Controls, ControlTrue, cpuVars, portVars
<1>5. ASSUME EndIssue /\ UNCHANGED <<portVars, hostVars, simVars>> PROVE ControlTrue'
  BY <1>5, <1>a DEF EndIssue, ControlTrue, cpuVars, portVars
<1>6. ASSUME BeginAdmit /\ UNCHANGED <<portVars, hostVars, simVars>> PROVE ControlTrue'
  BY <1>6, <1>a DEF BeginAdmit, Resolve, ControlTrue, cpuVars, portVars
<1>7. ASSUME RejectHost /\ UNCHANGED <<portVars, hostVars, simVars>> PROVE ControlTrue'
  BY <1>7, <1>a DEF RejectHost, ControlTrue, cpuVars, portVars
<1>8. ASSUME EndAdmit /\ UNCHANGED <<portVars, hostVars, simVars>> PROVE ControlTrue'
  BY <1>8, <1>a DEF EndAdmit, ControlTrue, cpuVars, portVars
<1>9. ASSUME NEW op \in Launching, Submit(op) /\ UNCHANGED <<portVars, hostVars, simVars>> PROVE ControlTrue'
  BY <1>9, <1>a DEF Submit, Here, Launching, Controls, ControlTrue, cpuVars, portVars
<1>10. ASSUME NEW op \in Controls, ControlBusy(op) /\ UNCHANGED <<portVars, hostVars, simVars>> PROVE ControlTrue'
  BY <1>10, <1>a DEF ControlBusy, ControlTrue, cpuVars, portVars
<1>11. ASSUME NEW op \in Controls, PassControl(op) /\ UNCHANGED <<portVars, hostVars, simVars>> PROVE ControlTrue'
  BY <1>11, <1>a DEF PassControl, Here, ControlTrue, cpuVars, portVars
<1>12. ASSUME NEW op \in Controls, NEW answer \in ControlAnswers, Commands(op, answer) PROVE ControlTrue'
  BY <1>12, <1>a DEF Commands, SubmitControl, Here, CanControl, ControlTrue, cpuVars, portVars
<1>13. ASSUME AdmitGroup /\ UNCHANGED <<hostVars, simVars>> PROVE ControlTrue'
  BY <1>13, <1>a DEF AdmitGroup, Take, QueueSubmit, RejectSubmit, ControlTrue, cpuVars, portVars
<1>14. ASSUME AdmitHost /\ UNCHANGED <<portVars, simVars>> PROVE ControlTrue'
  BY <1>14, <1>a DEF AdmitHost, Take, ControlTrue, cpuVars, portVars
<1>15. ASSUME BeginHost PROVE ControlTrue'
  BY <1>15, <1>a DEF BeginHost, ControlTrue, cpuVars, portVars
<1>16. ASSUME FetchCommand /\ UNCHANGED <<cpuVars, portVars, simVars>> PROVE ControlTrue'
  BY <1>16, <1>a DEF FetchCommand, ControlTrue, cpuVars, portVars
<1>17. ASSUME FetchNothing /\ UNCHANGED <<cpuVars, portVars, simVars>> PROVE ControlTrue'
  BY <1>17, <1>a DEF FetchNothing, ControlTrue, cpuVars, portVars
<1>18. ASSUME EndHostStep /\ UNCHANGED <<cpuVars, portVars, simVars>> PROVE ControlTrue'
  BY <1>18, <1>a DEF EndHostStep, ControlTrue, cpuVars, portVars
<1>19. ASSUME NEW S \in SUBSET CanElapse, Transfers(S) PROVE ControlTrue'
  BY <1>19, <1>a DEF Transfers, ControlTrue, cpuVars, portVars
<1>20. ASSUME NEW next \in CommandStates, ProfileStep(next) PROVE ControlTrue'
  BY <1>20, <1>a DEF ProfileStep, CommandGoes, Underway, ControlTrue, cpuVars, portVars
<1>21. ASSUME NEW F \in SUBSET Running, NEW X \in SUBSET (Running \ F), Contexts(F, X) PROVE ControlTrue'
  BY <1>21, <1>a DEF Contexts, ControlTrue, cpuVars, portVars
<1>22. ASSUME ResetStep PROVE ControlTrue'
  BY <1>22, <1>a DEF ResetStep, ResetPass, ResetFreeze, ResetDrain, ResetRelease, CancelCommand, Underway, ControlTrue, cpuVars, portVars
<1>23. ASSUME Poison PROVE ControlTrue'
  BY <1>23, <1>a DEF Poison, ControlTrue, cpuVars, portVars
<1>24. ASSUME HostHarvest PROVE ControlTrue'
  BY <1>24, <1>a DEF HostHarvest, HarvestHost, ControlTrue, cpuVars, portVars
<1>25. ASSUME HarvestRaises PROVE ControlTrue'
  BY <1>25, <1>a DEF HarvestRaises, ControlTrue, cpuVars, portVars
<1>26. ASSUME RetireSlots /\ UNCHANGED <<cpuVars, hostVars, simVars>> PROVE ControlTrue'
  BY <1>26, <1>a DEF RetireSlots, ControlTrue, cpuVars, portVars
<1>27. ASSUME EndPlacing /\ UNCHANGED <<cpuVars, hostVars, simVars>> PROVE ControlTrue'
  BY <1>27, <1>a DEF EndPlacing, ControlTrue, cpuVars, portVars
<1>28. ASSUME CancelPending /\ UNCHANGED <<cpuVars, hostVars, simVars>> PROVE ControlTrue'
  BY <1>28, <1>a DEF CancelPending, ControlTrue, cpuVars, portVars
<1>29. ASSUME NEW c \in Categories, Place(c) /\ UNCHANGED <<cpuVars, hostVars, simVars>> PROVE ControlTrue'
  BY <1>29, <1>a DEF Place, ControlTrue, cpuVars, portVars
<1>30. ASSUME NEW c \in Categories, FailHead(c) /\ UNCHANGED <<cpuVars, hostVars, simVars>> PROVE ControlTrue'
  BY <1>30, <1>a DEF FailHead, ControlTrue, cpuVars, portVars
<1>31. ASSUME HarvestClean /\ UNCHANGED simVars PROVE ControlTrue'
  BY <1>31, <1>a DEF HarvestClean, TakeAnswers, PolledCommand, CommandEnded, ControlBad, ControlTrue, cpuVars, portVars
<1>32. ASSUME HarvestFault /\ UNCHANGED simVars PROVE ControlTrue'
  BY <1>32, <1>a DEF HarvestFault, TakeAnswers, PolledCommand, CommandEnded, ControlTrue, cpuVars, portVars
<1>33. ASSUME SettleFault PROVE ControlTrue'
  BY <1>33, <1>a DEF SettleFault, ControlTrue, cpuVars, portVars
<1>34. ASSUME SettleSuccess PROVE ControlTrue'
  BY <1>34, <1>a DEF SettleSuccess, ControlTrue, cpuVars, portVars
<1>35. ASSUME SettleCapped PROVE ControlTrue'
  BY <1>35, <1>a DEF SettleCapped, ControlTrue, cpuVars, portVars
<1>36. ASSUME SettleOn PROVE ControlTrue'
  BY <1>36, <1>a DEF SettleOn, ControlTrue, cpuVars, portVars
<1>37. ASSUME NextCycle PROVE ControlTrue'
  BY <1>37, <1>a DEF NextCycle, ControlTrue, cpuVars, portVars
<1>38. ASSUME CycleCap PROVE ControlTrue'
  BY <1>38, <1>a DEF CycleCap, ControlTrue, cpuVars, portVars
<1>39. ASSUME Deadline PROVE ControlTrue'
  BY <1>39, <1>a DEF Deadline, ControlTrue, cpuVars, portVars
<1>40. ASSUME UNCHANGED vars PROVE ControlTrue'
  BY <1>40, <1>a DEF vars, cpuVars, portVars, ControlTrue
<1>41. ASSUME CpuStep PROVE ControlTrue'
  BY <1>41, <1>1, <1>2, <1>3, <1>4, <1>5, <1>6, <1>7, <1>8, <1>9, <1>10, <1>11, <1>12, <1>13, <1>14 DEF CpuStep, Commands
<1>42. ASSUME HostStep PROVE ControlTrue'
  BY <1>42, <1>16, <1>17, <1>18 DEF HostStep
<1>43. ASSUME GroupStep PROVE ControlTrue'
  BY <1>43, <1>19, <1>20, <1>21, <1>22, <1>23 DEF GroupStep
<1>44. ASSUME PortPoll PROVE ControlTrue'
  BY <1>44, <1>26, <1>27, <1>28, <1>29, <1>30 DEF PortPoll
<1>45. ASSUME CpuHarvest PROVE ControlTrue'
  BY <1>45, <1>31, <1>32 DEF CpuHarvest
<1>46. ASSUME Settle PROVE ControlTrue'
  BY <1>46, <1>33, <1>34, <1>35, <1>36 DEF Settle
<1> QED
  BY <1>15, <1>24, <1>25, <1>37, <1>38, <1>39, <1>40, <1>41, <1>42, <1>43, <1>44, <1>45, <1>46 DEF Next

\* A fault has a reason and clears the books.
LEMMA EnterFaultFacts ==
    ASSUME NEW why \in Reasons, NEW after, EnterFault(why, after)
    PROVE  /\ Faulted' /\ pending' = <<>> /\ handles' = {} /\ completions' = {} /\ reserved' = {}
           /\ remaining' = [r \in Positions |-> 0]
BY DeviceAssumption DEF EnterFault, Faulted

\* Work goes on only without a fault.
LEMMA FaultStep ==
    ASSUME Types, FaultClears, [Next]_vars
    PROVE  FaultClears'
<1>a. FaultClears /\ prog' = prog /\ Positions' = Positions
  BY Writers, SameProgram DEF Types
<1>b. ASSUME NEW why \in Reasons, NEW after, EnterFault(why, after),
             phase' \notin {"issue", "resolve2", "admit"}
      PROVE  FaultClears'
  BY <1>a, <1>b, EnterFaultFacts DEF FaultClears
<1>1. ASSUME BeginStep /\ UNCHANGED <<portVars, hostVars, simVars>> PROVE FaultClears'
  BY <1>1, <1>a DEF BeginStep, Resolve, FaultClears, Faulted, cpuVars, simVars
<1>2. ASSUME IdleStep /\ UNCHANGED <<portVars, hostVars, simVars>> PROVE FaultClears'
  BY <1>2, <1>a DEF IdleStep, FaultClears, Faulted, cpuVars, simVars
<1>3. ASSUME Await /\ UNCHANGED <<portVars, hostVars, simVars>> PROVE FaultClears'
  BY <1>3, <1>a DEF Await, Here, FaultClears, Faulted, cpuVars, simVars
<1>4. ASSUME Return /\ UNCHANGED <<portVars, hostVars, simVars>> PROVE FaultClears'
  BY <1>4, <1>a DEF Return, Here, FaultClears, Faulted, cpuVars, simVars
<1>5. ASSUME EndIssue /\ UNCHANGED <<portVars, hostVars, simVars>> PROVE FaultClears'
  BY <1>5, <1>a DEF EndIssue, FaultClears, Faulted, cpuVars, simVars
<1>6. ASSUME BeginAdmit /\ UNCHANGED <<portVars, hostVars, simVars>> PROVE FaultClears'
  BY <1>6, <1>a DEF BeginAdmit, Resolve, FaultClears, Faulted, cpuVars, simVars
<1>7. ASSUME RejectHost /\ UNCHANGED <<portVars, hostVars, simVars>> PROVE FaultClears'
  BY <1>7, <1>b DEF RejectHost, Reasons
<1>8. ASSUME EndAdmit /\ UNCHANGED <<portVars, hostVars, simVars>> PROVE FaultClears'
  <2>1. CASE Stuck
    BY <1>8, <1>b, <2>1 DEF EndAdmit, Reasons
  <2>2. CASE ~Stuck
    BY <1>8, <1>a, <2>2 DEF EndAdmit, FaultClears, Faulted, simVars
  <2> QED
    BY <2>1, <2>2
<1>9. ASSUME NEW op \in Launching, Submit(op) /\ UNCHANGED <<portVars, hostVars, simVars>> PROVE FaultClears'
  BY <1>9, <1>a DEF Submit, Here, FaultClears, Faulted, cpuVars, simVars
<1>10. ASSUME NEW op \in Controls, ControlBusy(op) /\ UNCHANGED <<portVars, hostVars, simVars>> PROVE FaultClears'
  BY <1>10, <1>a DEF ControlBusy, Here, FaultClears, Faulted, cpuVars, simVars
<1>11. ASSUME NEW op \in Controls, PassControl(op) /\ UNCHANGED <<portVars, hostVars, simVars>> PROVE FaultClears'
  BY <1>11, <1>a DEF PassControl, Here, FaultClears, Faulted, cpuVars, simVars
<1>12. ASSUME NEW op \in Controls, NEW answer \in ControlAnswers, Commands(op, answer) PROVE FaultClears'
  BY <1>12, <1>a DEF Commands, SubmitControl, Here, FaultClears, Faulted, cpuVars, simVars
<1>13. ASSUME AdmitGroup /\ UNCHANGED <<hostVars, simVars>> PROVE FaultClears'
  BY <1>13, <1>a DEF AdmitGroup, Take, CanTry, Open, FaultClears, Faulted, cpuVars, simVars
<1>14. ASSUME AdmitHost /\ UNCHANGED <<portVars, simVars>> PROVE FaultClears'
  BY <1>14, <1>a DEF AdmitHost, Take, CanTry, Open, FaultClears, Faulted, cpuVars, simVars
<1>15. ASSUME BeginHost PROVE FaultClears'
  BY <1>15, <1>a DEF BeginHost, FaultClears, Faulted, cpuVars, simVars
<1>16. ASSUME FetchCommand /\ UNCHANGED <<cpuVars, portVars, simVars>> PROVE FaultClears'
  BY <1>16, <1>a DEF FetchCommand, FaultClears, Faulted, cpuVars, simVars
<1>17. ASSUME FetchNothing /\ UNCHANGED <<cpuVars, portVars, simVars>> PROVE FaultClears'
  BY <1>17, <1>a DEF FetchNothing, FaultClears, Faulted, cpuVars, simVars
<1>18. ASSUME EndHostStep /\ UNCHANGED <<cpuVars, portVars, simVars>> PROVE FaultClears'
  BY <1>18, <1>a DEF EndHostStep, FaultClears, Faulted, cpuVars, simVars
<1>19. ASSUME NEW S \in SUBSET CanElapse, Transfers(S) PROVE FaultClears'
  BY <1>19, <1>a DEF Transfers, FaultClears, Faulted, cpuVars, simVars
<1>20. ASSUME NEW next \in CommandStates, ProfileStep(next) PROVE FaultClears'
  BY <1>20, <1>a DEF ProfileStep, FaultClears, Faulted, cpuVars, simVars
<1>21. ASSUME NEW F \in SUBSET Running, NEW X \in SUBSET (Running \ F), Contexts(F, X) PROVE FaultClears'
  BY <1>21, <1>a DEF Contexts, FaultClears, Faulted, cpuVars, simVars
<1>22. ASSUME ResetStep PROVE FaultClears'
  BY <1>22, <1>a DEF ResetStep, FaultClears, Faulted, cpuVars, simVars
<1>23. ASSUME Poison PROVE FaultClears'
  BY <1>23, <1>b DEF Poison, EndRun, Reasons
<1>24. ASSUME HostHarvest PROVE FaultClears'
  BY <1>24, <1>a DEF HostHarvest, HarvestHost, FaultClears, Faulted, cpuVars, simVars
<1>25. ASSUME HarvestRaises PROVE FaultClears'
  BY <1>25, <1>a DEF HarvestRaises, EndRun, FaultClears, Faulted, cpuVars, simVars
<1>26. ASSUME RetireSlots /\ UNCHANGED <<cpuVars, hostVars, simVars>> PROVE FaultClears'
  BY <1>26, <1>a DEF RetireSlots, FaultClears, Faulted, cpuVars, simVars
<1>27. ASSUME EndPlacing /\ UNCHANGED <<cpuVars, hostVars, simVars>> PROVE FaultClears'
  BY <1>27, <1>a DEF EndPlacing, FaultClears, Faulted, cpuVars, simVars
<1>28. ASSUME CancelPending /\ UNCHANGED <<cpuVars, hostVars, simVars>> PROVE FaultClears'
  BY <1>28, <1>a DEF CancelPending, FaultClears, Faulted, cpuVars, simVars
<1>29. ASSUME NEW c \in Categories, Place(c) /\ UNCHANGED <<cpuVars, hostVars, simVars>> PROVE FaultClears'
  BY <1>29, <1>a DEF Place, Attempting, FaultClears, Faulted, cpuVars, simVars
<1>30. ASSUME NEW c \in Categories, FailHead(c) /\ UNCHANGED <<cpuVars, hostVars, simVars>> PROVE FaultClears'
  BY <1>30, <1>a DEF FailHead, Attempting, FaultClears, Faulted, cpuVars, simVars
<1>31. ASSUME HarvestClean /\ UNCHANGED simVars PROVE FaultClears'
  BY <1>31, <1>a DEF HarvestClean, TakeAnswers, FaultClears, Faulted, cpuVars, simVars
<1>32. ASSUME HarvestFault /\ UNCHANGED simVars PROVE FaultClears'
  BY <1>32, <1>b DEF HarvestFault, TakeAnswers, Reasons
<1>33. ASSUME SettleFault PROVE FaultClears'
  BY <1>33, <1>a DEF SettleFault, EndRun, GoOn, FaultClears, Faulted, cpuVars, simVars
<1>34. ASSUME SettleSuccess PROVE FaultClears'
  BY <1>34, <1>a DEF SettleSuccess, EndRun, FaultClears, Faulted, cpuVars, simVars
<1>35. ASSUME SettleCapped PROVE FaultClears'
  BY <1>35, <1>a DEF SettleCapped, EndRun, GoOn, FaultClears, Faulted, cpuVars, simVars
<1>36. ASSUME SettleOn PROVE FaultClears'
  BY <1>36, <1>a DEF SettleOn, GoOn, FaultClears, Faulted, cpuVars, simVars
<1>37. ASSUME NextCycle PROVE FaultClears'
  BY <1>37, <1>a DEF NextCycle, FaultClears, Faulted, cpuVars, simVars
<1>38. ASSUME CycleCap PROVE FaultClears'
  BY <1>38, <1>b DEF CycleCap, Reasons
<1>39. ASSUME Deadline PROVE FaultClears'
  BY <1>39, <1>a DEF Deadline, EndRun, FaultClears, Faulted, cpuVars, simVars
<1>40. ASSUME UNCHANGED vars PROVE FaultClears'
  BY <1>40, <1>a DEF vars, cpuVars, simVars, FaultClears, Faulted
<1>41. ASSUME CpuStep PROVE FaultClears'
  BY <1>41, <1>1, <1>2, <1>3, <1>4, <1>5, <1>6, <1>7, <1>8, <1>9, <1>10, <1>11, <1>12, <1>13, <1>14 DEF CpuStep, Commands
<1>42. ASSUME HostStep PROVE FaultClears'
  BY <1>42, <1>16, <1>17, <1>18 DEF HostStep
<1>43. ASSUME GroupStep PROVE FaultClears'
  BY <1>43, <1>19, <1>20, <1>21, <1>22, <1>23 DEF GroupStep
<1>44. ASSUME PortPoll PROVE FaultClears'
  BY <1>44, <1>26, <1>27, <1>28, <1>29, <1>30 DEF PortPoll
<1>45. ASSUME CpuHarvest PROVE FaultClears'
  BY <1>45, <1>31, <1>32 DEF CpuHarvest
<1>46. ASSUME Settle PROVE FaultClears'
  BY <1>46, <1>33, <1>34, <1>35, <1>36 DEF Settle
<1> QED
  BY <1>15, <1>24, <1>25, <1>37, <1>38, <1>39, <1>40, <1>41, <1>42, <1>43, <1>44, <1>45, <1>46 DEF Next

-----------------------------------------------------------------------------
(* References.                                                             *)

\* The operations from position p on that name r, without the command c.
AheadIn(p, c, r) == {i \in Positions : i >= p /\ r \in prog[i].deps /\ c # i}

\* What is ahead of the program when it has passed the operation at pc, or has
\* handed over the command at pc.
LEMMA AheadFacts ==
    ASSUME prog \in Programs, NEW p \in Positions, NEW r
    PROVE  /\ AheadIn(p + 1, 0, r) = AheadIn(p, p, r)
           /\ IsFiniteSet(AheadIn(p, 0, r)) /\ IsFiniteSet(AheadIn(p, p, r))
           /\ Cardinality(AheadIn(p, 0, r)) \in Nat /\ Cardinality(AheadIn(p, p, r)) \in Nat
           /\ Cardinality(AheadIn(p, 0, r))
                 = Cardinality(AheadIn(p, p, r)) + (IF r \in prog[p].deps THEN 1 ELSE 0)
<1>1. Positions \subseteq Nat /\ 0 \notin Positions /\ IsFiniteSet(Positions)
  BY ProgramFacts
<1>2. AheadIn(p + 1, 0, r) = AheadIn(p, p, r)
  <2>1. \A i \in Positions : (i >= p + 1 /\ 0 # i) <=> (i >= p /\ p # i)
    BY <1>1
  <2> QED
    BY <2>1 DEF AheadIn
<1>3. /\ AheadIn(p, p, r) = AheadIn(p, 0, r) \ {p}
      /\ p \in AheadIn(p, 0, r) <=> r \in prog[p].deps
  BY <1>1 DEF AheadIn
<1>4. AheadIn(p, 0, r) \subseteq Positions
  BY DEF AheadIn
<1>5. IsFiniteSet(AheadIn(p, 0, r)) /\ IsFiniteSet(AheadIn(p, p, r))
  BY <1>1, <1>3, <1>4, FS_Subset, FS_RemoveElement
<1>6. Cardinality(AheadIn(p, 0, r)) \in Nat /\ Cardinality(AheadIn(p, p, r)) \in Nat
  BY <1>5, FS_CardinalityType
<1>7. CASE r \in prog[p].deps
  <2>1. Cardinality(AheadIn(p, 0, r) \ {p}) = Cardinality(AheadIn(p, 0, r)) - 1
    BY <1>3, <1>5, <1>7, FS_RemoveElement
  <2> QED
    BY <1>2, <1>3, <1>5, <1>6, <1>7, <2>1
<1>8. CASE r \notin prog[p].deps
  <2>1. AheadIn(p, p, r) = AheadIn(p, 0, r)
    BY <1>3, <1>8
  <2> QED
    BY <1>2, <1>5, <1>6, <1>8, <2>1
<1> QED
  BY <1>7, <1>8

\* The pending launches that wait for r are some of the program's.
LEMMA WaitingFinite ==
    ASSUME prog \in Programs, NEW p \in Seq(Pendings), NEW r
    PROVE  /\ WaitingIn(p, r) \subseteq IdsIn(p) /\ IsFiniteSet(WaitingIn(p, r))
           /\ Cardinality(WaitingIn(p, r)) \in Nat
<1>1. WaitingIn(p, r) \subseteq IdsIn(p)
  BY WaitingFacts DEF IdsIn
<1>2. \A k \in DOMAIN p : p[k] \in Pendings
  BY SeqFacts
<1>3. \A k \in DOMAIN p : p[k].id \in Launches
  BY <1>2 DEF Pendings
<1>4. IdsIn(p) \subseteq Launches /\ IsFiniteSet(Launches)
  BY <1>3, ProgramFacts DEF IdsIn
<1>5. IsFiniteSet(WaitingIn(p, r))
  BY <1>1, <1>4, FS_Subset
<1> QED
  BY <1>1, <1>5, FS_CardinalityType

\* Consuming references, never more than there are, forgets exactly the events
\* whose last one it was.
LEMMA ReleaseCounts ==
    ASSUME remaining \in [Positions -> Nat], NEW uses \in [Positions -> Nat], Release(uses),
           \A r \in Positions : uses[r] <= remaining[r]
    PROVE  /\ remaining' \in [Positions -> Nat]
           /\ \A r \in Positions :
                 /\ remaining'[r] = remaining[r] - uses[r] /\ remaining[r] >= remaining'[r]
                 /\ remaining'[r] > 0 \/ uses[r] = 0 =>
                       /\ r \in handles' <=> r \in handles
                       /\ r \in reserved' <=> r \in reserved
                       /\ r \in completions' <=> r \in completions
                 /\ remaining'[r] = 0 /\ uses[r] > 0 =>
                       r \notin handles' /\ r \notin reserved' /\ r \notin completions'
<1> DEFINE spent == {r \in Positions : uses[r] > 0 /\ remaining[r] = uses[r]}
<1>1. /\ remaining' = [r \in Positions |-> remaining[r] - uses[r]]
      /\ completions' = completions \ spent /\ reserved' = reserved \ spent /\ handles' = handles \ spent
  BY DEF Release
<1>2. \A r \in Positions : /\ remaining[r] \in Nat /\ uses[r] \in Nat /\ uses[r] <= remaining[r]
                           /\ remaining'[r] = remaining[r] - uses[r]
  BY <1>1
<1>3. \A r \in Positions : remaining'[r] \in Nat /\ remaining[r] >= remaining'[r]
  BY <1>2
<1>4. \A r \in Positions : r \in spent <=> remaining'[r] = 0 /\ uses[r] > 0
  BY <1>2
<1>5. remaining' \in [Positions -> Nat]
  BY <1>1, <1>3
<1> HIDE DEF spent
<1>6. \A r \in Positions : remaining'[r] > 0 \/ uses[r] = 0 => r \notin spent
  BY <1>2, <1>3, <1>4
<1> QED
  BY <1>1, <1>2, <1>3, <1>4, <1>5, <1>6

\* Every reference is counted once.
LEMMA CountedStep ==
    ASSUME Types, PendingFresh, ControlTrue, FaultClears, Counted, ReservationsExact, [Next]_vars
    PROVE  Counted'
<1>1. /\ prog' = prog /\ Positions' = Positions /\ Launches' = Launches /\ prog \in Programs
      /\ pending \in Seq(Pendings) /\ ApartIn(pending) /\ handles \subseteq Launches /\ completions \subseteq Launches
      /\ remaining \in [Positions -> Nat] /\ pc \in 1 .. (Len(prog) + 1) /\ pc \in Nat
  BY Writers, SameProgram, ProgramFacts DEF Types, SimTypes, CpuTypes, PendingFresh, ApartIn, Counted
<1>2. /\ Len(prog) \in Nat /\ Positions = 1 .. Len(prog) /\ Positions \subseteq Nat /\ 0 \notin Positions
      /\ Launches \subseteq Positions
  BY <1>1, ProgramFacts
<1>3. /\ ~Faulted => \A r \in Launches : r < pc =>
            /\ remaining[r] = Cardinality(WaitingIn(pending, r)) + Cardinality(AheadIn(pc, control, r))
            /\ remaining[r] > 0 => r \in handles
      /\ \A r \in Positions : r \notin Launches \/ r >= pc => remaining[r] = 0
      /\ ~Faulted => \A r \in handles : remaining[r] > 0 \/ r \in IdsIn(pending) \cup active \cup activeHost
  BY DEF Counted, ReferenceAccounting, Consumers, Waiting, WaitingIn, Ahead, AheadIn, PendingIds, IdsIn
<1>4. ASSUME remaining' \in [Positions -> Nat],
             ~Faulted' => \A r \in Launches : r < pc' =>
                /\ remaining'[r] = Cardinality(WaitingIn(pending', r)) + Cardinality(AheadIn(pc', control', r))
                /\ remaining'[r] > 0 => r \in handles',
             \A r \in Positions : r \notin Launches \/ r >= pc' => remaining'[r] = 0,
             ~Faulted' => \A r \in handles' : remaining'[r] > 0 \/ r \in IdsIn(pending') \cup active' \cup activeHost'
      PROVE  Counted'
  <2>1. \A r : Waiting(r)' = WaitingIn(pending', r) /\ Ahead(r)' = AheadIn(pc', control', r)
    BY <1>1 DEF Waiting, WaitingIn, Ahead, AheadIn
  <2>2. \A r : Consumers(r)' = Cardinality(WaitingIn(pending', r)) + Cardinality(AheadIn(pc', control', r))
    BY <2>1 DEF Consumers
  <2>3. ReferenceAccounting'
    BY <1>1, <1>4, <2>2 DEF ReferenceAccounting
  <2>4. PendingIds' = IdsIn(pending')
    BY DEF PendingIds, IdsIn
  <2> QED
    BY <1>1, <1>4, <2>3, <2>4 DEF Counted
<1>5. CASE UNCHANGED cpuVars
  <2>1. UNCHANGED <<remaining, pending, pc, control, handles, active, activeHost, fault>>
    BY <1>5 DEF cpuVars
  <2>2. Faulted' = Faulted
    BY <2>1 DEF Faulted
  <2> QED
    BY <1>1, <1>3, <1>4, <2>1, <2>2
<1>6. ASSUME NEW why, NEW after, EnterFault(why, after), why \in Reasons PROVE Counted'
  <2>1. Faulted' /\ remaining' = [r \in Positions |-> 0]
    BY <1>6, EnterFaultFacts
  <2> QED
    BY <1>4, <2>1
\* Completions and their references.
<1>7. \A r \in completions : r \in Launches /\ r \in Positions /\ r < pc /\ remaining[r] > 0
  BY <1>1, <1>2, <1>3 DEF ReservationsExact
\* uses are consumed: the consumers become fewer by as many.
<1>8. ASSUME NEW uses \in [Positions -> Nat], Release(uses), ~Faulted,
             \A r \in Positions : uses[r] <= remaining[r],
             UNCHANGED <<active, activeHost>>, IdsIn(pending') = IdsIn(pending),
             \A r \in Launches : r < pc' => r < pc, pc' >= pc, pc' \in Nat,
             \A r \in Launches : r < pc =>
                Cardinality(WaitingIn(pending, r)) + Cardinality(AheadIn(pc, control, r))
                 = Cardinality(WaitingIn(pending', r)) + Cardinality(AheadIn(pc', control', r)) + uses[r],
             \A r \in Launches : /\ Cardinality(WaitingIn(pending', r)) \in Nat
                                 /\ Cardinality(AheadIn(pc', control', r)) \in Nat
      PROVE  Counted'
  <2>1. /\ remaining' \in [Positions -> Nat]
        /\ \A r \in Positions :
              /\ remaining'[r] = remaining[r] - uses[r] /\ remaining[r] >= remaining'[r]
              /\ remaining'[r] > 0 \/ uses[r] = 0 => (r \in handles' <=> r \in handles)
              /\ remaining'[r] = 0 /\ uses[r] > 0 => r \notin handles'
    BY <1>1, <1>8, ReleaseCounts
  <2>2. handles' \subseteq handles
    BY <1>8, ReleaseFacts
  <2>3. ASSUME NEW r \in Launches, r < pc'
        PROVE  /\ remaining'[r] = Cardinality(WaitingIn(pending', r)) + Cardinality(AheadIn(pc', control', r))
               /\ remaining'[r] > 0 => r \in handles'
    <3>1. r < pc /\ r \in Positions
      BY <1>2, <1>8, <2>3
    <3>2. remaining[r] \in Nat /\ uses[r] \in Nat /\ remaining'[r] \in Nat
      BY <1>1, <1>8, <2>1, <3>1
    <3>3. remaining'[r] = Cardinality(WaitingIn(pending', r)) + Cardinality(AheadIn(pc', control', r))
      BY <1>3, <1>8, <2>1, <3>1, <3>2
    <3>4. ASSUME remaining'[r] > 0 PROVE r \in handles'
      BY <1>3, <1>8, <2>1, <3>1, <3>2, <3>4
    <3> QED
      BY <3>3, <3>4
  <2>4. ASSUME NEW r \in Positions, r \notin Launches \/ r >= pc' PROVE remaining'[r] = 0
    <3>1. r \in Nat /\ (r \notin Launches \/ r >= pc)
      BY <1>1, <1>2, <1>8, <2>4
    <3>2. remaining[r] = 0 /\ remaining'[r] \in Nat /\ remaining[r] >= remaining'[r]
      BY <1>3, <2>1, <3>1
    <3> QED
      BY <3>2
  <2>5. ASSUME NEW r \in handles' PROVE remaining'[r] > 0 \/ r \in IdsIn(pending') \cup active' \cup activeHost'
    <3>1. r \in handles /\ r \in Positions
      BY <1>1, <1>2, <2>2, <2>5
    <3>2. remaining'[r] \in Nat /\ uses[r] \in Nat /\ remaining[r] \in Nat
      BY <1>1, <1>8, <2>1, <3>1
    <3>3. CASE remaining[r] > 0
      BY <2>1, <2>5, <3>1, <3>2, <3>3
    <3>4. CASE r \in IdsIn(pending) \cup active \cup activeHost
      BY <1>8, <3>4
    <3> QED
      BY <1>3, <1>8, <3>1, <3>3, <3>4
  <2> QED
    BY <1>4, <2>1, <2>3, <2>4, <2>5
<1>9. ASSUME Resolve, ~Faulted PROVE Counted'
  <2> DEFINE uses == [r \in Positions |-> IF r \in completions THEN Cardinality(WaitingIn(pending, r)) ELSE 0]
  <2>1. /\ pending' \in Seq(Pendings) /\ IdsIn(pending') = IdsIn(pending)
        /\ \A r : WaitingIn(pending', r) = IF r \in completions THEN {} ELSE WaitingIn(pending, r)
    BY <1>1, <1>9, ResolveFacts
  <2>2. Release(uses) /\ UNCHANGED <<pc, active, activeHost, control>>
    BY <1>9 DEF Resolve, Waiting, WaitingIn
  <2>3. \A r : Cardinality(WaitingIn(pending, r)) \in Nat /\ Cardinality(WaitingIn(pending', r)) \in Nat
    BY <1>1, <2>1, WaitingFinite
  <2>4. uses \in [Positions -> Nat] /\ \A r \in Positions : uses[r] = IF r \in completions THEN Cardinality(WaitingIn(pending, r)) ELSE 0
    BY <2>3
  <2>5. \A r : Cardinality(AheadIn(pc, control, r)) \in Nat
    <3>1. \A r : AheadIn(pc, control, r) \subseteq Positions /\ IsFiniteSet(Positions)
      BY <1>1, ProgramFacts DEF AheadIn
    <3>2. \A r : IsFiniteSet(AheadIn(pc, control, r))
      BY <3>1, FS_Subset
    <3> QED
      BY <3>2, FS_CardinalityType
  <2> HIDE DEF uses
  <2>6. \A r \in Positions : uses[r] <= remaining[r]
    <3> SUFFICES ASSUME NEW r \in Positions PROVE uses[r] <= remaining[r]
      OBVIOUS
    <3>1. CASE r \in completions
      <4>1. remaining[r] = Cardinality(WaitingIn(pending, r)) + Cardinality(AheadIn(pc, control, r))
        BY <1>3, <1>7, <1>9, <3>1
      <4> QED
        BY <2>3, <2>4, <2>5, <3>1, <4>1
    <3>2. CASE r \notin completions
      <4>1. remaining[r] \in Nat /\ uses[r] = 0
        BY <1>1, <2>4, <3>2
      <4> QED
        BY <4>1
    <3> QED
      BY <3>1, <3>2
  <2>7. Cardinality({}) = 0
    BY FS_EmptySet
  <2>8. ASSUME NEW r \in Launches
        PROVE Cardinality(WaitingIn(pending, r)) + Cardinality(AheadIn(pc, control, r))
               = Cardinality(WaitingIn(pending', r)) + Cardinality(AheadIn(pc', control', r)) + uses[r]
    <3>1. r \in Positions /\ AheadIn(pc', control', r) = AheadIn(pc, control, r)
      BY <1>2, <2>2
    <3>2. CASE r \in completions
      <4>1. WaitingIn(pending', r) = {} /\ uses[r] = Cardinality(WaitingIn(pending, r))
        BY <2>1, <2>4, <3>1, <3>2
      <4> QED
        BY <2>3, <2>5, <2>7, <3>1, <4>1
    <3>3. CASE r \notin completions
      <4>1. WaitingIn(pending', r) = WaitingIn(pending, r) /\ uses[r] = 0
        BY <2>1, <2>4, <3>1, <3>3
      <4> QED
        BY <2>3, <2>5, <3>1, <4>1
    <3> QED
      BY <3>2, <3>3
  <2>9. pc' = pc /\ pc' >= pc /\ pc' \in Nat /\ \A r : AheadIn(pc', control', r) = AheadIn(pc, control, r)
    BY <1>1, <2>2
  <2> QED
    BY <1>8, <1>9, <2>1, <2>2, <2>3, <2>4, <2>5, <2>6, <2>8, <2>9
\* The operation at pc consumes its references, one for each event it names.
<1>10. ASSUME pc \in Positions, pc \notin Launches, ~Faulted, control = 0,
              UNCHANGED <<pending, active, activeHost>>, Release(Once(prog[pc].deps)), prog[pc].deps \subseteq completions,
              (pc' = pc + 1 /\ control' = 0) \/ (pc' = pc /\ control' = pc)
       PROVE  Counted'
  <2> DEFINE uses == Once(prog[pc].deps)
  <2>1. uses \in [Positions -> Nat] /\ \A r \in Positions : uses[r] = IF r \in prog[pc].deps THEN 1 ELSE 0
    BY DEF Once
  <2>2. Release(uses)
    BY <1>10
  <2> HIDE DEF uses
  <2>3. \A r \in Positions : uses[r] <= remaining[r]
    BY <1>1, <1>7, <1>10, <2>1
  <2>4. \A r : AheadIn(pc', control', r) = AheadIn(pc, pc, r)
    BY <1>1, <1>10, AheadFacts
  <2>5. \A r : /\ Cardinality(AheadIn(pc, 0, r)) \in Nat /\ Cardinality(AheadIn(pc, pc, r)) \in Nat
               /\ Cardinality(AheadIn(pc, 0, r))
                    = Cardinality(AheadIn(pc, pc, r)) + (IF r \in prog[pc].deps THEN 1 ELSE 0)
    BY <1>1, <1>10, AheadFacts
  <2>6. \A r : Cardinality(WaitingIn(pending, r)) \in Nat
    BY <1>1, WaitingFinite
  <2>7. ASSUME NEW r \in Launches
        PROVE Cardinality(WaitingIn(pending, r)) + Cardinality(AheadIn(pc, control, r))
               = Cardinality(WaitingIn(pending', r)) + Cardinality(AheadIn(pc', control', r)) + uses[r]
    <3>1. uses[r] = IF r \in prog[pc].deps THEN 1 ELSE 0
      BY <1>2, <2>1
    <3>2. WaitingIn(pending', r) = WaitingIn(pending, r)
      BY <1>10
    <3> QED
      BY <1>10, <2>4, <2>5, <2>6, <3>1, <3>2
  <2>8. /\ pc' >= pc /\ pc' \in Nat
        /\ \A r \in Launches : r < pc' => r < pc
    BY <1>1, <1>2, <1>10
  <2>9. /\ IdsIn(pending') = IdsIn(pending) /\ UNCHANGED <<active, activeHost>>
        /\ \A r \in Launches : /\ Cardinality(WaitingIn(pending', r)) \in Nat
                               /\ Cardinality(AheadIn(pc', control', r)) \in Nat
    BY <1>10, <2>4, <2>5, <2>6
  <2> QED
    BY <1>8, <1>10, <2>1, <2>2, <2>3, <2>7, <2>8, <2>9
\* A launch is issued: the operations ahead become the event's references, and a
\* reference of each event it names passes from the operation to the launch.
<1>11. ASSUME NEW op \in Launching, Submit(op) PROVE Counted'
  <2> DEFINE e == [id |-> pc, needs |-> prog[pc].deps]
  <2>1. /\ pc \in Positions /\ pc \in Launches /\ prog[pc].op \notin Controls /\ ~Faulted
        /\ prog[pc].deps \subseteq Launches /\ \A d \in prog[pc].deps : d < pc
    <3>1. phase = "issue" /\ pc <= Len(prog) /\ prog[pc].op = op
      BY <1>11 DEF Submit, Here
    <3>2. pc \in Positions /\ ~Faulted
      BY <1>1, <1>2, <3>1 DEF FaultClears
    <3>3. op \notin Controls
      BY DEF Launching, Controls
    <3> QED
      BY <1>1, <3>1, <3>2, <3>3, ProgramFacts DEF Launches
  <2>2. control = 0 /\ control' = 0 /\ pc' = pc + 1 /\ UNCHANGED <<active, activeHost, fault>>
    BY <1>11, <2>1 DEF ControlTrue, Submit
  <2>3. /\ pending' = Append(pending, e) /\ handles' = handles \cup {pc}
        /\ remaining' = [remaining EXCEPT ![pc] = References(pc)]
    BY <1>11 DEF Submit
  <2>4. e \in Pendings /\ e.id = pc /\ e.needs = prog[pc].deps
    BY <2>1 DEF Pendings
  <2> HIDE DEF e
  <2>5. pc \notin IdsIn(pending) /\ \A r : pc \notin WaitingIn(pending, r)
    <3>0. \A r \in IdsIn(pending) : r < pc
      BY DEF PendingFresh, PendingIds, IdsIn
    <3>1. pc \notin IdsIn(pending)
      BY <1>1, <3>0
    <3> QED
      BY <1>1, <3>1, WaitingFinite
  <2>6. /\ IdsIn(pending') = IdsIn(pending) \cup {pc}
        /\ \A r : WaitingIn(pending', r) = WaitingIn(pending, r) \cup (IF r \in prog[pc].deps THEN {pc} ELSE {})
    BY <1>1, <2>3, <2>4, <2>5, JoinFacts
  <2>7. /\ WaitingIn(pending', pc) = {}
        /\ AheadIn(pc + 1, 0, pc) = {i \in Positions : pc \in prog[i].deps}
    <3>1. \A r \in IdsIn(pending) : r < pc
      BY DEF PendingFresh, PendingIds, IdsIn
    <3>2. ASSUME NEW x \in WaitingIn(pending, pc) PROVE FALSE
      <4>1. PICK k \in DOMAIN pending : pending[k].id = x /\ pc \in pending[k].needs
        BY <1>1, <3>2, WaitingFacts
      <4>2. pc < pending[k].id
        BY <4>1 DEF PendingFresh
      <4>3. pending[k].id \in IdsIn(pending)
        BY DEF IdsIn
      <4>4. pending[k] \in Pendings
        BY <1>1, SeqFacts
      <4>5. pending[k].id \in Nat
        BY <1>2, <4>4 DEF Pendings
      <4> QED
        BY <1>1, <3>1, <4>2, <4>3, <4>5
    <3>3. pc \notin prog[pc].deps
      BY <1>1, <2>1
    <3>4. ASSUME NEW i \in Positions, pc \in prog[i].deps PROVE i >= pc + 1 /\ 0 # i
      <4>1. pc < i /\ i \in Nat /\ i # 0
        BY <1>1, <1>2, <3>4, ProgramFacts
      <4> QED
        BY <1>1, <4>1
    <3>5. WaitingIn(pending', pc) = {}
      BY <2>6, <3>2, <3>3
    <3> QED
      BY <3>4, <3>5 DEF AheadIn
  <2>8. ASSUME NEW r \in Launches, r < pc'
        PROVE  /\ remaining'[r] = Cardinality(WaitingIn(pending', r)) + Cardinality(AheadIn(pc', control', r))
               /\ remaining'[r] > 0 => r \in handles'
    <3>1. r \in Positions /\ r \in Nat /\ (r < pc \/ r = pc)
      BY <1>1, <1>2, <2>2, <2>8
    <3>2. CASE r = pc
      <4>1. remaining'[r] = Cardinality(AheadIn(pc + 1, 0, r)) /\ r \in handles'
        BY <1>1, <2>1, <2>3, <2>7, <3>2 DEF References
      <4>2. Cardinality(WaitingIn(pending', r)) = 0
        BY <2>7, <3>2, FS_EmptySet
      <4>3. Cardinality(AheadIn(pc + 1, 0, r)) \in Nat
        BY <1>1, <2>1, AheadFacts
      <4> QED
        BY <2>2, <4>1, <4>2, <4>3
    <3>3. CASE r < pc
      <4>1. r # pc /\ remaining'[r] = remaining[r] /\ (remaining[r] > 0 => r \in handles')
        BY <1>1, <1>3, <2>1, <2>3, <3>1, <3>3
      <4>2. remaining[r] = Cardinality(WaitingIn(pending, r)) + Cardinality(AheadIn(pc, 0, r))
        BY <1>3, <2>1, <2>2, <3>3
      <4>3. /\ Cardinality(AheadIn(pc, 0, r)) = Cardinality(AheadIn(pc + 1, 0, r)) + (IF r \in prog[pc].deps THEN 1 ELSE 0)
            /\ Cardinality(AheadIn(pc + 1, 0, r)) \in Nat
        BY <1>1, <2>1, AheadFacts
      <4>4. IsFiniteSet(WaitingIn(pending, r)) /\ Cardinality(WaitingIn(pending, r)) \in Nat
        BY <1>1, WaitingFinite
      <4>5. Cardinality(WaitingIn(pending', r)) = Cardinality(WaitingIn(pending, r)) + (IF r \in prog[pc].deps THEN 1 ELSE 0)
        <5>1. CASE r \in prog[pc].deps
          <6>1. WaitingIn(pending', r) = WaitingIn(pending, r) \cup {pc}
            BY <2>6, <5>1
          <6> QED
            BY <2>5, <4>4, <5>1, <6>1, FS_AddElement
        <5>2. CASE r \notin prog[pc].deps
          <6>1. WaitingIn(pending', r) = WaitingIn(pending, r)
            BY <2>6, <5>2
          <6> QED
            BY <4>4, <5>2, <6>1
        <5> QED
          BY <5>1, <5>2
      <4> QED
        BY <2>2, <4>1, <4>2, <4>3, <4>4, <4>5
    <3> QED
      BY <3>1, <3>2, <3>3
  <2>9. remaining' \in [Positions -> Nat]
    <3>1. Cardinality(AheadIn(pc + 1, 0, pc)) \in Nat
      BY <1>1, <2>1, AheadFacts
    <3> QED
      BY <1>1, <2>3, <2>7, <3>1 DEF References
  <2>10. ASSUME NEW r \in Positions, r \notin Launches \/ r >= pc' PROVE remaining'[r] = 0
    <3>1. r # pc /\ (r \notin Launches \/ r >= pc)
      BY <1>1, <1>2, <2>1, <2>2, <2>10
    <3> QED
      BY <1>1, <1>3, <2>3, <3>1
  <2>11. ASSUME NEW r \in handles' PROVE remaining'[r] > 0 \/ r \in IdsIn(pending') \cup active' \cup activeHost'
    <3>1. CASE r = pc
      BY <2>6, <3>1
    <3>2. CASE r # pc
      <4>1. r \in handles /\ r \in Positions /\ remaining'[r] = remaining[r]
        BY <1>1, <1>2, <2>3, <2>11, <3>2
      <4> QED
        BY <1>3, <2>1, <2>2, <2>6, <4>1
    <3> QED
      BY <3>1, <3>2
  <2> QED
    BY <1>4, <2>8, <2>9, <2>10, <2>11
<1>12. CASE Await
  <2>1. pc \in Positions /\ prog[pc].op = "await" /\ ~Faulted
    BY <1>1, <1>2, <1>12 DEF Await, Here, FaultClears
  <2>2. pc \notin Launches /\ control = 0
    BY <2>1 DEF Launches, Launching, Controls, ControlTrue
  <2> QED
    BY <1>10, <1>12, <2>1, <2>2 DEF Await
<1>13. ASSUME NEW op \in Controls, NEW answer \in ControlAnswers, SubmitControl(op, answer) PROVE Counted'
  <2>1. pc \in Positions /\ prog[pc].op \in Controls /\ ~Faulted
    BY <1>1, <1>2, <1>13 DEF SubmitControl, Here, FaultClears
  <2>2. pc \notin Launches
    BY <2>1 DEF Launches, Launching, Controls
  <2> QED
    BY <1>10, <1>13, <2>1, <2>2 DEF SubmitControl, CanControl
\* The program goes on, nothing is consumed.
<1>14. ASSUME pc \in Positions, pc \notin Launches, pc' = pc + 1, control' = 0, ~Faulted,
              control = pc \/ (control = 0 /\ prog[pc].deps = {}),
              UNCHANGED <<pending, active, activeHost, handles, remaining, fault>>
       PROVE  Counted'
  <2>1. \A r : Cardinality(AheadIn(pc', control', r)) = Cardinality(AheadIn(pc, control, r))
    <3> SUFFICES ASSUME NEW r PROVE Cardinality(AheadIn(pc + 1, 0, r)) = Cardinality(AheadIn(pc, control, r))
      BY <1>14
    <3>1. /\ AheadIn(pc + 1, 0, r) = AheadIn(pc, pc, r) /\ Cardinality(AheadIn(pc, pc, r)) \in Nat
          /\ Cardinality(AheadIn(pc, 0, r)) = Cardinality(AheadIn(pc, pc, r)) + (IF r \in prog[pc].deps THEN 1 ELSE 0)
      BY <1>1, <1>14, AheadFacts
    <3>2. CASE control = pc
      BY <3>1, <3>2
    <3>3. CASE control = 0 /\ prog[pc].deps = {}
      BY <3>1, <3>3
    <3> QED
      BY <1>14, <3>2, <3>3
  <2>2. \A r \in Launches : r < pc' => r < pc
    BY <1>1, <1>2, <1>14
  <2>3. \A r \in Positions : r >= pc' => r >= pc
    BY <1>1, <1>2, <1>14
  <2>4. ASSUME NEW r \in Launches, r < pc'
        PROVE  /\ remaining'[r] = Cardinality(WaitingIn(pending', r)) + Cardinality(AheadIn(pc', control', r))
               /\ remaining'[r] > 0 => r \in handles'
    <3>1. r < pc /\ remaining' = remaining /\ pending' = pending /\ handles' = handles
      BY <1>14, <2>2, <2>4
    <3>2. /\ remaining[r] = Cardinality(WaitingIn(pending, r)) + Cardinality(AheadIn(pc, control, r))
          /\ remaining[r] > 0 => r \in handles
      BY <1>3, <1>14, <3>1
    <3> QED
      BY <2>1, <3>1, <3>2
  <2>5. \A r \in Positions : r \notin Launches \/ r >= pc' => remaining'[r] = 0
    BY <1>3, <1>14, <2>3
  <2>6. \A r \in handles' : remaining'[r] > 0 \/ r \in IdsIn(pending') \cup active' \cup activeHost'
    BY <1>3, <1>14
  <2>7. remaining' \in [Positions -> Nat]
    BY <1>1, <1>14
  <2> QED
    BY <1>4, <2>4, <2>5, <2>6, <2>7
<1>15. ASSUME NEW op \in Controls, PassControl(op) PROVE Counted'
  <2>1. pc \in Positions /\ prog[pc].op \in Controls /\ ~Faulted
    BY <1>1, <1>2, <1>15 DEF PassControl, Here, FaultClears
  <2>2. pc \notin Launches
    BY <2>1 DEF Launches, Launching, Controls
  <2> QED
    BY <1>14, <1>15, <2>1, <2>2 DEF PassControl
<1>16. CASE Return
  <2>1. pc \in Positions /\ prog[pc].op = "return" /\ ~Faulted
    BY <1>1, <1>2, <1>16 DEF Return, Here, FaultClears
  <2>2. pc \notin Launches /\ control = 0
    BY <2>1 DEF Launches, Launching, Controls, ControlTrue
  <2>3. prog[pc].deps = {}
    BY <1>1, <2>1, ProgramsWellFormed DEF WellFormed, Positions
  <2> QED
    BY <1>14, <1>16, <2>1, <2>2, <2>3 DEF Return
<1>17. CASE RejectHost \/ Poison \/ CycleCap \/ HarvestFault
  BY <1>6, <1>17 DEF RejectHost, Poison, CycleCap, HarvestFault, Reasons
<1>18. CASE EndAdmit
  <2>1. CASE Stuck
    BY <1>6, <1>18, <2>1 DEF EndAdmit, Reasons
  <2>2. CASE ~Stuck
    BY <1>5, <1>18, <2>2 DEF EndAdmit, cpuVars
  <2> QED
    BY <2>1, <2>2
\* A launch changes its place; who waits for what does not change.
<1>19. ASSUME ~Faulted, UNCHANGED <<remaining, pc, control, fault>>, handles' \subseteq handles,
              \A r : WaitingIn(pending', r) = WaitingIn(pending, r),
              \A r \in handles : remaining[r] > 0 => r \in handles',
              \A r \in handles' : \/ remaining[r] > 0
                                  \/ r \notin IdsIn(pending) \cup active \cup activeHost
                                  \/ r \in IdsIn(pending') \cup active' \cup activeHost'
       PROVE  Counted'
  <2>1. ASSUME NEW r \in Launches, r < pc'
        PROVE  /\ remaining'[r] = Cardinality(WaitingIn(pending', r)) + Cardinality(AheadIn(pc', control', r))
               /\ remaining'[r] > 0 => r \in handles'
    BY <1>3, <1>19, <2>1
  <2>2. \A r \in Positions : r \notin Launches \/ r >= pc' => remaining'[r] = 0
    BY <1>3, <1>19
  <2>3. \A r \in handles' : remaining'[r] > 0 \/ r \in IdsIn(pending') \cup active' \cup activeHost'
    BY <1>3, <1>19
  <2> QED
    BY <1>1, <1>4, <1>19, <2>1, <2>2, <2>3
<1>20. CASE AdmitGroup \/ AdmitHost
  <2>1. Take /\ ~Faulted
    BY <1>20 DEF AdmitGroup, AdmitHost, Take, CanTry, Open, FaultClears
  <2>2. /\ IdsIn(pending') = IdsIn(pending) \ {Ready}
        /\ \A r : WaitingIn(pending', r) = WaitingIn(pending, r)
    BY <2>1, TakeFacts
  <2>3. /\ active \subseteq active' /\ activeHost \subseteq activeHost'
        /\ Ready \in active' \cup activeHost'
    BY <1>20 DEF AdmitGroup, AdmitHost
  <2>4. UNCHANGED <<remaining, pc, control, fault, handles>>
    BY <2>1 DEF Take
  <2> QED
    BY <1>19, <2>1, <2>2, <2>3, <2>4
<1>21. CASE HarvestClean
  <2>1. /\ ~Faulted /\ UNCHANGED <<remaining, pc, control, fault, pending>>
        /\ handles' = handles \ {r \in Good : remaining[r] = 0}
        /\ active' = active \ Good /\ activeHost' = activeHost \ Good
    BY <1>21 DEF HarvestClean, TakeAnswers
  <2>2. \A r \in handles : remaining[r] \in Nat
    BY <1>1, <1>2
  <2>3. handles' \subseteq handles /\ \A r \in handles : remaining[r] > 0 => r \in handles'
    BY <2>1, <2>2
  <2>4. \A r \in handles' : r \in Good => remaining[r] > 0
    BY <2>1, <2>2
  <2>5. \A r \in handles' : \/ remaining[r] > 0
                            \/ r \notin IdsIn(pending) \cup active \cup activeHost
                            \/ r \in IdsIn(pending') \cup active' \cup activeHost'
    BY <2>1, <2>4
  <2> QED
    BY <1>19, <2>1, <2>3, <2>5
<1>22. CASE BeginStep \/ BeginAdmit
  BY <1>9, <1>22 DEF BeginStep, BeginAdmit, FaultClears
<1> QED
  BY <1>5, <1>11, <1>12, <1>13, <1>15, <1>16, <1>17, <1>18, <1>20, <1>21, <1>22, Writers DEF CpuWrites

-----------------------------------------------------------------------------
(* Completion slots, and launches that are somewhere.                      *)

\* No step consumes more references than there are.
LEMMA ReleasedWithin ==
    ASSUME Types, PendingFresh, FaultClears, Counted, ReservationsExact,
           \/ BeginStep \/ BeginAdmit \/ Await
           \/ \E op \in Controls, answer \in ControlAnswers : SubmitControl(op, answer)
    PROVE  \E uses \in [Positions -> Nat] :
              /\ Release(uses)
              /\ \A r \in Positions : uses[r] <= remaining[r]
<1>1. /\ prog \in Programs /\ pending \in Seq(Pendings) /\ completions \subseteq Launches
      /\ remaining \in [Positions -> Nat] /\ Launches \subseteq Positions /\ pc \in Nat
  BY ProgramFacts DEF Types, SimTypes, CpuTypes, Counted
<1>2. \A r \in completions : r \in Positions /\ remaining[r] > 0
  BY <1>1 DEF ReservationsExact
<1>3. ASSUME Resolve, ~Faulted
      PROVE  \E uses \in [Positions -> Nat] : Release(uses) /\ \A r \in Positions : uses[r] <= remaining[r]
  <2> DEFINE uses == [r \in Positions |-> IF r \in completions THEN Cardinality(Waiting(r)) ELSE 0]
  <2>1. \A r : Waiting(r) = WaitingIn(pending, r)
    BY DEF Waiting, WaitingIn
  <2>2. \A r : Cardinality(Waiting(r)) \in Nat
    BY <1>1, <2>1, WaitingFinite
  <2>3. \A r : Cardinality(Ahead(r)) \in Nat
    <3>1. \A r : Ahead(r) \subseteq Positions /\ IsFiniteSet(Positions)
      BY <1>1, ProgramFacts DEF Ahead
    <3>2. \A r : IsFiniteSet(Ahead(r))
      BY <3>1, FS_Subset
    <3> QED
      BY <3>2, FS_CardinalityType
  <2>4. uses \in [Positions -> Nat] /\ \A r \in Positions : uses[r] = IF r \in completions THEN Cardinality(Waiting(r)) ELSE 0
    BY <2>2
  <2>5. Release(uses)
    BY <1>3 DEF Resolve
  <2> HIDE DEF uses
  <2>6. ASSUME NEW r \in Positions PROVE uses[r] <= remaining[r]
    <3>1. CASE r \in completions
      <4>1. r \in Launches /\ r \in Nat
        BY <1>1, <3>1, ProgramFacts
      <4>2. r < pc
        BY <1>1, <1>2, <3>1, <4>1 DEF Counted
      <4>3. remaining[r] = Cardinality(Waiting(r)) + Cardinality(Ahead(r))
        BY <1>3, <4>1, <4>2 DEF Counted, ReferenceAccounting, Consumers
      <4> QED
        BY <2>2, <2>3, <2>4, <3>1, <4>3
    <3>2. CASE r \notin completions
      <4>1. uses[r] = 0 /\ remaining[r] \in Nat
        BY <1>1, <2>4, <3>2
      <4> QED
        BY <4>1
    <3> QED
      BY <3>1, <3>2
  <2> QED
    BY <2>4, <2>5, <2>6
<1>4. ASSUME Release(Once(prog[pc].deps)), prog[pc].deps \subseteq completions
      PROVE  \E uses \in [Positions -> Nat] : Release(uses) /\ \A r \in Positions : uses[r] <= remaining[r]
  <2>1. /\ Once(prog[pc].deps) \in [Positions -> Nat]
        /\ \A r \in Positions : Once(prog[pc].deps)[r] = IF r \in prog[pc].deps THEN 1 ELSE 0
    BY DEF Once
  <2>2. \A r \in Positions : remaining[r] \in Nat
    BY <1>1
  <2>3. \A r \in Positions : Once(prog[pc].deps)[r] <= remaining[r]
    BY <1>2, <1>4, <2>1, <2>2
  <2> QED
    BY <1>4, <2>1, <2>3
<1>5. CASE BeginStep \/ BeginAdmit
  BY <1>3, <1>5 DEF BeginStep, BeginAdmit, FaultClears
<1>6. CASE Await \/ \E op \in Controls, answer \in ControlAnswers : SubmitControl(op, answer)
  BY <1>4, <1>6 DEF Await, SubmitControl, CanControl
<1> QED
  BY <1>5, <1>6

\* A completion slot is held for as long as it is needed.
LEMMA ReservationsStep ==
    ASSUME Types, PendingFresh, LaunchAgreement, FaultClears, Counted, ReservationsExact, [Next]_vars
    PROVE  ReservationsExact'
<1>1. /\ prog \in Programs /\ remaining \in [Positions -> Nat] /\ Launches \subseteq Positions
      /\ active \subseteq Launches /\ activeHost \subseteq Launches /\ completions \subseteq Launches
      /\ reserved \subseteq Launches /\ pc \in Nat /\ Positions \subseteq Nat /\ IsFiniteSet(Launches)
      /\ CompletionCapacity \in Nat
  BY ProgramFacts, DeviceAssumption DEF Types, SimTypes, CpuTypes, Counted
<1>2. /\ Cardinality(reserved) <= CompletionCapacity
      /\ reserved = {r \in active \cup activeHost \cup completions : remaining[r] > 0}
      /\ completions \subseteq reserved
  BY DEF ReservationsExact
<1>3. IsFiniteSet(reserved) /\ Cardinality(reserved) \in Nat
  BY <1>1, FS_Subset, FS_CardinalityType
<1>4. CASE UNCHANGED <<active, activeHost, completions, reserved, remaining>>
  BY <1>2, <1>4 DEF ReservationsExact
<1>5. ASSUME NEW why \in Reasons, NEW after, EnterFault(why, after), active' \subseteq active, activeHost' \subseteq activeHost
      PROVE  ReservationsExact'
  <2>1. completions' = {} /\ reserved' = {} /\ remaining' = [r \in Positions |-> 0]
    BY <1>5, EnterFaultFacts
  <2>2. \A r \in active' \cup activeHost' : remaining'[r] = 0
    BY <1>1, <1>5, <2>1
  <2>3. Cardinality(reserved') <= CompletionCapacity
    BY <1>1, <2>1, FS_EmptySet
  <2>4. reserved' = {r \in active' \cup activeHost' \cup completions' : remaining'[r] > 0}
    BY <2>1, <2>2
  <2> QED
    BY <2>1, <2>3, <2>4 DEF ReservationsExact
<1>6. ASSUME NEW uses \in [Positions -> Nat], Release(uses), \A r \in Positions : uses[r] <= remaining[r],
             UNCHANGED <<active, activeHost>>
      PROVE  ReservationsExact'
  <2>1. \A r \in Positions :
           /\ remaining'[r] = remaining[r] - uses[r] /\ remaining[r] >= remaining'[r] /\ remaining'[r] \in Nat
           /\ remaining'[r] > 0 \/ uses[r] = 0 =>
                 (r \in reserved' <=> r \in reserved) /\ (r \in completions' <=> r \in completions)
           /\ remaining'[r] = 0 /\ uses[r] > 0 => r \notin reserved' /\ r \notin completions'
    BY <1>1, <1>6, ReleaseCounts
  <2>2. reserved' \subseteq reserved /\ completions' \subseteq completions
    BY <1>6, ReleaseFacts
  <2>3. Cardinality(reserved') <= CompletionCapacity
    <3>1. Cardinality(reserved') <= Cardinality(reserved) /\ Cardinality(reserved') \in Nat
      BY <1>3, <2>2, FS_Subset, FS_CardinalityType
    <3> QED
      BY <1>1, <1>2, <1>3, <3>1
  <2>4. \A r \in Positions : uses[r] \in Nat /\ remaining[r] \in Nat
    BY <1>1, <1>6
  <2>5. ASSUME NEW r \in reserved' PROVE r \in active' \cup activeHost' \cup completions' /\ remaining'[r] > 0
    <3>1. r \in reserved /\ r \in Positions /\ remaining[r] > 0 /\ r \in active \cup activeHost \cup completions
      BY <1>1, <1>2, <2>2, <2>5
    <3>2. remaining'[r] > 0
      BY <2>1, <2>4, <2>5, <3>1
    <3>3. r \in completions => r \in completions'
      BY <2>1, <3>1, <3>2
    <3> QED
      BY <1>6, <3>1, <3>2, <3>3
  <2>6. ASSUME NEW r \in active' \cup activeHost' \cup completions', remaining'[r] > 0 PROVE r \in reserved'
    <3>1. r \in active \cup activeHost \cup completions /\ r \in Positions
      BY <1>1, <1>6, <2>2, <2>6
    <3>2. remaining[r] > 0
      BY <2>1, <2>4, <2>6, <3>1
    <3>3. r \in reserved
      BY <1>2, <3>1, <3>2
    <3> QED
      BY <2>1, <2>6, <3>1, <3>3
  <2>7. ASSUME NEW r \in completions' PROVE r \in reserved'
    <3>1. r \in reserved /\ r \in Positions
      BY <1>1, <1>2, <2>2, <2>7
    <3> QED
      BY <2>1, <2>4, <2>7, <3>1
  <2> QED
    BY <2>3, <2>5, <2>6, <2>7 DEF ReservationsExact
<1>7. CASE \/ BeginStep \/ BeginAdmit \/ Await
           \/ \E op \in Controls, answer \in ControlAnswers : SubmitControl(op, answer)
  <2>1. PICK uses \in [Positions -> Nat] : Release(uses) /\ \A r \in Positions : uses[r] <= remaining[r]
    BY <1>7, ReleasedWithin
  <2>2. UNCHANGED <<active, activeHost>>
    BY <1>7 DEF BeginStep, BeginAdmit, Resolve, Await, SubmitControl
  <2> QED
    BY <1>6, <2>1, <2>2
<1>8. ASSUME NEW op \in Launching, Submit(op) PROVE ReservationsExact'
  <2>1. /\ UNCHANGED <<active, activeHost, completions, reserved>>
        /\ remaining' = [remaining EXCEPT ![pc] = References(pc)] /\ pc \in Positions
    <3>0. Positions = 1 .. Len(prog) /\ Len(prog) \in Nat /\ pc \in 1 .. (Len(prog) + 1) /\ pc <= Len(prog)
      BY <1>1, <1>8, ProgramFacts DEF Submit, Here, Types, CpuTypes
    <3>1. pc \in Positions
      BY <3>0
    <3> QED
      BY <1>8, <3>1 DEF Submit
  <2>2. remaining[pc] = 0
    BY <1>1, <2>1 DEF Counted
  <2>3. \A r \in active \cup activeHost : r < pc
    BY DEF PendingFresh
  <2>4. pc \notin active \cup activeHost
    BY <1>1, <2>3
  <2>5. pc \notin completions
    BY <1>2, <2>2
  <2>6. \A r \in active \cup activeHost \cup completions : remaining'[r] = remaining[r]
    BY <1>1, <2>1, <2>4, <2>5
  <2> QED
    BY <1>2, <2>1, <2>6 DEF ReservationsExact
<1>9. CASE AdmitGroup \/ AdmitHost
  <2>1. Take
    BY <1>9 DEF AdmitGroup, AdmitHost
  <2>2. active' \cup activeHost' = active \cup activeHost \cup {Ready}
    BY <1>9 DEF AdmitGroup, AdmitHost
  <2>3. Ready \in Launches /\ Ready \in Positions /\ Ready \in PendingIds
    BY <2>1, TakeFacts
  <2>4. /\ reserved' = reserved \cup (IF remaining[Ready] > 0 THEN {Ready} ELSE {})
        /\ UNCHANGED <<remaining, completions>>
        /\ remaining[Ready] > 0 => Cardinality(reserved) < CompletionCapacity
    BY <2>1 DEF Take, CanTry, MustReserve, Room
  <2>5. Cardinality(reserved') <= CompletionCapacity
    <3>1. CASE reserved' = reserved
      BY <1>2, <3>1
    <3>2. CASE reserved' # reserved
      <4>1. reserved' = reserved \cup {Ready} /\ Ready \notin reserved /\ Cardinality(reserved) < CompletionCapacity
        BY <2>4, <3>2
      <4>2. Cardinality(reserved') = Cardinality(reserved) + 1
        BY <1>3, <4>1, FS_AddElement
      <4> QED
        BY <1>1, <1>3, <4>1, <4>2
    <3> QED
      BY <3>1, <3>2
  <2>6. reserved' = {r \in active' \cup activeHost' \cup completions' : remaining'[r] > 0}
    BY <1>2, <2>2, <2>4
  <2> QED
    BY <1>2, <2>4, <2>5, <2>6 DEF ReservationsExact
<1>10. CASE HarvestClean
  <2>1. /\ UNCHANGED <<remaining, reserved>> /\ Bad = {}
        /\ completions' = completions \cup {r \in Good : remaining[r] > 0}
        /\ active' = active \ (Good \cup Bad) /\ activeHost' = activeHost \ (Good \cup Bad)
    BY <1>10 DEF HarvestClean, TakeAnswers
  <2>2. Good \cup Bad \subseteq active \cup activeHost
    BY Polled DEF LaunchAgreement, PortAgreement, HostAgreement
  <2>3. completions' \subseteq reserved'
    BY <1>2, <2>1, <2>2
  <2>4. reserved' = {r \in active' \cup activeHost' \cup completions' : remaining'[r] > 0}
    BY <1>2, <2>1, <2>2
  <2> QED
    BY <1>2, <2>1, <2>3, <2>4 DEF ReservationsExact
<1>11. CASE RejectHost \/ Poison \/ CycleCap \/ HarvestFault
  BY <1>5, <1>11 DEF RejectHost, Poison, CycleCap, HarvestFault, TakeAnswers, Reasons
<1>12. CASE EndAdmit
  <2>1. CASE Stuck
    BY <1>5, <1>12, <2>1 DEF EndAdmit, Reasons
  <2>2. CASE ~Stuck
    BY <1>4, <1>12, <2>2 DEF EndAdmit
  <2> QED
    BY <2>1, <2>2
<1>13. CASE Return \/ \E op \in Controls : PassControl(op)
  BY <1>4, <1>13 DEF Return, PassControl
<1>14. CASE UNCHANGED cpuVars
  BY <1>4, <1>14 DEF cpuVars
<1> QED
  BY <1>7, <1>8, <1>9, <1>10, <1>11, <1>12, <1>13, <1>14, Writers DEF CpuWrites

\* Without a fault no launch is lost.
LEMMA NoneLostStep ==
    ASSUME Types, PendingFresh, LaunchAgreement, FaultClears, NoneLost, [Next]_vars
    PROVE  NoneLost'
<1>1. /\ prog' = prog /\ Launches' = Launches /\ Positions' = Positions /\ prog \in Programs /\ pc \in Nat
      /\ Launches \subseteq Positions /\ Positions \subseteq Nat /\ launch \in [Positions -> LaunchStates]
      /\ pending \in Seq(Pendings) /\ ApartIn(pending)
  BY Writers, SameProgram, ProgramFacts DEF Types, SimTypes, CpuTypes, PendingFresh, ApartIn
<1>2. ~Faulted => \A r \in Launches : r < pc =>
          r \in IdsIn(pending) \cup active \cup activeHost \/ launch[r] = "complete"
  BY DEF NoneLost, PendingIds, IdsIn
<1>3. ASSUME ~Faulted' => \A r \in Launches : r < pc' =>
                r \in IdsIn(pending') \cup active' \cup activeHost' \/ launch'[r] = "complete"
      PROVE  NoneLost'
  BY <1>1, <1>3 DEF NoneLost, PendingIds, IdsIn
<1>4. CASE UNCHANGED cpuVars
  <2>1. UNCHANGED <<pc, pending, active, activeHost, launch, fault>>
    BY <1>4 DEF cpuVars
  <2> QED
    BY <1>2, <1>3, <2>1 DEF Faulted
<1>5. ASSUME Resolve PROVE NoneLost'
  <2>1. pending' \in Seq(Pendings) /\ IdsIn(pending') = IdsIn(pending)
    BY <1>1, <1>5, ResolveFacts
  <2>2. /\ UNCHANGED <<pc, active, activeHost, fault>>
        /\ launch' = [r \in Positions |-> IF \E k \in DOMAIN pending' : pending'[k] = [id |-> r, needs |-> {}]
                                          THEN "wait_admission" ELSE launch[r]]
    BY <1>5 DEF Resolve
  <2>3. ASSUME NEW r \in Launches, launch'[r] # launch[r] PROVE r \in IdsIn(pending')
    <3>1. PICK k \in DOMAIN pending' : pending'[k] = [id |-> r, needs |-> {}]
      BY <1>1, <2>2, <2>3
    <3>2. pending'[k].id = r
      BY <3>1
    <3> QED
      BY <3>2 DEF IdsIn
  <2> QED
    BY <1>2, <1>3, <2>1, <2>2, <2>3 DEF Faulted
<1>6. ASSUME NEW op \in Launching, Submit(op) PROVE NoneLost'
  <2> DEFINE e == [id |-> pc, needs |-> prog[pc].deps]
  <2>1. /\ pending' = Append(pending, e) /\ pc' = pc + 1 /\ UNCHANGED <<active, activeHost, fault>>
        /\ \A r \in Positions : r # pc => launch'[r] = launch[r]
    BY <1>1, <1>6 DEF Submit
  <2>2. pc \in Positions /\ pc \in Launches /\ prog[pc].deps \subseteq Launches
    <3>1. /\ Positions = 1 .. Len(prog) /\ Len(prog) \in Nat /\ pc \in 1 .. (Len(prog) + 1)
          /\ pc <= Len(prog) /\ prog[pc].op = op
      BY <1>1, <1>6, ProgramFacts DEF Submit, Here, Types, CpuTypes
    <3>2. pc \in Positions
      BY <3>1
    <3> QED
      BY <1>1, <3>1, <3>2, ProgramFacts DEF Launches
  <2>3. e \in Pendings /\ e.id = pc
    BY <2>2 DEF Pendings
  <2> HIDE DEF e
  <2>4. \A r \in IdsIn(pending) : r < pc
    BY DEF PendingFresh, PendingIds, IdsIn
  <2>5. pc \notin IdsIn(pending)
    BY <1>1, <2>4
  <2>6. IdsIn(pending') = IdsIn(pending) \cup {pc}
    BY <1>1, <2>1, <2>3, <2>5, JoinFacts
  <2>7. \A r \in Launches : r < pc' => r < pc \/ r = pc
    BY <1>1, <2>1
  <2>8. \A r \in Launches : r < pc => r # pc
    BY <1>1
  <2> QED
    BY <1>1, <1>2, <1>3, <2>1, <2>6, <2>7, <2>8 DEF Faulted
<1>7. ASSUME pc \in Positions, pc \notin Launches, pc' = pc + 1,
             UNCHANGED <<pending, active, activeHost, launch, fault>>
      PROVE  NoneLost'
  <2>1. \A r \in Launches : r < pc' => r < pc
    BY <1>1, <1>7
  <2> QED
    BY <1>2, <1>3, <1>7, <2>1 DEF Faulted
<1>8. CASE Await \/ Return \/ \E op \in Controls : PassControl(op)
  <2>1. /\ pc' = pc + 1 /\ UNCHANGED <<pending, active, activeHost, launch, fault>>
        /\ pc <= Len(prog) /\ prog[pc].op \in Controls \cup {"await", "return"}
    BY <1>8 DEF Await, Return, PassControl, Here
  <2>2. pc \in Positions
    BY <1>1, <2>1, ProgramFacts DEF Types, CpuTypes
  <2>3. pc \notin Launches
    BY <2>1 DEF Launches, Launching, Controls
  <2> QED
    BY <1>7, <2>1, <2>2, <2>3
<1>9. CASE \E op \in Controls, answer \in ControlAnswers : SubmitControl(op, answer)
  <2>1. UNCHANGED <<pc, pending, active, activeHost, launch, fault>>
    BY <1>9 DEF SubmitControl
  <2> QED
    BY <1>2, <1>3, <2>1 DEF Faulted
<1>10. CASE AdmitGroup \/ AdmitHost
  <2>1. Take
    BY <1>10 DEF AdmitGroup, AdmitHost
  <2>2. IdsIn(pending') = IdsIn(pending) \ {Ready}
    BY <2>1, TakeFacts
  <2>3. active' \cup activeHost' = active \cup activeHost \cup {Ready}
    BY <1>10 DEF AdmitGroup, AdmitHost
  <2>4. UNCHANGED <<pc, fault>> /\ \A r \in Positions : r # Ready => launch'[r] = launch[r]
    BY <1>1, <2>1 DEF Take
  <2> QED
    BY <1>1, <1>2, <1>3, <2>2, <2>3, <2>4 DEF Faulted
<1>11. CASE HarvestClean
  <2>1. /\ UNCHANGED <<pc, pending, fault>> /\ Bad = {} /\ launch' = AfterHarvest
        /\ active' = active \ (Good \cup Bad) /\ activeHost' = activeHost \ (Good \cup Bad)
    BY <1>11 DEF HarvestClean, TakeAnswers
  <2>2. \A r \in Positions : launch'[r] = IF r \in Good THEN "complete" ELSE launch[r]
    BY <2>1 DEF AfterHarvest
  <2> QED
    BY <1>1, <1>2, <1>3, <2>1, <2>2 DEF Faulted
<1>12. ASSUME NEW why \in Reasons, NEW after, EnterFault(why, after) PROVE NoneLost'
  BY <1>12, EnterFaultFacts DEF NoneLost
<1>13. CASE RejectHost \/ Poison \/ CycleCap \/ HarvestFault
  BY <1>12, <1>13 DEF RejectHost, Poison, CycleCap, HarvestFault, Reasons
<1>14. CASE EndAdmit
  <2>1. CASE Stuck
    BY <1>12, <1>14, <2>1 DEF EndAdmit, Reasons
  <2>2. CASE ~Stuck
    BY <1>4, <1>14, <2>2 DEF EndAdmit, cpuVars
  <2> QED
    BY <2>1, <2>2
<1>15. CASE BeginStep \/ BeginAdmit
  BY <1>5, <1>15 DEF BeginStep, BeginAdmit
<1> QED
  BY <1>4, <1>6, <1>8, <1>9, <1>10, <1>11, <1>13, <1>14, <1>15, Writers DEF CpuWrites

-----------------------------------------------------------------------------
(* The drain of the Group.                                                 *)

\* A Context that holds L2 is in a slot until the reset has released it.
LEMMA SlotsDrainStep ==
    ASSUME Types, SlotsDrain, [Next]_vars
    PROVE  SlotsDrain'
<1>1. /\ prog' = prog /\ Positions' = Positions /\ prog \in Programs /\ PortTypes
      /\ NoSlot \notin Positions
  BY Writers, SameProgram, ProgramFacts DEF Types, SimTypes
<1>2. ASSUME UNCHANGED <<slots, context>>, reset' \in {"CLEAR_CREDIT_CACHE", "RESUME", "DONE"} => Holders = {}
      PROVE  SlotsDrain'
  BY <1>1, <1>2 DEF SlotsDrain, Holders, Occupants
<1>3. CASE UNCHANGED portVars
  BY <1>2, <1>3 DEF portVars, SlotsDrain
<1>4. CASE AdmitGroup \/ \E op \in Controls, answer \in ControlAnswers : Commands(op, answer)
  <2>1. UNCHANGED <<slots, context, reset>>
    BY <1>4 DEF AdmitGroup, QueueSubmit, RejectSubmit, Commands
  <2> QED
    BY <1>2, <2>1 DEF SlotsDrain
<1>5. CASE \/ EndPlacing \/ CancelPending \/ HarvestClean \/ HarvestFault
           \/ (\E c \in Categories : FailHead(c)) \/ (\E next \in CommandStates : ProfileStep(next))
  <2>1. UNCHANGED <<slots, context, reset>>
    BY <1>5 DEF EndPlacing, CancelPending, HarvestClean, HarvestFault, TakeAnswers, FailHead, ProfileStep
  <2> QED
    BY <1>2, <2>1 DEF SlotsDrain
<1>6. CASE SettleFault \/ CycleCap
  <2>1. UNCHANGED <<slots, context>> /\ reset' = BeginDrain(reset)
    BY <1>6 DEF SettleFault, CycleCap
  <2>2. reset' = reset \/ reset' = "FAULT_DETECTED"
    BY <2>1 DEF BeginDrain
  <2> QED
    BY <1>2, <2>1, <2>2 DEF SlotsDrain
<1>7. ASSUME NEW F \in SUBSET Running, NEW X \in SUBSET (Running \ F), Contexts(F, X) PROVE SlotsDrain'
  <2>1. /\ UNCHANGED slots
        /\ context' = [r \in Positions |-> CASE r \in F -> "finished"
                                             [] r \in X -> "faulted"
                                             [] context[r] = "aborted" -> "failed"
                                             [] OTHER -> context[r]]
        /\ reset' = IF X # {} THEN "FAULT_DETECTED" ELSE reset
    BY <1>7 DEF Contexts
  <2>2. \A r \in Positions : context'[r] \in {"running", "faulted"} => context[r] \in {"running", "faulted"}
    BY <1>7, <2>1 DEF Running
  <2>3. Holders' \subseteq Holders
    BY <1>1, <2>2 DEF Holders
  <2>4. reset' \in {"CLEAR_CREDIT_CACHE", "RESUME", "DONE"} => reset' = reset
    BY <2>1
  <2>5. Occupants' = Occupants
    BY <2>1 DEF Occupants
  <2> QED
    BY <2>3, <2>4, <2>5 DEF SlotsDrain
<1>8. CASE ResetStep
  <2>0. UNCHANGED slots
    BY <1>8 DEF ResetStep
  <2>1. CASE UNCHANGED <<context, reset>>
    BY <1>2, <2>0, <2>1 DEF SlotsDrain
  <2>2. CASE ResetPass \/ ResetFreeze
    <3>1. /\ reset' = NextReset(reset) /\ UNCHANGED context
          /\ reset \in {"FAULT_DETECTED", "STOP_QUEUE", "MARK_EVENTS", "CLEAR_CREDIT_CACHE", "RESUME", "FREEZE_DISPATCH"}
      BY <2>2 DEF ResetPass, ResetFreeze
    <3>2. reset' \in {"CLEAR_CREDIT_CACHE", "RESUME", "DONE"} => reset \in {"CLEAR_CREDIT_CACHE", "RESUME"}
      BY <3>1 DEF NextReset
    <3> QED
      BY <1>2, <2>0, <3>1, <3>2 DEF SlotsDrain
  <2>3. CASE ResetDrain
    BY <1>2, <2>0, <2>3 DEF ResetDrain, NextReset, SlotsDrain
  <2>4. CASE ResetRelease /\ ~UNCHANGED <<context, reset>>
    <3>1. context' = [r \in Positions |-> IF r \in Holders THEN "aborted" ELSE context[r]]
      BY <2>4 DEF ResetRelease
    <3>2. \A r \in Positions : context'[r] \notin {"running", "faulted"}
      BY <3>1 DEF Holders
    <3>3. Holders' = {}
      BY <1>1, <3>2 DEF Holders
    <3> QED
      BY <3>3 DEF SlotsDrain
  <2> QED
    BY <1>8, <2>1, <2>2, <2>3, <2>4 DEF ResetStep
<1>9. CASE RetireSlots
  <2> DEFINE gone == {s \in Slots : slots[s] # NoSlot /\ Leaves(slots[s])}
  <2>1. slots' = [s \in Slots |-> IF s \in gone THEN NoSlot ELSE slots[s]] /\ UNCHANGED <<context, reset>>
    BY <1>9 DEF RetireSlots
  <2>2. Holders' = Holders
    BY <1>1, <2>1 DEF Holders
  <2>3. ASSUME NEW r \in Holders PROVE r \in Occupants'
    <3>1. r \in Positions /\ r # NoSlot /\ context[r] \in {"running", "faulted"}
      BY <1>1, <2>3 DEF Holders
    <3>2. PICK s \in Slots : slots[s] = r
      BY <2>3 DEF SlotsDrain, Occupants
    <3>3. ~Leaves(r)
      <4>1. ~SeqDone(r)
        BY <3>1 DEF SeqDone
      <4>2. reset # "DONE"
        BY <2>3 DEF SlotsDrain
      <4> QED
        BY <4>1, <4>2 DEF Leaves
    <3>4. slots'[s] = r
      BY <2>1, <3>2, <3>3
    <3> QED
      BY <3>1, <3>4 DEF Occupants
  <2> QED
    BY <2>1, <2>2, <2>3 DEF SlotsDrain
<1>10. ASSUME NEW c \in Categories, Place(c) PROVE SlotsDrain'
  <2> DEFINE h == HeadOf(c)
             t == LowestSlot(Vacant(h))
  <2>1. /\ reset = "IDLE" /\ UNCHANGED reset /\ h # 0 /\ Vacant(h) # {}
        /\ slots' = [slots EXCEPT ![t] = h] /\ context' = [context EXCEPT ![h] = "running"]
    BY <1>10 DEF Place, Admissible, Attempting, GroupFault
  <2>2. h \in Positions /\ h # NoSlot
    BY <1>1, <2>1, HeadFacts, ProgramFacts DEF PortTypes
  <2>3. t \in Slots /\ slots[t] = NoSlot
    BY <2>1, LowestFacts
  <2> HIDE DEF h, t
  <2>4. Holders' \subseteq Holders \cup {h}
    BY <1>1, <2>1, <2>2 DEF Holders, PortTypes
  <2>5. slots'[t] = h /\ \A s \in Slots : slots[s] # NoSlot => slots'[s] = slots[s]
    BY <1>1, <2>1, <2>3 DEF PortTypes
  <2>6. Occupants \cup {h} \subseteq Occupants'
    BY <2>2, <2>3, <2>5 DEF Occupants
  <2> QED
    BY <2>1, <2>4, <2>6 DEF SlotsDrain
<1> QED
  BY <1>3, <1>4, <1>5, <1>6, <1>7, <1>8, <1>9, <1>10, Writers DEF PortWrites

\* After the reset the port empties what it holds, one phase after the other.
LEMMA DoneDrainedStep ==
    ASSUME Types, DoneDrained, [Next]_vars
    PROVE  DoneDrained'
<1>a. DoneDrained /\ PortTypes
  BY DEF Types
<1>1. ASSUME BeginStep /\ UNCHANGED <<portVars, hostVars, simVars>> PROVE DoneDrained'
  BY <1>1, <1>a DEF BeginStep, Resolve, DoneDrained, Occupants, portVars
<1>2. ASSUME IdleStep /\ UNCHANGED <<portVars, hostVars, simVars>> PROVE DoneDrained'
  BY <1>2, <1>a DEF IdleStep, DoneDrained, Occupants, portVars
<1>3. ASSUME Await /\ UNCHANGED <<portVars, hostVars, simVars>> PROVE DoneDrained'
  BY <1>3, <1>a DEF Await, Here, DoneDrained, Occupants, portVars
<1>4. ASSUME Return /\ UNCHANGED <<portVars, hostVars, simVars>> PROVE DoneDrained'
  BY <1>4, <1>a DEF Return, Here, DoneDrained, Occupants, portVars
<1>5. ASSUME EndIssue /\ UNCHANGED <<portVars, hostVars, simVars>> PROVE DoneDrained'
  BY <1>5, <1>a DEF EndIssue, DoneDrained, Occupants, portVars
<1>6. ASSUME BeginAdmit /\ UNCHANGED <<portVars, hostVars, simVars>> PROVE DoneDrained'
  BY <1>6, <1>a DEF BeginAdmit, Resolve, DoneDrained, Occupants, portVars
<1>7. ASSUME RejectHost /\ UNCHANGED <<portVars, hostVars, simVars>> PROVE DoneDrained'
  BY <1>7, <1>a DEF RejectHost, CanTry, Open, DoneDrained, Occupants, portVars
<1>8. ASSUME EndAdmit /\ UNCHANGED <<portVars, hostVars, simVars>> PROVE DoneDrained'
  BY <1>8, <1>a DEF EndAdmit, DoneDrained, Occupants, portVars
<1>9. ASSUME NEW op \in Launching, Submit(op) /\ UNCHANGED <<portVars, hostVars, simVars>> PROVE DoneDrained'
  BY <1>9, <1>a DEF Submit, Here, DoneDrained, Occupants, portVars
<1>10. ASSUME NEW op \in Controls, ControlBusy(op) /\ UNCHANGED <<portVars, hostVars, simVars>> PROVE DoneDrained'
  BY <1>10, <1>a DEF ControlBusy, Here, DoneDrained, Occupants, portVars
<1>11. ASSUME NEW op \in Controls, PassControl(op) /\ UNCHANGED <<portVars, hostVars, simVars>> PROVE DoneDrained'
  BY <1>11, <1>a DEF PassControl, Here, DoneDrained, Occupants, portVars
<1>12. ASSUME NEW op \in Controls, NEW answer \in ControlAnswers, Commands(op, answer) PROVE DoneDrained'
  BY <1>12, <1>a DEF Commands, SubmitControl, Here, DoneDrained, Occupants, portVars
<1>13. ASSUME AdmitGroup /\ UNCHANGED <<hostVars, simVars>> PROVE DoneDrained'
  BY <1>13, <1>a DEF AdmitGroup, Take, CanTry, Open, QueueSubmit, RejectSubmit, DoneDrained, Occupants, portVars
<1>14. ASSUME AdmitHost /\ UNCHANGED <<portVars, simVars>> PROVE DoneDrained'
  BY <1>14, <1>a DEF AdmitHost, Take, CanTry, Open, HostSubmit, DoneDrained, Occupants, portVars
<1>15. ASSUME BeginHost PROVE DoneDrained'
  BY <1>15, <1>a DEF BeginHost, DoneDrained, Occupants, portVars
<1>16. ASSUME FetchCommand /\ UNCHANGED <<cpuVars, portVars, simVars>> PROVE DoneDrained'
  BY <1>16, <1>a DEF FetchCommand, DoneDrained, Occupants, portVars
<1>17. ASSUME FetchNothing /\ UNCHANGED <<cpuVars, portVars, simVars>> PROVE DoneDrained'
  BY <1>17, <1>a DEF FetchNothing, DoneDrained, Occupants, portVars
<1>18. ASSUME EndHostStep /\ UNCHANGED <<cpuVars, portVars, simVars>> PROVE DoneDrained'
  BY <1>18, <1>a DEF EndHostStep, DoneDrained, Occupants, portVars
<1>19. ASSUME NEW S \in SUBSET CanElapse, Transfers(S) PROVE DoneDrained'
  BY <1>19, <1>a DEF Transfers, DoneDrained, Occupants, portVars
<1>20. ASSUME NEW next \in CommandStates, ProfileStep(next) PROVE DoneDrained'
  BY <1>20, <1>a DEF ProfileStep, DoneDrained, Occupants, portVars
<1>21. ASSUME NEW F \in SUBSET Running, NEW X \in SUBSET (Running \ F), Contexts(F, X) PROVE DoneDrained'
  BY <1>21, <1>a DEF Contexts, DoneDrained, Occupants, portVars
<1>22. ASSUME ResetStep PROVE DoneDrained'
  BY <1>22, <1>a DEF ResetStep, ResetPass, ResetFreeze, ResetDrain, ResetRelease, NextReset, ResetActive, DoneDrained, Occupants, portVars
<1>23. ASSUME Poison PROVE DoneDrained'
  BY <1>23, <1>a DEF Poison, EndRun, DoneDrained, Occupants, portVars
<1>24. ASSUME HostHarvest PROVE DoneDrained'
  BY <1>24, <1>a DEF HostHarvest, HarvestHost, DoneDrained, Occupants, portVars
<1>25. ASSUME HarvestRaises PROVE DoneDrained'
  BY <1>25, <1>a DEF HarvestRaises, EndRun, DoneDrained, Occupants, portVars
<1>26. ASSUME RetireSlots /\ UNCHANGED <<cpuVars, hostVars, simVars>> PROVE DoneDrained'
  <2>1. ASSUME reset = "DONE" PROVE \A s \in Slots : slots'[s] = NoSlot
    <3>1. \A r : Leaves(r)
      BY <2>1 DEF Leaves, ResetActive
    <3> QED
      BY <1>26, <3>1 DEF RetireSlots
  <2>2. phase' = "place" /\ UNCHANGED reset
    BY <1>26 DEF RetireSlots
  <2>3. reset = "DONE" => Occupants' = {}
    BY <2>1 DEF Occupants
  <2> QED
    BY <2>2, <2>3 DEF DoneDrained
<1>27. ASSUME EndPlacing /\ UNCHANGED <<cpuVars, hostVars, simVars>> PROVE DoneDrained'
  BY <1>27, <1>a DEF EndPlacing, GroupFault, DoneDrained, Occupants, portVars
<1>28. ASSUME CancelPending /\ UNCHANGED <<cpuVars, hostVars, simVars>> PROVE DoneDrained'
  BY <1>28, <1>a DEF CancelPending, DoneDrained, Occupants, portVars
<1>29. ASSUME NEW c \in Categories, Place(c) /\ UNCHANGED <<cpuVars, hostVars, simVars>> PROVE DoneDrained'
  BY <1>29, <1>a DEF Place, Attempting, GroupFault, DoneDrained, Occupants, portVars
<1>30. ASSUME NEW c \in Categories, FailHead(c) /\ UNCHANGED <<cpuVars, hostVars, simVars>> PROVE DoneDrained'
  BY <1>30, <1>a DEF FailHead, Attempting, GroupFault, DoneDrained, Occupants, portVars
<1>31. ASSUME HarvestClean /\ UNCHANGED simVars PROVE DoneDrained'
  BY <1>31, <1>a DEF HarvestClean, TakeAnswers, DoneDrained, Occupants, portVars
<1>32. ASSUME HarvestFault /\ UNCHANGED simVars PROVE DoneDrained'
  BY <1>32, <1>a DEF HarvestFault, TakeAnswers, DoneDrained, Occupants, portVars
<1>33. ASSUME SettleFault PROVE DoneDrained'
  BY <1>33, <1>a DEF SettleFault, EndRun, GoOn, BeginDrain, DoneDrained, Occupants, portVars
<1>34. ASSUME SettleSuccess PROVE DoneDrained'
  BY <1>34, <1>a DEF SettleSuccess, EndRun, DoneDrained, Occupants, portVars
<1>35. ASSUME SettleCapped PROVE DoneDrained'
  BY <1>35, <1>a DEF SettleCapped, EndRun, GoOn, DoneDrained, Occupants, portVars
<1>36. ASSUME SettleOn PROVE DoneDrained'
  BY <1>36, <1>a DEF SettleOn, GoOn, DoneDrained, Occupants, portVars
<1>37. ASSUME NextCycle PROVE DoneDrained'
  BY <1>37, <1>a DEF NextCycle, DoneDrained, Occupants, portVars
<1>38. ASSUME CycleCap PROVE DoneDrained'
  BY <1>38, <1>a DEF CycleCap, BeginDrain, DoneDrained, Occupants, portVars
<1>39. ASSUME Deadline PROVE DoneDrained'
  BY <1>39, <1>a DEF Deadline, EndRun, DoneDrained, Occupants, portVars
<1>40. ASSUME UNCHANGED vars PROVE DoneDrained'
  BY <1>40, <1>a DEF vars, portVars, DoneDrained, Occupants
<1>41. ASSUME CpuStep PROVE DoneDrained'
  BY <1>41, <1>1, <1>2, <1>3, <1>4, <1>5, <1>6, <1>7, <1>8, <1>9, <1>10, <1>11, <1>12, <1>13, <1>14 DEF CpuStep, Commands
<1>42. ASSUME HostStep PROVE DoneDrained'
  BY <1>42, <1>16, <1>17, <1>18 DEF HostStep
<1>43. ASSUME GroupStep PROVE DoneDrained'
  BY <1>43, <1>19, <1>20, <1>21, <1>22, <1>23 DEF GroupStep
<1>44. ASSUME PortPoll PROVE DoneDrained'
  BY <1>44, <1>26, <1>27, <1>28, <1>29, <1>30 DEF PortPoll
<1>45. ASSUME CpuHarvest PROVE DoneDrained'
  BY <1>45, <1>31, <1>32 DEF CpuHarvest
<1>46. ASSUME Settle PROVE DoneDrained'
  BY <1>46, <1>33, <1>34, <1>35, <1>36 DEF Settle
<1> QED
  BY <1>15, <1>24, <1>25, <1>37, <1>38, <1>39, <1>40, <1>41, <1>42, <1>43, <1>44, <1>45, <1>46 DEF Next

-----------------------------------------------------------------------------
(* Host transfers during the reset, and the result of a run.               *)

\* No host transfer is old enough to end between the drain and the release.
LEMMA AgesStep ==
    ASSUME Types, Ages, [Next]_vars
    PROVE  Ages'
<1>a. Ages /\ prog' = prog /\ Positions' = Positions /\ doing \in [Positions -> RoutineStates]
  BY Writers, SameProgram DEF Types, HostTypes
<1>1. ASSUME BeginStep /\ UNCHANGED <<portVars, hostVars, simVars>> PROVE Ages'
  BY <1>1, <1>a DEF BeginStep, Resolve, Ages, Young, Flying, Early, Issuing, Closing, hostVars, portVars
<1>2. ASSUME IdleStep /\ UNCHANGED <<portVars, hostVars, simVars>> PROVE Ages'
  BY <1>2, <1>a DEF IdleStep, Ages, Young, Flying, Early, Issuing, Closing, hostVars, portVars
<1>3. ASSUME Await /\ UNCHANGED <<portVars, hostVars, simVars>> PROVE Ages'
  BY <1>3, <1>a DEF Await, Here, Ages, Young, Flying, Early, Issuing, Closing, hostVars, portVars
<1>4. ASSUME Return /\ UNCHANGED <<portVars, hostVars, simVars>> PROVE Ages'
  BY <1>4, <1>a DEF Return, Here, Ages, Young, Flying, Early, Issuing, Closing, hostVars, portVars
<1>5. ASSUME EndIssue /\ UNCHANGED <<portVars, hostVars, simVars>> PROVE Ages'
  BY <1>5, <1>a DEF EndIssue, Ages, Young, Flying, Early, Issuing, Closing, hostVars, portVars
<1>6. ASSUME BeginAdmit /\ UNCHANGED <<portVars, hostVars, simVars>> PROVE Ages'
  BY <1>6, <1>a DEF BeginAdmit, Resolve, Ages, Young, Flying, Early, Issuing, Closing, hostVars, portVars
<1>7. ASSUME RejectHost /\ UNCHANGED <<portVars, hostVars, simVars>> PROVE Ages'
  BY <1>7, <1>a DEF RejectHost, CanTry, Open, Ages, Young, Flying, Early, Issuing, Closing, hostVars, portVars
<1>8. ASSUME EndAdmit /\ UNCHANGED <<portVars, hostVars, simVars>> PROVE Ages'
  BY <1>8, <1>a DEF EndAdmit, Ages, Young, Flying, Early, Issuing, Closing, hostVars, portVars
<1>9. ASSUME NEW op \in Launching, Submit(op) /\ UNCHANGED <<portVars, hostVars, simVars>> PROVE Ages'
  BY <1>9, <1>a DEF Submit, Here, Ages, Young, Flying, Early, Issuing, Closing, hostVars, portVars
<1>10. ASSUME NEW op \in Controls, ControlBusy(op) /\ UNCHANGED <<portVars, hostVars, simVars>> PROVE Ages'
  BY <1>10, <1>a DEF ControlBusy, Here, Ages, Young, Flying, Early, Issuing, Closing, hostVars, portVars
<1>11. ASSUME NEW op \in Controls, PassControl(op) /\ UNCHANGED <<portVars, hostVars, simVars>> PROVE Ages'
  BY <1>11, <1>a DEF PassControl, Here, Ages, Young, Flying, Early, Issuing, Closing, hostVars, portVars
<1>12. ASSUME NEW op \in Controls, NEW answer \in ControlAnswers, Commands(op, answer) PROVE Ages'
  BY <1>12, <1>a DEF Commands, SubmitControl, Here, Ages, Young, Flying, Early, Issuing, Closing, hostVars, portVars
<1>13. ASSUME AdmitGroup /\ UNCHANGED <<hostVars, simVars>> PROVE Ages'
  BY <1>13, <1>a DEF AdmitGroup, Take, CanTry, Open, QueueSubmit, RejectSubmit, Ages, Young, Flying, Early, Issuing, Closing, hostVars, portVars
<1>14. ASSUME AdmitHost /\ UNCHANGED <<portVars, simVars>> PROVE Ages'
  <2> SUFFICES ASSUME NEW x \in Positions PROVE Young(phase', reset', doing'[x])
    BY <1>a DEF Ages
  <2>1. Young(phase, reset, doing[x])
    BY <1>a DEF Ages
  <2>2. phase' = "admit" /\ phase = "admit" /\ UNCHANGED reset
    BY <1>14 DEF AdmitHost, Take, CanTry, Open, portVars
  <2>3. doing'[x] = doing[x] \/ doing'[x] = "patch"
    BY <1>14, <1>a DEF AdmitHost, HostSubmit
  <2> QED
    BY <2>1, <2>2, <2>3 DEF Young, Flying, Early, Issuing, Closing
<1>15. ASSUME BeginHost PROVE Ages'
  BY <1>15, <1>a DEF BeginHost, Ages, Young, Flying, Early, Issuing, Closing, hostVars, portVars
<1>16. ASSUME FetchCommand /\ UNCHANGED <<cpuVars, portVars, simVars>> PROVE Ages'
  <2> SUFFICES ASSUME NEW x \in Positions PROVE Young(phase', reset', doing'[x])
    BY <1>a DEF Ages
  <2>1. Young(phase, reset, doing[x])
    BY <1>a DEF Ages
  <2>2. phase' = "host" /\ phase = "host" /\ UNCHANGED reset
    BY <1>16 DEF FetchCommand, portVars
  <2>3. PICK r \in Routines : /\ left[r] # <<>> /\ left[r][1] # "illegal"
                             /\ doing' = [doing EXCEPT ![r] = Started(left[r][1])]
    BY <1>16 DEF FetchCommand
  <2>4. left[r] \in Seq(HostCommands)
    BY DEF Types, HostTypes, Routines
  <2>5. left[r][1] \in HostCommands
    BY <2>3, <2>4, SeqFacts
  <2>6. doing'[x] = doing[x] \/ doing'[x] \notin {"cancel", "moving", "xfer", "done"}
    BY <1>a, <2>3, <2>5, StartedFacts
  <2> QED
    BY <2>1, <2>2, <2>6 DEF Young, Flying, Early, Issuing, Closing
<1>17. ASSUME FetchNothing /\ UNCHANGED <<cpuVars, portVars, simVars>> PROVE Ages'
  <2> SUFFICES ASSUME NEW x \in Positions PROVE Young(phase', reset', doing'[x])
    BY <1>a DEF Ages
  <2>1. Young(phase, reset, doing[x])
    BY <1>a DEF Ages
  <2>2. phase' = "host" /\ phase = "host" /\ UNCHANGED reset
    BY <1>17 DEF FetchNothing, portVars
  <2>3. doing'[x] = doing[x] \/ doing'[x] = "none"
    BY <1>17, <1>a DEF FetchNothing, Retire
  <2> QED
    BY <2>1, <2>2, <2>3 DEF Young, Flying, Early, Issuing, Closing
<1>18. ASSUME EndHostStep /\ UNCHANGED <<cpuVars, portVars, simVars>> PROVE Ages'
  BY <1>18, <1>a DEF EndHostStep, Ages, Young, Flying, Early, Issuing, Closing, hostVars, portVars
<1>19. ASSUME NEW S \in SUBSET CanElapse, Transfers(S) PROVE Ages'
  <2> SUFFICES ASSUME NEW x \in Positions PROVE Young(phase', reset', doing'[x])
    BY <1>a DEF Ages
  <2>1. Young(phase, reset, doing[x])
    BY <1>a DEF Ages
  <2>2. phase' = "profile" /\ phase = "transfers" /\ UNCHANGED reset
    BY <1>19 DEF Transfers, portVars
  <2>3. /\ doing'[x] = "done" => doing[x] \in {"xfer", "done"}
        /\ doing'[x] = "xfer" => doing[x] \in {"moving", "xfer"}
        /\ doing'[x] # "queued"
    BY <1>19, <1>a DEF Transfers, Elapse
  <2> QED
    BY <2>1, <2>2, <2>3 DEF Young, Flying, Early, Issuing, Closing
<1>20. ASSUME NEW next \in CommandStates, ProfileStep(next) PROVE Ages'
  BY <1>20, <1>a DEF ProfileStep, Ages, Young, Flying, Early, Issuing, Closing, hostVars, portVars
<1>21. ASSUME NEW F \in SUBSET Running, NEW X \in SUBSET (Running \ F), Contexts(F, X) PROVE Ages'
  BY <1>21, <1>a DEF Contexts, Ages, Young, Flying, Early, Issuing, Closing, hostVars, portVars
<1>22. ASSUME ResetStep PROVE Ages'
  <2> SUFFICES ASSUME NEW x \in Positions PROVE Young(phase', reset', doing'[x])
    BY <1>a DEF Ages
  <2>1. Young(phase, reset, doing[x])
    BY <1>a DEF Ages
  <2>2. phase' = "hostHarvest" /\ phase = "reset"
    BY <1>22 DEF ResetStep
  <2>3. CASE UNCHANGED <<reset, doing>> /\ ~ResetActive
    BY <2>1, <2>2, <2>3 DEF ResetActive, Young, Flying, Early, Issuing, Closing
  <2>4. CASE (ResetPass \/ ResetFreeze) /\ UNCHANGED doing
    BY <2>1, <2>2, <2>4 DEF ResetPass, ResetFreeze, NextReset, Young, Flying, Early, Issuing, Closing
  <2>5. CASE ResetDrain /\ UNCHANGED doing
    <3>1. reset' = reset \/ (reset' = "MARK_EVENTS" /\ InFlight = {})
      BY <2>5 DEF ResetDrain, NextReset
    <3>2. InFlight = {} => doing[x] \notin Flying
      BY DEF InFlight, Flying
    <3> QED
      BY <2>1, <2>2, <2>5, <3>1, <3>2 DEF ResetDrain, Young, Flying, Early, Issuing, Closing
  <2>6. CASE ResetRelease
    <3>1. /\ reset = "RESET_DOMAIN" /\ InFlight = {}
          /\ (reset' = reset /\ doing' = doing) \/ reset' = "CLEAR_CREDIT_CACHE"
      BY <2>6 DEF ResetRelease, NextReset
    <3>2. doing[x] \notin Flying
      BY <3>1 DEF InFlight, Flying
    <3> QED
      BY <2>1, <2>2, <3>1, <3>2 DEF Young, Flying, Early, Issuing, Closing
  <2> QED
    BY <1>22, <2>3, <2>4, <2>5, <2>6 DEF ResetStep
<1>23. ASSUME Poison PROVE Ages'
  BY <1>23, <1>a DEF Poison, EndRun, Ages, Young, Flying, Early, Issuing, Closing, hostVars, portVars
<1>24. ASSUME HostHarvest PROVE Ages'
  <2> SUFFICES ASSUME NEW x \in Positions PROVE Young(phase', reset', doing'[x])
    BY <1>a DEF Ages
  <2>1. Young(phase, reset, doing[x])
    BY <1>a DEF Ages
  <2>2. phase' = "retire" /\ phase = "hostHarvest" /\ UNCHANGED reset
    BY <1>24 DEF HostHarvest, HarvestHost, portVars
  <2>3. doing'[x] \in {"none", "free"} \/ (doing'[x] = doing[x] /\ doing[x] \notin {"done", "cancelled", "faulty"})
    BY <1>24, <1>a DEF HostHarvest, HarvestHost, Delivered, Lost
  <2> QED
    BY <2>1, <2>2, <2>3 DEF Young, Flying, Early, Issuing, Closing
<1>25. ASSUME HarvestRaises PROVE Ages'
  BY <1>25, <1>a DEF HarvestRaises, EndRun, Ages, Young, Flying, Early, Issuing, Closing, hostVars, portVars
<1>26. ASSUME RetireSlots /\ UNCHANGED <<cpuVars, hostVars, simVars>> PROVE Ages'
  BY <1>26, <1>a DEF RetireSlots, Ages, Young, Flying, Early, Issuing, Closing, hostVars, portVars
<1>27. ASSUME EndPlacing /\ UNCHANGED <<cpuVars, hostVars, simVars>> PROVE Ages'
  BY <1>27, <1>a DEF EndPlacing, GroupFault, Ages, Young, Flying, Early, Issuing, Closing, hostVars, portVars
<1>28. ASSUME CancelPending /\ UNCHANGED <<cpuVars, hostVars, simVars>> PROVE Ages'
  BY <1>28, <1>a DEF CancelPending, Ages, Young, Flying, Early, Issuing, Closing, hostVars, portVars
<1>29. ASSUME NEW c \in Categories, Place(c) /\ UNCHANGED <<cpuVars, hostVars, simVars>> PROVE Ages'
  BY <1>29, <1>a DEF Place, Attempting, GroupFault, Ages, Young, Flying, Early, Issuing, Closing, hostVars, portVars
<1>30. ASSUME NEW c \in Categories, FailHead(c) /\ UNCHANGED <<cpuVars, hostVars, simVars>> PROVE Ages'
  BY <1>30, <1>a DEF FailHead, Attempting, GroupFault, Ages, Young, Flying, Early, Issuing, Closing, hostVars, portVars
<1>31. ASSUME HarvestClean /\ UNCHANGED simVars PROVE Ages'
  BY <1>31, <1>a DEF HarvestClean, TakeAnswers, Ages, Young, Flying, Early, Issuing, Closing, hostVars, portVars
<1>32. ASSUME HarvestFault /\ UNCHANGED simVars PROVE Ages'
  BY <1>32, <1>a DEF HarvestFault, TakeAnswers, Ages, Young, Flying, Early, Issuing, Closing, hostVars, portVars
<1>33. ASSUME SettleFault PROVE Ages'
  <2> SUFFICES ASSUME NEW x \in Positions PROVE Young(phase', reset', doing'[x])
    BY <1>a DEF Ages
  <2>1. Young(phase, reset, doing[x])
    BY <1>a DEF Ages
  <2>2. phase' \in {"cycle", "end"} /\ phase = "settle" /\ (reset' = reset \/ reset' = "FAULT_DETECTED")
    BY <1>33 DEF SettleFault, EndRun, GoOn, BeginDrain
  <2>3. doing'[x] \in {"none", doing[x]} \/ (doing'[x] = "cancel" /\ doing[x] \in Flying)
    BY <1>33, <1>a DEF SettleFault, Abort, InFlight, Flying, hostVars
  <2> QED
    BY <2>1, <2>2, <2>3 DEF Young, Flying, Early, Issuing, Closing
<1>34. ASSUME SettleSuccess PROVE Ages'
  BY <1>34, <1>a DEF SettleSuccess, EndRun, Ages, Young, Flying, Early, Issuing, Closing, hostVars, portVars
<1>35. ASSUME SettleCapped PROVE Ages'
  BY <1>35, <1>a DEF SettleCapped, EndRun, GoOn, Ages, Young, Flying, Early, Issuing, Closing, hostVars, portVars
<1>36. ASSUME SettleOn PROVE Ages'
  BY <1>36, <1>a DEF SettleOn, GoOn, Ages, Young, Flying, Early, Issuing, Closing, hostVars, portVars
<1>37. ASSUME NextCycle PROVE Ages'
  BY <1>37, <1>a DEF NextCycle, Ages, Young, Flying, Early, Issuing, Closing, hostVars, portVars
<1>38. ASSUME CycleCap PROVE Ages'
  BY <1>38, <1>a DEF CycleCap, BeginDrain, Ages, Young, Flying, Early, Issuing, Closing, hostVars, portVars
<1>39. ASSUME Deadline PROVE Ages'
  BY <1>39, <1>a DEF Deadline, EndRun, Ages, Young, Flying, Early, Issuing, Closing, hostVars, portVars
<1>40. ASSUME UNCHANGED vars PROVE Ages'
  BY <1>40, <1>a DEF vars, hostVars, portVars, Ages
<1>41. ASSUME CpuStep PROVE Ages'
  BY <1>41, <1>1, <1>2, <1>3, <1>4, <1>5, <1>6, <1>7, <1>8, <1>9, <1>10, <1>11, <1>12, <1>13, <1>14 DEF CpuStep, Commands
<1>42. ASSUME HostStep PROVE Ages'
  BY <1>42, <1>16, <1>17, <1>18 DEF HostStep
<1>43. ASSUME GroupStep PROVE Ages'
  BY <1>43, <1>19, <1>20, <1>21, <1>22, <1>23 DEF GroupStep
<1>44. ASSUME PortPoll PROVE Ages'
  BY <1>44, <1>26, <1>27, <1>28, <1>29, <1>30 DEF PortPoll
<1>45. ASSUME CpuHarvest PROVE Ages'
  BY <1>45, <1>31, <1>32 DEF CpuHarvest
<1>46. ASSUME Settle PROVE Ages'
  BY <1>46, <1>33, <1>34, <1>35, <1>36 DEF Settle
<1> QED
  BY <1>15, <1>24, <1>25, <1>37, <1>38, <1>39, <1>40, <1>41, <1>42, <1>43, <1>44, <1>45, <1>46 DEF Next

\* A transfer is stopped, and so acknowledged by the reset, only after abort().
LEMMA StoppedStep ==
    ASSUME Types, Ages, StoppedByAbort, [Next]_vars
    PROVE  StoppedByAbort'
<1>a. /\ StoppedByAbort /\ Ages /\ prog' = prog /\ Positions' = Positions
      /\ doing \in [Positions -> RoutineStates]
  BY Writers, SameProgram DEF Types, HostTypes
<1>1. ASSUME BeginStep /\ UNCHANGED <<portVars, hostVars, simVars>> PROVE StoppedByAbort'
  BY <1>1, <1>a DEF BeginStep, Resolve, StoppedByAbort, hostVars, simVars
<1>2. ASSUME IdleStep /\ UNCHANGED <<portVars, hostVars, simVars>> PROVE StoppedByAbort'
  BY <1>2, <1>a DEF IdleStep, StoppedByAbort, hostVars, simVars
<1>3. ASSUME Await /\ UNCHANGED <<portVars, hostVars, simVars>> PROVE StoppedByAbort'
  BY <1>3, <1>a DEF Await, Here, StoppedByAbort, hostVars, simVars
<1>4. ASSUME Return /\ UNCHANGED <<portVars, hostVars, simVars>> PROVE StoppedByAbort'
  BY <1>4, <1>a DEF Return, Here, StoppedByAbort, hostVars, simVars
<1>5. ASSUME EndIssue /\ UNCHANGED <<portVars, hostVars, simVars>> PROVE StoppedByAbort'
  BY <1>5, <1>a DEF EndIssue, StoppedByAbort, hostVars, simVars
<1>6. ASSUME BeginAdmit /\ UNCHANGED <<portVars, hostVars, simVars>> PROVE StoppedByAbort'
  BY <1>6, <1>a DEF BeginAdmit, Resolve, StoppedByAbort, hostVars, simVars
<1>7. ASSUME RejectHost /\ UNCHANGED <<portVars, hostVars, simVars>> PROVE StoppedByAbort'
  BY <1>7, <1>a DEF RejectHost, CanTry, Open, StoppedByAbort, hostVars, simVars
<1>8. ASSUME EndAdmit /\ UNCHANGED <<portVars, hostVars, simVars>> PROVE StoppedByAbort'
  BY <1>8, <1>a DEF EndAdmit, StoppedByAbort, hostVars, simVars
<1>9. ASSUME NEW op \in Launching, Submit(op) /\ UNCHANGED <<portVars, hostVars, simVars>> PROVE StoppedByAbort'
  BY <1>9, <1>a DEF Submit, Here, StoppedByAbort, hostVars, simVars
<1>10. ASSUME NEW op \in Controls, ControlBusy(op) /\ UNCHANGED <<portVars, hostVars, simVars>> PROVE StoppedByAbort'
  BY <1>10, <1>a DEF ControlBusy, Here, StoppedByAbort, hostVars, simVars
<1>11. ASSUME NEW op \in Controls, PassControl(op) /\ UNCHANGED <<portVars, hostVars, simVars>> PROVE StoppedByAbort'
  BY <1>11, <1>a DEF PassControl, Here, StoppedByAbort, hostVars, simVars
<1>12. ASSUME NEW op \in Controls, NEW answer \in ControlAnswers, Commands(op, answer) PROVE StoppedByAbort'
  BY <1>12, <1>a DEF Commands, SubmitControl, Here, StoppedByAbort, hostVars, simVars
<1>13. ASSUME AdmitGroup /\ UNCHANGED <<hostVars, simVars>> PROVE StoppedByAbort'
  BY <1>13, <1>a DEF AdmitGroup, Take, CanTry, Open, QueueSubmit, RejectSubmit, StoppedByAbort, hostVars, simVars
<1>14. ASSUME AdmitHost /\ UNCHANGED <<portVars, simVars>> PROVE StoppedByAbort'
  <2> SUFFICES ASSUME NEW x \in Positions, doing'[x] \in {"cancel", "cancelled", "acked"} PROVE aborted'
    BY <1>a DEF StoppedByAbort
  <2>1. doing[x] \in {"cancel", "cancelled", "acked"} => aborted
    BY <1>a DEF StoppedByAbort
  <2>2. doing'[x] = doing[x] \/ doing'[x] = "patch"
    BY <1>14, <1>a DEF AdmitHost, HostSubmit
  <2> QED
    BY <1>14, <2>1, <2>2 DEF simVars
<1>15. ASSUME BeginHost PROVE StoppedByAbort'
  BY <1>15, <1>a DEF BeginHost, StoppedByAbort, hostVars, simVars
<1>16. ASSUME FetchCommand /\ UNCHANGED <<cpuVars, portVars, simVars>> PROVE StoppedByAbort'
  <2> SUFFICES ASSUME NEW x \in Positions, doing'[x] \in {"cancel", "cancelled", "acked"} PROVE aborted'
    BY <1>a DEF StoppedByAbort
  <2>1. doing[x] \in {"cancel", "cancelled", "acked"} => aborted
    BY <1>a DEF StoppedByAbort
  <2>3. PICK r \in Routines : /\ left[r] # <<>> /\ left[r][1] # "illegal"
                             /\ doing' = [doing EXCEPT ![r] = Started(left[r][1])]
    BY <1>16 DEF FetchCommand
  <2>4. left[r] \in Seq(HostCommands)
    BY DEF Types, HostTypes, Routines
  <2>5. left[r][1] \in HostCommands
    BY <2>3, <2>4, SeqFacts
  <2>6. doing'[x] = doing[x] \/ doing'[x] \notin {"cancel", "cancelled", "acked"}
    BY <1>a, <2>3, <2>5, StartedFacts
  <2> QED
    BY <1>16, <2>1, <2>6 DEF simVars
<1>17. ASSUME FetchNothing /\ UNCHANGED <<cpuVars, portVars, simVars>> PROVE StoppedByAbort'
  <2> SUFFICES ASSUME NEW x \in Positions, doing'[x] \in {"cancel", "cancelled", "acked"} PROVE aborted'
    BY <1>a DEF StoppedByAbort
  <2>1. doing[x] \in {"cancel", "cancelled", "acked"} => aborted
    BY <1>a DEF StoppedByAbort
  <2>2. doing'[x] = doing[x] \/ doing'[x] = "none"
    BY <1>17, <1>a DEF FetchNothing, Retire
  <2> QED
    BY <1>17, <2>1, <2>2 DEF simVars
<1>18. ASSUME EndHostStep /\ UNCHANGED <<cpuVars, portVars, simVars>> PROVE StoppedByAbort'
  BY <1>18, <1>a DEF EndHostStep, StoppedByAbort, hostVars, simVars
<1>19. ASSUME NEW S \in SUBSET CanElapse, Transfers(S) PROVE StoppedByAbort'
  <2> SUFFICES ASSUME NEW x \in Positions, doing'[x] \in {"cancel", "cancelled", "acked"} PROVE aborted'
    BY <1>a DEF StoppedByAbort
  <2>1. doing[x] \in {"cancel", "cancelled", "acked"} => aborted
    BY <1>a DEF StoppedByAbort
  <2>2. doing[x] \in {"cancel", "cancelled", "acked"}
    BY <1>19, <1>a DEF Transfers, Elapse
  <2> QED
    BY <1>19, <2>1, <2>2 DEF Transfers, simVars
<1>20. ASSUME NEW next \in CommandStates, ProfileStep(next) PROVE StoppedByAbort'
  BY <1>20, <1>a DEF ProfileStep, StoppedByAbort, hostVars, simVars
<1>21. ASSUME NEW F \in SUBSET Running, NEW X \in SUBSET (Running \ F), Contexts(F, X) PROVE StoppedByAbort'
  BY <1>21, <1>a DEF Contexts, StoppedByAbort, hostVars, simVars
<1>22. ASSUME ResetStep PROVE StoppedByAbort'
  <2> SUFFICES ASSUME NEW x \in Positions, doing'[x] \in {"cancel", "cancelled", "acked"} PROVE aborted'
    BY <1>a DEF StoppedByAbort
  <2>1. doing[x] \in {"cancel", "cancelled", "acked"} => aborted
    BY <1>a DEF StoppedByAbort
  <2>2. UNCHANGED aborted /\ phase = "reset"
    BY <1>22 DEF ResetStep, simVars
  <2>3. CASE UNCHANGED doing
    BY <2>1, <2>2, <2>3
  <2>4. CASE ResetRelease /\ doing' # doing
    <3>1. /\ reset = "RESET_DOMAIN" /\ InFlight = {}
          /\ doing' = [r \in Positions |-> IF r \in Holding THEN "acked" ELSE doing[r]]
      BY <2>4 DEF ResetRelease
    <3>2. doing[x] # "done"
      BY <1>a, <2>2, <3>1 DEF Ages, Young, Closing
    <3>3. x \in Holding => doing[x] = "cancelled"
      BY <3>1, <3>2 DEF Holding
    <3> QED
      BY <2>1, <2>2, <3>1, <3>3
  <2> QED
    BY <1>22, <2>3, <2>4 DEF ResetStep
<1>23. ASSUME Poison PROVE StoppedByAbort'
  <2>1. CASE capped \/ aborted
    BY <1>23, <1>a, <2>1 DEF Poison, StoppedByAbort, hostVars, Types, SimTypes
  <2>2. CASE ~capped
    BY <1>23, <2>2 DEF Poison, StoppedByAbort
  <2> QED
    BY <2>1, <2>2
<1>24. ASSUME HostHarvest PROVE StoppedByAbort'
  <2> SUFFICES ASSUME NEW x \in Positions, doing'[x] \in {"cancel", "cancelled", "acked"} PROVE aborted'
    BY <1>a DEF StoppedByAbort
  <2>1. doing[x] \in {"cancel", "cancelled", "acked"} => aborted
    BY <1>a DEF StoppedByAbort
  <2>2. doing'[x] = doing[x] \/ doing'[x] \in {"none", "free"}
    BY <1>24, <1>a DEF HostHarvest, HarvestHost
  <2> QED
    BY <1>24, <2>1, <2>2 DEF HostHarvest, simVars
<1>25. ASSUME HarvestRaises PROVE StoppedByAbort'
  BY <1>25, <1>a DEF HarvestRaises, EndRun, StoppedByAbort, hostVars, simVars
<1>26. ASSUME RetireSlots /\ UNCHANGED <<cpuVars, hostVars, simVars>> PROVE StoppedByAbort'
  BY <1>26, <1>a DEF RetireSlots, StoppedByAbort, hostVars, simVars
<1>27. ASSUME EndPlacing /\ UNCHANGED <<cpuVars, hostVars, simVars>> PROVE StoppedByAbort'
  BY <1>27, <1>a DEF EndPlacing, GroupFault, StoppedByAbort, hostVars, simVars
<1>28. ASSUME CancelPending /\ UNCHANGED <<cpuVars, hostVars, simVars>> PROVE StoppedByAbort'
  BY <1>28, <1>a DEF CancelPending, StoppedByAbort, hostVars, simVars
<1>29. ASSUME NEW c \in Categories, Place(c) /\ UNCHANGED <<cpuVars, hostVars, simVars>> PROVE StoppedByAbort'
  BY <1>29, <1>a DEF Place, Attempting, GroupFault, StoppedByAbort, hostVars, simVars
<1>30. ASSUME NEW c \in Categories, FailHead(c) /\ UNCHANGED <<cpuVars, hostVars, simVars>> PROVE StoppedByAbort'
  BY <1>30, <1>a DEF FailHead, Attempting, GroupFault, StoppedByAbort, hostVars, simVars
<1>31. ASSUME HarvestClean /\ UNCHANGED simVars PROVE StoppedByAbort'
  BY <1>31, <1>a DEF HarvestClean, TakeAnswers, StoppedByAbort, hostVars, simVars
<1>32. ASSUME HarvestFault /\ UNCHANGED simVars PROVE StoppedByAbort'
  BY <1>32, <1>a DEF HarvestFault, TakeAnswers, StoppedByAbort, hostVars, simVars
<1>33. ASSUME SettleFault PROVE StoppedByAbort'
  BY <1>33 DEF SettleFault, StoppedByAbort
<1>34. ASSUME SettleSuccess PROVE StoppedByAbort'
  BY <1>34, <1>a DEF SettleSuccess, EndRun, StoppedByAbort, hostVars, simVars
<1>35. ASSUME SettleCapped PROVE StoppedByAbort'
  BY <1>35, <1>a DEF SettleCapped, EndRun, GoOn, StoppedByAbort, hostVars, simVars
<1>36. ASSUME SettleOn PROVE StoppedByAbort'
  BY <1>36, <1>a DEF SettleOn, GoOn, StoppedByAbort, hostVars, simVars
<1>37. ASSUME NextCycle PROVE StoppedByAbort'
  BY <1>37, <1>a DEF NextCycle, StoppedByAbort, hostVars, simVars
<1>38. ASSUME CycleCap PROVE StoppedByAbort'
  BY <1>38, <1>a DEF CycleCap, BeginDrain, StoppedByAbort, hostVars, simVars
<1>39. ASSUME Deadline PROVE StoppedByAbort'
  BY <1>39, <1>a DEF Deadline, EndRun, StoppedByAbort, hostVars, simVars
<1>40. ASSUME UNCHANGED vars PROVE StoppedByAbort'
  BY <1>40, <1>a DEF vars, hostVars, simVars, StoppedByAbort
<1>41. ASSUME CpuStep PROVE StoppedByAbort'
  BY <1>41, <1>1, <1>2, <1>3, <1>4, <1>5, <1>6, <1>7, <1>8, <1>9, <1>10, <1>11, <1>12, <1>13, <1>14 DEF CpuStep, Commands
<1>42. ASSUME HostStep PROVE StoppedByAbort'
  BY <1>42, <1>16, <1>17, <1>18 DEF HostStep
<1>43. ASSUME GroupStep PROVE StoppedByAbort'
  BY <1>43, <1>19, <1>20, <1>21, <1>22, <1>23 DEF GroupStep
<1>44. ASSUME PortPoll PROVE StoppedByAbort'
  BY <1>44, <1>26, <1>27, <1>28, <1>29, <1>30 DEF PortPoll
<1>45. ASSUME CpuHarvest PROVE StoppedByAbort'
  BY <1>45, <1>31, <1>32 DEF CpuHarvest
<1>46. ASSUME Settle PROVE StoppedByAbort'
  BY <1>46, <1>33, <1>34, <1>35, <1>36 DEF Settle
<1> QED
  BY <1>15, <1>24, <1>25, <1>37, <1>38, <1>39, <1>40, <1>41, <1>42, <1>43, <1>44, <1>45, <1>46 DEF Next

\* What a run reports is what happened: it is reported once, with nothing left.
LEMMA OutcomeStep ==
    ASSUME IInv, [Next]_vars
    PROVE  OutcomeIsTrue'
<1>a. SimTypes
  BY DEF IInv, Types
<1>b. ASSUME outcome' = "running" \/ outcome' \in {"capped", "poisoned"} PROVE OutcomeIsTrue'
  BY <1>b DEF OutcomeIsTrue, SuccessIsComplete, FaultedIsDrained, RaisedAfterFault
<1>c. phase # "end" => outcome = "running"
  BY <1>a DEF SimTypes
<1>d. /\ Types /\ LaunchAgreement /\ ControlTrue /\ FaultClears /\ Counted /\ ReservationsExact
      /\ NoneLost /\ SlotsDrain /\ DoneDrained /\ StoppedByAbort
  BY DEF IInv
<1>1. ASSUME BeginStep /\ UNCHANGED <<portVars, hostVars, simVars>> PROVE OutcomeIsTrue'
  BY <1>1, <1>b, <1>c DEF BeginStep, Resolve, simVars
<1>2. ASSUME IdleStep /\ UNCHANGED <<portVars, hostVars, simVars>> PROVE OutcomeIsTrue'
  BY <1>2, <1>b, <1>c DEF IdleStep, simVars
<1>3. ASSUME Await /\ UNCHANGED <<portVars, hostVars, simVars>> PROVE OutcomeIsTrue'
  BY <1>3, <1>b, <1>c DEF Await, Here, simVars
<1>4. ASSUME Return /\ UNCHANGED <<portVars, hostVars, simVars>> PROVE OutcomeIsTrue'
  BY <1>4, <1>b, <1>c DEF Return, Here, simVars
<1>5. ASSUME EndIssue /\ UNCHANGED <<portVars, hostVars, simVars>> PROVE OutcomeIsTrue'
  BY <1>5, <1>b, <1>c DEF EndIssue, simVars
<1>6. ASSUME BeginAdmit /\ UNCHANGED <<portVars, hostVars, simVars>> PROVE OutcomeIsTrue'
  BY <1>6, <1>b, <1>c DEF BeginAdmit, Resolve, simVars
<1>7. ASSUME RejectHost /\ UNCHANGED <<portVars, hostVars, simVars>> PROVE OutcomeIsTrue'
  BY <1>7, <1>b, <1>c DEF RejectHost, CanTry, Open, simVars
<1>8. ASSUME EndAdmit /\ UNCHANGED <<portVars, hostVars, simVars>> PROVE OutcomeIsTrue'
  BY <1>8, <1>b, <1>c DEF EndAdmit, simVars
<1>9. ASSUME NEW op \in Launching, Submit(op) /\ UNCHANGED <<portVars, hostVars, simVars>> PROVE OutcomeIsTrue'
  BY <1>9, <1>b, <1>c DEF Submit, Here, simVars
<1>10. ASSUME NEW op \in Controls, ControlBusy(op) /\ UNCHANGED <<portVars, hostVars, simVars>> PROVE OutcomeIsTrue'
  BY <1>10, <1>b, <1>c DEF ControlBusy, Here, simVars
<1>11. ASSUME NEW op \in Controls, PassControl(op) /\ UNCHANGED <<portVars, hostVars, simVars>> PROVE OutcomeIsTrue'
  BY <1>11, <1>b, <1>c DEF PassControl, Here, simVars
<1>12. ASSUME NEW op \in Controls, NEW answer \in ControlAnswers, Commands(op, answer) PROVE OutcomeIsTrue'
  BY <1>12, <1>b, <1>c DEF Commands, SubmitControl, Here, simVars
<1>13. ASSUME AdmitGroup /\ UNCHANGED <<hostVars, simVars>> PROVE OutcomeIsTrue'
  BY <1>13, <1>b, <1>c DEF AdmitGroup, Take, CanTry, Open, QueueSubmit, RejectSubmit, simVars
<1>14. ASSUME AdmitHost /\ UNCHANGED <<portVars, simVars>> PROVE OutcomeIsTrue'
  BY <1>14, <1>b, <1>c DEF AdmitHost, Take, CanTry, Open, HostSubmit, simVars
<1>15. ASSUME BeginHost PROVE OutcomeIsTrue'
  BY <1>15, <1>b, <1>c DEF BeginHost, simVars
<1>16. ASSUME FetchCommand /\ UNCHANGED <<cpuVars, portVars, simVars>> PROVE OutcomeIsTrue'
  BY <1>16, <1>b, <1>c DEF FetchCommand, simVars
<1>17. ASSUME FetchNothing /\ UNCHANGED <<cpuVars, portVars, simVars>> PROVE OutcomeIsTrue'
  BY <1>17, <1>b, <1>c DEF FetchNothing, simVars
<1>18. ASSUME EndHostStep /\ UNCHANGED <<cpuVars, portVars, simVars>> PROVE OutcomeIsTrue'
  BY <1>18, <1>b, <1>c DEF EndHostStep, simVars
<1>19. ASSUME NEW S \in SUBSET CanElapse, Transfers(S) PROVE OutcomeIsTrue'
  BY <1>19, <1>b, <1>c DEF Transfers, simVars
<1>20. ASSUME NEW next \in CommandStates, ProfileStep(next) PROVE OutcomeIsTrue'
  BY <1>20, <1>b, <1>c DEF ProfileStep, simVars
<1>21. ASSUME NEW F \in SUBSET Running, NEW X \in SUBSET (Running \ F), Contexts(F, X) PROVE OutcomeIsTrue'
  BY <1>21, <1>b, <1>c DEF Contexts, simVars
<1>22. ASSUME ResetStep PROVE OutcomeIsTrue'
  BY <1>22, <1>b, <1>c DEF ResetStep, ResetPass, ResetFreeze, ResetDrain, ResetRelease, NextReset, ResetActive, simVars
<1>23. ASSUME Poison PROVE OutcomeIsTrue'
  BY <1>23, <1>b DEF Poison, EndRun
<1>24. ASSUME HostHarvest PROVE OutcomeIsTrue'
  BY <1>24, <1>b, <1>c DEF HostHarvest, HarvestHost, simVars
<1>25. ASSUME HarvestRaises PROVE OutcomeIsTrue'
  <2>1. CASE capped
    BY <1>25, <1>b, <2>1 DEF HarvestRaises, EndRun
  <2>2. CASE ~capped
    <3>1. outcome' = "raised" /\ Acknowledged # {} /\ UNCHANGED <<aborted, fault>>
      BY <1>25, <2>2 DEF HarvestRaises, EndRun, cpuVars
    <3>2. aborted
      BY <1>d, <3>1 DEF Acknowledged, StoppedByAbort
    <3>3. Faulted
      BY <1>d, <3>2 DEF FaultClears
    <3> QED
      BY <3>1, <3>2, <3>3 DEF OutcomeIsTrue, SuccessIsComplete, FaultedIsDrained, RaisedAfterFault, Faulted
  <2> QED
    BY <2>1, <2>2
<1>26. ASSUME RetireSlots /\ UNCHANGED <<cpuVars, hostVars, simVars>> PROVE OutcomeIsTrue'
  BY <1>26, <1>b, <1>c DEF RetireSlots, simVars
<1>27. ASSUME EndPlacing /\ UNCHANGED <<cpuVars, hostVars, simVars>> PROVE OutcomeIsTrue'
  BY <1>27, <1>b, <1>c DEF EndPlacing, GroupFault, simVars
<1>28. ASSUME CancelPending /\ UNCHANGED <<cpuVars, hostVars, simVars>> PROVE OutcomeIsTrue'
  BY <1>28, <1>b, <1>c DEF CancelPending, simVars
<1>29. ASSUME NEW c \in Categories, Place(c) /\ UNCHANGED <<cpuVars, hostVars, simVars>> PROVE OutcomeIsTrue'
  BY <1>29, <1>b, <1>c DEF Place, Attempting, GroupFault, simVars
<1>30. ASSUME NEW c \in Categories, FailHead(c) /\ UNCHANGED <<cpuVars, hostVars, simVars>> PROVE OutcomeIsTrue'
  BY <1>30, <1>b, <1>c DEF FailHead, Attempting, GroupFault, simVars
<1>31. ASSUME HarvestClean /\ UNCHANGED simVars PROVE OutcomeIsTrue'
  BY <1>31, <1>b, <1>c DEF HarvestClean, TakeAnswers, simVars
<1>32. ASSUME HarvestFault /\ UNCHANGED simVars PROVE OutcomeIsTrue'
  BY <1>32, <1>b, <1>c DEF HarvestFault, TakeAnswers, simVars
<1>33. ASSUME SettleFault PROVE OutcomeIsTrue'
  <2>1. CASE reset # "DONE"
    BY <1>33, <1>b, <1>c, <2>1 DEF SettleFault, GoOn
  <2>2. CASE reset = "DONE"
    <3>1. /\ phase = "settle" /\ Faulted /\ outcome' = "faulted"
          /\ UNCHANGED <<prog, pending, active, queue, slots, context, handles, reserved>>
      BY <1>33, <2>2 DEF SettleFault, EndRun, cpuVars
    <3>2. pending = <<>> /\ handles = {} /\ reserved = {}
      BY <1>d, <3>1 DEF FaultClears
    <3>3. Occupants = {} /\ queue = <<>> /\ answers = {} /\ Holders = {}
      BY <1>d, <2>2, <3>1 DEF DoneDrained, SlotsDrain
    <3>4. active = {}
      BY <1>d, <3>3 DEF LaunchAgreement, PortAgreement, ToSet, Ids
    <3>5. Occupants' = Occupants /\ Holders' = Holders
      BY <3>1 DEF Occupants, Holders, Positions
    <3> QED
      BY <3>1, <3>2, <3>3, <3>4, <3>5 DEF OutcomeIsTrue, SuccessIsComplete, FaultedIsDrained, RaisedAfterFault
  <2> QED
    BY <2>1, <2>2
<1>34. ASSUME SettleSuccess PROVE OutcomeIsTrue'
  <2>1. /\ Succeeded /\ outcome' = "complete"
        /\ UNCHANGED <<prog, launch, queue, slots, context, doing, handles, completions, remaining, command>>
    BY <1>34 DEF SettleSuccess, EndRun, cpuVars, portVars, hostVars
  <2>2. /\ ~Faulted /\ pc > Len(prog) /\ pending = <<>> /\ active = {} /\ activeHost = {} /\ reserved = {} /\ control = 0
    BY <2>1 DEF Succeeded, Returned, ControlDone
  <2>3. PendingIds = {} /\ \A r : Waiting(r) = {}
    BY <2>2 DEF PendingIds, Waiting, ToSet
  <2>4. /\ Len(prog) \in Nat /\ Positions = 1 .. Len(prog) /\ pc \in Nat /\ Launches \subseteq Positions
        /\ queue \in Seq(Launches) /\ handles \subseteq Launches
    BY <1>d, ProgramFacts DEF Types, SimTypes, CpuTypes, PortTypes
  <2>5. \A i \in Positions : i < pc /\ ~(i >= pc)
    BY <2>2, <2>4
  <2>6. \A r \in Launches : launch[r] = "complete"
    BY <1>d, <2>2, <2>3, <2>4, <2>5 DEF NoneLost
  <2>7. queue = <<>> /\ Occupants = {} /\ Holders = {} /\ Routines = {}
    <3>1. ToSet(queue) = {} /\ Occupants = {} /\ Routines = {}
      BY <1>d, <2>2 DEF LaunchAgreement, PortAgreement, HostAgreement
    <3>2. queue = <<>>
      <4>1. Len(queue) = 0 \/ 1 \in DOMAIN queue
        BY <2>4, SeqFacts
      <4>2. 1 \notin DOMAIN queue
        BY <3>1 DEF ToSet
      <4> QED
        BY <2>4, <4>1, <4>2, SeqFacts
    <3> QED
      BY <1>d, <3>1, <3>2 DEF SlotsDrain
  <2>8. \A r \in Positions : remaining[r] = 0
    <3> SUFFICES ASSUME NEW r \in Positions PROVE remaining[r] = 0
      OBVIOUS
    <3>1. Ahead(r) = {}
      BY <2>5 DEF Ahead
    <3>2. CASE r \in Launches
      <4>1. remaining[r] = Cardinality({}) + Cardinality({})
        BY <1>d, <2>2, <2>3, <2>5, <3>1, <3>2 DEF Counted, ReferenceAccounting, Consumers
      <4> QED
        BY <4>1, FS_EmptySet
    <3>3. CASE r \notin Launches
      BY <1>d, <3>3 DEF Counted
    <3> QED
      BY <3>2, <3>3
  <2>9. handles = {} /\ completions = {}
    <3>1. \A r \in handles : remaining[r] > 0
      BY <1>d, <2>2, <2>3 DEF Counted
    <3>2. handles = {}
      BY <2>4, <2>8, <3>1
    <3> QED
      BY <1>d, <2>2, <3>2 DEF ReservationsExact
  <2>10. command = "idle"
    BY <1>d, <2>2 DEF ControlTrue
  <2>11. Occupants' = Occupants /\ Holders' = Holders /\ Routines' = Routines /\ Launches' = Launches /\ Positions' = Positions
    BY <2>1 DEF Occupants, Holders, Routines, Launches, Positions
  <2> QED
    BY <2>1, <2>6, <2>7, <2>8, <2>9, <2>10, <2>11 DEF OutcomeIsTrue, SuccessIsComplete, FaultedIsDrained, RaisedAfterFault
<1>35. ASSUME SettleCapped PROVE OutcomeIsTrue'
  BY <1>35, <1>b, <1>c DEF SettleCapped, EndRun, GoOn
<1>36. ASSUME SettleOn PROVE OutcomeIsTrue'
  BY <1>36, <1>b, <1>c DEF SettleOn, GoOn, simVars
<1>37. ASSUME NextCycle PROVE OutcomeIsTrue'
  BY <1>37, <1>b, <1>c DEF NextCycle, simVars
<1>38. ASSUME CycleCap PROVE OutcomeIsTrue'
  BY <1>38, <1>b, <1>c DEF CycleCap, BeginDrain, simVars
<1>39. ASSUME Deadline PROVE OutcomeIsTrue'
  BY <1>39, <1>b DEF Deadline, EndRun
<1>40. ASSUME UNCHANGED vars PROVE OutcomeIsTrue'
  <2>1. OutcomeIsTrue
    BY DEF IInv
  <2>2. UNCHANGED <<prog, pending, active, queue, slots, context, handles, reserved, outcome, aborted, fault,
                    launch, doing, completions, remaining, command>>
    BY <1>40 DEF vars, simVars, cpuVars, portVars, hostVars
  <2> QED
    BY <2>1, <2>2 DEF OutcomeIsTrue, SuccessIsComplete, FaultedIsDrained, RaisedAfterFault, Faulted,
       Occupants, Holders, Routines, Launches, Positions
<1>41. ASSUME CpuStep PROVE OutcomeIsTrue'
  BY <1>41, <1>1, <1>2, <1>3, <1>4, <1>5, <1>6, <1>7, <1>8, <1>9, <1>10, <1>11, <1>12, <1>13, <1>14 DEF CpuStep, Commands
<1>42. ASSUME HostStep PROVE OutcomeIsTrue'
  BY <1>42, <1>16, <1>17, <1>18 DEF HostStep
<1>43. ASSUME GroupStep PROVE OutcomeIsTrue'
  BY <1>43, <1>19, <1>20, <1>21, <1>22, <1>23 DEF GroupStep
<1>44. ASSUME PortPoll PROVE OutcomeIsTrue'
  BY <1>44, <1>26, <1>27, <1>28, <1>29, <1>30 DEF PortPoll
<1>45. ASSUME CpuHarvest PROVE OutcomeIsTrue'
  BY <1>45, <1>31, <1>32 DEF CpuHarvest
<1>46. ASSUME Settle PROVE OutcomeIsTrue'
  BY <1>46, <1>33, <1>34, <1>35, <1>36 DEF Settle
<1> QED
  BY <1>15, <1>24, <1>25, <1>37, <1>38, <1>39, <1>40, <1>41, <1>42, <1>43, <1>44, <1>45, <1>46 DEF Next

-----------------------------------------------------------------------------
(* The admission token of the port.                                        *)

\* Whether a head can be placed or must fail depends on the queue, the slots, the
\* Contexts, the gate and the mode.
LEMMA AttemptSame ==
    ASSUME UNCHANGED <<prog, queue, slots, context, held, mode>>, NEW c
    PROVE  (Admissible(c)' <=> Admissible(c)) /\ (Doomed(c)' <=> Doomed(c))
<1>1. HeadOf(c)' = HeadOf(c)
  BY DEF HeadOf, HeadIndex, SelectInSeq
<1>2. Holders' = Holders
  BY DEF Holders, Positions
<1>3. \A r : Vacant(r)' = Vacant(r) /\ (WrongMode(r)' <=> WrongMode(r)) /\ (NeverFits(r)' <=> NeverFits(r))
  BY DEF Vacant, WrongMode, NeverFits
<1>4. \A r : Fits(r)' <=> Fits(r)
  BY <1>2 DEF Fits, UsedUnits
<1> QED
  BY <1>1, <1>3, <1>4 DEF Admissible, Doomed

\* Every change that could help a blocked head sets the token.
LEMMA PortWakesStep ==
    ASSUME Types, PortWakes, [Next]_vars
    PROVE  PortWakes'
<1>1. prog' = prog /\ PortTypes
  BY Writers DEF Types
<1>2. ASSUME UNCHANGED <<queue, slots, context, held, mode>>, ~retry' /\ ~GroupFault' => ~retry /\ ~GroupFault
      PROVE  PortWakes'
  BY <1>1, <1>2, AttemptSame DEF PortWakes
<1>3. ASSUME retry' \/ GroupFault' PROVE PortWakes'
  BY <1>3 DEF PortWakes
<1>4. CASE UNCHANGED portVars
  BY <1>2, <1>4 DEF portVars, GroupFault
<1>5. CASE \E op \in Controls, answer \in ControlAnswers : Commands(op, answer)
  BY <1>2, <1>5 DEF Commands, GroupFault
<1>6. CASE AdmitGroup
  BY <1>3, <1>6 DEF AdmitGroup, QueueSubmit, RejectSubmit, GroupFault
<1>7. ASSUME NEW next \in CommandStates, ProfileStep(next) PROVE PortWakes'
  <2>1. CASE retry'
    BY <1>3, <2>1
  <2>2. CASE ~retry'
    BY <1>2, <1>7, <2>2 DEF ProfileStep, GroupFault
  <2> QED
    BY <2>1, <2>2
<1>8. ASSUME NEW F, NEW X, Contexts(F, X) PROVE PortWakes'
  <2>1. CASE retry' \/ GroupFault'
    BY <1>3, <2>1
  <2>2. CASE ~retry' /\ ~GroupFault'
    <3>1. UNCHANGED <<queue, slots, context, held, mode, portFault>> /\ ~retry
      BY <1>8, <2>2 DEF Contexts
    <3>2. reset = "IDLE" /\ ~portFault
      BY <1>8, <2>2, <3>1 DEF Contexts, GroupFault
    <3> QED
      BY <1>2, <3>1, <3>2 DEF GroupFault
  <2> QED
    BY <2>1, <2>2
<1>9. CASE ResetStep
  <2>1. CASE reset' # "IDLE"
    BY <1>3, <2>1 DEF GroupFault
  <2>2. CASE reset' = "IDLE"
    <3>1. UNCHANGED <<reset, context, retry>>
      BY <1>9, <2>2 DEF ResetStep, ResetPass, ResetFreeze, ResetDrain, ResetRelease, NextReset
    <3>2. UNCHANGED <<queue, slots, held, mode, portFault>>
      BY <1>9 DEF ResetStep
    <3> QED
      BY <1>2, <3>1, <3>2 DEF GroupFault
  <2> QED
    BY <2>1, <2>2
<1>10. CASE RetireSlots
  <2> DEFINE gone == {s \in Slots : slots[s] # NoSlot /\ Leaves(slots[s])}
  <2>1. /\ slots' = [s \in Slots |-> IF s \in gone THEN NoSlot ELSE slots[s]]
        /\ retry' = (retry \/ gone # {}) /\ (portFault => portFault')
        /\ UNCHANGED <<queue, context, held, mode, reset>>
    BY <1>10 DEF RetireSlots
  <2>2. CASE gone # {}
    BY <1>3, <2>1, <2>2
  <2>3. CASE gone = {}
    <3>1. slots' = slots
      BY <1>1, <2>1, <2>3 DEF PortTypes
    <3> QED
      BY <1>2, <2>1, <3>1 DEF GroupFault
  <2> QED
    BY <2>2, <2>3
<1>11. CASE EndPlacing
  <2>1. /\ UNCHANGED <<queue, slots, context, held, mode>> /\ ~GroupFault
        /\ retry => \A c \in Categories : ~Admissible(c) /\ ~Doomed(c)
    BY <1>11 DEF EndPlacing
  <2>2. \A c \in Categories : ~Admissible(c) /\ ~Doomed(c)
    BY <2>1 DEF PortWakes
  <2> QED
    BY <1>1, <2>1, <2>2, AttemptSame DEF PortWakes
<1>12. CASE CancelPending
  BY <1>3, <1>12 DEF CancelPending, GroupFault
<1>13. CASE \E c \in Categories : Place(c)
  BY <1>3, <1>13 DEF Place, Attempting
<1>14. CASE \E c \in Categories : FailHead(c)
  BY <1>3, <1>14 DEF FailHead, GroupFault
<1>15. CASE HarvestClean \/ HarvestFault
  <2>1. UNCHANGED <<queue, slots, context, held, mode, retry, reset>> /\ (portFault => portFault')
    BY <1>15 DEF HarvestClean, HarvestFault, TakeAnswers, PolledPortFault
  <2> QED
    BY <1>2, <2>1 DEF GroupFault
<1>16. CASE SettleFault \/ CycleCap
  BY <1>3, <1>16 DEF SettleFault, CycleCap, BeginDrain, GroupFault
<1> QED
  BY <1>4, <1>5, <1>6, <1>7, <1>8, <1>9, <1>10, <1>11, <1>12, <1>13, <1>14, <1>15, <1>16, Writers DEF PortWrites
-----------------------------------------------------------------------------
(* The rotation of the session.                                            *)

\* What a routine leaves behind in the rotation: all the others, once.
LEMMA WithoutFacts ==
    ASSUME NEW S, NEW s \in Seq(S), Distinct(s), NEW R
    PROVE  /\ Without(s, R) \in Seq(S) /\ Distinct(Without(s, R))
           /\ ToSet(Without(s, R)) = ToSet(s) \ R
<1> DEFINE stay == {i \in DOMAIN s : s[i] \notin R}
           upTo(i) == {k \in stay : k <= i}
           n == Cardinality(stay)
           rank == [i \in stay |-> Cardinality(upTo(i))]
           at(j) == CHOOSE i \in stay : Cardinality(upTo(i)) = j
           q == Without(s, R)
<1>1. Len(s) \in Nat /\ DOMAIN s = 1 .. Len(s) /\ \A k \in DOMAIN s : s[k] \in S
  BY SeqFacts
<1>2. IsFiniteSet(stay) /\ n \in Nat /\ stay \subseteq Nat
  <2>1. IsFiniteSet(1 .. Len(s)) /\ stay \in SUBSET (1 .. Len(s))
    BY <1>1, FS_Interval
  <2> QED
    BY <2>1, FS_Subset, FS_CardinalityType
<1>3. \A i \in stay : /\ IsFiniteSet(upTo(i)) /\ rank[i] \in Nat /\ rank[i] <= n
                      /\ rank[i] # 0
  <2> SUFFICES ASSUME NEW i \in stay
               PROVE  /\ IsFiniteSet(upTo(i)) /\ rank[i] \in Nat /\ rank[i] <= n
                      /\ rank[i] # 0
    OBVIOUS
  <2>1. upTo(i) \in SUBSET stay /\ i \in upTo(i)
    BY <1>2
  <2>2. IsFiniteSet(upTo(i)) /\ Cardinality(upTo(i)) <= n
    BY <1>2, <2>1, FS_Subset
  <2>3. Cardinality(upTo(i)) \in Nat /\ Cardinality(upTo(i)) # 0
    BY <2>1, <2>2, FS_CardinalityType, FS_EmptySet
  <2> QED
    BY <2>2, <2>3
<1>4. \A i, k \in stay : i < k => rank[i] # rank[k]
  <2> SUFFICES ASSUME NEW i \in stay, NEW k \in stay, i < k
               PROVE  rank[i] # rank[k]
    OBVIOUS
  <2>1. upTo(i) \in SUBSET upTo(k) /\ k \in upTo(k) /\ k \notin upTo(i)
    BY <1>2
  <2>2. IsFiniteSet(upTo(k))
    BY <1>3
  <2>3. Cardinality(upTo(k)) # Cardinality(upTo(i))
    BY <2>1, <2>2, FS_Subset
  <2> QED
    BY <2>3
<1>5. \A i, k \in stay : rank[i] = rank[k] => i = k
  <2>1. \A i, k \in stay : i < k \/ k < i \/ i = k
    BY <1>2
  <2> QED
    BY <1>4, <2>1
<1>6. rank \in Injection(stay, 1 .. n)
  <2>1. \A i \in stay : Cardinality(upTo(i)) \in 1 .. n
    <3> SUFFICES ASSUME NEW i \in stay PROVE Cardinality(upTo(i)) \in 1 .. n
      OBVIOUS
    <3>1. Cardinality(upTo(i)) \in Nat /\ Cardinality(upTo(i)) <= n /\ Cardinality(upTo(i)) # 0
      BY <1>3
    <3> HIDE DEF upTo, n
    <3> QED
      BY <1>2, <3>1
  <2>2. rank \in [stay -> 1 .. n]
    BY <2>1
  <2> QED
    BY <1>5, <2>2 DEF Injection, IsInjective
<1>7. rank \in Surjection(stay, 1 .. n)
  <2>1. IsFiniteSet(1 .. n) /\ Cardinality(1 .. n) = n
    BY <1>2, FS_Interval
  <2> QED
    BY <1>6, <2>1, FS_Injection
<1>8. \A j \in 1 .. n : \E i \in stay : rank[i] = j
  BY <1>7 DEF Surjection
<1>9. \A j \in 1 .. n : at(j) \in stay /\ rank[at(j)] = j
  <2> SUFFICES ASSUME NEW j \in 1 .. n PROVE at(j) \in stay /\ rank[at(j)] = j
    OBVIOUS
  <2>1. \E i \in stay : Cardinality(upTo(i)) = j
    BY <1>8
  <2>2. at(j) \in stay /\ Cardinality(upTo(at(j))) = j
    BY <2>1
  <2> QED
    BY <2>2
<1>10. q = [j \in 1 .. n |-> s[at(j)]]
  BY DEF Without
<1> HIDE DEF stay, upTo, at, rank, q, n
<1>11. \A j \in 1 .. n : at(j) \in DOMAIN s /\ s[at(j)] \notin R /\ s[at(j)] \in S
  BY <1>1, <1>9 DEF stay
<1>12. q \in Seq(S) /\ Len(q) = n
  <2>1. q \in [1 .. n -> S]
    BY <1>10, <1>11
  <2> QED
    BY <1>2, <2>1, SeqDef, LenProperties
<1>13. Distinct(q)
  <2> SUFFICES ASSUME NEW j \in 1 .. n, NEW k \in 1 .. n, q[j] = q[k] PROVE j = k
    BY <1>12 DEF Distinct
  <2>1. at(j) = at(k)
    BY <1>1, <1>10, <1>11 DEF Distinct
  <2> QED
    BY <1>9, <2>1
<1>14. ToSet(q) \subseteq ToSet(s) \ R
  BY <1>10, <1>11 DEF ToSet
<1>15. ToSet(s) \ R \subseteq ToSet(q)
  <2> SUFFICES ASSUME NEW i \in DOMAIN s, s[i] \notin R PROVE \E j \in 1 .. n : q[j] = s[i]
    BY <1>10 DEF ToSet
  <2>1. i \in stay /\ rank[i] \in 1 .. n
    BY <1>2, <1>3 DEF stay
  <2>2. at(rank[i]) = i
    BY <1>5, <1>9, <2>1
  <2> QED
    BY <1>10, <2>1, <2>2
<1> QED
  BY <1>12, <1>13, <1>14, <1>15 DEF q

\* Every routine stands in the rotation once, and nobody else does.
InTurn == rotation \in Seq(Positions) /\ Distinct(rotation) /\ ToSet(rotation) = Routines

\* Every step keeps the rotation: each live routine in it once, and nobody else.
LEMMA InTurnStep ==
    ASSUME Types, PendingFresh, LaunchAgreement, InTurn, [Next]_vars
    PROVE  InTurn'
<1>1. /\ prog' = prog /\ Positions' = Positions /\ prog \in Programs
      /\ doing \in [Positions -> RoutineStates] /\ left \in [Positions -> Seq(HostCommands)]
      /\ activeHost = Routines \cup Ids(hostAnswers)
      /\ rotation \in Seq(Positions) /\ Distinct(rotation) /\ ToSet(rotation) = Routines
  BY Writers, SameProgram DEF Types, SimTypes, HostTypes, LaunchAgreement, HostAgreement, InTurn
<1>2. ASSUME Routines' = Routines, rotation' = rotation PROVE InTurn'
  BY <1>1, <1>2 DEF InTurn
<1>3. ASSUME NEW R, Routines' = Routines \ R, rotation' = Without(rotation, R) PROVE InTurn'
  BY <1>1, <1>3, WithoutFacts DEF InTurn
<1>4. ASSUME doing' = doing PROVE Routines' = Routines
  BY <1>1, <1>4 DEF Routines
<1>5. CASE UNCHANGED hostVars
  BY <1>2, <1>4, <1>5 DEF hostVars
<1>6. CASE AdmitHost
  <2>1. Ready \in Positions /\ Ready \notin Routines
    BY <1>1, <1>6, TakeFacts DEF AdmitHost
  <2>2. Routines' = Routines \cup {Ready} /\ rotation' = Append(rotation, Ready)
    BY <1>1, <1>6, <2>1 DEF AdmitHost, HostSubmit, Routines
  <2>3. /\ rotation' \in Seq(Positions) /\ Distinct(rotation')
        /\ ToSet(rotation') = ToSet(rotation) \cup {Ready}
    <3>1. Ready \notin Range(rotation)
      BY <1>1, <2>1 DEF Range, ToSet
    <3>2. /\ Append(rotation, Ready) \in Seq(Positions) /\ Distinct(Append(rotation, Ready))
          /\ Range(Append(rotation, Ready)) = Range(rotation) \cup {Ready}
      BY <1>1, <2>1, <3>1, AppendDistinct
    <3> QED
      BY <2>2, <3>2 DEF Range, ToSet
  <2> QED
    BY <1>1, <2>2, <2>3 DEF InTurn
<1>7. CASE FetchCommand
  <2>1. PICK r \in Routines :
           /\ left[r] # <<>> /\ left[r][1] # "illegal"
           /\ doing' = [doing EXCEPT ![r] = Started(left[r][1])]
    BY <1>7 DEF FetchCommand
  <2>2. left[r][1] \in HostCommands
    BY <1>1, <2>1, SeqFacts, HeadTailProperties DEF Routines
  <2>3. Started(left[r][1]) # "none"
    BY <2>1, <2>2, StartedFacts
  <2>4. Routines' = Routines
    BY <1>1, <2>1, <2>3 DEF Routines
  <2> QED
    BY <1>2, <1>7, <2>4 DEF FetchCommand
<1>8. CASE FetchNothing
  <2>1. PICK r \in Routines : \E g \in BOOLEAN : Retire(r, g)
    BY <1>8 DEF FetchNothing
  <2>2. Routines' = Routines \ {r} /\ rotation' = Without(rotation, {r})
    BY <1>1, <2>1 DEF Retire, Routines
  <2> QED
    BY <1>3, <2>2
<1>9. CASE EndHostStep
  <2>1. doing' = doing /\ Routines' = Routines
    BY <1>4, <1>9 DEF EndHostStep
  <2>2. CASE rotation = <<>>
    BY <1>2, <1>9, <2>1, <2>2 DEF EndHostStep
  <2>3. CASE rotation # <<>>
    <3>1. rotation' = Append(Tail(rotation), Head(rotation))
      BY <1>1, <1>9, <2>3, HeadTailProperties DEF EndHostStep
    <3>2. /\ Head(rotation) \in Range(rotation) /\ Head(rotation) \in Positions
          /\ Tail(rotation) \in Seq(Positions) /\ Distinct(Tail(rotation))
          /\ Range(Tail(rotation)) = Range(rotation) \ {Head(rotation)}
      BY <1>1, <2>3, TailDistinct
    <3>3. /\ rotation' \in Seq(Positions) /\ Distinct(rotation')
          /\ Range(rotation') = Range(Tail(rotation)) \cup {Head(rotation)}
      <4> DEFINE t == Tail(rotation)
                 h == Head(rotation)
      <4>1. t \in Seq(Positions) /\ h \in Positions /\ Distinct(t) /\ h \notin Range(t)
        BY <3>2
      <4> HIDE DEF t, h
      <4>2. /\ Append(t, h) \in Seq(Positions) /\ Distinct(Append(t, h))
            /\ Range(Append(t, h)) = Range(t) \cup {h}
        BY <4>1, AppendDistinct
      <4> QED
        BY <3>1, <4>2 DEF t, h
    <3>4. ToSet(rotation') = ToSet(rotation)
      BY <3>2, <3>3 DEF Range, ToSet
    <3> QED
      BY <1>1, <2>1, <3>3, <3>4 DEF InTurn
  <2> QED
    BY <2>2, <2>3
<1>10. ASSUME NEW S \in SUBSET CanElapse, Transfers(S) PROVE InTurn'
  <2>1. \A r \in Positions : doing'[r] = "none" <=> doing[r] = "none"
    BY <1>10 DEF Transfers, Elapse
  <2>2. Routines' = Routines /\ rotation' = rotation
    BY <1>1, <1>10, <2>1 DEF Routines, Transfers
  <2> QED
    BY <1>2, <2>2
<1>11. CASE ResetStep
  <2>1. \A r \in Positions : doing'[r] = "none" <=> doing[r] = "none"
    BY <1>11 DEF ResetStep, ResetRelease, Holding, InFlight
  <2>2. Routines' = Routines /\ rotation' = rotation
    BY <1>1, <1>11, <2>1 DEF Routines, ResetStep
  <2> QED
    BY <1>2, <2>2
<1>12. CASE HostHarvest
  <2> DEFINE over == {r \in Delivered : left[r] = <<>>}
  <2>1. /\ rotation' = Without(rotation, over \cup Lost)
        /\ doing' = [r \in Positions |->
              IF r \in over \cup Lost THEN "none" ELSE IF r \in Delivered THEN "free" ELSE doing[r]]
    BY <1>12 DEF HostHarvest, HarvestHost
  <2>2. Delivered \subseteq Routines
    BY DEF Delivered, Routines
  <2>3. Routines' = Routines \ (over \cup Lost)
    BY <1>1, <2>1, <2>2 DEF Routines
  <2> QED
    BY <1>3, <2>1, <2>3
<1>13. CASE Abort
  <2> DEFINE quiet == Routines \ Holding
  <2>1. /\ rotation' = Without(rotation, quiet)
        /\ doing' = [r \in Positions |->
              IF r \in quiet THEN "none" ELSE IF r \in InFlight THEN "cancel" ELSE doing[r]]
    BY <1>13 DEF Abort
  <2>2. InFlight \subseteq Routines
    BY DEF InFlight, Routines
  <2>3. Routines' = Routines \ quiet
    BY <1>1, <2>1, <2>2 DEF Routines
  <2> QED
    BY <1>3, <2>1, <2>3
<1>14. CASE Poison \/ SettleFault
  BY <1>5, <1>13, <1>14 DEF Poison, SettleFault
<1>15. CASE HarvestClean \/ HarvestFault
  BY <1>2, <1>4, <1>15 DEF HarvestClean, HarvestFault, TakeAnswers
<1> QED
  BY <1>5, <1>6, <1>7, <1>8, <1>9, <1>10, <1>11, <1>12, <1>14, <1>15, Writers DEF HostWrites

\* A sequence without repetitions is as long as it has elements.
LEMMA TurnsCounted ==
    ASSUME InTurn
    PROVE  RoutinesInTurn
<1>1. /\ rotation \in Seq(Positions) /\ Distinct(rotation) /\ ToSet(rotation) = Routines
      /\ Len(rotation) \in Nat /\ DOMAIN rotation = 1 .. Len(rotation)
  BY SeqFacts DEF InTurn
<1>2. rotation \in Bijection(1 .. Len(rotation), Routines)
  <2>1. rotation \in [1 .. Len(rotation) -> Routines]
    BY <1>1, SeqDef DEF ToSet
  <2>2. \A x \in Routines : \E i \in 1 .. Len(rotation) : rotation[i] = x
    BY <1>1 DEF ToSet
  <2> QED
    BY <1>1, <2>1, <2>2 DEF Bijection, Injection, IsInjective, Surjection, Distinct
<1>3. IsFiniteSet(1 .. Len(rotation)) /\ Cardinality(1 .. Len(rotation)) = Len(rotation)
  BY <1>1, FS_Interval
<1>4. Cardinality(Routines) = Len(rotation)
  BY <1>2, <1>3, FS_Bijection DEF ExistsBijection
<1> QED
  BY <1>1, <1>4 DEF RoutinesInTurn


-----------------------------------------------------------------------------
(* The theorems.                                                           *)

\* The invariant holds before the first cycle.
LEMMA InitIInv == ASSUME Init PROVE IInv /\ PortWakes /\ InTurn
<1>1. /\ prog \in Programs /\ phase = "resolve" /\ count = 0 /\ CpuInit /\ PortInit /\ HostInit
      /\ outcome = "running" /\ capped = FALSE /\ aborted = FALSE
  BY DEF Init
<1>2. Len(prog) \in Nat /\ Positions = 1 .. Len(prog) /\ 0 \notin Positions /\ Positions \subseteq Nat
  BY <1>1, ProgramFacts
<1>3. /\ pending = <<>> /\ queue = <<>> /\ ToSet(queue) = {} /\ PendingIds = {} /\ Occupants = {}
      /\ Ids(answers) = {} /\ Ids(hostAnswers) = {} /\ Routines = {} /\ Holders = {} /\ ~Faulted
  BY <1>1 DEF CpuInit, PortInit, HostInit, ToSet, PendingIds, Occupants, Ids, Routines, Holders, Faulted
<1>4. SimTypes
  <2>1. IssueWidth \in Nat
    BY DeviceAssumption
  <2>2. count \in 0..IssueWidth
    BY <1>1, <2>1
  <2> QED
    BY <1>1, <2>2 DEF SimTypes, Phases, Outcomes
<1>5. CpuTypes
  <2>1. pending \in Seq(Pendings) /\ Len(pending) = 0 /\ PendingCapacity \in Nat
    BY <1>3, DeviceAssumption
  <2>2. Len(pending) <= PendingCapacity
    BY <2>1
  <2>3. pc \in 1..(Len(prog) + 1) /\ startPc \in 1..pc
    BY <1>1, <1>2 DEF CpuInit
  <2>4. launch \in [Positions -> LaunchStates]
    BY <1>1 DEF CpuInit, LaunchStates
  <2> QED
    BY <1>1, <2>1, <2>2, <2>3, <2>4 DEF CpuTypes, CpuInit
<1>6. PortTypes
  <2>1. queue \in Seq(Launches) /\ Len(queue) = 0 /\ PortCapacity \in Nat
    BY <1>3, DeviceAssumption
  <2>2. Len(queue) <= PortCapacity
    BY <2>1
  <2>3. slots \in [Slots -> Launches \cup {NoSlot}] /\ context \in [Positions -> ContextStates]
    BY <1>1 DEF PortInit, ContextStates
  <2> QED
    BY <1>1, <2>1, <2>2, <2>3 DEF PortTypes, PortInit, CommandStates, ResetStates
<1>7. HostTypes
  BY <1>1 DEF HostTypes, HostInit, RoutineStates
<1>8. LaunchAgreement
  BY <1>1, <1>3 DEF LaunchAgreement, PortAgreement, HostAgreement, OnePerId, CpuInit, PortInit, HostInit
<1>9. PendingFresh
  BY <1>1, <1>3 DEF PendingFresh, CpuInit
<1>10. ControlTrue
  BY <1>1 DEF ControlTrue, CpuInit, PortInit
<1>11. FaultClears
  BY <1>1, <1>3 DEF FaultClears
<1>12. Counted
  <2>1. remaining = [i \in Positions |-> 0] /\ pc = 1 /\ handles = {}
    BY <1>1 DEF CpuInit
  <2>2. \A r \in Launches : ~(r < pc)
    BY <1>2, <2>1 DEF Launches
  <2>3. ReferenceAccounting
    BY <2>2 DEF ReferenceAccounting
  <2> QED
    BY <2>1, <2>3 DEF Counted
<1>13. ReservationsExact
  BY <1>1, FS_EmptySet, DeviceAssumption DEF ReservationsExact, CpuInit
<1>14. NoneLost
  BY <1>1, <1>2 DEF NoneLost, CpuInit, Launches
<1>15. SlotsDrain /\ DoneDrained /\ Ages /\ StoppedByAbort
  BY <1>1, <1>3 DEF SlotsDrain, DoneDrained, Ages, Young, StoppedByAbort, PortInit, HostInit
<1>16. OutcomeIsTrue
  BY <1>1 DEF OutcomeIsTrue, SuccessIsComplete, FaultedIsDrained, RaisedAfterFault
<1>17. PortWakes
  <2>1. \A c : HeadIndex(c) = 0
    <3>1. 1 .. Len(queue) = {}
      BY <1>3
    <3> QED
      BY <3>1 DEF HeadIndex, SelectInSeq
  <2>2. \A c : HeadOf(c) = 0
    BY <2>1 DEF HeadOf
  <2> QED
    BY <2>2 DEF PortWakes, Admissible, Doomed
<1>18. InTurn
  <2>1. rotation = <<>> /\ rotation \in Seq(Positions) /\ Len(rotation) = 0
    BY <1>1 DEF HostInit
  <2> QED
    BY <1>3, <2>1 DEF InTurn, Distinct, ToSet
<1> QED
  BY <1>4, <1>5, <1>6, <1>7, <1>8, <1>9, <1>10, <1>11, <1>12, <1>13, <1>14, <1>15, <1>16, <1>17, <1>18
  DEF IInv, Types

\* And every step of the co-simulation keeps it.
LEMMA NextIInv ==
    ASSUME IInv, [Next]_vars
    PROVE  IInv'
<1>1. /\ Types /\ LaunchAgreement /\ PendingFresh /\ ControlTrue /\ FaultClears /\ Counted
      /\ ReservationsExact /\ NoneLost /\ SlotsDrain /\ DoneDrained /\ Ages /\ StoppedByAbort
  BY DEF IInv
<1>2. Types'
  BY <1>1, SimTypesStep, CpuTypesStep, PortTypesStep, HostTypesStep DEF Types
<1>3. LaunchAgreement' /\ PendingFresh'
  BY <1>1, PortAgreementStep, HostAgreementStep, PendingFreshStep DEF LaunchAgreement
<1>4. ControlTrue' /\ FaultClears' /\ Counted' /\ ReservationsExact' /\ NoneLost'
  BY <1>1, ControlStep, FaultStep, CountedStep, ReservationsStep, NoneLostStep
<1>5. SlotsDrain' /\ DoneDrained' /\ Ages' /\ StoppedByAbort'
  BY <1>1, SlotsDrainStep, DoneDrainedStep, AgesStep, StoppedStep
<1>6. OutcomeIsTrue'
  BY OutcomeStep
<1> QED
  BY <1>2, <1>3, <1>4, <1>5, <1>6 DEF IInv

\* The books of the CPU, the port and the session are those of one run.
LEMMA BooksSound == Spec => []IInv
<1>1. Init => IInv
  BY InitIInv
<1>2. IInv /\ [Next]_vars => IInv'
  BY NextIInv
<1> QED
  BY <1>1, <1>2, PTL DEF Spec

\* The invariant gives the properties the run checks.
LEMMA IInvErrors ==
    ASSUME IInv
    PROVE  NoInternalError
<1>1. Types /\ LaunchAgreement /\ ControlTrue /\ Counted /\ ReservationsExact /\ Ages
  BY DEF IInv
<1>2. \A k \in DOMAIN pending : pending[k].id \in Launches /\ pending[k].needs \subseteq Launches
  <2>1. \A k \in DOMAIN pending : pending[k] \in Pendings
    BY <1>1, SeqFacts DEF Types, CpuTypes
  <2> QED
    BY <2>1 DEF Pendings
<1>3. ToSet(queue) \subseteq Launches
  BY <1>1, SeqFacts DEF Types, PortTypes, ToSet
<1>4. Underway => control # 0
  BY <1>1 DEF Underway, ControlTrue
<1>5. TypeOK
  BY <1>1, <1>2, <1>3, <1>4
  DEF TypeOK, Types, SimTypes, CpuTypes, PortTypes, Counted, LaunchStates, ContextStates, Outcomes
<1>6. TransfersHarvestedFirst
  BY <1>1 DEF TransfersHarvestedFirst, Ages, Young, Closing
<1> QED
  BY <1>1, <1>5, <1>6 DEF NoInternalError, Counted

\* None of the errors that the CPU controller, the port and the session raise
\* against themselves can occur: a launch is at one place, a reference and a
\* completion slot are counted once (harvest_completions, _release_reference,
\* _record_completion), whatever the program and the capacities.
THEOREM NoInternalErrorEver == Spec => []NoInternalError
<1>1. IInv => NoInternalError
  BY IInvErrors
<1> QED
  BY <1>1, BooksSound, PTL

\* A run that _run_model reports "complete" has left nothing anywhere, one it
\* reports "faulted" has drained the Group, and an exception leaves run() only
\* after a fault.
THEOREM OutcomeAlwaysTrue == Spec => []OutcomeIsTrue
<1>1. IInv => OutcomeIsTrue
  BY DEF IInv
<1> QED
  BY <1>1, BooksSound, PTL

\* Nobody waits for a turn or an attempt that never comes: the port skips an
\* attempt only when both category heads are blocked, so that no change that could
\* admit a launch goes unnoticed (_admission_token), and every live routine, and
\* nobody else, stands in the session's rotation once (_rotation).
THEOREM NoWakeupMissed == Spec => []NoMissedWakeup
<1>1. Init => PortWakes /\ InTurn
  BY InitIInv
<1>2. IInv /\ PortWakes /\ InTurn /\ [Next]_vars => (PortWakes /\ InTurn)'
  BY PortWakesStep, InTurnStep DEF IInv
<1>3. PortWakes /\ InTurn => NoMissedWakeup
  BY TurnsCounted DEF NoMissedWakeup
<1> QED
  BY <1>1, <1>2, <1>3, BooksSound, PTL DEF Spec
=============================================================================
