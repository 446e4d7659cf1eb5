----------------------- MODULE ProfileControllerProofs -----------------------
(***************************************************************************)
(* Proofs about the profile controller, for every set of members and       *)
(* Contexts, every list of commands, and every number of runs, recoveries  *)
(* and failing responses.                                                  *)
(*                                                                         *)
(* step() first moves an item of the bus and then advances the command, so *)
(* the invariant is stated of a controller record c and of the levels U    *)
(* that are in use: it holds of the record after the bus item as well, and *)
(* the two halves of a step are proved separately.                         *)
(***************************************************************************)
EXTENDS ProfileController, FiniteSetTheorems, TLAPS

\* The levels somebody uses.
InUse == {l \in Levels : UsersAt(l)}

\* A profile command that has not ended.
Reconfiguring(c) == c.cmd.kind = "profile" /\ c.cmd.state \in Live

Draining == {"ACQUIRE", "CHECK_FRONTIER", "CLOSE_ISSUE", "DRAIN_REFERENCES"}
Acking == {"WAIT_READY_ACK", "COMMIT", "WAIT_COMMIT_ACK"}
Drained == Isolating \ {"CLEAN_INVALIDATE"}

\* The components and the members are always those of the active profile.
Agreed(c) ==
    \A l \in Levels :
        /\ c.installed[l] = c.gen[l]
        /\ \A m \in MembersOf[l] : c.member[m].mode = c.mode[l] /\ c.member[m].gen = c.gen[l]

\* While the members are initialized or rebuilt there is no command.
Settled(c) ==
    /\ c.phase \in {"initializing", "prepare", "commit"} => c.cmd.kind = "none"
    /\ c.cmd.kind = "none" => c.cmd.state \notin Live /\ ~CleanupPending(c.cmd)
    /\ c.cmd.kind = "profile" => \E l \in Levels : c.cmd.levels = {l}

\* From CLOSE_ISSUE to OPEN_ISSUE, and after a fault, the gate is closed.
Latched(c) ==
    c.cmd.kind = "profile" =>
        /\ c.cmd.step \in Isolating \cup {"DRAIN_REFERENCES"} => c.cmd.issueClosed
        /\ c.cmd.issueClosed /\ c.cmd.step # "RELEASE" => c.cmd.levels \subseteq c.closed
        /\ c.cmd.state = "faulted" => c.cmd.levels \subseteq c.closed

\* Nobody uses a level between the drain and the opening, nor in a recovery.
Deserted(c, U) ==
    /\ Reconfiguring(c) /\ c.cmd.step \in Isolating => c.cmd.levels \cap U = {}
    /\ c.phase \in {"prepare", "commit"} => U = {}

\* Every dirty line of the level is in a request or a write-back until the
\* caches are clean.
Cleaning(c) ==
    Reconfiguring(c) =>
        /\ c.cmd.step \in Draining => ~c.cmd.started
        /\ ~c.cmd.started => ~CleanupPending(c.cmd)
        /\ c.cmd.step = "CLEAN_INVALIDATE" /\ c.cmd.started /\ ~c.cmd.cancel =>
              c.cmd.levels \cap c.dirty \subseteq c.cmd.pending \cup {l \in Levels : c.cmd.txn[l] # "none"}
        /\ c.cmd.step \in Drained => ~CleanupPending(c.cmd) /\ c.cmd.levels \cap c.dirty = {}

\* The shadow of a member is the one this command prepared.
Prepared(c, m) ==
    /\ c.member[m].prepared = c.cmd.id
    /\ c.member[m].shadowMode = c.cmd.target
    /\ c.member[m].shadowGen = c.gen[LevelOf[m]] + 1

OwnRequest(c, q) ==
    /\ q.id = c.cmd.id /\ q.mode = c.cmd.target
    /\ LevelOf[q.member] \in c.cmd.levels /\ q.gen = c.gen[LevelOf[q.member]] + 1
    /\ q.stage = "PREPARE" \/ (q.stage = "COMMIT" /\ c.cmd.step = "WAIT_COMMIT_ACK")

OwnResponse(c, r) ==
    /\ r.id = c.cmd.id
    /\ r.stage = "PREPARE" => Prepared(c, r.member)
    /\ r.stage = "COMMIT" => c.cmd.step = "WAIT_COMMIT_ACK" /\ ShadowConfirmed(c, r.member)
    /\ r.stage \in {"PREPARE", "COMMIT"}

\* The bus carries only what the command sent, and every member counted as
\* ready or committed is.
Acknowledged(c) ==
    Reconfiguring(c) =>
        /\ c.cmd.step \in Draining \cup {"CLEAN_INVALIDATE", "DRAIN_DOWNSTREAM", "PREPARE"} =>
              c.requests = <<>> /\ c.responses = {} /\ c.cmd.ready = {} /\ c.cmd.committed = {}
        /\ c.cmd.step \in Acking =>
              /\ \A i \in DOMAIN c.requests : OwnRequest(c, c.requests[i])
              /\ \A r \in c.responses : OwnResponse(c, r)
              /\ \A m \in c.cmd.ready : Prepared(c, m)
              /\ \A m \in c.cmd.committed : ShadowConfirmed(c, m)
        /\ c.cmd.step \in {"WAIT_READY_ACK", "COMMIT"} => c.cmd.committed = {}
        /\ c.cmd.step \in {"COMMIT", "WAIT_COMMIT_ACK"} =>
              \A l \in c.cmd.levels : \A m \in MembersOf[l] : Prepared(c, m)

\* What the controller c keeps while the levels U are in use.
Sound(c, U) ==
    /\ c \in Controller
    /\ Agreed(c) /\ Settled(c) /\ Latched(c)
    /\ Deserted(c, U) /\ Cleaning(c) /\ Acknowledged(c)

IInv == TypeOK /\ Sound(ctl, InUse)

-----------------------------------------------------------------------------
(* What the steps leave alone.                                             *)

SameProfile(c, d) ==
    d.phase = c.phase /\ d.mode = c.mode /\ d.gen = c.gen /\ d.installed = c.installed /\ d.member = c.member
SameBus(c, d) == d.requests = c.requests /\ d.responses = c.responses
SameOrder(k, j) == j.id = k.id /\ j.kind = k.kind /\ j.levels = k.levels /\ j.target = k.target
SameFlags(k, j) == j.state = k.state /\ j.cancel = k.cancel /\ j.issueClosed = k.issueClosed
SameAcks(k, j) == j.ready = k.ready /\ j.committed = k.committed
SameCleaning(k, j) == j.started = k.started /\ j.pending = k.pending /\ j.txn = k.txn

\* A step of a command that only moves on.
LEMMA MoveFields ==
    ASSUME NEW c \in Controller, NEW step \in Steps
    PROVE  LET d == Move(c, step) IN
           /\ d \in Controller /\ SameProfile(c, d) /\ SameBus(c, d) /\ d.closed = c.closed /\ d.dirty = c.dirty
           /\ SameOrder(c.cmd, d.cmd) /\ SameFlags(c.cmd, d.cmd) /\ SameAcks(c.cmd, d.cmd)
           /\ SameCleaning(c.cmd, d.cmd) /\ d.cmd.step = step
<1> DEFINE d == Move(c, step)
<1>1. d \in Controller
  BY Zenon DEF Move, Controller, Command
<1>2. SameProfile(c, d) /\ SameBus(c, d) /\ d.closed = c.closed /\ d.dirty = c.dirty
  BY DEF Move, Controller, SameProfile, SameBus
<1>3. d.cmd = [c.cmd EXCEPT !.step = step] /\ c.cmd \in Command
  BY DEF Move, Controller
<1>4. SameOrder(c.cmd, d.cmd) /\ SameFlags(c.cmd, d.cmd) /\ SameAcks(c.cmd, d.cmd)
           /\ SameCleaning(c.cmd, d.cmd) /\ d.cmd.step = step
  BY <1>3 DEF Command, SameOrder, SameFlags, SameAcks, SameCleaning
<1> QED
  BY <1>1, <1>2, <1>4

\* The write-backs that ended are acknowledged.
LEMMA AckFields ==
    ASSUME NEW c \in Controller
    PROVE  LET d == AckWritebacks(c) IN
           /\ d \in Controller /\ SameProfile(c, d) /\ SameBus(c, d) /\ d.closed = c.closed
           /\ d.dirty = c.dirty \ {l \in Levels : c.cmd.txn[l] = "done"}
           /\ SameOrder(c.cmd, d.cmd) /\ SameFlags(c.cmd, d.cmd) /\ SameAcks(c.cmd, d.cmd)
           /\ d.cmd.step = c.cmd.step /\ d.cmd.started = c.cmd.started /\ d.cmd.pending = c.cmd.pending
           /\ d.cmd.txn = [l \in Levels |-> IF c.cmd.txn[l] = "running" THEN "running" ELSE "none"]
<1> DEFINE d == AckWritebacks(c)
           txn == [l \in Levels |-> IF c.cmd.txn[l] = "running" THEN c.cmd.txn[l] ELSE "none"]
           dirty == c.dirty \ {l \in Levels : c.cmd.txn[l] = "done"}
<1>1. /\ c.cmd \in Command /\ c.dirty \subseteq Levels
      /\ d = [c EXCEPT !.dirty = dirty, !.cmd.txn = txn]
  BY Zenon DEF AckWritebacks, Controller
<1>2. c.cmd.txn \in [Levels -> {"none", "running", "done", "faulted", "cancelled"}]
  BY <1>1 DEF Command
<1>3. dirty \in SUBSET Levels /\ txn \in [Levels -> {"none", "running", "done", "faulted", "cancelled"}]
  BY <1>1, <1>2
<1>4. txn = [l \in Levels |-> IF c.cmd.txn[l] = "running" THEN "running" ELSE "none"]
  OBVIOUS
<1> HIDE DEF txn, dirty, d
<1>5. d \in Controller
  BY <1>1, <1>3, ZenonT(60) DEF Controller, Command
<1>6. SameProfile(c, d) /\ SameBus(c, d) /\ d.closed = c.closed /\ d.dirty = dirty
  BY <1>1 DEF Controller, SameProfile, SameBus
<1>7. d.cmd = [c.cmd EXCEPT !.txn = txn]
  BY <1>1 DEF Controller
<1>8. /\ SameOrder(c.cmd, d.cmd) /\ SameFlags(c.cmd, d.cmd) /\ SameAcks(c.cmd, d.cmd)
      /\ d.cmd.step = c.cmd.step /\ d.cmd.started = c.cmd.started /\ d.cmd.pending = c.cmd.pending
      /\ d.cmd.txn = txn
  BY <1>1, <1>7 DEF Command, SameOrder, SameFlags, SameAcks
<1> QED
  BY <1>4, <1>5, <1>6, <1>8 DEF dirty, d

\* The clean requests are withdrawn and no write-back that ended is left.
LEMMA CleanupFields ==
    ASSUME NEW c \in Controller
    PROVE  LET d == FaultCleanup(c) IN
           /\ d \in Controller /\ SameProfile(c, d) /\ SameBus(c, d) /\ d.closed = c.closed
           /\ d.dirty \subseteq c.dirty
           /\ SameOrder(c.cmd, d.cmd) /\ SameFlags(c.cmd, d.cmd) /\ SameAcks(c.cmd, d.cmd)
           /\ d.cmd.step = c.cmd.step /\ d.cmd.started = c.cmd.started /\ d.cmd.pending = {}
           /\ d.cmd.txn = [l \in Levels |-> IF c.cmd.txn[l] = "running" THEN "running" ELSE "none"]
<1> DEFINE e == [c EXCEPT !.cmd.pending = {}]
<1>1. e \in Controller
  BY ZenonT(60) DEF Controller, Command
<1>2. SameProfile(c, e) /\ SameBus(c, e) /\ e.closed = c.closed /\ e.dirty = c.dirty
  BY DEF Controller, SameProfile, SameBus
<1>3. e.cmd = [c.cmd EXCEPT !.pending = {}] /\ c.cmd \in Command
  BY DEF Controller
<1>4. /\ SameOrder(c.cmd, e.cmd) /\ SameFlags(c.cmd, e.cmd) /\ SameAcks(c.cmd, e.cmd)
      /\ e.cmd.step = c.cmd.step /\ e.cmd.started = c.cmd.started /\ e.cmd.pending = {} /\ e.cmd.txn = c.cmd.txn
  BY <1>3 DEF Command, SameOrder, SameFlags, SameAcks
<1>5. FaultCleanup(c) = AckWritebacks(e)
  BY DEF FaultCleanup
<1> HIDE DEF e
<1>6. /\ AckWritebacks(e) \in Controller /\ SameProfile(e, AckWritebacks(e)) /\ SameBus(e, AckWritebacks(e))
      /\ AckWritebacks(e).closed = e.closed /\ AckWritebacks(e).dirty \subseteq e.dirty
      /\ SameOrder(e.cmd, AckWritebacks(e).cmd) /\ SameFlags(e.cmd, AckWritebacks(e).cmd)
      /\ SameAcks(e.cmd, AckWritebacks(e).cmd)
      /\ AckWritebacks(e).cmd.step = e.cmd.step /\ AckWritebacks(e).cmd.started = e.cmd.started
      /\ AckWritebacks(e).cmd.pending = e.cmd.pending
      /\ AckWritebacks(e).cmd.txn = [l \in Levels |-> IF e.cmd.txn[l] = "running" THEN "running" ELSE "none"]
  BY <1>1, AckFields, Zenon
<1> QED
  BY <1>2, <1>4, <1>5, <1>6 DEF SameProfile, SameBus, SameOrder, SameFlags, SameAcks

\* A fault ends the command, and closes the level of a profile command.
LEMMA FaultFields ==
    ASSUME NEW c \in Controller
    PROVE  LET d == Fault(c) IN
           /\ d \in Controller /\ SameProfile(c, d) /\ SameBus(c, d)
           /\ d.closed = IF c.cmd.kind = "profile" THEN c.closed \cup c.cmd.levels ELSE c.closed
           /\ SameOrder(c.cmd, d.cmd) /\ d.cmd.state = "faulted"
           /\ d.cmd.step = c.cmd.step /\ d.cmd.issueClosed = c.cmd.issueClosed
<1> DEFINE closed == IF c.cmd.kind = "profile" THEN c.closed \cup c.cmd.levels ELSE c.closed
           e == [c EXCEPT !.cmd.state = "faulted", !.closed = closed]
<1>1. c.cmd \in Command /\ c.closed \subseteq Levels
  BY DEF Controller
<1>2. closed \in SUBSET Levels
  BY <1>1 DEF Command
<1>3. Fault(c) = FaultCleanup(e)
  BY DEF Fault
<1> HIDE DEF closed
<1>4. e \in Controller
  BY <1>1, <1>2, ZenonT(60) DEF Controller, Command, Terminal
<1>5. SameProfile(c, e) /\ SameBus(c, e) /\ e.closed = closed
  BY DEF Controller, SameProfile, SameBus
<1>6. e.cmd = [c.cmd EXCEPT !.state = "faulted"]
  BY DEF Controller
<1>7. /\ SameOrder(c.cmd, e.cmd) /\ e.cmd.state = "faulted"
      /\ e.cmd.step = c.cmd.step /\ e.cmd.issueClosed = c.cmd.issueClosed
  BY <1>1, <1>6 DEF Command, SameOrder
<1> HIDE DEF e
<1>8. /\ FaultCleanup(e) \in Controller /\ SameProfile(e, FaultCleanup(e)) /\ SameBus(e, FaultCleanup(e))
      /\ FaultCleanup(e).closed = e.closed
      /\ SameOrder(e.cmd, FaultCleanup(e).cmd) /\ SameFlags(e.cmd, FaultCleanup(e).cmd)
      /\ FaultCleanup(e).cmd.step = e.cmd.step
  BY <1>4, CleanupFields, Zenon
<1> QED
  BY <1>3, <1>5, <1>7, <1>8 DEF SameProfile, SameBus, SameOrder, SameFlags, closed

-----------------------------------------------------------------------------
(* Parts of the invariant that a step does not touch.                      *)

\* The profile stays.
LEMMA SameAgreed ==
    ASSUME NEW c, NEW d, Agreed(c), SameProfile(c, d)
    PROVE  Agreed(d)
BY DEF Agreed, SameProfile

\* The command stays at its step and the bus and the members as they are.
LEMMA SameAcknowledged ==
    ASSUME NEW c, NEW d, Acknowledged(c), SameProfile(c, d), SameBus(c, d),
           SameOrder(c.cmd, d.cmd), SameAcks(c.cmd, d.cmd), d.cmd.step = c.cmd.step,
           d.cmd.state \in Live => c.cmd.state \in Live
    PROVE  Acknowledged(d)
BY DEF Acknowledged, Reconfiguring, Prepared, ShadowConfirmed, OwnRequest, OwnResponse,
       SameProfile, SameBus, SameOrder, SameAcks

\* A command ends: only the gate matters.
LEMMA Ended ==
    ASSUME NEW U, NEW c, Sound(c, U), NEW d \in Controller, SameProfile(c, d), SameOrder(c.cmd, d.cmd),
           d.cmd.kind # "none", d.cmd.state \notin Live, Latched(d)
    PROVE  Sound(d, U)
<1>1. Agreed(d)
  BY SameAgreed DEF Sound
<1>2. ~Reconfiguring(d)
  BY DEF Reconfiguring
<1>3. Settled(d) /\ Deserted(d, U)
  BY <1>2 DEF Sound, Settled, Deserted, SameProfile, SameOrder
<1>4. Cleaning(d) /\ Acknowledged(d)
  BY <1>2 DEF Cleaning, Acknowledged
<1> QED
  BY <1>1, <1>3, <1>4 DEF Sound

\* A maintenance command leaves the profile and the members alone.
LEMMA Maintained ==
    ASSUME NEW U, NEW c, Sound(c, U), NEW d \in Controller, SameProfile(c, d),
           c.cmd.kind = "maintenance", d.cmd.kind = "maintenance"
    PROVE  Sound(d, U)
<1>1. Agreed(d)
  BY SameAgreed DEF Sound
<1>2. ~Reconfiguring(d)
  BY DEF Reconfiguring
<1>3. Settled(d) /\ Deserted(d, U)
  BY <1>2 DEF Sound, Settled, Deserted, SameProfile
<1>4. Cleaning(d) /\ Acknowledged(d) /\ Latched(d)
  BY <1>2 DEF Cleaning, Acknowledged, Latched
<1> QED
  BY <1>1, <1>3, <1>4 DEF Sound

\* _fault() of a command.
LEMMA FaultSound ==
    ASSUME NEW U, NEW c, Sound(c, U), c.cmd.kind # "none"
    PROVE  Sound(Fault(c), U)
<1> DEFINE d == Fault(c)
<1>1. /\ c \in Controller /\ d \in Controller /\ SameProfile(c, d)
      /\ d.closed = IF c.cmd.kind = "profile" THEN c.closed \cup c.cmd.levels ELSE c.closed
      /\ SameOrder(c.cmd, d.cmd) /\ d.cmd.state = "faulted"
      /\ d.cmd.step = c.cmd.step /\ d.cmd.issueClosed = c.cmd.issueClosed
  BY FaultFields, Zenon DEF Sound
<1> HIDE DEF d
<1>2. d.cmd.kind # "none" /\ d.cmd.state \notin Live /\ Latched(d)
  BY <1>1 DEF SameOrder, Live, Latched, Sound
<1>3. Sound(d, U)
  BY <1>1, <1>2, Ended
<1> QED
  BY <1>3 DEF d

\* The cleanup of a command that has ended or is being cancelled.
LEMMA CleanupSound ==
    ASSUME NEW U, NEW c, Sound(c, U), c.cmd.state \notin Live \/ c.cmd.cancel
    PROVE  Sound(FaultCleanup(c), U)
<1> DEFINE d == FaultCleanup(c)
<1>1. /\ c \in Controller /\ d \in Controller /\ SameProfile(c, d) /\ SameBus(c, d) /\ d.closed = c.closed
      /\ d.dirty \subseteq c.dirty
      /\ SameOrder(c.cmd, d.cmd) /\ SameFlags(c.cmd, d.cmd) /\ SameAcks(c.cmd, d.cmd)
      /\ d.cmd.step = c.cmd.step /\ d.cmd.started = c.cmd.started /\ d.cmd.pending = {}
      /\ d.cmd.txn = [l \in Levels |-> IF c.cmd.txn[l] = "running" THEN "running" ELSE "none"]
  BY CleanupFields, Zenon DEF Sound
<1> HIDE DEF d
<1>2. Agreed(d)
  BY <1>1, SameAgreed DEF Sound
<1>3. Acknowledged(d)
  BY <1>1, SameAcknowledged DEF Sound, SameFlags
<1>4. ~CleanupPending(c.cmd) => ~CleanupPending(d.cmd)
  BY <1>1 DEF CleanupPending
<1>5. Settled(d)
  BY <1>1, <1>4 DEF Sound, Settled, SameProfile, SameOrder, SameFlags
<1>6. Latched(d)
  BY <1>1 DEF Sound, Latched, SameOrder, SameFlags
<1>7. Deserted(d, U)
  BY <1>1 DEF Sound, Deserted, Reconfiguring, SameProfile, SameOrder, SameFlags
<1>8. Cleaning(d)
  <2> SUFFICES ASSUME Reconfiguring(d) PROVE Cleaning(d)
    BY DEF Cleaning
  <2>1. Reconfiguring(c) /\ d.cmd.cancel
    BY <1>1 DEF Reconfiguring, SameOrder, SameFlags
  <2> QED
    BY <1>1, <1>4, <2>1 DEF Sound, Cleaning, SameOrder
<1>9. Sound(d, U)
  BY <1>1, <1>2, <1>3, <1>5, <1>6, <1>7, <1>8 DEF Sound
<1> QED
  BY <1>9 DEF d

-----------------------------------------------------------------------------
(* The first half of a step: the bus.                                      *)

\* Every member is one of exactly one level.
LEMMA LevelFacts ==
    /\ \A m \in Members : LevelOf[m] \in Levels /\ m \in MembersOf[LevelOf[m]]
    /\ \A l \in Levels : \A m \in MembersOf[l] : m \in Members /\ LevelOf[m] = l
<1>1. \A m \in Members : \E l \in Levels : m \in MembersOf[l]
  BY DEF Members
<1>2. \A m \in Members : LevelOf[m] \in Levels /\ m \in MembersOf[LevelOf[m]]
  BY <1>1 DEF LevelOf
<1>3. \A l \in Levels : \A m \in MembersOf[l] : m \in Members
  BY DEF Members
<1>4. \A k, l \in Levels : \A m : m \in MembersOf[k] /\ m \in MembersOf[l] => k = l
  BY ProfileAssumption DEF Levels
<1> QED
  BY <1>2, <1>3, <1>4

\* Only fields the invariant does not speak of change, or the controller fails.
LEMMA Cosmetic ==
    ASSUME NEW U, NEW c, Sound(c, U), NEW d \in Controller, d.phase = c.phase \/ d.phase = "failed",
           d.mode = c.mode, d.gen = c.gen, d.installed = c.installed, d.member = c.member,
           d.closed = c.closed, d.dirty = c.dirty, SameBus(c, d), d.cmd = c.cmd
    PROVE  Sound(d, U)
<1>1. Agreed(d)
  BY DEF Sound, Agreed
<1>2. Settled(d) /\ Latched(d) /\ Deserted(d, U) /\ Cleaning(d)
  BY DEF Sound, Settled, Latched, Deserted, Cleaning, Reconfiguring
<1>3. Acknowledged(d)
  BY DEF Sound, Acknowledged, Reconfiguring, Prepared, ShadowConfirmed, OwnRequest, OwnResponse, SameBus
<1> QED
  BY <1>1, <1>2, <1>3 DEF Sound

\* A response leaves the bus.
LEMMA TakenSound ==
    ASSUME NEW U, NEW b, Sound(b, U), NEW r \in b.responses
    PROVE  LET c == [b EXCEPT !.responses = @ \ {r}] IN
           /\ Sound(c, U) /\ c.cmd = b.cmd /\ SameProfile(b, c)
<1> DEFINE c == [b EXCEPT !.responses = @ \ {r}]
<1>1. b \in Controller /\ b.responses \ {r} \in SUBSET BusResponse
  BY DEF Sound, Controller
<1>2. c \in Controller
  BY <1>1, Zenon DEF Controller
<1>3. /\ SameProfile(b, c) /\ c.closed = b.closed /\ c.dirty = b.dirty /\ c.cmd = b.cmd
      /\ c.requests = b.requests /\ c.responses = b.responses \ {r}
  BY <1>1 DEF Controller, SameProfile
<1> HIDE DEF c
<1>4. Agreed(c)
  BY <1>3, SameAgreed DEF Sound
<1>5. Settled(c) /\ Latched(c) /\ Deserted(c, U) /\ Cleaning(c)
  BY <1>3 DEF Sound, Settled, Latched, Deserted, Cleaning, Reconfiguring, SameProfile
<1>6. Acknowledged(c)
  BY <1>3 DEF Sound, Acknowledged, Reconfiguring, Prepared, ShadowConfirmed, OwnRequest, OwnResponse, SameProfile
<1>7. Sound(c, U)
  BY <1>2, <1>4, <1>5, <1>6 DEF Sound
<1> QED
  BY <1>3, <1>7 DEF c

\* A member that answered is counted.
LEMMA CountedSound ==
    ASSUME NEW U, NEW c, Sound(c, U), NEW r \in BusResponse, c.cmd.kind = "profile",
           Reconfiguring(c) => c.cmd.step \notin Draining \cup {"CLEAN_INVALIDATE", "DRAIN_DOWNSTREAM", "PREPARE"},
           Reconfiguring(c) /\ c.cmd.step \in Acking => OwnResponse(c, r)
    PROVE  Sound(IF r.stage = "PREPARE" THEN [c EXCEPT !.cmd.ready = @ \cup {r.member}]
                 ELSE [c EXCEPT !.cmd.committed = @ \cup {r.member}], U)
<1> DEFINE ready == IF r.stage = "PREPARE" THEN c.cmd.ready \cup {r.member} ELSE c.cmd.ready
           committed == IF r.stage = "PREPARE" THEN c.cmd.committed ELSE c.cmd.committed \cup {r.member}
           d == IF r.stage = "PREPARE" THEN [c EXCEPT !.cmd.ready = @ \cup {r.member}]
                ELSE [c EXCEPT !.cmd.committed = @ \cup {r.member}]
<1>1. c \in Controller /\ c.cmd \in Command /\ r.member \in Members
  BY DEF Sound, Controller, BusResponse
<1>2. c.cmd.ready \cup {r.member} \in SUBSET Members /\ c.cmd.committed \cup {r.member} \in SUBSET Members
  BY <1>1 DEF Command
<1>3. d \in Controller
  <2>1. CASE r.stage = "PREPARE"
    <3>1. [c EXCEPT !.cmd.ready = @ \cup {r.member}] \in Controller
      BY <1>1, <1>2, ZenonT(60) DEF Controller, Command
    <3> QED
      BY <2>1, <3>1
  <2>2. CASE r.stage # "PREPARE"
    <3>1. [c EXCEPT !.cmd.committed = @ \cup {r.member}] \in Controller
      BY <1>1, <1>2, ZenonT(60) DEF Controller, Command
    <3> QED
      BY <2>2, <3>1
  <2> QED
    BY <2>1, <2>2
<1>4. /\ SameProfile(c, d) /\ SameBus(c, d) /\ d.closed = c.closed /\ d.dirty = c.dirty
      /\ d.cmd = IF r.stage = "PREPARE" THEN [c.cmd EXCEPT !.ready = @ \cup {r.member}]
                 ELSE [c.cmd EXCEPT !.committed = @ \cup {r.member}]
  BY <1>1 DEF Controller, SameProfile, SameBus
<1> HIDE DEF d
<1>5. /\ SameOrder(c.cmd, d.cmd) /\ SameFlags(c.cmd, d.cmd) /\ SameCleaning(c.cmd, d.cmd)
      /\ d.cmd.step = c.cmd.step /\ d.cmd.ready = ready /\ d.cmd.committed = committed
  BY <1>1, <1>4 DEF Command, SameOrder, SameFlags, SameCleaning
<1>6. Agreed(d)
  BY <1>4, SameAgreed DEF Sound
<1>7. CleanupPending(d.cmd) = CleanupPending(c.cmd)
  BY <1>5 DEF CleanupPending, SameCleaning
<1>8. Settled(d) /\ Latched(d) /\ Deserted(d, U)
  BY <1>4, <1>5, <1>7 DEF Sound, Settled, Latched, Deserted, Reconfiguring, SameProfile, SameOrder, SameFlags
<1>9. Cleaning(d)
  BY <1>4, <1>5, <1>7 DEF Sound, Cleaning, Reconfiguring, SameOrder, SameFlags, SameCleaning
<1>10. Acknowledged(d)
  <2> SUFFICES ASSUME Reconfiguring(d) PROVE Acknowledged(d)
    BY DEF Acknowledged
  <2>1. Reconfiguring(c) /\ Acknowledged(c)
    BY <1>5 DEF Sound, Reconfiguring, SameOrder, SameFlags
  <2>2. /\ \A m : Prepared(d, m) = Prepared(c, m)
        /\ \A m : ShadowConfirmed(d, m) = ShadowConfirmed(c, m)
        /\ \A q : OwnRequest(d, q) = OwnRequest(c, q)
    BY <1>4, <1>5 DEF Prepared, ShadowConfirmed, OwnRequest, SameProfile, SameOrder
  <2>3. \A q : OwnResponse(d, q) = OwnResponse(c, q)
    BY <1>5, <2>2 DEF OwnResponse, SameOrder
  <2>4. c.cmd.step \in {"WAIT_READY_ACK", "COMMIT"} => committed = {}
    BY <2>1 DEF Acknowledged, OwnResponse, Acking
  <2>5. c.cmd.step \in Acking => /\ \A m \in ready : Prepared(c, m)
                                 /\ \A m \in committed : ShadowConfirmed(c, m)
    BY <2>1 DEF Acknowledged, OwnResponse
  <2> HIDE DEF ready, committed
  <2> QED
    BY <1>4, <1>5, <2>1, <2>2, <2>3, <2>4, <2>5 DEF Acknowledged, SameBus, SameOrder
<1>11. Sound(d, U)
  BY <1>3, <1>6, <1>8, <1>9, <1>10 DEF Sound
<1> QED
  BY <1>11 DEF d

\* _consume_response
LEMMA ConsumeSound ==
    ASSUME NEW U, Sound(ctl, U), NEW r \in ctl.responses
    PROVE  Sound(Consume(r), U)
<1> DEFINE c == [ctl EXCEPT !.responses = @ \ {r}]
<1>1. ctl \in Controller /\ r \in BusResponse
  BY DEF Sound, Controller
<1>2. Sound(c, U) /\ c.cmd = ctl.cmd /\ SameProfile(ctl, c)
  BY TakenSound, Zenon
<1>3. Consume(r) = CASE r.id = InitializeId -> ConsumeInitializeAck(c, r)
                     [] r.id = RecoverId    -> ConsumeRecoveryAck(c, r)
                     [] OTHER               -> ConsumeCommandAck(c, r)
  BY DEF Consume
<1> HIDE DEF c
<1>4. c \in Controller /\ c.acks \subseteq Members \X Stages /\ <<r.member, r.stage>> \in Members \X Stages
  BY <1>1, <1>2 DEF Sound, Controller, BusResponse
<1>5. Sound([c EXCEPT !.acks = @ \cup {<<r.member, r.stage>>}], U)
  <2> DEFINE acks == c.acks \cup {<<r.member, r.stage>>}
             d == [c EXCEPT !.acks = acks]
  <2>1. acks \in SUBSET (Members \X Stages)
    BY <1>4
  <2> HIDE DEF acks
  <2>2. d \in Controller
    BY <1>4, <2>1, Zenon DEF Controller
  <2>3. /\ d.phase = c.phase /\ d.mode = c.mode /\ d.gen = c.gen /\ d.installed = c.installed
        /\ d.member = c.member /\ d.closed = c.closed /\ d.dirty = c.dirty /\ SameBus(c, d) /\ d.cmd = c.cmd
    BY <1>4 DEF Controller, SameBus
  <2> HIDE DEF d
  <2>4. Sound(d, U)
    BY <1>2, <2>2, <2>3, Cosmetic
  <2> QED
    BY <2>4 DEF d, acks
<1>6. Sound([c EXCEPT !.phase = "failed", !.acks = {}], U) /\ Sound([c EXCEPT !.phase = "failed"], U)
  <2> DEFINE d == [c EXCEPT !.phase = "failed", !.acks = {}]
             e == [c EXCEPT !.phase = "failed"]
  <2>1. d \in Controller
    BY <1>4, Zenon DEF Controller
  <2>2. e \in Controller
    BY <1>4, Zenon DEF Controller
  <2>3. /\ d.phase = "failed" /\ d.mode = c.mode /\ d.gen = c.gen /\ d.installed = c.installed
        /\ d.member = c.member /\ d.closed = c.closed /\ d.dirty = c.dirty /\ SameBus(c, d) /\ d.cmd = c.cmd
    BY <1>4 DEF Controller, SameBus
  <2>4. /\ e.phase = "failed" /\ e.mode = c.mode /\ e.gen = c.gen /\ e.installed = c.installed
        /\ e.member = c.member /\ e.closed = c.closed /\ e.dirty = c.dirty /\ SameBus(c, e) /\ e.cmd = c.cmd
    BY <1>4 DEF Controller, SameBus
  <2> HIDE DEF d, e
  <2>5. Sound(d, U) /\ Sound(e, U)
    BY <1>2, <2>1, <2>2, <2>3, <2>4, Cosmetic
  <2> QED
    BY <2>5 DEF d, e
<1>7. Sound(ConsumeInitializeAck(c, r), U)
  BY <1>2, <1>5, <1>6 DEF ConsumeInitializeAck
<1>8. Sound(ConsumeRecoveryAck(c, r), U)
  BY <1>2, <1>5, <1>6 DEF ConsumeRecoveryAck
<1>9. Sound(ConsumeCommandAck(c, r), U)
  <2>1. CASE c.cmd.id # r.id \/ c.cmd.kind # "profile" \/ r.gen # c.gen[LevelOf[r.member]] + 1
    BY <1>2, <2>1 DEF ConsumeCommandAck
  <2>2. CASE c.cmd.kind = "profile"
    <3>1. Sound(Fault(c), U)
      BY <1>2, <2>2, FaultSound
    <3>2. Reconfiguring(c) => Reconfiguring(ctl) /\ Acknowledged(ctl)
      BY <1>2 DEF Reconfiguring, Sound
    <3>3. Reconfiguring(c) =>
             c.cmd.step \notin Draining \cup {"CLEAN_INVALIDATE", "DRAIN_DOWNSTREAM", "PREPARE"}
      BY <1>2, <3>2 DEF Acknowledged
    <3>4. Reconfiguring(c) /\ c.cmd.step \in Acking => OwnResponse(c, r)
      BY <1>2, <3>2 DEF Acknowledged, OwnResponse, Prepared, ShadowConfirmed, SameProfile
    <3>5. Sound(IF r.stage = "PREPARE" THEN [c EXCEPT !.cmd.ready = @ \cup {r.member}]
                ELSE [c EXCEPT !.cmd.committed = @ \cup {r.member}], U)
      BY <1>1, <1>2, <2>2, <3>3, <3>4, CountedSound
    <3> QED
      BY <1>2, <3>1, <3>5 DEF ConsumeCommandAck
  <2> QED
    BY <2>1, <2>2
<1> QED
  BY <1>3, <1>7, <1>8, <1>9

\* A level nobody uses, without requests or write-backs, can be reconfigured.
LEMMA Ready ==
    ASSUME NEW c, NEW l \in Levels, l \notin InUse, leases \in Nat, ~CleanupPending(c.cmd)
    PROVE  ComponentsReady(c, l)
<1>1. ~(leases > 0) /\ (l = "l2" => \A x \in Contexts : ctx[x] # "active")
  BY DEF InUse, UsersAt
<1>2. leases = 0
  BY <1>1
<1>3. c.cmd.pending = {} /\ c.cmd.txn[l] = "none"
  BY DEF CleanupPending
<1> QED
  BY <1>1, <1>2, <1>3 DEF ComponentsReady

\* _service_request: a PREPARE of the live command is accepted because the
\* level is deserted and clean, a COMMIT because its member is prepared.
LEMMA ServiceSound ==
    ASSUME Sound(ctl, InUse), leases \in Nat, ctl.requests # <<>>, NEW ok \in BOOLEAN, NEW gen \in Int
    PROVE  Sound(Service(ok, gen), InUse)
<1> DEFINE q == Head(ctl.requests)
           accepts == Accepts(ctl, q)
           old == ctl.member[q.member]
           new == CASE accepts /\ q.stage = "PREPARE" ->
                          [old EXCEPT !.shadowMode = q.mode, !.shadowGen = q.gen, !.prepared = q.id]
                    [] accepts /\ q.stage = "COMMIT" -> [old EXCEPT !.committed = q.id]
                    [] OTHER -> old
           resp == [id |-> q.id, member |-> q.member, stage |-> q.stage, gen |-> gen, ok |-> ok]
           over == IF ok = accepts /\ gen = q.gen THEN ctl.overrides ELSE ctl.overrides + 1
           member == [ctl.member EXCEPT ![q.member] = new]
           d == Service(ok, gen)
<1>1. /\ ctl \in Controller /\ ctl.requests \in Seq(BusRequest) /\ ctl.member \in [Members -> Bank]
      /\ ctl.responses \subseteq BusResponse /\ ctl.overrides \in Nat /\ ctl.cmd \in Command
  BY DEF Sound, Controller
<1>2. /\ q \in BusRequest /\ Tail(ctl.requests) \in Seq(BusRequest)
      /\ 1 \in DOMAIN ctl.requests /\ q = ctl.requests[1]
      /\ \A i \in DOMAIN Tail(ctl.requests) : /\ i + 1 \in DOMAIN ctl.requests
                                              /\ Tail(ctl.requests)[i] = ctl.requests[i + 1]
  BY <1>1
<1>3. /\ q.id \in Ids /\ q.member \in Members /\ q.stage \in Stages /\ q.mode \in Modes /\ q.gen \in Int
      /\ old \in Bank
  BY <1>1, <1>2 DEF BusRequest
<1>4. d = [ctl EXCEPT !.requests = Tail(@), !.member[q.member] = new,
                      !.responses = @ \cup {resp}, !.overrides = over]
  BY DEF Service
<1> HIDE DEF q, accepts
<1>5. /\ new.mode = old.mode /\ new.gen = old.gen
      /\ new.prepared = (IF accepts /\ q.stage = "PREPARE" THEN q.id ELSE old.prepared)
      /\ new.shadowMode = (IF accepts /\ q.stage = "PREPARE" THEN q.mode ELSE old.shadowMode)
      /\ new.shadowGen = (IF accepts /\ q.stage = "PREPARE" THEN q.gen ELSE old.shadowGen)
      /\ new.committed = (IF accepts /\ q.stage = "COMMIT" THEN q.id ELSE old.committed)
  BY <1>3 DEF Bank
<1>6. new \in Bank
  <2>1. CASE accepts /\ q.stage = "PREPARE"
    <3>1. [old EXCEPT !.shadowMode = q.mode, !.shadowGen = q.gen, !.prepared = q.id] \in Bank
      BY <1>3 DEF Bank
    <3> QED
      BY <2>1, <3>1
  <2>2. CASE accepts /\ q.stage = "COMMIT"
    <3>1. [old EXCEPT !.committed = q.id] \in Bank
      BY <1>3 DEF Bank
    <3> QED
      BY <2>2, <3>1
  <2>3. CASE ~(accepts /\ q.stage = "PREPARE") /\ ~(accepts /\ q.stage = "COMMIT")
    BY <1>3, <2>3
  <2> QED
    BY <2>1, <2>2, <2>3
<1>7. resp \in BusResponse /\ resp.id = q.id /\ resp.member = q.member /\ resp.stage = q.stage
  BY <1>3 DEF BusResponse
<1>8. over \in Nat
  BY <1>1
<1> HIDE DEF new, old, resp, over
<1>9. member \in [Members -> Bank] /\ ctl.responses \cup {resp} \in SUBSET BusResponse
  BY <1>1, <1>3, <1>6, <1>7
<1>10. d = [ctl EXCEPT !.requests = Tail(ctl.requests), !.member = member,
                       !.responses = ctl.responses \cup {resp}, !.overrides = over]
  BY <1>1, <1>4 DEF Controller
<1> HIDE DEF d, member
<1>11. d \in Controller
  BY <1>1, <1>2, <1>8, <1>9, <1>10, Zenon DEF Controller
<1>12. /\ d.phase = ctl.phase /\ d.mode = ctl.mode /\ d.gen = ctl.gen /\ d.installed = ctl.installed
       /\ d.closed = ctl.closed /\ d.dirty = ctl.dirty /\ d.cmd = ctl.cmd
       /\ d.member = member /\ d.requests = Tail(ctl.requests) /\ d.responses = ctl.responses \cup {resp}
  BY <1>1, <1>10 DEF Controller
<1>13. member[q.member] = new /\ \A m \in Members : m # q.member => member[m] = ctl.member[m]
  BY <1>1, <1>3 DEF member
<1>14. Agreed(d)
  <2>1. \A m \in Members : member[m].mode = ctl.member[m].mode /\ member[m].gen = ctl.member[m].gen
    BY <1>3, <1>5, <1>13 DEF old
  <2> QED
    BY <1>12, <2>1, LevelFacts DEF Sound, Agreed
<1>15. Settled(d) /\ Latched(d) /\ Deserted(d, InUse) /\ Cleaning(d)
  BY <1>12 DEF Sound, Settled, Latched, Deserted, Cleaning, Reconfiguring
<1>16. Acknowledged(d)
  <2> SUFFICES ASSUME Reconfiguring(ctl), ctl.cmd.step \in Acking PROVE Acknowledged(d)
    <3>1. Reconfiguring(ctl) =>
             ctl.cmd.step \notin Draining \cup {"CLEAN_INVALIDATE", "DRAIN_DOWNSTREAM", "PREPARE"}
      BY DEF Sound, Acknowledged
    <3> QED
      BY <1>12, <3>1 DEF Acknowledged, Reconfiguring, Acking
  <2>1. Acknowledged(ctl) /\ Deserted(ctl, InUse) /\ Cleaning(ctl)
    BY DEF Sound
  <2>2. OwnRequest(ctl, q)
    BY <1>2, <2>1 DEF Acknowledged
  <2>3. LevelOf[q.member] \in Levels /\ LevelOf[q.member] \notin InUse
        /\ ~CleanupPending(ctl.cmd) /\ LevelOf[q.member] \notin ctl.dirty
    BY <1>3, <2>1, <2>2, LevelFacts DEF Deserted, Cleaning, OwnRequest, Acking, Isolating, Drained
  <2>4. q.stage = "PREPARE" => accepts
    BY <2>3, Ready DEF accepts, Accepts, VerifyMemberReady
  <2>5. q.stage = "COMMIT" => Prepared(ctl, q.member) /\ ctl.cmd.step = "WAIT_COMMIT_ACK"
    BY <1>3, <2>1, <2>2, LevelFacts DEF Acknowledged, OwnRequest
  <2>6. q.stage = "COMMIT" => accepts
    BY <2>2, <2>5 DEF accepts, Accepts, Prepared, OwnRequest
  <2>7. \A m \in Members : Prepared(ctl, m) => Prepared(d, m)
    BY <1>3, <1>5, <1>12, <1>13, <2>2, <2>4, <2>6 DEF Prepared, OwnRequest, old
  <2>8. \A m \in Members : ShadowConfirmed(ctl, m) => ShadowConfirmed(d, m)
    BY <1>3, <1>5, <1>12, <1>13, <2>2, <2>4, <2>6 DEF ShadowConfirmed, OwnRequest, old
  <2>9. q.stage = "PREPARE" => Prepared(d, q.member)
    BY <1>5, <1>12, <1>13, <2>2, <2>4 DEF Prepared, OwnRequest
  <2>10. q.stage = "COMMIT" => ShadowConfirmed(d, q.member)
    BY <1>5, <1>12, <1>13, <2>2, <2>5, <2>6 DEF Prepared, ShadowConfirmed, OwnRequest, old
  <2>11. \A r \in ctl.responses : r.member \in Members /\ OwnResponse(ctl, r)
    BY <1>1, <2>1 DEF Acknowledged, BusResponse
  <2>12. \A r \in d.responses : OwnResponse(d, r)
    <3>1. OwnResponse(d, resp)
      BY <1>7, <1>12, <2>2, <2>5, <2>9, <2>10 DEF OwnResponse, OwnRequest
    <3>2. \A r \in ctl.responses : OwnResponse(d, r)
      BY <1>12, <2>7, <2>8, <2>11 DEF OwnResponse
    <3> QED
      BY <1>12, <3>1, <3>2
  <2>13. \A i \in DOMAIN d.requests : OwnRequest(d, d.requests[i])
    BY <1>2, <1>12, <2>1 DEF Acknowledged, OwnRequest
  <2>14. \A m \in ctl.cmd.ready \cup ctl.cmd.committed : m \in Members
    BY <1>1 DEF Command
  <2>15. /\ \A m \in d.cmd.ready : Prepared(d, m)
         /\ \A m \in d.cmd.committed : ShadowConfirmed(d, m)
    BY <1>12, <2>1, <2>7, <2>8, <2>14 DEF Acknowledged
  <2>16. d.cmd.step \in {"COMMIT", "WAIT_COMMIT_ACK"} =>
            \A l \in d.cmd.levels : \A m \in MembersOf[l] : Prepared(d, m)
    <3>1. \A l \in ctl.cmd.levels : l \in Levels
      BY <1>1 DEF Command
    <3> QED
      BY <1>12, <2>1, <2>7, <3>1, LevelFacts DEF Acknowledged
  <2> QED
    BY <1>12, <2>1, <2>12, <2>13, <2>15, <2>16 DEF Acknowledged, Acking, Draining
<1>17. Sound(d, InUse)
  BY <1>11, <1>14, <1>15, <1>16 DEF Sound
<1> QED
  BY <1>17 DEF d

-----------------------------------------------------------------------------
(* The second half of a step: a profile command.                           *)

\* The requests of a broadcast, one for each member of the levels.
LEMMA BroadcastFacts ==
    ASSUME NEW ls \in SUBSET Levels, NEW id \in Ids, NEW stage \in Stages, NEW mode \in Modes,
           NEW gen \in [Levels -> Nat]
    PROVE  LET B == Broadcast(ls, id, stage, mode, gen) IN
           /\ B \in Seq(BusRequest)
           /\ \A i \in DOMAIN B : /\ B[i].id = id /\ B[i].stage = stage /\ B[i].mode = mode
                                  /\ LevelOf[B[i].member] \in ls /\ B[i].gen = gen[LevelOf[B[i].member]] + 1
<1> DEFINE ms == UNION {MembersOf[l] : l \in ls}
           n == Cardinality(ms)
           Lists(s) == {s[i] : i \in 1 .. n} = ms
           s == Ordered[ls]
           B == Broadcast(ls, id, stage, mode, gen)
<1>1. IsFiniteSet(ms)
  <2>1. IsFiniteSet(MembersOf["l1"]) /\ IsFiniteSet(MembersOf["l2"])
    BY ProfileAssumption DEF Levels
  <2>2. IsFiniteSet(MembersOf["l1"] \cup MembersOf["l2"])
    BY <2>1, FS_Union
  <2>3. ms \in SUBSET (MembersOf["l1"] \cup MembersOf["l2"])
    BY DEF Levels
  <2> QED
    BY <2>2, <2>3, FS_Subset
<1>2. n \in Nat /\ \E f \in [1 .. n -> ms] : Lists(f)
  <2>1. n \in Nat /\ ExistsBijection(1 .. n, ms)
    BY <1>1, FS_CardinalityType
  <2>2. PICK f \in [1 .. n -> ms] : \A y \in ms : \E i \in 1 .. n : f[i] = y
    BY <2>1 DEF ExistsBijection, Bijection, Surjection
  <2>3. Lists(f)
    BY <2>2
  <2> QED
    BY <2>1, <2>3
<1>3. s = CHOOSE f \in [1 .. n -> ms] : Lists(f)
  BY DEF Ordered
<1>4. s \in [1 .. n -> ms]
  BY <1>2, <1>3
<1>5. \A m \in ms : m \in Members /\ LevelOf[m] \in ls
  BY LevelFacts
<1>6. B = [i \in DOMAIN s |-> [id |-> id, member |-> s[i], stage |-> stage, mode |-> mode,
                               gen |-> gen[LevelOf[s[i]]] + 1]]
  BY DEF Broadcast, Request
<1> HIDE DEF s, B, ms, n
<1>7. \A i \in 1 .. n : s[i] \in Members /\ LevelOf[s[i]] \in ls /\ gen[LevelOf[s[i]]] + 1 \in Int
  BY <1>4, <1>5
<1>8. /\ DOMAIN B = 1 .. n
      /\ \A i \in 1 .. n : B[i] = [id |-> id, member |-> s[i], stage |-> stage, mode |-> mode,
                                   gen |-> gen[LevelOf[s[i]]] + 1]
  BY <1>4, <1>6
<1>9. \A i \in 1 .. n : B[i] \in BusRequest
  BY <1>7, <1>8 DEF BusRequest
<1>10. B \in [1 .. n -> BusRequest]
  BY <1>6, <1>8, <1>9
<1>11. B \in Seq(BusRequest)
  BY <1>2, <1>10
<1>12. \A i \in DOMAIN B : /\ B[i].id = id /\ B[i].stage = stage /\ B[i].mode = mode
                           /\ LevelOf[B[i].member] \in ls /\ B[i].gen = gen[LevelOf[B[i].member]] + 1
  BY <1>7, <1>8
<1> QED
  BY <1>11, <1>12 DEF B

\* The steps before the first request is on the bus.
Early == Draining \cup {"CLEAN_INVALIDATE", "DRAIN_DOWNSTREAM", "PREPARE"}

\* A command moves on before its first request is on the bus.
LEMMA EarlyMove ==
    ASSUME NEW U, NEW c, Sound(c, U), Reconfiguring(c), c.cmd.step \in Early, NEW t \in Early,
           t \in Isolating \cup {"DRAIN_REFERENCES"} => c.cmd.issueClosed,
           t \in Isolating => c.cmd.levels \cap U = {},
           t \in Draining \cup {"CLEAN_INVALIDATE"} => ~c.cmd.started,
           t \in Drained => ~CleanupPending(c.cmd) /\ c.cmd.levels \cap c.dirty = {}
    PROVE  Sound(Move(c, t), U)
<1> DEFINE d == Move(c, t)
<1>1. c \in Controller /\ t \in Steps
  BY DEF Sound, Early, Draining, Steps
<1>2. /\ d \in Controller /\ SameProfile(c, d) /\ SameBus(c, d) /\ d.closed = c.closed /\ d.dirty = c.dirty
      /\ SameOrder(c.cmd, d.cmd) /\ SameFlags(c.cmd, d.cmd) /\ SameAcks(c.cmd, d.cmd)
      /\ SameCleaning(c.cmd, d.cmd) /\ d.cmd.step = t
  BY <1>1, MoveFields, Zenon
<1> HIDE DEF d
<1>3. Agreed(d)
  BY <1>2, SameAgreed DEF Sound
<1>4. CleanupPending(d.cmd) = CleanupPending(c.cmd)
  BY <1>2 DEF CleanupPending, SameCleaning
<1>5. Settled(d)
  BY <1>2, <1>4 DEF Sound, Settled, SameProfile, SameOrder, SameFlags
<1>6. c.cmd.step # "RELEASE" /\ t # "RELEASE"
  BY DEF Early, Draining
<1>7. Latched(d)
  BY <1>2, <1>6 DEF Sound, Latched, SameOrder, SameFlags
<1>8. Deserted(d, U)
  BY <1>2 DEF Sound, Deserted, SameProfile, SameOrder
<1>9. Cleaning(d)
  BY <1>2, <1>4 DEF Sound, Cleaning, SameOrder, SameFlags, SameCleaning
<1>10. Acknowledged(d)
  BY <1>2 DEF Sound, Acknowledged, Early, Draining, Acking, SameBus, SameAcks
<1>11. Sound(d, U)
  BY <1>2, <1>3, <1>5, <1>7, <1>8, <1>9, <1>10 DEF Sound
<1> QED
  BY <1>11 DEF d

\* CLOSE_ISSUE closes the gate of the level.
LEMMA CloseSound ==
    ASSUME NEW U, NEW b, Sound(b, U), Reconfiguring(b), NEW l \in b.cmd.levels, b.cmd.step = "CLOSE_ISSUE"
    PROVE  Sound([b EXCEPT !.closed = @ \cup {l}, !.cmd.issueClosed = TRUE,
                           !.cmd.step = "DRAIN_REFERENCES"], U)
<1> DEFINE closed == b.closed \cup {l}
           d == [b EXCEPT !.closed = closed, !.cmd.issueClosed = TRUE, !.cmd.step = "DRAIN_REFERENCES"]
<1>1. b \in Controller /\ b.cmd \in Command /\ b.cmd.levels = {l} /\ b.cmd.levels \subseteq Levels
  BY DEF Sound, Controller, Command, Settled, Reconfiguring
<1>2. closed \in SUBSET Levels /\ b.cmd.levels \subseteq closed
  BY <1>1 DEF Controller
<1> HIDE DEF closed
<1>3. d \in Controller
  BY <1>1, <1>2, ZenonT(60) DEF Controller, Command, Steps
<1>4. SameProfile(b, d) /\ SameBus(b, d) /\ d.closed = closed /\ d.dirty = b.dirty
  BY <1>1 DEF Controller, SameProfile, SameBus
<1>5. d.cmd = [b.cmd EXCEPT !.issueClosed = TRUE, !.step = "DRAIN_REFERENCES"]
  BY <1>1 DEF Controller
<1> HIDE DEF d
<1>6. /\ SameOrder(b.cmd, d.cmd) /\ SameAcks(b.cmd, d.cmd) /\ SameCleaning(b.cmd, d.cmd)
      /\ d.cmd.state = b.cmd.state /\ d.cmd.cancel = b.cmd.cancel
      /\ d.cmd.issueClosed = TRUE /\ d.cmd.step = "DRAIN_REFERENCES"
  BY <1>1, <1>5 DEF Command, SameOrder, SameAcks, SameCleaning
<1>7. Agreed(d)
  BY <1>4, SameAgreed DEF Sound
<1>8. CleanupPending(d.cmd) = CleanupPending(b.cmd)
  BY <1>6 DEF CleanupPending, SameCleaning
<1>9. Settled(d)
  BY <1>4, <1>6, <1>8 DEF Sound, Settled, SameProfile, SameOrder
<1>10. Latched(d)
  BY <1>1, <1>2, <1>4, <1>6 DEF Latched, SameOrder
<1>11. Deserted(d, U)
  BY <1>4, <1>6 DEF Sound, Deserted, Isolating, SameProfile
<1>12. Cleaning(d)
  BY <1>4, <1>6, <1>8 DEF Sound, Cleaning, Draining, Drained, Isolating, SameCleaning
<1>13. Acknowledged(d)
  BY <1>4, <1>6 DEF Sound, Acknowledged, Draining, Acking, SameBus, SameAcks
<1>14. Sound(d, U)
  BY <1>3, <1>7, <1>9, <1>10, <1>11, <1>12, <1>13 DEF Sound
<1> QED
  BY <1>14 DEF d, closed

\* CHECK_FRONTIER consumes the proof and faults or moves on.
LEMMA FrontierSound ==
    ASSUME NEW U, NEW b, Sound(b, U), Reconfiguring(b), NEW l \in b.cmd.levels,
           b.cmd.step = "CHECK_FRONTIER", CheckFrontier(b, l)
    PROVE  Sound(ctl', U)
<1> DEFINE used == b.used \cup {l}
           startup == b.startup \ {l}
           e == [b EXCEPT !.startup = startup]
           f == [b EXCEPT !.used = used]
           c == IF b.cmd.startup THEN e ELSE f
<1>1. b \in Controller /\ b.cmd.kind = "profile" /\ b.cmd.levels \subseteq Levels
  BY DEF Sound, Controller, Command, Reconfiguring
<1>2. startup \in SUBSET Levels /\ used \in SUBSET (Levels \cup {"dependency"})
  BY <1>1 DEF Controller
<1>3. ctl' = IF ~FrontierProved(b, l) THEN Fault(b)
             ELSE IF FrontierViolated(b, l) THEN Fault(c) ELSE Move(c, "CLOSE_ISSUE")
  BY DEF CheckFrontier
<1> HIDE DEF startup, used
<1>4. Sound(e, U) /\ e.cmd = b.cmd
  <2>1. e \in Controller
    BY <1>1, <1>2, Zenon DEF Controller
  <2>2. /\ e.phase = b.phase /\ e.mode = b.mode /\ e.gen = b.gen /\ e.installed = b.installed
        /\ e.member = b.member /\ e.closed = b.closed /\ e.dirty = b.dirty /\ SameBus(b, e) /\ e.cmd = b.cmd
    BY <1>1 DEF Controller, SameBus
  <2> HIDE DEF e
  <2> QED
    BY <2>1, <2>2, Cosmetic
<1>5. Sound(f, U) /\ f.cmd = b.cmd
  <2>1. f \in Controller
    BY <1>1, <1>2, Zenon DEF Controller
  <2>2. /\ f.phase = b.phase /\ f.mode = b.mode /\ f.gen = b.gen /\ f.installed = b.installed
        /\ f.member = b.member /\ f.closed = b.closed /\ f.dirty = b.dirty /\ SameBus(b, f) /\ f.cmd = b.cmd
    BY <1>1 DEF Controller, SameBus
  <2> HIDE DEF f
  <2> QED
    BY <2>1, <2>2, Cosmetic
<1>6. Sound(c, U) /\ c.cmd = b.cmd
  BY <1>4, <1>5
<1> HIDE DEF c
<1>7. Sound(Fault(b), U) /\ Sound(Fault(c), U)
  BY <1>1, <1>6, FaultSound
<1>8. Sound(Move(c, "CLOSE_ISSUE"), U)
  <2>1. Reconfiguring(c) /\ c.cmd.step = "CHECK_FRONTIER" /\ ~c.cmd.started
    BY <1>6 DEF Reconfiguring, Sound, Cleaning, Draining
  <2>2. "CHECK_FRONTIER" \in Early /\ "CLOSE_ISSUE" \in Early
        /\ "CLOSE_ISSUE" \notin Isolating \cup {"DRAIN_REFERENCES"} /\ "CLOSE_ISSUE" \notin Drained
    BY DEF Early, Draining, Isolating, Drained
  <2> QED
    BY <1>6, <2>1, <2>2, EarlyMove
<1> QED
  BY <1>3, <1>7, <1>8

\* DRAIN_REFERENCES: a quiescent level is in nobody's use.
LEMMA DrainSound ==
    ASSUME NEW b, Sound(b, InUse), Reconfiguring(b), NEW l \in b.cmd.levels,
           b.cmd.step = "DRAIN_REFERENCES", DrainReferences(b, l)
    PROVE  Sound(ctl', InUse)
<1>1. b.cmd.levels = {l} /\ l \in Levels
  BY DEF Sound, Settled, Reconfiguring
<1>2. ctl' = IF Quiescent(b, l) THEN Move(b, "CLEAN_INVALIDATE") ELSE b
  BY DEF DrainReferences
<1>3. ASSUME Quiescent(b, l) PROVE Sound(Move(b, "CLEAN_INVALIDATE"), InUse)
  <2>1. b.cmd.levels \cap InUse = {}
    BY <1>1, <1>3 DEF Quiescent, InUse, UsersAt
  <2>2. b.cmd.issueClosed /\ ~b.cmd.started
    BY DEF Sound, Latched, Cleaning, Reconfiguring, Draining
  <2>3. "DRAIN_REFERENCES" \in Early /\ "CLEAN_INVALIDATE" \in Early /\ "CLEAN_INVALIDATE" \notin Drained
    BY DEF Early, Draining, Drained
  <2> QED
    BY <2>1, <2>2, <2>3, EarlyMove
<1> QED
  BY <1>2, <1>3

\* The controller after a round of the cache maintenance.
Begun(b) ==
    IF b.cmd.started THEN b
    ELSE [b EXCEPT !.cmd.started = TRUE, !.cmd.pending = b.cmd.levels \cap b.dirty]
Issued(c, slots) ==
    [AckWritebacks(c) EXCEPT
        !.cmd.pending = @ \ slots,
        !.cmd.txn = [l \in Levels |-> IF l \in slots THEN "running" ELSE @[l]]]

\* The first round asks for every dirty line of the levels.
LEMMA BegunFields ==
    ASSUME NEW b \in Controller
    PROVE  LET c == Begun(b) IN
           /\ c \in Controller /\ SameProfile(b, c) /\ SameBus(b, c) /\ c.closed = b.closed /\ c.dirty = b.dirty
           /\ SameOrder(b.cmd, c.cmd) /\ SameFlags(b.cmd, c.cmd) /\ SameAcks(b.cmd, c.cmd)
           /\ c.cmd.step = b.cmd.step /\ c.cmd.txn = b.cmd.txn /\ c.cmd.started = TRUE
           /\ c.cmd.pending = IF b.cmd.started THEN b.cmd.pending ELSE b.cmd.levels \cap b.dirty
<1> DEFINE pending == b.cmd.levels \cap b.dirty
           e == [b EXCEPT !.cmd.started = TRUE, !.cmd.pending = pending]
<1>1. b.cmd \in Command /\ b.cmd.started \in BOOLEAN
  BY DEF Controller, Command
<1>2. pending \in SUBSET Levels
  BY <1>1 DEF Command
<1>3. Begun(b) = IF b.cmd.started THEN b ELSE e
  BY DEF Begun
<1>4. CASE b.cmd.started
  BY <1>1, <1>3, <1>4 DEF SameProfile, SameBus, SameOrder, SameFlags, SameAcks
<1>5. CASE ~b.cmd.started
  <2> HIDE DEF pending
  <2>1. e \in Controller
    BY <1>1, <1>2, ZenonT(60) DEF Controller, Command
  <2>2. SameProfile(b, e) /\ SameBus(b, e) /\ e.closed = b.closed /\ e.dirty = b.dirty
    BY DEF Controller, SameProfile, SameBus
  <2>3. e.cmd = [b.cmd EXCEPT !.started = TRUE, !.pending = pending]
    BY DEF Controller
  <2> HIDE DEF e
  <2>4. /\ SameOrder(b.cmd, e.cmd) /\ SameFlags(b.cmd, e.cmd) /\ SameAcks(b.cmd, e.cmd)
        /\ e.cmd.step = b.cmd.step /\ e.cmd.txn = b.cmd.txn /\ e.cmd.started = TRUE /\ e.cmd.pending = pending
    BY <1>1, <2>3 DEF Command, SameOrder, SameFlags, SameAcks
  <2> QED
    BY <1>3, <1>5, <2>1, <2>2, <2>4 DEF pending
<1> QED
  BY <1>4, <1>5

\* A round acknowledges what ended and submits some of the requests.
LEMMA IssuedFields ==
    ASSUME NEW c \in Controller, NEW slots \in SUBSET c.cmd.pending
    PROVE  LET d == Issued(c, slots) IN
           /\ d \in Controller /\ SameProfile(c, d) /\ SameBus(c, d) /\ d.closed = c.closed
           /\ d.dirty = c.dirty \ {l \in Levels : c.cmd.txn[l] = "done"}
           /\ SameOrder(c.cmd, d.cmd) /\ SameFlags(c.cmd, d.cmd) /\ SameAcks(c.cmd, d.cmd)
           /\ d.cmd.step = c.cmd.step /\ d.cmd.started = c.cmd.started
           /\ d.cmd.pending = c.cmd.pending \ slots
           /\ d.cmd.txn = [l \in Levels |->
                 IF l \in slots \/ c.cmd.txn[l] = "running" THEN "running" ELSE "none"]
<1> DEFINE a == AckWritebacks(c)
           pending == a.cmd.pending \ slots
           txn == [l \in Levels |-> IF l \in slots THEN "running" ELSE a.cmd.txn[l]]
           d == [a EXCEPT !.cmd.pending = pending, !.cmd.txn = txn]
<1>1. /\ a \in Controller /\ SameProfile(c, a) /\ SameBus(c, a) /\ a.closed = c.closed
      /\ a.dirty = c.dirty \ {l \in Levels : c.cmd.txn[l] = "done"}
      /\ SameOrder(c.cmd, a.cmd) /\ SameFlags(c.cmd, a.cmd) /\ SameAcks(c.cmd, a.cmd)
      /\ a.cmd.step = c.cmd.step /\ a.cmd.started = c.cmd.started /\ a.cmd.pending = c.cmd.pending
      /\ a.cmd.txn = [l \in Levels |-> IF c.cmd.txn[l] = "running" THEN "running" ELSE "none"]
  BY AckFields, Zenon
<1>2. Issued(c, slots) = d
  BY DEF Issued
<1> HIDE DEF a
<1>3. a.cmd \in Command
  BY <1>1 DEF Controller
<1>4. /\ pending \in SUBSET Levels
      /\ txn \in [Levels -> {"none", "running", "done", "faulted", "cancelled"}]
  BY <1>1, <1>3 DEF Command
<1>5. txn = [l \in Levels |-> IF l \in slots \/ c.cmd.txn[l] = "running" THEN "running" ELSE "none"]
  BY <1>1
<1> HIDE DEF pending, txn
<1>6. d \in Controller
  BY <1>1, <1>3, <1>4, ZenonT(60) DEF Controller, Command
<1>7. SameProfile(a, d) /\ SameBus(a, d) /\ d.closed = a.closed /\ d.dirty = a.dirty
  BY <1>1 DEF Controller, SameProfile, SameBus
<1>8. d.cmd = [a.cmd EXCEPT !.pending = pending, !.txn = txn]
  BY <1>1 DEF Controller
<1> HIDE DEF d
<1>9. /\ SameOrder(a.cmd, d.cmd) /\ SameFlags(a.cmd, d.cmd) /\ SameAcks(a.cmd, d.cmd)
      /\ d.cmd.step = a.cmd.step /\ d.cmd.started = a.cmd.started /\ d.cmd.pending = pending /\ d.cmd.txn = txn
  BY <1>3, <1>8 DEF Command, SameOrder, SameFlags, SameAcks
<1>10. /\ SameProfile(c, d) /\ SameBus(c, d) /\ d.closed = c.closed /\ d.dirty = a.dirty
       /\ SameOrder(c.cmd, d.cmd) /\ SameFlags(c.cmd, d.cmd) /\ SameAcks(c.cmd, d.cmd)
  BY <1>1, <1>7, <1>9 DEF SameProfile, SameBus, SameOrder, SameFlags, SameAcks
<1> QED
  BY <1>1, <1>2, <1>5, <1>6, <1>9, <1>10 DEF pending

\* CLEAN_INVALIDATE of a profile command: no dirty line is forgotten.
LEMMA MaintainSound ==
    ASSUME NEW U, NEW b, Sound(b, U), Reconfiguring(b), ~b.cmd.cancel,
           b.cmd.step = "CLEAN_INVALIDATE", MaintainCaches(b)
    PROVE  Sound(ctl', U)
<1> DEFINE c == Begun(b)
<1>1. b \in Controller /\ b.cmd.kind = "profile" /\ b.cmd.started \in BOOLEAN
  BY DEF Sound, Controller, Command, Reconfiguring
<1>2. PICK slots \in SUBSET c.cmd.pending :
         ctl' = IF WritebackFailed(c) THEN Fault(c)
                ELSE IF CleanupPending(Issued(c, slots).cmd) THEN Issued(c, slots)
                ELSE Move(Issued(c, slots), "DRAIN_DOWNSTREAM")
  BY DEF MaintainCaches, Begun, Issued
<1> DEFINE d == Issued(c, slots)
<1>3. /\ c \in Controller /\ SameProfile(b, c) /\ SameBus(b, c) /\ c.closed = b.closed /\ c.dirty = b.dirty
      /\ SameOrder(b.cmd, c.cmd) /\ SameFlags(b.cmd, c.cmd) /\ SameAcks(b.cmd, c.cmd)
      /\ c.cmd.step = b.cmd.step /\ c.cmd.txn = b.cmd.txn /\ c.cmd.started = TRUE
      /\ c.cmd.pending = IF b.cmd.started THEN b.cmd.pending ELSE b.cmd.levels \cap b.dirty
  BY <1>1, BegunFields, Zenon
<1> HIDE DEF c
<1>4. /\ d \in Controller /\ SameProfile(c, d) /\ SameBus(c, d) /\ d.closed = c.closed
      /\ d.dirty = c.dirty \ {l \in Levels : c.cmd.txn[l] = "done"}
      /\ SameOrder(c.cmd, d.cmd) /\ SameFlags(c.cmd, d.cmd) /\ SameAcks(c.cmd, d.cmd)
      /\ d.cmd.step = c.cmd.step /\ d.cmd.started = c.cmd.started
      /\ d.cmd.pending = c.cmd.pending \ slots
      /\ d.cmd.txn = [l \in Levels |->
            IF l \in slots \/ c.cmd.txn[l] = "running" THEN "running" ELSE "none"]
  BY <1>3, IssuedFields, Zenon
<1> HIDE DEF d
<1>5. c.cmd.levels \cap c.dirty \subseteq c.cmd.pending \cup {l \in Levels : c.cmd.txn[l] # "none"}
  <2>1. CASE b.cmd.started
    BY <1>3, <2>1 DEF Sound, Cleaning, SameOrder
  <2>2. CASE ~b.cmd.started
    BY <1>3, <2>2 DEF SameOrder
  <2> QED
    BY <2>1, <2>2
<1>6. Sound(c, U)
  <2>1. Agreed(c) /\ Acknowledged(c)
    BY <1>3, SameAgreed, SameAcknowledged DEF Sound, SameFlags
  <2>2. Settled(c) /\ Latched(c) /\ Deserted(c, U)
    BY <1>1, <1>3 DEF Sound, Settled, Latched, Deserted, Reconfiguring, SameProfile, SameOrder, SameFlags
  <2>3. Cleaning(c)
    BY <1>3, <1>5 DEF Cleaning, Draining, Drained, Isolating
  <2> QED
    BY <1>3, <2>1, <2>2, <2>3 DEF Sound
<1>7. Sound(Fault(c), U)
  BY <1>1, <1>3, <1>6, FaultSound DEF SameOrder
<1>8. ASSUME ~WritebackFailed(c)
      PROVE  /\ Sound(d, U)
             /\ ~CleanupPending(d.cmd) => Sound(Move(d, "DRAIN_DOWNSTREAM"), U)
  <2>1. \A l \in Levels : c.cmd.txn[l] \in {"none", "running", "done"}
    <3>1. c.cmd.txn \in [Levels -> {"none", "running", "done", "faulted", "cancelled"}]
      BY <1>3 DEF Controller, Command
    <3> QED
      BY <1>8, <3>1 DEF WritebackFailed
  <2>2. c.cmd.levels \subseteq Levels
    BY <1>3 DEF Controller, Command
  <2>3. d.cmd.levels \cap d.dirty \subseteq d.cmd.pending \cup {l \in Levels : d.cmd.txn[l] # "none"}
    BY <1>4, <1>5, <2>1, <2>2 DEF SameOrder
  <2>4. Agreed(d) /\ Acknowledged(d)
    BY <1>4, <1>6, SameAgreed, SameAcknowledged DEF Sound, SameFlags
  <2>5. d.cmd.kind = "profile" /\ d.cmd.step = "CLEAN_INVALIDATE" /\ d.cmd.started = TRUE /\ Reconfiguring(d)
    BY <1>1, <1>3, <1>4 DEF SameOrder, SameFlags, Reconfiguring
  <2>6. Settled(d) /\ Latched(d) /\ Deserted(d, U)
    BY <1>4, <1>6, <2>5 DEF Sound, Settled, Latched, Deserted, Reconfiguring, SameProfile, SameOrder, SameFlags
  <2>7. Cleaning(d)
    BY <2>3, <2>5 DEF Cleaning, Draining, Drained, Isolating
  <2>8. Sound(d, U)
    BY <1>4, <2>4, <2>6, <2>7 DEF Sound
  <2>9. ASSUME ~CleanupPending(d.cmd) PROVE Sound(Move(d, "DRAIN_DOWNSTREAM"), U)
    <3>1. d.cmd.levels \cap d.dirty = {}
      BY <2>3, <2>9 DEF CleanupPending
    <3>2. d.cmd.issueClosed /\ d.cmd.levels \cap U = {}
      BY <2>5, <2>6 DEF Latched, Deserted, Isolating
    <3>3. "CLEAN_INVALIDATE" \in Early /\ "DRAIN_DOWNSTREAM" \in Early
          /\ "DRAIN_DOWNSTREAM" \notin Draining \cup {"CLEAN_INVALIDATE"}
      BY DEF Early, Draining
    <3> QED
      BY <2>5, <2>8, <2>9, <3>1, <3>2, <3>3, EarlyMove
  <2> QED
    BY <2>8, <2>9
<1> QED
  BY <1>2, <1>7, <1>8 DEF d

\* DRAIN_DOWNSTREAM of a profile command.
LEMMA DownstreamSound ==
    ASSUME NEW U, NEW b, Sound(b, U), Reconfiguring(b), b.cmd.step = "DRAIN_DOWNSTREAM", NEW quiescent
    PROVE  Sound(DrainDownstream(b, "PREPARE", quiescent), U)
<1> DEFINE c == AckWritebacks(b)
<1>1. b \in Controller /\ b.cmd.kind = "profile"
  BY DEF Sound, Reconfiguring
<1>2. /\ c \in Controller /\ SameProfile(b, c) /\ SameBus(b, c) /\ c.closed = b.closed
      /\ c.dirty = b.dirty \ {l \in Levels : b.cmd.txn[l] = "done"}
      /\ SameOrder(b.cmd, c.cmd) /\ SameFlags(b.cmd, c.cmd) /\ SameAcks(b.cmd, c.cmd)
      /\ c.cmd.step = b.cmd.step /\ c.cmd.started = b.cmd.started /\ c.cmd.pending = b.cmd.pending
      /\ c.cmd.txn = [l \in Levels |-> IF b.cmd.txn[l] = "running" THEN "running" ELSE "none"]
  BY <1>1, AckFields, Zenon
<1>3. DrainDownstream(b, "PREPARE", quiescent) =
         IF WritebackFailed(b) THEN Fault(b)
         ELSE IF ~CleanupPending(c.cmd) /\ quiescent THEN Move(c, "PREPARE") ELSE c
  BY DEF DrainDownstream
<1> HIDE DEF c
<1>4. "DRAIN_DOWNSTREAM" \in Drained /\ "DRAIN_DOWNSTREAM" \in Isolating
  BY DEF Drained, Isolating
<1>5. ~CleanupPending(b.cmd) /\ b.cmd.levels \cap b.dirty = {}
  BY <1>4 DEF Sound, Cleaning
<1>6. ~CleanupPending(c.cmd) /\ c.cmd.levels \cap c.dirty = {}
  BY <1>2, <1>5 DEF CleanupPending, SameOrder
<1>7. Agreed(c) /\ Acknowledged(c)
  BY <1>2, SameAgreed, SameAcknowledged DEF Sound, SameFlags
<1>8. Settled(c) /\ Latched(c) /\ Deserted(c, U)
  BY <1>1, <1>2 DEF Sound, Settled, Latched, Deserted, Reconfiguring, SameProfile, SameOrder, SameFlags
<1>9. Cleaning(c)
  BY <1>2, <1>6 DEF Cleaning, Draining
<1>10. Sound(c, U)
  BY <1>2, <1>7, <1>8, <1>9 DEF Sound
<1>11. Sound(Fault(b), U)
  BY <1>1, FaultSound
<1>12. Sound(Move(c, "PREPARE"), U)
  <2>1. Reconfiguring(c) /\ c.cmd.step = "DRAIN_DOWNSTREAM" /\ c.cmd.kind = "profile"
    BY <1>1, <1>2 DEF Reconfiguring, SameOrder, SameFlags
  <2>2. c.cmd.issueClosed /\ c.cmd.levels \cap U = {}
    BY <1>4, <1>8, <2>1 DEF Latched, Deserted
  <2>3. "DRAIN_DOWNSTREAM" \in Early /\ "PREPARE" \in Early /\ "PREPARE" \notin Draining \cup {"CLEAN_INVALIDATE"}
    BY DEF Early, Draining
  <2> QED
    BY <1>6, <1>10, <2>1, <2>2, <2>3, EarlyMove
<1> QED
  BY <1>3, <1>10, <1>11, <1>12

\* The controller after a broadcast of the command, at its next step.
Sent(b, l, stage, next) ==
    [b EXCEPT !.requests = @ \o Broadcast({l}, b.cmd.id, stage, b.cmd.target, b.gen), !.cmd.step = next]

\* A broadcast of the command, with what it puts on the bus.
LEMMA SentFields ==
    ASSUME NEW b \in Controller, NEW l \in Levels, NEW stage \in Stages, NEW next \in Steps
    PROVE  LET d == Sent(b, l, stage, next)
           IN  /\ d \in Controller /\ SameProfile(b, d) /\ d.closed = b.closed /\ d.dirty = b.dirty
               /\ SameOrder(b.cmd, d.cmd) /\ SameFlags(b.cmd, d.cmd) /\ SameAcks(b.cmd, d.cmd)
               /\ SameCleaning(b.cmd, d.cmd) /\ d.cmd.step = next
               /\ d.responses = b.responses
               /\ \A i \in DOMAIN d.requests :
                     \/ i \in DOMAIN b.requests /\ d.requests[i] = b.requests[i]
                     \/ /\ d.requests[i].id = b.cmd.id /\ d.requests[i].stage = stage
                        /\ d.requests[i].mode = b.cmd.target /\ LevelOf[d.requests[i].member] = l
                        /\ d.requests[i].gen = b.gen[LevelOf[d.requests[i].member]] + 1
<1> DEFINE B == Broadcast({l}, b.cmd.id, stage, b.cmd.target, b.gen)
           requests == b.requests \o B
           d == [b EXCEPT !.requests = requests, !.cmd.step = next]
<1>1. /\ b.cmd \in Command /\ b.requests \in Seq(BusRequest) /\ b.gen \in [Levels -> Nat]
      /\ b.cmd.id \in Ids /\ b.cmd.target \in Modes
  BY DEF Controller, Command, Ids
<1>2. /\ B \in Seq(BusRequest)
      /\ \A i \in DOMAIN B : /\ B[i].id = b.cmd.id /\ B[i].stage = stage /\ B[i].mode = b.cmd.target
                             /\ LevelOf[B[i].member] = l /\ B[i].gen = b.gen[LevelOf[B[i].member]] + 1
  <2> DEFINE ls == {l}
             id == b.cmd.id
             mode == b.cmd.target
             gen == b.gen
  <2>1. ls \in SUBSET Levels /\ id \in Ids /\ mode \in Modes /\ gen \in [Levels -> Nat]
    BY <1>1
  <2>2. B = Broadcast(ls, id, stage, mode, gen) /\ \A k \in ls : k = l
    OBVIOUS
  <2> HIDE DEF ls, id, mode, gen
  <2>3. LET C == Broadcast(ls, id, stage, mode, gen) IN
        /\ C \in Seq(BusRequest)
        /\ \A i \in DOMAIN C : /\ C[i].id = id /\ C[i].stage = stage /\ C[i].mode = mode
                               /\ LevelOf[C[i].member] \in ls /\ C[i].gen = gen[LevelOf[C[i].member]] + 1
    BY <2>1, BroadcastFacts
  <2> HIDE DEF B
  <2> QED
    BY <2>2, <2>3 DEF id, mode, gen
<1>3. Sent(b, l, stage, next) = d
  BY DEF Sent
<1> HIDE DEF B
<1>4. /\ requests \in Seq(BusRequest)
      /\ \A i \in DOMAIN requests : \/ i \in DOMAIN b.requests /\ requests[i] = b.requests[i]
                                    \/ \E j \in DOMAIN B : requests[i] = B[j]
  <2>1. /\ requests \in Seq(BusRequest) /\ Len(requests) = Len(b.requests) + Len(B)
        /\ \A i \in 1 .. Len(requests) :
              requests[i] = IF i <= Len(b.requests) THEN b.requests[i] ELSE B[i - Len(b.requests)]
    BY <1>1, <1>2
  <2>2. Len(b.requests) \in Nat /\ Len(B) \in Nat /\ DOMAIN b.requests = 1 .. Len(b.requests)
        /\ DOMAIN B = 1 .. Len(B) /\ DOMAIN requests = 1 .. Len(requests)
    BY <1>1, <1>2, <2>1
  <2> HIDE DEF requests
  <2>3. ASSUME NEW i \in DOMAIN requests, ~(i <= Len(b.requests)) PROVE i - Len(b.requests) \in DOMAIN B
    BY <2>1, <2>2, <2>3
  <2>4. ASSUME NEW i \in DOMAIN requests, i <= Len(b.requests) PROVE i \in DOMAIN b.requests
    BY <2>2, <2>4
  <2> QED
    BY <2>1, <2>2, <2>3, <2>4
<1> HIDE DEF requests
<1>5. d \in Controller
  BY <1>1, <1>4, ZenonT(60) DEF Controller, Command
<1>6. /\ SameProfile(b, d) /\ d.closed = b.closed /\ d.dirty = b.dirty
      /\ d.responses = b.responses /\ d.requests = requests
  BY DEF Controller, SameProfile
<1>7. d.cmd = [b.cmd EXCEPT !.step = next]
  BY DEF Controller
<1> HIDE DEF d
<1>8. /\ SameOrder(b.cmd, d.cmd) /\ SameFlags(b.cmd, d.cmd) /\ SameAcks(b.cmd, d.cmd)
      /\ SameCleaning(b.cmd, d.cmd) /\ d.cmd.step = next
  BY <1>1, <1>7 DEF Command, SameOrder, SameFlags, SameAcks, SameCleaning
<1>9. \A i \in DOMAIN d.requests :
         \/ i \in DOMAIN b.requests /\ d.requests[i] = b.requests[i]
         \/ /\ d.requests[i].id = b.cmd.id /\ d.requests[i].stage = stage
            /\ d.requests[i].mode = b.cmd.target /\ LevelOf[d.requests[i].member] = l
            /\ d.requests[i].gen = b.gen[LevelOf[d.requests[i].member]] + 1
  BY <1>2, <1>4, <1>6
<1> QED
  BY <1>3, <1>5, <1>6, <1>8, <1>9

\* PREPARE and COMMIT put the requests of the command on the bus.
LEMMA SentSound ==
    ASSUME NEW U, NEW b, Sound(b, U), Reconfiguring(b), NEW l \in b.cmd.levels,
           NEW stage, NEW next,
           \/ b.cmd.step = "PREPARE" /\ stage = "PREPARE" /\ next = "WAIT_READY_ACK"
           \/ b.cmd.step = "COMMIT" /\ stage = "COMMIT" /\ next = "WAIT_COMMIT_ACK"
    PROVE  Sound(Sent(b, l, stage, next), U)
<1> DEFINE d == Sent(b, l, stage, next)
<1>1. b \in Controller /\ b.cmd.kind = "profile" /\ b.cmd.levels = {l} /\ l \in Levels
  BY DEF Sound, Settled, Reconfiguring
<1>2. stage \in Stages /\ next \in Steps
  BY DEF Stages, Steps
<1>3. /\ d \in Controller /\ SameProfile(b, d) /\ d.closed = b.closed /\ d.dirty = b.dirty
      /\ SameOrder(b.cmd, d.cmd) /\ SameFlags(b.cmd, d.cmd) /\ SameAcks(b.cmd, d.cmd)
      /\ SameCleaning(b.cmd, d.cmd) /\ d.cmd.step = next
      /\ d.responses = b.responses
      /\ \A i \in DOMAIN d.requests :
            \/ i \in DOMAIN b.requests /\ d.requests[i] = b.requests[i]
            \/ /\ d.requests[i].id = b.cmd.id /\ d.requests[i].stage = stage
               /\ d.requests[i].mode = b.cmd.target /\ LevelOf[d.requests[i].member] = l
               /\ d.requests[i].gen = b.gen[LevelOf[d.requests[i].member]] + 1
  BY <1>1, <1>2, SentFields
<1> HIDE DEF d
<1>4. Agreed(d)
  BY <1>3, SameAgreed DEF Sound
<1>5. CleanupPending(d.cmd) = CleanupPending(b.cmd)
  BY <1>3 DEF CleanupPending, SameCleaning
<1>6. /\ b.cmd.step \in Isolating /\ b.cmd.step \in Drained /\ b.cmd.step # "RELEASE"
      /\ next \in Isolating /\ next \in Drained /\ next # "RELEASE"
      /\ next \in Acking /\ next \notin Draining /\ next # "CLEAN_INVALIDATE"
      /\ next \notin {"CLEAN_INVALIDATE", "DRAIN_DOWNSTREAM", "PREPARE"}
  BY DEF Isolating, Drained, Acking, Draining
<1>7. Settled(d) /\ Latched(d) /\ Deserted(d, U)
  BY <1>1, <1>3, <1>5, <1>6 DEF Sound, Settled, Latched, Deserted, Reconfiguring, SameProfile, SameOrder, SameFlags
<1>8. Cleaning(d)
  BY <1>3, <1>5, <1>6 DEF Sound, Cleaning, Reconfiguring, SameOrder, SameCleaning
<1>9. Acknowledged(d)
  <2>1. /\ \A m : Prepared(d, m) = Prepared(b, m)
        /\ \A m : ShadowConfirmed(d, m) = ShadowConfirmed(b, m)
    BY <1>3 DEF Prepared, ShadowConfirmed, SameProfile, SameOrder
  <2>2. Acknowledged(b)
    BY DEF Sound
  <2>3. CASE b.cmd.step = "PREPARE" /\ stage = "PREPARE" /\ next = "WAIT_READY_ACK"
    <3>1. b.requests = <<>> /\ b.responses = {} /\ b.cmd.ready = {} /\ b.cmd.committed = {}
      BY <2>2, <2>3 DEF Acknowledged
    <3>2. \A i \in DOMAIN d.requests : OwnRequest(d, d.requests[i])
      BY <1>1, <1>3, <2>3, <3>1 DEF OwnRequest, SameOrder, SameProfile
    <3> QED
      BY <1>3, <1>6, <2>3, <3>1, <3>2 DEF Acknowledged, SameAcks
  <2>4. CASE b.cmd.step = "COMMIT" /\ stage = "COMMIT" /\ next = "WAIT_COMMIT_ACK"
    <3>1. /\ \A i \in DOMAIN b.requests : OwnRequest(b, b.requests[i])
          /\ \A r \in b.responses : OwnResponse(b, r)
          /\ \A m \in b.cmd.ready : Prepared(b, m)
          /\ \A m \in b.cmd.committed : ShadowConfirmed(b, m)
          /\ \A m \in MembersOf[l] : Prepared(b, m)
      BY <1>1, <2>2, <2>4 DEF Acknowledged, Acking
    <3>2. \A i \in DOMAIN d.requests : OwnRequest(d, d.requests[i])
      BY <1>1, <1>3, <2>4, <3>1 DEF OwnRequest, SameOrder, SameProfile
    <3>3. \A r \in d.responses : OwnResponse(d, r)
      BY <1>3, <2>1, <2>4, <3>1 DEF OwnResponse, SameOrder
    <3> QED
      BY <1>1, <1>3, <1>6, <2>1, <2>4, <3>1, <3>2, <3>3 DEF Acknowledged, SameAcks, SameOrder
  <2> QED
    BY <2>3, <2>4
<1>10. Sound(d, U)
  BY <1>3, <1>4, <1>7, <1>8, <1>9 DEF Sound
<1> QED
  BY <1>10 DEF d

\* WAIT_READY_ACK: every member of the level has answered, so all are prepared.
LEMMA ReadySound ==
    ASSUME NEW U, NEW b, Sound(b, U), Reconfiguring(b), NEW l \in b.cmd.levels,
           b.cmd.step = "WAIT_READY_ACK", WaitReadyAck(b, l)
    PROVE  Sound(ctl', U)
<1> DEFINE d == Move(b, "COMMIT")
<1>1. b \in Controller /\ b.cmd.kind = "profile" /\ b.cmd.levels = {l} /\ "COMMIT" \in Steps
  BY DEF Sound, Settled, Reconfiguring, Steps
<1>2. /\ d \in Controller /\ SameProfile(b, d) /\ SameBus(b, d) /\ d.closed = b.closed /\ d.dirty = b.dirty
      /\ SameOrder(b.cmd, d.cmd) /\ SameFlags(b.cmd, d.cmd) /\ SameAcks(b.cmd, d.cmd)
      /\ SameCleaning(b.cmd, d.cmd) /\ d.cmd.step = "COMMIT"
  BY <1>1, MoveFields, Zenon
<1>3. ctl' = IF b.cmd.ready = MembersOf[l] THEN d ELSE b
  BY DEF WaitReadyAck
<1> HIDE DEF d
<1>4. ASSUME b.cmd.ready = MembersOf[l] PROVE Sound(d, U)
  <2>1. Agreed(d)
    BY <1>2, SameAgreed DEF Sound
  <2>2. CleanupPending(d.cmd) = CleanupPending(b.cmd)
    BY <1>2 DEF CleanupPending, SameCleaning
  <2>3. Settled(d) /\ Latched(d) /\ Deserted(d, U)
    BY <1>1, <1>2, <2>2 DEF Sound, Settled, Latched, Deserted, Reconfiguring, Isolating, SameProfile, SameOrder, SameFlags
  <2>4. Cleaning(d)
    BY <1>2, <2>2 DEF Sound, Cleaning, Reconfiguring, Draining, Drained, Isolating, SameOrder, SameCleaning
  <2>5. /\ \A m : Prepared(d, m) = Prepared(b, m)
        /\ \A m : ShadowConfirmed(d, m) = ShadowConfirmed(b, m)
    BY <1>2 DEF Prepared, ShadowConfirmed, SameProfile, SameOrder
  <2>6. /\ \A i \in DOMAIN b.requests : OwnRequest(b, b.requests[i])
        /\ \A r \in b.responses : OwnResponse(b, r)
        /\ \A m \in b.cmd.ready : Prepared(b, m)
        /\ b.cmd.committed = {}
    BY DEF Sound, Acknowledged, Acking
  <2>7. \A i \in DOMAIN d.requests : OwnRequest(d, d.requests[i])
    BY <1>2, <2>6 DEF OwnRequest, SameOrder, SameProfile, SameBus
  <2>8. \A r \in d.responses : OwnResponse(d, r)
    BY <1>2, <2>5, <2>6 DEF OwnResponse, SameOrder, SameBus
  <2>9. \A k \in d.cmd.levels : \A m \in MembersOf[k] : Prepared(d, m)
    BY <1>1, <1>2, <1>4, <2>5, <2>6 DEF SameOrder
  <2>10. Acknowledged(d)
    BY <1>2, <2>5, <2>6, <2>7, <2>8, <2>9 DEF Acknowledged, Draining, SameAcks
  <2> QED
    BY <1>2, <2>1, <2>3, <2>4, <2>10 DEF Sound
<1> QED
  BY <1>3, <1>4

\* No command has the identifier of a submitted one.
LEMMA NoIdType == NoId \in Ids /\ NoId \in 0 .. MaxCommands
BY ProfileAssumption DEF NoId, Ids, MaxCommands

\* The members of a level take over the new profile.
LEMMA SwitchFields ==
    ASSUME NEW c \in Controller, NEW l \in Levels, NEW mode \in Modes,
           NEW d, d = SwitchMembers(InstallComponents(c, l), l, mode)
    PROVE  /\ d \in Controller /\ d.phase = c.phase /\ SameBus(c, d) /\ d.closed = c.closed /\ d.dirty = c.dirty
           /\ d.cmd = c.cmd
           /\ d.mode[l] = mode /\ d.gen[l] = c.gen[l] + 1 /\ d.installed[l] = c.gen[l] + 1
           /\ \A k \in Levels \ {l} : d.mode[k] = c.mode[k] /\ d.gen[k] = c.gen[k] /\ d.installed[k] = c.installed[k]
           /\ \A m \in MembersOf[l] : d.member[m].mode = mode /\ d.member[m].gen = c.gen[l] + 1
           /\ \A m \in Members \ MembersOf[l] : d.member[m] = c.member[m]
<1> DEFINE installed == [c.installed EXCEPT ![l] = c.gen[l] + 1]
           gen == [c.gen EXCEPT ![l] = @ + 1]
           modes == [c.mode EXCEPT ![l] = mode]
           n == c.gen[l] + 1
           Switched(x) == [x EXCEPT !.mode = mode, !.gen = n, !.prepared = NoId, !.committed = NoId]
           member == [m \in Members |-> IF m \in MembersOf[l] THEN Switched(c.member[m]) ELSE c.member[m]]
           f == [c EXCEPT !.installed = installed, !.mode = modes, !.gen = gen, !.member = member]
<1>1. /\ c.gen \in [Levels -> Nat] /\ c.installed \in [Levels -> Nat] /\ c.mode \in [Levels -> Modes]
      /\ c.member \in [Members -> Bank] /\ n \in Nat /\ NoId \in Ids
  BY NoIdType DEF Controller
<1>2. installed \in [Levels -> Nat] /\ gen \in [Levels -> Nat] /\ modes \in [Levels -> Modes]
  BY <1>1
<1>3. \A x \in Bank : Switched(x) \in Bank /\ Switched(x).mode = mode /\ Switched(x).gen = n
  BY <1>1 DEF Bank
<1>4. d = f
  <2> DEFINE e == InstallComponents(c, l)
  <2>1. e = [c EXCEPT !.installed = installed]
    BY DEF InstallComponents, Controller
  <2>2. e.mode = c.mode /\ e.gen = c.gen /\ e.member = c.member
    BY <2>1 DEF Controller
  <2> HIDE DEF e, installed
  <2>3. SwitchMembers(e, l, mode) =
           [e EXCEPT !.mode[l] = mode, !.gen[l] = @ + 1, !.member = [m \in Members |->
               IF m \in MembersOf[l]
               THEN [@[m] EXCEPT !.mode = mode, !.gen = e.gen[l] + 1, !.prepared = NoId, !.committed = NoId]
               ELSE @[m]]]
    BY DEF SwitchMembers
  <2>4. SwitchMembers(e, l, mode) =
           [e EXCEPT !.mode = [e.mode EXCEPT ![l] = mode], !.gen = [e.gen EXCEPT ![l] = @ + 1],
                     !.member = [m \in Members |->
               IF m \in MembersOf[l]
               THEN [e.member[m] EXCEPT !.mode = mode, !.gen = e.gen[l] + 1, !.prepared = NoId, !.committed = NoId]
               ELSE e.member[m]]]
    BY <2>1, <2>3, Zenon DEF Controller
  <2>5. SwitchMembers(e, l, mode) = [e EXCEPT !.mode = modes, !.gen = gen, !.member = member]
    BY <2>2, <2>4, Zenon
  <2> QED
    BY <2>1, <2>5 DEF e
<1>5. member \in [Members -> Bank]
  BY <1>1, <1>3
<1>6. /\ \A m \in MembersOf[l] : member[m].mode = mode /\ member[m].gen = n
      /\ \A m \in Members \ MembersOf[l] : member[m] = c.member[m]
  BY <1>1, <1>3, LevelFacts
<1> HIDE DEF installed, gen, modes, member, n
<1>7. f \in Controller
  BY <1>2, <1>5, Zenon DEF Controller
<1>8. /\ f.phase = c.phase /\ SameBus(c, f) /\ f.closed = c.closed /\ f.dirty = c.dirty /\ f.cmd = c.cmd
      /\ f.mode = modes /\ f.gen = gen /\ f.installed = installed /\ f.member = member
  BY DEF Controller, SameBus
<1> HIDE DEF f
<1>9. /\ d.mode[l] = mode /\ d.gen[l] = c.gen[l] + 1 /\ d.installed[l] = c.gen[l] + 1
      /\ \A k \in Levels \ {l} : d.mode[k] = c.mode[k] /\ d.gen[k] = c.gen[k] /\ d.installed[k] = c.installed[k]
      /\ \A m \in MembersOf[l] : d.member[m].mode = mode /\ d.member[m].gen = c.gen[l] + 1
      /\ \A m \in Members \ MembersOf[l] : d.member[m] = c.member[m]
  BY <1>1, <1>4, <1>6, <1>8 DEF modes, gen, installed, n
<1> QED
  BY <1>4, <1>7, <1>8, <1>9

\* A switch of one level keeps the components and the members in agreement.
LEMMA SwitchAgreed ==
    ASSUME NEW c \in Controller, NEW l \in Levels, NEW mode \in Modes, Agreed(c)
    PROVE  Agreed(SwitchMembers(InstallComponents(c, l), l, mode))
<1> DEFINE d == SwitchMembers(InstallComponents(c, l), l, mode)
<1>1. /\ d.mode[l] = mode /\ d.gen[l] = c.gen[l] + 1 /\ d.installed[l] = c.gen[l] + 1
      /\ \A k \in Levels \ {l} : d.mode[k] = c.mode[k] /\ d.gen[k] = c.gen[k] /\ d.installed[k] = c.installed[k]
      /\ \A m \in MembersOf[l] : d.member[m].mode = mode /\ d.member[m].gen = c.gen[l] + 1
      /\ \A m \in Members \ MembersOf[l] : d.member[m] = c.member[m]
  BY SwitchFields
<1>2. c.gen \in [Levels -> Nat] /\ c.installed \in [Levels -> Nat] /\ c.mode \in [Levels -> Modes]
  BY DEF Controller
<1> HIDE DEF d
<1>3. ASSUME NEW k \in Levels
      PROVE  /\ d.installed[k] = d.gen[k]
             /\ \A m \in MembersOf[k] : d.member[m].mode = d.mode[k] /\ d.member[m].gen = d.gen[k]
  <2>1. CASE k = l
    BY <1>1, <1>2, <2>1
  <2>2. CASE k # l
    <3>1. d.installed[k] = c.installed[k] /\ d.gen[k] = c.gen[k] /\ d.mode[k] = c.mode[k]
      BY <1>1, <1>2, <2>2
    <3>2. \A m \in MembersOf[k] : d.member[m] = c.member[m]
      BY <1>1, <2>2, LevelFacts
    <3> QED
      BY <3>1, <3>2 DEF Agreed
  <2> QED
    BY <2>1, <2>2
<1> QED
  BY <1>3 DEF Agreed, d

\* While the last acknowledgements are awaited the level can be installed.
LEMMA CanPublish ==
    ASSUME NEW b, Sound(b, InUse), leases \in Nat, Reconfiguring(b), NEW l \in b.cmd.levels,
           b.cmd.step = "WAIT_COMMIT_ACK"
    PROVE  CanInstall(b, l)
<1>1. l \in Levels /\ b.gen \in [Levels -> Nat]
  BY DEF Sound, Controller, Command
<1>2. "WAIT_COMMIT_ACK" \in Isolating /\ "WAIT_COMMIT_ACK" \in Drained
  BY DEF Isolating, Drained
<1>3. l \notin InUse /\ ~CleanupPending(b.cmd) /\ l \notin b.dirty
  BY <1>2 DEF Sound, Deserted, Cleaning
<1>4. ComponentsReady(b, l)
  BY <1>1, <1>3, Ready
<1>5. b.gen[l] + 1 > b.installed[l]
  BY <1>1 DEF Sound, Agreed
<1> QED
  BY <1>3, <1>4, <1>5 DEF CanInstall

\* _publish_profile after the last acknowledgement.
LEMMA PublishSound ==
    ASSUME NEW b, Sound(b, InUse), leases \in Nat, Reconfiguring(b), NEW l \in b.cmd.levels,
           b.cmd.step = "WAIT_COMMIT_ACK", b.cmd.committed = MembersOf[l]
    PROVE  Sound(Publish(b, l), InUse)
<1> DEFINE mode == b.cmd.target
           c == SwitchMembers(InstallComponents(b, l), l, mode)
           d == Move(c, "OPEN_ISSUE")
<1>1. b \in Controller /\ b.cmd.kind = "profile" /\ l \in Levels /\ mode \in Modes /\ Agreed(b)
  BY DEF Sound, Controller, Command, Reconfiguring
<1>2. CanInstall(b, l) /\ \A m \in MembersOf[l] : ShadowConfirmed(b, m)
  BY CanPublish DEF Sound, Acknowledged, Acking
<1>3. Publish(b, l) = d
  BY <1>2 DEF Publish, Move
<1>4. /\ c \in Controller /\ c.phase = b.phase /\ c.closed = b.closed /\ c.dirty = b.dirty /\ c.cmd = b.cmd
      /\ Agreed(c)
  <2>1. c = SwitchMembers(InstallComponents(b, l), l, mode)
    OBVIOUS
  <2> HIDE DEF c, mode
  <2>2. c \in Controller /\ c.phase = b.phase /\ c.closed = b.closed /\ c.dirty = b.dirty /\ c.cmd = b.cmd
    BY <1>1, <2>1, SwitchFields
  <2>3. Agreed(c)
    BY <1>1, <2>1, SwitchAgreed
  <2> QED
    BY <2>2, <2>3
<1> HIDE DEF c
<1>5. /\ d \in Controller /\ SameProfile(c, d) /\ d.closed = c.closed /\ d.dirty = c.dirty
      /\ SameOrder(c.cmd, d.cmd) /\ SameFlags(c.cmd, d.cmd) /\ SameCleaning(c.cmd, d.cmd)
      /\ d.cmd.step = "OPEN_ISSUE"
  <2>1. "OPEN_ISSUE" \in Steps
    BY DEF Steps
  <2> QED
    BY <1>4, <2>1, MoveFields, Zenon
<1> HIDE DEF d
<1>6. Agreed(d)
  BY <1>4, <1>5, SameAgreed
<1>7. "WAIT_COMMIT_ACK" \in Isolating /\ "WAIT_COMMIT_ACK" \in Drained
  BY DEF Isolating, Drained
<1>8. CleanupPending(d.cmd) = CleanupPending(b.cmd)
  BY <1>4, <1>5 DEF CleanupPending, SameCleaning
<1>9. Settled(d) /\ Latched(d) /\ Deserted(d, InUse)
  BY <1>1, <1>4, <1>5, <1>7 DEF Sound, Settled, Latched, Deserted, Reconfiguring, SameProfile, SameOrder, SameFlags
<1>10. Cleaning(d)
  BY <1>4, <1>5, <1>7, <1>8 DEF Sound, Cleaning, Reconfiguring, Draining, SameOrder, SameCleaning
<1>11. Acknowledged(d)
  BY <1>5 DEF Acknowledged, Draining, Acking
<1>12. Sound(d, InUse)
  BY <1>5, <1>6, <1>9, <1>10, <1>11 DEF Sound
<1> QED
  BY <1>3, <1>12

\* OPEN_ISSUE opens the gate of the level.
LEMMA OpenSound ==
    ASSUME NEW U, NEW b, Sound(b, U), Reconfiguring(b), NEW l \in Levels, b.cmd.step = "OPEN_ISSUE"
    PROVE  Sound([b EXCEPT !.closed = @ \ {l}, !.cmd.step = "RELEASE"], U)
<1> DEFINE closed == b.closed \ {l}
           d == [b EXCEPT !.closed = closed, !.cmd.step = "RELEASE"]
<1>1. b \in Controller /\ b.cmd \in Command /\ b.cmd.kind = "profile" /\ b.cmd.state \in Live
  BY DEF Sound, Controller, Reconfiguring
<1>2. closed \in SUBSET Levels
  BY <1>1 DEF Controller
<1> HIDE DEF closed
<1>3. d \in Controller
  BY <1>1, <1>2, ZenonT(60) DEF Controller, Command, Steps
<1>4. SameProfile(b, d) /\ d.dirty = b.dirty
  BY <1>1 DEF Controller, SameProfile
<1>5. d.cmd = [b.cmd EXCEPT !.step = "RELEASE"]
  BY <1>1 DEF Controller
<1> HIDE DEF d
<1>6. /\ SameOrder(b.cmd, d.cmd) /\ SameFlags(b.cmd, d.cmd) /\ SameCleaning(b.cmd, d.cmd)
      /\ d.cmd.step = "RELEASE"
  BY <1>1, <1>5 DEF Command, SameOrder, SameFlags, SameCleaning
<1>7. Agreed(d)
  BY <1>4, SameAgreed DEF Sound
<1>8. CleanupPending(d.cmd) = CleanupPending(b.cmd)
  BY <1>6 DEF CleanupPending, SameCleaning
<1>9. Settled(d) /\ Latched(d) /\ Deserted(d, U)
  BY <1>1, <1>4, <1>6, <1>8
     DEF Sound, Settled, Latched, Deserted, Live, Isolating, SameProfile, SameOrder, SameFlags
<1>10. Cleaning(d) /\ Acknowledged(d)
  BY <1>6, <1>8 DEF Sound, Cleaning, Acknowledged, Reconfiguring, Draining, Drained, Isolating, Acking, SameCleaning
<1>11. Sound(d, U)
  BY <1>3, <1>7, <1>9, <1>10 DEF Sound
<1> QED
  BY <1>11 DEF d, closed

\* RELEASE completes the command.
LEMMA CompleteSound ==
    ASSUME NEW U, NEW b, Sound(b, U), b.cmd.kind # "none", b.cmd.kind = "profile" => b.cmd.step = "RELEASE"
    PROVE  Sound([b EXCEPT !.cmd.state = "completed"], U)
<1> DEFINE d == [b EXCEPT !.cmd.state = "completed"]
<1>1. b \in Controller /\ b.cmd \in Command
  BY DEF Sound, Controller
<1>2. d \in Controller
  BY <1>1, ZenonT(60) DEF Controller, Command, Terminal
<1>3. SameProfile(b, d) /\ d.closed = b.closed /\ d.cmd = [b.cmd EXCEPT !.state = "completed"]
  BY <1>1 DEF Controller, SameProfile
<1> HIDE DEF d
<1>4. /\ SameOrder(b.cmd, d.cmd) /\ d.cmd.state = "completed" /\ d.cmd.step = b.cmd.step
      /\ d.cmd.issueClosed = b.cmd.issueClosed
  BY <1>1, <1>3 DEF Command, SameOrder
<1>5. d.cmd.kind # "none" /\ d.cmd.state \notin Live /\ Latched(d)
  BY <1>3, <1>4 DEF Sound, Latched, Live, SameOrder
<1>6. Sound(d, U)
  BY <1>2, <1>3, <1>4, <1>5, Ended
<1> QED
  BY <1>6 DEF d

\* _step_profile
LEMMA StepProfileSound ==
    ASSUME NEW b, Sound(b, InUse), leases \in Nat, Reconfiguring(b), ~b.cmd.cancel, StepProfile(b)
    PROVE  Sound(ctl', InUse)
<1>1. b.cmd.levels \subseteq Levels /\ b.cmd.kind = "profile" /\ b.cmd.kind # "none"
  BY DEF Sound, Controller, Command, Reconfiguring
<1>2. PICK l \in b.cmd.levels :
        \/ b.cmd.step = "ACQUIRE" /\ ctl' = Move(b, "CHECK_FRONTIER")
        \/ b.cmd.step = "CHECK_FRONTIER" /\ CheckFrontier(b, l)
        \/ /\ b.cmd.step = "CLOSE_ISSUE"
           /\ ctl' = [b EXCEPT !.closed = @ \cup {l}, !.cmd.issueClosed = TRUE, !.cmd.step = "DRAIN_REFERENCES"]
        \/ b.cmd.step = "DRAIN_REFERENCES" /\ DrainReferences(b, l)
        \/ b.cmd.step = "CLEAN_INVALIDATE" /\ MaintainCaches(b)
        \/ b.cmd.step = "DRAIN_DOWNSTREAM" /\ ctl' = DrainDownstream(b, "PREPARE", Quiescent(AckWritebacks(b), l))
        \/ b.cmd.step = "PREPARE" /\ ctl' = Sent(b, l, "PREPARE", "WAIT_READY_ACK")
        \/ b.cmd.step = "WAIT_READY_ACK" /\ WaitReadyAck(b, l)
        \/ b.cmd.step = "COMMIT" /\ ctl' = Sent(b, l, "COMMIT", "WAIT_COMMIT_ACK")
        \/ /\ b.cmd.step = "WAIT_COMMIT_ACK"
           /\ ctl' = IF b.cmd.committed = MembersOf[l] THEN Publish(b, l) ELSE b
        \/ b.cmd.step = "OPEN_ISSUE" /\ ctl' = [b EXCEPT !.closed = @ \ {l}, !.cmd.step = "RELEASE"]
        \/ b.cmd.step = "RELEASE" /\ ctl' = [b EXCEPT !.cmd.state = "completed"]
  BY DEF StepProfile, Sent, Commit
<1>3. CASE b.cmd.step = "ACQUIRE" /\ ctl' = Move(b, "CHECK_FRONTIER")
  <2>1. "ACQUIRE" \in Early /\ "CHECK_FRONTIER" \in Early
        /\ "CHECK_FRONTIER" \notin Isolating \cup {"DRAIN_REFERENCES"} /\ "CHECK_FRONTIER" \notin Drained
    BY DEF Early, Draining, Isolating, Drained
  <2>2. ~b.cmd.started
    BY <1>3 DEF Sound, Cleaning, Draining
  <2> QED
    BY <1>3, <2>1, <2>2, EarlyMove
<1>4. CASE b.cmd.step = "CHECK_FRONTIER" /\ CheckFrontier(b, l)
  BY <1>4, FrontierSound
<1>5. CASE /\ b.cmd.step = "CLOSE_ISSUE"
           /\ ctl' = [b EXCEPT !.closed = @ \cup {l}, !.cmd.issueClosed = TRUE, !.cmd.step = "DRAIN_REFERENCES"]
  BY <1>5, CloseSound, Zenon
<1>6. CASE b.cmd.step = "DRAIN_REFERENCES" /\ DrainReferences(b, l)
  BY <1>6, DrainSound
<1>7. CASE b.cmd.step = "CLEAN_INVALIDATE" /\ MaintainCaches(b)
  BY <1>7, MaintainSound
<1>8. CASE b.cmd.step = "DRAIN_DOWNSTREAM" /\ ctl' = DrainDownstream(b, "PREPARE", Quiescent(AckWritebacks(b), l))
  BY <1>8, DownstreamSound, Zenon
<1>9. CASE \/ b.cmd.step = "PREPARE" /\ ctl' = Sent(b, l, "PREPARE", "WAIT_READY_ACK")
           \/ b.cmd.step = "COMMIT" /\ ctl' = Sent(b, l, "COMMIT", "WAIT_COMMIT_ACK")
  BY <1>9, SentSound
<1>10. CASE b.cmd.step = "WAIT_READY_ACK" /\ WaitReadyAck(b, l)
  BY <1>10, ReadySound
<1>11. CASE /\ b.cmd.step = "WAIT_COMMIT_ACK"
            /\ ctl' = IF b.cmd.committed = MembersOf[l] THEN Publish(b, l) ELSE b
  BY <1>11, PublishSound
<1>12. CASE b.cmd.step = "OPEN_ISSUE" /\ ctl' = [b EXCEPT !.closed = @ \ {l}, !.cmd.step = "RELEASE"]
  BY <1>1, <1>12, OpenSound, Zenon
<1>13. CASE b.cmd.step = "RELEASE" /\ ctl' = [b EXCEPT !.cmd.state = "completed"]
  BY <1>1, <1>13, CompleteSound, Zenon
<1> QED
  BY <1>2, <1>3, <1>4, <1>5, <1>6, <1>7, <1>8, <1>9, <1>10, <1>11, <1>12, <1>13

-----------------------------------------------------------------------------
(* The second half of a step: maintenance, cancellation and recovery.      *)

\* _step_maintenance
LEMMA StepMaintenanceSound ==
    ASSUME NEW U, NEW b, Sound(b, U), b.cmd.kind = "maintenance", StepMaintenance(b)
    PROVE  Sound(ctl', U)
<1>1. b \in Controller /\ b.cmd \in Command /\ b.cmd.levels \subseteq Levels
  BY DEF Sound, Controller, Command
<1>2. ASSUME NEW t \in Steps PROVE Sound(Move(b, t), U)
  <2> DEFINE d == Move(b, t)
  <2>1. d \in Controller /\ SameProfile(b, d) /\ SameOrder(b.cmd, d.cmd)
    BY <1>1, MoveFields, Zenon
  <2> HIDE DEF d
  <2>2. Sound(d, U)
    BY <2>1, Maintained DEF SameOrder
  <2> QED
    BY <2>2 DEF d
<1>3. Sound(Fault(b), U)
  BY FaultSound
<1>4. CASE ctl' = [b EXCEPT !.used = IF b.cmd.owner = "context" THEN @ ELSE @ \cup {"dependency"},
                            !.cmd.step = "BLOCK_RANGE_ISSUE"]
  <2> DEFINE used == IF b.cmd.owner = "context" THEN b.used ELSE b.used \cup {"dependency"}
             d == [b EXCEPT !.used = used, !.cmd.step = "BLOCK_RANGE_ISSUE"]
  <2>1. used \in SUBSET (Levels \cup {"dependency"})
    BY <1>1 DEF Controller
  <2>2. ctl' = d
    BY <1>4
  <2> HIDE DEF used
  <2>3. d \in Controller
    <3> DEFINE c == [b EXCEPT !.used = used]
    <3>1. c \in Controller
      BY <1>1, <2>1, Zenon DEF Controller
    <3>2. d = Move(c, "BLOCK_RANGE_ISSUE")
      BY <1>1 DEF Controller, Move
    <3>3. "BLOCK_RANGE_ISSUE" \in Steps
      BY DEF Steps
    <3> HIDE DEF c, d
    <3> QED
      BY <3>1, <3>2, <3>3, MoveFields, Zenon
  <2>4. SameProfile(b, d) /\ d.cmd.kind = b.cmd.kind
    BY <1>1 DEF Controller, Command, SameProfile
  <2> HIDE DEF d
  <2> QED
    BY <2>2, <2>3, <2>4, Maintained
<1>5. CASE ctl' = [b EXCEPT !.ranges = @ \cup b.cmd.levels, !.cmd.issueClosed = TRUE,
                            !.cmd.step = "DRAIN_RANGE_REFERENCES"]
  <2> DEFINE ranges == b.ranges \cup b.cmd.levels
             d == [b EXCEPT !.ranges = ranges, !.cmd.issueClosed = TRUE, !.cmd.step = "DRAIN_RANGE_REFERENCES"]
  <2>1. ranges \in SUBSET Levels
    BY <1>1 DEF Controller
  <2>2. ctl' = d
    BY <1>5
  <2> HIDE DEF ranges
  <2>3. d \in Controller
    BY <1>1, <2>1, ZenonT(60) DEF Controller, Command, Steps
  <2>4. SameProfile(b, d) /\ d.cmd = [b.cmd EXCEPT !.issueClosed = TRUE, !.step = "DRAIN_RANGE_REFERENCES"]
    BY <1>1 DEF Controller, SameProfile
  <2> HIDE DEF d
  <2>5. d.cmd.kind = b.cmd.kind
    BY <1>1, <2>4 DEF Command
  <2> QED
    BY <2>2, <2>3, <2>4, <2>5, Maintained
<1>6. CASE ctl' = [b EXCEPT !.ranges = @ \ b.cmd.levels, !.cmd.step = "RELEASE"]
  <2> DEFINE ranges == b.ranges \ b.cmd.levels
             d == [b EXCEPT !.ranges = ranges, !.cmd.step = "RELEASE"]
  <2>1. ranges \in SUBSET Levels
    BY <1>1 DEF Controller
  <2>2. ctl' = d
    BY <1>6
  <2> HIDE DEF ranges
  <2>3. d \in Controller
    BY <1>1, <2>1, ZenonT(60) DEF Controller, Command, Steps
  <2>4. SameProfile(b, d) /\ d.cmd.kind = b.cmd.kind
    BY <1>1 DEF Controller, Command, SameProfile
  <2> HIDE DEF d
  <2> QED
    BY <2>2, <2>3, <2>4, Maintained
<1>7. CASE MaintainCaches(b)
  <2> DEFINE c == Begun(b)
  <2>1. c \in Controller /\ SameProfile(b, c) /\ SameOrder(b.cmd, c.cmd)
    BY <1>1, BegunFields, Zenon
  <2>2. PICK slots \in SUBSET c.cmd.pending :
           ctl' = IF WritebackFailed(c) THEN Fault(c)
                  ELSE IF CleanupPending(Issued(c, slots).cmd) THEN Issued(c, slots)
                  ELSE Move(Issued(c, slots), "DRAIN_DOWNSTREAM")
    BY <1>7 DEF MaintainCaches, Begun, Issued
  <2> DEFINE d == Issued(c, slots)
             e == Move(d, "DRAIN_DOWNSTREAM")
  <2> HIDE DEF c
  <2>3. Sound(c, U) /\ c.cmd.kind = "maintenance"
    BY <2>1, Maintained DEF SameOrder
  <2>4. d \in Controller /\ SameProfile(c, d) /\ SameOrder(c.cmd, d.cmd)
    BY <2>1, IssuedFields, Zenon
  <2> HIDE DEF d
  <2>5. Sound(d, U) /\ d.cmd.kind = "maintenance"
    BY <2>3, <2>4, Maintained DEF SameOrder
  <2>6. e \in Controller /\ SameProfile(d, e) /\ SameOrder(d.cmd, e.cmd)
    <3>1. "DRAIN_DOWNSTREAM" \in Steps
      BY DEF Steps
    <3> QED
      BY <2>4, <3>1, MoveFields, Zenon
  <2> HIDE DEF e
  <2>7. Sound(e, U)
    BY <2>5, <2>6, Maintained DEF SameOrder
  <2>8. Sound(Fault(c), U)
    BY <2>3, FaultSound
  <2> QED
    BY <2>2, <2>5, <2>7, <2>8 DEF d, e
<1>8. CASE ctl' = DrainDownstream(b, "ACK", TRUE)
  <2> DEFINE c == AckWritebacks(b)
             e == Move(c, "ACK")
  <2>1. c \in Controller /\ SameProfile(b, c) /\ SameOrder(b.cmd, c.cmd)
    BY <1>1, AckFields, Zenon
  <2>2. ctl' = IF WritebackFailed(b) THEN Fault(b)
               ELSE IF ~CleanupPending(c.cmd) THEN e ELSE c
    BY <1>8 DEF DrainDownstream
  <2> HIDE DEF c
  <2>3. Sound(c, U) /\ c.cmd.kind = "maintenance"
    BY <2>1, Maintained DEF SameOrder
  <2>4. e \in Controller /\ SameProfile(c, e) /\ SameOrder(c.cmd, e.cmd)
    <3>1. "ACK" \in Steps
      BY DEF Steps
    <3> QED
      BY <2>1, <3>1, MoveFields, Zenon
  <2> HIDE DEF e
  <2>5. Sound(e, U)
    BY <2>3, <2>4, Maintained DEF SameOrder
  <2> QED
    BY <1>3, <2>2, <2>3, <2>5
<1>9. CASE ctl' = [b EXCEPT !.cmd.state = "completed"]
  BY <1>9, CompleteSound, Zenon
<1>10. CASE ctl' = b
  BY <1>10
<1>11. {"WAIT_DEPENDENCIES", "CLEAN_INVALIDATE", "UNBLOCK_RANGE_ISSUE"} \subseteq Steps
  BY DEF Steps
<1>12. \/ ctl' = b \/ (\E t \in Steps : ctl' = Move(b, t))
       \/ ctl' = [b EXCEPT !.used = IF b.cmd.owner = "context" THEN @ ELSE @ \cup {"dependency"},
                           !.cmd.step = "BLOCK_RANGE_ISSUE"]
       \/ ctl' = [b EXCEPT !.ranges = @ \cup b.cmd.levels, !.cmd.issueClosed = TRUE,
                           !.cmd.step = "DRAIN_RANGE_REFERENCES"]
       \/ MaintainCaches(b) \/ ctl' = DrainDownstream(b, "ACK", TRUE)
       \/ ctl' = [b EXCEPT !.ranges = @ \ b.cmd.levels, !.cmd.step = "RELEASE"]
       \/ ctl' = [b EXCEPT !.cmd.state = "completed"]
  BY <1>11, Zenon DEF StepMaintenance
<1> QED
  BY <1>2, <1>4, <1>5, <1>6, <1>7, <1>8, <1>9, <1>10, <1>12

\* A command that waited for its first step is running.
LEMMA ResumeSound ==
    ASSUME NEW U, NEW b, Sound(b, U), b.cmd.state \in Live
    PROVE  LET d == [b EXCEPT !.cmd.state = "running"] IN
           /\ Sound(d, U) /\ d.cmd.state = "running"
           /\ d.cmd.kind = b.cmd.kind /\ d.cmd.cancel = b.cmd.cancel
<1> DEFINE d == [b EXCEPT !.cmd.state = "running"]
<1>1. b \in Controller /\ b.cmd \in Command
  BY DEF Sound, Controller
<1>2. d \in Controller
  BY <1>1, ZenonT(60) DEF Controller, Command, Live
<1>3. /\ SameProfile(b, d) /\ SameBus(b, d) /\ d.closed = b.closed /\ d.dirty = b.dirty
      /\ d.cmd = [b.cmd EXCEPT !.state = "running"]
  BY <1>1 DEF Controller, SameProfile, SameBus
<1> HIDE DEF d
<1>4. /\ SameOrder(b.cmd, d.cmd) /\ SameAcks(b.cmd, d.cmd) /\ SameCleaning(b.cmd, d.cmd)
      /\ d.cmd.state = "running" /\ d.cmd.step = b.cmd.step
      /\ d.cmd.issueClosed = b.cmd.issueClosed /\ d.cmd.cancel = b.cmd.cancel
  BY <1>1, <1>3 DEF Command, SameOrder, SameAcks, SameCleaning
<1>5. Agreed(d)
  BY <1>3, SameAgreed DEF Sound
<1>6. Acknowledged(d)
  BY <1>3, <1>4, SameAcknowledged DEF Sound
<1>7. CleanupPending(d.cmd) = CleanupPending(b.cmd)
  BY <1>4 DEF CleanupPending, SameCleaning
<1>8. Settled(d) /\ Latched(d) /\ Deserted(d, U)
  BY <1>3, <1>4, <1>7
     DEF Sound, Settled, Latched, Deserted, Reconfiguring, Live, SameProfile, SameOrder
<1>9. Cleaning(d)
  BY <1>3, <1>4, <1>7 DEF Sound, Cleaning, Reconfiguring, SameOrder, SameCleaning
<1>10. Sound(d, U)
  BY <1>2, <1>5, <1>6, <1>8, <1>9 DEF Sound
<1> QED
  BY <1>4, <1>10 DEF d, SameOrder

\* _advance_cancel: the gate stays as the command left it.
LEMMA CancelSound ==
    ASSUME NEW U, NEW b, Sound(b, U), b.cmd.state \in Live, b.cmd.cancel, AdvanceCancel(b)
    PROVE  Sound(ctl', U)
<1> DEFINE c == FaultCleanup(b)
           ranges == IF c.cmd.kind = "maintenance" THEN c.ranges \ c.cmd.levels ELSE c.ranges
           d == [c EXCEPT !.cmd.state = "cancelled", !.ranges = ranges]
<1>1. ctl' = IF IsolationComplete(c) THEN d ELSE c
  BY DEF AdvanceCancel
<1>2. Sound(c, U)
  BY CleanupSound
<1>3. c.cmd.kind # "none"
  <2>1. b \in Controller /\ b.cmd.kind # "none"
    BY DEF Sound, Settled
  <2>2. SameOrder(b.cmd, c.cmd)
    BY <2>1, CleanupFields, Zenon
  <2> QED
    BY <2>1, <2>2 DEF SameOrder
<1> HIDE DEF c
<1>4. c \in Controller /\ c.cmd \in Command
  BY <1>2 DEF Sound, Controller
<1>5. ranges \in SUBSET Levels
  BY <1>4 DEF Controller
<1> HIDE DEF ranges
<1>6. d \in Controller
  BY <1>4, <1>5, ZenonT(60) DEF Controller, Command, Terminal
<1>7. SameProfile(c, d) /\ d.closed = c.closed /\ d.cmd = [c.cmd EXCEPT !.state = "cancelled"]
  BY <1>4 DEF Controller, SameProfile
<1> HIDE DEF d
<1>8. /\ SameOrder(c.cmd, d.cmd) /\ d.cmd.state = "cancelled" /\ d.cmd.step = c.cmd.step
      /\ d.cmd.issueClosed = c.cmd.issueClosed
  BY <1>4, <1>7 DEF Command, SameOrder
<1>9. d.cmd.kind # "none" /\ d.cmd.state \notin Live /\ Latched(d)
  BY <1>2, <1>3, <1>7, <1>8 DEF Sound, Latched, Live, SameOrder
<1>10. Sound(d, U)
  BY <1>2, <1>6, <1>7, <1>8, <1>9, Ended
<1> QED
  BY <1>1, <1>2, <1>10

\* Without a command the gates, the caches and the bus are free.
LEMMA WithoutCommand ==
    ASSUME NEW U, NEW d \in Controller, Agreed(d), d.cmd.kind = "none", d.cmd.state \notin Live,
           ~CleanupPending(d.cmd), d.phase \in {"prepare", "commit"} => U = {}
    PROVE  Sound(d, U)
<1>1. ~Reconfiguring(d)
  BY DEF Reconfiguring
<1> QED
  BY <1>1 DEF Sound, Settled, Latched, Deserted, Cleaning, Acknowledged

\* A command that is forgotten: only the number of commands is kept.
LEMMA ForgottenFields ==
    ASSUME NEW id \in 0 .. MaxCommands, NEW k, k = [NoCommand EXCEPT !.id = id]
    PROVE  k \in Command /\ k.kind = "none" /\ k.state = "none" /\ k.id = id /\ ~CleanupPending(k)
<1>1. NoCommand \in Command
  BY NoIdType DEF NoCommand, Command, Both, Steps, Modes
<1>2. /\ NoCommand.kind = "none" /\ NoCommand.state = "none" /\ NoCommand.pending = {}
      /\ NoCommand.txn = [l \in Levels |-> "none"]
  BY DEF NoCommand, Both
<1> QED
  BY <1>1, <1>2 DEF Command, CleanupPending

\* FinishInitialization opens both levels.
LEMMA InitializationSound ==
    ASSUME NEW U, NEW b, Sound(b, U), b.phase = "initializing", FinishInitialization(b)
    PROVE  Sound(ctl', U)
<1> DEFINE d == [b EXCEPT !.phase = "ready", !.startup = Levels, !.closed = {}, !.acks = {}]
<1>1. b \in Controller /\ Agreed(b)
  BY DEF Sound
<1>2. d \in Controller
  BY <1>1, Zenon DEF Controller
<1>3. /\ d.phase = "ready" /\ d.mode = b.mode /\ d.gen = b.gen /\ d.installed = b.installed /\ d.member = b.member
      /\ d.cmd = b.cmd
  BY <1>1 DEF Controller
<1>4. ctl' = d \/ ctl' = b
  BY DEF FinishInitialization
<1> HIDE DEF d
<1>5. Agreed(d)
  BY <1>1, <1>3 DEF Agreed
<1>6. d.cmd.kind = "none" /\ d.cmd.state \notin Live /\ ~CleanupPending(d.cmd)
  BY <1>3 DEF Sound, Settled
<1>7. Sound(d, U)
  BY <1>2, <1>3, <1>5, <1>6, WithoutCommand
<1> QED
  BY <1>4, <1>7

\* _finish_recovery gives the members of a level the reset profile.
LEMMA RebuildFields ==
    ASSUME NEW c \in Controller, NEW l \in Levels, Agreed(c), NEW d, d = Rebuild(c, l)
    PROVE  d \in Controller /\ Agreed(d) /\ d.cmd = c.cmd
<1> DEFINE s == SwitchMembers(InstallComponents(c, l), l, ResetMode)
           n == c.gen[l] + 1
           Shadowed(x) == [x EXCEPT !.shadowMode = ResetMode, !.shadowGen = n]
           member == [m \in Members |-> IF m \in MembersOf[l] THEN Shadowed(s.member[m]) ELSE s.member[m]]
           f == [s EXCEPT !.member = member]
<1>1. ResetMode \in Modes /\ n \in Int
  BY DEF ResetMode, Modes, Controller
<1>2. s \in Controller /\ s.cmd = c.cmd
  BY <1>1, SwitchFields
<1>3. Agreed(s)
  BY <1>1, SwitchAgreed
<1>4. d = [s EXCEPT !.member = [m \in Members |->
             IF m \in MembersOf[l]
             THEN [@[m] EXCEPT !.shadowMode = ResetMode, !.shadowGen = c.gen[l] + 1]
             ELSE @[m]]]
  BY Zenon DEF Rebuild
<1> HIDE DEF s
<1>5. d = f
  BY <1>2, <1>4, Zenon DEF Controller
<1>6. \A x \in Bank : Shadowed(x) \in Bank /\ Shadowed(x).mode = x.mode /\ Shadowed(x).gen = x.gen
  BY <1>1 DEF Bank
<1>7. s.member \in [Members -> Bank]
  BY <1>2 DEF Controller
<1>8. /\ member \in [Members -> Bank]
      /\ \A m \in Members : member[m].mode = s.member[m].mode /\ member[m].gen = s.member[m].gen
  BY <1>6, <1>7
<1> HIDE DEF member
<1>9. f \in Controller
  BY <1>2, <1>8, Zenon DEF Controller
<1>10. f.mode = s.mode /\ f.gen = s.gen /\ f.installed = s.installed /\ f.member = member /\ f.cmd = s.cmd
  BY <1>2 DEF Controller
<1> HIDE DEF f
<1>11. Agreed(f)
  BY <1>3, <1>8, <1>10, LevelFacts DEF Agreed
<1> QED
  BY <1>2, <1>5, <1>9, <1>10, <1>11

\* _finish_recovery: both levels are rebuilt and opened, or the controller is
\* lost.
LEMMA FinishRecoverySound ==
    ASSUME NEW U, NEW b, Sound(b, U)
    PROVE  Sound(FinishRecovery(b), U)
<1> DEFINE lost == [b EXCEPT !.phase = "failed"]
           first == Rebuild(b, "l1")
           both == Rebuild(first, "l2")
           k == [NoCommand EXCEPT !.id = b.cmd.id]
           d == [both EXCEPT
                   !.phase = "ready", !.closed = {}, !.startup = Levels, !.authRun = -1,
                   !.cmd = k, !.awaited = FALSE, !.used = {}, !.ranges = {}, !.dirty = {}, !.acks = {}]
<1>1. b \in Controller /\ Agreed(b) /\ b.cmd \in Command /\ b.cmd.id \in 0 .. MaxCommands
  BY DEF Sound, Controller, Command
<1>2. "l1" \in Levels /\ "l2" \in Levels
  BY DEF Levels
<1>3. first \in Controller /\ Agreed(first)
  BY <1>1, <1>2, RebuildFields
<1> HIDE DEF first
<1>4. both \in Controller /\ Agreed(both)
  BY <1>2, <1>3, RebuildFields
<1>5. FinishRecovery(b) = lost \/ FinishRecovery(b) = d
  BY DEF FinishRecovery, first
<1> HIDE DEF both
<1>6. k \in Command /\ k.kind = "none" /\ k.state \notin Live /\ ~CleanupPending(k)
  BY <1>1, ForgottenFields DEF Live
<1> HIDE DEF k
<1>7. d \in Controller
  <2>1. -1 \in Int
    OBVIOUS
  <2> QED
    BY <1>4, <1>6, <2>1, Zenon DEF Controller
<1>8. /\ d.phase = "ready" /\ d.mode = both.mode /\ d.gen = both.gen /\ d.installed = both.installed
      /\ d.member = both.member /\ d.cmd = k
  BY <1>4 DEF Controller
<1> HIDE DEF d
<1>9. Agreed(d)
  BY <1>4, <1>8 DEF Agreed
<1>10. Sound(d, U)
  BY <1>6, <1>7, <1>8, <1>9, WithoutCommand
<1>11. Sound(lost, U)
  <2>1. lost \in Controller
    BY <1>1, Zenon DEF Controller
  <2>2. /\ lost.phase = "failed" /\ lost.mode = b.mode /\ lost.gen = b.gen /\ lost.installed = b.installed
        /\ lost.member = b.member /\ lost.closed = b.closed /\ lost.dirty = b.dirty /\ SameBus(b, lost)
        /\ lost.cmd = b.cmd
    BY <1>1 DEF Controller, SameBus
  <2> HIDE DEF lost
  <2> QED
    BY <2>1, <2>2, Cosmetic
<1> QED
  BY <1>5, <1>10, <1>11

\* The steps of a recovery.
LEMMA StepRecoverySound ==
    ASSUME NEW U, NEW b, Sound(b, U), b.phase \in {"prepare", "commit"}, StepRecovery(b)
    PROVE  Sound(ctl', U)
<1> DEFINE R == Broadcast(Levels, RecoverId, "COMMIT", ResetMode, b.gen)
           requests == b.requests \o R
           d == [b EXCEPT !.phase = "commit", !.acks = {}, !.requests = requests]
<1>1. /\ b \in Controller /\ Agreed(b) /\ b.gen \in [Levels -> Nat] /\ b.requests \in Seq(BusRequest)
      /\ b.cmd.kind = "none" /\ b.cmd.state \notin Live /\ ~CleanupPending(b.cmd) /\ U = {}
  BY DEF Sound, Settled, Deserted, Controller
<1>2. ctl' = b \/ ctl' = d \/ ctl' = FinishRecovery(b)
  BY DEF StepRecovery
<1>3. R \in Seq(BusRequest)
  <2>1. Levels \in SUBSET Levels /\ RecoverId \in Ids /\ "COMMIT" \in Stages /\ ResetMode \in Modes
    BY DEF Ids, Stages, ResetMode, Modes
  <2> QED
    BY <1>1, <2>1, BroadcastFacts, Zenon
<1> HIDE DEF R
<1>4. requests \in Seq(BusRequest)
  BY <1>1, <1>3
<1> HIDE DEF requests
<1>5. d \in Controller
  BY <1>1, <1>4, Zenon DEF Controller
<1>6. /\ d.mode = b.mode /\ d.gen = b.gen /\ d.installed = b.installed /\ d.member = b.member /\ d.cmd = b.cmd
  BY <1>1 DEF Controller
<1> HIDE DEF d
<1>7. Agreed(d)
  BY <1>1, <1>6 DEF Agreed
<1>8. Sound(d, U)
  BY <1>1, <1>5, <1>6, <1>7, WithoutCommand
<1>9. Sound(FinishRecovery(b), U)
  BY FinishRecoverySound
<1> QED
  BY <1>2, <1>8, <1>9

\* The second half of step().
LEMMA AdvanceSound ==
    ASSUME NEW b, Sound(b, InUse), leases \in Nat, Advance(b)
    PROVE  Sound(ctl', InUse)
<1> DEFINE r == [b EXCEPT !.cmd.state = "running"]
<1>1. CASE b.phase = "initializing" /\ FinishInitialization(b)
  BY <1>1, InitializationSound
<1>2. CASE b.phase \in {"prepare", "commit"} /\ StepRecovery(b)
  BY <1>2, StepRecoverySound
<1>3. CASE b.cmd.state \in {"none", "completed", "cancelled"} /\ ctl' = b
  BY <1>3
<1>4. CASE b.cmd.state = "faulted" /\ ctl' = FaultCleanup(b)
  BY <1>4, CleanupSound DEF Live
<1>5. CASE b.cmd.state \in Live /\ b.cmd.cancel /\ AdvanceCancel(b)
  BY <1>5, CancelSound
<1>6. CASE b.cmd.state \in Live /\ ~b.cmd.cancel
           /\ ((b.cmd.kind = "profile" /\ StepProfile(r)) \/ (b.cmd.kind = "maintenance" /\ StepMaintenance(r)))
  <2>1. Sound(r, InUse) /\ r.cmd.state = "running" /\ r.cmd.kind = b.cmd.kind /\ r.cmd.cancel = b.cmd.cancel
    BY <1>6, ResumeSound
  <2> HIDE DEF r
  <2>2. r.cmd.kind = "profile" => Reconfiguring(r)
    BY <2>1 DEF Reconfiguring, Live
  <2> QED
    BY <1>6, <2>1, <2>2, StepProfileSound, StepMaintenanceSound
<1>7. \/ b.phase = "initializing" /\ FinishInitialization(b)
      \/ b.phase \in {"prepare", "commit"} /\ StepRecovery(b)
      \/ b.cmd.state \in {"none", "completed", "cancelled"} /\ ctl' = b
      \/ b.cmd.state = "faulted" /\ ctl' = FaultCleanup(b)
      \/ b.cmd.state \in Live /\ b.cmd.cancel /\ AdvanceCancel(b)
      \/ b.cmd.state \in Live /\ ~b.cmd.cancel
           /\ ((b.cmd.kind = "profile" /\ StepProfile(r)) \/ (b.cmd.kind = "maintenance" /\ StepMaintenance(r)))
  BY DEF Advance
<1> HIDE DEF r
<1> QED
  BY <1>1, <1>2, <1>3, <1>4, <1>5, <1>6, <1>7

-----------------------------------------------------------------------------
(* The actions.                                                            *)

\* Only the controller moved.
LEMMA ControllerMoved ==
    ASSUME IInv, UNCHANGED env, Sound(ctl', InUse)
    PROVE  IInv'
<1>1. InUse' = InUse
  BY DEF InUse, UsersAt, env
<1>2. TypeOK'
  BY DEF IInv, TypeOK, Sound, env
<1> QED
  BY <1>1, <1>2 DEF IInv

\* What the bus leaves to the second half of a step.
LEMMA BusSound ==
    ASSUME IInv, NEW b \in Delivered \cup Serviced \cup Idle
    PROVE  Sound(b, InUse)
<1>1. Sound(ctl, InUse) /\ leases \in Nat /\ ctl.requests \in Seq(BusRequest)
  BY DEF IInv, TypeOK, Sound, Controller
<1>2. CASE b \in Delivered
  BY <1>1, <1>2, ConsumeSound DEF Delivered
<1>3. CASE b \in Serviced
  <2>1. ctl.requests # <<>>
    BY <1>3 DEF Serviced
  <2>2. PICK ok \in BOOLEAN, d \in {0, 1} : b = Service(ok, Head(ctl.requests).gen - d)
    BY <1>3, <2>1 DEF Serviced
  <2>3. Head(ctl.requests) \in BusRequest
    BY <1>1, <2>1
  <2>4. Head(ctl.requests).gen - d \in Int
    BY <2>3 DEF BusRequest
  <2> QED
    BY <1>1, <2>1, <2>2, <2>4, ServiceSound
<1>4. CASE b \in Idle
  BY <1>1, <1>4 DEF Idle
<1> QED
  BY <1>2, <1>3, <1>4

\* step()
LEMMA StepKeeps ==
    ASSUME IInv, NEW bs \in SUBSET (Delivered \cup Serviced \cup Idle), Step(bs)
    PROVE  IInv'
<1>1. leases \in Nat /\ UNCHANGED env
  BY DEF IInv, TypeOK, Step
<1>2. PICK b \in bs : Advance(b)
  BY DEF Step
<1>3. Sound(b, InUse)
  BY BusSound
<1>4. Sound(ctl', InUse)
  BY <1>1, <1>2, <1>3, AdvanceSound
<1> QED
  BY <1>1, <1>4, ControllerMoved

\* A timeout faults the command.
LEMMA TimeoutKeeps ==
    ASSUME IInv, Timeout
    PROVE  IInv'
<1>1. PICK b \in Delivered \cup Serviced \cup Idle : Expire(b)
  BY DEF Timeout
<1>2. Sound(b, InUse)
  BY BusSound
<1>3. b.cmd.kind # "none" /\ ctl' = Fault(b)
  BY <1>1, <1>2 DEF Expire, Sound, Settled
<1>4. Sound(ctl', InUse)
  BY <1>2, <1>3, FaultSound
<1>5. UNCHANGED env
  BY DEF Timeout
<1> QED
  BY <1>4, <1>5, ControllerMoved

\* begin_run
LEMMA BeginRunKeeps ==
    ASSUME IInv, BeginRun
    PROVE  IInv'
<1> DEFINE run == ctl.run + 1
           authRun == IF ctl.startup # {} /\ ctl.authRun < 0 THEN ctl.run + 1 ELSE ctl.authRun
           startup == IF ctl.startup # {} /\ ctl.authRun >= 0 THEN {} ELSE ctl.startup
           k == [NoCommand EXCEPT !.id = ctl.cmd.id]
           d == [ctl EXCEPT !.run = run, !.authRun = authRun, !.startup = startup, !.cmd = k,
                            !.awaited = FALSE, !.used = {}, !.ranges = {}]
<1>1. ctl \in Controller /\ Agreed(ctl) /\ ctl.phase = "ready" /\ ctl.cmd.id \in 0 .. MaxCommands
  BY DEF IInv, Sound, BeginRun, Controller, Command
<1>2. run \in Nat /\ authRun \in Int /\ startup \in SUBSET Levels
  BY <1>1 DEF Controller
<1>3. ctl' = d /\ UNCHANGED env
  BY DEF BeginRun
<1>4. k \in Command /\ k.kind = "none" /\ k.state \notin Live /\ ~CleanupPending(k)
  BY <1>1, ForgottenFields DEF Live
<1> HIDE DEF run, authRun, startup, k
<1>5. d \in Controller
  BY <1>1, <1>2, <1>4, Zenon DEF Controller
<1>6. /\ d.phase = ctl.phase /\ d.mode = ctl.mode /\ d.gen = ctl.gen /\ d.installed = ctl.installed
      /\ d.member = ctl.member /\ d.cmd = k
  BY <1>1 DEF Controller
<1> HIDE DEF d
<1>7. Agreed(d)
  BY <1>1, <1>6 DEF Agreed
<1>8. Sound(d, InUse)
  BY <1>1, <1>4, <1>5, <1>6, <1>7, WithoutCommand
<1> QED
  BY <1>3, <1>8, ControllerMoved

\* note_await
LEMMA NoteAwaitKeeps ==
    ASSUME IInv, NoteAwait
    PROVE  IInv'
<1> DEFINE d == [ctl EXCEPT !.awaited = TRUE]
<1>1. ctl \in Controller /\ Sound(ctl, InUse)
  BY DEF IInv, Sound
<1>2. ctl' = d /\ UNCHANGED env
  BY DEF NoteAwait
<1>3. d \in Controller
  BY <1>1, Zenon DEF Controller
<1>4. /\ d.phase = ctl.phase /\ d.mode = ctl.mode /\ d.gen = ctl.gen /\ d.installed = ctl.installed
      /\ d.member = ctl.member /\ d.closed = ctl.closed /\ d.dirty = ctl.dirty /\ SameBus(ctl, d) /\ d.cmd = ctl.cmd
  BY <1>1 DEF Controller, SameBus
<1> HIDE DEF d
<1>5. Sound(d, InUse)
  BY <1>1, <1>3, <1>4, Cosmetic
<1> QED
  BY <1>2, <1>5, ControllerMoved

\* submit(): the command starts with an empty bus, nothing closed and nothing
\* counted.
LEMMA SubmitKeeps ==
    ASSUME IInv, NEW k \in Command, Submit(k), k.kind \in {"profile", "maintenance"},
           k.kind = "profile" => \E l \in Levels : k.levels = {l},
           k.step = "ACQUIRE", ~k.issueClosed, k.ready = {}, k.committed = {}, ~k.started,
           ~CleanupPending(k)
    PROVE  IInv'
<1> DEFINE j == [k EXCEPT !.id = ctl.cmd.id + 1, !.state = "pending"]
           d == [ctl EXCEPT !.cmd = j]
<1>1. /\ ctl \in Controller /\ Agreed(ctl) /\ ctl.phase = "ready" /\ ctl.requests = <<>> /\ ctl.responses = {}
      /\ ctl.cmd.id \in 0 .. MaxCommands /\ ctl.cmd.id < MaxCommands
  BY DEF IInv, Sound, Submit, CanSubmit, CancellationPending, Controller, Command
<1>2. MaxCommands \in Nat
  BY ProfileAssumption DEF MaxCommands
<1>3. ctl.cmd.id + 1 \in 0 .. MaxCommands /\ "pending" \in Live
  BY <1>1, <1>2 DEF Live
<1>4. j \in Command
  BY <1>3 DEF Command
<1>5. /\ j.kind = k.kind /\ j.levels = k.levels /\ j.step = k.step /\ j.issueClosed = k.issueClosed
      /\ j.ready = k.ready /\ j.committed = k.committed /\ j.started = k.started /\ j.pending = k.pending
      /\ j.txn = k.txn /\ j.state = "pending"
  BY DEF Command
<1>6. ctl' = d /\ UNCHANGED env
  BY DEF Submit
<1> HIDE DEF j
<1>7. d \in Controller
  BY <1>1, <1>4, Zenon DEF Controller
<1>8. SameProfile(ctl, d) /\ SameBus(ctl, d) /\ d.cmd = j
  BY <1>1 DEF Controller, SameProfile, SameBus
<1> HIDE DEF d
<1>9. Agreed(d)
  BY <1>1, <1>8, SameAgreed
<1>10. ~CleanupPending(d.cmd)
  BY <1>5, <1>8 DEF CleanupPending
<1>11. "ACQUIRE" \in Draining /\ "ACQUIRE" \notin Isolating \cup {"DRAIN_REFERENCES"} /\ "ACQUIRE" \notin Drained
       /\ "ACQUIRE" \notin Acking \cup {"CLEAN_INVALIDATE"}
  BY DEF Draining, Isolating, Drained, Acking
<1>12. Settled(d) /\ Latched(d) /\ Deserted(d, InUse)
  BY <1>1, <1>5, <1>8, <1>11 DEF Settled, Latched, Deserted, SameProfile
<1>13. Cleaning(d) /\ Acknowledged(d)
  BY <1>1, <1>5, <1>8, <1>10, <1>11 DEF Cleaning, Acknowledged, SameBus, Acking
<1>14. Sound(d, InUse)
  BY <1>7, <1>9, <1>12, <1>13 DEF Sound
<1> QED
  BY <1>6, <1>14, ControllerMoved

\* submit() of a profile descriptor
LEMMA SubmitProfileKeeps ==
    ASSUME IInv, SubmitProfile
    PROVE  IInv'
<1>1. PICK l \in Levels, owner \in {"device", "context"}, startup \in BOOLEAN, target \in Modes :
         Submit([NoCommand EXCEPT !.kind = "profile", !.levels = {l}, !.target = target,
                                  !.owner = owner, !.startup = startup])
  BY DEF SubmitProfile
<1> DEFINE k == [NoCommand EXCEPT !.kind = "profile", !.levels = {l}, !.target = target,
                                  !.owner = owner, !.startup = startup]
<1>2. k \in Command
  BY NoIdType DEF NoCommand, Command, Both, Steps, Modes
<1>3. /\ k.kind = "profile" /\ k.levels = {l} /\ k.step = "ACQUIRE" /\ ~k.issueClosed /\ k.ready = {}
      /\ k.committed = {} /\ ~k.started /\ k.pending = {} /\ k.txn = [i \in Levels |-> "none"]
  BY DEF NoCommand, Both
<1>4. Submit(k)
  BY <1>1
<1> HIDE DEF k
<1>5. ~CleanupPending(k)
  BY <1>3 DEF CleanupPending
<1> QED
  BY <1>2, <1>3, <1>4, <1>5, SubmitKeeps

\* submit() of a maintenance descriptor
LEMMA SubmitMaintenanceKeeps ==
    ASSUME IInv, SubmitMaintenance
    PROVE  IInv'
<1>1. PICK ls \in SUBSET Levels \ {{}}, owner \in {"device", "context"} :
         Submit([NoCommand EXCEPT !.kind = "maintenance", !.levels = ls, !.owner = owner])
  BY DEF SubmitMaintenance
<1> DEFINE k == [NoCommand EXCEPT !.kind = "maintenance", !.levels = ls, !.owner = owner]
<1>2. k \in Command
  BY NoIdType DEF NoCommand, Command, Both, Steps, Modes
<1>3. /\ k.kind = "maintenance" /\ k.step = "ACQUIRE" /\ ~k.issueClosed /\ k.ready = {}
      /\ k.committed = {} /\ ~k.started /\ k.pending = {} /\ k.txn = [i \in Levels |-> "none"]
  BY DEF NoCommand, Both
<1>4. Submit(k)
  BY <1>1
<1> HIDE DEF k
<1>5. ~CleanupPending(k)
  BY <1>3 DEF CleanupPending
<1> QED
  BY <1>2, <1>3, <1>4, <1>5, SubmitKeeps

\* request_cancel: a command that has not begun ends at once.
LEMMA RequestCancelKeeps ==
    ASSUME IInv, RequestCancel
    PROVE  IInv'
<1> DEFINE state == IF ctl.cmd.state = "pending" THEN "cancelled" ELSE ctl.cmd.state
           k == [ctl.cmd EXCEPT !.cancel = TRUE, !.state = state]
           d == [ctl EXCEPT !.cmd = k]
<1>1. /\ Sound(ctl, InUse) /\ ctl \in Controller /\ ctl.cmd \in Command /\ ctl.cmd.state \in Live
      /\ ctl.cmd.kind # "none"
  BY DEF IInv, Sound, Settled, Controller, RequestCancel
<1>2. state \in Live \cup Terminal \cup {"none"} /\ (state \in Live => state = ctl.cmd.state)
  BY <1>1 DEF Live, Terminal
<1>3. ctl' = d /\ UNCHANGED env
  BY <1>1 DEF RequestCancel, Controller, Command
<1> HIDE DEF state
<1>4. k \in Command
  BY <1>1, <1>2 DEF Command
<1>5. /\ SameOrder(ctl.cmd, k) /\ SameAcks(ctl.cmd, k) /\ SameCleaning(ctl.cmd, k)
      /\ k.state = state /\ k.step = ctl.cmd.step /\ k.issueClosed = ctl.cmd.issueClosed /\ k.cancel
  BY <1>1 DEF Command, SameOrder, SameAcks, SameCleaning
<1> HIDE DEF k
<1>6. d \in Controller
  BY <1>1, <1>4, Zenon DEF Controller
<1>7. SameProfile(ctl, d) /\ SameBus(ctl, d) /\ d.closed = ctl.closed /\ d.dirty = ctl.dirty /\ d.cmd = k
  BY <1>1 DEF Controller, SameProfile, SameBus
<1> HIDE DEF d
<1>8. Agreed(d)
  BY <1>1, <1>7, SameAgreed DEF Sound
<1>9. Acknowledged(d)
  BY <1>1, <1>5, <1>7, SameAcknowledged DEF Sound
<1>10. CleanupPending(d.cmd) = CleanupPending(ctl.cmd)
  BY <1>5, <1>7 DEF CleanupPending, SameCleaning
<1>11. state # "faulted"
  BY <1>1 DEF state, Live
<1>12. Settled(d) /\ Latched(d) /\ Deserted(d, InUse)
  BY <1>1, <1>2, <1>5, <1>7, <1>10, <1>11
     DEF Sound, Settled, Latched, Deserted, Reconfiguring, SameProfile, SameOrder
<1>13. Cleaning(d)
  BY <1>1, <1>2, <1>5, <1>7, <1>10 DEF Sound, Cleaning, Reconfiguring, SameOrder, SameCleaning
<1>14. Sound(d, InUse)
  BY <1>6, <1>8, <1>9, <1>12, <1>13 DEF Sound
<1> QED
  BY <1>3, <1>14, ControllerMoved

\* recover()
LEMMA RecoverKeeps ==
    ASSUME IInv, Recover
    PROVE  IInv'
<1> DEFINE k == [NoCommand EXCEPT !.id = ctl.cmd.id, !.state = ctl.cmd.state]
           R == Broadcast(Levels, RecoverId, "PREPARE", ResetMode, ctl.gen)
           d == [ctl EXCEPT !.phase = "prepare", !.acks = {}, !.closed = Levels, !.cmd = k, !.requests = R]
<1>1. /\ ctl \in Controller /\ Agreed(ctl) /\ ctl.gen \in [Levels -> Nat]
      /\ ctl.cmd.id \in 0 .. MaxCommands /\ ctl.cmd.state \in Live \cup Terminal \cup {"none"}
      /\ ctl.cmd.state \notin Live
  BY DEF IInv, Sound, Recover, CancellationPending, Controller, Command
<1>2. InUse = {}
  <2>1. queued = 0 /\ leases = 0 /\ \A x \in Contexts : ctx[x] = "idle"
    BY DEF Recover, NoUser
  <2> QED
    BY <2>1 DEF InUse, UsersAt
<1>3. ctl' = d /\ UNCHANGED env
  BY DEF Recover
<1>4. R \in Seq(BusRequest)
  <2>1. Levels \in SUBSET Levels /\ RecoverId \in Ids /\ "PREPARE" \in Stages /\ ResetMode \in Modes
    BY DEF Ids, Stages, ResetMode, Modes
  <2> QED
    BY <1>1, <2>1, BroadcastFacts, Zenon
<1>5. k \in Command /\ k.kind = "none" /\ k.state \notin Live /\ ~CleanupPending(k)
  <2> DEFINE id == ctl.cmd.id
             state == ctl.cmd.state
  <2>1. k = [NoCommand EXCEPT !.id = id, !.state = state]
    OBVIOUS
  <2>2. id \in 0 .. MaxCommands /\ state \in Live \cup Terminal \cup {"none"} /\ state \notin Live
    BY <1>1
  <2>3. NoCommand \in Command
    BY NoIdType DEF NoCommand, Command, Both, Steps, Modes
  <2>4. NoCommand.kind = "none" /\ NoCommand.pending = {} /\ NoCommand.txn = [l \in Levels |-> "none"]
    BY DEF NoCommand, Both
  <2> HIDE DEF id, state, k
  <2> QED
    BY <2>1, <2>2, <2>3, <2>4 DEF Command, CleanupPending
<1> HIDE DEF R, k
<1>6. d \in Controller
  BY <1>1, <1>4, <1>5, Zenon DEF Controller
<1>7. d.mode = ctl.mode /\ d.gen = ctl.gen /\ d.installed = ctl.installed /\ d.member = ctl.member /\ d.cmd = k
  BY <1>1 DEF Controller
<1> HIDE DEF d
<1>8. Agreed(d)
  BY <1>1, <1>7 DEF Agreed
<1>9. Sound(d, InUse)
  BY <1>2, <1>5, <1>6, <1>7, <1>8, WithoutCommand
<1> QED
  BY <1>3, <1>9, ControllerMoved

\* A write-back that ended is still to be acknowledged.
LEMMA WritebackEndsKeeps ==
    ASSUME IInv, NEW l \in Levels, WritebackEnds(l)
    PROVE  IInv'
<1>1. PICK status \in {"done", "faulted", "cancelled"} : ctl' = [ctl EXCEPT !.cmd.txn[l] = status]
  BY DEF WritebackEnds
<1> DEFINE txn == [ctl.cmd.txn EXCEPT ![l] = status]
           k == [ctl.cmd EXCEPT !.txn = txn]
           d == [ctl EXCEPT !.cmd = k]
<1>2. /\ Sound(ctl, InUse) /\ ctl \in Controller /\ ctl.cmd \in Command /\ ctl.cmd.txn[l] = "running"
      /\ ctl.cmd.txn \in [Levels -> {"none", "running", "done", "faulted", "cancelled"}] /\ UNCHANGED env
  BY DEF IInv, Sound, Controller, Command, WritebackEnds
<1>3. ctl' = d
  BY <1>1, <1>2 DEF Controller, Command
<1>4. /\ txn \in [Levels -> {"none", "running", "done", "faulted", "cancelled"}]
      /\ \A i \in Levels : (txn[i] # "none") = (ctl.cmd.txn[i] # "none")
  BY <1>2
<1> HIDE DEF txn
<1>5. k \in Command
  BY <1>2, <1>4 DEF Command
<1>6. /\ SameOrder(ctl.cmd, k) /\ SameFlags(ctl.cmd, k) /\ SameAcks(ctl.cmd, k) /\ k.step = ctl.cmd.step
      /\ k.started = ctl.cmd.started /\ k.pending = ctl.cmd.pending /\ k.txn = txn
  BY <1>2 DEF Command, SameOrder, SameFlags, SameAcks
<1> HIDE DEF k
<1>7. d \in Controller
  BY <1>2, <1>5, Zenon DEF Controller
<1>8. SameProfile(ctl, d) /\ SameBus(ctl, d) /\ d.closed = ctl.closed /\ d.dirty = ctl.dirty /\ d.cmd = k
  BY <1>2 DEF Controller, SameProfile, SameBus
<1> HIDE DEF d
<1>9. Agreed(d)
  BY <1>2, <1>8, SameAgreed DEF Sound
<1>10. Acknowledged(d)
  BY <1>2, <1>6, <1>8, SameAcknowledged DEF Sound, SameFlags
<1>11. CleanupPending(d.cmd) = CleanupPending(ctl.cmd)
  BY <1>4, <1>6, <1>8 DEF CleanupPending
<1>12. Settled(d) /\ Latched(d) /\ Deserted(d, InUse)
  BY <1>2, <1>6, <1>8, <1>11
     DEF Sound, Settled, Latched, Deserted, Reconfiguring, SameProfile, SameOrder, SameFlags
<1>13. {i \in Levels : d.cmd.txn[i] # "none"} = {i \in Levels : ctl.cmd.txn[i] # "none"}
  BY <1>4, <1>6, <1>8
<1>14. Cleaning(d)
  BY <1>2, <1>6, <1>8, <1>11, <1>13 DEF Sound, Cleaning, Reconfiguring, SameOrder, SameFlags
<1>15. Sound(d, InUse)
  BY <1>7, <1>9, <1>10, <1>12, <1>14 DEF Sound
<1> QED
  BY <1>2, <1>3, <1>15, ControllerMoved

-----------------------------------------------------------------------------
(* The users of the memory.                                                *)

\* A user takes a level only through its open gate.
LEMMA Admitted ==
    ASSUME NEW U, NEW c, Sound(c, U), NEW V \in SUBSET Levels,
           \A l \in V \ U : l \notin c.closed /\ c.phase = "ready"
    PROVE  Sound(c, V)
<1>1. ASSUME Reconfiguring(c), c.cmd.step \in Isolating PROVE c.cmd.levels \cap V = {}
  <2>1. c.cmd.kind = "profile" /\ c.cmd.issueClosed /\ c.cmd.step # "RELEASE"
    BY <1>1 DEF Sound, Latched, Reconfiguring, Isolating
  <2>2. c.cmd.levels \subseteq c.closed /\ c.cmd.levels \cap U = {}
    BY <1>1, <2>1 DEF Sound, Latched, Deserted
  <2> QED
    BY <2>2
<1>2. ASSUME c.phase \in {"prepare", "commit"} PROVE V = {}
  BY <1>2 DEF Sound, Deserted
<1>3. Deserted(c, V)
  BY <1>1, <1>2 DEF Deserted
<1> QED
  BY <1>3 DEF Sound

\* An admission that spends the startup authorization of the level.
LEMMA AuthorizationSpent ==
    ASSUME NEW U, Sound(ctl, U), NEW l, ctl' = [ctl EXCEPT !.startup = @ \ {l}]
    PROVE  Sound(ctl', U)
<1> DEFINE startup == ctl.startup \ {l}
           d == [ctl EXCEPT !.startup = startup]
<1>1. ctl \in Controller /\ startup \in SUBSET Levels
  BY DEF Sound, Controller
<1>2. ctl' = d
  OBVIOUS
<1> HIDE DEF startup
<1>3. d \in Controller
  BY <1>1, Zenon DEF Controller
<1>4. /\ d.phase = ctl.phase /\ d.mode = ctl.mode /\ d.gen = ctl.gen /\ d.installed = ctl.installed
      /\ d.member = ctl.member /\ d.closed = ctl.closed /\ d.dirty = ctl.dirty /\ SameBus(ctl, d) /\ d.cmd = ctl.cmd
  BY <1>1 DEF Controller, SameBus
<1> HIDE DEF d
<1> QED
  BY <1>2, <1>3, <1>4, Cosmetic

\* A Task leaves its dirty lines: it held both levels until now, so no
\* reconfiguration is past its drain.
LEMMA DirtySound ==
    ASSUME NEW U, Sound(ctl, U), Levels \subseteq U, NEW ls \in SUBSET Levels,
           ctl' = [ctl EXCEPT !.dirty = @ \cup ls]
    PROVE  Sound(ctl', U)
<1> DEFINE dirty == ctl.dirty \cup ls
           d == [ctl EXCEPT !.dirty = dirty]
<1>1. ctl \in Controller /\ dirty \in SUBSET Levels
  BY DEF Sound, Controller
<1>2. ctl' = d
  OBVIOUS
<1> HIDE DEF dirty
<1>3. d \in Controller
  BY <1>1, Zenon DEF Controller
<1>4. SameProfile(ctl, d) /\ SameBus(ctl, d) /\ d.closed = ctl.closed /\ d.cmd = ctl.cmd
  BY <1>1 DEF Controller, SameProfile, SameBus
<1> HIDE DEF d
<1>5. Reconfiguring(ctl) => ctl.cmd.step \notin Isolating
  BY DEF Sound, Settled, Deserted, Reconfiguring
<1>6. Agreed(d)
  BY <1>4, SameAgreed DEF Sound
<1>7. Acknowledged(d)
  <2>1. SameOrder(ctl.cmd, d.cmd) /\ SameAcks(ctl.cmd, d.cmd)
    BY <1>4 DEF SameOrder, SameAcks
  <2> QED
    BY <1>4, <2>1, SameAcknowledged DEF Sound
<1>8. Settled(d) /\ Latched(d) /\ Deserted(d, U)
  BY <1>4 DEF Sound, Settled, Latched, Deserted, Reconfiguring, SameProfile
<1>9. Cleaning(d)
  BY <1>4, <1>5 DEF Sound, Cleaning, Reconfiguring, Drained, Isolating
<1> QED
  BY <1>2, <1>3, <1>6, <1>7, <1>8, <1>9 DEF Sound

\* The admission, the work and the retirement of Contexts and Tasks.
LEMMA UsersKeep ==
    ASSUME IInv, Users
    PROVE  IInv'
<1>1. /\ Sound(ctl, InUse) /\ ctx \in [Contexts -> {"idle", "pending", "active"}]
      /\ left \in [Contexts -> 0 .. MaxDispatches] /\ queued \in Nat /\ leases \in Nat /\ rangeTxn \in BOOLEAN
      /\ MaxDispatches \in Nat
  BY ProfileAssumption DEF IInv, TypeOK
<1>2. ASSUME NEW x \in Contexts, SubmitRoot(x) PROVE IInv'
  <2>1. ctx' = [ctx EXCEPT ![x] = "pending"] /\ UNCHANGED <<ctl, left, queued, leases, rangeTxn>> /\ ctx[x] = "idle"
    BY <1>2 DEF SubmitRoot
  <2>2. InUse' = InUse
    BY <1>1, <2>1 DEF InUse, UsersAt
  <2>3. TypeOK'
    BY <1>1, <2>1 DEF IInv, TypeOK
  <2> QED
    BY <1>1, <2>1, <2>2, <2>3 DEF IInv
<1>3. ASSUME NEW x \in Contexts, AdmitRoot(x) PROVE IInv'
  <2>1. /\ ctx' = [ctx EXCEPT ![x] = "active"] /\ left' = [left EXCEPT ![x] = MaxDispatches]
        /\ ctl' = [ctl EXCEPT !.startup = @ \ {"l2"}] /\ UNCHANGED <<queued, leases, rangeTxn>>
        /\ "l2" \notin ctl.closed /\ ctl.phase = "ready"
    BY <1>3 DEF AdmitRoot, GateClosed
  <2>2. InUse' \in SUBSET Levels /\ InUse' \subseteq InUse \cup {"l2"}
    BY <1>1, <2>1 DEF InUse, UsersAt
  <2>3. Sound(ctl', InUse)
    BY <1>1, <2>1, AuthorizationSpent
  <2>4. ctl'.closed = ctl.closed /\ ctl'.phase = ctl.phase
    BY <1>1, <2>1 DEF Sound, Controller
  <2>5. Sound(ctl', InUse')
    <3>1. \A l \in InUse' \ InUse : l \notin ctl'.closed /\ ctl'.phase = "ready"
      BY <2>1, <2>2, <2>4
    <3> QED
      BY <2>2, <2>3, <3>1, Admitted, Zenon
  <2>6. TypeOK'
    BY <1>1, <2>1, <2>5 DEF TypeOK, Sound
  <2> QED
    BY <2>5, <2>6 DEF IInv
<1>4. ASSUME NEW x \in Contexts, Dispatch(x) PROVE IInv'
  <2>1. /\ ctx[x] = "active" /\ left[x] > 0 /\ left' = [left EXCEPT ![x] = @ - 1] /\ queued' = queued + 1
        /\ UNCHANGED <<ctl, ctx, leases, rangeTxn>> /\ "l1" \notin ctl.closed /\ ctl.phase = "ready"
    BY <1>4 DEF Dispatch, GateClosed
  <2>2. InUse' \in SUBSET Levels /\ InUse' \subseteq InUse \cup {"l1"}
    <3>1. "l2" \in InUse
      BY <2>1 DEF InUse, UsersAt, Levels
    <3> QED
      BY <3>1 DEF InUse, Levels
  <2>3. Sound(ctl', InUse')
    BY <1>1, <2>1, <2>2, Admitted
  <2>4. TypeOK'
    BY <1>1, <2>1 DEF IInv, TypeOK
  <2> QED
    BY <2>3, <2>4 DEF IInv
<1>5. ASSUME NEW x \in Contexts, RetireRoot(x) PROVE IInv'
  <2>1. /\ ctx' = [ctx EXCEPT ![x] = "idle"] /\ left' = [left EXCEPT ![x] = 0] /\ queued' = 0
        /\ UNCHANGED <<ctl, leases, rangeTxn>>
    BY <1>5 DEF RetireRoot
  <2>2. InUse' \in SUBSET Levels /\ InUse' \subseteq InUse
    BY <1>1, <2>1 DEF InUse, UsersAt
  <2>3. Sound(ctl', InUse')
    BY <1>1, <2>1, <2>2, Admitted
  <2>4. TypeOK'
    BY <1>1, <2>1 DEF IInv, TypeOK
  <2> QED
    BY <2>3, <2>4 DEF IInv
<1>6. ASSUME NEW x \in Contexts, IssueTransfer(x) PROVE IInv'
  <2>1. rangeTxn' = TRUE /\ UNCHANGED <<ctl, ctx, left, queued, leases>>
    BY <1>6 DEF IssueTransfer
  <2>2. InUse' = InUse
    BY <2>1 DEF InUse, UsersAt
  <2>3. TypeOK'
    BY <1>1, <2>1 DEF IInv, TypeOK
  <2> QED
    BY <1>1, <2>1, <2>2, <2>3 DEF IInv
<1>7. ASSUME AdmitTask PROVE IInv'
  <2>1. /\ queued > 0 /\ queued' = queued - 1 /\ leases' = leases + 1
        /\ ctl' = [ctl EXCEPT !.startup = @ \ {"l1"}] /\ UNCHANGED <<ctx, left, rangeTxn>>
    BY <1>7 DEF AdmitTask
  <2>2. InUse' \in SUBSET Levels /\ InUse = Levels
    BY <2>1 DEF InUse, UsersAt
  <2>3. Sound(ctl', InUse)
    BY <1>1, <2>1, AuthorizationSpent
  <2>4. Sound(ctl', InUse')
    BY <2>2, <2>3, Admitted
  <2>5. TypeOK'
    BY <1>1, <2>1, <2>3 DEF TypeOK, Sound
  <2> QED
    BY <2>4, <2>5 DEF IInv
<1>8. ASSUME RetireTask PROVE IInv'
  <2>1. PICK ls \in {{}, Levels} : ctl' = [ctl EXCEPT !.dirty = @ \cup ls]
    BY <1>8 DEF RetireTask
  <2>2. leases > 0 /\ leases' = leases - 1 /\ UNCHANGED <<ctx, left, queued, rangeTxn>>
    BY <1>8 DEF RetireTask
  <2>3. InUse' \in SUBSET Levels /\ InUse = Levels
    BY <2>2 DEF InUse, UsersAt
  <2>4. Sound(ctl', InUse)
    BY <1>1, <2>1, <2>3, DirtySound
  <2>5. Sound(ctl', InUse')
    BY <2>3, <2>4, Admitted
  <2>6. TypeOK'
    BY <1>1, <2>2, <2>4 DEF TypeOK, Sound
  <2> QED
    BY <2>5, <2>6 DEF IInv
<1>9. ASSUME TransferEnds PROVE IInv'
  <2>1. rangeTxn' = FALSE /\ UNCHANGED <<ctl, ctx, left, queued, leases>>
    BY <1>9 DEF TransferEnds
  <2>2. InUse' = InUse
    BY <2>1 DEF InUse, UsersAt
  <2>3. TypeOK'
    BY <1>1, <2>1 DEF IInv, TypeOK
  <2> QED
    BY <1>1, <2>1, <2>2, <2>3 DEF IInv
<1> QED
  BY <1>2, <1>3, <1>4, <1>5, <1>6, <1>7, <1>8, <1>9 DEF Users

-----------------------------------------------------------------------------
(* The theorems.                                                           *)

\* initialize(): the gates are closed and the bus asks every member for its
\* reset profile.
LEMMA InitHolds == Init => IInv
<1> SUFFICES ASSUME Init PROVE IInv
  OBVIOUS
<1> DEFINE B == Broadcast(Levels, InitializeId, "INITIALIZE", ResetMode, Both(0))
           ms == Ordered[Levels]
           R == [i \in DOMAIN ms |-> Request(InitializeId, ms[i], "INITIALIZE", ResetMode, 0)]
           member == [m \in Members |-> [mode |-> ResetMode, gen |-> 0, shadowMode |-> ResetMode,
                                         shadowGen |-> 0, prepared |-> NoId, committed |-> NoId]]
<1>1. Both(0) \in [Levels -> Nat] /\ Both(ResetMode) \in [Levels -> Modes] /\ ResetMode \in Modes
  BY DEF Both, Modes, ResetMode
<1>2. R \in Seq(BusRequest)
  <2>1. Levels \in SUBSET Levels /\ InitializeId \in Ids /\ "INITIALIZE" \in Stages
    BY DEF Ids, Stages
  <2>2. B \in Seq(BusRequest)
    BY <1>1, <2>1, BroadcastFacts, Zenon
  <2>3. B = [i \in DOMAIN ms |-> Request(InitializeId, ms[i], "INITIALIZE", ResetMode, Both(0)[LevelOf[ms[i]]] + 1)]
    BY DEF Broadcast
  <2>4. DOMAIN B = DOMAIN ms /\ \A i \in DOMAIN ms : B[i].member = ms[i]
    BY <2>3 DEF Request
  <2> HIDE DEF B, ms
  <2>5. DOMAIN ms = 1 .. Len(B) /\ Len(B) \in Nat /\ \A i \in DOMAIN ms : ms[i] \in Members
    <3>1. Len(B) \in Nat /\ DOMAIN B = 1 .. Len(B) /\ \A i \in DOMAIN B : B[i] \in BusRequest
      BY <2>2
    <3>2. \A i \in DOMAIN B : B[i].member \in Members
      BY <3>1 DEF BusRequest
    <3> QED
      BY <2>4, <3>1, <3>2
  <2>6. \A i \in DOMAIN ms : Request(InitializeId, ms[i], "INITIALIZE", ResetMode, 0) \in BusRequest
    BY <1>1, <2>1, <2>5 DEF Request, BusRequest
  <2> QED
    BY <2>5, <2>6
<1>3. member \in [Members -> Bank]
  BY <1>1, NoIdType DEF Bank
<1>4. NoCommand \in Command /\ NoCommand.kind = "none" /\ NoCommand.state = "none" /\ ~CleanupPending(NoCommand)
  <2>1. NoCommand \in Command
    BY NoIdType DEF NoCommand, Command, Both, Steps, Modes
  <2>2. /\ NoCommand.kind = "none" /\ NoCommand.state = "none" /\ NoCommand.pending = {}
        /\ NoCommand.txn = [l \in Levels |-> "none"]
    BY DEF NoCommand, Both
  <2> QED
    BY <2>1, <2>2 DEF CleanupPending
<1>5. ctl = [phase |-> "initializing", mode |-> Both(ResetMode), gen |-> Both(0), installed |-> Both(0),
             closed |-> Levels, startup |-> {}, authRun |-> -1, run |-> 0, member |-> member,
             requests |-> R, responses |-> {}, acks |-> {}, overrides |-> 0,
             cmd |-> NoCommand, awaited |-> FALSE, used |-> {}, ranges |-> {}, dirty |-> {}]
  BY DEF Init, InitController
<1>6. \A m \in Members : member[m].mode = ResetMode /\ member[m].gen = 0
  OBVIOUS
<1> HIDE DEF R, member
<1>7. ctl \in Controller
  BY <1>1, <1>2, <1>3, <1>4, <1>5 DEF Controller
<1>8. /\ ctl.phase = "initializing" /\ ctl.mode = Both(ResetMode) /\ ctl.gen = Both(0) /\ ctl.installed = Both(0)
      /\ ctl.member = member /\ ctl.cmd = NoCommand
  BY <1>5
<1>9. Agreed(ctl)
  BY <1>6, <1>8, LevelFacts DEF Agreed, Both
<1>10. Sound(ctl, InUse)
  BY <1>4, <1>7, <1>8, <1>9, WithoutCommand DEF Live
<1>11. TypeOK
  <2>1. 0 \in 0 .. MaxDispatches
    BY ProfileAssumption
  <2>2. /\ ctx = [x \in Contexts |-> "idle"] /\ left = [x \in Contexts |-> 0]
        /\ queued = 0 /\ leases = 0 /\ rangeTxn = FALSE
    BY DEF Init
  <2>3. ctx \in [Contexts -> {"idle", "pending", "active"}] /\ left \in [Contexts -> 0 .. MaxDispatches]
    BY <2>1, <2>2
  <2>4. queued \in Nat /\ leases \in Nat
    BY <2>2
  <2>5. rangeTxn \in BOOLEAN
    BY <2>2
  <2> QED
    BY <1>7, <2>3, <2>4, <2>5 DEF TypeOK
<1> QED
  BY <1>10, <1>11 DEF IInv

\* Every step keeps the invariant.
LEMMA NextKeeps == IInv /\ [Next]_vars => IInv'
<1> SUFFICES ASSUME IInv, [Next]_vars PROVE IInv'
  OBVIOUS
<1>1. CASE Step(Delivered)
  BY <1>1, StepKeeps
<1>2. CASE Step(Serviced)
  BY <1>2, StepKeeps
<1>3. CASE Step(Idle)
  BY <1>3, StepKeeps
<1>4. CASE Timeout
  BY <1>4, TimeoutKeeps
<1>5. CASE Control
  BY <1>5, BeginRunKeeps, NoteAwaitKeeps, SubmitProfileKeeps, SubmitMaintenanceKeeps, RequestCancelKeeps,
     RecoverKeeps, WritebackEndsKeeps DEF Control
<1>6. CASE Users
  BY <1>6, UsersKeep
<1>7. CASE UNCHANGED vars
  BY <1>7 DEF vars, env, IInv, TypeOK, InUse, UsersAt
<1> QED
  BY <1>1, <1>2, <1>3, <1>4, <1>5, <1>6, <1>7 DEF Next

\* The controller is sound in every reachable state.
THEOREM ControllerSound == Spec => []IInv
BY InitHolds, NextKeeps, PTL DEF Spec

\* An open gate means that the controller, the components and every member
\* agree on the profile of the level, and the gate of a command that faulted,
\* or was cancelled with the issue closed, stays closed (issue_gate_closed).
THEOREM GatesAreHonest == Spec => []GatesHonest
<1>1. IInv => GatesHonest
  <2> SUFFICES ASSUME IInv PROVE GatesHonest
    OBVIOUS
  <2>1. TypeOK /\ Agreed(ctl) /\ Latched(ctl)
    BY DEF IInv, Sound
  <2>2. OpenLevelAgrees
    BY <2>1 DEF Agreed, OpenLevelAgrees
  <2>3. FaultKeepsGateClosed
    BY <2>1 DEF Latched, FaultKeepsGateClosed, RequiresRecovery, GateClosed
  <2> QED
    BY <2>1, <2>2, <2>3 DEF GatesHonest
<1> QED
  BY <1>1, ControllerSound, PTL

\* Nobody uses a level between the drain of its references and the opening of
\* its gate, nor any level while the members are rebuilt.
THEOREM ReconfigurationIsIsolated == Spec => []ReconfigurationIsolated
<1>1. IInv => ReconfigurationIsolated
  <2> SUFFICES ASSUME IInv PROVE ReconfigurationIsolated
    OBVIOUS
  <2>1. Deserted(ctl, InUse) /\ ctl.cmd.levels \subseteq Levels
    BY DEF IInv, Sound, Controller, Command
  <2>2. ctl.cmd.kind = "profile" /\ ctl.cmd.state = "running" => Reconfiguring(ctl)
    BY DEF Reconfiguring, Live
  <2> QED
    BY <2>1, <2>2 DEF Deserted, InUse, ReconfigurationIsolated
<1> QED
  BY <1>1, ControllerSound, PTL

\* A publication never fails half way: when the last acknowledgement is in, the
\* components can be installed and every member holds this command's shadow;
\* and a recovery that began can finish.
THEOREM PublicationNeverFails == Spec => []PublicationCannotFail
<1>1. IInv => PublicationCannotFail
  <2> SUFFICES ASSUME IInv PROVE PublicationCannotFail
    OBVIOUS
  <2>1. Sound(ctl, InUse) /\ leases \in Nat /\ ctl.gen \in [Levels -> Nat]
    BY DEF IInv, TypeOK, Controller
  <2>2. ASSUME ctl.cmd.kind = "profile", ctl.cmd.state = "running", ctl.cmd.step = "WAIT_COMMIT_ACK"
        PROVE  /\ \A l \in ctl.cmd.levels : CanInstall(ctl, l)
               /\ \A m \in ctl.cmd.committed \cup {r.member : r \in {q \in ctl.responses : q.stage = "COMMIT"}} :
                     ShadowConfirmed(ctl, m)
    <3>1. Reconfiguring(ctl)
      BY <2>2 DEF Reconfiguring, Live
    <3>2. \A l \in ctl.cmd.levels : CanInstall(ctl, l)
      BY <2>1, <2>2, <3>1, CanPublish
    <3>3. /\ \A r \in ctl.responses : OwnResponse(ctl, r)
          /\ \A m \in ctl.cmd.committed : ShadowConfirmed(ctl, m)
      BY <2>1, <2>2, <3>1 DEF Sound, Acknowledged, Acking
    <3> QED
      BY <3>2, <3>3 DEF OwnResponse
  <2>3. ASSUME ctl.phase \in {"prepare", "commit"} PROVE RecoveryPossible(ctl)
    <3>1. InUse = {} /\ ~CleanupPending(ctl.cmd)
      BY <2>1, <2>3 DEF Sound, Deserted, Settled
    <3>2. \A l \in Levels : ComponentsReady(ctl, l)
      BY <2>1, <3>1, Ready
    <3>3. \A l \in Levels : ctl.gen[l] + 1 > ctl.installed[l]
      BY <2>1 DEF Sound, Agreed
    <3> QED
      BY <3>2, <3>3 DEF RecoveryPossible
  <2> QED
    BY <2>2, <2>3 DEF PublicationCannotFail
<1> QED
  BY <1>1, ControllerSound, PTL
=============================================================================
