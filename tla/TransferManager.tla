---------------------------- MODULE TransferManager ----------------------------
(***************************************************************************)
(* The memory fabric of one Tile Group: the TransferManager with its       *)
(* resource stages and the shared HBM CAM, and the NoC router.             *)
(*                                                                         *)
(* One call of TransferManager.step visits every transaction once; here a  *)
(* visit of one transaction is one action, so a cycle is a run of actions  *)
(* and every order of visits and every latency is covered.  A transaction  *)
(* id stands for one fixed request, Req[t]; an id may be submitted again   *)
(* once its tombstone is gone, as the next request of the same shape.      *)
(***************************************************************************)
EXTENDS TransferRoutes, FiniteSets, SequencesExt

CONSTANTS Ids,            \* transaction ids
          Req,            \* the request of each id: [op, src, dst, tile, bypass, issuer, domains]
          Views,          \* the L1, L2 and HBM views requests name
          Seeded(_),      \* bytes of a view written before the run: "none", "some" or "all"
          Channels(_),    \* resources of a stage
          HbmLimit,       \* hbm_outstanding_limit: entries of the one HBM CAM
          VcDepth,        \* credits of a virtual channel
          Tombstones,     \* tombstone_capacity
          MaxLive,        \* bound: transactions the issuers keep unacknowledged
          MaxIssued,      \* bound: transactions submitted in all
          MaxChanges      \* bound: runs, profiles and views replaced

ASSUME FabricAssumption ==
    /\ IsFiniteSet(Ids)
    /\ HbmLimit \in Nat \ {0} /\ VcDepth \in Nat \ {0} /\ Tombstones \in Nat \ {0}
    /\ \A v \in Views : Seeded(v) \in {"none", "some", "all"}

\* A request reads and writes views, and a refill ends in a cache line, so it
\* names no destination.
ASSUME RequestAssumption ==
    \A t \in Ids :
        /\ {Req[t].src, Req[t].dst} \subseteq Views \cup {NoEnd}
        /\ Req[t].op \in {"GATHER_HBM_REFILL", "GATHER_DIRECT_L1_REFILL"} => Req[t].dst = NoEnd

\* Every operation has a route, and the resources of the stages on it are numbered.
ASSUME RouteAssumption ==
    \A t \in Ids :
        LET route == Legs(Req[t])
        IN /\ route \in Seq(STRING)
           /\ \A i \in 1 .. Len(route) : IsNoc(route[i]) \/ Channels(StageOf(route[i], Req[t])[1]) \subseteq Nat

VARIABLES
    txn,     \* the manager's transaction table
    issued,  \* transactions submitted so far
    history, \* terminal history: <<id, status>>, oldest first
    busy,    \* <<stage, resource, id>>: a resource inside its busy window
    cam,     \* ids holding an HBM outstanding entry
    asleep,  \* ids whose last refusal is at the stage's current free epoch
    queue,   \* flits queued per virtual channel
    credit,  \* downstream credits per virtual channel
    crossed, \* <<id, vc>>: traversed flits the router still counts
    noted,   \* ids whose traversal the manager has seen
    gen,     \* current generation of the run and of each profile domain
    store,   \* per view: is its handle live, its generation, its bytes
    error    \* the exception that stopped the Group, or "none"

fabric == <<busy, cam, asleep, queue, credit, crossed, noted>>
vars == <<txn, issued, history, fabric, gen, store, error>>

Vcs == {1, 2}
Domains == {"run", "l1", "l2"}
InFlight == {"running", "cancelling", "faulted"}
Final == {"done", "cancelled", "faulted"}
Absent == [status |-> "absent", leg |-> 0, started |-> FALSE, tag |-> "none",
           stamp |-> [d \in Domains |-> 0], src |-> 0, dst |-> 0, data |-> "none",
           written |-> FALSE, refs |-> FALSE]

Live == {t \in Ids : txn[t].status # "absent"}
Routes == [t \in Ids |-> Legs(Req[t])]
Route(t) == Routes[t]
Touched == [t \in Ids |-> Levels(Req[t])]
\* submit() freezes the legs only after the identity check.
Routed(t) == txn[t].leg > 0
Kind(t) == Route(t)[txn[t].leg]
OnLeg(t) == txn[t].leg \in 1 .. Len(Route(t))
StageFor(t) == StageOf(Kind(t), Req[t])
Running == error = "none"

\* What has been replaced so far: the measure MaxChanges bounds.
Changes ==
    gen["run"] + gen["l1"] + gen["l2"]
    + FoldSet(LAMBDA v, n : n + store[v].gen + (IF store[v].live THEN 0 ELSE 1), 0, Views)

Init ==
    /\ txn = [t \in Ids |-> Absent]
    /\ issued = 0 /\ history = <<>>
    /\ busy = {} /\ cam = {} /\ asleep = {}
    /\ queue = [v \in Vcs |-> <<>>] /\ credit = [v \in Vcs |-> VcDepth]
    /\ crossed = {} /\ noted = {}
    /\ gen = [d \in Domains |-> 0]
    /\ store = [v \in Views |-> [live |-> TRUE, gen |-> 0, bytes |-> Seeded(v)]]
    /\ error = "none"
-----------------------------------------------------------------------------
\* Identity and generations.

\* transaction_identity
Stamp == gen

\* _validate_identity
IdentityValid(t) ==
    /\ txn[t].stamp["run"] = gen["run"]
    /\ \A d \in Req[t].domains : txn[t].stamp[d] = gen[d]

HandleLive(v, g) == v = NoEnd \/ (store[v].live /\ store[v].gen = g)

\* A bug: the profile and run of a leg are not checked again.
HandleChecksOnly(t, phase) ==
    /\ phase = "source" => HandleLive(Req[t].src, txn[t].src)
    /\ phase = "destination" => HandleLive(Req[t].dst, txn[t].dst)

\* validate_transaction_generation: only the end the phase uses is checked.
GenerationValid(t, phase) ==
    /\ IdentityValid(t)
    /\ phase = "source" => HandleLive(Req[t].src, txn[t].src)
    /\ phase = "destination" => HandleLive(Req[t].dst, txn[t].dst)

\* has_inflight_access
HasInflightAccess(v) ==
    \E t \in Live : txn[t].status \in InFlight /\
        (\/ Req[t].src = v /\ txn[t].src = store[v].gen
         \/ Req[t].dst = v /\ txn[t].dst = store[v].gen)

\* The references a transaction holds on its L2 views until it is acknowledged.
Referenced(v) == \E t \in Live : txn[t].refs /\ v \in {Req[t].src, Req[t].dst}
HasL2End(t) == "l2" \in {Req[t].src.space, Req[t].dst.space}

\* closure_snapshot(levels)["quiescent"]
Quiescent(level) == \A t \in Live : txn[t].status \in InFlight => level \notin Touched[t]
InflightCount == Cardinality({t \in Live : txn[t].status \in InFlight})
-----------------------------------------------------------------------------
\* The terminal history.

RecordedAs(t) == {e \in Range(history) : e[1] = t}

\* The oldest entry whose transaction has been acknowledged goes first.
Evictable == {i \in 1 .. Len(history) : txn[history[i][1]].status = "absent"}

\* A sequence without the element at one of the positions (there is one at most).
Drop(s, positions) == IF positions = {} THEN s ELSE RemoveAt(s, CHOOSE i \in positions : TRUE)

\* _record_terminal, with the write of the new status that precedes it.
RecordTerminal(t, status, record) ==
    LET kept == Drop(history, {i \in DOMAIN history : history[i][1] = t})
        full == RecordedAs(t) = {} /\ Len(history) >= Tombstones
        oldest == CHOOSE i \in Evictable : \A j \in Evictable : i <= j
        changed == \E e \in RecordedAs(t) : e[2] # status
    IN /\ txn' = [txn EXCEPT ![t] = [record EXCEPT !.status = status]]
       /\ error' = IF changed THEN "terminal status changed"
                   ELSE IF full /\ Evictable = {} THEN "tombstones exhausted" ELSE "none"
       /\ history' = IF changed THEN kept
                     ELSE IF full /\ Evictable = {} THEN history
                     ELSE Append(IF full THEN RemoveAt(history, oldest) ELSE kept, <<t, status>>)

\* _fault_transaction and _finish_cancelled
Fault(t, record) == RecordTerminal(t, "faulted", record)
FinishCancelled(t, record) == RecordTerminal(t, "cancelled", record)
-----------------------------------------------------------------------------
\* The resource stages.

HeldBy(t) == {b \in busy : b[3] = t}
Taken(stage) == {b[2] : b \in {x \in busy : x[1] = stage}}

\* _issue_parsed: the CAM, then every wanted bank, or the first free channel.
Grants(t) ==
    LET stage == StageFor(t)
        wanted == Wanted(Kind(t), Req[t])
        free == Channels(stage[1]) \ Taken(stage)
    IN IF IsHbm(Kind(t)) /\ Cardinality(cam) >= HbmLimit THEN {}
       ELSE IF wanted # {} THEN (IF wanted \subseteq free THEN wanted ELSE {})
       ELSE {c \in free : \A d \in free : c <= d}

CanIssue(t) == Grants(t) # {}

\* A bug: the HBM stages share the CAM but not its epoch.
WokenSameStage(stage) == {t \in asleep : StageFor(t) = stage}

\* A free bumps the epoch of the stages that share it: their sleepers retry.
Woken(stage) ==
    {t \in asleep : Family(StageFor(t)) = Family(stage)}

\* Bugs: the CAM entry stays; nobody is woken.
ReleasedBanksOnly(t) ==
    /\ busy' = busy \ HeldBy(t)
    /\ cam' = cam
    /\ asleep' = (IF HeldBy(t) # {} THEN asleep \ Woken(StageFor(t)) ELSE asleep) \ {t}
ReleasedSilently(t) == busy' = busy \ HeldBy(t) /\ cam' = cam \ {t} /\ asleep' = asleep \ {t}

\* _release_resources
Released(t) ==
    LET freed == HeldBy(t) # {} \/ t \in cam
    IN /\ busy' = busy \ HeldBy(t)
       /\ cam' = cam \ {t}
       /\ asleep' = (IF freed THEN asleep \ Woken(StageFor(t)) ELSE asleep) \ {t}

\* TransferStage.step: a busy window runs out before its transaction is
\* visited; the CAM entry of the holder goes with it.
Lapse(b) ==
    /\ Running /\ b \in busy
    /\ busy' = busy \ {b}
    /\ cam' = IF IsHbm(b[1][1]) THEN cam \ {b[3]} ELSE cam
    /\ asleep' = asleep \ Woken(b[1])
    /\ UNCHANGED <<issued, txn, history, queue, credit, crossed, noted, gen, store, error>>
-----------------------------------------------------------------------------
\* Submission.

\* can_accept_new: cancelled and faulted transactions not yet acknowledged.
CanAcceptNew == Cardinality({t \in Live : txn[t].status \in {"cancelled", "faulted"}}) < Tombstones

\* captured_data as the issuer passes it: a host write and a clean bring all
\* their bytes, the last step of a Gather those of its cache line, in which
\* bytes nobody wrote are missing.  A Scatter brings none, its data is reset
\* before the submit.
Brought(t) ==
    CASE Req[t].op \in {"HOST_WRITE", "CACHE_CLEAN_L1", "CACHE_CLEAN_L2"} -> {"all"}
      [] Req[t].op = "GATHER_DEST_WRITE" -> {"some", "all"}
      [] OTHER -> {"none"}

Fresh(t, data) ==
    [Absent EXCEPT !.stamp = Stamp,
                   !.src = IF Req[t].src = NoEnd THEN 0 ELSE store[Req[t].src].gen,
                   !.dst = IF Req[t].dst = NoEnd THEN 0 ELSE store[Req[t].dst].gen,
                   !.data = data]

\* submit: the issuer names live views, so the identity is current.
Submit(t) ==
    /\ Running /\ txn[t].status = "absent" /\ RecordedAs(t) = {}
    /\ Cardinality(Live) < MaxLive /\ CanAcceptNew
    /\ issued < MaxIssued /\ issued' = issued + 1
    /\ \A v \in {Req[t].src, Req[t].dst} \ {NoEnd} : store[v].live
    /\ \E data \in Brought(t) :
          IF Route(t) = <<>> THEN Fault(t, Fresh(t, data))
          ELSE /\ txn' = [txn EXCEPT ![t] =
                            [Fresh(t, data) EXCEPT !.status = "running", !.leg = 1, !.refs = HasL2End(t)]]
               /\ UNCHANGED <<history, error>>
    /\ UNCHANGED <<fabric, gen, store>>
-----------------------------------------------------------------------------
\* The visit of one transaction on a resource leg.

Visited(t) == Running /\ txn[t].status \in {"running", "cancelling"} /\ OnLeg(t)

\* The generation is checked on every visit, a sleeping one included.
Reject(t) ==
    /\ Visited(t) /\ ~IsNoc(Kind(t)) /\ ~txn[t].started
    /\ ~GenerationValid(t, IssuePhase(Kind(t), Req[t]))
    /\ Fault(t, txn[t])
    /\ asleep' = asleep \ {t}
    /\ UNCHANGED <<issued, busy, cam, queue, credit, crossed, noted, gen, store>>

\* try_issue accepts: the resources are the transaction's from here on.
IssueLeg(t) ==
    /\ Visited(t) /\ ~IsNoc(Kind(t)) /\ ~txn[t].started
    /\ GenerationValid(t, IssuePhase(Kind(t), Req[t]))
    /\ t \notin asleep /\ CanIssue(t)
    /\ txn' = [txn EXCEPT ![t].started = TRUE]
    /\ busy' = busy \cup {<<StageFor(t), c, t>> : c \in Grants(t)}
    /\ cam' = IF IsHbm(Kind(t)) THEN cam \cup {t} ELSE cam
    /\ UNCHANGED <<issued, history, asleep, queue, credit, crossed, noted, gen, store, error>>

\* try_issue refuses: the retry is skipped until the stage frees something.
Refuse(t) ==
    /\ Visited(t) /\ ~IsNoc(Kind(t)) /\ ~txn[t].started
    /\ GenerationValid(t, IssuePhase(Kind(t), Req[t]))
    /\ t \notin asleep /\ ~CanIssue(t)
    /\ asleep' = asleep \cup {t}
    /\ UNCHANGED <<issued, txn, history, busy, cam, queue, credit, crossed, noted, gen, store, error>>
-----------------------------------------------------------------------------
\* Bytes.

Relaxed(t) == Req[t].op \in {"GATHER_HBM_REFILL", "GATHER_DIRECT_L1_REFILL", "GATHER_DIRECT_RESPONSE"}
              /\ Req[t].src.space = "hbm"

\* _capture_source on a record: the outcome is the record with its data, or
\* "fault" for an old generation or bytes nobody wrote.
Capture(t, r) ==
    IF r.data # "none" \/ Req[t].src = NoEnd THEN <<"ok", r>>
    ELSE IF ~GenerationValid(t, "source") \/ (store[Req[t].src].bytes # "all" /\ ~Relaxed(t)) THEN <<"fault", r>>
    ELSE <<"ok", [r EXCEPT !.data = IF store[Req[t].src].bytes = "all" THEN "all" ELSE "some"]>>

\* _commit_destination on a record.
Checked(t) == Req[t].op \in {"GATHER_DEST_WRITE", "GATHER_DIRECT_RESPONSE"}
Commit(t, r) ==
    IF r.written \/ Req[t].dst = NoEnd THEN <<"ok", r>>
    ELSE IF \/ ~GenerationValid(t, "destination")
            \/ r.data = "none"
            \/ Checked(t) /\ r.data = "some" THEN <<"fault", r>>
    ELSE <<"ok", [r EXCEPT !.written = TRUE]>>

\* The bytes a completed write leaves at the destination.
StoreAfter(t, r) ==
    IF r.written /\ ~txn[t].written THEN [store EXCEPT ![Req[t].dst].bytes = "all"] ELSE store

\* _advance_leg: cancelled between legs, done after the last, whose capture
\* and commit no leg of the route may have done.
AdvanceLeg(t, record) ==
    LET r == [record EXCEPT !.started = FALSE, !.tag = "none"]
        next == [r EXCEPT !.leg = r.leg + 1]
        captured == Capture(t, next)
        committed == IF captured[1] = "ok" THEN Commit(t, captured[2]) ELSE captured
    IN IF r.status = "cancelling" THEN FinishCancelled(t, r) /\ store' = StoreAfter(t, r)
       ELSE IF next.leg <= Len(Route(t))
       THEN /\ txn' = [txn EXCEPT ![t] = next] /\ store' = StoreAfter(t, next)
            /\ UNCHANGED <<history, error>>
       ELSE /\ RecordTerminal(t, IF committed[1] = "ok" THEN "done" ELSE "faulted", committed[2])
            /\ store' = StoreAfter(t, committed[2])

\* The leg's window is over: release, capture, commit, advance.
CompleteLeg(t) ==
    /\ Visited(t) /\ ~IsNoc(Kind(t)) /\ txn[t].started
    /\ Released(t)
    /\ LET captured == IF ReadsSource(Kind(t), Req[t]) THEN Capture(t, txn[t]) ELSE <<"ok", txn[t]>>
           committed == IF captured[1] = "ok" /\ WritesDestination(Kind(t), Req[t])
                        THEN Commit(t, captured[2]) ELSE captured
       IN IF committed[1] = "ok" THEN AdvanceLeg(t, committed[2])
          ELSE Fault(t, committed[2]) /\ store' = store
    /\ UNCHANGED <<issued, queue, credit, crossed, noted, gen>>
-----------------------------------------------------------------------------
\* NoC legs and the router.

VcOf(t) == Channel(Kind(t))
OnNoc(t) == Visited(t) /\ IsNoc(Kind(t))

\* _step_noc_leg, first entry: one flit with this leg's tag.
EnterNoc(t) ==
    /\ OnNoc(t) /\ txn[t].tag = "none"
    /\ IF GenerationValid(t, "transport")
       THEN /\ txn' = [txn EXCEPT ![t].tag = Kind(t), ![t].started = TRUE]
            /\ queue' = [queue EXCEPT ![VcOf(t)] = Append(@, t)]
            /\ UNCHANGED <<history, error>>
       ELSE Fault(t, txn[t]) /\ UNCHANGED queue
    /\ UNCHANGED <<issued, busy, cam, asleep, credit, crossed, noted, gen, store>>

\* NoCRouter.step for one channel and note_traversed for its flit.
RouterStep(v) ==
    /\ Running /\ queue[v] # <<>> /\ credit[v] > 0
    /\ LET t == Head(queue[v])
           owned == txn[t].tag # "none" /\ txn[t].status \notin Final
       IN /\ queue' = [queue EXCEPT ![v] = Tail(@)]
          /\ credit' = IF owned THEN [credit EXCEPT ![v] = @ - 1] ELSE credit
          /\ crossed' = IF owned THEN crossed \cup {<<t, v>>} ELSE crossed
          /\ noted' = IF owned THEN noted \cup {t} ELSE noted
          /\ error' = IF owned THEN "none" ELSE "late NoC return"
    /\ UNCHANGED <<issued, txn, history, busy, cam, asleep, gen, store>>

\* return_credit with a tag: the router must still count the flit.
ReturnCredit(t, v) ==
    /\ crossed' = crossed \ {<<t, v>>}
    /\ credit' = IF <<t, v>> \in crossed /\ credit[v] < VcDepth THEN [credit EXCEPT ![v] = @ + 1] ELSE credit

\* _step_noc_leg, the flit has crossed and the router latency has passed.
LeaveNoc(t) ==
    /\ OnNoc(t) /\ t \in noted
    /\ ReturnCredit(t, VcOf(t))
    /\ noted' = noted \ {t}
    /\ AdvanceLeg(t, txn[t])
    /\ UNCHANGED <<issued, busy, cam, asleep, queue, gen>>
-----------------------------------------------------------------------------
\* Cancellation.

\* _request_cancel: work no stage has accepted is withdrawn at once; an
\* accepted leg, or a flit past the queue, only marks the transaction.  A
\* faulted transaction nobody acknowledged yet takes the same path.
Withdrawn(t) ==
    \/ ~Routed(t) \/ ~OnLeg(t)
    \/ IF IsNoc(Kind(t)) THEN txn[t].tag = "none" \/ t \in Range(queue[VcOf(t)])
       ELSE ~txn[t].started

Unqueued(t) == [v \in Vcs |-> Drop(queue[v], {i \in DOMAIN queue[v] : queue[v][i] = t})]

RequestCancel(t) ==
    /\ Running /\ txn[t].status \in {"running", "faulted"}
    /\ IF Withdrawn(t)
       THEN FinishCancelled(t, [txn[t] EXCEPT !.tag = "none"]) /\ queue' = Unqueued(t)
       ELSE /\ txn' = [txn EXCEPT ![t].status = "cancelling"]
            /\ UNCHANGED <<history, error, queue>>
    /\ asleep' = asleep \ {t}
    /\ UNCHANGED <<issued, busy, cam, credit, crossed, noted, gen, store>>

\* _cancel_txn_resources: what the current leg holds goes back.
CancelResources(t) ==
    IF IsNoc(Kind(t))
    THEN /\ queue' = Unqueued(t)
         /\ IF t \in noted THEN ReturnCredit(t, VcOf(t)) ELSE UNCHANGED <<crossed, credit>>
         /\ noted' = noted \ {t}
         /\ UNCHANGED <<busy, cam, asleep>>
    ELSE Released(t) /\ UNCHANGED <<queue, credit, crossed, noted>>

\* confirm_isolation: the fabric vouches for the leg before it completes.
ConfirmIsolation(t) ==
    /\ Running /\ txn[t].status = "cancelling" /\ OnLeg(t)
    /\ CancelResources(t)
    /\ FinishCancelled(t, [txn[t] EXCEPT !.tag = "none"])
    /\ UNCHANGED <<issued, gen, store>>
-----------------------------------------------------------------------------
\* Acknowledgement, reset and the generations.

\* acknowledge: the Group tick harvests only DONE transfers, a Tile and the
\* host session any terminal one.
Acknowledge(t) ==
    /\ Running /\ txn[t].status \in (IF Req[t].issuer = "group" THEN {"done"} ELSE Final)
    /\ txn' = [txn EXCEPT ![t] = Absent]
    /\ UNCHANGED <<issued, history, fabric, gen, store, error>>

\* acknowledge_all_terminals, from release_context_memory.
AcknowledgeAll ==
    /\ Running /\ Live # {} /\ InflightCount = 0
    /\ txn' = [t \in Ids |-> Absent]
    /\ UNCHANGED <<issued, history, fabric, gen, store, error>>

Drained ==
    /\ busy = {} /\ cam = {} /\ noted = {} /\ crossed = {}
    /\ \A v \in Vcs : queue[v] = <<>> /\ credit[v] = VcDepth

\* reset: with every transaction acknowledged the fabric must be empty.
Reset ==
    /\ Running /\ Live = {} /\ history # <<>>
    /\ history' = <<>>
    /\ error' = IF Drained THEN "none" ELSE "reset before drain"
    /\ UNCHANGED <<txn, issued, fabric, gen, store>>

\* begin_run
BeginRun ==
    /\ Running /\ Live = {} /\ Changes < MaxChanges
    /\ gen' = [gen EXCEPT !["run"] = @ + 1]
    /\ UNCHANGED <<issued, txn, history, fabric, store, error>>

\* note_profile_commit, which the profile controller calls once no transfer
\* touches the level.
NoteProfileCommit(level) ==
    /\ Running /\ Quiescent(level) /\ Changes < MaxChanges
    /\ gen' = [gen EXCEPT ![level] = @ + 1]
    /\ UNCHANGED <<issued, txn, history, fabric, store, error>>

\* External: the arenas.  An L1 view is invalidated only without an inflight
\* access; an L2 view may be cancelled under one, and its cells are given to
\* a new view once no transaction references them.
RetireView(v) ==
    /\ Running /\ v.space # "hbm" /\ store[v].live /\ Changes < MaxChanges
    /\ v.space = "l1" => ~HasInflightAccess(v)
    /\ store' = [store EXCEPT ![v].live = FALSE]
    /\ UNCHANGED <<issued, txn, history, fabric, gen, error>>

BindView(v) ==
    /\ Running /\ ~store[v].live /\ ~Referenced(v)
    /\ store' = [store EXCEPT ![v] = [live |-> TRUE, gen |-> @.gen + 1, bytes |-> "none"]]
    /\ UNCHANGED <<issued, txn, history, fabric, gen, error>>
-----------------------------------------------------------------------------
Visit(t) == Reject(t) \/ IssueLeg(t) \/ Refuse(t) \/ CompleteLeg(t) \/ EnterNoc(t) \/ LeaveNoc(t)

Next ==
    \/ \E t \in Ids : Submit(t) \/ Visit(t) \/ RequestCancel(t) \/ ConfirmIsolation(t) \/ Acknowledge(t)
    \/ \E b \in busy : Lapse(b)
    \/ \E v \in Vcs : RouterStep(v)
    \/ AcknowledgeAll \/ Reset \/ BeginRun
    \/ \E level \in {"l1", "l2"} : NoteProfileCommit(level)
    \/ \E v \in Views : RetireView(v) \/ BindView(v)

\* A cycle steps the router and visits every transaction.
Spec ==
    /\ Init /\ [][Next]_vars
    /\ \A t \in Ids : WF_vars(Visit(t))
    /\ \A v \in Vcs : WF_vars(RouterStep(v))
-----------------------------------------------------------------------------
Record == [status : {"absent", "running", "cancelling"} \cup Final, leg : Nat,
           started : BOOLEAN, tag : {"none", "noc_response", "noc_request"},
           stamp : [Domains -> Nat], src : Nat, dst : Nat, data : {"none", "some", "all"},
           written : BOOLEAN, refs : BOOLEAN]

\* The shape of the manager's state.
TypeOK ==
    /\ txn \in [Ids -> Record]
    /\ history \in Seq(Ids \X Final) /\ Len(history) <= Tombstones
    /\ \A b \in busy : b[2] \in Channels(b[1][1]) /\ b[3] \in Ids
    /\ cam \subseteq Ids /\ asleep \subseteq Ids /\ noted \subseteq Ids
    /\ queue \in [Vcs -> Seq(Ids)] /\ credit \in [Vcs -> 0 .. VcDepth] /\ crossed \subseteq Ids \X Vcs
    /\ gen \in [Domains -> Nat]
    /\ store \in [Views -> [live : BOOLEAN, gen : Nat, bytes : {"none", "some", "all"}]]

\* Whatever the fabric holds, an accepted leg of an unfinished transaction
\* holds: a bank, a CAM entry or a flit outlives neither its leg nor a
\* cancellation, an isolation or a fault, a bank has one holder, and the
\* credits of a channel are the flits that have not come back.
FabricExact ==
    /\ \A b \in busy : /\ txn[b[3]].status \in {"running", "cancelling"} /\ txn[b[3]].started
                       /\ b[1] = StageFor(b[3])
                       /\ \A c \in busy : b[1] = c[1] /\ b[2] = c[2] => b = c
    /\ Cardinality(cam) <= HbmLimit
    /\ \A t \in cam : txn[t].status \in {"running", "cancelling"} /\ txn[t].started /\ IsHbm(Kind(t))
    /\ \A t \in Ids : (txn[t].tag # "none") <=> (t \in noted \/ \E v \in Vcs : t \in Range(queue[v]))
    /\ \A t \in Ids : txn[t].tag # "none" => txn[t].status \in {"running", "cancelling"}
    /\ noted = {c[1] : c \in crossed}
    /\ \A v \in Vcs : credit[v] + Cardinality({c \in crossed : c[2] = v}) = VcDepth

\* A skipped retry would have been refused: no transaction sleeps on a stage
\* that would accept it (TransferStage.free_epoch).
NoLostWakeup == \A t \in asleep : ~txn[t].started /\ ~CanIssue(t)

\* The manager raises against its own callers in two cases only: a faulted
\* transfer nobody acknowledged is cancelled, or more transfers await their
\* acknowledgement than there are tombstones.  No flit comes back late, and a
\* reset with every transaction acknowledged finds the fabric empty.
ErrorsExplained ==
    /\ error \in {"none", "terminal status changed", "tombstones exhausted"}
    /\ error = "terminal status changed" => \E t \in Live : txn[t].status = "cancelled" /\ RecordedAs(t) = {}
    /\ error = "tombstones exhausted" => Cardinality(Live) > Tombstones

\* A transaction whose run or profile is no longer current takes no resource,
\* sends no flit and neither captures nor writes a byte; one whose
\* destination view is gone writes nothing.
StaleIsolated ==
    [][\A t \in Ids :
         /\ ~IdentityValid(t) /\ txn[t].status # "absent" /\ txn'[t].status # "absent" =>
               /\ (txn'[t].started => txn[t].started)
               /\ txn'[t].data = txn[t].data
               /\ txn'[t].written = txn[t].written
         /\ ~HandleLive(Req[t].dst, txn[t].dst) => (txn'[t].written => txn[t].written)]_vars

\* A transfer that reports DONE captured every byte of its source under the
\* generation it was submitted with and made them visible at its destination.
DoneMeansMoved ==
    \A t \in Ids : txn[t].status = "done" =>
        /\ Req[t].dst # NoEnd => txn[t].written /\ txn[t].data = "all"
        /\ Req[t].src # NoEnd => txn[t].data # "none"

\* An accepted transfer reaches a terminal status, whatever contends for its
\* banks, the CAM and the virtual channels, cancelled or not: none is under way
\* for ever.
EveryTransferEnds ==
    \A t \in Ids : []<>(error # "none" \/ txn[t].status \notin {"running", "cancelling"})

\* The fabric holds exactly what the transactions account for, and the manager
\* raises only for a reason (step, cancel, isolate_stale, reset).
FabricSound == TypeOK /\ FabricExact /\ ErrorsExplained

\* Data moves completely or not at all, and only for a transaction that is still
\* current (_capture_source, _commit_destination, _identity_valid).
DataTrue == []DoneMeansMoved /\ StaleIsolated
=============================================================================
