---------------------------- MODULE TransferRoutes ----------------------------
(***************************************************************************)
(* The routes of a memory transaction: which legs each operation takes,    *)
(* which resource stage serves a leg, and which leg touches the source or  *)
(* the destination.  A request is [op, src, dst, tile, bypass, ...]; its   *)
(* ends are views [id, space, banks] or NoEnd.                             *)
(***************************************************************************)
EXTENDS Integers, Sequences

CONSTANTS Full  \* full_memory: real routes; otherwise one collapsed leg

NoEnd == [id |-> "none", space |-> "none", banks |-> {}]

\* _build_route, the reads of a Gather and of an index.
GatherRoutes == [
    INDEX_READ |-> <<"l1_read">>,
    GATHER_L1_LOOKUP |-> <<"l1_cache_lookup">>,
    GATHER_L2_LOOKUP |-> <<"l2_cache_lookup">>,
    GATHER_L2_RESPONSE |-> <<"noc_response", "local_dma">>,
    GATHER_HBM_REFILL |-> <<"hbm_read", "noc_response", "l2_cache_fill">>,
    GATHER_L2_REFILL |-> <<"noc_response", "local_dma", "l1_cache_fill">>,
    GATHER_DIRECT_L1_REFILL |-> <<"hbm_read", "noc_response", "local_dma", "l1_cache_fill">>,
    GATHER_DIRECT_RESPONSE |-> <<"hbm_read", "noc_response", "local_dma">>,
    GATHER_DEST_WRITE |-> <<"l1_write">>]

\* _build_route, scatter, host, clean and the copies between levels.
CopyRoutes == [
    SCATTER_WRITE |-> <<"l1_read", "local_dma", "noc_request", "global_dma", "hbm_write">>,
    HOST_READ |-> <<"hbm_read", "global_dma", "noc_response">>,
    HOST_WRITE |-> <<"noc_request", "global_dma", "hbm_write">>,
    CACHE_CLEAN_L1 |-> <<"local_dma", "l2_write", "noc_request", "global_dma", "hbm_write">>,
    CACHE_CLEAN_L2 |-> <<"noc_request", "global_dma", "hbm_write">>,
    PREFETCH |-> <<"hbm_read", "global_dma", "noc_response", "l2_write">>,
    GLOBAL_STORE |-> <<"l2_read", "noc_request", "global_dma", "hbm_write">>,
    TILE_LOAD |-> <<"l2_read", "local_dma", "l1_write">>,
    TILE_STORE |-> <<"l1_read", "local_dma", "l2_write">>]

Copies == {"PREFETCH", "GLOBAL_STORE", "TILE_LOAD", "TILE_STORE"}
BuildRoute(op) == IF op \in DOMAIN GatherRoutes THEN GatherRoutes[op] ELSE CopyRoutes[op]

\* _collapsed_leg
CollapsedLeg(op) == IF op \in {"TILE_LOAD", "TILE_STORE"} THEN <<"local_dma">> ELSE <<"global_dma">>

CacheLegs(level) ==
    IF level = "l1" THEN {"l1_cache_lookup", "l1_cache_fill"} ELSE {"l2_cache_lookup", "l2_cache_fill"}

\* The route submit() freezes; <<>> is one it refuses.
Legs(req) ==
    LET whole == IF req.op \notin Copies THEN BuildRoute(req.op)
                 ELSE IF req.src = NoEnd /\ req.dst = NoEnd THEN CollapsedLeg(req.op)
                 ELSE IF req.src = NoEnd \/ req.dst = NoEnd THEN <<>>
                 ELSE IF Full THEN BuildRoute(req.op) ELSE CollapsedLeg(req.op)
    IN SelectSeq(whole, LAMBDA k : \A level \in req.bypass : k \notin CacheLegs(level))

IsNoc(kind) == kind \in {"noc_response", "noc_request"}
Channel(kind) == IF kind = "noc_response" THEN 1 ELSE 2

\* _stage_for_leg: the local stages are one per Tile, the local DMA one per
\* direction as well.
StageOf(kind, req) ==
    CASE kind = "local_dma" ->
            <<IF req.op \in {"TILE_STORE", "CACHE_CLEAN_L1"} THEN "dma_store" ELSE "dma_load", req.tile>>
      [] kind \in {"l1_read", "l1_write", "l1_cache_lookup", "l1_cache_fill"} -> <<kind, req.tile>>
      [] OTHER -> <<kind, 0>>

IsHbm(kind) == kind \in {"hbm_read", "hbm_write"}

\* The stages that share a free epoch: HBM reads and writes have one CAM.
Family(stage) == IF IsHbm(stage[1]) THEN <<"hbm", 0>> ELSE stage

\* _leg_reads_source and _leg_writes_destination
ReadsSource(kind, req) == <<kind, req.src.space>> \in {<<"hbm_read", "hbm">>, <<"l2_read", "l2">>, <<"l1_read", "l1">>}
WritesDestination(kind, req) == <<kind, req.dst.space>> \in {<<"hbm_write", "hbm">>, <<"l2_write", "l2">>, <<"l1_write", "l1">>}

\* _requests_for_leg: the channel or banks a leg needs; none given means any
\* free channel of the stage.
Wanted(kind, req) ==
    IF ReadsSource(kind, req) \/ kind = "hbm_read" THEN req.src.banks
    ELSE IF WritesDestination(kind, req) \/ kind = "hbm_write" THEN req.dst.banks
    ELSE {}

IssuePhase(kind, req) ==
    IF ReadsSource(kind, req) THEN "source" ELSE IF WritesDestination(kind, req) THEN "destination"
    ELSE "transport"

\* _transaction_levels: the memory levels a transaction touches, by its
\* views and the ends of its legs.
Levels(req) ==
    LET hbm == {"GATHER_HBM_REFILL", "GATHER_DIRECT_L1_REFILL", "GATHER_DIRECT_RESPONSE", "SCATTER_WRITE",
                "HOST_READ", "HOST_WRITE", "CACHE_CLEAN_L1", "CACHE_CLEAN_L2", "PREFETCH", "GLOBAL_STORE"}
        l2 == {"GATHER_L2_LOOKUP", "GATHER_HBM_REFILL", "GATHER_L2_REFILL", "CACHE_CLEAN_L1", "CACHE_CLEAN_L2"}
              \cup Copies
        l1 == {"INDEX_READ", "GATHER_L1_LOOKUP", "GATHER_L2_RESPONSE", "GATHER_L2_REFILL", "TILE_LOAD",
               "GATHER_DIRECT_L1_REFILL", "GATHER_DIRECT_RESPONSE", "GATHER_DEST_WRITE", "SCATTER_WRITE",
               "CACHE_CLEAN_L1", "TILE_STORE"}
    IN ({req.src.space, req.dst.space} \ {"none"})
       \cup {level \in {"hbm", "l2", "l1"} :
               req.op \in (IF level = "hbm" THEN hbm ELSE IF level = "l2" THEN l2 ELSE l1)}
=============================================================================
