--------------------------- MODULE MCTransferManager ---------------------------
(***************************************************************************)
(* A prefetch, a Tile store into the same L2 bank, a host write, the clean *)
(* of a cache line, a Gather that bypasses the caches, the last step of    *)
(* one that does not, and a lookup whose every leg is bypassed, over one   *)
(* HBM channel, one CAM entry and one credit a virtual channel.            *)
(***************************************************************************)
EXTENDS TransferManager

Hbm == [id |-> "h", space |-> "hbm", banks |-> {0}]   \* seeded before the run
Page == [id |-> "p", space |-> "hbm", banks |-> {0}]  \* partly written
L2 == [id |-> "b", space |-> "l2", banks |-> {0}]
L1 == [id |-> "a", space |-> "l1", banks |-> {0}]
MCViews == {Hbm, Page, L2, L1}

Request(op, src, dst, issuer, domains) ==
    [op |-> op, src |-> src, dst |-> dst, tile |-> 1, bypass |-> {}, issuer |-> issuer, domains |-> domains]

MCReq == [t \in Ids |->
    CASE t = "g" -> Request("PREFETCH", Hbm, L2, "group", {"l2"})
      [] t = "u" -> Request("TILE_STORE", L1, L2, "tile", {"l1", "l2"})
      [] t = "w" -> Request("HOST_WRITE", NoEnd, Page, "host", {"l2"})
      [] t = "c" -> Request("CACHE_CLEAN_L2", NoEnd, Hbm, "host", {"l2"})
      [] t = "d" -> Request("GATHER_DEST_WRITE", NoEnd, L1, "tile", {"l1", "l2"})
      [] t = "r" -> Request("GATHER_DIRECT_RESPONSE", Page, L1, "tile", {"l1", "l2"})
      [] t = "x" -> [Request("GATHER_L1_LOOKUP", NoEnd, NoEnd, "tile", {"l1", "l2"})
                       EXCEPT !.bypass = {"l1"}]]

MCChannels(stage) == {0}
MCSeeded(v) == IF v = Hbm THEN "all" ELSE IF v = Page THEN "some" ELSE "none"
=============================================================================
