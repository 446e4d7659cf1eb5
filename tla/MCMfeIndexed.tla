------------------------------ MODULE MCMfeIndexed ------------------------------
(* Two Tiles, one-line caches, one-entry refill tables, lines of two bytes: *)
(* Tile 1 scatters and then gathers a byte of each line; Tile 2 gathers     *)
(* one of those lines meanwhile.                                            *)
EXTENDS MfeIndexed

Job(kind, tile, repeat, segment) ==
    [kind |-> kind, tile |-> tile, task |-> 0, indices |-> <<0>>, window |-> 1,
     bypass_forbidden |-> FALSE,
     map |-> [index_scale |-> 1, offset |-> 0, task_stride |-> 0, repeat |-> repeat,
              stride |-> 2, segment |-> segment]]
MCJobs == 1 .. 3
MCDesc == << Job("scatter", 1, 1, 1), Job("gather", 1, 2, 1), Job("gather", 2, 1, 2) >>

=============================================================================
