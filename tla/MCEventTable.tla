---------------------------- MODULE MCEventTable ----------------------------
(* Two launches over two shared event names, a table of two slots.           *)
EXTENDS EventTable, TLC

CONSTANTS l1, l2, a, b

MCLaunches == {l1, l2}
MCNames == {a, b}
\* l1 produces a (read twice) and b (never read); l2 produces a and reads it once.
MCUses == l1 :> (a :> 2 @@ b :> 0) @@ l2 :> (a :> 1)
=============================================================================
