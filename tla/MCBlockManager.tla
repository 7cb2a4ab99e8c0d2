--------------------------- MODULE MCBlockManager ---------------------------
(* Constants for checking BlockManager: sectors of four blocks (two bytes of two *)
(* bits), of which the first two may be filled by calls.                         *)
EXTENDS BlockManager

CONSTANTS empty, small, large, none

MCValues == {empty, small, large}
MCSize == [v \in MCValues |-> CASE v = empty -> 0 [] v = small -> 1 [] v = large -> 2]

=============================================================================
