---------------------------- MODULE MCTimeWheel ----------------------------
(* TimeWheel for TLC: timeouts that are in the past, short, just within one *)
(* turn of the wheel and just too long.                                     *)
EXTENDS TimeWheel, TLC

MCTimeouts == -1..3

Symmetry == Permutations(Item)

=============================================================================
