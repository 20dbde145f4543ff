----------------------------- MODULE MCHookIO ------------------------------
(* HookIO for TLC. *)
EXTENDS HookIO, TLC

Symmetry == Permutations(Co)

=============================================================================
