---------------------------- MODULE MCCoSwitch ----------------------------
(* CoSwitch for TLC. *)
EXTENDS CoSwitch, TLC

Symmetry == Permutations(Co)

=============================================================================
