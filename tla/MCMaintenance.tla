---------------------------- MODULE MCMaintenance ----------------------------
(***************************************************************************)
(* Instances of Maintenance for TLC.                                       *)
(***************************************************************************)
EXTENDS Maintenance, TLC

Symmetry == Permutations(Operators) \cup Permutations(Jobs)

=============================================================================
