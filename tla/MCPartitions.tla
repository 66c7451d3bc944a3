---------------------------- MODULE MCPartitions ----------------------------
(* Partitions for TLC: half months up to the third month. *)
EXTENDS Partitions, TLC

Symmetry == Permutations(Msg) \cup Permutations(Maintainer)

=============================================================================
