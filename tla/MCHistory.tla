----------------------------- MODULE MCHistory -----------------------------
(* Instances of History for TLC. *)
EXTENDS History, TLC

Symmetry == Permutations(Msg) \cup Permutations(Proc)
=============================================================================
