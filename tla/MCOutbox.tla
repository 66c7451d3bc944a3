------------------------------ MODULE MCOutbox ------------------------------
(* Instances of Outbox for TLC. *)
EXTENDS OutboxRefinement, TLC

\* Workers, slots and messages are interchangeable.
Symmetry == Permutations(Worker) \cup Permutations(Slot) \cup Permutations(Msg)
=============================================================================
