---------------------------- MODULE MCLifecycle ----------------------------
(* Two callers of Start, two that call Stop again and again, one background loop, and a
   claim loop that doubles its back-off once. *)
EXTENDS Lifecycle

=============================================================================
