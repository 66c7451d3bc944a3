---------------------------- MODULE MCJanitor -----------------------------
(* Two workers of a fleet, and the rows of a short history. *)
EXTENDS Janitor

=============================================================================
