---------------------------- MODULE MCAttempts ----------------------------
(* Attempts for TLC: six-bit durations, so that the fourth attempt overflows. *)
EXTENDS Attempts

AllKinds == {"plain", "http", "grpc"}
Predicates == {{}, {"transport", "error", "transient"}}

=============================================================================
