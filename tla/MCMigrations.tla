---------------------------- MODULE MCMigrations ----------------------------
(* The two migration files: the first with several statements, the second with one. *)
EXTENDS Migrations

TwoFiles == [v \in 1..2 |-> IF v = 1 THEN 2 ELSE 1]

=============================================================================
