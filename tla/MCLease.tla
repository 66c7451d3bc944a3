------------------------------ MODULE MCLease -------------------------------
(***************************************************************************)
(* A chunk of two messages; a second has four units.  The leases are below *)
(* a second, just above it and above two seconds; the database's clock is  *)
(* level with the worker's, ahead of it or behind it.                      *)
(***************************************************************************)
EXTENDS Lease

C(d, l, s) == [dialect |-> d, lease |-> l, skew |-> s]

MCConfigs ==
    {C("postgres", 3, 0), C("postgres", 6, 0), C("postgres", 9, 2), C("mysql", 6, 0),
     C("mysql", 9, -1)}

\* A behaviour is followed up to the first late pass: no property says anything about
\* what comes after it.
InTime == ~late

=============================================================================
