----------------------------- MODULE LeaderLock -----------------------------
(***************************************************************************)
(* Leader election for the background loops: tryReclaim, tryPurge and      *)
(* sampleStats each run their body between TryLeaderLock(key) and unlock.  *)
(* In Postgres and MySQL the lock belongs to a database session and goes   *)
(* with it; in CockroachDB it is a row of tickr_locks with a 60 second     *)
(* lease and a fresh holder id per acquisition.  Module Janitor runs a     *)
(* body inside.                                                            *)
(***************************************************************************)
EXTENDS Naturals, FiniteSets

CONSTANTS Worker,
          Key,        \* tickr.reclaimer, tickr.janitor, tickr.stats
          Holder,     \* holder ids: uuids, or sessions
          None,
          Ttl         \* the row's lease, in ticks of the database clock

VARIABLES dialect,  \* "postgres", "mysql" or "cockroach"
          lock,     \* the holder id that has the lock of each key, or None
          left,     \* ticks until the row's lease is over
          term      \* a worker's holder id while it runs the key's body, or None

\* The lock is a row with a lease, not a session lock.
Leased == dialect = "cockroach"

TypeOK ==
    /\ dialect \in {"postgres", "mysql", "cockroach"}
    /\ lock \in [Key -> Holder \cup {None}]
    /\ left \in [Key -> 0..Ttl]
    /\ term \in [Worker -> [Key -> Holder \cup {None}]]

Init ==
    /\ dialect \in {"postgres", "mysql", "cockroach"}
    /\ lock = [k \in Key |-> None]
    /\ left = [k \in Key |-> 0]
    /\ term = [w \in Worker |-> [k \in Key |-> None]]

\* Mutant of Available: a held lock is granted.
AvailableAlways(k) == TRUE

\* pg_try_advisory_lock and GET_LOCK grant a free lock; the upsert also takes over
\* a row whose lease is over.
Available(k) == lock[k] = None \/ (Leased /\ left[k] = 0)

\* A tick of the loop that gets the lock; one that does not changes nothing.
TryLeaderLock(w, k) ==
    /\ term[w][k] = None
    /\ Available(k)
    /\ LET h == CHOOSE h \in Holder : h \notin {lock[k]} \cup {term[v][k] : v \in Worker}
       IN  /\ lock' = [lock EXCEPT ![k] = h]
           /\ term' = [term EXCEPT ![w][k] = h]
    /\ left' = IF Leased THEN [left EXCEPT ![k] = Ttl] ELSE left

\* unlock at the end of the body: DELETE ... WHERE key AND holder, or the unlock
\* function of the session that took the lock.
Unlock(w, k) ==
    /\ term[w][k] # None
    /\ lock' = IF lock[k] = term[w][k] THEN [lock EXCEPT ![k] = None] ELSE lock
    /\ term' = [term EXCEPT ![w][k] = None]
    /\ UNCHANGED left

\* The worker dies inside the body, or the unlock statement fails: a session lock
\* goes with the connection, a row stays until its lease is over.
UnlockLost(w, k) ==
    /\ term[w][k] # None
    /\ lock' = IF ~Leased /\ lock[k] = term[w][k] THEN [lock EXCEPT ![k] = None] ELSE lock
    /\ term' = [term EXCEPT ![w][k] = None]
    /\ UNCHANGED left

\* The connection that holds the lock breaks while the body goes on over the others
\* of the pool.
SessionLost(w, k) ==
    /\ ~Leased
    /\ term[w][k] # None /\ lock[k] = term[w][k]
    /\ lock' = [lock EXCEPT ![k] = None]
    /\ UNCHANGED <<left, term>>

Tick(k) ==
    /\ left[k] > 0
    /\ left' = [left EXCEPT ![k] = @ - 1]
    /\ UNCHANGED <<lock, term>>

Leads(w, k) == term[w][k] # None

=============================================================================
