------------------------------ MODULE Janitor -------------------------------
(***************************************************************************)
(* The janitors of a fleet (worker.go, runJanitorLoop and tryPurge): every *)
(* worker's ticker tries the leader lock (module LeaderLock) and runs a    *)
(* purge pass (module Retention) inside.  The lock can be lost while the   *)
(* pass goes on, so that passes of two workers overlap.                    *)
(***************************************************************************)
EXTENDS Retention

CONSTANTS Holder, None, Ttl

ASSUME LeaderLockAssumption ==
    /\ None \notin Holder /\ Ttl \in Nat \ {0}
    /\ IsFiniteSet(Worker) /\ IsFiniteSet(Holder) /\ Cardinality(Holder) > Cardinality(Worker)

VARIABLES lock, left, term

key == "tickr.janitor"
Leader == INSTANCE LeaderLock WITH Key <- {key}

leadership == <<lock, left, term>>
janitorVars == <<retention, leadership, dialect>>

JanitorTypeOK == RetentionTypeOK /\ Leader!TypeOK

JanitorInit == RetentionInit /\ Leader!Init

-----------------------------------------------------------------------------
\* The ticker fires and the lock is granted.
tryPurge(w) == Leader!TryLeaderLock(w, key) /\ PassBegins(w) /\ UNCHANGED dialect

Purge(w) == (PurgeTerminal(w) \/ PurgeHistory(w)) /\ UNCHANGED <<leadership, dialect>>
PurgeEnds(w) == (PurgeFails(w) \/ PassInterrupted(w)) /\ UNCHANGED <<leadership, dialect>>

\* The deferred unlock after the pass.
EndTerm(w) ==
    /\ pass[w] = "idle"
    /\ Leader!Unlock(w, key) \/ Leader!UnlockLost(w, key)
    /\ UNCHANGED <<retention, dialect>>

LosesSession(w) == Leader!SessionLost(w, key) /\ UNCHANGED <<retention, dialect>>
LeaseTick == Leader!Tick(key) /\ UNCHANGED <<retention, dialect>>

Clock == Tick /\ UNCHANGED <<leadership, dialect>>
Others ==
    /\ \E m \in Msg : Complete(m) \/ Requeue(m)
    /\ UNCHANGED <<leadership, dialect>>

JanitorNext ==
    \/ Clock \/ Others \/ LeaseTick
    \/ \E w \in Worker : tryPurge(w) \/ Purge(w) \/ PurgeEnds(w) \/ EndTerm(w) \/ LosesSession(w)

\* The clocks and the workers' tickers keep running, and passes make progress.
JanitorSpec ==
    /\ JanitorInit /\ [][JanitorNext]_janitorVars
    /\ WF_janitorVars(Clock) /\ WF_janitorVars(LeaseTick)
    /\ WF_janitorVars(\E w \in Worker : tryPurge(w))
    /\ \A w \in Worker : WF_janitorVars(Purge(w)) /\ WF_janitorVars(EndTerm(w))

-----------------------------------------------------------------------------
(* Properties *)

\* A leader that stays inside the pass keeps the lock against every other worker for as
\* long as its session lives, or its lease runs: neither a late unlock of an earlier
\* leader nor another TryLeaderLock takes it away.
LeaderKeepsLock ==
    [][\A w \in Worker :
          /\ Leader!Leads(w, key) /\ lock[key] = term[w][key]
          /\ Leader!Leased => left[key] > 0
          /\ term'[w] = term[w] /\ ~LosesSession(w)
          => lock'[key] = term[w][key]]_janitorVars

\* The age that every terminal message is left to reach, SUCCESS or DEAD: PurgeTerminal does
\* not tell them apart, so that each of the two phases deletes both at its own age.
ShorterAge == IF Dead < 0 THEN SuccessAge ELSE Min({SuccessAge, DeadAge})

\* ARCHITECTURE.md: the janitor "Deletes terminal rows older than the retention policy": at
\* the moment of its deletion a message is terminal and completed longer ago than the
\* shorter of the two retentions, although cutoffs are computed batches ago, passes overlap
\* and messages are requeued and completed again meanwhile.  It need not have reached the
\* retention of its own status: with the defaults a DEAD row goes after the day of SUCCESS
\* rows, not after thirty (worker.go, tryPurge's first loop).
PurgesOnlyExpired ==
    [][\A m \in Msg : status'[m] = "PURGED" /\ status[m] # "PURGED"
          => status[m] \in Terminal /\ now - completed[m] > ShorterAge]_janitorVars

\* The same, with the shorter retention again, of the adapters whose delete evaluates its
\* condition on locked rows.
LockedPurgesOnlyExpired ==
    [][Locking => \A m \in Msg : status'[m] = "PURGED" /\ status[m] # "PURGED"
          => status[m] \in Terminal /\ now - completed[m] > ShorterAge]_janitorVars

\* Every message that stays terminal is deleted in the end, whatever single deletes fail,
\* although a full batch keeps the pass in its phase, and although leaders die and leave their
\* lock behind.
EventuallyPurged ==
    \A m \in Msg : (status[m] \in Terminal /\ completed[m] + ShorterAge < Horizon)
                     ~> (status[m] \notin Terminal)

=============================================================================
