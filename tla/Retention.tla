----------------------------- MODULE Retention -----------------------------
(***************************************************************************)
(* The janitor (worker.go, tryPurge and purgeHistory): bounded deletes of  *)
(* terminal messages and of history rows, in three phases, while messages  *)
(* complete and are requeued.  Ages and the clock are integers; one clock  *)
(* stands for the workers', which give the cutoffs, and the database's,    *)
(* which gives completed_at, so offsets between them are left out.  More   *)
(* than one worker can be in its pass (module Janitor has the lock).       *)
(***************************************************************************)
EXTENDS Integers, FiniteSets, FiniteSetsExt

CONSTANTS Msg, Worker,
          Success, Dead, History,  \* RetentionPolicy; 0: default, negative: see Ages
          DefaultSuccess,          \* 24h
          DefaultLong,             \* 30d
          PurgeBatch,
          Horizon,                 \* last instant of the clock
          MaxFaults                \* bound on failing deletes and interrupted passes

ASSUME RetentionAssumption ==
    /\ {Success, Dead, History} \subseteq Int
    /\ {DefaultSuccess, DefaultLong, PurgeBatch} \subseteq Nat \ {0}
    /\ Horizon \in Nat /\ MaxFaults \in Nat

VARIABLES status,     \* of each message
          completed,  \* completed_at, or -1 for NULL
          hist,       \* instant of each message's newest history row, -1: none left
          now, faults,
          pass, cutoff, \* each worker's phase of its pass, and the cutoff of that phase
          chosen,     \* the rows the subquery of its running delete has returned
          dialect

\* The delete evaluates its condition on locked rows: MySQL, and CockroachDB's SERIALIZABLE.
Locking == dialect # "postgres"

retention == <<status, completed, hist, now, faults, pass, cutoff, chosen>>

Terminal == {"SUCCESS", "DEAD"}

RetentionTypeOK ==
    /\ status \in [Msg -> {"ACTIVE", "PURGED"} \cup Terminal]
    /\ completed \in [Msg -> -1..Horizon]
    /\ hist \in [Msg -> -1..Horizon]
    /\ now \in 0..Horizon /\ cutoff \in [Worker -> Int] /\ faults \in 0..MaxFaults
    /\ pass \in [Worker -> {"idle", "success", "dead", "history"}]
    /\ chosen \in [Worker -> SUBSET Msg]

\* The effective ages.
SuccessAge == IF Success <= 0 THEN DefaultSuccess ELSE Success
DeadAge == IF Dead = 0 THEN DefaultLong ELSE Dead
HistoryAge ==
    IF History # 0 THEN History
    ELSE Max({SuccessAge, IF Dead < 0 THEN 0 ELSE DeadAge, DefaultLong})

RetentionInit ==
    /\ status = [m \in Msg |-> "ACTIVE"]
    /\ completed = [m \in Msg |-> -1]
    /\ hist = [m \in Msg |-> 0]
    /\ now = 0 /\ faults = 0
    /\ pass = [w \in Worker |-> "idle"]
    /\ cutoff = [w \in Worker |-> 0] /\ chosen = [w \in Worker |-> {}]

-----------------------------------------------------------------------------
Tick ==
    /\ now < Horizon
    /\ now' = now + 1
    /\ UNCHANGED <<status, completed, hist, pass, cutoff, faults, chosen>>

\* A worker settles the message.
Complete(m) ==
    /\ status[m] = "ACTIVE"
    /\ \E s \in Terminal : status' = [status EXCEPT ![m] = s]
    /\ completed' = [completed EXCEPT ![m] = now]
    /\ hist' = [hist EXCEPT ![m] = now]
    /\ UNCHANGED <<now, pass, cutoff, faults, chosen>>

\* An operator requeues a DEAD message.
Requeue(m) ==
    /\ status[m] = "DEAD"
    /\ status' = [status EXCEPT ![m] = "ACTIVE"]
    /\ completed' = [completed EXCEPT ![m] = -1]
    /\ hist' = [hist EXCEPT ![m] = now]
    /\ UNCHANGED <<now, pass, cutoff, faults, chosen>>

\* tryPurge starts a phase with the cutoff of that moment; a negative age skips
\* the dead phase and the history phase.
EnterPhase(w, phase) ==
    LET p == IF phase = "dead" /\ Dead < 0 THEN "history" ELSE phase
        q == IF p = "history" /\ HistoryAge < 0 THEN "idle" ELSE p
        age == [success |-> SuccessAge, dead |-> DeadAge, history |-> HistoryAge]
    IN  /\ pass' = [pass EXCEPT ![w] = q]
        /\ cutoff' = [cutoff EXCEPT ![w] = IF q = "idle" THEN 0 ELSE now - age[q]]

PassBegins(w) ==
    /\ pass[w] = "idle"
    /\ EnterPhase(w, "success")
    /\ UNCHANGED <<status, completed, hist, now, faults, chosen>>

After(phase) == IF phase = "success" THEN "dead" ELSE "history"

\* Mutants of Expired: the cutoff itself included; DEAD rows forgotten.
ExpiredInclusive(w) == {m \in Msg : status[m] \in Terminal /\ completed[m] <= cutoff[w]}
ExpiredSuccess(w) == {m \in Msg : status[m] = "SUCCESS" /\ completed[m] < cutoff[w]}

\* What PurgeTerminal may delete, and the at most n oldest rows of a set.
Expired(w) == {m \in Msg : status[m] \in Terminal /\ completed[m] < cutoff[w]}
Oldest(S, n) ==
    {T \in kSubset(Min({n, Cardinality(S)}), S) :
        \A a \in T, b \in S \ T : completed[a] <= completed[b]}

\* The rows in T are deleted, those that still exist; a full batch means there may be more.
Delete(w, T) ==
    LET gone == {m \in T : status[m] # "PURGED"} IN
    /\ status' = [m \in Msg |-> IF m \in gone THEN "PURGED" ELSE status[m]]
    /\ IF Cardinality(gone) < PurgeBatch THEN EnterPhase(w, After(pass[w]))
                                         ELSE UNCHANGED <<pass, cutoff>>
    /\ UNCHANGED <<completed, hist, now, faults>>

\* The statement checks the rows it deletes, and takes any that are expired.
PurgeLocking(w) ==
    /\ Locking /\ pass[w] \in {"success", "dead"}
    /\ \E T \in kSubset(Min({PurgeBatch, Cardinality(Expired(w))}), Expired(w)) : Delete(w, T)
    /\ UNCHANGED chosen

\* Postgres's statement: a subquery on the statement's snapshot returns ids ...
PurgeSelects(w) ==
    /\ ~Locking /\ pass[w] \in {"success", "dead"} /\ chosen[w] = {}
    /\ IF Expired(w) = {}
       THEN EnterPhase(w, After(pass[w])) /\ UNCHANGED chosen
       ELSE /\ \E T \in Oldest(Expired(w), PurgeBatch) : chosen' = [chosen EXCEPT ![w] = T]
            /\ UNCHANGED <<pass, cutoff>>
    /\ UNCHANGED <<status, completed, hist, now, faults>>

\* ... and the rows with these ids are deleted.  A row that was updated meanwhile is
\* checked again for its id only.
PurgeDeletes(w) ==
    /\ chosen[w] # {}
    /\ Delete(w, chosen[w])
    /\ chosen' = [chosen EXCEPT ![w] = {}]

PurgeTerminal(w) == PurgeLocking(w) \/ PurgeSelects(w) \/ PurgeDeletes(w)

\* PurgeHistory's statements, all batches at once: nothing below tells apart how
\* far the loop has come.
PurgeHistory(w) ==
    /\ pass[w] = "history"
    /\ hist' = [m \in Msg |-> IF hist[m] < cutoff[w] THEN -1 ELSE hist[m]]
    /\ EnterPhase(w, "idle")
    /\ UNCHANGED <<status, completed, now, faults, chosen>>

\* A failing delete ends its phase only.
PurgeFails(w) ==
    /\ pass[w] # "idle" /\ faults < MaxFaults
    /\ faults' = faults + 1
    /\ EnterPhase(w, IF pass[w] = "history" THEN "idle" ELSE After(pass[w]))
    /\ chosen' = [chosen EXCEPT ![w] = {}]
    /\ UNCHANGED <<status, completed, hist, now>>

\* The worker shuts down between two batches, or dies, which ends the pass.
PassInterrupted(w) ==
    /\ pass[w] # "idle" /\ faults < MaxFaults
    /\ faults' = faults + 1
    /\ EnterPhase(w, "idle")
    /\ chosen' = [chosen EXCEPT ![w] = {}]
    /\ UNCHANGED <<status, completed, hist, now>>

=============================================================================
