---------------------------- MODULE OutboxMySQL ----------------------------
(***************************************************************************)
(* The MySQL adapter over the same table and copies as module Outbox, from *)
(* which it takes the statements that are the same.  What differs: a       *)
(* batched acknowledgement is fenced by the attempt, every other write by  *)
(* claimed_by; terminal rows keep their claim columns; a release leaves    *)
(* process_at alone; the purge evaluates its condition on locked rows;     *)
(* Claim writes its history in the same transaction; and an error of       *)
(* appendHistory is ignored, even one with which the server has rolled the *)
(* transaction back.                                                       *)
(***************************************************************************)
EXTENDS Outbox

CONSTANT Deadlocks   \* the server may choose a claim transaction as deadlock victim

ASSUME MySQLAssumption == Deadlocks \in BOOLEAN

\* SELECT ... FOR UPDATE SKIP LOCKED, UPDATE and history in one transaction.
MySQLClaim(w) == Claim(w)

\* The history insert of a claim (INSERT ... SELECT MAX(seq) takes gap locks) ended in
\* a deadlock: the server has rolled back everything, the error is dropped, COMMIT
\* succeeds, and Claim returns rows that are not claimed.
ClaimRolledBack(w) ==
    /\ Deadlocks
    /\ Disrupt
    /\ \E G \in SUBSET FreeHolders(w) : \E pick \in [G -> Eligible], C \in SUBSET G :
         HandOut(G, pick, C)
    /\ UNCHANGED <<row, owner, tainted, lapses, doomed>>

-----------------------------------------------------------------------------
\* BatchSucceed: WHERE status = 'HANDLING' AND attempt = ?.
MySQLBatchSucceed(w) ==
    \E H \in SUBSET {h \in Holder : WorkerOf(h) = w /\ Busy(h)} :
        LET hit == {held[h].msg : h \in {g \in H : Matches(g)}}
        IN  /\ H # {}
            /\ row' = [m \in Msg |-> IF m \in hit THEN [row[m] EXCEPT !.status = "SUCCESS"]
                                                  ELSE row[m]]
            /\ owner' = [m \in Msg |-> IF m \in hit THEN None ELSE owner[m]]
            /\ held' = [h \in Holder |-> IF h \in H THEN Idle ELSE held[h]]
            /\ UNCHANGED <<tainted, lapses, disruptions, doomed>>

\* The WHERE clause of Succeed, Fail and ReleaseShutdown.
MatchesClaim(h) ==
    LET r == row[held[h].msg]
    IN  r.status = "HANDLING" /\ r.claimedBy = WorkerOf(h)

MySQLSettle(h, new) ==
    LET m == held[h].msg
    IN  /\ IF MatchesClaim(h)
           THEN /\ row' = [row EXCEPT ![m] = new]
                /\ owner' = [owner EXCEPT ![m] = None]
           ELSE UNCHANGED <<row, owner>>
        /\ held' = [held EXCEPT ![h] = Idle]

\* Succeed, when acknowledgements are not batched.
MySQLSucceed(h) ==
    /\ Busy(h)
    /\ MySQLSettle(h, [row[held[h].msg] EXCEPT !.status = "SUCCESS"])
    /\ UNCHANGED <<tainted, lapses, disruptions, doomed>>

MySQLFailed(r, dead, due) ==
    IF dead THEN [r EXCEPT !.status = "DEAD"]
            ELSE [Unclaimed(r) EXCEPT !.status = "RETRYING", !.due = due]

MySQLFail(h) ==
    /\ Busy(h)
    /\ \E dead, due \in BOOLEAN :
         /\ held[h].attempt >= MaxAttempts => dead
         /\ MySQLSettle(h, MySQLFailed(row[held[h].msg], dead, due))
    /\ UNCHANGED <<tainted, lapses, disruptions, doomed>>

\* Mutant of MySQLReleased: only the claim columns are reset.
ReleasedStatusKept(r) == [Unclaimed(r) EXCEPT !.attempt = IF @ = 0 THEN 0 ELSE @ - 1]

MySQLReleased(r) ==
    [Unclaimed(r) EXCEPT !.status = IF r.attempt > 1 THEN "RETRYING" ELSE "CREATED",
                         !.attempt = IF @ = 0 THEN 0 ELSE @ - 1]

MySQLReleaseShutdown(h) ==
    /\ Busy(h)
    /\ Disrupt
    /\ MySQLSettle(h, MySQLReleased(row[held[h].msg]))
    /\ UNCHANGED <<tainted, lapses, doomed>>

\* The same statement as Postgres's.
MySQLExtend(h) == Extend(h)

\* Requeue clears the claim columns that a DEAD row has kept.
MySQLRequeue(m) ==
    /\ row[m].status = "DEAD"
    /\ Disrupt
    /\ \E due \in BOOLEAN :
         row' = [row EXCEPT ![m] = [status |-> "CREATED", attempt |-> 0, due |-> due,
                                    lease |-> "none", claimedBy |-> None]]
    /\ tainted' = [tainted EXCEPT ![m] = @ \/ \E h \in Holder : held[h].msg = m]
    /\ lapses' = [lapses EXCEPT ![m] = 0]
    /\ UNCHANGED <<held, owner, doomed>>

MySQLReclaimExpired == ReclaimExpired

MySQLPurgeTerminal ==
    \E S \in SUBSET {m \in Msg : row[m].status \in Terminal} :
        /\ S # {}
        /\ row' = [m \in Msg |-> IF m \in S THEN [row[m] EXCEPT !.status = "PURGED"]
                                            ELSE row[m]]
        /\ UNCHANGED <<held, owner, tainted, lapses, disruptions, doomed>>

MySQLNext ==
    \/ \E m \in Msg : Enqueue(m) \/ BecomeDue(m) \/ LeaseExpires(m) \/ MySQLRequeue(m)
    \/ \E w \in Worker : \/ MySQLClaim(w) \/ ClaimReturnsError(w) \/ ClaimRolledBack(w)
                         \/ MySQLBatchSucceed(w) \/ Crash(w)
    \/ \E h \in Holder : \/ MySQLSucceed(h) \/ MySQLFail(h) \/ MySQLReleaseShutdown(h)
                         \/ LoseOutcome(h) \/ MySQLExtend(h)
    \/ MySQLReclaimExpired
    \/ MySQLPurgeTerminal

\* A handler has returned and its outcome is written.
MySQLFinish(h) ==
    MySQLSucceed(h) \/ MySQLFail(h) \/ (MySQLBatchSucceed(WorkerOf(h)) /\ held'[h] = Idle)

=============================================================================
