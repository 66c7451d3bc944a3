-------------------------- MODULE OutboxRefinement --------------------------
(* Outbox implements LeaseQueue. *)
EXTENDS Outbox

\* The abstract state of a row.
Phase(status) ==
    CASE status = "ABSENT"   -> "none"
      [] status \in Pending  -> "ready"
      [] status = "HANDLING" -> "taken"
      [] status = "SUCCESS"  -> "done"
      [] status = "DEAD"     -> "dead"
      [] status = "PURGED"   -> "gone"

LQ == INSTANCE LeaseQueue WITH
        state  <- [m \in Msg |-> Phase(row[m].status)],
        holder <- owner,
        copy   <- [h \in Holder |-> held[h].msg],
        spoilt <- tainted,
        marked <- doomed

\* Every behaviour of the table and its workers is one of the lease queue: in
\* particular an outcome written by a copy whose lease was lost changes nothing, and a
\* message that is waiting or handled disappears only if a purge statement had chosen it
\* when it was terminal (postgres.go, purgeSQL).
ImplementsLeaseQueue == LQ!Spec
=============================================================================
