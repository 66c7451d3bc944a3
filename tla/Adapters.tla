------------------------------ MODULE Adapters ------------------------------
(***************************************************************************)
(* A deployment runs on Postgres or on MySQL: the statements of Outbox or  *)
(* those of OutboxMySQL, under the same scheduling.  On Postgres an        *)
(* operator may run `tickrctl drain` meanwhile.                            *)
(***************************************************************************)
EXTENDS OutboxMySQL

VARIABLES dialect,
          drain,   \* the drain command: idle, polling, or what it returned
          fresh    \* ghost: messages enqueued or requeued since it reported "drained"

allVars == <<row, held, owner, tainted, lapses, disruptions, doomed, dialect, drain, fresh>>

DeploymentInit ==
    /\ Init
    /\ dialect \in {"postgres", "mysql"}
    /\ drain = "idle" /\ fresh = {}

\* Mutant of Unsettled: messages that are being handled are not waited for.
UnsettledWaiting == {m \in Msg : row[m].status \in Pending}

\* What cmdDrain adds up from one Stats query.
Unsettled == {m \in Msg : row[m].status \in Pending \cup {"HANDLING"}}

\* One round of cmdDrain: "drained", the deadline (or an error, or the end of its
\* context), or another wait.
DrainPoll ==
    /\ dialect = "postgres" /\ drain \in {"idle", "polling"}
    /\ IF Unsettled = {} THEN drain' = "drained" ELSE drain' \in {"polling", "gaveUp"}
    /\ fresh' = {}
    /\ UNCHANGED <<vars, dialect>>

\* A step of the statements; the ghost follows what the producers and operators add.
Deployed(A) ==
    /\ A
    /\ fresh' = IF drain = "drained"
                THEN fresh \cup {m \in Msg : row[m].status \in {"ABSENT", "DEAD"}
                                              /\ row'[m].status = "CREATED"}
                ELSE fresh
    /\ UNCHANGED <<dialect, drain>>

DeploymentNext ==
    \/ Deployed(dialect = "postgres" /\ Next)
    \/ Deployed(dialect = "mysql" /\ MySQLNext)
    \/ DrainPoll

\* A worker's outcome reaches the storage.
Report(h) ==
    Deployed((dialect = "postgres" /\ Finish(h)) \/ (dialect = "mysql" /\ MySQLFinish(h)))

\* What the code schedules: the poll loop keeps claiming, every handler returns (its context
\* has a deadline) and its outcome is written, the reclaimer keeps ticking, clocks advance.
DeploymentSpec ==
    /\ DeploymentInit /\ [][DeploymentNext]_allVars
    /\ WF_allVars(Deployed(\E w \in Worker : Claim(w)))
    /\ WF_allVars(Deployed(ReclaimExpired))
    /\ \A m \in Msg :
         /\ WF_allVars(Deployed(BecomeDue(m)))
         /\ WF_allVars(Deployed(LeaseExpires(m) /\ owner[m] = None))
    /\ \A h \in Holder : WF_allVars(Report(h))

-----------------------------------------------------------------------------
(* Properties *)

\* Once tickrctl has printed "drained" no worker has work left and none comes back, through
\* a late write, a reclaim or a shutdown: only what is enqueued or requeued afterwards.
DrainedIsSettled ==
    drain = "drained" =>
        \A m \in Msg \ fresh : row[m].status \in {"ABSENT", "PURGED"} \cup Terminal

=============================================================================
