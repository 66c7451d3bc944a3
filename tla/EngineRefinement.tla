-------------------------- MODULE EngineRefinement --------------------------
(* Engine implements WorkerContract. *)
EXTENDS Engine

\* The abstract state of a row.
Standing(status) ==
    CASE status = "pending"  -> "ready"
      [] status = "handling" -> "taken"
      [] status = "success"  -> "done"
      [] status = "dead"     -> "dead"

\* The messages in any place of the process.
Custody == todo \cup cur \cup acks \cup buf \cup UNION {g.left : g \in gor}

\* run returning nil ends the worker; a run that gave up after the grace period leaves
\* its goroutines at work.
Phase == IF result = "ok" THEN "over" ELSE IF ctxDone THEN "leaving" ELSE "serving"

WC == INSTANCE WorkerContract WITH
        state   <- [m \in Msg |-> Standing(db[m])],
        budget  <- conf.maxAttempts,
        custody <- Custody,
        phase   <- Phase

\* Every behaviour of the worker process is one the contract allows: no message is
\* acknowledged twice, acknowledged by a goroutine and released by the loop, or left behind
\* by a run that returned nil, whatever the semaphores, the channel and the shutdown do.
ImplementsContract == WC!Spec
=============================================================================
