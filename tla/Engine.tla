------------------------------- MODULE Engine -------------------------------
(***************************************************************************)
(* One worker process (engine.go): the claim loop, the dispatch of claimed *)
(* messages through the global and per-type semaphores, the handler        *)
(* goroutines, the acknowledgement flusher behind its bounded channel, and *)
(* the drain that ends run.                                                *)
(*                                                                         *)
(* Rows are seen from this worker only; leases, other workers and fencing  *)
(* are the subject of module Outbox.  A write that returns an error leaves *)
(* its row HANDLING until some reclaimer finds it: the ghost variable lost *)
(* collects those messages.                                                *)
(***************************************************************************)
EXTENDS Naturals, FiniteSets

CONSTANTS Msg,
          Single, Batched,  \* the messages of single-handler and of batch-handler type
          Batch,            \* WorkerConfig.BatchSize
          Conf,             \* the deployments: records of
                            \*   poolSize: WorkerConfig.PoolSize
                            \*   maxInflight: the registrations' limit of either type; 0: none
                            \*   maxBatch: the batch type's maxBatchSize; 0: none
                            \*   ackCap: capacity of succeedCh; 0: storage is no BatchAcker
                            \*   due: the messages that wait at first, the others are done
                            \*   maxAttempts: of every message
          MaxErrors         \* bound on failing storage calls

ASSUME EngineAssumption ==
    /\ Single \cap Batched = {} /\ Msg = Single \cup Batched
    /\ Batch \in Nat \ {0} /\ MaxErrors \in Nat
    /\ Conf \subseteq [poolSize : Nat \ {0}, maxInflight : Nat, maxBatch : Nat, ackCap : Nat,
                        due : SUBSET Msg, maxAttempts : Nat \ {0}]

VARIABLES conf,             \* the deployment
          db, attempt,      \* status and attempt columns
          pc,               \* where the goroutine of run is
          todo,             \* claimed messages pollOnce has not dispatched yet
          cur,              \* the chunk that waits for a per-type token
          pool, typed,      \* tokens in globalPool, and in each type's semaphore
          gor,              \* handler goroutines
          inflight,         \* the WaitGroup's counter
          acks, closed,     \* succeedCh: its content, and whether it is closed
          buf, flusher,     \* ackFlusher's buffer and place
          ctxDone, stopping,
          closer,           \* the goroutine drain starts
          result,           \* what run returned
          lost, errors

loopVars == <<pc, todo, cur>>
semVars == <<pool, typed>>
ackVars == <<acks, closed, buf, flusher>>
stopVars == <<ctxDone, stopping, closer, result>>
rowVars == <<db, attempt, lost, errors>>
vars == <<conf, loopVars, semVars, gor, inflight, ackVars, stopVars, rowVars>>

Type == {"single", "batch"}
TypeOf(chunk) == IF chunk \subseteq Single THEN "single" ELSE "batch"
Stage == {"running", "returned", "commit", "freePool", "exit"}
\* A handler goroutine: its messages with the attempt each was claimed at (the next
\* attempt can start before the goroutine of the last one is gone), and what is left
\* of them to commit.
Goroutine == [at : UNION {[S -> 1..conf.maxAttempts] : S \in SUBSET Msg},
              left : SUBSET Msg, stage : Stage,
              err : {"none", "nil", "canceled", "other"},
              outcome : {"none", "success", "canceled", "retry"}]
Msgs(g) == DOMAIN g.at

TypeOK ==
    /\ conf \in Conf
    /\ db \in [Msg -> {"pending", "handling", "success", "dead"}]
    /\ attempt \in [Msg -> 0..conf.maxAttempts]
    /\ pc \in {"top", "poll", "dispatch", "perType", "wait", "drain", "returned"}
    /\ todo \subseteq Msg /\ cur \subseteq Msg /\ lost \subseteq Msg
    /\ pool \in 0..conf.poolSize /\ typed \in [Type -> Nat] /\ inflight \in Nat
    /\ gor \subseteq Goroutine
    /\ acks \subseteq Msg /\ buf \subseteq Msg /\ closed \in BOOLEAN
    /\ flusher \in {"absent", "select", "flush", "lastFlush", "exited"}
    /\ ctxDone \in BOOLEAN /\ stopping \in BOOLEAN
    /\ closer \in {"none", "wait", "close", "await", "done"}
    /\ result \in {"none", "ok", "graceExceeded"}
    /\ errors \in 0..MaxErrors

Init ==
    /\ conf \in Conf
    /\ db = [m \in Msg |-> IF m \in conf.due THEN "pending" ELSE "success"]
    /\ attempt = [m \in Msg |-> 0]
    /\ pc = "top" /\ todo = {} /\ cur = {}
    /\ pool = 0 /\ typed = [t \in Type |-> 0] /\ gor = {} /\ inflight = 0
    /\ acks = {} /\ closed = FALSE /\ buf = {}
    /\ flusher = IF conf.ackCap = 0 THEN "absent" ELSE "select"
    /\ ctxDone = FALSE /\ stopping = FALSE /\ closer = "none" /\ result = "none"
    /\ lost = {} /\ errors = 0

-----------------------------------------------------------------------------
\* Storage calls, each for a set of messages at once.  A call may fail for some of
\* them; the row then stays as it is and nobody retries the write.

WriteFails(S) ==
    /\ S # {} => errors < MaxErrors
    /\ errors' = IF S = {} THEN errors ELSE errors + 1

Succeed(S) ==
    \E bad \in {{}, S} :
        /\ WriteFails(bad)
        /\ lost' = lost \cup bad
        /\ db' = [m \in Msg |-> IF m \in S \ bad THEN "success" ELSE db[m]]
        /\ UNCHANGED attempt

ReleaseShutdown(S) ==
    \E bad \in SUBSET S :
        /\ WriteFails(bad)
        /\ lost' = lost \cup bad
        /\ db' = [m \in Msg |-> IF m \in S \ bad THEN "pending" ELSE db[m]]
        /\ attempt' = [m \in Msg |-> IF m \in S \ bad THEN attempt[m] - 1 ELSE attempt[m]]

\* The Retry/Dead branch: the handler may ask for DEAD, and the last attempt
\* always is.
Fail(m) ==
    \E bad \in SUBSET {m}, status \in {"pending", "dead"} :
        /\ attempt[m] >= conf.maxAttempts => status = "dead"
        /\ WriteFails(bad)
        /\ lost' = lost \cup bad
        /\ db' = IF bad = {} THEN [db EXCEPT ![m] = status] ELSE db
        /\ UNCHANGED attempt

-----------------------------------------------------------------------------
\* run and pollOnce.

LoopTop ==
    /\ pc = "top"
    /\ pc' = IF ctxDone THEN "drain" ELSE "poll"
    /\ IF ctxDone THEN stopping' = TRUE /\ closer' = "wait" ELSE UNCHANGED <<stopping, closer>>
    /\ UNCHANGED <<todo, cur, semVars, gor, inflight, ackVars, ctxDone, result, rowVars>>

Claim(S) ==
    /\ db' = [m \in Msg |-> IF m \in S THEN "handling" ELSE db[m]]
    /\ attempt' = [m \in Msg |-> IF m \in S THEN attempt[m] + 1 ELSE attempt[m]]

Claimable == {m \in Msg : db[m] = "pending"}

\* Claim's transaction; when it returns an error, the rows may have been claimed
\* all the same.
Poll ==
    /\ pc = "poll"
    /\ \E S \in SUBSET Claimable :
         /\ Cardinality(S) <= Batch
         /\ Claim(S)
         /\ \/ /\ ~ctxDone
               /\ todo' = S
               /\ pc' = "dispatch"
               /\ UNCHANGED <<lost, errors>>
            \/ /\ WriteFails(S)
               /\ lost' = lost \cup S
               /\ pc' = "wait"
               /\ UNCHANGED todo
    /\ UNCHANGED <<cur, semVars, gor, inflight, ackVars, stopVars>>

\* The units pollOnce may dispatch next: single messages in any order, then the
\* batch group in chunks of conf.maxBatch.
Chunks ==
    LET group == todo \cap Batched
        n == Cardinality(group)
        size == IF conf.maxBatch = 0 \/ conf.maxBatch > n THEN n ELSE conf.maxBatch
    IN  IF todo \cap Single # {}
        THEN {{m} : m \in todo \cap Single}
        ELSE {c \in SUBSET group : c # {} /\ Cardinality(c) = size}

Spawn(chunk) ==
    /\ inflight' = inflight + 1
    /\ gor' = gor \cup {[at |-> [m \in chunk |-> attempt[m]], left |-> chunk, stage |-> "running",
                         err |-> "none", outcome |-> "none"]}

\* dispatchSingle and dispatchBatches: a token of the global pool first.
AcquireGlobal ==
    /\ pc = "dispatch"
    /\ pool < conf.poolSize
    /\ \E chunk \in Chunks :
         /\ todo' = todo \ chunk
         /\ pool' = pool + 1
         /\ IF conf.maxInflight > 0
            THEN pc' = "perType" /\ cur' = chunk /\ UNCHANGED <<gor, inflight>>
            ELSE Spawn(chunk) /\ UNCHANGED <<pc, cur>>
    /\ UNCHANGED <<typed, ackVars, stopVars, rowVars>>

\* Mutant of ReleaseBeforeDispatch: the loop just stops dispatching.
DropBeforeDispatch ==
    /\ pc = "dispatch" /\ ctxDone
    /\ todo' = {}
    /\ UNCHANGED <<pc, cur, semVars, gor, inflight, ackVars, stopVars, rowVars>>

\* ... or the shutdown signal: the chunk goes back to the storage.
ReleaseBeforeDispatch ==
    /\ pc = "dispatch"
    /\ ctxDone
    /\ \E chunk \in Chunks : todo' = todo \ chunk /\ ReleaseShutdown(chunk)
    /\ UNCHANGED <<pc, cur, semVars, gor, inflight, ackVars, stopVars>>

AcquireTyped ==
    /\ pc = "perType"
    /\ typed[TypeOf(cur)] < conf.maxInflight
    /\ typed' = [typed EXCEPT ![TypeOf(cur)] = @ + 1]
    /\ Spawn(cur)
    /\ cur' = {} /\ pc' = "dispatch"
    /\ UNCHANGED <<todo, pool, ackVars, stopVars, rowVars>>

\* Mutant of ReleaseFromTyped: the pool token is not given back.
ReleaseKeepsToken ==
    /\ pc = "perType" /\ ctxDone
    /\ ReleaseShutdown(cur)
    /\ cur' = {} /\ pc' = "dispatch"
    /\ UNCHANGED <<todo, semVars, gor, inflight, ackVars, stopVars>>

ReleaseFromTyped ==
    /\ pc = "perType"
    /\ ctxDone
    /\ pool' = pool - 1
    /\ ReleaseShutdown(cur)
    /\ cur' = {} /\ pc' = "dispatch"
    /\ UNCHANGED <<todo, typed, gor, inflight, ackVars, stopVars>>

Dispatched ==
    /\ pc = "dispatch" /\ todo = {}
    /\ pc' = "wait"
    /\ UNCHANGED <<todo, cur, semVars, gor, inflight, ackVars, stopVars, rowVars>>

\* The select at the end of run's loop: timer or notification, or shutdown.
WaitEnds ==
    /\ pc = "wait"
    /\ \/ pc' = "top" /\ UNCHANGED <<stopping, closer>>
       \/ ctxDone /\ pc' = "drain" /\ stopping' = TRUE /\ closer' = "wait"
    /\ UNCHANGED <<todo, cur, semVars, gor, inflight, ackVars, ctxDone, result, rowVars>>

-----------------------------------------------------------------------------
\* Handler goroutines (runHandler, runBatchHandler).

Become(g, new) == gor' = (gor \ {g}) \cup {new}

\* The handler returns (a panic is an error like others).  It sees a cancelled
\* context once the worker's context is done.
HandlerReturns(g) ==
    /\ g.stage = "running"
    /\ \E err \in {"nil", "other"} \cup (IF ctxDone THEN {"canceled"} ELSE {}) :
         Become(g, [g EXCEPT !.stage = "returned", !.err = err])
    /\ UNCHANGED <<loopVars, semVars, inflight, ackVars, stopVars, rowVars>>

resolveOutcome(err) ==
    CASE err = "nil" -> "success"
      [] err = "canceled" /\ ctxDone /\ stopping -> "canceled"
      [] OTHER -> "retry"

Resolve(g) ==
    /\ g.stage = "returned"
    /\ Become(g, [g EXCEPT !.stage = "commit", !.outcome = resolveOutcome(g.err)])
    /\ UNCHANGED <<loopVars, semVars, inflight, ackVars, stopVars, rowVars>>

\* commitOutcome for one message; a success is sent to the flusher and blocks
\* while the channel is full.
Commit(g, m) ==
    /\ g.stage = "commit" /\ m \in g.left
    /\ Become(g, [g EXCEPT !.left = @ \ {m}])
    /\ \/ /\ g.outcome = "success" /\ conf.ackCap > 0
          /\ ~closed /\ Cardinality(acks) < conf.ackCap
          /\ acks' = acks \cup {m}
          /\ UNCHANGED rowVars
       \/ g.outcome = "success" /\ conf.ackCap = 0 /\ Succeed({m}) /\ UNCHANGED acks
       \/ g.outcome = "canceled" /\ ReleaseShutdown({m}) /\ UNCHANGED acks
       \/ g.outcome = "retry" /\ Fail(m) /\ UNCHANGED acks
    /\ UNCHANGED <<loopVars, semVars, inflight, closed, buf, flusher, stopVars>>

\* The deferred calls, last registered first: per-type token, pool token,
\* inflight.Done.
FreeType(g) ==
    /\ g.stage = "commit" /\ g.left = {}
    /\ Become(g, [g EXCEPT !.stage = "freePool"])
    /\ typed' = IF conf.maxInflight > 0 THEN [typed EXCEPT ![TypeOf(Msgs(g))] = @ - 1] ELSE typed
    /\ UNCHANGED <<loopVars, pool, inflight, ackVars, stopVars, rowVars>>

FreePool(g) ==
    /\ g.stage = "freePool"
    /\ Become(g, [g EXCEPT !.stage = "exit"])
    /\ pool' = pool - 1
    /\ UNCHANGED <<loopVars, typed, inflight, ackVars, stopVars, rowVars>>

Exit(g) ==
    /\ g.stage = "exit"
    /\ gor' = gor \ {g}
    /\ inflight' = inflight - 1
    /\ UNCHANGED <<loopVars, semVars, ackVars, stopVars, rowVars>>

-----------------------------------------------------------------------------
\* ackFlusher.

FlusherReceives ==
    /\ flusher = "select"
    /\ \E m \in acks :
         /\ acks' = acks \ {m}
         /\ buf' = buf \cup {m}
         /\ flusher' = IF Cardinality(buf') >= Batch THEN "flush" ELSE "select"
    /\ UNCHANGED <<loopVars, semVars, gor, inflight, closed, stopVars, rowVars>>

\* Mutant of FlusherTicks: only a full buffer is flushed.
FlusherNeverTicks == FALSE

FlusherTicks ==
    /\ flusher = "select" /\ buf # {}
    /\ flusher' = "flush"
    /\ UNCHANGED <<loopVars, semVars, gor, inflight, acks, closed, buf, stopVars, rowVars>>

\* Mutant of FlusherSeesClose: leaves at the close, with messages still in the channel.
FlusherLeavesEarly ==
    /\ flusher = "select" /\ closed
    /\ flusher' = "lastFlush"
    /\ UNCHANGED <<loopVars, semVars, gor, inflight, acks, closed, buf, stopVars, rowVars>>

\* A receive from the closed channel reports it once the channel is empty.
FlusherSeesClose ==
    /\ flusher = "select" /\ closed /\ acks = {}
    /\ flusher' = "lastFlush"
    /\ UNCHANGED <<loopVars, semVars, gor, inflight, acks, closed, buf, stopVars, rowVars>>

Flush ==
    /\ flusher \in {"flush", "lastFlush"}
    /\ Succeed(buf)
    /\ buf' = {}
    /\ flusher' = IF flusher = "flush" THEN "select" ELSE "exited"
    /\ UNCHANGED <<loopVars, semVars, gor, inflight, acks, closed, stopVars>>

-----------------------------------------------------------------------------
\* Shutdown: the caller cancels the context (Worker.Stop, or the parent's).
Cancel ==
    /\ ~ctxDone
    /\ ctxDone' = TRUE
    /\ UNCHANGED <<loopVars, semVars, gor, inflight, ackVars, stopping, closer, result, rowVars>>

\* Mutant of CloserWaits: no inflight.Wait.
CloserHurries ==
    /\ closer = "wait"
    /\ closer' = IF conf.ackCap = 0 THEN "done" ELSE "close"
    /\ UNCHANGED <<loopVars, semVars, gor, inflight, ackVars, ctxDone, stopping, result, rowVars>>

\* drain's goroutine: inflight.Wait, close(succeedCh), <-ackFlusherDone, close(done).
CloserWaits ==
    /\ closer = "wait" /\ inflight = 0
    /\ closer' = IF conf.ackCap = 0 THEN "done" ELSE "close"
    /\ UNCHANGED <<loopVars, semVars, gor, inflight, ackVars, ctxDone, stopping, result, rowVars>>

\* Mutant of CloserCloses: the channel stays open.
CloserLeavesOpen ==
    /\ closer = "close"
    /\ closer' = "await"
    /\ UNCHANGED <<loopVars, semVars, gor, inflight, ackVars, ctxDone, stopping, result, rowVars>>

CloserCloses ==
    /\ closer = "close"
    /\ closed' = TRUE
    /\ closer' = "await"
    /\ UNCHANGED <<loopVars, semVars, gor, inflight, acks, buf, flusher, ctxDone, stopping,
                   result, rowVars>>

\* Mutant of CloserDone: the flusher's last flush is not awaited.
CloserDoneEarly ==
    /\ closer = "await"
    /\ closer' = "done"
    /\ UNCHANGED <<loopVars, semVars, gor, inflight, ackVars, ctxDone, stopping, result, rowVars>>

CloserDone ==
    /\ closer = "await" /\ flusher = "exited"
    /\ closer' = "done"
    /\ UNCHANGED <<loopVars, semVars, gor, inflight, ackVars, ctxDone, stopping, result, rowVars>>

\* drain's select; the grace period may end first.
DrainEnds ==
    /\ pc = "drain"
    /\ pc' = "returned"
    /\ \/ closer = "done" /\ result' = "ok"
       \/ result' = "graceExceeded"
    /\ UNCHANGED <<todo, cur, semVars, gor, inflight, ackVars, ctxDone, stopping, closer, rowVars>>

-----------------------------------------------------------------------------
Loop ==
    /\ \/ LoopTop \/ Poll \/ AcquireGlobal \/ ReleaseBeforeDispatch \/ AcquireTyped
       \/ ReleaseFromTyped \/ Dispatched \/ WaitEnds \/ DrainEnds
    /\ UNCHANGED conf
HandlerStep(g) ==
    /\ \/ HandlerReturns(g) \/ Resolve(g)
       \/ \E m \in Msg : Commit(g, m)
       \/ FreeType(g) \/ FreePool(g) \/ Exit(g)
    /\ UNCHANGED conf
Handlers == \E g \in gor : HandlerStep(g)
Flusher ==
    /\ FlusherReceives \/ FlusherTicks \/ FlusherSeesClose \/ Flush
    /\ UNCHANGED conf
Closer == (CloserWaits \/ CloserCloses \/ CloserDone) /\ UNCHANGED conf
Shutdown == Cancel /\ UNCHANGED conf

Next == Loop \/ Handlers \/ Flusher \/ Closer \/ Shutdown

Spec == Init /\ [][Next]_vars

\* The Go scheduler runs every goroutine that is not blocked, and handlers return.
\* Nothing forces a shutdown.
FairSpec ==
    /\ Spec
    /\ WF_vars(Loop) /\ WF_vars(Flusher) /\ WF_vars(Closer)
    /\ \A m \in Msg : WF_vars(\E g \in gor : m \in Msgs(g) /\ HandlerStep(g))

-----------------------------------------------------------------------------
(* Properties *)

\* The comment in drain ("it is safe to close the channel here"): once the channel
\* is closed nobody can send on it any more, neither a goroutine that still commits
\* nor one the loop may yet start.
NoSendOnClosed ==
    closed => gor = {} /\ todo = {} /\ cur = {} /\ pc \in {"drain", "returned"}

Holding(g) == g.stage \in {"running", "returned", "commit", "freePool"}

\* Semaphore tokens are neither leaked nor returned twice on any of the exit paths:
\* every token belongs to a live goroutine, or to the loop between its two waits.
TokensAccounted ==
    /\ pool = Cardinality({g \in gor : Holding(g)}) + (IF pc = "perType" THEN 1 ELSE 0)
    /\ \A t \in Type :
         typed[t] = IF conf.maxInflight = 0 THEN 0
                    ELSE Cardinality({g \in gor : /\ TypeOf(Msgs(g)) = t
                                                  /\ g.stage \in {"running", "returned", "commit"}})

\* The places of the process a claimed message can be in.
Places(m) ==
    {<<p, 0>> : p \in {"todo" : x \in todo \cap {m}} \cup {"cur" : x \in cur \cap {m}}
                        \cup {"acks" : x \in acks \cap {m}} \cup {"buf" : x \in buf \cap {m}}}
    \cup {<<"handler", g.at[m]>> : g \in {h \in gor : m \in h.left}}

\* No message is dropped and none is handled or acknowledged twice: a HANDLING row
\* is in exactly one place of the process, or its write failed; a row that is not
\* HANDLING is in none.
ClaimsConserved ==
    \A m \in Msg : Cardinality(Places(m)) = IF db[m] = "handling" /\ m \notin lost THEN 1 ELSE 0

\* run returns nil only when every claimed message was settled or released, except
\* those whose write returned an error.
CleanDrain ==
    result = "ok" => \A m \in Msg : db[m] = "handling" => m \in lost

\* A send of commitOutcome waits for room in the channel; ackFlusher is not waiting in its
\* select for something that is not there.
SendBlocked(g) ==
    /\ g.stage = "commit" /\ g.left # {} /\ g.outcome = "success"
    /\ conf.ackCap > 0 /\ Cardinality(acks) >= conf.ackCap
FlusherMoves ==
    \/ flusher \in {"flush", "lastFlush"}
    \/ flusher = "select" /\ (acks # {} \/ buf # {} \/ closed)

\* Nobody waits for somebody who waits for them: behind a full semaphore there is a goroutine
\* that will free a token of it, behind a full channel, a message in it or in the buffer, and
\* behind drain's goroutine at <-ackFlusherDone, a flusher that can move, and behind
\* inflight.Wait a goroutine.  No send waits for a closed channel.
NobodyWaitsInVain ==
    /\ pc = "dispatch" /\ pool >= conf.poolSize => \E g \in gor : Holding(g)
    /\ pc = "perType" /\ typed[TypeOf(cur)] >= conf.maxInflight =>
         \E g \in gor : /\ TypeOf(Msgs(g)) = TypeOf(cur)
                        /\ g.stage \in {"running", "returned", "commit"}
    /\ \A g \in gor : SendBlocked(g) => ~closed /\ FlusherMoves
    /\ acks \cup buf # {} => FlusherMoves
    /\ closer = "wait" /\ inflight > 0 => gor # {}
    /\ closer = "await" /\ flusher # "exited" => FlusherMoves

\* Back-pressure never becomes a deadlock: whatever the loop, the pool and the full
\* channel wait for, every claimed message leaves the process.
EveryMessageLeaves ==
    \A m \in Msg : (Places(m) # {}) ~> (Places(m) = {})

\* A cancelled worker returns from run, and the goroutines drain waits for all end
\* (so that with enough grace it returns nil).
ShutdownEnds == ctxDone ~> (pc = "returned" /\ closer = "done")

=============================================================================
