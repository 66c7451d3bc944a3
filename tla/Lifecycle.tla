----------------------------- MODULE Lifecycle ------------------------------
(***************************************************************************)
(* Start and Stop of one Worker, called by several goroutines, the         *)
(* background loops that Start spawns, and the claim loop it runs (module  *)
(* PollLoop).                                                              *)
(***************************************************************************)
EXTENDS Naturals, FiniteSets

CONSTANTS Starter, Stopper,
          Loop,        \* the background loops that are enabled
          PollInterval, PollMaxBackoff, BatchSize, MaxRows, MaxErrors

ASSUME LifecycleAssumption ==
    /\ {PollInterval, BatchSize} \subseteq Nat \ {0}
    /\ {PollMaxBackoff, MaxRows, MaxErrors} \subseteq Nat

VARIABLES started,     \* w.started
          cancel,      \* w.cancel is set
          ctx, parent, \* Start's context, and the caller's, are cancelled
          once,        \* stopOnce: "free", "busy" or "done"
          start, stop, \* where the callers are
          loop,        \* the background goroutines
          crew,        \* the engine's goroutines beside its loop: "idle" (the flusher waits),
                       \* "busy" (handlers are at work), "done" (all have ended)
          clean,       \* eng.run has returned nil
          asked,       \* ghost: Stop was called on the running worker, see Misses
          pc, currentDelay, timer, notify, listener, wire, work, unseen, rows, errors

Claimer == INSTANCE PollLoop WITH ctxDone <- ctx

workers == <<crew, clean>>
startVars == <<started, cancel, ctx, parent, start, loop>>
stopVars == <<once, stop, asked>>
backlog == <<work, unseen, rows, errors>>
engine == <<pc, currentDelay, timer>>
claimLoop == <<engine, backlog, notify, listener, wire>>
vars == <<startVars, stopVars, claimLoop, workers>>

Running == {"cancel", "listen", "spawn", "run", "join"}

\* A call of Stop that is inside stopOnce; one that has found w.cancel nil there.
Inside == {"inside", "cancels", "misses"}
Misses == \E p \in Stopper : stop[p] = "misses"

TypeOK ==
    /\ {started, cancel, ctx, parent, asked, clean} \subseteq BOOLEAN
    /\ crew \in {"idle", "busy", "done"}
    /\ once \in {"free", "done", "busy"}
    /\ start \in [Starter -> Running \cup {"idle", "returned"}]
    /\ stop \in [Stopper -> {"idle", "called"} \cup Inside]
    /\ once = "busy" <=> \E p \in Stopper : stop[p] \in Inside
    /\ loop \in [Loop -> {"off", "select", "body"}]
    /\ Claimer!TypeOK

Init ==
    /\ started = FALSE /\ cancel = FALSE /\ ctx = FALSE /\ parent = FALSE
    /\ once = "free" /\ asked = FALSE
    /\ crew = "idle" /\ clean = FALSE
    /\ start = [s \in Starter |-> "idle"]
    /\ stop = [p \in Stopper |-> "idle"]
    /\ loop = [l \in Loop |-> "off"]
    /\ Claimer!Init

Goto(s, place) == start' = [start EXCEPT ![s] = place]

-----------------------------------------------------------------------------
\* Start under startMu.  A call on a started worker is refused and changes nothing.
Enter(s) ==
    /\ start[s] = "idle" /\ ~started
    /\ Goto(s, "cancel")
    /\ started' = TRUE
    /\ UNCHANGED <<cancel, ctx, parent, loop, claimLoop, stopVars, workers>>

\* Mutant of SetCancel: the context does not derive from the caller's.
SetCancelDetached(s) ==
    /\ start[s] = "cancel"
    /\ Goto(s, "listen")
    /\ cancel' = TRUE
    /\ UNCHANGED <<started, ctx, parent, loop, claimLoop, stopVars, workers>>

\* The derived context, and w.cancel, which Stop reads without a lock: before or after.
SetCancel(s) ==
    /\ start[s] = "cancel"
    /\ Goto(s, "listen")
    /\ cancel' = TRUE
    /\ ctx' = parent
    /\ UNCHANGED <<started, parent, loop, claimLoop, stopVars, workers>>

\* The subscription, if the storage has one and it can be made.
Listen(s) ==
    /\ start[s] = "listen"
    /\ Goto(s, "spawn")
    /\ listener' \in {"none", "up"}
    /\ UNCHANGED <<started, cancel, ctx, parent, loop, stopVars, workers, engine, notify, wire,
                   backlog>>

Spawn(s) ==
    /\ start[s] = "spawn"
    /\ Goto(s, "run")
    /\ loop' = [l \in Loop |-> "select"]
    /\ UNCHANGED <<started, cancel, ctx, parent, claimLoop, stopVars, workers>>

\* A step of eng.run; a poll that claims something starts handlers.
EngineRuns ==
    /\ \E s \in Starter : start[s] = "run"
    /\ \/ Claimer!Run /\ UNCHANGED crew
       \/ \E claimed \in 0..BatchSize :
            /\ Claimer!PollOnce(claimed)
            /\ crew' = IF claimed > 0 THEN "busy" ELSE crew
    /\ UNCHANGED <<startVars, stopVars, clean>>

\* The last handler in flight has returned.
HandlersEnd ==
    /\ crew = "busy"
    /\ crew' = "idle"
    /\ UNCHANGED <<startVars, stopVars, claimLoop, clean>>

\* drain's goroutine has seen all handlers end, closed the channel, and the flusher is done.
CrewEnds ==
    /\ pc = "drain" /\ crew = "idle"
    /\ crew' = "done"
    /\ UNCHANGED <<startVars, stopVars, claimLoop, clean>>

\* Mutant of EngineReturns: the end of the grace period is no error.
EngineReturnsNil(s) ==
    /\ start[s] = "run" /\ pc = "drain"
    /\ Goto(s, "join")
    /\ clean' = TRUE
    /\ UNCHANGED <<started, cancel, ctx, parent, loop, claimLoop, stopVars, crew>>

\* eng.run returns: nil once everything has ended, an error when the grace period is over,
\* and either when both are ready.
EngineReturns(s) ==
    /\ start[s] = "run" /\ pc = "drain"
    /\ Goto(s, "join")
    /\ clean' \in {FALSE, crew = "done"}
    /\ UNCHANGED <<started, cancel, ctx, parent, loop, claimLoop, stopVars, crew>>

\* bgWg.Wait.
Joined == \A l \in Loop : loop[l] = "off"

\* Start returns; its deferred calls cancel the contexts of the listener and of the worker.
\* Nobody waits for the listener's goroutine.
Return(s) ==
    /\ start[s] = "join" /\ Joined
    /\ Goto(s, "returned")
    /\ ctx' = TRUE
    /\ UNCHANGED <<started, cancel, parent, loop, stopVars, workers, claimLoop>>

-----------------------------------------------------------------------------
\* A background loop: the ticker, the body, and the exit.  When both cases of the select
\* are ready it may still take the tick.
LoopTick(l) ==
    /\ loop[l] = "select"
    /\ loop' = [loop EXCEPT ![l] = "body"]
    /\ UNCHANGED <<started, cancel, ctx, parent, start, claimLoop, stopVars, workers>>

LoopBodyEnds(l) ==
    /\ loop[l] = "body"
    /\ loop' = [loop EXCEPT ![l] = "select"]
    /\ UNCHANGED <<started, cancel, ctx, parent, start, claimLoop, stopVars, workers>>

LoopExits(l) ==
    /\ loop[l] = "select" /\ ctx
    /\ loop' = [loop EXCEPT ![l] = "off"]
    /\ UNCHANGED <<started, cancel, ctx, parent, start, claimLoop, stopVars, workers>>

\* The caller's context ends (SIGTERM).
ParentCancelled ==
    /\ ~parent
    /\ parent' = TRUE
    /\ ctx' = (ctx \/ cancel)
    /\ UNCHANGED <<started, cancel, start, loop, claimLoop, stopVars, workers>>

-----------------------------------------------------------------------------
\* Stop.  Once stopOnce is used up a call changes nothing.
StopCalled(p) ==
    /\ stop[p] = "idle" /\ once # "done"
    /\ stop' = [stop EXCEPT ![p] = "called"]
    /\ asked' = (asked \/ (cancel /\ ~Misses))
    /\ UNCHANGED <<started, cancel, ctx, parent, start, loop, claimLoop, once, workers>>

\* stopOnce.Do: the first caller runs the function, the others wait for it.
OnceEntered(p) ==
    /\ stop[p] = "called" /\ once = "free"
    /\ once' = "busy"
    /\ stop' = [stop EXCEPT ![p] = "inside"]
    /\ UNCHANGED <<started, cancel, ctx, parent, start, loop, claimLoop, asked, workers>>

\* Mutant of ReadCancel: the function takes w.cancel for nil.
ReadCancelNil(p) ==
    /\ stop[p] = "inside"
    /\ stop' = [stop EXCEPT ![p] = "misses"]
    /\ UNCHANGED <<started, cancel, ctx, parent, start, loop, claimLoop, once, asked, workers>>

\* The function reads w.cancel without a lock, before or after Start has set it.
ReadCancel(p) ==
    /\ stop[p] = "inside"
    /\ stop' = [stop EXCEPT ![p] = IF cancel THEN "cancels" ELSE "misses"]
    /\ UNCHANGED <<started, cancel, ctx, parent, start, loop, claimLoop, once, asked, workers>>

\* It calls what it has read, and stopOnce is used up.
CancelFromStop(p) ==
    /\ stop[p] \in {"cancels", "misses"}
    /\ ctx' = (ctx \/ stop[p] = "cancels")
    /\ once' = "done"
    /\ stop' = [stop EXCEPT ![p] = "idle"]
    /\ UNCHANGED <<started, cancel, parent, start, loop, claimLoop, asked, workers>>

OncePassed(p) ==
    /\ stop[p] = "called" /\ once = "done"
    /\ stop' = [stop EXCEPT ![p] = "idle"]
    /\ UNCHANGED <<started, cancel, ctx, parent, start, loop, claimLoop, once, asked, workers>>

StartStep(s) ==
    SetCancel(s) \/ Listen(s) \/ Spawn(s) \/ EngineReturns(s) \/ Return(s)
StopStep(p) == OnceEntered(p) \/ ReadCancel(p) \/ CancelFromStop(p) \/ OncePassed(p)

\* Rows and notifications, and the goroutine that forwards them.
Surroundings ==
    /\ Claimer!CommitAndNotify \/ Claimer!FallDue \/ Claimer!ListenerExits
    /\ UNCHANGED <<startVars, stopVars, workers>>
Forwards == Claimer!Forward /\ UNCHANGED <<startVars, stopVars, workers>>

Next ==
    \/ ParentCancelled \/ EngineRuns \/ HandlersEnd \/ CrewEnds \/ Surroundings \/ Forwards
    \/ \E s \in Starter : Enter(s) \/ StartStep(s)
    \/ \E p \in Stopper : StopCalled(p) \/ StopStep(p)
    \/ \E l \in Loop : LoopTick(l) \/ LoopBodyEnds(l) \/ LoopExits(l)

\* Goroutines run on, timers fire, the drain and the bodies end, and a select whose two cases
\* are ready takes each of them in turn.
Spec ==
    /\ Init /\ [][Next]_vars
    /\ WF_vars(EngineRuns) /\ WF_vars(Forwards)
    /\ \A s \in Starter : WF_vars(StartStep(s))
    /\ \A p \in Stopper : WF_vars(StopStep(p))
    /\ \A l \in Loop : WF_vars(LoopBodyEnds(l)) /\ SF_vars(LoopExits(l))

-----------------------------------------------------------------------------
(* Properties *)

\* What is left of a worker when its Start has returned.  No background loop, which could
\* still hold a leader lock; no claim loop, and no second Start that would run one; and, if
\* Start returned nil, no handler, no acknowledgement and no flusher.  A Start that returned
\* "shutdown grace exceeded" leaves these behind, and every Start may leave the listener's
\* goroutine, whose context it has cancelled.
QuietAfterReturn ==
    (\E s \in Starter : start[s] = "returned") =>
        /\ \A l \in Loop : loop[l] = "off"
        /\ pc = "drain" /\ ctx
        /\ \A s \in Starter : start[s] \notin Running
        /\ clean => crew = "done"

\* A notification that arrives while engine.run polls is not lost: when the loop waits
\* although a row was announced after its last Claim, and nothing is on the wire any more,
\* the wait ends at once.
NoLostWakeup ==
    pc = "wait" /\ unseen /\ listener = "up" /\ wire = 0 => notify = 1

\* A worker that keeps running polls every row that is due in the end, whether the row was
\* announced, fell due in silence, came while the back-off was longest or after the listener
\* died (engine.run).
RowsGetClaimed ==
    (work > 0 /\ \E s \in Starter : start[s] \in Running) ~> (work = 0 \/ ctx)

\* The end of the caller's context makes a running Start return, wherever the claim loop and
\* the background loops are.
ParentEndsStart ==
    \A s \in Starter : (start[s] \in Running /\ parent) ~> start[s] = "returned"

\* worker.go on Stop: "Stop cancels the worker's context. ... Idempotent.": a call of Stop on
\* the running worker makes Start return, unless a Stop that found no w.cancel has used up
\* stopOnce, or is about to: then no call of Stop ends it.
StopEndsStart == \A s \in Starter : (asked /\ start[s] \in Running) ~> start[s] = "returned"

=============================================================================
