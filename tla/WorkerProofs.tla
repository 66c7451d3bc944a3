---------------------------- MODULE WorkerProofs ----------------------------
(***************************************************************************)
(* Proofs about what worker.go runs around the engine: Start and Stop      *)
(* (Lifecycle, PollLoop), for any number of callers, background loops,     *)
(* rows and any poll interval and back-off; and the janitors (Janitor,     *)
(* Retention, LeaderLock), for any fleet of workers, any messages,         *)
(* retention ages, batch size and lock lease.  The two share no state.     *)
(***************************************************************************)
EXTENDS Lifecycle, Janitor, FiniteSetTheorems, TLAPS

-----------------------------------------------------------------------------
(* Start and Stop *)

\* A caller that Start let in.
In(s) == start[s] # "idle"

\* Where the one Start is decides what may run.
Starting ==
    /\ start \in [Starter -> Running \cup {"idle", "returned"}]
    /\ loop \in [Loop -> {"off", "select", "body"}]
    /\ listener \in {"none", "up", "closed"} /\ wire \in Nat
    /\ \A s, t \in Starter : In(s) /\ In(t) => s = t
    /\ \A s \in Starter : In(s) => started
    /\ (\A s \in Starter : start[s] \notin {"run", "join", "returned"}) =>
         pc = "top" /\ \A l \in Loop : loop[l] = "off"
    /\ \A s \in Starter : start[s] \in {"join", "returned"} => pc = "drain"
    /\ \A s \in Starter : start[s] = "returned" => ctx /\ \A l \in Loop : loop[l] = "off"

\* The engine's goroutines end in the drain, and run returns nil only when they have.
CrewInv ==
    /\ crew \in {"idle", "busy", "done"} /\ clean \in BOOLEAN
    /\ crew = "done" => pc = "drain"
    /\ clean => crew = "done"

\* Between a Claim and the wait, an announced row is on the wire or in the channel.
Announced ==
    pc \in {"arm", "wait"} /\ unseen /\ listener = "up" /\ wire = 0 => notify = 1

LifecycleInv == Starting /\ CrewInv /\ Announced

-----------------------------------------------------------------------------
\* The claim loop, its handlers, and what surrounds it.
LEMMA LoopStep ==
    ASSUME LifecycleInv, EngineRuns \/ HandlersEnd \/ CrewEnds \/ Surroundings \/ Forwards
    PROVE  LifecycleInv'
<1>0. /\ start' = start /\ loop' = loop /\ started' = started /\ ctx' = ctx
      /\ Starting /\ CrewInv /\ Announced
  BY DEF startVars, LifecycleInv, EngineRuns, HandlersEnd, CrewEnds, Surroundings, Forwards
<1>1. ASSUME NEW s \in Starter, start[s] = "run", Claimer!Run, UNCHANGED <<crew, clean>>
      PROVE  LifecycleInv'
  <2>1. UNCHANGED <<listener, wire>> /\ pc # "drain"
    BY <1>1 DEF Claimer!Run, Claimer!LoopTop, Claimer!Arm, Claimer!Tick,
                Claimer!TimerFires, Claimer!Notified, Claimer!Cancelled, Claimer!listening
  <2>2. Starting'
    BY <1>0, <1>1, <2>1 DEF Starting, In
  <2>3. Announced'
    BY Zenon, <1>0, <1>1 DEF Announced, Claimer!Run, Claimer!LoopTop, Claimer!Arm,
                      Claimer!Tick, Claimer!TimerFires, Claimer!Notified, Claimer!Cancelled,
                      Claimer!listening, Claimer!backlog
  <2>4. CrewInv'
    BY <1>0, <1>1, <2>1 DEF CrewInv
  <2> QED BY <2>2, <2>3, <2>4 DEF LifecycleInv
<1>2. ASSUME NEW s \in Starter, start[s] = "run", NEW claimed \in 0..BatchSize,
             Claimer!PollOnce(claimed), crew' = (IF claimed > 0 THEN "busy" ELSE crew),
             clean' = clean
      PROVE  LifecycleInv'
  <2>1. UNCHANGED <<listener, wire>> /\ pc = "poll" /\ pc' = "arm" /\ ~unseen'
    BY <1>2 DEF Claimer!PollOnce, Claimer!listening
  <2>2. Starting'
    BY <1>0, <1>2, <2>1 DEF Starting, In
  <2>3. CrewInv'
    BY <1>0, <1>2, <2>1 DEF CrewInv
  <2> QED BY <2>1, <2>2, <2>3 DEF LifecycleInv, Announced
<1>3. CASE HandlersEnd
  BY <1>0, <1>3 DEF LifecycleInv, Starting, In, Announced, CrewInv, HandlersEnd, claimLoop, engine,
                    backlog
<1>4. CASE CrewEnds
  BY <1>0, <1>4 DEF LifecycleInv, Starting, In, Announced, CrewInv, CrewEnds, claimLoop, engine,
                    backlog
<1>5. ASSUME Claimer!CommitAndNotify, UNCHANGED workers PROVE LifecycleInv'
  <2>1. Starting'
    BY <1>0, <1>5 DEF Starting, In, Claimer!CommitAndNotify, Claimer!engine
  <2>2. Announced' /\ CrewInv'
    BY <1>0, <1>5 DEF Starting, Announced, CrewInv, workers, Claimer!CommitAndNotify,
                      Claimer!engine
  <2> QED BY <2>1, <2>2 DEF LifecycleInv
<1>6. ASSUME Claimer!FallDue, UNCHANGED workers PROVE LifecycleInv'
  BY <1>0, <1>6 DEF LifecycleInv, Starting, In, Announced, CrewInv, workers, Claimer!FallDue,
                    Claimer!engine, Claimer!listening
<1>7. ASSUME Claimer!ListenerExits, UNCHANGED workers PROVE LifecycleInv'
  BY <1>0, <1>7 DEF LifecycleInv, Starting, In, Announced, CrewInv, workers,
                    Claimer!ListenerExits, Claimer!engine, Claimer!backlog
<1>8. ASSUME Claimer!Forward, UNCHANGED workers PROVE LifecycleInv'
  BY <1>0, <1>8 DEF LifecycleInv, Starting, In, Announced, CrewInv, workers, Claimer!Forward,
                    Claimer!engine, Claimer!backlog
<1> QED
  BY <1>1, <1>2, <1>3, <1>4, <1>5, <1>6, <1>7, <1>8 DEF EngineRuns, Surroundings, Forwards

\* Start.
LEMMA StartSteps ==
    ASSUME LifecycleInv, NEW s \in Starter, Enter(s) \/ StartStep(s)
    PROVE  LifecycleInv'
<1>0. Starting /\ CrewInv /\ Announced
  BY DEF LifecycleInv
<1>1. ASSUME In(s) PROVE \A t \in Starter : t # s => start[t] = "idle"
  BY <1>0, <1>1 DEF Starting, In
<1>2. CASE Enter(s)
  <2>1. /\ start' = [start EXCEPT ![s] = "cancel"] /\ started' /\ ~started
        /\ UNCHANGED <<loop, pc, listener, wire, unseen, notify, ctx, crew, clean>>
    BY <1>2 DEF Enter, Goto, claimLoop, engine, backlog, workers
  <2>2. \A t \in Starter : start[t] = "idle"
    BY <1>0, <2>1 DEF Starting, In
  <2>3. Starting'
    BY <1>0, <2>1, <2>2 DEF Starting, In, Running
  <2> QED BY <1>0, <2>1, <2>3 DEF LifecycleInv, Announced, CrewInv
<1>3. CASE SetCancel(s)
  <2>1. /\ start' = [start EXCEPT ![s] = "listen"] /\ start[s] = "cancel"
        /\ UNCHANGED <<started, loop, pc, listener, wire, unseen, notify, crew, clean>>
    BY <1>3 DEF SetCancel, Goto, claimLoop, engine, backlog, workers
  <2>2. \A t \in Starter : t # s => start[t] = "idle"
    BY <1>1, <2>1 DEF In
  <2>3. Starting'
    BY <1>0, <2>1, <2>2 DEF Starting, In, Running
  <2> QED BY <1>0, <2>1, <2>3 DEF LifecycleInv, Announced, CrewInv
<1>4. CASE Listen(s)
  <2>1. /\ start' = [start EXCEPT ![s] = "spawn"] /\ start[s] = "listen"
        /\ listener' \in {"none", "up"}
        /\ UNCHANGED <<started, loop, pc, wire, unseen, notify, ctx, crew, clean>>
    BY <1>4 DEF Listen, Goto, engine, backlog, workers
  <2>2. \A t \in Starter : t # s => start[t] = "idle"
    BY <1>1, <2>1 DEF In
  <2>3. pc = "top"
    BY <1>0, <2>1, <2>2 DEF Starting
  <2>4. Starting'
    BY <1>0, <2>1, <2>2 DEF Starting, In, Running
  <2> QED BY <1>0, <2>1, <2>3, <2>4 DEF LifecycleInv, Announced, CrewInv
<1>5. CASE Spawn(s)
  <2>1. /\ start' = [start EXCEPT ![s] = "run"] /\ start[s] = "spawn"
        /\ loop' = [l \in Loop |-> "select"]
        /\ UNCHANGED <<started, listener, pc, wire, unseen, notify, ctx, crew, clean>>
    BY <1>5 DEF Spawn, Goto, claimLoop, engine, backlog, workers
  <2>2. \A t \in Starter : t # s => start[t] = "idle"
    BY <1>1, <2>1 DEF In
  <2>3. Starting'
    BY <1>0, <2>1, <2>2 DEF Starting, In, Running
  <2> QED BY <1>0, <2>1, <2>3 DEF LifecycleInv, Announced, CrewInv
<1>6. CASE EngineReturns(s)
  <2>1. /\ start' = [start EXCEPT ![s] = "join"] /\ start[s] = "run" /\ pc = "drain"
        /\ clean' \in {FALSE, crew = "done"}
        /\ UNCHANGED <<started, loop, listener, pc, wire, unseen, notify, ctx, crew>>
    BY Zenon, <1>6 DEF EngineReturns, Goto, claimLoop, engine, backlog
  <2>2. Starting'
    BY <1>0, <2>1 DEF Starting, In, Running
  <2>3. CrewInv'
    BY Zenon, <1>0, <2>1 DEF CrewInv
  <2> QED BY <1>0, <2>1, <2>2, <2>3 DEF LifecycleInv, Announced
<1>7. CASE Return(s)
  <2>1. /\ start' = [start EXCEPT ![s] = "returned"] /\ start[s] = "join" /\ ctx'
        /\ \A l \in Loop : loop[l] = "off"
        /\ UNCHANGED <<started, loop, listener, wire, pc, unseen, notify, crew, clean>>
    BY <1>7 DEF Return, Joined, Goto, claimLoop, engine, backlog, workers
  <2>2. Starting'
    BY <1>0, <2>1 DEF Starting, In, Running
  <2> QED BY <1>0, <2>1, <2>2 DEF LifecycleInv, Announced, CrewInv
<1> QED BY <1>2, <1>3, <1>4, <1>5, <1>6, <1>7 DEF StartStep

\* The background loops, the context, and Stop.
LEMMA OtherSteps ==
    ASSUME LifecycleInv,
           \/ ParentCancelled \/ (\E p \in Stopper : StopCalled(p) \/ StopStep(p))
           \/ (\E l \in Loop : LoopTick(l) \/ LoopBodyEnds(l) \/ LoopExits(l))
           \/ UNCHANGED vars
    PROVE  LifecycleInv'
<1>0. Starting /\ CrewInv /\ Announced
  BY DEF LifecycleInv
<1>1. ASSUME UNCHANGED <<start, started, claimLoop, workers>>, ctx => ctx',
             loop' \in [Loop -> {"off", "select", "body"}],
             \A l \in Loop : loop[l] = "off" => loop'[l] = "off"
      PROVE  LifecycleInv'
  BY <1>0, <1>1 DEF LifecycleInv, Starting, Announced, CrewInv, In, claimLoop, engine, backlog,
                    workers
<1>2. loop \in [Loop -> {"off", "select", "body"}]
  BY <1>0 DEF Starting
<1>3. ASSUME NEW p \in Stopper, StopCalled(p) \/ StopStep(p) PROVE LifecycleInv'
  BY Zenon, <1>1, <1>2, <1>3 DEF StopCalled, StopStep, OnceEntered, ReadCancel, CancelFromStop,
                          OncePassed, startVars
<1>4. ASSUME NEW l \in Loop, LoopTick(l) \/ LoopBodyEnds(l) \/ LoopExits(l)
      PROVE  LifecycleInv'
  BY <1>1, <1>2, <1>4 DEF LoopTick, LoopBodyEnds, LoopExits
<1>5. CASE ParentCancelled
  BY Zenon, <1>1, <1>2, <1>5 DEF ParentCancelled
<1>6. CASE UNCHANGED vars
  BY <1>1, <1>2, <1>6 DEF vars, startVars
<1> QED BY <1>3, <1>4, <1>5, <1>6

\* The inductive invariant: one Start at most is let in, and its place decides what runs.
THEOREM LifecycleInvariant == Spec => []LifecycleInv
<1>1. ASSUME Init PROVE LifecycleInv
  <2>1. /\ start = [s \in Starter |-> "idle"] /\ loop = [l \in Loop |-> "off"]
        /\ pc = "top" /\ listener = "none" /\ wire = 0 /\ crew = "idle" /\ ~clean
    BY <1>1 DEF Init, Claimer!Init
  <2>2. Starting
    BY <2>1 DEF Starting, In
  <2>3. clean \in BOOLEAN
    BY Zenon, <1>1 DEF Init
  <2> QED BY <2>1, <2>2, <2>3 DEF LifecycleInv, Announced, CrewInv
<1>2. LifecycleInv /\ [Next]_vars => LifecycleInv'
  BY LoopStep, StartSteps, OtherSteps DEF Next
<1>3. Init => LifecycleInv
  BY <1>1
<1> QED BY <1>2, <1>3, PTL DEF Spec

\* When Start has returned, no background loop and no claim loop runs and no other Start is
\* let in, and a Start that returned nil has left no handler and no flusher behind, however
\* many goroutines called Start and Stop and wherever the loops were.
THEOREM QuietWorker == Spec => []QuietAfterReturn
<1>1. LifecycleInv => QuietAfterReturn
  BY DEF LifecycleInv, Starting, CrewInv, In, QuietAfterReturn, Running
<1> QED BY <1>1, LifecycleInvariant, PTL

\* No notification is lost between a poll and the wait that follows it, for any number of
\* rows, any interval and any back-off.
THEOREM WakeupsKept == Spec => []NoLostWakeup
<1>1. LifecycleInv => NoLostWakeup
  BY DEF LifecycleInv, Announced, NoLostWakeup
<1> QED BY <1>1, LifecycleInvariant, PTL

-----------------------------------------------------------------------------
(* Requests to shut down. *)

\* A request to shut a running worker down is never forgotten, whoever else calls Start and
\* Stop: the end of the caller's context has reached the worker's; so has a Stop once
\* stopOnce is used up; until then a caller of Stop is on its way into stopOnce, or inside
\* and has not found w.cancel nil.  A Stop that came when stopOnce was used up, or about to
\* be, by one that found w.cancel nil is no such request: see StopCalled.  It is the safety
\* part of ParentEndsStart and StopEndsStart.
ShutdownTakesHold ==
    /\ cancel /\ parent => ctx
    /\ asked /\ once = "done" => ctx
    /\ asked /\ once = "free" => \E p \in Stopper : stop[p] = "called"
    /\ asked /\ once = "busy" => \E p \in Stopper : stop[p] \in {"inside", "cancels"}

\* w.cancel is set once, by the one Start that was let in, and before any Stop can ask for it.
CancelSetOnce ==
    /\ asked => cancel
    /\ cancel => started /\ \A s \in Starter : start[s] # "cancel"

\* stopOnce lets one caller in.
OnceInv ==
    /\ stop \in [Stopper -> {"idle", "called"} \cup Inside]
    /\ once \in {"free", "done", "busy"}
    /\ \A p \in Stopper : stop[p] \in Inside => once = "busy"
    /\ \A p, q \in Stopper : stop[p] \in Inside /\ stop[q] \in Inside => p = q
    /\ once = "busy" => \E p \in Stopper : stop[p] \in Inside

ShutdownInv == ShutdownTakesHold /\ CancelSetOnce /\ OnceInv

LEMMA ShutdownStep ==
    ASSUME LifecycleInv, ShutdownInv, [Next]_vars PROVE ShutdownInv'
<1>0. Starting /\ ShutdownTakesHold /\ CancelSetOnce /\ OnceInv
  BY DEF LifecycleInv, ShutdownInv
<1>1. ASSUME UNCHANGED <<stopVars, cancel, parent>>, ctx => ctx', started => started',
             \A s \in Starter : start'[s] = "cancel" => start[s] = "cancel" \/ ~started
      PROVE  ShutdownInv'
  BY <1>0, <1>1 DEF ShutdownInv, ShutdownTakesHold, CancelSetOnce, OnceInv, stopVars
<1>2. ASSUME NEW s \in Starter, Enter(s) PROVE ShutdownInv'
  BY <1>0, <1>1, <1>2 DEF Enter, Goto, Starting
<1>3. ASSUME NEW s \in Starter, SetCancel(s) PROVE ShutdownInv'
  <2>1. /\ ~cancel /\ ~asked /\ started /\ start[s] = "cancel"
        /\ \A t \in Starter : t # s => start[t] # "cancel"
    BY <1>0, <1>3 DEF CancelSetOnce, SetCancel, Starting, In
  <2>2. /\ start' = [start EXCEPT ![s] = "listen"] /\ cancel' /\ ctx' = parent
        /\ UNCHANGED <<started, parent, once, stop, asked>>
    BY <1>3 DEF SetCancel, Goto, stopVars
  <2>3. \A t \in Starter : start'[t] # "cancel"
    BY <1>0, <2>1, <2>2 DEF Starting
  <2> QED BY <1>0, <2>1, <2>2, <2>3
          DEF ShutdownInv, ShutdownTakesHold, CancelSetOnce, OnceInv
<1>4. ASSUME NEW s \in Starter, Listen(s) \/ Spawn(s) \/ EngineReturns(s) \/ Return(s)
      PROVE  ShutdownInv'
  BY Zenon, <1>0, <1>1, <1>4 DEF Listen, Spawn, EngineReturns, Return, Goto, Starting
<1>5. ASSUME UNCHANGED <<startVars, stopVars>> PROVE ShutdownInv'
  BY <1>1, <1>5 DEF startVars
<1>6. ASSUME NEW l \in Loop, LoopTick(l) \/ LoopBodyEnds(l) \/ LoopExits(l) PROVE ShutdownInv'
  BY <1>1, <1>6 DEF LoopTick, LoopBodyEnds, LoopExits
<1>7. CASE ParentCancelled
  <2>1. /\ parent' /\ ctx' = (ctx \/ cancel)
        /\ UNCHANGED <<started, cancel, start, once, stop, asked>>
    BY <1>7 DEF ParentCancelled, stopVars
  <2> QED BY Zenon, <1>0, <2>1 DEF ShutdownInv, ShutdownTakesHold, CancelSetOnce, OnceInv
<1>8. ASSUME NEW p \in Stopper, StopCalled(p) PROVE ShutdownInv'
  <2>1. /\ stop[p] = "idle" /\ once # "done" /\ stop' = [stop EXCEPT ![p] = "called"]
        /\ asked' = (asked \/ (cancel /\ ~Misses))
        /\ UNCHANGED <<started, cancel, ctx, parent, start, once>>
    BY <1>8 DEF StopCalled
  <2>2. /\ stop' \in [Stopper -> {"idle", "called"} \cup Inside] /\ stop'[p] = "called"
        /\ \A q \in Stopper : stop'[q] \in Inside => stop'[q] = stop[q]
        /\ \A q \in Stopper : stop[q] \in Inside => stop'[q] = stop[q]
    BY <1>0, <2>1 DEF OnceInv, Inside
  <2>3. OnceInv'
    BY <1>0, <2>1, <2>2 DEF OnceInv
  <2>4. ShutdownTakesHold'
    BY Zenon, <1>0, <2>1, <2>2 DEF ShutdownTakesHold, OnceInv, Misses, Inside
  <2> QED BY Zenon, <1>0, <2>1, <2>3, <2>4 DEF ShutdownInv, CancelSetOnce
<1>9. ASSUME NEW p \in Stopper, OnceEntered(p) PROVE ShutdownInv'
  <2>1. /\ once = "free" /\ once' = "busy" /\ stop' = [stop EXCEPT ![p] = "inside"]
        /\ UNCHANGED <<started, cancel, ctx, parent, start, asked>>
    BY <1>9 DEF OnceEntered
  <2> QED BY <1>0, <2>1 DEF ShutdownInv, ShutdownTakesHold, CancelSetOnce, OnceInv, Inside
<1>10. ASSUME NEW p \in Stopper, ReadCancel(p) PROVE ShutdownInv'
  <2>1. /\ stop[p] = "inside"
        /\ stop' = [stop EXCEPT ![p] = IF cancel THEN "cancels" ELSE "misses"]
        /\ UNCHANGED <<started, cancel, ctx, parent, start, once, asked>>
    BY <1>10 DEF ReadCancel
  <2>2. OnceInv'
    BY <1>0, <2>1 DEF OnceInv, Inside
  <2>3. ShutdownTakesHold'
    BY <1>0, <2>1 DEF ShutdownTakesHold, CancelSetOnce, OnceInv, Inside
  <2> QED BY <1>0, <2>1, <2>2, <2>3 DEF ShutdownInv, CancelSetOnce
<1>11. ASSUME NEW p \in Stopper, CancelFromStop(p) PROVE ShutdownInv'
  <2>1. /\ stop[p] \in {"cancels", "misses"} /\ ctx' = (ctx \/ stop[p] = "cancels")
        /\ once' = "done" /\ stop' = [stop EXCEPT ![p] = "idle"]
        /\ UNCHANGED <<started, cancel, parent, start, asked>>
    BY <1>11 DEF CancelFromStop
  <2>2. once = "busy" /\ \A q \in Stopper : stop[q] \in Inside => q = p
    BY <1>0, <2>1 DEF OnceInv, Inside
  <2>3. OnceInv'
    BY <1>0, <2>1, <2>2 DEF OnceInv, Inside
  <2>4. asked => stop[p] = "cancels"
    BY <1>0, <2>1, <2>2 DEF ShutdownTakesHold, Inside
  <2>5. ShutdownTakesHold'
    BY Zenon, <1>0, <2>1, <2>4 DEF ShutdownTakesHold
  <2> QED BY <1>0, <2>1, <2>3, <2>5 DEF ShutdownInv, CancelSetOnce
<1>12. ASSUME NEW p \in Stopper, OncePassed(p) PROVE ShutdownInv'
  <2>1. /\ once = "done" /\ stop[p] = "called" /\ stop' = [stop EXCEPT ![p] = "idle"]
        /\ UNCHANGED <<started, cancel, ctx, parent, start, once, asked>>
    BY <1>12 DEF OncePassed
  <2> QED BY <1>0, <2>1 DEF ShutdownInv, ShutdownTakesHold, CancelSetOnce, OnceInv, Inside
<1>13. CASE UNCHANGED vars
  BY <1>5, <1>13 DEF vars
<1> QED
  BY <1>2, <1>3, <1>4, <1>5, <1>6, <1>7, <1>8, <1>9, <1>10, <1>11, <1>12, <1>13
  DEF Next, EngineRuns, HandlersEnd, CrewEnds, Surroundings, Forwards, StartStep, StopStep

\* No interleaving of Start, Stop and the caller's cancellation makes the worker forget that
\* it was asked to end, for any number of callers.
THEOREM ShutdownsTakeHold == Spec => []ShutdownTakesHold
<1>1. Init => ShutdownInv
  BY DEF Init, ShutdownInv, ShutdownTakesHold, CancelSetOnce, OnceInv, Inside
<1>2. LifecycleInv /\ ShutdownInv /\ [Next]_vars => ShutdownInv'
  BY ShutdownStep
<1>3. ShutdownInv => ShutdownTakesHold
  BY DEF ShutdownInv
<1> QED BY <1>1, <1>2, <1>3, LifecycleInvariant, PTL DEF Spec

-----------------------------------------------------------------------------
(* The janitors *)

\* No two workers hold the same holder id or session.
LockInv ==
    /\ lock \in [{key} -> Holder \cup {None}]
    /\ term \in [Worker -> [{key} -> Holder \cup {None}]]
    /\ \A v, w \in Worker : v # w /\ term[v][key] # None => term[v][key] # term[w][key]

\* The cutoff of a running phase is as old as its age at least, and where deletes check the
\* rows they lock, no choice is left over from a snapshot.
PassInv ==
    /\ now \in Int /\ completed \in [Msg -> Int] /\ cutoff \in [Worker -> Int]
    /\ status \in [Msg -> {"ACTIVE", "PURGED"} \cup Terminal]
    /\ pass \in [Worker -> {"idle", "success", "dead", "history"}]
    /\ chosen \in [Worker -> SUBSET Msg]
    /\ \A w \in Worker : /\ pass[w] = "success" => cutoff[w] <= now - SuccessAge
                         /\ pass[w] = "dead" => Dead >= 0 /\ cutoff[w] <= now - DeadAge
                         /\ Locking => chosen[w] = {}

-----------------------------------------------------------------------------
\* There is a holder id nobody has: one for every other worker and one in the lock are
\* fewer than there are.
LEMMA FreshHolder ==
    ASSUME LockInv, NEW w \in Worker, term[w][key] = None
    PROVE  \E h \in Holder : h \notin {lock[key]} \cup {term[v][key] : v \in Worker}
<1> DEFINE Rest == Worker \ {w}
           Terms == {term[v][key] : v \in Rest}
           f == [v \in Rest |-> term[v][key]]
<1>1. IsFiniteSet(Rest) /\ Cardinality(Rest) = Cardinality(Worker) - 1
  BY LeaderLockAssumption, FS_RemoveElement
<1>2. f \in Surjection(Rest, Terms)
  BY DEF Surjection
<1>3. IsFiniteSet(Terms) /\ Cardinality(Terms) <= Cardinality(Rest)
  BY <1>1, <1>2, FS_Surjection
<1>4. /\ IsFiniteSet(Terms \cup {lock[key]})
      /\ Cardinality(Terms \cup {lock[key]}) <= Cardinality(Terms) + 1
  <2> HIDE DEF Terms
  <2>1. Cardinality(Terms) \in Nat
    BY <1>3, FS_CardinalityType
  <2>2. /\ IsFiniteSet(Terms \cup {lock[key]})
        /\ Cardinality(Terms \cup {lock[key]}) = IF lock[key] \in Terms THEN Cardinality(Terms)
                                                 ELSE Cardinality(Terms) + 1
    BY <1>3, FS_AddElement
  <2> QED BY <2>1, <2>2
<1>5. /\ Cardinality(Worker) \in Nat /\ Cardinality(Holder) \in Nat
      /\ Cardinality(Terms) \in Nat /\ Cardinality(Terms \cup {lock[key]}) \in Nat
  BY <1>3, <1>4, LeaderLockAssumption, FS_CardinalityType
<1>6. ~(Holder \subseteq Terms \cup {lock[key]})
  <2> SUFFICES ASSUME Holder \subseteq Terms \cup {lock[key]} PROVE FALSE
    OBVIOUS
  <2>1. Cardinality(Holder) <= Cardinality(Terms \cup {lock[key]})
    BY <1>4, FS_Subset
  <2> QED BY <1>1, <1>3, <1>4, <1>5, <2>1, LeaderLockAssumption
<1>7. PICK h \in Holder : h \notin Terms /\ h # lock[key]
  BY <1>6
<1>8. h \notin {term[v][key] : v \in Worker}
  BY <1>7, LeaderLockAssumption
<1> QED BY <1>7, <1>8

\* What the steps do to the lock and the terms.
LEMMA LockStep ==
    ASSUME LockInv, [JanitorNext]_janitorVars
    PROVE  LockInv'
<1>1. ASSUME NEW w \in Worker, Leader!TryLeaderLock(w, key) PROVE LockInv'
  <2> DEFINE h == CHOOSE h \in Holder :
                    h \notin {lock[key]} \cup {term[v][key] : v \in Worker}
  <2>1. /\ term[w][key] = None
        /\ lock' = [lock EXCEPT ![key] = h] /\ term' = [term EXCEPT ![w][key] = h]
    BY <1>1 DEF Leader!TryLeaderLock
  <2>2. h \in Holder /\ \A v \in Worker : h # term[v][key]
    BY <2>1, FreshHolder
  <2> HIDE DEF h
  <2> QED BY <2>1, <2>2 DEF LockInv
<1>2. ASSUME NEW w \in Worker, Leader!Unlock(w, key) \/ Leader!UnlockLost(w, key) PROVE LockInv'
  <2>1. CASE Leader!Unlock(w, key)
    BY <2>1 DEF Leader!Unlock, LockInv
  <2>2. CASE Leader!UnlockLost(w, key)
    BY <2>2 DEF Leader!UnlockLost, LockInv
  <2> QED BY <1>2, <2>1, <2>2
<1>3. ASSUME NEW w \in Worker, Leader!SessionLost(w, key) PROVE LockInv'
  BY <1>3 DEF Leader!SessionLost, LockInv
<1>4. CASE UNCHANGED <<lock, term>>
  BY <1>4 DEF LockInv
<1>5. ASSUME Clock \/ Others \/ LeaseTick \/ UNCHANGED janitorVars PROVE UNCHANGED <<lock, term>>
  BY <1>5 DEF Clock, Others, LeaseTick, Leader!Tick, leadership, janitorVars
<1>6. ASSUME NEW w \in Worker, Purge(w) \/ PurgeEnds(w) PROVE UNCHANGED <<lock, term>>
  BY <1>6 DEF Purge, PurgeEnds, leadership
<1> QED BY <1>1, <1>2, <1>3, <1>4, <1>5, <1>6
        DEF JanitorNext, tryPurge, EndTerm, LosesSession

\* A leader whose session lives, or whose lease runs, keeps the lock until it ends its term:
\* nobody else is granted it, and a late unlock of an earlier leader removes only that
\* leader's own row.
THEOREM LeadersKeepLock == JanitorSpec => LeaderKeepsLock
<1>1. JanitorInit => LockInv
  BY DEF JanitorInit, Leader!Init, LockInv
<1>2. LockInv /\ [JanitorNext]_janitorVars => LockInv'
  BY LockStep
<1>3. LockInv /\ [JanitorNext]_janitorVars
      => [\A w \in Worker :
             /\ Leader!Leads(w, key) /\ lock[key] = term[w][key]
             /\ Leader!Leased => left[key] > 0
             /\ term'[w] = term[w] /\ ~LosesSession(w)
             => lock'[key] = term[w][key]]_janitorVars
  <2> SUFFICES ASSUME LockInv, JanitorNext, NEW w \in Worker,
                      term[w][key] # None, lock[key] = term[w][key],
                      Leader!Leased => left[key] > 0,
                      term'[w] = term[w], ~LosesSession(w)
               PROVE  lock'[key] = term[w][key]
    BY DEF Leader!Leads
  <2>1. ASSUME NEW v \in Worker, tryPurge(v) PROVE FALSE
    <3>1. Leader!Available(key)
      BY <2>1 DEF tryPurge, Leader!TryLeaderLock
    <3>2. Leader!Leased /\ left[key] = 0
      BY <3>1 DEF Leader!Available
    <3> QED BY <3>2
  <2>2. ASSUME NEW v \in Worker, EndTerm(v) PROVE lock' = lock
    <3>1. v # w
      <4>1. term[v][key] # None /\ term' = [term EXCEPT ![v][key] = None]
        BY <2>2 DEF EndTerm, Leader!Unlock, Leader!UnlockLost
      <4> QED BY <4>1 DEF LockInv
    <3>2. term[v][key] # lock[key]
      BY <3>1 DEF LockInv
    <3> QED BY <2>2, <3>2 DEF EndTerm, Leader!Unlock, Leader!UnlockLost
  <2>3. ASSUME NEW v \in Worker, LosesSession(v) PROVE FALSE
    <3>1. v # w
      BY <2>3
    <3>2. term[v][key] # None /\ lock[key] = term[v][key]
      BY <2>3 DEF LosesSession, Leader!SessionLost
    <3> QED BY Zenon, <3>1, <3>2 DEF LockInv
  <2>4. ASSUME Clock \/ Others \/ LeaseTick PROVE lock' = lock
    BY <2>4 DEF Clock, Others, LeaseTick, Leader!Tick, leadership
  <2>5. ASSUME NEW v \in Worker, Purge(v) \/ PurgeEnds(v) PROVE lock' = lock
    BY Zenon, <2>5 DEF Purge, PurgeEnds, leadership
  <2> QED BY <2>1, <2>2, <2>3, <2>4, <2>5 DEF JanitorNext
<1> QED BY <1>1, <1>2, <1>3, PTL DEF JanitorSpec, LeaderKeepsLock

-----------------------------------------------------------------------------
\* The ages.
LEMMA Ages ==
    /\ SuccessAge \in Int /\ DeadAge \in Int /\ HistoryAge \in Int /\ ShorterAge \in Int
    /\ ShorterAge <= SuccessAge
    /\ Dead >= 0 => ShorterAge <= DeadAge
<1>1. /\ SuccessAge \in Int /\ DeadAge \in Int /\ Dead \in Int
      /\ History \in Int /\ DefaultLong \in Int
  BY RetentionAssumption DEF SuccessAge, DeadAge
<1>2. \A a, b \in Int : Min({a, b}) \in {a, b} /\ Min({a, b}) <= a /\ Min({a, b}) <= b
  <2> SUFFICES ASSUME NEW a \in Int, NEW b \in Int
               PROVE  Min({a, b}) \in {a, b} /\ Min({a, b}) <= a /\ Min({a, b}) <= b
    OBVIOUS
  <2>1. \E x \in {a, b} : \A y \in {a, b} : x <= y
    OBVIOUS
  <2> QED BY <2>1 DEF Min
<1>3. \A a, b, c \in Int : Max({a, b, c}) \in Int
  <2> SUFFICES ASSUME NEW a \in Int, NEW b \in Int, NEW c \in Int PROVE Max({a, b, c}) \in Int
    OBVIOUS
  <2>1. \E x \in {a, b, c} : \A y \in {a, b, c} : x >= y
    <3>1. CASE a >= b /\ a >= c
      BY <3>1
    <3>2. CASE b >= a /\ b >= c
      BY <3>2
    <3>3. CASE c >= a /\ c >= b
      BY <3>3
    <3> QED BY <3>1, <3>2, <3>3
  <2> QED BY <2>1 DEF Max
<1>4. HistoryAge \in Int
  BY <1>1, <1>3 DEF HistoryAge
<1> QED BY <1>1, <1>2, <1>4 DEF ShorterAge

\* A phase begins with the cutoff of its age.
LEMMA Enters ==
    ASSUME PassInv, NEW w \in Worker, NEW phase \in {"success", "dead", "history", "idle"},
           EnterPhase(w, phase), now' = now,
           status' \in [Msg -> {"ACTIVE", "PURGED"} \cup Terminal],
           UNCHANGED <<completed, dialect>>,
           chosen' \in [Worker -> SUBSET Msg],
           Locking => \A v \in Worker : chosen'[v] = {}
    PROVE  PassInv'
<1> DEFINE p == IF phase = "dead" /\ Dead < 0 THEN "history" ELSE phase
           q == IF p = "history" /\ HistoryAge < 0 THEN "idle" ELSE p
           age == [success |-> SuccessAge, dead |-> DeadAge, history |-> HistoryAge]
           cut == IF q = "idle" THEN 0 ELSE now - age[q]
<1>1. pass' = [pass EXCEPT ![w] = q] /\ cutoff' = [cutoff EXCEPT ![w] = cut]
  BY DEF EnterPhase
<1>2. /\ q \in {"idle", "success", "dead", "history"} /\ cut \in Int
      /\ q = "success" => cut = now - SuccessAge
      /\ q = "dead" => cut = now - DeadAge /\ Dead >= 0
  <2>1. /\ SuccessAge \in Int /\ DeadAge \in Int /\ HistoryAge \in Int
        /\ now \in Int /\ Dead \in Int
    BY Ages, RetentionAssumption DEF PassInv
  <2>2. /\ q \in {"idle", "success", "dead", "history"}
        /\ q = "dead" => ~(Dead < 0)
    OBVIOUS
  <2>3. /\ age["success"] = SuccessAge /\ age["dead"] = DeadAge
        /\ age["history"] = HistoryAge
    OBVIOUS
  <2> HIDE DEF q, age
  <2> QED BY <2>1, <2>2, <2>3
<1> HIDE DEF q, cut
<1> QED BY <1>1, <1>2, Ages DEF PassInv, Locking

\* The invariant of the passes, and what a step deletes.
LEMMA PassStep ==
    ASSUME PassInv, [JanitorNext]_janitorVars
    PROVE  /\ PassInv'
           /\ Locking => \A m \in Msg : status'[m] = "PURGED" /\ status[m] # "PURGED"
                => status[m] \in Terminal /\ now - completed[m] > ShorterAge
<1> DEFINE Early == \E m \in Msg : /\ status'[m] = "PURGED" /\ status[m] # "PURGED"
                                   /\ ~(status[m] \in Terminal /\ now - completed[m] > ShorterAge)
<1>1. CASE Clock
  BY <1>1, Ages DEF Clock, Tick, PassInv, Locking
<1>2. CASE Others
  BY <1>2, Ages DEF Others, Complete, Requeue, PassInv, Locking, Terminal
<1>3. ASSUME UNCHANGED <<retention, dialect>> PROVE PassInv' /\ ~Early
  BY <1>3 DEF retention, PassInv, Locking
<1>4. ASSUME NEW w \in Worker, tryPurge(w) PROVE PassInv' /\ ~Early
  <2>1. EnterPhase(w, "success") /\ UNCHANGED <<status, completed, now, chosen, dialect>>
    BY <1>4 DEF tryPurge, PassBegins
  <2>2. PassInv'
    BY <2>1, Enters DEF PassInv
  <2> QED BY <2>1, <2>2
<1>5. ASSUME NEW w \in Worker, PurgeLocking(w), UNCHANGED dialect PROVE PassInv' /\ ~Early
  <2>1. PICK T \in kSubset(Min({PurgeBatch, Cardinality(Expired(w))}), Expired(w)) : Delete(w, T)
    BY <1>5 DEF PurgeLocking
  <2>2. T \subseteq Expired(w) /\ pass[w] \in {"success", "dead"} /\ chosen' = chosen
    BY <1>5, <2>1 DEF kSubset, PurgeLocking
  <2>3. /\ \A m \in Msg : status'[m] # status[m] => m \in T /\ status'[m] = "PURGED"
        /\ status' \in [Msg -> {"ACTIVE", "PURGED"} \cup Terminal]
        /\ UNCHANGED <<completed, now>>
        /\ EnterPhase(w, After(pass[w])) \/ UNCHANGED <<pass, cutoff>>
    BY Zenon, <2>1 DEF Delete, PassInv
  <2>4. cutoff[w] \in Int /\ now \in Int /\ cutoff[w] <= now - ShorterAge
    BY <2>2, Ages DEF PassInv
  <2>5. ~Early
    <3> SUFFICES ASSUME NEW m \in T
                 PROVE  status[m] \in Terminal /\ now - completed[m] > ShorterAge
      BY Zenon, <2>3
    <3>1. m \in Msg /\ status[m] \in Terminal /\ completed[m] < cutoff[w]
      BY <2>2 DEF Expired
    <3> QED BY <2>4, <3>1, Ages DEF PassInv
  <2>6. CASE EnterPhase(w, After(pass[w]))
    BY Zenon, <1>5, <2>2, <2>3, <2>5, <2>6, Enters DEF After, PassInv
  <2>7. CASE UNCHANGED <<pass, cutoff>>
    BY <1>5, <2>2, <2>3, <2>5, <2>7 DEF PassInv, Locking
  <2> QED BY Zenon, <2>3, <2>6, <2>7
<1>6. ASSUME NEW w \in Worker, PurgeSelects(w), UNCHANGED dialect PROVE PassInv' /\ ~Early
  <2>1. UNCHANGED <<status, completed, now>> /\ ~Locking /\ pass[w] \in {"success", "dead"}
    BY <1>6 DEF PurgeSelects
  <2>2. CASE Expired(w) = {}
    BY Zenon, <1>6, <2>1, <2>2, Enters DEF PurgeSelects, After, PassInv
  <2>3. CASE Expired(w) # {}
    <3>1. PICK T \in Oldest(Expired(w), PurgeBatch) : chosen' = [chosen EXCEPT ![w] = T]
      BY <1>6, <2>3 DEF PurgeSelects
    <3>2. T \subseteq Msg
      BY DEF Oldest, kSubset, Expired
    <3> QED BY <1>6, <2>1, <2>3, <3>1, <3>2 DEF PurgeSelects, PassInv, Locking
  <2> QED BY Zenon, <2>2, <2>3
<1>7. ASSUME NEW w \in Worker, PurgeDeletes(w), UNCHANGED dialect PROVE PassInv' /\ ~Locking
  <2>1. ~Locking
    BY <1>7 DEF PurgeDeletes, PassInv
  <2>2. /\ status' \in [Msg -> {"ACTIVE", "PURGED"} \cup Terminal]
        /\ UNCHANGED <<completed, now>>
        /\ EnterPhase(w, After(pass[w])) \/ UNCHANGED <<pass, cutoff>>
        /\ chosen' \in [Worker -> SUBSET Msg]
    BY <1>7 DEF PurgeDeletes, Delete, PassInv
  <2>3. CASE EnterPhase(w, After(pass[w]))
    BY <1>7, <2>1, <2>2, <2>3, Enters DEF After
  <2>4. CASE UNCHANGED <<pass, cutoff>>
    BY <1>7, <2>1, <2>2, <2>4 DEF PassInv, Locking
  <2> QED BY <2>1, <2>2, <2>3, <2>4
<1>8. ASSUME NEW w \in Worker, PurgeHistory(w), UNCHANGED dialect PROVE PassInv' /\ ~Early
  <2>1. EnterPhase(w, "idle") /\ UNCHANGED <<status, completed, now, chosen, dialect>>
    BY <1>8 DEF PurgeHistory
  <2>2. PassInv'
    BY <2>1, Enters DEF PassInv
  <2> QED BY <2>1, <2>2
<1>9. ASSUME NEW w \in Worker, PurgeEnds(w) PROVE PassInv' /\ ~Early
  <2>1. /\ UNCHANGED <<status, completed, now, dialect>> /\ chosen' = [chosen EXCEPT ![w] = {}]
        /\ \E phase \in {"success", "dead", "history", "idle"} : EnterPhase(w, phase)
    BY <1>9 DEF PurgeEnds, PurgeFails, PassInterrupted, After
  <2>2. PassInv'
    BY <2>1, Enters DEF PassInv
  <2> QED BY Zenon, <2>1, <2>2
<1>10. ASSUME \/ LeaseTick \/ UNCHANGED janitorVars
              \/ \E w \in Worker : EndTerm(w) \/ LosesSession(w)
       PROVE  UNCHANGED <<retention, dialect>>
  BY <1>10 DEF LeaseTick, EndTerm, LosesSession, janitorVars
<1> QED BY Zenon, <1>1, <1>2, <1>3, <1>4, <1>5, <1>6, <1>7, <1>8, <1>9, <1>10
        DEF JanitorNext, Purge, PurgeTerminal

\* On MySQL and CockroachDB no message is deleted before its time, for any ages, batches
\* and overlapping passes.
THEOREM LockedPurgesAreSafe == JanitorSpec => LockedPurgesOnlyExpired
<1>1. JanitorInit => PassInv
  BY DEF JanitorInit, RetentionInit, PassInv, Terminal
<1>2. PassInv /\ [JanitorNext]_janitorVars => PassInv'
  BY PassStep
<1>3. PassInv /\ [JanitorNext]_janitorVars
      => [Locking => \A m \in Msg : status'[m] = "PURGED" /\ status[m] # "PURGED"
             => status[m] \in Terminal /\ now - completed[m] > ShorterAge]_janitorVars
  BY PassStep
<1> QED BY <1>1, <1>2, <1>3, PTL DEF JanitorSpec, LockedPurgesOnlyExpired

=============================================================================
