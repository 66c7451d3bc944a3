------------------------ MODULE EngineContractProofs ------------------------
(***************************************************************************)
(* Further proofs about module Engine, on the invariant of EngineProofs:   *)
(* nobody waits in vain, the process keeps WorkerContract, and the bounds  *)
(* of its state.                                                           *)
(***************************************************************************)
EXTENDS EngineRefinement, EngineProofs, TLAPS

-----------------------------------------------------------------------------
(* Who waits for whom. *)

\* What the places of the loop, of the flusher and of drain's goroutine say of each other.
Waiting ==
    /\ flusher \in {"absent", "select", "flush", "lastFlush", "exited"}
    /\ flusher = "absent" <=> conf.ackCap = 0
    /\ pc = "perType" => conf.maxInflight > 0
    /\ closer \in {"close", "await"} => conf.ackCap # 0
    /\ closer = "await" => closed
    /\ stopping => ctxDone
    /\ result = "ok" => pc = "returned"

LEMMA WaitingStep == ASSUME Waiting, [Next]_vars PROVE Waiting'
<1>1. ASSUME UNCHANGED <<conf, closed, flusher>>, LoopTop \/ WaitEnds PROVE Waiting'
  BY <1>1 DEF Waiting, LoopTop, WaitEnds
<1>2. ASSUME UNCHANGED conf, Poll \/ Dispatched \/ DrainEnds PROVE Waiting'
  BY <1>2 DEF Waiting, Poll, Dispatched, DrainEnds, ackVars, stopVars
<1>3. ASSUME UNCHANGED conf, AcquireGlobal PROVE Waiting'
  <2>1. /\ UNCHANGED <<flusher, closed, closer, stopping, ctxDone, result>> /\ pc # "returned"
        /\ pc' = "perType" => conf.maxInflight > 0
    BY <1>3 DEF AcquireGlobal, ackVars, stopVars
  <2> QED BY <1>3, <2>1 DEF Waiting
<1>4. ASSUME UNCHANGED conf, AcquireTyped \/ ReleaseBeforeDispatch \/ ReleaseFromTyped
      PROVE  Waiting'
  <2>1. /\ UNCHANGED <<flusher, closed, closer, stopping, ctxDone, result>> /\ pc # "returned"
        /\ pc' = "dispatch" \/ pc' = pc
    BY <1>4 DEF AcquireTyped, ReleaseBeforeDispatch, ReleaseFromTyped, ackVars, stopVars
  <2> QED BY <1>4, <2>1 DEF Waiting
<1>5. ASSUME NEW g \in gor, HandlerStep(g) PROVE Waiting'
  <2>1. UNCHANGED <<conf, pc, flusher, closed, closer, stopping, ctxDone, result>>
    BY Zenon, <1>5 DEF HandlerStep, HandlerReturns, Resolve, Commit, FreeType, FreePool, Exit,
                loopVars, ackVars, stopVars
  <2> QED BY <2>1 DEF Waiting
<1>6. ASSUME Flusher PROVE Waiting'
  <2>1. /\ UNCHANGED <<conf, pc, closed, closer, stopping, ctxDone, result>>
        /\ flusher # "absent" /\ flusher' \in {"select", "flush", "lastFlush", "exited"}
    BY <1>6 DEF Flusher, FlusherReceives, FlusherTicks, FlusherSeesClose, Flush, loopVars,
                stopVars
  <2> QED BY <2>1 DEF Waiting
<1>7. ASSUME Closer \/ Shutdown PROVE Waiting'
  <2>1. /\ UNCHANGED <<conf, pc, flusher, stopping, result>> /\ (ctxDone => ctxDone')
        /\ \/ closer' = closer /\ closed' = closed
           \/ closer' = "done" /\ closed' = closed
           \/ closer' = "close" /\ conf.ackCap # 0 /\ closed' = closed
           \/ closer = "close" /\ closer' = "await" /\ closed'
    BY <1>7 DEF Closer, CloserWaits, CloserCloses, CloserDone, Shutdown, Cancel, loopVars,
                ackVars
  <2> QED BY <2>1 DEF Waiting
<1>8. CASE UNCHANGED vars
  BY <1>8 DEF Waiting, vars, loopVars, ackVars, stopVars
<1>9. CASE Loop
  <2>1. UNCHANGED conf /\ (LoopTop \/ WaitEnds => UNCHANGED <<closed, flusher>>)
    BY <1>9 DEF Loop, LoopTop, WaitEnds, ackVars
  <2> QED BY <1>1, <1>2, <1>3, <1>4, <1>9, <2>1 DEF Loop
<1> QED BY <1>5, <1>6, <1>7, <1>8, <1>9 DEF Next, Handlers

\* Every chain of waits, through the semaphores, the acknowledgement channel, the WaitGroup
\* and drain's goroutine, ends at somebody who can move, for any sizes.
THEOREM NoWaitInVain == Spec => []NobodyWaitsInVain
<1>1. Init => Waiting
  BY DEF Init, Waiting
<1>2. Waiting /\ [Next]_vars => Waiting'
  BY WaitingStep
<1>3. EngineInv /\ Waiting => NobodyWaitsInVain
  <2> SUFFICES ASSUME EngineInv, Waiting PROVE NobodyWaitsInVain
    OBVIOUS
  <2>1. Types /\ Draining /\ Counted /\ IsFiniteSet(gor)
    BY DEF EngineInv, Counted
  <2>2. /\ conf.poolSize \in Nat \ {0} /\ conf.maxInflight \in Nat /\ conf.ackCap \in Nat
    BY <2>1, EngineAssumption DEF Types
  <2>3. pc = "dispatch" /\ pool >= conf.poolSize => \E g \in gor : Holding(g)
    <3>1. HoldPool = {} => Cardinality(HoldPool) = 0
      BY FS_EmptySet
    <3>2. pc = "dispatch" => pool = Cardinality(HoldPool)
      BY <2>1, FiniteCounts DEF Counted
    <3> QED BY <2>2, <3>1, <3>2 DEF HoldPool
  <2>4. pc = "perType" /\ typed[TypeOf(cur)] >= conf.maxInflight =>
          \E g \in gor : /\ TypeOf(Msgs(g)) = TypeOf(cur)
                         /\ g.stage \in {"running", "returned", "commit"}
    <3> DEFINE t == TypeOf(cur)
    <3>1. t \in Type
      BY DEF TypeOf, Type
    <3>2. HoldTyped(t) = {} => Cardinality(HoldTyped(t)) = 0
      BY FS_EmptySet
    <3>3. typed[t] = IF conf.maxInflight = 0 THEN 0 ELSE Cardinality(HoldTyped(t))
      BY <2>1, <3>1 DEF Counted
    <3>4. pc = "perType" => conf.maxInflight > 0
      BY DEF Waiting
    <3> HIDE DEF t
    <3>5. pc = "perType" /\ typed[t] >= conf.maxInflight => HoldTyped(t) # {}
      BY <2>2, <3>2, <3>3, <3>4
    <3> QED BY <3>5 DEF HoldTyped, t
  <2>5. ASSUME NEW g \in gor, SendBlocked(g) PROVE ~closed /\ FlusherMoves
    <3>1. ~closed /\ flusher \notin {"lastFlush", "exited"}
      BY <2>1 DEF Draining
    <3>2. conf.ackCap > 0 /\ acks # {}
      BY <2>2, <2>5, FS_EmptySet DEF SendBlocked
    <3> QED BY <2>2, <3>1, <3>2 DEF Waiting, FlusherMoves
  <2>6. acks \cup buf # {} => FlusherMoves
    BY <2>1 DEF Draining, Waiting, FlusherMoves
  <2>7. closer = "wait" /\ inflight > 0 => gor # {}
    <3>1. gor = {} => inflight = 0
      BY <2>1, FS_EmptySet DEF Counted
    <3> QED BY <3>1
  <2>8. closer = "await" /\ flusher # "exited" => FlusherMoves
    BY DEF Waiting, FlusherMoves
  <2> QED BY <2>3, <2>4, <2>5, <2>6, <2>7, <2>8 DEF NobodyWaitsInVain
<1> QED BY <1>1, <1>2, <1>3, EngineInvariant, PTL DEF Spec

-----------------------------------------------------------------------------
(* The contract of the worker. *)

\* The messages the process is answerable for are those under a claim of its own.
LEMMA CustodyIsClaimed == Types /\ Conserved => Custody = {m \in Msg : Claimed(m)}
<1> SUFFICES ASSUME Types, Conserved PROVE Custody = {m \in Msg : Claimed(m)}
  OBVIOUS
<1>1. \A g \in gor : g.left \subseteq Msg
  BY DEF Types, Fiber
<1>2. Custody \subseteq Msg
  BY <1>1 DEF Custody, Types
<1>3. \A m \in Msg : m \in Custody <=> Claimed(m)
  <2>1. \A m : m \in UNION {g.left : g \in gor} <=> InHandler(m)
    BY DEF InHandler
  <2> QED BY <2>1 DEF Custody, Conserved, Placed
<1> QED BY <1>2, <1>3

LEMMA Standings ==
    /\ Standing("pending") = "ready" /\ Standing("handling") = "taken"
    /\ Standing("success") = "done" /\ Standing("dead") = "dead"
BY DEF Standing

\* The claims a step ends, begins and leaves alone, as changes of the custody.
LEMMA CustodyMoves ==
    ASSUME EngineInv, EngineInv', NEW S \in SUBSET Msg,
           \A m \in Msg \ S : Claimed(m)' <=> Claimed(m)
    PROVE  /\ (\A m \in S : Claimed(m) /\ ~Claimed(m)') => S \subseteq Custody
                                                             /\ Custody' = Custody \ S
           /\ (\A m \in S : ~Claimed(m) /\ Claimed(m)') => Custody' = Custody \cup S
           /\ (\A m \in S : Claimed(m)' <=> Claimed(m)) => Custody' = Custody
<1>1. Custody = {m \in Msg : Claimed(m)}
  BY CustodyIsClaimed DEF EngineInv
<1>2. (Types /\ Conserved => Custody = {m \in Msg : Claimed(m)})'
  BY CustodyIsClaimed, PTL
<1>3. Custody' = {m \in Msg : Claimed(m)'}
  BY <1>2 DEF EngineInv
<1> HIDE DEF Custody, Claimed
<1> QED BY <1>1, <1>3

\* Steps that write no row and end no run.
LEMMA NothingToReport ==
    ASSUME EngineInv, EngineInv', UNCHANGED <<conf, db, attempt, lost>>, UNCHANGED Phase
    PROVE  UNCHANGED WC!vars
<1>1. Custody' = Custody
  BY CustodyMoves DEF Claimed
<1> QED BY <1>1 DEF WC!vars

\* Outcomes of messages under a claim.
LEMMA Reporting ==
    ASSUME EngineInv, EngineInv', NEW S \in SUBSET Msg, \A m \in S : Claimed(m),
           \A m \in S : ~Claimed(m)',
           \A m \in Msg \ S : /\ db'[m] = db[m] /\ attempt'[m] = attempt[m]
                              /\ Claimed(m)' <=> Claimed(m),
           \A m \in S : \/ /\ attempt'[m] = attempt[m]
                           /\ \/ db'[m] \in {"handling", "success", "dead"}
                              \/ db'[m] = "pending" /\ attempt[m] < conf.maxAttempts
                        \/ /\ attempt'[m] = attempt[m] - 1
                           /\ db'[m] = "pending" /\ Phase = "leaving",
           Phase # "over", UNCHANGED conf, UNCHANGED Phase
    PROVE  WC!Next
<1>1. S \in SUBSET Custody /\ Custody' = Custody \ S
  BY CustodyMoves
<1>2. \A m \in S : <<Standing(db'[m]), attempt'[m]>> \in WC!Outcomes(m)
  BY Zenon, Standings DEF WC!Outcomes
<1>3. \A m \in Msg : IF m \in S THEN <<Standing(db'[m]), attempt'[m]>> \in WC!Outcomes(m)
                     ELSE Standing(db'[m]) = Standing(db[m]) /\ attempt'[m] = attempt[m]
  BY <1>2
<1>4. WC!Report(S)
  BY <1>1, <1>3 DEF WC!Report
<1> QED BY <1>1, <1>4 DEF WC!Next

\* A worker that is over has nobody left to report anything.
LEMMA OverIsOver ==
    ASSUME EngineInv, Phase = "over"
    PROVE  pc \in {"drain", "returned"} /\ gor = {} /\ buf = {}
BY DEF EngineInv, Draining, Phase

\* A claim of pollOnce, whether or not it learns of it.
LEMMA PollTakes ==
    ASSUME EngineInv, EngineInv', Waiting, Poll, UNCHANGED conf PROVE WC!Next
<1>1. PICK S \in SUBSET Claimable :
        /\ Claim(S)
        /\ \/ ~ctxDone /\ UNCHANGED lost
           \/ lost' = lost \cup S
  BY DEF Poll
<1>2. UNCHANGED <<ctxDone, result>> /\ result # "ok"
  BY DEF Poll, stopVars, Waiting
<1>3. \A m \in S : m \in Msg /\ db[m] = "pending" /\ m \notin lost
  BY DEF Claimable, EngineInv, Conserved, Placed
<1>4. /\ \A m \in S : db'[m] = "handling" /\ ~Claimed(m)
      /\ \A m \in Msg \ S : db'[m] = db[m]
  BY <1>1, <1>3 DEF Claim, Claimed
<1>5. S \in SUBSET WC!Ready
  BY <1>3, Standings DEF WC!Ready
<1>6. WC!Taken(S)
  <2>1. \A m \in Msg : Standing(db'[m]) = IF m \in S THEN "taken" ELSE Standing(db[m])
    BY <1>4, Standings
  <2> QED BY <1>1, <1>2, <2>1 DEF WC!Taken, Claim, Phase
<1>7. CASE ~ctxDone /\ UNCHANGED lost
  <2>1. Custody' = Custody \cup S
    <3>1. /\ \A m \in Msg \ S : Claimed(m)' <=> Claimed(m)
          /\ \A m \in S : ~Claimed(m) /\ Claimed(m)'
      BY <1>3, <1>4, <1>7 DEF Claimed
    <3> QED BY <1>3, <3>1, CustodyMoves
  <2>2. WC!Take(S)
    BY <1>2, <1>6, <1>7, <2>1 DEF WC!Take, Phase
  <2> QED BY <1>5, <2>2 DEF WC!Next
<1>8. CASE lost' = lost \cup S
  <2>1. Custody' = Custody
    <3>1. \A m \in Msg : Claimed(m)' <=> Claimed(m)
      BY <1>3, <1>4, <1>8 DEF Claimed
    <3> QED BY <3>1, CustodyMoves
  <2>2. WC!TakeUnheard(S)
    BY <1>2, <1>6, <2>1 DEF WC!TakeUnheard, Phase
  <2> QED BY <1>5, <2>2 DEF WC!Next
<1> QED BY <1>1, <1>7, <1>8

\* What the storage calls write, as outcomes.
LEMMA SucceedReports ==
    ASSUME EngineInv, EngineInv', NEW S \in SUBSET Msg, \A m \in S : Claimed(m), Succeed(S),
           Phase # "over", UNCHANGED conf, UNCHANGED Phase
    PROVE  WC!Next
<1>1. \A m \in Msg : /\ m \in S => ~Claimed(m)'
                     /\ m \notin S => (Claimed(m)' <=> Claimed(m))
  BY SucceedClaims DEF EngineInv
<1>2. /\ \A m \in Msg \ S : db'[m] = db[m]
      /\ \A m \in S : db'[m] \in {"handling", "success"}
      /\ UNCHANGED attempt
  BY DEF Succeed, Claimed
<1> QED BY <1>1, <1>2, Reporting

LEMMA ReleaseReports ==
    ASSUME EngineInv, EngineInv', NEW S \in SUBSET Msg, \A m \in S : Claimed(m),
           ReleaseShutdown(S), Phase = "leaving", UNCHANGED conf, UNCHANGED Phase
    PROVE  WC!Next
<1>1. \A m \in Msg : /\ m \in S => ~Claimed(m)'
                     /\ m \notin S => (Claimed(m)' <=> Claimed(m))
  BY ReleaseClaims DEF EngineInv
<1>2. /\ \A m \in Msg \ S : db'[m] = db[m] /\ attempt'[m] = attempt[m]
      /\ \A m \in S : \/ db'[m] = "handling" /\ attempt'[m] = attempt[m]
                      \/ db'[m] = "pending" /\ attempt'[m] = attempt[m] - 1
  BY DEF ReleaseShutdown, Claimed
<1> QED BY <1>1, <1>2, Reporting

LEMMA FailReports ==
    ASSUME EngineInv, EngineInv', NEW n \in Msg, Claimed(n), Fail(n),
           Phase # "over", UNCHANGED conf, UNCHANGED Phase
    PROVE  WC!Next
<1>1. \A m \in Msg : /\ m = n => ~Claimed(m)'
                     /\ m # n => (Claimed(m)' <=> Claimed(m))
  BY FailClaims DEF EngineInv
<1>2. attempt[n] \in Int /\ conf.maxAttempts \in Nat /\ DOMAIN db = Msg
  BY EngineAssumption DEF EngineInv, Types
<1>3. /\ \A m \in Msg \ {n} : db'[m] = db[m]
      /\ db'[n] \in {"handling", "dead"} \/ (db'[n] = "pending" /\ attempt[n] < conf.maxAttempts)
      /\ UNCHANGED attempt
  <2>1. PICK bad \in SUBSET {n}, status \in {"pending", "dead"} :
          /\ attempt[n] >= conf.maxAttempts => status = "dead"
          /\ db' = IF bad = {} THEN [db EXCEPT ![n] = status] ELSE db
          /\ UNCHANGED attempt
    BY Zenon DEF Fail
  <2>2. CASE bad = {}
    BY <1>2, <2>1, <2>2
  <2>3. CASE bad # {}
    BY <2>1, <2>3 DEF Claimed
  <2> QED BY <2>2, <2>3
<1>4. /\ {n} \in SUBSET Msg /\ (\A m \in {n} : Claimed(m) /\ ~Claimed(m)')
      /\ \A m \in Msg \ {n} : Claimed(m)' <=> Claimed(m)
  BY <1>1
<1>5. \A m \in {n} : \/ db'[m] \in {"handling", "success", "dead"}
                     \/ db'[m] = "pending" /\ attempt[m] < conf.maxAttempts
  BY <1>3
<1> QED BY Zenon, <1>3, <1>4, <1>5, Reporting

\* The loop gives a chunk back, at the shutdown.
LEMMA LoopReports ==
    ASSUME EngineInv, EngineInv', Waiting, ReleaseBeforeDispatch \/ ReleaseFromTyped,
           UNCHANGED conf
    PROVE  WC!Next
<1>1. PICK S \in SUBSET Msg : ReleaseShutdown(S) /\ S \subseteq todo \cup cur
  BY ChunkFacts DEF ReleaseBeforeDispatch, ReleaseFromTyped, EngineInv, Types
<1>2. \A m \in S : Claimed(m)
  BY Zenon, <1>1 DEF EngineInv, Conserved, Placed
<1>3. Phase = "leaving" /\ UNCHANGED Phase
  BY DEF ReleaseBeforeDispatch, ReleaseFromTyped, Phase, Waiting, stopVars
<1> QED BY <1>1, <1>2, <1>3, ReleaseReports

\* commitOutcome sends the message to the flusher, or writes its outcome.
LEMMA CommitReports ==
    ASSUME EngineInv, EngineInv', Waiting, NEW g \in gor, NEW m \in Msg, Commit(g, m),
           UNCHANGED conf
    PROVE  [WC!Next]_(WC!vars)
<1>1. UNCHANGED Phase /\ Phase # "over"
  BY OverIsOver DEF Commit, stopVars, Phase
<1>2. {m} \in SUBSET Msg /\ Claimed(m)
  BY DEF Commit, EngineInv, Conserved, Placed, InHandler
<1>3. CASE UNCHANGED rowVars
  BY <1>1, <1>3, NothingToReport DEF rowVars
<1>4. CASE Succeed({m})
  BY <1>1, <1>2, <1>4, SucceedReports
<1>5. CASE g.outcome = "canceled" /\ ReleaseShutdown({m})
  <2>1. Phase = "leaving"
    BY <1>1, <1>5 DEF EngineInv, Fibers, Waiting, Phase
  <2> QED BY <1>1, <1>2, <1>5, <2>1, ReleaseReports
<1>6. CASE Fail(m)
  BY <1>1, <1>2, <1>6, FailReports
<1> QED BY Zenon, <1>3, <1>4, <1>5, <1>6 DEF Commit

\* The flusher's write.
LEMMA FlushReports ==
    ASSUME EngineInv, EngineInv', Flush, UNCHANGED conf PROVE [WC!Next]_(WC!vars)
<1>1. Succeed(buf) /\ UNCHANGED Phase /\ buf \in SUBSET Msg
  BY DEF Flush, stopVars, Phase, EngineInv, Types
<1>2. CASE Phase # "over"
  <2>1. \A m \in buf : Claimed(m)
    BY Zenon, <1>1 DEF EngineInv, Conserved, Placed
  <2> QED BY <1>1, <1>2, <2>1, SucceedReports
<1>3. CASE Phase = "over"
  <2>1. UNCHANGED <<db, attempt, lost>>
    <3>1. buf = {}
      BY <1>3, OverIsOver
    <3>2. lost' = lost /\ UNCHANGED attempt /\ db' = [m \in Msg |-> db[m]]
      BY <1>1, <3>1 DEF Succeed
    <3> QED BY <3>2 DEF EngineInv, Types
  <2> QED BY <1>1, <2>1, NothingToReport
<1> QED BY <1>2, <1>3

\* Every step of the process is one the contract allows, or is none of its business.
LEMMA ContractStep ==
    ASSUME EngineInv, EngineInv', Waiting, [Next]_vars PROVE [WC!Next]_(WC!vars)
<1>1. ASSUME UNCHANGED <<conf, ctxDone, result, db, attempt, lost>> PROVE UNCHANGED WC!vars
  BY <1>1, NothingToReport DEF Phase
<1>2. CASE Loop
  <2>1. CASE Poll
    BY <1>2, <2>1, PollTakes DEF Loop
  <2>2. CASE ReleaseBeforeDispatch \/ ReleaseFromTyped
    BY <1>2, <2>2, LoopReports DEF Loop
  <2>3. CASE DrainEnds
    <3>1. /\ UNCHANGED <<conf, ctxDone, db, attempt, lost>> /\ stopping /\ ctxDone
          /\ result # "ok" /\ result' \in {"ok", "graceExceeded"}
          /\ result' = "ok" => closer = "done"
      BY <1>2, <2>3 DEF Loop, DrainEnds, rowVars, EngineInv, Draining, Waiting
    <3>2. CASE result' = "ok"
      <4>1. Custody' = Custody /\ Custody = {}
        <5>1. Custody' = Custody
          BY <3>1, CustodyMoves DEF Claimed
        <5>2. todo = {} /\ cur = {} /\ acks = {} /\ buf = {} /\ gor = {}
          BY <3>1, <3>2 DEF EngineInv, Draining
        <5> QED BY <5>1, <5>2 DEF Custody
      <4>2. Phase = "leaving" /\ Phase' = "over"
        BY <3>1, <3>2 DEF Phase
      <4>3. WC!Finish
        BY <3>1, <4>1, <4>2 DEF WC!Finish
      <4> QED BY <4>3 DEF WC!Next
    <3>3. CASE result' = "graceExceeded"
      BY <3>1, <3>3, NothingToReport DEF Phase
    <3> QED BY <3>1, <3>2, <3>3
  <2>4. CASE LoopTop \/ AcquireGlobal \/ AcquireTyped \/ Dispatched \/ WaitEnds
    <3>1. UNCHANGED <<conf, ctxDone, result, db, attempt, lost>>
      BY Zenon, <1>2, <2>4 DEF Loop, LoopTop, AcquireGlobal, AcquireTyped, Dispatched, WaitEnds,
                        stopVars, rowVars
    <3> QED BY <1>1, <3>1
  <2> QED BY <1>2, <2>1, <2>2, <2>3, <2>4 DEF Loop
<1>3. ASSUME NEW g \in gor, HandlerStep(g) PROVE [WC!Next]_(WC!vars)
  <2>1. CASE \E m \in Msg : Commit(g, m)
    BY <1>3, <2>1, CommitReports DEF HandlerStep
  <2>2. CASE HandlerReturns(g) \/ Resolve(g) \/ FreeType(g) \/ FreePool(g) \/ Exit(g)
    <3>1. UNCHANGED <<conf, ctxDone, result, db, attempt, lost>>
      BY Zenon, <1>3, <2>2 DEF HandlerStep, HandlerReturns, Resolve, FreeType, FreePool, Exit,
                        stopVars, rowVars
    <3> QED BY <1>1, <3>1
  <2> QED BY <1>3, <2>1, <2>2 DEF HandlerStep
<1>4. CASE Flusher
  <2>1. CASE Flush
    BY <1>4, <2>1, FlushReports DEF Flusher
  <2>2. CASE FlusherReceives \/ FlusherTicks \/ FlusherSeesClose
    <3>1. UNCHANGED <<conf, ctxDone, result, db, attempt, lost>>
      BY <1>4, <2>2 DEF Flusher, FlusherReceives, FlusherTicks, FlusherSeesClose, stopVars,
                        rowVars
    <3> QED BY <1>1, <3>1
  <2> QED BY <1>4, <2>1, <2>2 DEF Flusher
<1>5. CASE Closer \/ UNCHANGED vars
  <2>1. UNCHANGED <<conf, ctxDone, result, db, attempt, lost>>
    BY <1>5 DEF Closer, CloserWaits, CloserCloses, CloserDone, vars, stopVars, rowVars
  <2> QED BY <1>1, <2>1
<1>6. CASE Shutdown
  <2>1. /\ UNCHANGED <<conf, result, db, attempt, lost>>
        /\ ~ctxDone /\ ctxDone' /\ result # "ok"
    BY <1>6 DEF Shutdown, Cancel, rowVars, EngineInv, Draining, Waiting
  <2>2. Custody' = Custody
    BY <2>1, CustodyMoves DEF Claimed
  <2>3. WC!Leave
    BY <2>1, <2>2 DEF WC!Leave, Phase
  <2> QED BY <2>3 DEF WC!Next
<1> QED BY <1>2, <1>3, <1>4, <1>5, <1>6 DEF Next, Handlers

\* The whole process, with its loop, pools, goroutines, flusher and shutdown, keeps the
\* contract of a worker: one outcome for each message it takes, in every configuration.
THEOREM EngineKeepsContract == Spec => ImplementsContract
<1>1. Init => WC!Init
  <2> SUFFICES ASSUME Init PROVE WC!Init
    OBVIOUS
  <2>1. conf.maxAttempts \in Nat \ {0}
    BY EngineAssumption DEF Init
  <2>2. \A m \in Msg : Standing(db[m]) \in {"ready", "done"}
    BY Standings DEF Init
  <2>3. Custody = {} /\ Phase = "serving" /\ attempt = [m \in Msg |-> 0]
    BY DEF Init, Custody, Phase
  <2> QED BY <2>1, <2>2, <2>3 DEF WC!Init
<1>2. Init => Waiting
  BY DEF Init, Waiting
<1>3. Waiting /\ [Next]_vars => Waiting'
  BY WaitingStep
<1>4. EngineInv /\ EngineInv' /\ Waiting /\ [Next]_vars => [WC!Next]_(WC!vars)
  BY ContractStep
<1> QED BY <1>1, <1>2, <1>3, <1>4, EngineInvariant, PTL DEF Spec, ImplementsContract, WC!Spec

-----------------------------------------------------------------------------
(* Types and bounds. *)

\* A row that waits has an attempt left, a row that is claimed has used one.
Budgeted ==
    \A m \in Msg : /\ attempt[m] \in 0..conf.maxAttempts
                   /\ db[m] = "pending" => attempt[m] < conf.maxAttempts
                   /\ db[m] = "handling" => attempt[m] > 0
FiberAttempts == \A g \in gor : \A m \in Msgs(g) : g.at[m] \in 1..conf.maxAttempts
Flags ==
    /\ pc \in {"top", "poll", "dispatch", "perType", "wait", "drain", "returned"}
    /\ closed \in BOOLEAN /\ ctxDone \in BOOLEAN /\ stopping \in BOOLEAN
    /\ closer \in {"none", "wait", "close", "await", "done"}
    /\ result \in {"none", "ok", "graceExceeded"}
    /\ lost \subseteq Msg /\ errors \in 0..MaxErrors
Bounded == Budgeted /\ FiberAttempts /\ Flags /\ pool <= conf.poolSize

\* The failing storage calls are counted.
LEMMA ErrorsCounted ==
    ASSUME errors \in 0..MaxErrors, NEW S, WriteFails(S) PROVE errors' \in 0..MaxErrors
BY EngineAssumption DEF WriteFails

\* What the storage calls do to the attempts and to the flags.
LEMMA SucceedBounds ==
    ASSUME Types, Budgeted, Flags, NEW S \in SUBSET Msg, Succeed(S), UNCHANGED conf
    PROVE  Budgeted' /\ lost' \subseteq Msg /\ errors' \in 0..MaxErrors
<1>1. PICK bad \in {{}, S} :
        /\ WriteFails(bad) /\ lost' = lost \cup bad /\ UNCHANGED attempt
        /\ db' = [m \in Msg |-> IF m \in S \ bad THEN "success" ELSE db[m]]
  BY DEF Succeed
<1>2. Budgeted'
  BY <1>1 DEF Budgeted
<1> QED BY <1>1, <1>2, ErrorsCounted DEF Flags

LEMMA ReleaseBounds ==
    ASSUME Types, Budgeted, Flags, NEW S \in SUBSET Msg, \A m \in S : Claimed(m),
           ReleaseShutdown(S), UNCHANGED conf
    PROVE  Budgeted' /\ lost' \subseteq Msg /\ errors' \in 0..MaxErrors
<1>1. PICK bad \in SUBSET S :
        /\ WriteFails(bad) /\ lost' = lost \cup bad
        /\ db' = [m \in Msg |-> IF m \in S \ bad THEN "pending" ELSE db[m]]
        /\ attempt' = [m \in Msg |-> IF m \in S \ bad THEN attempt[m] - 1 ELSE attempt[m]]
  BY DEF ReleaseShutdown
<1>2. conf.maxAttempts \in Nat
  BY EngineAssumption DEF Types
<1>3. ASSUME NEW m \in Msg
      PROVE  /\ attempt'[m] \in 0..conf.maxAttempts
             /\ db'[m] = "pending" => attempt'[m] < conf.maxAttempts
             /\ db'[m] = "handling" => attempt'[m] > 0
  <2>1. CASE m \in S \ bad
    <3>1. attempt[m] \in 1..conf.maxAttempts
      BY <1>2, <2>1 DEF Budgeted, Claimed
    <3>2. db'[m] = "pending" /\ attempt'[m] = attempt[m] - 1
      BY <1>1, <2>1
    <3> QED BY <1>2, <3>1, <3>2
  <2>2. CASE m \notin S \ bad
    <3>1. db'[m] = db[m] /\ attempt'[m] = attempt[m]
      BY <1>1, <2>2
    <3> QED BY <3>1 DEF Budgeted
  <2> QED BY <2>1, <2>2
<1> QED BY <1>1, <1>3, ErrorsCounted DEF Budgeted, Flags

LEMMA FailBounds ==
    ASSUME Types, Budgeted, Flags, NEW n \in Msg, Fail(n), UNCHANGED conf
    PROVE  Budgeted' /\ lost' \subseteq Msg /\ errors' \in 0..MaxErrors
<1>1. PICK bad \in SUBSET {n}, status \in {"pending", "dead"} :
        /\ attempt[n] >= conf.maxAttempts => status = "dead"
        /\ WriteFails(bad) /\ lost' = lost \cup bad /\ UNCHANGED attempt
        /\ db' = IF bad = {} THEN [db EXCEPT ![n] = status] ELSE db
  BY Zenon DEF Fail
<1>2. conf.maxAttempts \in Nat
  BY EngineAssumption DEF Types
<1>3. ASSUME NEW m \in Msg
      PROVE  /\ db'[m] = "pending" => attempt[m] < conf.maxAttempts
             /\ db'[m] = "handling" => attempt[m] > 0
  BY SMTT(30), <1>1, <1>2 DEF Budgeted, Types
<1> QED BY <1>1, <1>3, ErrorsCounted DEF Budgeted, Flags

\* A goroutine starts with the attempts its messages were claimed at.
LEMMA SpawnBounds ==
    ASSUME Types, Conserved, Budgeted, FiberAttempts, NEW chunk \in SUBSET (todo \cup cur),
           Spawn(chunk), UNCHANGED conf
    PROVE  FiberAttempts'
<1> DEFINE new == [at |-> [m \in chunk |-> attempt[m]], left |-> chunk, stage |-> "running",
                   err |-> "none", outcome |-> "none"]
<1>1. gor' = gor \cup {new} /\ new.at = [m \in chunk |-> attempt[m]]
  BY DEF Spawn
<1> HIDE DEF new
<1>2. \A m \in chunk : attempt[m] \in 1..conf.maxAttempts
  <2>1. \A m \in chunk : m \in Msg /\ db[m] = "handling"
    BY DEF Types, Conserved, Placed, Claimed
  <2>2. conf.maxAttempts \in Nat
    BY EngineAssumption DEF Types
  <2> QED BY <2>1, <2>2 DEF Budgeted
<1> QED BY <1>1, <1>2 DEF FiberAttempts, Msgs

\* A goroutine keeps them.
LEMMA BecomeBounds ==
    ASSUME FiberAttempts, NEW g \in gor, NEW new, new.at = g.at, Become(g, new), UNCHANGED conf
    PROVE  FiberAttempts'
BY DEF FiberAttempts, Become, Msgs

\* A step that leaves the rows and the goroutines alone.
LEMMA StillBounded ==
    ASSUME Bounded, UNCHANGED <<conf, db, attempt, gor>>, Flags', pool' <= conf.poolSize
    PROVE  Bounded'
<1>1. Budgeted' /\ FiberAttempts'
  BY DEF Bounded, Budgeted, FiberAttempts, Msgs
<1> QED BY <1>1 DEF Bounded

LEMMA LoopBounded == ASSUME EngineInv, Bounded, Loop PROVE Bounded'
<1>1. /\ Types /\ Conserved /\ UNCHANGED conf /\ pool \in Int
      /\ Budgeted /\ FiberAttempts /\ Flags /\ pool <= conf.poolSize
      /\ conf.poolSize \in Nat /\ conf.maxAttempts \in Nat
  BY EngineAssumption DEF EngineInv, Types, Bounded, Loop
<1>2. CASE LoopTop \/ Dispatched \/ WaitEnds \/ DrainEnds
  <2>1. UNCHANGED <<db, attempt, gor, pool>> /\ Flags'
    BY Zenon, <1>1, <1>2
    DEF LoopTop, Dispatched, WaitEnds, DrainEnds, Flags, semVars, ackVars, stopVars,
        rowVars
  <2> QED BY <1>1, <2>1, StillBounded
<1>3. CASE Poll
  <2>1. PICK S \in SUBSET Claimable :
          /\ Claim(S)
          /\ \/ pc' = "dispatch" /\ UNCHANGED <<lost, errors>>
             \/ pc' = "wait" /\ WriteFails(S) /\ lost' = lost \cup S
    BY <1>3 DEF Poll
  <2>2. UNCHANGED <<gor, pool, closed, stopVars>>
    BY <1>3 DEF Poll, semVars, ackVars
  <2>3. Flags'
    <3>1. S \subseteq Msg
      BY DEF Claimable
    <3> QED BY <1>1, <2>1, <2>2, <3>1, ErrorsCounted DEF Flags, stopVars
  <2>4. ASSUME NEW m \in Msg
        PROVE  /\ attempt'[m] \in 0..conf.maxAttempts
               /\ db'[m] = "pending" => attempt'[m] < conf.maxAttempts
               /\ db'[m] = "handling" => attempt'[m] > 0
    <3>1. CASE m \in S
      <4>1. attempt[m] \in Nat /\ attempt[m] < conf.maxAttempts
        BY <1>1, <3>1 DEF Claimable, Budgeted
      <4>2. db'[m] = "handling" /\ attempt'[m] = attempt[m] + 1
        BY <2>1, <3>1 DEF Claim
      <4> QED BY <1>1, <4>1, <4>2
    <3>2. CASE m \notin S
      <4>1. db'[m] = db[m] /\ attempt'[m] = attempt[m]
        BY <2>1, <3>2 DEF Claim
      <4> QED BY <1>1, <4>1 DEF Budgeted
    <3> QED BY <3>1, <3>2
  <2>5. Budgeted' /\ FiberAttempts'
    BY <1>1, <2>2, <2>4 DEF Budgeted, FiberAttempts, Msgs
  <2> QED BY <1>1, <2>2, <2>3, <2>5 DEF Bounded
<1>4. CASE AcquireGlobal
  <2>1. PICK chunk \in Chunks : /\ pool < conf.poolSize /\ pool' = pool + 1
                                /\ \/ pc' = "perType" /\ UNCHANGED gor
                                   \/ UNCHANGED pc /\ Spawn(chunk)
    BY <1>4 DEF AcquireGlobal
  <2>2. UNCHANGED <<closed, stopVars, rowVars>>
    BY <1>4 DEF AcquireGlobal, ackVars
  <2>3. Flags' /\ Budgeted'
    BY <1>1, <2>1, <2>2 DEF Flags, Budgeted, stopVars, rowVars
  <2>4. FiberAttempts'
    <3>1. chunk \in SUBSET (todo \cup cur)
      BY <1>1, ChunkFacts
    <3>2. UNCHANGED gor => FiberAttempts'
      BY <1>1 DEF FiberAttempts, Msgs
    <3> QED BY <1>1, <2>1, <3>1, <3>2, SpawnBounds
  <2>5. pool' <= conf.poolSize
    BY <1>1, <2>1
  <2> QED BY <1>1, <2>3, <2>4, <2>5 DEF Bounded
<1>5. CASE AcquireTyped
  <2>1. Spawn(cur) /\ pc' = "dispatch" /\ UNCHANGED <<pool, closed, stopVars, rowVars>>
    BY <1>5 DEF AcquireTyped, ackVars
  <2>2. Flags' /\ Budgeted'
    BY <1>1, <2>1 DEF Flags, Budgeted, stopVars, rowVars
  <2>3. FiberAttempts'
    BY <1>1, <2>1, SpawnBounds
  <2> QED BY <1>1, <2>1, <2>2, <2>3 DEF Bounded
<1>6. CASE ReleaseBeforeDispatch \/ ReleaseFromTyped
  <2>1. PICK S \in SUBSET Msg : ReleaseShutdown(S) /\ S \subseteq todo \cup cur
    BY <1>1, <1>6, ChunkFacts DEF ReleaseBeforeDispatch, ReleaseFromTyped, Types
  <2>2. \A m \in S : Claimed(m)
    BY <1>1, <2>1 DEF Conserved, Placed
  <2>3. /\ UNCHANGED <<gor, closed, stopVars>> /\ pool' \in {pool, pool - 1}
        /\ pc' \in {pc, "dispatch"}
    BY <1>6 DEF ReleaseBeforeDispatch, ReleaseFromTyped, semVars, ackVars
  <2>4. Budgeted' /\ lost' \subseteq Msg /\ errors' \in 0..MaxErrors
    BY <1>1, <2>1, <2>2, ReleaseBounds
  <2>5. Flags' /\ FiberAttempts'
    BY <1>1, <2>3, <2>4 DEF Flags, FiberAttempts, Msgs, stopVars
  <2>6. pool' <= conf.poolSize
    BY <1>1, <2>3
  <2> QED BY <1>1, <2>4, <2>5, <2>6 DEF Bounded
<1> QED BY <1>2, <1>3, <1>4, <1>5, <1>6 DEF Loop

LEMMA HandlerBounded ==
    ASSUME EngineInv, Bounded, NEW g \in gor, HandlerStep(g) PROVE Bounded'
<1>1. /\ Types /\ Conserved /\ UNCHANGED conf /\ pool \in Int /\ conf.poolSize \in Nat
      /\ Budgeted /\ FiberAttempts /\ Flags /\ pool <= conf.poolSize /\ g \in Fiber
  BY EngineAssumption DEF EngineInv, Types, Bounded, HandlerStep
<1>2. UNCHANGED <<pc, closed, stopVars>> /\ pool' \in {pool, pool - 1}
  BY Zenon, <1>1
  DEF HandlerStep, HandlerReturns, Resolve, Commit, FreeType, FreePool, Exit, loopVars,
      semVars, ackVars
<1>3. pool' <= conf.poolSize
  BY <1>1, <1>2
<1>4. FiberAttempts'
  <2>1. CASE Exit(g)
    BY <1>1, <2>1 DEF Exit, FiberAttempts, Msgs
  <2>2. CASE ~Exit(g)
    <3>1. \E new : new.at = g.at /\ Become(g, new)
      BY Zenon, <1>1, <2>2
      DEF HandlerStep, HandlerReturns, Resolve, Commit, FreeType, FreePool, Fiber
    <3> QED BY <1>1, <3>1, BecomeBounds
  <2> QED BY <2>1, <2>2
<1>5. Budgeted' /\ lost' \subseteq Msg /\ errors' \in 0..MaxErrors
  <2>1. CASE UNCHANGED rowVars
    BY <1>1, <2>1 DEF Budgeted, Flags, rowVars
  <2>2. ASSUME NEW m \in Msg, Commit(g, m), ~UNCHANGED rowVars
        PROVE  Budgeted' /\ lost' \subseteq Msg /\ errors' \in 0..MaxErrors
    <3>1. {m} \in SUBSET Msg /\ \A n \in {m} : Claimed(n)
      BY <1>1, <2>2 DEF Commit, Conserved, Placed, InHandler
    <3>2. Succeed({m}) \/ ReleaseShutdown({m}) \/ Fail(m)
      BY Zenon, <2>2 DEF Commit
    <3> QED BY <1>1, <3>1, <3>2, SucceedBounds, ReleaseBounds, FailBounds
  <2> QED
    BY Zenon, <2>1, <2>2 DEF HandlerStep, HandlerReturns, Resolve, FreeType, FreePool, Exit
<1>6. Flags'
  BY <1>1, <1>2, <1>5 DEF Flags, stopVars
<1> QED BY <1>1, <1>3, <1>4, <1>5, <1>6 DEF Bounded

LEMMA OthersBounded ==
    ASSUME EngineInv, Bounded, Flusher \/ Closer \/ Shutdown \/ UNCHANGED vars PROVE Bounded'
<1>1. /\ Types /\ UNCHANGED <<conf, pc, pool, gor>>
      /\ Budgeted /\ FiberAttempts /\ Flags /\ pool <= conf.poolSize
  BY DEF EngineInv, Bounded, Flusher, FlusherReceives, FlusherTicks, FlusherSeesClose, Flush, Closer,
         CloserWaits, CloserCloses, CloserDone, Shutdown, Cancel, vars, loopVars, semVars
<1>2. CASE Flusher /\ Flush
  <2>1. Succeed(buf) /\ buf \in SUBSET Msg /\ UNCHANGED <<closed, stopVars>>
    BY <1>1, <1>2 DEF Flush, Types
  <2>2. Budgeted' /\ lost' \subseteq Msg /\ errors' \in 0..MaxErrors
    BY <1>1, <2>1, SucceedBounds
  <2>3. Flags' /\ FiberAttempts'
    BY <1>1, <2>1, <2>2 DEF Flags, FiberAttempts, Msgs, stopVars
  <2> QED BY <1>1, <2>2, <2>3 DEF Bounded
<1>3. CASE Flusher /\ ~Flush
  <2>1. UNCHANGED <<rowVars, closed, stopVars>>
    BY <1>3 DEF Flusher, FlusherReceives, FlusherTicks, FlusherSeesClose
  <2>2. Flags' /\ UNCHANGED <<db, attempt>>
    BY <1>1, <2>1 DEF Flags, stopVars, rowVars
  <2> QED BY <1>1, <2>2, StillBounded
<1>4. CASE Closer \/ Shutdown \/ UNCHANGED vars
  <2>1. UNCHANGED <<rowVars, stopping, result>>
    BY <1>4 DEF Closer, CloserWaits, CloserCloses, CloserDone, Shutdown, Cancel, vars, stopVars
  <2>2. /\ closed' \in BOOLEAN /\ ctxDone' \in BOOLEAN
        /\ closer' \in {"none", "wait", "close", "await", "done"}
    BY Zenon, <1>1, <1>4 DEF Closer, CloserWaits, CloserCloses, CloserDone, Shutdown, Cancel, vars,
                      stopVars, ackVars, Flags
  <2>3. Flags' /\ UNCHANGED <<db, attempt>>
    BY <1>1, <2>1, <2>2 DEF Flags, rowVars
  <2> QED BY <1>1, <2>3, StillBounded
<1> QED BY <1>2, <1>3, <1>4

\* The types and the bounds of the state: the tokens out of globalPool never exceed PoolSize,
\* no attempt goes past a message's budget, and no counter falls below zero.
THEOREM TypeCorrect == Spec => []TypeOK
<1>1. Init => Bounded /\ Waiting
  <2> SUFFICES ASSUME Init PROVE Bounded /\ Waiting
    OBVIOUS
  <2>1. conf.maxAttempts \in Nat \ {0} /\ conf.poolSize \in Nat /\ MaxErrors \in Nat
    BY EngineAssumption DEF Init
  <2>2. Budgeted /\ FiberAttempts
    BY SMTT(30), <2>1 DEF Init, Budgeted, FiberAttempts
  <2>3. pool <= conf.poolSize /\ errors \in 0..MaxErrors
    BY <2>1 DEF Init
  <2>4. Flags
    BY Zenon, <2>3 DEF Init, Flags
  <2> QED BY <2>2, <2>3, <2>4 DEF Init, Bounded, Waiting
<1>2. EngineInv /\ Bounded /\ [Next]_vars => Bounded'
  BY LoopBounded, HandlerBounded, OthersBounded DEF Next, Handlers
<1>3. Waiting /\ [Next]_vars => Waiting'
  BY WaitingStep
<1>4. EngineInv /\ Bounded /\ Waiting => TypeOK
  <2> SUFFICES ASSUME EngineInv, Bounded, Waiting PROVE TypeOK
    OBVIOUS
  <2>1. Types /\ Counted /\ IsFiniteSet(gor) /\ Budgeted /\ FiberAttempts /\ Flags
    BY DEF EngineInv, Counted, Bounded
  <2>2. inflight \in Nat /\ typed \in [Type -> Nat] /\ pool \in 0..conf.poolSize
    <3>1. Cardinality(gor) \in Nat
      BY <2>1, FS_CardinalityType
    <3>2. typed \in [Type -> Nat]
      BY <2>1, FiniteCounts DEF Types, Counted
    <3>3. pool \in Nat /\ pool <= conf.poolSize /\ conf.poolSize \in Nat
      BY <2>1, FiniteCounts, EngineAssumption DEF Types, Counted, Bounded
    <3> QED BY <2>1, <3>1, <3>2, <3>3 DEF Counted
  <2>3. gor \subseteq Goroutine
    <3> SUFFICES ASSUME NEW g \in gor PROVE g \in Goroutine
      OBVIOUS
    <3>1. g \in Fiber
      BY <2>1 DEF Types
    <3>2. PICK S \in SUBSET Msg : g.at \in [S -> Int]
      BY <3>1 DEF Fiber
    <3>3. g.at \in [S -> 1..conf.maxAttempts]
      BY <2>1, <3>2 DEF FiberAttempts, Msgs
    <3>4. g.at \in UNION {[X -> 1..conf.maxAttempts] : X \in SUBSET Msg}
      BY <3>3
    <3> QED BY <3>1, <3>4 DEF Fiber, Goroutine
  <2>4. attempt \in [Msg -> 0..conf.maxAttempts]
    BY <2>1 DEF Types, Budgeted
  <2> QED BY <2>1, <2>2, <2>3, <2>4 DEF TypeOK, Types, Flags, Waiting
<1> QED BY <1>1, <1>2, <1>3, <1>4, EngineInvariant, PTL DEF Spec
=============================================================================
