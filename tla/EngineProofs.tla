---------------------------- MODULE EngineProofs ----------------------------
(***************************************************************************)
(* Proofs about module Engine, for any messages, batch size, pool sizes,   *)
(* limits, channel capacities and numbers of failing storage calls.        *)
(*                                                                         *)
(* The inductive invariant has five parts: the state variables' types; the *)
(* places of every message, which are one for a message that is claimed    *)
(* and none for any other; the handler goroutines, which differ in their   *)
(* messages or attempts, so that the set gor loses none when one changes;  *)
(* the order of the shutdown; and the counters.                            *)
(***************************************************************************)
EXTENDS Engine, FiniteSetTheorems, TLAPS

Fiber == [at : UNION {[S -> Int] : S \in SUBSET Msg}, left : SUBSET Msg, stage : Stage,
          err : {"none", "nil", "canceled", "other"},
          outcome : {"none", "success", "canceled", "retry"}]

Types ==
    /\ conf \in Conf
    /\ db \in [Msg -> {"pending", "handling", "success", "dead"}]
    /\ attempt \in [Msg -> Int]
    /\ todo \subseteq Msg /\ cur \subseteq Msg /\ acks \subseteq Msg /\ buf \subseteq Msg
    /\ gor \subseteq Fiber
    /\ typed \in [Type -> Int] /\ pool \in Int /\ inflight \in Int

-----------------------------------------------------------------------------
\* The row of m is under a claim of this process that no failed write has orphaned.
Claimed(m) == db[m] = "handling" /\ m \notin lost

InHandler(m) == \E g \in gor : m \in g.left
OneHandler(m) == \A g, h \in gor : m \in g.left /\ m \in h.left => g = h

\* A claimed message is in one place of the process, any other in none.
Placed(m) ==
    /\ OneHandler(m)
    /\ Claimed(m) <=> m \in todo \/ m \in cur \/ m \in acks \/ m \in buf \/ InHandler(m)
    /\ m \in todo => m \notin cur /\ m \notin acks /\ m \notin buf /\ ~InHandler(m)
    /\ m \in cur => m \notin acks /\ m \notin buf /\ ~InHandler(m)
    /\ m \in acks => m \notin buf /\ ~InHandler(m)
    /\ m \in buf => ~InHandler(m)
    /\ m \in lost => db[m] = "handling"

Conserved == \A m \in Msg : Placed(m)

\* A goroutine is known by its messages and the attempts they were claimed at: until the
\* drain, an attempt that is dispatched is later than those of all goroutines.
Fibers ==
    /\ \A g \in gor :
         /\ Msgs(g) # {} /\ g.left \subseteq Msgs(g)
         /\ g.stage \in {"freePool", "exit"} => g.left = {}
         /\ g.outcome = "canceled" => stopping
    /\ \A g, h \in gor : \A m \in Msgs(g) \cap Msgs(h) : g.at[m] = h.at[m] => g = h
    /\ ~stopping => \A g \in gor : \A m \in Msgs(g) : g.at[m] <= attempt[m]
    /\ \A m \in todo \cup cur : \A g \in gor : m \in Msgs(g) => g.at[m] < attempt[m]

\* How far the shutdown is.
Draining ==
    /\ todo # {} => pc \in {"dispatch", "perType"}
    /\ cur # {} <=> pc = "perType"
    /\ stopping <=> pc \in {"drain", "returned"}
    /\ closer # "none" => stopping
    /\ closer \notin {"none", "wait"} => gor = {}
    /\ closed => closer \in {"await", "done"}
    /\ flusher \in {"lastFlush", "exited"} => closed /\ acks = {}
    /\ flusher = "exited" => buf = {}
    /\ conf.ackCap = 0 => acks = {} /\ buf = {}
    /\ closer = "done" => conf.ackCap = 0 \/ flusher = "exited"
    /\ result = "ok" => closer = "done"

HoldPool == {g \in gor : Holding(g)}
HoldTyped(t) ==
    {g \in gor : TypeOf(Msgs(g)) = t /\ g.stage \in {"running", "returned", "commit"}}

Counted ==
    /\ IsFiniteSet(gor) /\ inflight = Cardinality(gor)
    /\ pool = Cardinality(HoldPool) + (IF pc = "perType" THEN 1 ELSE 0)
    /\ \A t \in Type : typed[t] = IF conf.maxInflight = 0 THEN 0 ELSE Cardinality(HoldTyped(t))

EngineInv == Types /\ Conserved /\ Fibers /\ Draining /\ Counted
-----------------------------------------------------------------------------
\* What the storage calls do to the claims (Succeed, ReleaseShutdown, Fail).
LEMMA SucceedClaims ==
    ASSUME Types, NEW S \in SUBSET Msg, \A m \in S : Claimed(m), Succeed(S), NEW m \in Msg
    PROVE  /\ m \in S => ~Claimed(m)'
           /\ m \notin S => (Claimed(m)' <=> Claimed(m)) /\ (m \in lost' <=> m \in lost)
           /\ (m \in lost => db[m] = "handling") => (m \in lost' => db'[m] = "handling")
BY DEF Types, Claimed, Succeed

LEMMA ReleaseClaims ==
    ASSUME Types, NEW S \in SUBSET Msg, \A m \in S : Claimed(m), ReleaseShutdown(S), NEW m \in Msg
    PROVE  /\ m \in S => ~Claimed(m)'
           /\ m \notin S => (Claimed(m)' <=> Claimed(m)) /\ (m \in lost' <=> m \in lost)
           /\ (m \in lost => db[m] = "handling") => (m \in lost' => db'[m] = "handling")
BY DEF Types, Claimed, ReleaseShutdown

LEMMA FailClaims ==
    ASSUME Types, NEW n \in Msg, Claimed(n), Fail(n), NEW m \in Msg
    PROVE  /\ m = n => ~Claimed(m)'
           /\ m # n => (Claimed(m)' <=> Claimed(m)) /\ (m \in lost' <=> m \in lost)
           /\ (m \in lost => db[m] = "handling") => (m \in lost' => db'[m] = "handling")
BY DEF Types, Claimed, Fail

\* A step of a goroutine that keeps m, one that gives it up, and a goroutine that starts.
LEMMA HandlerKeeps ==
    ASSUME NEW g \in gor, NEW new, Become(g, new), NEW m, m \in new.left <=> m \in g.left,
           OneHandler(m)
    PROVE  OneHandler(m)' /\ (InHandler(m)' <=> InHandler(m))
BY DEF Become, OneHandler, InHandler

LEMMA HandlerGivesUp ==
    ASSUME NEW g \in gor, NEW new, Become(g, new), NEW m, m \in g.left, m \notin new.left,
           OneHandler(m)
    PROVE  OneHandler(m)' /\ InHandler(m) /\ ~InHandler(m)'
BY DEF Become, OneHandler, InHandler

LEMMA HandlerStarts ==
    ASSUME NEW chunk, Spawn(chunk), NEW m, OneHandler(m), m \in chunk => ~InHandler(m)
    PROVE  OneHandler(m)' /\ (InHandler(m)' <=> InHandler(m) \/ m \in chunk)
<1> DEFINE new == [at |-> [n \in chunk |-> attempt[n]], left |-> chunk, stage |-> "running",
                   err |-> "none", outcome |-> "none"]
<1>1. gor' = gor \cup {new} /\ new.left = chunk
  BY DEF Spawn
<1> HIDE DEF new
<1> QED BY <1>1 DEF OneHandler, InHandler

\* What pollOnce dispatches is some of what it has claimed.
LEMMA ChunkFacts ==
    ASSUME Types, NEW chunk \in Chunks
    PROVE  chunk # {} /\ chunk \subseteq todo /\ chunk \subseteq Msg
BY DEF Chunks, Types
-----------------------------------------------------------------------------
(* The places of a message. *)

\* A step that moves no message and writes no row.
LEMMA StillConserved ==
    ASSUME Conserved, UNCHANGED <<todo, cur, acks, buf, db, lost>>,
           \/ UNCHANGED gor
           \/ \E g \in gor : \E new : Become(g, new) /\ new.left = g.left
           \/ \E g \in gor : gor' = gor \ {g} /\ g.left = {}
    PROVE  Conserved'
<1> SUFFICES ASSUME NEW m \in Msg PROVE Placed(m)'
  BY DEF Conserved
<1>1. Placed(m) /\ OneHandler(m)
  BY DEF Conserved, Placed
<1>2. OneHandler(m)' /\ (InHandler(m)' <=> InHandler(m))
  <2>1. CASE UNCHANGED gor
    BY <1>1, <2>1 DEF OneHandler, InHandler
  <2>2. ASSUME NEW g \in gor, NEW new, Become(g, new), new.left = g.left
        PROVE  OneHandler(m)' /\ (InHandler(m)' <=> InHandler(m))
    BY <1>1, <2>2, HandlerKeeps
  <2>3. ASSUME NEW g \in gor, gor' = gor \ {g}, g.left = {}
        PROVE  OneHandler(m)' /\ (InHandler(m)' <=> InHandler(m))
    BY <1>1, <2>3 DEF OneHandler, InHandler
  <2> QED BY <2>1, <2>2, <2>3
<1>3. Claimed(m)' <=> Claimed(m)
  BY DEF Claimed
<1> QED BY <1>1, <1>2, <1>3, Zenon DEF Placed

LEMMA PollConserves ==
    ASSUME Types, Conserved, Draining, Poll PROVE Conserved'
<1> SUFFICES ASSUME NEW m \in Msg PROVE Placed(m)'
  BY DEF Conserved
<1>1. Placed(m) /\ todo = {}
  BY DEF Conserved, Draining, Poll
<1>2. PICK S \in SUBSET Claimable :
        /\ Claim(S)
        /\ \/ todo' = S /\ UNCHANGED lost
           \/ lost' = lost \cup S /\ UNCHANGED todo
  BY DEF Poll
<1>3. UNCHANGED <<cur, gor, acks, buf>>
  BY DEF Poll, ackVars
<1>4. (InHandler(m)' <=> InHandler(m)) /\ (OneHandler(m)' <=> OneHandler(m))
  BY <1>3 DEF InHandler, OneHandler
<1>5. m \in S => db[m] = "pending" /\ db'[m] = "handling" /\ m \notin lost
  BY <1>1, <1>2 DEF Claim, Claimable, Placed
<1>6. m \notin S => db'[m] = db[m] /\ (m \in lost' <=> m \in lost)
  BY <1>2 DEF Claim
<1>7. CASE m \in S
  <2>1. ~Claimed(m)
    BY <1>5, <1>7 DEF Claimed
  <2>2. CASE todo' = S /\ UNCHANGED lost
    BY <1>1, <1>3, <1>4, <1>5, <1>7, <2>1, <2>2 DEF Placed, Claimed
  <2>3. CASE lost' = lost \cup S /\ UNCHANGED todo
    BY <1>1, <1>3, <1>4, <1>5, <1>7, <2>1, <2>3 DEF Placed, Claimed
  <2> QED BY <1>2, <2>2, <2>3
<1>8. CASE m \notin S
  <2>1. m \notin todo'
    BY <1>1, <1>2, <1>8
  <2> QED BY <1>1, <1>3, <1>4, <1>6, <1>8, <2>1 DEF Placed, Claimed
<1> QED BY <1>7, <1>8

LEMMA AcquireGlobalConserves ==
    ASSUME Types, Conserved, Draining, AcquireGlobal PROVE Conserved'
<1> SUFFICES ASSUME NEW m \in Msg PROVE Placed(m)'
  BY DEF Conserved
<1>1. Placed(m) /\ cur = {} /\ UNCHANGED <<acks, buf, db, lost>>
  BY DEF Conserved, Draining, AcquireGlobal, ackVars, rowVars
<1>2. PICK chunk \in Chunks :
        /\ todo' = todo \ chunk
        /\ \/ cur' = chunk /\ UNCHANGED gor
           \/ Spawn(chunk) /\ UNCHANGED cur
  BY DEF AcquireGlobal
<1>3. m \in chunk => m \in todo
  BY ChunkFacts
<1>4. (Claimed(m)' <=> Claimed(m)) /\ OneHandler(m) /\ (m \in todo => ~InHandler(m))
  BY <1>1 DEF Claimed, Placed
<1>5. CASE cur' = chunk /\ UNCHANGED gor
  <2>1. (InHandler(m)' <=> InHandler(m)) /\ (OneHandler(m)' <=> OneHandler(m))
    BY <1>5 DEF InHandler, OneHandler
  <2> QED BY <1>1, <1>2, <1>3, <1>4, <1>5, <2>1 DEF Placed
<1>6. CASE Spawn(chunk) /\ UNCHANGED cur
  <2>1. OneHandler(m)' /\ (InHandler(m)' <=> InHandler(m) \/ m \in chunk)
    BY <1>3, <1>4, <1>6, HandlerStarts
  <2> QED BY <1>1, <1>2, <1>3, <1>4, <1>6, <2>1 DEF Placed
<1> QED BY <1>2, <1>5, <1>6

LEMMA AcquireTypedConserves ==
    ASSUME Conserved, AcquireTyped PROVE Conserved'
<1> SUFFICES ASSUME NEW m \in Msg PROVE Placed(m)'
  BY DEF Conserved
<1>1. /\ Placed(m) /\ UNCHANGED <<todo, acks, buf, db, lost>>
      /\ cur' = {} /\ Spawn(cur)
  BY DEF Conserved, AcquireTyped, ackVars, rowVars
<1>2. /\ Claimed(m)' <=> Claimed(m)
      /\ OneHandler(m) /\ (m \in cur => ~InHandler(m))
  BY <1>1 DEF Claimed, Placed
<1>3. OneHandler(m)' /\ (InHandler(m)' <=> InHandler(m) \/ m \in cur)
  BY <1>1, <1>2, HandlerStarts
<1> QED BY <1>1, <1>2, <1>3 DEF Placed

LEMMA ReleaseConserves ==
    ASSUME Types, Conserved, ReleaseBeforeDispatch \/ ReleaseFromTyped PROVE Conserved'
<1> SUFFICES ASSUME NEW m \in Msg PROVE Placed(m)'
  BY DEF Conserved
<1>1. Placed(m) /\ UNCHANGED <<gor, acks, buf>>
  BY DEF Conserved, ReleaseBeforeDispatch, ReleaseFromTyped, ackVars
<1>2. (InHandler(m)' <=> InHandler(m)) /\ (OneHandler(m)' <=> OneHandler(m))
  BY <1>1 DEF InHandler, OneHandler
<1>3. PICK S \in SUBSET Msg :
        /\ ReleaseShutdown(S)
        /\ \/ S \subseteq todo /\ todo' = todo \ S /\ UNCHANGED cur
           \/ S = cur /\ cur' = {} /\ UNCHANGED todo
  BY ChunkFacts DEF ReleaseBeforeDispatch, ReleaseFromTyped, Types
<1>4. \A n \in S : Claimed(n)
  BY <1>3 DEF Conserved, Placed
<1>5. /\ m \in S => ~Claimed(m)'
      /\ m \notin S => (Claimed(m)' <=> Claimed(m)) /\ (m \in lost' <=> m \in lost)
      /\ (m \in lost => db[m] = "handling") => (m \in lost' => db'[m] = "handling")
  BY <1>3, <1>4, ReleaseClaims
<1> QED BY <1>1, <1>2, <1>3, <1>5 DEF Placed

\* commitOutcome: the message leaves its goroutine for the channel, or its row is written.
LEMMA CommitConserves ==
    ASSUME Types, Conserved, NEW g \in gor, NEW n \in Msg, Commit(g, n)
    PROVE  Conserved'
<1> DEFINE new == [g EXCEPT !.left = @ \ {n}]
<1>0. /\ n \in g.left /\ Become(g, new) /\ new.left = g.left \ {n}
      /\ UNCHANGED <<todo, cur, buf>>
  <2>1. g \in Fiber
    BY DEF Types
  <2> QED BY <2>1 DEF Commit, loopVars, Fiber
<1> HIDE DEF new
<1> SUFFICES ASSUME NEW m \in Msg PROVE Placed(m)'
  BY DEF Conserved
<1>1. /\ Placed(m) /\ OneHandler(m)
      /\ Placed(n) /\ Claimed(n)
  BY <1>0 DEF Conserved, Placed, InHandler
<1>2. /\ m # n => OneHandler(m)' /\ (InHandler(m)' <=> InHandler(m))
      /\ m = n => OneHandler(m)' /\ InHandler(m) /\ ~InHandler(m)'
  BY <1>0, <1>1, HandlerKeeps, HandlerGivesUp
<1>3. CASE acks' = acks \cup {n} /\ UNCHANGED rowVars
  <2>1. (Claimed(m)' <=> Claimed(m)) /\ UNCHANGED <<db, lost>>
    BY <1>3 DEF Claimed, rowVars
  <2> QED BY <1>0, <1>1, <1>2, <1>3, <2>1 DEF Placed
<1>4. CASE /\ UNCHANGED acks
           /\ Succeed({n}) \/ ReleaseShutdown({n}) \/ Fail(n)
  <2>1. /\ m = n => ~Claimed(m)'
        /\ m # n => (Claimed(m)' <=> Claimed(m)) /\ (m \in lost' <=> m \in lost)
        /\ (m \in lost => db[m] = "handling") => (m \in lost' => db'[m] = "handling")
    BY <1>1, <1>4, SucceedClaims, ReleaseClaims, FailClaims
  <2> QED BY <1>0, <1>1, <1>2, <1>4, <2>1 DEF Placed
<1> QED BY <1>3, <1>4, Zenon DEF Commit

LEMMA FlusherConserves ==
    ASSUME Types, Conserved, FlusherReceives \/ Flush PROVE Conserved'
<1> SUFFICES ASSUME NEW m \in Msg PROVE Placed(m)'
  BY DEF Conserved
<1>1. Placed(m) /\ UNCHANGED <<todo, cur, gor>>
  BY DEF Conserved, FlusherReceives, Flush, loopVars
<1>2. (InHandler(m)' <=> InHandler(m)) /\ (OneHandler(m)' <=> OneHandler(m))
  BY <1>1 DEF InHandler, OneHandler
<1>3. CASE FlusherReceives
  <2>1. PICK n \in acks : acks' = acks \ {n} /\ buf' = buf \cup {n}
    BY <1>3 DEF FlusherReceives
  <2>2. (Claimed(m)' <=> Claimed(m)) /\ UNCHANGED <<db, lost>>
    BY <1>3 DEF Claimed, FlusherReceives, rowVars
  <2> QED BY <1>1, <1>2, <2>1, <2>2 DEF Placed
<1>4. CASE Flush
  <2>1. Succeed(buf) /\ buf' = {} /\ UNCHANGED acks
    BY <1>4 DEF Flush
  <2>2. \A n \in buf : Claimed(n)
    BY DEF Conserved, Placed, Types
  <2>3. buf \in SUBSET Msg
    BY DEF Types
  <2>4. /\ m \in buf => ~Claimed(m)'
        /\ m \notin buf => (Claimed(m)' <=> Claimed(m)) /\ (m \in lost' <=> m \in lost)
        /\ (m \in lost => db[m] = "handling") => (m \in lost' => db'[m] = "handling")
    BY <2>1, <2>2, <2>3, SucceedClaims
  <2> QED BY <1>1, <1>2, <2>1, <2>4 DEF Placed
<1> QED BY <1>3, <1>4

-----------------------------------------------------------------------------
(* The handler goroutines. *)

\* The loop dispatches, polls nothing new and starts nothing.
LEMMA StillFibers ==
    ASSUME Fibers, UNCHANGED <<gor, attempt>>, todo' \cup cur' \subseteq todo \cup cur,
           stopping => stopping'
    PROVE  Fibers'
BY DEF Fibers, Msgs

\* A goroutine that goes on is still different from all others.
LEMMA FiberStaysUnique ==
    ASSUME Fibers, NEW g \in gor, NEW new, new.at = g.at
    PROVE  new \notin gor \ {g}
BY DEF Fibers, Msgs

LEMMA FiberStep ==
    ASSUME Fibers, NEW g \in gor, NEW new, Become(g, new), new.at = g.at,
           new.left \subseteq g.left, new.stage \in {"freePool", "exit"} => new.left = {},
           new.outcome = "canceled" => stopping,
           UNCHANGED <<todo, cur, stopping>>,
           UNCHANGED attempt \/ (stopping /\ todo = {} /\ cur = {})
    PROVE  Fibers'
<1>1. gor' = (gor \ {g}) \cup {new} /\ Msgs(new) = Msgs(g)
  BY DEF Become, Msgs
<1>2. \A h \in gor' : /\ Msgs(h) # {} /\ h.left \subseteq Msgs(h)
                      /\ h.stage \in {"freePool", "exit"} => h.left = {}
                      /\ h.outcome = "canceled" => stopping'
  BY <1>1 DEF Fibers
<1>3. \A h, k \in gor' : \A m \in Msgs(h) \cap Msgs(k) : h.at[m] = k.at[m] => h = k
  BY <1>1 DEF Fibers
<1>4. ~stopping' => \A h \in gor' : \A m \in Msgs(h) : h.at[m] <= attempt'[m]
  BY <1>1 DEF Fibers
<1>5. \A m \in todo' \cup cur' : \A h \in gor' : m \in Msgs(h) => h.at[m] < attempt'[m]
  BY <1>1 DEF Fibers
<1> QED BY <1>2, <1>3, <1>4, <1>5 DEF Fibers, Msgs

LEMMA FiberExits ==
    ASSUME Fibers, NEW g \in gor, gor' = gor \ {g}, UNCHANGED <<todo, cur, attempt, stopping>>
    PROVE  Fibers'
BY DEF Fibers, Msgs

LEMMA FiberStarts ==
    ASSUME Types, Fibers, NEW chunk, Spawn(chunk), chunk # {}, chunk \subseteq todo \cup cur,
           todo' \cup cur' \subseteq (todo \cup cur) \ chunk, ~stopping,
           UNCHANGED <<attempt, stopping>>
    PROVE  Fibers'
<1> DEFINE new == [at |-> [n \in chunk |-> attempt[n]], left |-> chunk, stage |-> "running",
                   err |-> "none", outcome |-> "none"]
<1>1. /\ gor' = gor \cup {new}
      /\ Msgs(new) = chunk /\ new.left = chunk /\ new.stage = "running" /\ new.outcome = "none"
      /\ \A m \in chunk : new.at[m] = attempt[m]
  BY DEF Spawn, Msgs
<1> HIDE DEF new
<1>2. \A h \in gor' : /\ Msgs(h) # {} /\ h.left \subseteq Msgs(h)
                      /\ h.stage \in {"freePool", "exit"} => h.left = {}
                      /\ h.outcome = "canceled" => stopping'
  BY <1>1 DEF Fibers
<1>3. \A h \in gor : \A m \in chunk : m \in Msgs(h) => h.at[m] < attempt[m]
  BY DEF Fibers
<1>4. \A m \in chunk : attempt[m] \in Int
  BY DEF Types
<1>5. \A h \in gor : \A m \in Msgs(h) : h.at[m] \in Int
  BY DEF Types, Fiber, Msgs
<1>6. \A h, k \in gor' : \A m \in Msgs(h) \cap Msgs(k) : h.at[m] = k.at[m] => h = k
  <2>1. \A h \in gor : \A m \in Msgs(h) \cap chunk : h.at[m] # new.at[m]
    BY <1>1, <1>3, <1>4, <1>5
  <2> QED BY <1>1, <2>1 DEF Fibers
<1>7. ~stopping' => \A h \in gor' : \A m \in Msgs(h) : h.at[m] <= attempt'[m]
  BY <1>1, <1>4 DEF Fibers
<1>8. \A m \in todo' \cup cur' : \A h \in gor' : m \in Msgs(h) => h.at[m] < attempt'[m]
  BY <1>1 DEF Fibers
<1> QED BY <1>2, <1>6, <1>7, <1>8 DEF Fibers, Msgs

LEMMA PollFibers ==
    ASSUME Types, Fibers, Draining, Poll PROVE Fibers'
<1>1. PICK S \in SUBSET Claimable : Claim(S) /\ (todo' = S \/ UNCHANGED todo)
  BY DEF Poll
<1>2. /\ UNCHANGED <<gor, cur, stopping>> /\ ~stopping
      /\ todo = {} /\ cur = {}
  BY DEF Poll, stopVars, Draining
<1>3. /\ \A m \in S : attempt'[m] = attempt[m] + 1
      /\ \A m \in Msg \ S : attempt'[m] = attempt[m]
      /\ S \subseteq Msg
  BY <1>1 DEF Claim, Claimable
<1>4. \A g \in gor : \A m \in Msgs(g) : m \in Msg /\ g.at[m] \in Int /\ attempt[m] \in Int
  BY DEF Types, Fiber, Msgs
<1>5. \A g \in gor : \A m \in Msgs(g) :
        g.at[m] <= attempt'[m] /\ (m \in todo' \cup cur' => g.at[m] < attempt'[m])
  <2> SUFFICES ASSUME NEW g \in gor, NEW m \in Msgs(g)
               PROVE  g.at[m] <= attempt'[m] /\ (m \in todo' \cup cur' => g.at[m] < attempt'[m])
    OBVIOUS
  <2>1. g.at[m] <= attempt[m] /\ m \in Msg /\ g.at[m] \in Int /\ attempt[m] \in Int
    BY <1>2, <1>4 DEF Fibers
  <2>2. m \in todo' \cup cur' => m \in S
    BY <1>1, <1>2
  <2>3. attempt'[m] = IF m \in S THEN attempt[m] + 1 ELSE attempt[m]
    BY <1>3, <2>1
  <2> QED BY <2>1, <2>2, <2>3
<1> QED BY <1>2, <1>5 DEF Fibers, Msgs

\* Messages that were dispatched to nobody go back one attempt.
LEMMA ReleaseFibers ==
    ASSUME Types, Fibers, ReleaseBeforeDispatch \/ ReleaseFromTyped,
           \A m \in todo : m \notin cur
    PROVE  Fibers'
<1>1. PICK S \in SUBSET Msg :
        /\ ReleaseShutdown(S)
        /\ S \subseteq todo \cup cur /\ todo' \cup cur' \subseteq (todo \cup cur) \ S
  BY ChunkFacts DEF ReleaseBeforeDispatch, ReleaseFromTyped, Types
<1>2. UNCHANGED <<gor, stopping>>
  BY DEF ReleaseBeforeDispatch, ReleaseFromTyped, stopVars
<1>3. /\ \A m \in S : attempt'[m] \in {attempt[m], attempt[m] - 1}
      /\ \A m \in Msg \ S : attempt'[m] = attempt[m]
  BY <1>1 DEF ReleaseShutdown
<1>4. \A g \in gor : \A m \in Msgs(g) : m \in Msg /\ g.at[m] \in Int /\ attempt[m] \in Int
  BY DEF Types, Fiber, Msgs
<1>5. ASSUME NEW g \in gor, NEW m \in Msgs(g)
      PROVE  /\ ~stopping => g.at[m] <= attempt'[m]
             /\ m \in todo' \cup cur' => g.at[m] < attempt'[m]
  <2>1. m \in Msg /\ g.at[m] \in Int /\ attempt[m] \in Int
    BY <1>4
  <2>2. CASE m \in S
    <3>1. g.at[m] < attempt[m]
      BY <1>1, <2>2 DEF Fibers
    <3>2. m \notin todo' \cup cur'
      BY <1>1, <2>2
    <3> QED BY <1>3, <2>1, <2>2, <3>1, <3>2
  <2>3. CASE m \notin S
    BY <1>1, <1>3, <2>1, <2>3 DEF Fibers
  <2> QED BY <2>2, <2>3
<1> QED BY <1>2, <1>5 DEF Fibers, Msgs

-----------------------------------------------------------------------------
(* The counters. *)

One(b) == IF b THEN 1 ELSE 0

\* One element of a finite set is replaced by another one, or only removed.
LEMMA ReplaceElement ==
    ASSUME NEW A, IsFiniteSet(A), NEW x, NEW y, y \notin A \ {x}, NEW q \in BOOLEAN,
           NEW B, B = (A \ {x}) \cup (IF q THEN {y} ELSE {})
    PROVE  IsFiniteSet(B) /\ Cardinality(B) = Cardinality(A) - One(x \in A) + One(q)
<1>1. /\ IsFiniteSet(A \ {x}) /\ Cardinality(A) \in Nat
      /\ Cardinality(A \ {x}) = Cardinality(A) - One(x \in A)
  BY FS_RemoveElement, FS_CardinalityType DEF One
<1>2. CASE q
  <2> DEFINE C == A \ {x}
  <2>1. IsFiniteSet(C) /\ y \notin C /\ B = C \cup {y}
    BY <1>1, <1>2
  <2>2. Cardinality(C) = Cardinality(A) - One(x \in A)
    BY <1>1
  <2> HIDE DEF C
  <2>3. IsFiniteSet(B) /\ Cardinality(B) = Cardinality(C) + 1
    BY <2>1, FS_AddElement
  <2> QED BY <1>1, <1>2, <2>2, <2>3 DEF One
<1>3. CASE ~q
  <2>1. B = A \ {x}
    BY <1>3
  <2> QED BY <1>1, <1>3, <2>1 DEF One
<1> QED BY <1>2, <1>3

HoldsType(g, t) == TypeOf(Msgs(g)) = t /\ g.stage \in {"running", "returned", "commit"}

LEMMA FiniteCounts ==
    ASSUME IsFiniteSet(gor)
    PROVE  /\ IsFiniteSet(HoldPool) /\ Cardinality(HoldPool) \in Nat
           /\ \A t \in Type : IsFiniteSet(HoldTyped(t)) /\ Cardinality(HoldTyped(t)) \in Nat
BY FS_Subset, FS_CardinalityType DEF HoldPool, HoldTyped

\* What the step of a goroutine does to the counts.
LEMMA StepCounts ==
    ASSUME IsFiniteSet(gor), NEW g \in gor, NEW new, Become(g, new), new \notin gor \ {g}
    PROVE  /\ IsFiniteSet(gor)' /\ Cardinality(gor)' = Cardinality(gor)
           /\ Cardinality(HoldPool)' = Cardinality(HoldPool) - One(Holding(g)) + One(Holding(new))
           /\ \A t \in Type : Cardinality(HoldTyped(t))' =
                Cardinality(HoldTyped(t)) - One(HoldsType(g, t)) + One(HoldsType(new, t))
<1>0. gor' = (gor \ {g}) \cup {new} /\ Cardinality(gor) \in Nat
  BY FS_CardinalityType DEF Become
<1>1. IsFiniteSet(gor)' /\ Cardinality(gor)' = Cardinality(gor)
  <2>1. IsFiniteSet(gor \ {g}) /\ Cardinality(gor \ {g}) = Cardinality(gor) - 1
    BY FS_RemoveElement
  <2>2. /\ IsFiniteSet((gor \ {g}) \cup {new})
        /\ Cardinality((gor \ {g}) \cup {new}) = Cardinality(gor \ {g}) + 1
    BY <2>1, FS_AddElement
  <2> QED BY <1>0, <2>1, <2>2
<1>2. Cardinality(HoldPool)' = Cardinality(HoldPool) - One(Holding(g)) + One(Holding(new))
  <2>1. HoldPool' = (HoldPool \ {g}) \cup (IF Holding(new) THEN {new} ELSE {})
    BY <1>0 DEF HoldPool, Holding
  <2>2. new \notin HoldPool \ {g} /\ (g \in HoldPool <=> Holding(g)) /\ Holding(new) \in BOOLEAN
    BY DEF HoldPool, Holding
  <2>3. Cardinality(HoldPool') = Cardinality(HoldPool) - One(g \in HoldPool) + One(Holding(new))
    BY <2>1, <2>2, FiniteCounts, ReplaceElement
  <2> QED BY <2>2, <2>3 DEF One
<1>3. ASSUME NEW t \in Type
      PROVE  Cardinality(HoldTyped(t))' =
               Cardinality(HoldTyped(t)) - One(HoldsType(g, t)) + One(HoldsType(new, t))
  <2>1. HoldTyped(t)' = (HoldTyped(t) \ {g}) \cup (IF HoldsType(new, t) THEN {new} ELSE {})
    BY <1>0 DEF HoldTyped, HoldsType
  <2>2. /\ new \notin HoldTyped(t) \ {g} /\ (g \in HoldTyped(t) <=> HoldsType(g, t))
        /\ HoldsType(new, t) \in BOOLEAN
    BY DEF HoldTyped, HoldsType
  <2>3. Cardinality(HoldTyped(t)') =
          Cardinality(HoldTyped(t)) - One(g \in HoldTyped(t)) + One(HoldsType(new, t))
    BY <2>1, <2>2, FiniteCounts, ReplaceElement
  <2> QED BY <2>2, <2>3 DEF One
<1> QED BY <1>1, <1>2, <1>3

\* Handlers that return, are resolved or commit keep their tokens.
LEMMA TokensKept ==
    ASSUME Types, Fibers, Counted, NEW g \in gor, NEW new, Become(g, new), new.at = g.at,
           g.stage \in {"running", "returned", "commit"},
           new.stage \in {"running", "returned", "commit"},
           UNCHANGED <<pc, conf, pool, typed, inflight>>
    PROVE  Counted'
<1>1. IsFiniteSet(gor) /\ new \notin gor \ {g}
  BY FiberStaysUnique DEF Counted
<1>2. /\ IsFiniteSet(gor)' /\ Cardinality(gor)' = Cardinality(gor)
      /\ Cardinality(HoldPool)' = Cardinality(HoldPool) - One(Holding(g)) + One(Holding(new))
      /\ \A t \in Type : Cardinality(HoldTyped(t))' =
           Cardinality(HoldTyped(t)) - One(HoldsType(g, t)) + One(HoldsType(new, t))
  BY <1>1, StepCounts
<1>3. /\ Holding(g) /\ Holding(new)
      /\ \A t \in Type : HoldsType(g, t) <=> HoldsType(new, t)
  BY DEF Holding, HoldsType, Msgs
<1>4. /\ Cardinality(HoldPool)' = Cardinality(HoldPool)
      /\ \A t \in Type : Cardinality(HoldTyped(t))' = Cardinality(HoldTyped(t))
  BY <1>1, <1>2, <1>3, FiniteCounts DEF One
<1> QED BY <1>2, <1>4 DEF Counted

LEMMA TypeIsFreed ==
    ASSUME Types, Fibers, Counted, NEW g \in gor, FreeType(g), UNCHANGED conf
    PROVE  Counted'
<1> DEFINE new == [g EXCEPT !.stage = "freePool"]
<1>0. /\ Become(g, new) /\ new.at = g.at /\ new.stage = "freePool" /\ g.stage = "commit"
      /\ typed' = IF conf.maxInflight > 0 THEN [typed EXCEPT ![TypeOf(Msgs(g))] = @ - 1] ELSE typed
      /\ UNCHANGED <<pc, pool, inflight>>
  <2>1. g \in Fiber
    BY DEF Types
  <2> QED BY <2>1 DEF FreeType, loopVars, Fiber
<1> HIDE DEF new
<1>1. IsFiniteSet(gor) /\ new \notin gor \ {g}
  BY <1>0, FiberStaysUnique DEF Counted
<1>2. /\ IsFiniteSet(gor)' /\ Cardinality(gor)' = Cardinality(gor)
      /\ Cardinality(HoldPool)' = Cardinality(HoldPool) - One(Holding(g)) + One(Holding(new))
      /\ \A t \in Type : Cardinality(HoldTyped(t))' =
           Cardinality(HoldTyped(t)) - One(HoldsType(g, t)) + One(HoldsType(new, t))
  BY <1>0, <1>1, StepCounts
<1>3. /\ Holding(g) /\ Holding(new)
      /\ \A t \in Type : ~HoldsType(new, t) /\ (HoldsType(g, t) <=> t = TypeOf(Msgs(g)))
  BY <1>0 DEF Holding, HoldsType
<1>4. Cardinality(HoldPool)' = Cardinality(HoldPool)
  BY <1>1, <1>2, <1>3, FiniteCounts DEF One
<1>5. conf.maxInflight \in Nat
  BY EngineAssumption DEF Types
<1>6. \A t \in Type : typed'[t] = IF conf.maxInflight = 0 THEN 0 ELSE Cardinality(HoldTyped(t))'
  <2> SUFFICES ASSUME NEW t \in Type
               PROVE  typed'[t] = IF conf.maxInflight = 0 THEN 0 ELSE Cardinality(HoldTyped(t))'
    OBVIOUS
  <2>1. /\ typed[t] = IF conf.maxInflight = 0 THEN 0 ELSE Cardinality(HoldTyped(t))
        /\ Cardinality(HoldTyped(t)) \in Nat
    BY <1>1, FiniteCounts DEF Counted
  <2>2. Cardinality(HoldTyped(t))' = Cardinality(HoldTyped(t)) - One(t = TypeOf(Msgs(g)))
    BY <1>2, <1>3, <2>1 DEF One
  <2>3. typed'[t] = IF conf.maxInflight > 0 /\ t = TypeOf(Msgs(g)) THEN typed[t] - 1 ELSE typed[t]
    BY <1>0 DEF Types
  <2> QED BY <1>5, <2>1, <2>2, <2>3 DEF One
<1> QED BY <1>0, <1>2, <1>4, <1>6 DEF Counted

LEMMA PoolIsFreed ==
    ASSUME Types, Fibers, Counted, NEW g \in gor, FreePool(g), UNCHANGED conf
    PROVE  Counted'
<1> DEFINE new == [g EXCEPT !.stage = "exit"]
<1>0. /\ Become(g, new) /\ new.at = g.at /\ new.stage = "exit" /\ g.stage = "freePool"
      /\ pool' = pool - 1
      /\ UNCHANGED <<pc, typed, inflight>>
  <2>1. g \in Fiber
    BY DEF Types
  <2> QED BY <2>1 DEF FreePool, loopVars, Fiber
<1> HIDE DEF new
<1>1. IsFiniteSet(gor) /\ new \notin gor \ {g}
  BY <1>0, FiberStaysUnique DEF Counted
<1>2. /\ IsFiniteSet(gor)' /\ Cardinality(gor)' = Cardinality(gor)
      /\ Cardinality(HoldPool)' = Cardinality(HoldPool) - One(Holding(g)) + One(Holding(new))
      /\ \A t \in Type : Cardinality(HoldTyped(t))' =
           Cardinality(HoldTyped(t)) - One(HoldsType(g, t)) + One(HoldsType(new, t))
  BY <1>0, <1>1, StepCounts
<1>3. /\ Holding(g) /\ ~Holding(new)
      /\ \A t \in Type : ~HoldsType(new, t) /\ ~HoldsType(g, t)
  BY <1>0 DEF Holding, HoldsType
<1>4. /\ Cardinality(HoldPool)' = Cardinality(HoldPool) - 1
      /\ Cardinality(HoldPool) \in Nat
      /\ \A t \in Type : Cardinality(HoldTyped(t))' = Cardinality(HoldTyped(t))
  BY <1>1, <1>2, <1>3, FiniteCounts DEF One
<1> QED BY <1>0, <1>2, <1>4 DEF Counted

LEMMA ExitCounted ==
    ASSUME Counted, NEW g \in gor, Exit(g), UNCHANGED conf
    PROVE  Counted'
<1>1. /\ gor' = gor \ {g} /\ inflight' = inflight - 1 /\ g.stage = "exit"
      /\ UNCHANGED <<pc, pool, typed>>
  BY DEF Exit, loopVars, semVars
<1>2. HoldPool' = HoldPool /\ \A t \in Type : HoldTyped(t)' = HoldTyped(t)
  BY <1>1 DEF HoldPool, HoldTyped, Holding
<1>3. IsFiniteSet(gor)' /\ Cardinality(gor)' = Cardinality(gor) - 1
  BY <1>1, FS_RemoveElement DEF Counted
<1> QED BY <1>1, <1>2, <1>3 DEF Counted

\* A goroutine starts: it has the pool token its dispatcher acquired, and a token of its
\* type if there is a limit.
LEMMA StartCounted ==
    ASSUME Types, Fibers, Counted, NEW chunk, Spawn(chunk), chunk # {},
           chunk \subseteq todo \cup cur, UNCHANGED conf,
           pool' - One(pc' = "perType") = pool - One(pc = "perType") + 1, pool' \in Int,
           IF conf.maxInflight > 0 THEN typed' = [typed EXCEPT ![TypeOf(chunk)] = @ + 1]
                                   ELSE UNCHANGED typed
    PROVE  Counted'
<1> DEFINE new == [at |-> [n \in chunk |-> attempt[n]], left |-> chunk, stage |-> "running",
                   err |-> "none", outcome |-> "none"]
<1>1. /\ gor' = gor \cup {new} /\ inflight' = inflight + 1
      /\ Msgs(new) = chunk /\ new.stage = "running"
      /\ \A m \in chunk : new.at[m] = attempt[m]
  BY DEF Spawn, Msgs
<1> HIDE DEF new
<1>2. new \notin gor
  <2>1. PICK m \in chunk : TRUE
    OBVIOUS
  <2>2. attempt[m] \in Int
    BY DEF Types
  <2>3. \A h \in gor : m \in Msgs(h) => h.at[m] < attempt[m] /\ h.at[m] \in Int
    BY DEF Fibers, Types, Fiber, Msgs
  <2> QED BY <1>1, <2>2, <2>3
<1>3. /\ IsFiniteSet(gor) /\ Cardinality(gor) \in Nat
      /\ IsFiniteSet(HoldPool) /\ Cardinality(HoldPool) \in Nat
      /\ \A t \in Type : IsFiniteSet(HoldTyped(t)) /\ Cardinality(HoldTyped(t)) \in Nat
  BY FiniteCounts, FS_CardinalityType DEF Counted
<1>4. IsFiniteSet(gor)' /\ Cardinality(gor)' = Cardinality(gor) + 1
  BY <1>1, <1>2, <1>3, FS_AddElement
<1>5. Cardinality(HoldPool)' = Cardinality(HoldPool) + 1
  <2>1. HoldPool' = HoldPool \cup {new} /\ new \notin HoldPool
    BY <1>1, <1>2 DEF HoldPool, Holding
  <2> QED BY Zenon, <1>3, <2>1, FS_AddElement
<1>6. \A t \in Type : Cardinality(HoldTyped(t))' = Cardinality(HoldTyped(t)) + One(t = TypeOf(chunk))
  <2> SUFFICES ASSUME NEW t \in Type
               PROVE  Cardinality(HoldTyped(t))' = Cardinality(HoldTyped(t)) + One(t = TypeOf(chunk))
    OBVIOUS
  <2>1. CASE t = TypeOf(chunk)
    <3>1. HoldTyped(t)' = HoldTyped(t) \cup {new} /\ new \notin HoldTyped(t)
      BY <1>1, <1>2, <2>1 DEF HoldTyped
    <3>2. Cardinality(HoldTyped(t) \cup {new}) = Cardinality(HoldTyped(t)) + 1
      BY Zenon, <1>3, <3>1, FS_AddElement
    <3> QED BY <2>1, <3>1, <3>2 DEF One
  <2>2. CASE t # TypeOf(chunk)
    <3>1. HoldTyped(t)' = HoldTyped(t)
      BY <1>1, <2>2 DEF HoldTyped
    <3> QED BY <1>3, <2>2, <3>1 DEF One
  <2> QED BY <2>1, <2>2
<1>7. pool' = Cardinality(HoldPool)' + (IF pc' = "perType" THEN 1 ELSE 0)
  BY <1>3, <1>5 DEF Counted, One
<1>8. conf.maxInflight \in Nat
  BY EngineAssumption DEF Types
<1>9. \A t \in Type : typed'[t] = IF conf.maxInflight = 0 THEN 0 ELSE Cardinality(HoldTyped(t))'
  <2> SUFFICES ASSUME NEW t \in Type
               PROVE  typed'[t] = IF conf.maxInflight = 0 THEN 0 ELSE Cardinality(HoldTyped(t))'
    OBVIOUS
  <2>1. /\ typed[t] = IF conf.maxInflight = 0 THEN 0 ELSE Cardinality(HoldTyped(t))
        /\ typed'[t] = IF conf.maxInflight > 0 THEN typed[t] + One(t = TypeOf(chunk)) ELSE typed[t]
    BY <1>8 DEF Counted, Types, One
  <2> QED BY <1>3, <1>6, <1>8, <2>1 DEF One
<1> QED BY <1>1, <1>3, <1>4, <1>7, <1>9 DEF Counted

\* Steps of the loop that start no goroutine.
LEMMA StillCounted ==
    ASSUME Types, Counted, UNCHANGED <<gor, inflight, typed, conf>>, pool' \in Int,
           pool' - One(pc' = "perType") = pool - One(pc = "perType")
    PROVE  Counted'
<1>1. HoldPool' = HoldPool /\ \A t \in Type : HoldTyped(t)' = HoldTyped(t)
  BY DEF HoldPool, HoldTyped
<1>2. Cardinality(HoldPool) \in Nat
  BY FiniteCounts DEF Counted
<1> QED BY <1>1, <1>2 DEF Counted, One, Types

-----------------------------------------------------------------------------
(* The steps of every goroutine of the process. *)

LEMMA SpawnTyped ==
    ASSUME Types, NEW chunk \in SUBSET Msg, Spawn(chunk)
    PROVE  gor' \subseteq Fiber /\ inflight' \in Int
<1> DEFINE new == [at |-> [n \in chunk |-> attempt[n]], left |-> chunk, stage |-> "running",
                   err |-> "none", outcome |-> "none"]
<1>1. [n \in chunk |-> attempt[n]] \in [chunk -> Int]
  BY DEF Types
<1>2. new \in Fiber
  BY <1>1 DEF Fiber, Stage
<1> QED BY <1>2 DEF Spawn, Types

LEMMA PollStep == ASSUME EngineInv, Poll, UNCHANGED conf PROVE EngineInv'
<1>1. PICK S \in SUBSET Claimable :
        /\ Claim(S)
        /\ \/ todo' = S /\ pc' = "dispatch"
           \/ UNCHANGED todo /\ pc' = "wait"
  BY Zenon DEF Poll
<1>2. UNCHANGED <<cur, pool, typed, gor, inflight, acks, closed, buf, flusher, stopping, closer,
                  result>>
  BY DEF Poll, semVars, ackVars, stopVars
<1>3. S \in SUBSET Msg
  BY DEF Claimable
<1>4. Types'
  <2>1. /\ db' \in [Msg -> {"pending", "handling", "success", "dead"}]
        /\ attempt' \in [Msg -> Int]
    BY <1>1 DEF EngineInv, Types, Claim
  <2> QED BY <1>1, <1>2, <1>3, <2>1 DEF EngineInv, Types
<1>5. Conserved' /\ Fibers'
  BY PollConserves, PollFibers DEF EngineInv
<1>6. Draining'
  BY <1>1, <1>2 DEF EngineInv, Draining, Poll
<1>7. Counted'
  BY <1>1, <1>2, StillCounted DEF EngineInv, Types, Poll, One
<1> QED BY <1>4, <1>5, <1>6, <1>7 DEF EngineInv

LEMMA AcquireGlobalStep == ASSUME EngineInv, AcquireGlobal, UNCHANGED conf PROVE EngineInv'
<1>1. PICK chunk \in Chunks :
        /\ todo' = todo \ chunk /\ pool' = pool + 1
        /\ IF conf.maxInflight > 0
           THEN pc' = "perType" /\ cur' = chunk /\ UNCHANGED <<gor, inflight>>
           ELSE Spawn(chunk) /\ UNCHANGED <<pc, cur>>
  BY DEF AcquireGlobal
<1>2. UNCHANGED <<typed, acks, closed, buf, flusher, stopping, closer, result, db, attempt>>
  BY DEF AcquireGlobal, ackVars, stopVars, rowVars
<1>3. /\ chunk # {} /\ chunk \subseteq todo /\ chunk \subseteq Msg
      /\ Types /\ Conserved /\ Fibers /\ Draining /\ Counted
  BY ChunkFacts DEF EngineInv
<1>4. pc = "dispatch" /\ cur = {} /\ ~stopping /\ closer = "none"
  BY <1>3 DEF AcquireGlobal, Draining
<1>5. Types'
  <2>1. gor' \subseteq Fiber /\ inflight' \in Int
    BY <1>1, <1>3, SpawnTyped DEF Types
  <2> QED BY <1>1, <1>2, <1>3, <2>1 DEF Types
<1>6. Conserved'
  BY <1>3, AcquireGlobalConserves
<1>7. Fibers'
  BY <1>1, <1>2, <1>3, <1>4, StillFibers, FiberStarts
<1>8. Draining'
  BY <1>1, <1>2, <1>3, <1>4 DEF Draining
<1>9. Counted'
  <2>1. pool \in Int /\ conf.maxInflight \in Nat
    BY <1>3, EngineAssumption DEF Types
  <2>2. CASE conf.maxInflight > 0
    BY <1>1, <1>2, <1>3, <1>4, <2>1, <2>2, StillCounted DEF One
  <2>3. CASE ~(conf.maxInflight > 0)
    BY <1>1, <1>2, <1>3, <1>4, <2>1, <2>3, StartCounted DEF One
  <2> QED BY <2>2, <2>3
<1> QED BY <1>5, <1>6, <1>7, <1>8, <1>9 DEF EngineInv

LEMMA AcquireTypedStep == ASSUME EngineInv, AcquireTyped, UNCHANGED conf PROVE EngineInv'
<1>1. /\ pc = "perType" /\ pc' = "dispatch" /\ cur' = {} /\ Spawn(cur)
      /\ typed[TypeOf(cur)] < conf.maxInflight
      /\ typed' = [typed EXCEPT ![TypeOf(cur)] = @ + 1]
      /\ UNCHANGED <<todo, pool, acks, closed, buf, flusher, stopping, closer, result, db, attempt>>
  BY DEF AcquireTyped, ackVars, stopVars, rowVars
<1>2. /\ Types /\ Conserved /\ Fibers /\ Draining /\ Counted
      /\ cur # {} /\ ~stopping /\ closer = "none"
  BY <1>1 DEF EngineInv, Draining
<1>3. Types'
  <2>1. gor' \subseteq Fiber /\ inflight' \in Int
    BY <1>1, <1>2, SpawnTyped DEF Types
  <2>2. typed' \in [Type -> Int]
    <3>1. TypeOf(cur) \in Type /\ typed \in [Type -> Int]
      BY <1>2 DEF TypeOf, Type, Types
    <3>2. typed[TypeOf(cur)] + 1 \in Int
      BY <3>1
    <3> QED BY <1>1, <3>1, <3>2
  <2> QED BY <1>1, <1>2, <2>1, <2>2 DEF Types
<1>4. Conserved'
  BY <1>2, AcquireTypedConserves
<1>5. Fibers'
  <2>1. \A m \in todo : m \notin cur
    BY <1>2 DEF Types, Conserved, Placed
  <2> QED BY <1>1, <1>2, <2>1, FiberStarts
<1>6. Draining'
  BY <1>1, <1>2 DEF Draining
<1>7. Counted'
  <2>1. pool \in Int /\ conf.maxInflight \in Nat /\ typed[TypeOf(cur)] \in Nat
    <3>1. TypeOf(cur) \in Type
      BY DEF TypeOf, Type
    <3>2. \A t \in Type : Cardinality(HoldTyped(t)) \in Nat
      BY <1>2, FiniteCounts DEF Counted
    <3> QED BY <1>2, <3>1, <3>2, EngineAssumption DEF Types, Counted
  <2>2. conf.maxInflight > 0
    BY <1>1, <2>1
  <2>3. pool' - One(pc' = "perType") = pool - One(pc = "perType") + 1 /\ pool' \in Int
    BY <1>1, <2>1 DEF One
  <2>4. IF conf.maxInflight > 0 THEN typed' = [typed EXCEPT ![TypeOf(cur)] = @ + 1]
                                ELSE UNCHANGED typed
    BY <1>1, <2>2
  <2> QED BY Zenon, <1>1, <1>2, <2>3, <2>4, StartCounted
<1> QED BY <1>3, <1>4, <1>5, <1>6, <1>7 DEF EngineInv

LEMMA ReleaseStep ==
    ASSUME EngineInv, ReleaseBeforeDispatch \/ ReleaseFromTyped, UNCHANGED conf
    PROVE  EngineInv'
<1>1. /\ pc' = "dispatch" /\ pc \in {"dispatch", "perType"} /\ cur' = {}
      /\ pool' = IF pc = "perType" THEN pool - 1 ELSE pool
      /\ UNCHANGED <<typed, gor, inflight, acks, closed, buf, flusher, stopping, closer, result>>
  BY DEF ReleaseBeforeDispatch, ReleaseFromTyped, semVars, ackVars, stopVars, EngineInv, Draining
<1>2. PICK S \in SUBSET Msg : ReleaseShutdown(S) /\ todo' \subseteq todo
  BY ChunkFacts DEF ReleaseBeforeDispatch, ReleaseFromTyped, EngineInv, Types
<1>3. /\ Types /\ Conserved /\ Fibers /\ Draining /\ Counted
      /\ \A m \in todo : m \notin cur
  BY DEF EngineInv, Types, Conserved, Placed
<1>4. Types'
  <2>1. /\ db' \in [Msg -> {"pending", "handling", "success", "dead"}]
        /\ attempt' \in [Msg -> Int]
    BY <1>2, <1>3 DEF Types, ReleaseShutdown
  <2> QED BY <1>1, <1>2, <1>3, <2>1 DEF Types
<1>5. Conserved' /\ Fibers'
  BY <1>3, ReleaseConserves, ReleaseFibers
<1>6. Draining'
  BY <1>1, <1>3 DEF Draining
<1>7. Counted'
  BY <1>1, <1>3, StillCounted DEF Types, One
<1> QED BY <1>4, <1>5, <1>6, <1>7 DEF EngineInv

\* The loop's other steps move nothing.
LEMMA LoopMoves ==
    ASSUME EngineInv, LoopTop \/ Dispatched \/ WaitEnds \/ DrainEnds, UNCHANGED conf
    PROVE  EngineInv'
<1>1. /\ UNCHANGED <<todo, cur, pool, typed, gor, inflight, acks, closed, buf, flusher, db,
                     attempt, lost>>
      /\ pc # "perType" /\ pc' # "perType"
  BY DEF LoopTop, Dispatched, WaitEnds, DrainEnds, semVars, ackVars, rowVars
<1>2. /\ Types /\ Conserved /\ Fibers /\ Draining /\ Counted
  BY DEF EngineInv
<1>3. Draining' /\ (stopping => stopping')
  <2>1. CASE LoopTop
    BY <1>1, <1>2, <2>1 DEF Draining, LoopTop, stopVars
  <2>2. CASE Dispatched
    BY <1>1, <1>2, <2>2 DEF Draining, Dispatched, stopVars
  <2>3. CASE WaitEnds
    BY SMTT(30), <1>1, <1>2, <2>3 DEF Draining, WaitEnds, stopVars
  <2>4. CASE DrainEnds
    BY <1>1, <1>2, <2>4 DEF Draining, DrainEnds, stopVars
  <2> QED BY <2>1, <2>2, <2>3, <2>4
<1>4. Types'
  BY <1>1, <1>2 DEF Types
<1>5. Conserved'
  BY <1>1, <1>2, StillConserved
<1>6. Fibers'
  BY <1>1, <1>2, <1>3, StillFibers
<1>7. Counted'
  BY <1>1, <1>2, StillCounted DEF Types, One
<1> QED BY <1>3, <1>4, <1>5, <1>6, <1>7 DEF EngineInv

\* A goroutine's steps up to the commit: runHandler and runBatchHandler.
LEMMA HandlerRuns ==
    ASSUME EngineInv, NEW g \in gor, HandlerReturns(g) \/ Resolve(g), UNCHANGED conf
    PROVE  EngineInv'
<1>1. Types /\ Conserved /\ Fibers /\ Draining /\ Counted /\ g \in Fiber
  BY DEF EngineInv, Types
<1>2. PICK new \in Fiber :
        /\ Become(g, new) /\ new.at = g.at /\ new.left = g.left
        /\ new.stage \in {"returned", "commit"}
        /\ new.outcome = "canceled" => g.outcome = "canceled" \/ stopping
  <2>1. CASE HandlerReturns(g)
    <3>1. PICK err \in {"nil", "other", "canceled"} :
            Become(g, [g EXCEPT !.stage = "returned", !.err = err])
      BY Zenon, <2>1 DEF HandlerReturns
    <3> DEFINE new == [g EXCEPT !.stage = "returned", !.err = err]
    <3>2. /\ new \in Fiber /\ new.at = g.at /\ new.left = g.left /\ new.stage = "returned"
          /\ new.outcome = g.outcome
      BY Zenon, <1>1 DEF Fiber, Stage
    <3> QED BY Zenon, <3>1, <3>2
  <2>2. CASE Resolve(g)
    <3>1. /\ resolveOutcome(g.err) \in {"success", "canceled", "retry"}
          /\ resolveOutcome(g.err) = "canceled" => stopping
      BY DEF resolveOutcome
    <3> DEFINE new == [g EXCEPT !.stage = "commit", !.outcome = resolveOutcome(g.err)]
    <3>2. /\ new \in Fiber /\ new.at = g.at /\ new.left = g.left /\ new.stage = "commit"
          /\ new.outcome = resolveOutcome(g.err)
      BY Zenon, <1>1, <3>1 DEF Fiber, Stage
    <3>3. Become(g, new)
      BY <2>2 DEF Resolve
    <3> QED BY Zenon, <3>1, <3>2, <3>3
  <2> QED BY <2>1, <2>2
<1>3. /\ UNCHANGED <<todo, cur, pc, pool, typed, inflight, acks, closed, buf, flusher, stopping,
                     closer, result, db, attempt, lost>>
      /\ g.stage \in {"running", "returned"}
  BY Zenon DEF HandlerReturns, Resolve, loopVars, semVars, ackVars, stopVars, rowVars
<1>4. Types'
  BY <1>1, <1>2, <1>3 DEF Types, Become
<1>5. Conserved'
  BY Zenon, <1>1, <1>2, <1>3, StillConserved
<1>6. Fibers'
  <2>1. new.outcome = "canceled" => stopping
    BY <1>1, <1>2 DEF Fibers
  <2> QED BY Zenon, <1>1, <1>2, <1>3, <2>1, FiberStep
<1>7. Draining'
  BY <1>1, <1>3 DEF Draining
<1>8. Counted'
  BY <1>1, <1>2, <1>3, TokensKept
<1> QED BY <1>4, <1>5, <1>6, <1>7, <1>8 DEF EngineInv

LEMMA CommitStep ==
    ASSUME EngineInv, NEW g \in gor, NEW n \in Msg, Commit(g, n), UNCHANGED conf
    PROVE  EngineInv'
<1> DEFINE new == [g EXCEPT !.left = @ \ {n}]
<1>1. Types /\ Conserved /\ Fibers /\ Draining /\ Counted /\ g \in Fiber
  BY DEF EngineInv, Types
<1>2. /\ Become(g, new) /\ new \in Fiber /\ new.at = g.at /\ new.left \subseteq g.left
      /\ g.stage = "commit" /\ new.stage = "commit" /\ new.outcome = g.outcome
  BY <1>1 DEF Commit, Fiber
<1> HIDE DEF new
<1>3. UNCHANGED <<todo, cur, pc, pool, typed, inflight, closed, buf, flusher, stopping, closer,
                  result>>
  BY DEF Commit, loopVars, semVars, stopVars
<1>4. closer \in {"none", "wait"} /\ ~closed /\ flusher \notin {"lastFlush", "exited"}
  BY <1>1 DEF Draining
<1>5. \/ conf.ackCap > 0 /\ acks' = acks \cup {n} /\ UNCHANGED <<db, attempt>>
      \/ UNCHANGED acks /\ Succeed({n})
      \/ UNCHANGED acks /\ g.outcome = "canceled" /\ ReleaseShutdown({n})
      \/ UNCHANGED acks /\ Fail(n)
  BY Zenon DEF Commit, rowVars
<1>6. /\ conf.ackCap = 0 => UNCHANGED acks
      /\ acks' \subseteq acks \cup {n}
  BY <1>5
<1>7. UNCHANGED attempt \/ g.outcome = "canceled"
  BY <1>5 DEF Succeed, Fail
<1>8. db' \in [Msg -> {"pending", "handling", "success", "dead"}]
  BY <1>1, <1>5 DEF Types, Succeed, ReleaseShutdown, Fail
<1>9. attempt' \in [Msg -> Int]
  BY SMTT(30), <1>1, <1>5 DEF Types, Succeed, ReleaseShutdown, Fail
<1>10. Types'
  BY <1>1, <1>2, <1>3, <1>6, <1>8, <1>9 DEF Types, Become
<1>11. Conserved'
  BY <1>1, CommitConserves
<1>12. Fibers'
  <2>1. g.outcome = "canceled" => stopping /\ todo = {} /\ cur = {}
    BY <1>1 DEF Fibers, Draining
  <2> QED BY Zenon, <1>1, <1>2, <1>3, <1>7, <2>1, FiberStep
<1>13. Draining'
  BY <1>1, <1>3, <1>4, <1>6 DEF Draining
<1>14. Counted'
  BY Zenon, <1>1, <1>2, <1>3, TokensKept
<1> QED BY <1>10, <1>11, <1>12, <1>13, <1>14 DEF EngineInv

\* The deferred calls.
LEMMA HandlerLeaves ==
    ASSUME EngineInv, NEW g \in gor, FreeType(g) \/ FreePool(g) \/ Exit(g), UNCHANGED conf
    PROVE  EngineInv'
<1>1. Types /\ Conserved /\ Fibers /\ Draining /\ Counted /\ g \in Fiber
  BY DEF EngineInv, Types
<1>2. /\ UNCHANGED <<todo, cur, pc, acks, closed, buf, flusher, stopping, closer, result, db,
                     attempt, lost>>
      /\ pool' \in {pool, pool - 1} /\ inflight' \in {inflight, inflight - 1}
      /\ g.left = {}
  BY <1>1 DEF FreeType, FreePool, Exit, loopVars, semVars, ackVars, stopVars, rowVars, Fibers
<1>3. typed' \in [Type -> Int]
  <2>1. TypeOf(Msgs(g)) \in Type /\ typed \in [Type -> Int]
    BY <1>1 DEF TypeOf, Type, Types
  <2>2. typed[TypeOf(Msgs(g))] - 1 \in Int
    BY <2>1
  <2>3. typed' = typed \/ typed' = [typed EXCEPT ![TypeOf(Msgs(g))] = @ - 1]
    BY DEF FreeType, FreePool, Exit, semVars
  <2> QED BY <2>1, <2>2, <2>3
<1>4. Counted'
  BY <1>1, TypeIsFreed, PoolIsFreed, ExitCounted
<1>5. Draining'
  <2>1. closer \in {"none", "wait"}
    BY <1>1 DEF Draining
  <2> QED BY <1>1, <1>2, <2>1 DEF Draining
<1>6. CASE FreeType(g) \/ FreePool(g)
  <2>1. PICK new \in Fiber :
          /\ Become(g, new) /\ new.at = g.at /\ new.left = g.left /\ new.outcome = g.outcome
    <3>1. CASE FreeType(g)
      BY <1>1, <3>1 DEF FreeType, Fiber, Stage
    <3>2. CASE FreePool(g)
      BY <1>1, <3>2 DEF FreePool, Fiber, Stage
    <3> QED BY Zenon, <1>6, <3>1, <3>2
  <2>2. Types'
    <3>1. gor' \subseteq Fiber
      BY <1>1, <2>1 DEF Types, Become
    <3>2. pool' \in Int /\ inflight' \in Int
      BY <1>1, <1>2 DEF Types
    <3> QED BY Zenon, <1>1, <1>2, <1>3, <3>1, <3>2 DEF Types
  <2>3. Conserved'
    BY Zenon, <1>1, <1>2, <2>1, StillConserved
  <2>4. Fibers'
    <3>1. new.outcome = "canceled" => stopping
      BY Zenon, <1>1, <2>1 DEF Fibers
    <3> QED BY <1>1, <1>2, <2>1, <3>1, FiberStep
  <2> QED BY <1>4, <1>5, <2>2, <2>3, <2>4 DEF EngineInv
<1>7. CASE Exit(g)
  <2>1. gor' = gor \ {g}
    BY <1>7 DEF Exit
  <2>2. Types'
    <3>1. gor' \subseteq Fiber /\ pool' \in Int /\ inflight' \in Int
      BY <1>1, <1>2, <2>1 DEF Types
    <3> QED BY Zenon, <1>1, <1>2, <1>3, <3>1 DEF Types
  <2>3. Conserved'
    BY <1>1, <1>2, <2>1, StillConserved
  <2>4. Fibers'
    BY <1>1, <1>2, <2>1, FiberExits
  <2> QED BY <1>4, <1>5, <2>2, <2>3, <2>4 DEF EngineInv
<1> QED BY <1>6, <1>7

LEMMA FlusherStep == ASSUME EngineInv, Flusher PROVE EngineInv'
<1>1. Types /\ Conserved /\ Fibers /\ Draining /\ Counted
  BY DEF EngineInv
<1>2. UNCHANGED <<conf, todo, cur, pc, pool, typed, gor, inflight, closed, stopping, closer,
                  result>>
  BY DEF Flusher, FlusherReceives, FlusherTicks, FlusherSeesClose, Flush, loopVars, semVars,
         stopVars
<1>3. /\ db' \in [Msg -> {"pending", "handling", "success", "dead"}]
      /\ UNCHANGED attempt
      /\ acks' \subseteq acks /\ buf' \subseteq acks \cup buf
  <2>1. CASE Flush
    BY <1>1, <2>1 DEF Flush, Succeed, Types
  <2>2. CASE FlusherReceives \/ FlusherTicks \/ FlusherSeesClose
    BY <1>1, <2>2 DEF FlusherReceives, FlusherTicks, FlusherSeesClose, rowVars, Types
  <2> QED BY <2>1, <2>2 DEF Flusher
<1>4. Types'
  BY <1>1, <1>2, <1>3 DEF Types
<1>5. Conserved'
  <2>1. CASE FlusherReceives \/ Flush
    BY <1>1, <2>1, FlusherConserves
  <2>2. CASE FlusherTicks \/ FlusherSeesClose
    <3>1. UNCHANGED <<acks, buf, db, lost>>
      BY <2>2 DEF FlusherTicks, FlusherSeesClose, rowVars
    <3> QED BY <1>1, <1>2, <3>1, StillConserved
  <2> QED BY <2>1, <2>2 DEF Flusher
<1>6. Fibers'
  BY <1>1, <1>2, <1>3, StillFibers
<1>7. Draining'
  BY <1>1, <1>2, <1>3 DEF Draining, Flusher, FlusherReceives, FlusherTicks, FlusherSeesClose, Flush
<1>8. Counted'
  BY <1>1, <1>2, StillCounted DEF Types, One
<1> QED BY <1>4, <1>5, <1>6, <1>7, <1>8 DEF EngineInv

\* drain's goroutine, the cancelled context, and nothing.
LEMMA ShutdownStep ==
    ASSUME EngineInv, Closer \/ Shutdown \/ UNCHANGED vars PROVE EngineInv'
<1>1. Types /\ Conserved /\ Fibers /\ Draining /\ Counted
  BY DEF EngineInv
<1>2. UNCHANGED <<conf, todo, cur, pc, pool, typed, gor, inflight, acks, buf, flusher, stopping,
                  result, db, attempt, lost>>
  BY DEF Closer, CloserWaits, CloserCloses, CloserDone, Shutdown, Cancel, vars, loopVars, semVars,
         ackVars, stopVars, rowVars
<1>3. inflight = 0 => gor = {}
  BY Zenon, <1>1, FS_EmptySet DEF Counted
<1>4. Draining'
  <2>1. CASE CloserWaits
    <3>1. closer = "wait" /\ gor = {} /\ closed' = closed /\ closer' \in {"close", "done"}
          /\ (closer' = "done" => conf.ackCap = 0)
      BY <1>3, <2>1 DEF CloserWaits, ackVars
    <3> QED BY <1>1, <1>2, <3>1 DEF Draining
  <2>2. CASE CloserCloses
    BY SMTT(30), <1>1, <1>2, <2>2 DEF Draining, CloserCloses
  <2>3. CASE CloserDone
    BY SMTT(30), <1>1, <1>2, <2>3 DEF Draining, CloserDone, ackVars
  <2>4. CASE closed' = closed /\ closer' = closer
    BY <1>1, <1>2, <2>4 DEF Draining
  <2>5. Shutdown \/ UNCHANGED vars => closed' = closed /\ closer' = closer
    BY DEF Shutdown, Cancel, vars, ackVars, stopVars
  <2> QED BY Zenon, <2>1, <2>2, <2>3, <2>4, <2>5 DEF Closer
<1>5. Types'
  BY <1>1, <1>2 DEF Types
<1>6. Conserved' /\ Fibers'
  BY <1>1, <1>2, StillConserved, StillFibers
<1>7. Counted'
  BY <1>1, <1>2, StillCounted DEF Types, One
<1> QED BY <1>4, <1>5, <1>6, <1>7 DEF EngineInv

\* The inductive invariant of the engine.
THEOREM EngineInvariant == Spec => []EngineInv
<1>1. Init => EngineInv
  <2> SUFFICES ASSUME Init PROVE EngineInv
    OBVIOUS
  <2>1. Types
    BY DEF Init, Types, Type
  <2>2. Conserved
    BY DEF Init, Conserved, Placed, Claimed, OneHandler, InHandler
  <2>3. Fibers /\ Draining
    BY DEF Init, Fibers, Draining
  <2>4. Counted
    <3>1. HoldPool = {} /\ \A t \in Type : HoldTyped(t) = {}
      BY DEF Init, HoldPool, HoldTyped
    <3> QED BY SMTT(30), <3>1, FS_EmptySet DEF Init, Counted
  <2> QED BY <2>1, <2>2, <2>3, <2>4 DEF EngineInv
<1>2. EngineInv /\ [Next]_vars => EngineInv'
  <2> SUFFICES ASSUME EngineInv, [Next]_vars PROVE EngineInv'
    OBVIOUS
  <2>1. CASE Loop
    BY <2>1, PollStep, AcquireGlobalStep, AcquireTypedStep, ReleaseStep, LoopMoves DEF Loop
  <2>2. CASE Handlers
    BY <2>2, HandlerRuns, CommitStep, HandlerLeaves DEF Handlers, HandlerStep
  <2>3. CASE Flusher
    BY <2>3, FlusherStep
  <2>4. CASE Closer \/ Shutdown \/ UNCHANGED vars
    BY <2>4, ShutdownStep
  <2> QED BY <2>1, <2>2, <2>3, <2>4 DEF Next
<1> QED BY <1>1, <1>2, PTL DEF Spec

-----------------------------------------------------------------------------
\* drain closes succeedCh only when nobody can send on it any more, in every
\* configuration: the comment above close(succeedCh) is right.
THEOREM CloseIsSafe == Spec => []NoSendOnClosed
<1>1. EngineInv => NoSendOnClosed
  BY DEF EngineInv, Draining, NoSendOnClosed
<1> QED BY <1>1, EngineInvariant, PTL

\* The tokens of globalPool and of the per-type semaphores are those of the live goroutines
\* and of the loop, for any pool size and any limits.
THEOREM TokensNeverLeak == Spec => []TokensAccounted
<1>1. EngineInv => TokensAccounted
  BY DEF EngineInv, Counted, TokensAccounted, HoldPool, HoldTyped
<1> QED BY <1>1, EngineInvariant, PTL

LEMMA PlacesOf ==
    ASSUME Types, NEW m \in Msg, Placed(m)
    PROVE  Cardinality(Places(m)) = IF Claimed(m) THEN 1 ELSE 0
<1> DEFINE names == {"todo" : x \in todo \cap {m}} \cup {"cur" : x \in cur \cap {m}}
                     \cup {"acks" : x \in acks \cap {m}} \cup {"buf" : x \in buf \cap {m}}
           own == {<<p, 0>> : p \in names}
           handlers == {<<"handler", g.at[m]>> : g \in {h \in gor : m \in h.left}}
<1>1. Places(m) = own \cup handlers
  BY DEF Places
<1>2. CASE ~Claimed(m)
  <2>1. names = {} /\ handlers = {}
    BY <1>2 DEF Placed, InHandler
  <2>2. Places(m) = {}
    BY <1>1, <2>1
  <2> QED BY <1>2, <2>2, FS_EmptySet
<1>3. CASE Claimed(m)
  <2>1. CASE InHandler(m)
    <3>1. names = {}
      BY <2>1 DEF Placed
    <3>2. PICK g \in gor : m \in g.left
      BY <2>1 DEF InHandler
    <3>3. handlers = {<<"handler", g.at[m]>>}
      BY <3>2 DEF Placed, OneHandler
    <3>4. Places(m) = {<<"handler", g.at[m]>>}
      BY <1>1, <3>1, <3>3
    <3> QED BY Zenon, <1>3, <3>4, FS_Singleton
  <2>2. CASE ~InHandler(m)
    <3>1. handlers = {}
      BY <2>2 DEF InHandler
    <3>2. \E p : names = {p}
      BY SMTT(30), <1>3, <2>2 DEF Placed
    <3>3. PICK p : names = {p}
      BY <3>2
    <3>4. Places(m) = {<<p, 0>>}
      BY <1>1, <3>1, <3>3
    <3> QED BY Zenon, <1>3, <3>4, FS_Singleton
  <2> QED BY <2>1, <2>2
<1> QED BY <1>2, <1>3

\* From the claim to the write of its outcome a message is in exactly one place of the
\* process, whatever the order of polls, dispatches, commits, flushes and the shutdown.
THEOREM ClaimsNeverLost == Spec => []ClaimsConserved
<1>1. EngineInv => ClaimsConserved
  BY PlacesOf DEF EngineInv, Conserved, ClaimsConserved, Claimed
<1> QED BY <1>1, EngineInvariant, PTL

\* When run returns nil, no claimed message is left behind but those whose write failed.
THEOREM DrainIsClean == Spec => []CleanDrain
<1>1. EngineInv => CleanDrain
  <2> SUFFICES ASSUME EngineInv, result = "ok", NEW m \in Msg, db[m] = "handling"
               PROVE  m \in lost
    BY DEF CleanDrain
  <2>1. /\ todo = {} /\ cur = {} /\ acks = {} /\ buf = {} /\ gor = {}
    BY DEF EngineInv, Draining
  <2>2. Placed(m)
    BY DEF EngineInv, Conserved
  <2> QED BY <2>1, <2>2 DEF Placed, Claimed, InHandler
<1> QED BY <1>1, EngineInvariant, PTL
=============================================================================
