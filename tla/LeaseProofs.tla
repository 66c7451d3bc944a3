---------------------------- MODULE LeaseProofs -----------------------------
(***************************************************************************)
(* Proofs about module Lease, for chunks of any size, any leases, clock    *)
(* offsets, delays and numbers of errors.                                  *)
(*                                                                         *)
(* The inductive invariant relates claimed_until to the ticker.  As long   *)
(* as no pass was late, the lease of a row that is still ours reaches at   *)
(* least `cover` beyond the tick that renews it next (Covered): that tick  *)
(* is `next`, or the one before while the extender still owes that row its *)
(* part of the current pass (Pend).  The same difference bounds the time   *)
(* at which a lost row is noticed (Noticing).                              *)
(***************************************************************************)
EXTENDS Lease, TLAPS

\* The part of the ticker's schedule that message m has not had yet.
Pend(m) == IF due \/ (ext = "pass" /\ m >= pos) THEN Interval ELSE 0

\* The ticker is ahead of the clock by at most an interval, and a pass that is in time
\* ends before the next tick.
Clockwork ==
    /\ stopAt <= now
    /\ ext = "off" => ~due
    /\ ext # "pass" => pos = 1
    /\ stage \in {"idle", "queued"} => ext = "off" /\ \A m \in Msg : cover[m] < 0
    /\ ext # "off" =>
         /\ now < next /\ next - Interval <= now
         /\ ~late /\ Behind => now <= next - Interval + Delay
         /\ ~late /\ ext = "pass" => ~due /\ next - Interval <= ask

\* What the lease of a row of this claim covers.
Covered ==
    \A m \in Msg :
        /\ owner[m] = "ours" /\ ~late /\ cover[m] >= 0
        => IF ext = "off" THEN until[m] - conf.skew >= stopAt + cover[m] - Delay
                          ELSE until[m] - conf.skew >= next - Pend(m) + cover[m]

\* An attempt with a lost row has an extender, and its tick is near.
Noticing ==
    stage = "running" /\ ~late /\ ~ctxEnded =>
        /\ ext # "off"
        /\ \A m \in Msg : owner[m] = "lost" => next - Pend(m) + Delay <= noticeBy[m]

\* A handler that started at once with an agreeing clock, and whose Extends succeeded.
Undisturbed ==
    /\ 3 * Delay <= Second /\ MinTick + Delay <= Second
    /\ conf.skew = 0 /\ conf.lease >= Second /\ prompt /\ errors = 0 /\ ~stopped

\* Such a handler starts with the whole grant, and is covered for a pass ever after.
WellCovered ==
    Undisturbed =>
        \A m \in Msg : owner[m] = "ours" =>
            /\ stage = "queued" => until[m] = Granted
            /\ ext # "off" => cover[m] >= Delay

LeaseInv == TypeOK /\ Clockwork /\ Covered /\ Noticing /\ WellCovered

-----------------------------------------------------------------------------
LEMMA Numbers ==
    ASSUME conf \in Configs
    PROVE  /\ Interval \in Nat /\ Interval > 0
           /\ conf.lease \in Nat /\ conf.lease > 0 /\ conf.skew \in Int
           /\ N \in Nat /\ N > 0 /\ Delay \in Nat /\ Second \in Nat /\ Second > 0
           /\ MinTick \in Nat
BY LeaseAssumption DEF Interval, Config

\* A lease of at least a second, cut to whole seconds, lasts for an interval and a pass.
LEMMA WholeSeconds ==
    ASSUME conf \in Configs, 3 * Delay <= Second, MinTick + Delay <= Second,
           conf.lease >= Second
    PROVE  /\ (conf.lease \div Second) * Second - Interval >= Delay
           /\ conf.lease - Interval >= Delay
<1> DEFINE l == conf.lease
           q == (l \div Second) * Second
<1>1. l \in Nat /\ Second \in Nat /\ Second > 0 /\ MinTick \in Nat /\ Delay \in Nat
  BY Numbers
<1>2. l \div Second \in Nat /\ l \div Second >= 1
  BY <1>1
<1>3. q \in Nat /\ q >= Second /\ l < q + Second /\ q <= l
  BY <1>1, <1>2
<1>4. l \div 3 \in Nat /\ 3 * (l \div 3) <= l
  BY <1>1
<1>5. q - Interval >= Delay
  <2> HIDE DEF q
  <2> QED BY <1>1, <1>3, <1>4 DEF Interval
<1> QED BY <1>1, <1>3, <1>5, Numbers

\* What a claim grants is a point in time.
LEMMA GrantedType ==
    ASSUME TypeOK PROVE Granted \in Int
<1>1. conf.lease \in Nat /\ conf.skew \in Int /\ Second \in Nat /\ Second > 0 /\ now \in Nat
  BY Numbers DEF TypeOK
<1>2. conf.lease \div Second \in Int
  BY <1>1
<1>3. (conf.lease \div Second) * Second \in Int
  BY <1>1, <1>2
<1> QED BY <1>1, <1>3 DEF Granted, Clock

\* The configuration is fixed.
LEMMA ConfFixed ==
    ASSUME [Next]_vars PROVE conf' = conf /\ Interval' = Interval
<1>1. conf' = conf
  BY Zenon DEF Next, vars, Claim, StartHandler, ReleaseQueued, HandlerReturns, CommitNext,
     TakeTick,
         ExtendOk, ExtendError, ExtendUnanswered, ExtendLost, ExtenderStops, AttemptTimesOut,
         Shutdown, Tick, Flush, ReclaimExpired, ClaimAgain, NewerClaimEnds, Lose
<1> QED BY <1>1 DEF Interval

\* Every action keeps the types.
LEMMA TypeStep ==
    ASSUME TypeOK, [Next]_vars
    PROVE  TypeOK'
<1>0. /\ conf \in Configs /\ conf' = conf /\ Interval' = Interval
      /\ Interval \in Nat /\ Interval > 0 /\ conf.lease \in Nat /\ conf.skew \in Int
      /\ N \in Nat /\ N > 0 /\ Delay \in Nat /\ Second \in Nat /\ Second > 0
  BY Numbers, ConfFixed DEF TypeOK
<1>a. /\ 1 \in Msg /\ \A i \in Msg : i \in Nat /\ (i # N => i + 1 \in Msg)
      /\ now + 1 \in Nat /\ errors + 1 \in Nat /\ Granted \in Int
  BY <1>0, GrantedType DEF TypeOK, Msg
<1>1. CASE Claim
  BY <1>1, <1>0, <1>a DEF TypeOK, Owner, Claim, chunk, ticker, ghosts
<1>2. CASE StartHandler
  BY <1>2, <1>0, <1>a DEF TypeOK, Owner, StartHandler, Clock, chunk, ticker, ghosts
<1>3. CASE ReleaseQueued
  BY <1>3, <1>0, <1>a DEF TypeOK, Owner, ReleaseQueued, chunk, ticker, ghosts
<1>4. CASE HandlerReturns
  BY <1>4, <1>0, <1>a DEF TypeOK, Owner, HandlerReturns, chunk, ticker, ghosts
<1>5. CASE CommitNext
  BY <1>5, <1>0, <1>a DEF TypeOK, Owner, CommitNext, Write, chunk, ticker, ghosts
<1>6. CASE TakeTick
  BY Zenon, <1>6, <1>0, <1>a DEF TypeOK, Owner, TakeTick, chunk, ticker, ghosts
<1>7. CASE ExtendOk
  BY <1>7, <1>0, <1>a DEF TypeOK, Owner, ExtendOk, Renew, Advance, chunk, ticker, ghosts
<1>8. CASE ExtendError
  BY <1>8, <1>0, <1>a DEF TypeOK, Owner, ExtendError, ExtendFails, Missed, Advance, chunk,
     ticker, ghosts
<1>9. CASE ExtendUnanswered
  BY <1>9, <1>0, <1>a DEF TypeOK, Owner, ExtendUnanswered, ExtendFails, Renew, Advance,
     chunk, ticker, ghosts
<1>10. CASE ExtendLost
  BY Zenon, <1>10, <1>0, <1>a DEF TypeOK, Owner, ExtendLost, Return, chunk, ticker, ghosts
<1>11. CASE ExtenderStops
  BY Zenon, <1>11, <1>0, <1>a DEF TypeOK, Owner, ExtenderStops, Return, chunk, ticker, ghosts
<1>12. CASE AttemptTimesOut
  BY <1>12, <1>0, <1>a DEF TypeOK, Owner, AttemptTimesOut, chunk, ticker, ghosts
<1>13. CASE Shutdown
  BY <1>13, <1>0, <1>a DEF TypeOK, Owner, Shutdown, chunk, ticker, ghosts
<1>14. CASE Tick
  <2>0. next \in Nat /\ next + Interval \in Nat
    BY <1>0 DEF TypeOK
  <2>1. due' \in BOOLEAN /\ next' \in Nat
    <3>1. CASE ext # "off" /\ next = now + 1
      BY <1>14, <2>0, <3>1, Zenon DEF Tick
    <3>2. CASE ~(ext # "off" /\ next = now + 1)
      <4>1. due' = due /\ next' = next
        BY <1>14, <3>2, Zenon DEF Tick
      <4> QED BY <2>0, <4>1, Zenon DEF TypeOK
    <3> QED BY <3>1, <3>2
  <2>2. late' \in BOOLEAN /\ prompt' \in BOOLEAN
    <3>1. late' = (late \/ (ext # "off" /\ Behind
                            /\ (now + 1 = next \/ now + 1 > next - Interval + Delay)))
      BY <1>14, Zenon DEF Tick
    <3>2. prompt' = (prompt /\ stage # "queued")
      BY <1>14, Zenon DEF Tick
    <3> QED BY <3>1, <3>2, Zenon
  <2> QED BY <1>14, <1>0, <1>a, <2>1, <2>2 DEF TypeOK, Tick, chunk
<1>15. ASSUME NEW k \in Msg, Flush(k) PROVE TypeOK'
  BY <1>15, <1>0, <1>a DEF TypeOK, Owner, Flush, Write, chunk, ticker, ghosts
<1>16. ASSUME NEW k \in Msg, ReclaimExpired(k) PROVE TypeOK'
  BY <1>16, <1>0, <1>a DEF TypeOK, Owner, ReclaimExpired, Lose, chunk, ticker, ghosts
<1>17. ASSUME NEW k \in Msg, ClaimAgain(k) PROVE TypeOK'
  BY <1>17, <1>0, <1>a DEF TypeOK, Owner, ClaimAgain, chunk, ticker, ghosts
<1>18. ASSUME NEW k \in Msg, NewerClaimEnds(k) PROVE TypeOK'
  BY <1>18, <1>0, <1>a DEF TypeOK, Owner, NewerClaimEnds, Lose, chunk, ticker, ghosts
<1>19. CASE UNCHANGED vars
  BY <1>19, <1>0, <1>a DEF TypeOK, Owner, vars
<1> QED
  BY <1>1, <1>2, <1>3, <1>4, <1>5, <1>6, <1>7, <1>8, <1>9, <1>10, <1>11, <1>12, <1>13,
     <1>14, <1>15, <1>16, <1>17, <1>18, <1>19 DEF Next

\* Every action keeps the ticker's schedule.
LEMMA ClockworkStep ==
    ASSUME TypeOK, Clockwork, [Next]_vars
    PROVE  Clockwork'
<1>0. /\ conf \in Configs /\ conf' = conf /\ Interval' = Interval
      /\ Interval \in Nat /\ Interval > 0 /\ conf.lease \in Nat /\ conf.skew \in Int
      /\ N \in Nat /\ N > 0 /\ Delay \in Nat /\ Second \in Nat /\ Second > 0
  BY Numbers, ConfFixed DEF TypeOK
<1>1. CASE Claim
  BY <1>1, <1>0 DEF TypeOK, Clockwork, Behind, Claim, Granted, Clock, chunk, ticker, ghosts
<1>2. CASE StartHandler
  BY <1>2, <1>0 DEF TypeOK, Clockwork, Behind, StartHandler, Clock, chunk, ticker, ghosts
<1>3. CASE ReleaseQueued
  BY <1>3, <1>0 DEF TypeOK, Clockwork, Behind, ReleaseQueued, chunk, ticker, ghosts
<1>4. CASE HandlerReturns
  BY <1>4, <1>0 DEF TypeOK, Clockwork, Behind, HandlerReturns, chunk, ticker, ghosts
<1>5. CASE CommitNext
  BY <1>5, <1>0 DEF TypeOK, Clockwork, Behind, CommitNext, Write, chunk, ticker, ghosts
<1>6. CASE TakeTick
  BY <1>6, <1>0 DEF TypeOK, Clockwork, Behind, TakeTick, chunk, ticker, ghosts
<1>7. CASE ExtendOk
  BY <1>7, <1>0 DEF TypeOK, Clockwork, Behind, ExtendOk, Renew, Advance, chunk, ticker,
     ghosts
<1>8. CASE ExtendError
  BY <1>8, <1>0 DEF TypeOK, Clockwork, Behind, ExtendError, ExtendFails, Missed, Advance,
     chunk, ticker, ghosts
<1>9. CASE ExtendUnanswered
  BY <1>9, <1>0 DEF TypeOK, Clockwork, Behind, ExtendUnanswered, ExtendFails, Renew,
     Advance, chunk, ticker, ghosts
<1>10. CASE ExtendLost
  BY <1>10, <1>0 DEF TypeOK, Clockwork, Behind, ExtendLost, Return, chunk, ticker, ghosts
<1>11. CASE ExtenderStops
  BY <1>11, <1>0 DEF TypeOK, Clockwork, Behind, ExtenderStops, Return, chunk, ticker, ghosts
<1>12. CASE AttemptTimesOut
  BY <1>12, <1>0 DEF TypeOK, Clockwork, Behind, AttemptTimesOut, chunk, ticker, ghosts
<1>13. CASE Shutdown
  BY <1>13, <1>0 DEF TypeOK, Clockwork, Behind, Shutdown, chunk, ticker, ghosts
<1>14. CASE Tick
  BY <1>14, <1>0 DEF TypeOK, Clockwork, Behind, Tick, chunk, ticker, ghosts
<1>15. ASSUME NEW k \in Msg, Flush(k) PROVE Clockwork'
  BY <1>15, <1>0 DEF TypeOK, Clockwork, Behind, Flush, Write, chunk, ticker, ghosts
<1>16. ASSUME NEW k \in Msg, ReclaimExpired(k) PROVE Clockwork'
  BY <1>16, <1>0 DEF TypeOK, Clockwork, Behind, ReclaimExpired, Lose, chunk, ticker, ghosts
<1>17. ASSUME NEW k \in Msg, ClaimAgain(k) PROVE Clockwork'
  BY <1>17, <1>0 DEF TypeOK, Clockwork, Behind, ClaimAgain, chunk, ticker, ghosts
<1>18. ASSUME NEW k \in Msg, NewerClaimEnds(k) PROVE Clockwork'
  BY <1>18, <1>0 DEF TypeOK, Clockwork, Behind, NewerClaimEnds, Lose, chunk, ticker, ghosts
<1>19. CASE UNCHANGED vars
  BY <1>19, <1>0 DEF TypeOK, Clockwork, Behind, vars
<1> QED
  BY <1>1, <1>2, <1>3, <1>4, <1>5, <1>6, <1>7, <1>8, <1>9, <1>10, <1>11, <1>12, <1>13,
     <1>14, <1>15, <1>16, <1>17, <1>18, <1>19 DEF Next

\* Every action keeps the leases ahead of the ticker.
LEMMA CoveredStep ==
    ASSUME TypeOK, Clockwork, Covered, [Next]_vars
    PROVE  Covered'
<1>0. /\ conf \in Configs /\ conf' = conf /\ Interval' = Interval
      /\ Interval \in Nat /\ Interval > 0 /\ conf.lease \in Nat /\ conf.skew \in Int
      /\ N \in Nat /\ N > 0 /\ Delay \in Nat /\ Second \in Nat /\ Second > 0
  BY Numbers, ConfFixed DEF TypeOK
<1>a. \A i \in Msg : i \in Nat /\ 1 <= i /\ i <= N
  BY <1>0 DEF Msg
<1>1. CASE Claim
  BY <1>1, <1>0, <1>a DEF TypeOK, Clockwork, Covered, Behind, Pend, Claim, chunk, ticker,
     ghosts
<1>2. CASE StartHandler
  BY <1>2, <1>0, <1>a DEF TypeOK, Clockwork, Covered, Behind, Pend, StartHandler, Clock,
     chunk, ticker, ghosts
<1>3. CASE ReleaseQueued
  BY <1>3, <1>0, <1>a DEF TypeOK, Clockwork, Covered, Behind, Pend, ReleaseQueued, chunk,
     ticker, ghosts
<1>4. CASE HandlerReturns
  BY <1>4, <1>0, <1>a DEF TypeOK, Clockwork, Covered, Behind, Pend, HandlerReturns, chunk,
     ticker, ghosts
<1>5. CASE CommitNext
  BY <1>5, <1>0, <1>a DEF TypeOK, Clockwork, Covered, Behind, Pend, CommitNext, Write,
     chunk, ticker, ghosts
<1>6. CASE TakeTick
  BY <1>6, <1>0, <1>a DEF TypeOK, Clockwork, Covered, Behind, Pend, TakeTick, chunk,
     ticker, ghosts
<1>b. ASSUME ext = "pass", Renew(pos), Advance, UNCHANGED <<owner, late, stopAt>>
      PROVE  Covered'
  <2> SUFFICES ASSUME NEW m \in Msg, owner[m] = "ours", ~late, cover'[m] >= 0
               PROVE  until'[m] - conf.skew >= next - Pend(m)' + cover'[m] /\ ext' # "off"
    BY <1>0, <1>b DEF Covered, Advance
  <2>1. ~due /\ next - Interval <= ask /\ pos \in Msg
    BY <1>b DEF Clockwork, TypeOK
  <2>2. Pend(m)' = IF m > pos THEN Interval ELSE 0
    BY <1>0, <1>a, <1>b, <2>1 DEF Pend, Advance
  <2>3. CASE m = pos
    BY <1>0, <1>a, <1>b, <2>1, <2>2, <2>3 DEF TypeOK, Renew, Advance
  <2>4. CASE m # pos
    <3>1. until'[m] = until[m] /\ cover'[m] = cover[m]
      BY <1>b, <2>4 DEF TypeOK, Renew
    <3>2. Pend(m) = Pend(m)'
      BY <1>0, <1>a, <1>b, <2>1, <2>2, <2>4 DEF Pend
    <3> QED BY <1>b, <3>1, <3>2 DEF Covered, Advance
  <2> QED BY <2>3, <2>4
<1>7. CASE ExtendOk
  BY <1>7, <1>b DEF ExtendOk
<1>8. CASE ExtendError
  BY <1>8, <1>0, <1>a DEF TypeOK, Clockwork, Covered, Behind, Pend, ExtendError,
     ExtendFails, Missed, Advance, chunk, ticker, ghosts
<1>9. CASE ExtendUnanswered
  BY <1>9, <1>b DEF ExtendUnanswered
<1>10. CASE ExtendLost
  BY <1>10, <1>0, <1>a DEF TypeOK, Clockwork, Covered, Behind, Pend, ExtendLost, Return,
     chunk, ticker, ghosts
<1>11. CASE ExtenderStops
  BY <1>11, <1>0, <1>a DEF TypeOK, Clockwork, Covered, Behind, Pend, ExtenderStops,
     Return, chunk, ticker, ghosts
<1>12. CASE AttemptTimesOut
  BY <1>12, <1>0, <1>a DEF TypeOK, Clockwork, Covered, Behind, Pend, AttemptTimesOut,
     chunk, ticker, ghosts
<1>13. CASE Shutdown
  BY <1>13, <1>0, <1>a DEF TypeOK, Clockwork, Covered, Behind, Pend, Shutdown, chunk,
     ticker, ghosts
<1>14. CASE Tick
  BY <1>14, <1>0, <1>a DEF TypeOK, Clockwork, Covered, Behind, Pend, Tick, chunk, ticker,
     ghosts
<1>15. ASSUME NEW k \in Msg, Flush(k) PROVE Covered'
  BY <1>15, <1>0, <1>a DEF TypeOK, Clockwork, Covered, Behind, Pend, Flush, Write, chunk,
     ticker, ghosts
<1>16. ASSUME NEW k \in Msg, ReclaimExpired(k) PROVE Covered'
  BY <1>16, <1>0, <1>a DEF TypeOK, Clockwork, Covered, Behind, Pend, ReclaimExpired, Lose,
     chunk, ticker, ghosts
<1>17. ASSUME NEW k \in Msg, ClaimAgain(k) PROVE Covered'
  BY <1>17, <1>0, <1>a DEF TypeOK, Clockwork, Covered, Behind, Pend, ClaimAgain, chunk,
     ticker, ghosts
<1>18. ASSUME NEW k \in Msg, NewerClaimEnds(k) PROVE Covered'
  BY <1>18, <1>0, <1>a DEF TypeOK, Clockwork, Covered, Behind, Pend, NewerClaimEnds, Lose,
     chunk, ticker, ghosts
<1>19. CASE UNCHANGED vars
  BY <1>19, <1>0, <1>a DEF TypeOK, Clockwork, Covered, Behind, Pend, vars
<1> QED
  BY <1>1, <1>2, <1>3, <1>4, <1>5, <1>6, <1>7, <1>8, <1>9, <1>10, <1>11, <1>12, <1>13,
     <1>14, <1>15, <1>16, <1>17, <1>18, <1>19 DEF Next

\* Every action keeps the time by which a loss is noticed.
LEMMA NoticingStep ==
    ASSUME TypeOK, Clockwork, Noticing, [Next]_vars
    PROVE  Noticing'
<1>0. /\ conf \in Configs /\ conf' = conf /\ Interval' = Interval
      /\ Interval \in Nat /\ Interval > 0 /\ conf.lease \in Nat /\ conf.skew \in Int
      /\ N \in Nat /\ N > 0 /\ Delay \in Nat /\ Second \in Nat /\ Second > 0
  BY Numbers, ConfFixed DEF TypeOK
<1>a. \A i \in Msg : i \in Nat /\ 1 <= i /\ i <= N
  BY <1>0 DEF Msg
<1>1. CASE Claim
  BY <1>1, <1>0, <1>a DEF TypeOK, Clockwork, Noticing, Behind, Pend, Claim, chunk, ticker,
     ghosts
<1>2. CASE StartHandler
  BY <1>2, <1>0, <1>a DEF TypeOK, Clockwork, Noticing, Behind, Pend, StartHandler, Clock,
     chunk, ticker, ghosts
<1>3. CASE ReleaseQueued
  BY <1>3, <1>0, <1>a DEF TypeOK, Clockwork, Noticing, Behind, Pend, ReleaseQueued, chunk,
     ticker, ghosts
<1>4. CASE HandlerReturns
  BY <1>4, <1>0, <1>a DEF TypeOK, Clockwork, Noticing, Behind, Pend, HandlerReturns,
     chunk, ticker, ghosts
<1>5. CASE CommitNext
  BY <1>5, <1>0, <1>a DEF TypeOK, Clockwork, Noticing, Behind, Pend, CommitNext, Write,
     chunk, ticker, ghosts
<1>6. CASE TakeTick
  BY <1>6, <1>0, <1>a DEF TypeOK, Clockwork, Noticing, Behind, Pend, TakeTick, chunk,
     ticker, ghosts
<1>7. CASE ExtendOk
  BY <1>7, <1>0, <1>a DEF TypeOK, Clockwork, Noticing, Behind, Pend, ExtendOk, Renew,
     Advance, chunk, ticker, ghosts
<1>8. CASE ExtendError
  BY <1>8, <1>0, <1>a DEF TypeOK, Clockwork, Noticing, Behind, Pend, ExtendError,
     ExtendFails, Missed, Advance, chunk, ticker, ghosts
<1>9. CASE ExtendUnanswered
  BY <1>9, <1>0, <1>a DEF TypeOK, Clockwork, Noticing, Behind, Pend, ExtendUnanswered,
     ExtendFails, Renew, Advance, chunk, ticker, ghosts
<1>10. CASE ExtendLost
  BY <1>10, <1>0, <1>a DEF TypeOK, Clockwork, Noticing, Behind, Pend, ExtendLost, Return,
     chunk, ticker, ghosts
<1>11. CASE ExtenderStops
  BY <1>11, <1>0, <1>a DEF TypeOK, Clockwork, Noticing, Behind, Pend, ExtenderStops,
     Return, chunk, ticker, ghosts
<1>12. CASE AttemptTimesOut
  BY <1>12, <1>0, <1>a DEF TypeOK, Clockwork, Noticing, Behind, Pend, AttemptTimesOut,
     chunk, ticker, ghosts
<1>13. CASE Shutdown
  BY <1>13, <1>0, <1>a DEF TypeOK, Clockwork, Noticing, Behind, Pend, Shutdown, chunk,
     ticker, ghosts
<1>14. CASE Tick
  BY <1>14, <1>0, <1>a DEF TypeOK, Clockwork, Noticing, Behind, Pend, Tick, chunk, ticker,
     ghosts
<1>15. ASSUME NEW k \in Msg, Flush(k) PROVE Noticing'
  BY <1>15, <1>0, <1>a DEF TypeOK, Clockwork, Noticing, Behind, Pend, Flush, Write, chunk,
     ticker, ghosts
<1>16. ASSUME NEW k \in Msg, ReclaimExpired(k) PROVE Noticing'
  BY <1>16, <1>0, <1>a DEF TypeOK, Clockwork, Noticing, Behind, Pend, ReclaimExpired,
     Lose, chunk, ticker, ghosts
<1>17. ASSUME NEW k \in Msg, ClaimAgain(k) PROVE Noticing'
  BY <1>17, <1>0, <1>a DEF TypeOK, Clockwork, Noticing, Behind, Pend, ClaimAgain, chunk,
     ticker, ghosts
<1>18. ASSUME NEW k \in Msg, NewerClaimEnds(k) PROVE Noticing'
  BY <1>18, <1>0, <1>a DEF TypeOK, Clockwork, Noticing, Behind, Pend, NewerClaimEnds,
     Lose, chunk, ticker, ghosts
<1>19. CASE UNCHANGED vars
  BY <1>19, <1>0, <1>a DEF TypeOK, Clockwork, Noticing, Behind, Pend, vars
<1> QED
  BY <1>1, <1>2, <1>3, <1>4, <1>5, <1>6, <1>7, <1>8, <1>9, <1>10, <1>11, <1>12, <1>13,
     <1>14, <1>15, <1>16, <1>17, <1>18, <1>19 DEF Next

\* Every action keeps an undisturbed handler covered.
LEMMA WellCoveredStep ==
    ASSUME TypeOK, Clockwork, WellCovered, [Next]_vars
    PROVE  WellCovered'
<1>0. /\ conf \in Configs /\ conf' = conf /\ Interval' = Interval
      /\ Interval \in Nat /\ Interval > 0 /\ conf.lease \in Nat /\ conf.skew \in Int
      /\ N \in Nat /\ N > 0 /\ Delay \in Nat /\ Second \in Nat /\ Second > 0
  BY Numbers, ConfFixed DEF TypeOK
<1>a. \A i \in Msg : i \in Nat /\ 1 <= i /\ i <= N
  BY <1>0 DEF Msg
<1>b. now' = now => Granted' = Granted
  BY <1>0 DEF Granted, Clock
<1>1. CASE Claim
  BY <1>1, <1>0, <1>a, <1>b DEF TypeOK, Clockwork, Undisturbed, WellCovered, Claim, ticker
<1>2. CASE StartHandler
  <2> SUFFICES ASSUME Undisturbed', NEW m \in Msg, owner'[m] = "ours"
               PROVE  cover'[m] >= Delay
    BY <1>2 DEF WellCovered, StartHandler
  <2>1. Undisturbed /\ owner[m] = "ours" /\ stage = "queued"
    BY <1>2, <1>0 DEF Undisturbed, StartHandler
  <2>2. cover'[m] = until[m] - Clock - Interval /\ until[m] = Granted
    BY <1>2, <2>1 DEF WellCovered, StartHandler
  <2>3. CASE conf.dialect = "postgres"
    <3> DEFINE q == (conf.lease \div Second) * Second
    <3>1. q \in Int
      BY <1>0
    <3>2. q - Interval >= Delay
      BY <1>0, <2>1, WholeSeconds DEF Undisturbed
    <3>3. until[m] = Clock + q
      BY <2>2, <2>3, Zenon DEF Granted
    <3> HIDE DEF q
    <3> QED BY <1>0, <2>2, <3>1, <3>2, <3>3 DEF TypeOK, Clock
  <2>4. CASE conf.dialect # "postgres"
    <3>1. conf.lease - Interval >= Delay
      BY <1>0, <2>1, WholeSeconds DEF Undisturbed
    <3>2. until[m] = now + conf.lease
      BY <2>2, <2>4, Zenon DEF Granted
    <3> QED BY <1>0, <2>1, <2>2, <3>1, <3>2 DEF TypeOK, Clock, Undisturbed
  <2> QED BY <2>3, <2>4
<1>3. CASE ReleaseQueued
  BY <1>3, <1>0, <1>a, <1>b DEF TypeOK, Undisturbed, WellCovered, ReleaseQueued, chunk,
     ticker, ghosts
<1>4. CASE HandlerReturns
  BY <1>4, <1>0, <1>a, <1>b DEF TypeOK, Undisturbed, WellCovered, HandlerReturns, chunk,
     ticker, ghosts
<1>5. CASE CommitNext
  BY <1>5, <1>0, <1>a, <1>b DEF TypeOK, Undisturbed, WellCovered, CommitNext, Write,
     chunk, ticker, ghosts
<1>6. CASE TakeTick
  BY <1>6, <1>0, <1>a, <1>b DEF TypeOK, Undisturbed, WellCovered, TakeTick, chunk, ticker,
     ghosts
<1>7. CASE ExtendOk
  <2>1. Undisturbed => conf.lease - conf.skew - Interval >= Delay
    BY <1>0, WholeSeconds DEF Undisturbed
  <2>2. ASSUME Undisturbed', NEW m \in Msg, owner'[m] = "ours"
        PROVE  /\ stage' = "queued" => until'[m] = Granted'
               /\ ext' # "off" => cover'[m] >= Delay
    <3>1. Undisturbed /\ owner[m] = "ours" /\ stage # "queued" /\ stage' = stage
      BY <1>7, <1>0, <2>2 DEF Undisturbed, Clockwork, ExtendOk, chunk
    <3>2. cover[m] >= Delay
      BY <1>7, <3>1 DEF WellCovered, ExtendOk
    <3>3. cover'[m] >= Delay
      BY <1>7, <2>1, <3>1, <3>2 DEF TypeOK, ExtendOk, Renew
    <3> QED BY <3>1, <3>3
  <2> QED BY <2>2 DEF WellCovered
<1>8. CASE ExtendError
  BY <1>8, <1>0, <1>a, <1>b DEF TypeOK, Undisturbed, WellCovered, ExtendError,
     ExtendFails, Missed, Advance, chunk, ticker, ghosts
<1>9. CASE ExtendUnanswered
  BY <1>9, <1>0, <1>a, <1>b DEF TypeOK, Undisturbed, WellCovered, ExtendUnanswered,
     ExtendFails, Renew, Advance, chunk, ticker, ghosts
<1>10. CASE ExtendLost
  BY <1>10, <1>0, <1>a, <1>b DEF TypeOK, Undisturbed, WellCovered, ExtendLost, Return,
     chunk, ticker, ghosts
<1>11. CASE ExtenderStops
  BY <1>11, <1>0, <1>a, <1>b DEF TypeOK, Undisturbed, WellCovered, ExtenderStops, Return,
     chunk, ticker, ghosts
<1>12. CASE AttemptTimesOut
  BY <1>12, <1>0, <1>a, <1>b DEF TypeOK, Undisturbed, WellCovered, AttemptTimesOut, chunk,
     ticker, ghosts
<1>13. CASE Shutdown
  BY <1>13, <1>0, <1>a, <1>b DEF TypeOK, Undisturbed, WellCovered, Shutdown, chunk,
     ticker, ghosts
<1>14. CASE Tick
  BY <1>14, <1>0, <1>a, <1>b DEF TypeOK, Undisturbed, WellCovered, Tick, chunk, ticker,
     ghosts
<1>15. ASSUME NEW k \in Msg, Flush(k) PROVE WellCovered'
  BY <1>15, <1>0, <1>a, <1>b DEF TypeOK, Undisturbed, WellCovered, Flush, Write, chunk,
     ticker, ghosts
<1>16. ASSUME NEW k \in Msg, ReclaimExpired(k) PROVE WellCovered'
  BY <1>16, <1>0, <1>a, <1>b DEF TypeOK, Undisturbed, WellCovered, ReclaimExpired, Lose,
     chunk, ticker, ghosts
<1>17. ASSUME NEW k \in Msg, ClaimAgain(k) PROVE WellCovered'
  BY <1>17, <1>0, <1>a, <1>b DEF TypeOK, Undisturbed, WellCovered, ClaimAgain, chunk,
     ticker, ghosts
<1>18. ASSUME NEW k \in Msg, NewerClaimEnds(k) PROVE WellCovered'
  BY <1>18, <1>0, <1>a, <1>b DEF TypeOK, Undisturbed, WellCovered, NewerClaimEnds, Lose,
     chunk, ticker, ghosts
<1>19. CASE UNCHANGED vars
  BY <1>19, <1>0, <1>a, <1>b DEF TypeOK, Undisturbed, WellCovered, vars
<1> QED
  BY <1>1, <1>2, <1>3, <1>4, <1>5, <1>6, <1>7, <1>8, <1>9, <1>10, <1>11, <1>12, <1>13,
     <1>14, <1>15, <1>16, <1>17, <1>18, <1>19 DEF Next

-----------------------------------------------------------------------------
\* The inductive invariant: leases stay ahead of the ticker by what `cover` says, losses
\* are noticed in time, and an undisturbed handler stays covered.
THEOREM LeaseInvariant == Spec => []LeaseInv
<1>1. Init => LeaseInv
  <2> SUFFICES ASSUME Init PROVE LeaseInv
    OBVIOUS
  <2>1. 1 \in Msg /\ \A m \in Msg : m \in Nat
    BY LeaseAssumption DEF Msg
  <2>2. TypeOK
    <3>1. /\ until \in [Msg -> Int] /\ cover \in [Msg -> Int] /\ noticeBy \in [Msg -> Nat]
          /\ owner \in [Msg -> Owner] /\ fate \in [Msg -> {"open", "sent", "written"}]
      BY DEF Init, Owner
    <3> QED BY Zenon, <2>1, <3>1 DEF Init, TypeOK
  <2> QED BY <2>1, <2>2 DEF Init, LeaseInv, Clockwork, Covered, Noticing, WellCovered
<1>2. LeaseInv /\ [Next]_vars => LeaseInv'
  BY TypeStep, ClockworkStep, CoveredStep, NoticingStep, WellCoveredStep DEF LeaseInv
<1> QED BY <1>1, <1>2, PTL DEF Spec

\* What a reclaim of a row that is still ours tells about its lease.
LEMMA ReclaimedUncovered ==
    ASSUME LeaseInv, NEW m \in Msg, ReclaimExpired(m), ~late
    PROVE  cover[m] < Delay + Unextended
<1> SUFFICES ASSUME cover[m] >= Delay + Unextended PROVE FALSE
  <2>1. Delay + Unextended \in Int /\ cover[m] \in Int
    BY LeaseAssumption DEF LeaseInv, TypeOK, Unextended
  <2> QED BY <2>1
<1>0. /\ Interval \in Nat /\ conf.skew \in Int /\ Delay \in Nat /\ now \in Nat /\ next \in Nat
      /\ stopAt \in Nat /\ until[m] \in Int /\ cover[m] \in Int /\ stopAt <= now
  BY Numbers DEF LeaseInv, TypeOK, Clockwork
<1>1. owner[m] = "ours" /\ until[m] < now + conf.skew
  BY DEF ReclaimExpired, Clock
<1>2. cover[m] >= 0
  BY <1>0 DEF Unextended
<1>3. CASE ext = "off"
  BY <1>0, <1>1, <1>2, <1>3 DEF LeaseInv, Covered, Unextended
<1>4. CASE ext # "off"
  <2>1. until[m] - conf.skew >= next - Pend(m) + cover[m] /\ cover[m] >= Delay
    BY <1>0, <1>1, <1>2, <1>4 DEF LeaseInv, Covered, Unextended
  <2>2. now <= next - Pend(m) + Delay /\ Pend(m) \in Nat
    BY <1>0, <1>4 DEF LeaseInv, Clockwork, Behind, Pend
  <2> QED BY <1>0, <1>1, <2>1, <2>2
<1> QED BY <1>3, <1>4

\* Only the reclaimer takes a row away from its claim.
LEMMA OnlyReclaimed ==
    ASSUME [Next]_vars, NEW m \in Msg, TypeOK, owner[m] = "ours", owner'[m] = "lost"
    PROVE  ReclaimExpired(m)
BY Zenon DEF Next, vars, TypeOK, Owner, Claim, StartHandler, ReleaseQueued, HandlerReturns,
   CommitNext,
       Write, TakeTick, ExtendOk, ExtendError, ExtendUnanswered, ExtendLost, ExtenderStops,
       AttemptTimesOut, Shutdown, Tick, Flush, ReclaimExpired, ClaimAgain, NewerClaimEnds, Lose

\* For every lease, clock offset and delay: as long as no pass was late, a row is reclaimed
\* only when its lease did not cover the way to the next renewal (extendBatchLoop).
THEOREM LeasesKept == Spec => LeaseKept
<1>1. LeaseInv /\ [Next]_vars =>
        [\A m \in Msg : owner[m] = "ours" /\ owner'[m] = "lost"
                          => late \/ cover[m] < Delay + Unextended]_vars
  BY ReclaimedUncovered, OnlyReclaimed DEF LeaseInv
<1> QED BY <1>1, LeaseInvariant, PTL DEF Spec, LeaseKept

\* A lease of a second or more is enough for handlers of any length, on both adapters,
\* whole seconds on Postgres included (Claim and extendBatchLoop).
THEOREM LongHandlersSafe == Spec => LongHandlersAreSafe
<1>1. ASSUME LeaseInv, [Next]_vars, Undisturbed, ext # "off", ~late, NEW m \in Msg,
             owner[m] = "ours"
      PROVE  owner'[m] # "lost"
  <2> SUFFICES ASSUME owner'[m] = "lost" PROVE FALSE
    OBVIOUS
  <2>1. cover[m] < Delay + Unextended
    BY <1>1, ReclaimedUncovered, OnlyReclaimed DEF LeaseInv
  <2>2. cover[m] >= Delay
    BY <1>1 DEF LeaseInv, WellCovered
  <2> QED BY <1>1, <2>1, <2>2, LeaseAssumption DEF LeaseInv, TypeOK, Unextended
<1>2. LeaseInv /\ [Next]_vars =>
        [/\ 3 * Delay <= Second /\ MinTick + Delay <= Second
         /\ conf.skew = 0 /\ conf.lease >= Second /\ prompt
         /\ ext # "off" /\ errors = 0 /\ ~stopped /\ ~late
         => \A m \in Msg : owner[m] = "ours" => owner'[m] # "lost"]_vars
  BY <1>1 DEF Undisturbed
<1> QED BY <1>2, LeaseInvariant, PTL DEF Spec, LongHandlersAreSafe

\* The extender of a chunk of any size notices a lost row within an interval and a pass
\* (extendBatchLoop cancels the attempt).
THEOREM LossesNoticed == Spec => []LossNoticed
<1>1. LeaseInv => LossNoticed
  <2> SUFFICES ASSUME LeaseInv, NEW m \in Msg, stage = "running", owner[m] = "lost", ~late,
                      now > noticeBy[m], ~ctxEnded
               PROVE  FALSE
    BY DEF LossNoticed
  <2>0. /\ Interval \in Nat /\ Delay \in Nat /\ now \in Nat /\ next \in Nat
        /\ noticeBy[m] \in Nat
    BY Numbers DEF LeaseInv, TypeOK
  <2>1. ext # "off" /\ next - Pend(m) + Delay <= noticeBy[m]
    BY DEF LeaseInv, Noticing
  <2>2. now <= next - Pend(m) + Delay /\ Pend(m) \in Nat
    BY <2>0, <2>1 DEF LeaseInv, Clockwork, Behind, Pend
  <2> QED BY <2>0, <2>1, <2>2
<1> QED BY <1>1, LeaseInvariant, PTL

=============================================================================
