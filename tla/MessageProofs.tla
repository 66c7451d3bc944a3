--------------------------- MODULE MessageProofs ----------------------------
(***************************************************************************)
(* Proofs about the life of a message: what its attempts come to (module   *)
(* Attempts, for every handler, attempt budget and any number of shutdowns *)
(* and lapsed leases) and what is recorded of them (module History, for    *)
(* any messages, processes and bounds).  The two share no state.           *)
(***************************************************************************)
EXTENDS Attempts, History, SequenceTheorems, WellFoundedInduction, TLAPS

-----------------------------------------------------------------------------
(* Attempts *)

\* The attempts of a row and its maximum: a row that can be claimed has an attempt left, its
\* own or one for a lease that lapsed.
Budget ==
    /\ kind \in Kinds /\ given \in Given
    /\ row = [status |-> row.status, attempt |-> row.attempt, max |-> row.max, delay |-> row.delay]
    /\ row.attempt \in Nat /\ row.max \in Nat /\ lapses \in Nat
    /\ row.attempt <= row.max + lapses
    /\ row.status \in {"CREATED", "RETRYING"} => row.attempt < row.max + lapses
    /\ row.status # "none" => row.max > 0
    /\ row.status = "HANDLING" => row.attempt > 0 /\ last = NoReply
    /\ row.status = "none" => row.attempt = 0

\* The outcome of a handler decides the row.
LEMMA ReturnStep ==
    ASSUME Budget, NEW what, NEW secs, NEW parsed, Return(what, secs, parsed)
    PROVE  /\ Budget'
           /\ row'.status = "DEAD" => what \in Permanent \/ row.attempt >= row.max
           /\ last'.what = what
<1> DEFINE err == Error(what)
           outcome == resolveOutcome(err)
           dead == "dead" \in err \/ what \in deadIf \/ Exhausted(row)
<1>1. /\ row.status = "HANDLING" /\ row.max \in Nat /\ row.attempt \in Nat
      /\ row.attempt > 0 /\ row.attempt <= row.max + lapses /\ row.max > 0 /\ lapses \in Nat
      /\ kind' = kind /\ given' = given /\ deadIf' = deadIf /\ lapses' = lapses
  BY Zenon DEF Return, Budget
<1>2. outcome \in {"success", "canceled", "retry"}
  BY DEF resolveOutcome
<1>3. /\ outcome = "success"  => row' = [row EXCEPT !.status = "SUCCESS"]
      /\ outcome = "canceled" => row' = [row EXCEPT !.status = "RETRYING", !.attempt = @ - 1,
                                                    !.delay = 0]
      /\ outcome = "retry" /\ dead => row' = [row EXCEPT !.status = "DEAD"]
      /\ outcome = "retry" /\ ~dead =>
           \E d : row' = [row EXCEPT !.status = "RETRYING", !.delay = d]
  BY Zenon DEF Return
<1>4. last'.what = what
  BY Zenon DEF Return
<1>5. Exhausted(row) <=> row.attempt >= row.max
  BY <1>1 DEF Exhausted
<1>6. "dead" \in err => what \in Permanent
  <2>1. PlainError(what) \in {Nil, {"skip"}, {"dead"}, {"after"}, {"canceled"}, {}}
        /\ (PlainError(what) = {"dead"} => what = "deadLetter")
    BY DEF PlainError, Nil
  <2>2. "dead" \in HTTPError(what) => what \in {"4xx", "badRequest"}
    BY DEF HTTPError, Nil
  <2>3. "dead" \in GRPCError(what) => what = "permanent"
    BY DEF GRPCError, Nil
  <2>4. kind \in {"plain", "http", "grpc"}
    BY AttemptsAssumption DEF Budget
  <2> QED BY <2>1, <2>2, <2>3, <2>4 DEF Error, Permanent, Nil
<1>7. what \in deadIf => what \in Permanent
  BY DEF Permanent
<1> HIDE DEF err, outcome, dead
<1>8. CASE outcome = "success"
  BY <1>1, <1>3, <1>4, <1>8 DEF Budget
<1>9. CASE outcome = "canceled"
  <2>1. row' = [status |-> "RETRYING", attempt |-> row.attempt - 1, max |-> row.max, delay |-> 0]
    BY Zenon, <1>3, <1>9 DEF Budget
  <2> QED BY <1>1, <1>4, <2>1 DEF Budget
<1>10. CASE outcome = "retry" /\ dead
  <2>1. what \in Permanent \/ row.attempt >= row.max
    BY <1>5, <1>6, <1>7, <1>10 DEF dead
  <2> QED BY <1>1, <1>3, <1>4, <1>10, <2>1 DEF Budget
<1>11. CASE outcome = "retry" /\ ~dead
  <2>1. ~(row.attempt >= row.max)
    BY <1>5, <1>11 DEF dead
  <2>2. PICK d : row' = [row EXCEPT !.status = "RETRYING", !.delay = d]
    BY Zenon, <1>3, <1>11
  <2>3. row' = [status |-> "RETRYING", attempt |-> row.attempt, max |-> row.max, delay |-> d]
    BY Zenon, <2>2 DEF Budget
  <2> QED BY <1>1, <1>4, <2>1, <2>3 DEF Budget
<1> QED BY <1>2, <1>8, <1>9, <1>10, <1>11

\* The other steps.
LEMMA OtherStep ==
    ASSUME Budget,
           Enqueue \/ Claim \/ Lapse \/ Shutdown \/ Drain \/ Restart \/ UNCHANGED vars
    PROVE  Budget' /\ (row'.status = "DEAD" => row.status = "DEAD")
<1>1. CASE Enqueue
  <2>1. row' = [status |-> "CREATED", attempt |-> row.attempt,
                max |-> IF given <= 0 THEN DefaultMax ELSE given, delay |-> row.delay]
    BY Zenon, <1>1 DEF Enqueue, Budget
  <2>2. /\ row.attempt = 0 /\ row'.max \in Nat /\ row'.max > 0
        /\ kind' = kind /\ given' = given /\ lapses' = lapses /\ lapses \in Nat
    BY <1>1, <2>1, AttemptsAssumption DEF Enqueue, Budget
  <2> QED BY <1>1, <2>1, <2>2 DEF Budget
<1>2. CASE Claim
  <2>1. row' = [status |-> "HANDLING", attempt |-> row.attempt + 1, max |-> row.max,
                delay |-> row.delay]
    BY Zenon, <1>2 DEF Claim, Budget
  <2>2. /\ row.attempt \in Nat /\ row.max \in Nat /\ lapses \in Nat /\ lapses' = lapses
        /\ row.attempt < row.max + lapses /\ row.max > 0
        /\ kind' = kind /\ given' = given /\ kind \in Kinds /\ given \in Given
    BY <1>2 DEF Claim, Budget
  <2>3. last' = NoReply
    BY <1>2 DEF Claim
  <2> HIDE DEF NoReply
  <2> QED BY <2>1, <2>2, <2>3 DEF Budget
<1>3. CASE Lapse
  <2>1. row' = [status |-> "RETRYING", attempt |-> row.attempt, max |-> row.max, delay |-> 0]
    BY Zenon, <1>3 DEF Lapse, Budget
  <2>2. /\ row.attempt \in Nat /\ row.max \in Nat /\ lapses \in Nat /\ lapses' = lapses + 1
        /\ row.attempt <= row.max + lapses /\ row.max > 0
        /\ kind' = kind /\ given' = given /\ kind \in Kinds /\ given \in Given
    BY <1>3 DEF Lapse, Budget
  <2> QED BY <2>1, <2>2 DEF Budget
<1>4. CASE Shutdown \/ Drain \/ Restart \/ UNCHANGED vars
  BY <1>4 DEF Shutdown, Drain, Restart, Budget, NoReply, vars
<1> QED BY <1>1, <1>2, <1>3, <1>4

\* The budget is kept at every step.
THEOREM BudgetInvariant == Spec => []Budget
<1>1. Init => Budget
  BY DEF Init, Budget
<1>2. Budget /\ [Next]_vars => Budget'
  BY ReturnStep, OtherStep DEF Next
<1> QED BY <1>1, <1>2, PTL DEF Spec

\* Every message gets the attempts of its row and those of its lapsed leases, and a failure
\* kills it no earlier, for any maximum, any replies and any number of shutdowns that give
\* attempts back.
THEOREM BudgetExact == Spec => BudgetIsExact
<1>1. Budget /\ [Next]_vars
      => [/\ row'.attempt <= row'.max + lapses'
          /\ Dies => last'.what \in Permanent \/ row.attempt >= row.max]_vars
  <2> SUFFICES ASSUME Budget, [Next]_vars
               PROVE  /\ row'.attempt <= row'.max + lapses'
                      /\ Dies => last'.what \in Permanent \/ row.attempt >= row.max
    OBVIOUS
  <2>1. ASSUME NEW what, NEW secs, NEW parsed, Return(what, secs, parsed)
        PROVE  Budget' /\ (Dies => last'.what \in Permanent \/ row.attempt >= row.max)
    BY <2>1, ReturnStep DEF Dies
  <2>2. ASSUME Enqueue \/ Claim \/ Lapse \/ Shutdown \/ Drain \/ Restart \/ UNCHANGED vars
        PROVE  Budget' /\ ~Dies
    BY <2>2, OtherStep DEF Dies
  <2>3. Budget' /\ (Dies => last'.what \in Permanent \/ row.attempt >= row.max)
    BY <2>1, <2>2 DEF Next
  <2> QED BY <2>3 DEF Budget
<1> QED BY <1>1, BudgetInvariant, PTL DEF Spec, BudgetIsExact

\* A handler that gives up because the draining worker cancelled its context costs the
\* message no attempt, for every kind of handler but that of handlers/grpc.
THEOREM ShutdownsBurnNothing == Spec => ShutdownBurnsNothing
<1>1. Budget /\ [Next]_vars
      => [row.status = "HANDLING" /\ last'.what = "canceled" /\ kind # "grpc" /\ stop = "drain"
          => row'.status = "RETRYING" /\ row'.attempt = row.attempt - 1]_vars
  <2> SUFFICES ASSUME Budget, [Next]_vars, row.status = "HANDLING", last'.what = "canceled",
                      kind # "grpc", stop = "drain"
               PROVE  row'.status = "RETRYING" /\ row'.attempt = row.attempt - 1
    OBVIOUS
  <2>1. ASSUME NEW secs, NEW parsed, Return("canceled", secs, parsed)
        PROVE  row'.status = "RETRYING" /\ row'.attempt = row.attempt - 1
    <3>1. Error("canceled") = {"canceled"}
      BY AttemptsAssumption DEF Error, PlainError, HTTPError, Budget
    <3>2. resolveOutcome({"canceled"}) = "canceled"
      BY DEF resolveOutcome, Nil
    <3>3. row' = [row EXCEPT !.status = "RETRYING", !.attempt = @ - 1, !.delay = 0]
      BY Zenon, <2>1, <3>1, <3>2 DEF Return
    <3> QED BY <3>3 DEF Budget
  <2>2. ASSUME Enqueue \/ Claim \/ Lapse \/ Shutdown \/ Drain \/ Restart \/ UNCHANGED vars
        PROVE  FALSE
    BY <2>2 DEF Enqueue, Claim, Lapse, Shutdown, Drain, Restart, vars, Budget, NoReply
  <2>3. ASSUME NEW what, NEW secs, NEW parsed, Return(what, secs, parsed) PROVE what = "canceled"
    BY <2>3, ReturnStep
  <2> QED BY <2>1, <2>2, <2>3 DEF Next
<1> QED BY <1>1, BudgetInvariant, PTL DEF Spec, ShutdownBurnsNothing

\* An explicit delay that fits into a Duration is what it says.
LEMMA ExplicitFits ==
    ASSUME NEW secs \in Nat, secs * Second < Top
    PROVE  Explicit(secs) = secs * Second
<1>1. Second \in Nat /\ secs * Second \in Nat
  BY AttemptsAssumption
<1>2. Top \in Int
  BY AttemptsAssumption DEF Top
<1>3. \A x, t \in Int : 0 <= x /\ x < t => ((x + t) % (2 * t)) - t = x
  OBVIOUS
<1> HIDE DEF Top
<1> QED BY <1>1, <1>2, <1>3 DEF Explicit, Wrap

\* The next attempt is never made earlier than an HTTP answer or RetryAfter asked for, for
\* every width of a Duration the delay fits into.
THEOREM RetryAfterKept == Spec => []RetryAfterHonored
<1> DEFINE Honored == last.secs \in Nat /\ RetryAfterHonored
<1>1. Init => Honored
  BY DEF Init, NoReply, RetryAfterHonored
<1>2. Budget /\ Honored /\ [Next]_vars => Honored'
  <2> SUFFICES ASSUME Budget, Honored, [Next]_vars PROVE Honored'
    OBVIOUS
  <2>1. ASSUME NEW what, NEW secs \in Nat, NEW parsed, Return(what, secs, parsed)
        PROVE  Honored'
    <3> DEFINE err == Error(what)
               explicit == "after" \in err /\ parsed
               outcome == resolveOutcome(err)
               dead == "dead" \in err \/ what \in deadIf \/ Exhausted(row)
    <3>1. /\ last'.secs = IF explicit THEN secs ELSE 0
          /\ last'.policy = (outcome = "retry" /\ ~dead /\ ~explicit)
      BY Zenon, <2>1 DEF Return
    <3>2. /\ outcome = "success"  => row' = [row EXCEPT !.status = "SUCCESS"]
          /\ outcome = "canceled" => row' = [row EXCEPT !.status = "RETRYING", !.attempt = @ - 1,
                                                        !.delay = 0]
          /\ outcome = "retry" /\ dead => row' = [row EXCEPT !.status = "DEAD"]
          /\ outcome = "retry" /\ ~dead /\ explicit =>
               row' = [row EXCEPT !.status = "RETRYING", !.delay = Explicit(secs)]
      BY Zenon, <2>1 DEF Return
    <3>3. outcome \in {"success", "canceled", "retry"}
      BY DEF resolveOutcome
    <3>4. outcome = "canceled" => ~explicit
      <4>1. outcome = "canceled" => "canceled" \in err
        BY DEF resolveOutcome
      <4>2. "canceled" \in PlainError(what) => PlainError(what) = {"canceled"}
        BY DEF PlainError, Nil
      <4>3. "canceled" \in HTTPError(what) => HTTPError(what) = {"canceled"}
        BY DEF HTTPError, Nil
      <4>4. "canceled" \notin GRPCError(what)
        BY DEF GRPCError, Nil
      <4>5. kind \in {"plain", "http", "grpc"}
        BY AttemptsAssumption DEF Budget
      <4> QED BY <4>1, <4>2, <4>3, <4>4, <4>5 DEF Error
    <3>5. row = [status |-> row.status, attempt |-> row.attempt, max |-> row.max,
                 delay |-> row.delay]
      BY DEF Budget
    <3>6. Second \in Nat
      BY AttemptsAssumption
    <3> HIDE DEF err, explicit, outcome, dead
    <3>7. CASE outcome = "canceled"
      <4>1. last'.secs = 0 /\ row'.delay = 0
        BY Zenon, <3>1, <3>2, <3>4, <3>5, <3>7
      <4> QED BY <3>6, <4>1 DEF RetryAfterHonored
    <3>8. CASE outcome = "success" \/ (outcome = "retry" /\ dead)
      <4>1. row'.status # "RETRYING" /\ last'.secs \in Nat
        BY <2>1, <3>1, <3>2, <3>5, <3>8
      <4> QED BY <4>1 DEF RetryAfterHonored
    <3>9. CASE outcome = "retry" /\ ~dead /\ ~explicit
      <4>0. last'.secs \in Nat
        BY <3>1, <3>9
      <4>1. last'.policy
        BY Zenon, <3>1, <3>9
      <4> QED BY <4>0, <4>1 DEF RetryAfterHonored
    <3>10. CASE outcome = "retry" /\ ~dead /\ explicit
      <4>1. last'.secs = secs /\ row'.delay = Explicit(secs)
        BY Zenon, <3>1, <3>2, <3>5, <3>10
      <4>2. secs * Second < Top => row'.delay >= secs * Second
        BY <3>6, <4>1, ExplicitFits
      <4> QED BY <2>1, <4>1, <4>2 DEF RetryAfterHonored
    <3> QED BY <3>3, <3>7, <3>8, <3>9, <3>10
  <2>2. ASSUME Enqueue \/ Claim PROVE Honored'
    <3>1. row'.status # "RETRYING"
      BY Zenon, <2>2 DEF Enqueue, Claim, Budget
    <3>2. last' = last \/ last' = NoReply
      BY <2>2 DEF Enqueue, Claim
    <3>3. NoReply.secs = 0
      BY DEF NoReply
    <3> QED BY <3>1, <3>2, <3>3 DEF RetryAfterHonored
  <2>3. ASSUME Shutdown \/ Drain \/ Restart \/ UNCHANGED vars PROVE Honored'
    BY <2>3 DEF Shutdown, Drain, Restart, vars, RetryAfterHonored
  <2>4. ASSUME NEW what, NEW secs \in SecsOf(what) PROVE secs \in Nat
    BY <2>4, AttemptsAssumption DEF SecsOf
  <2>5. ASSUME Lapse PROVE Honored'
    <3>1. row'.delay = 0 /\ last' = NoReply /\ NoReply.secs = 0
      BY Zenon, <2>5 DEF Lapse, Budget, NoReply
    <3>2. Second \in Nat
      BY AttemptsAssumption
    <3> QED BY <3>1, <3>2 DEF RetryAfterHonored
  <2> QED BY <2>1, <2>2, <2>3, <2>4, <2>5 DEF Next
<1> QED BY <1>1, <1>2, BudgetInvariant, PTL DEF Spec

-----------------------------------------------------------------------------
(* The retry policy.  The provers know the operator ^ by its type only: the theorem has the   *)
(* two equations that define the powers of two as a hypothesis.                              *)

\* What defines the powers of two.
PowersOfTwo == 2^0 = 1 /\ \A k \in Nat : 2^(k + 1) = 2 * 2^k

\* Powers of two are positive: the smallest exponent with another power would not be 0 nor
\* follow one with a positive power.
LEMMA PowersPositive ==
    ASSUME PowersOfTwo PROVE \A k \in Nat : 2^k \in Nat \ {0}
<1> DEFINE Bad == {k \in Nat : 2^k \notin Nat \ {0}}
<1>1. SUFFICES ASSUME Bad # {} PROVE FALSE
  OBVIOUS
<1>2. PICK k \in Bad : \A j \in Bad : ~(<<j, k>> \in OpToRel(<, Nat))
  BY Zenon, <1>1, NatLessThanWellFounded, WFMin
<1>3. k \in Nat /\ 2^k \notin Nat \ {0}
  OBVIOUS
<1>4. ASSUME k = 0 PROVE FALSE
  <2>1. 2^k = 2^0
    BY <1>4
  <2>2. 2^k = 1
    BY <2>1 DEF PowersOfTwo
  <2> QED
    BY <1>3, <2>2
<1>5. k - 1 \in Nat /\ k - 1 < k /\ (k - 1) + 1 = k
  BY <1>3, <1>4
<1>6. k - 1 \notin Bad
  BY Zenon, <1>2, <1>3, <1>5 DEF OpToRel
<1>7. 2^(k - 1) \in Nat \ {0}
  BY <1>5, <1>6
<1>8. 2^k = 2 * 2^(k - 1)
  BY <1>5 DEF PowersOfTwo
<1> QED
  BY <1>3, <1>7, <1>8

\* What the policy plans is in range, and the guard of the first conversion gives it.
LEMMA PlannedInRange ==
    ASSUME PowersOfTwo, NEW a \in Nat \ {0}
    PROVE  /\ Planned(a) \in 1..MaxDelay /\ MaxDelay \in Nat /\ Top \in Nat /\ MaxDelay < Top
           /\ \A d \in ToDuration(Base * 2^(a - 1)) :
                (IF d <= 0 \/ d > MaxDelay THEN MaxDelay ELSE d) = Planned(a)
<1> DEFINE x == Base * 2^(a - 1)
<1>1. Width - 1 \in Nat
  BY AttemptsAssumption
<1>2. a - 1 \in Nat /\ 2^(a - 1) \in Nat \ {0} /\ Top \in Nat \ {0}
  BY <1>1, PowersPositive DEF Top
<1>3. \A y, z \in Nat \ {0} : y * z \in Nat \ {0}
  OBVIOUS
<1>4. Base \in Nat \ {0} /\ MaxDelay \in Nat \ {0} /\ MaxDelay < Top
  BY <1>2, AttemptsAssumption DEF Top
<1>5. x \in Nat \ {0}
  BY <1>2, <1>3, <1>4
<1>6. Planned(a) = IF x > MaxDelay THEN MaxDelay ELSE x
  BY DEF Planned
<1> HIDE DEF x
<1>7. \A d \in ToDuration(x) : IF x < Top THEN d = x ELSE d = -Top \/ d = Top - 1
  BY DEF ToDuration
<1>8. Top \in Nat /\ MaxDelay \in Nat /\ MaxDelay >= 1 /\ MaxDelay < Top
  BY <1>2, <1>4
<1>9. Planned(a) \in 1..MaxDelay
  BY <1>5, <1>6, <1>8
<1>10. ASSUME NEW d \in ToDuration(x)
       PROVE  (IF d <= 0 \/ d > MaxDelay THEN MaxDelay ELSE d) = Planned(a)
  <2>1. CASE x < Top
    <3>1. d = x
      BY <1>7, <2>1
    <3> QED
      BY <1>5, <1>6, <1>8, <3>1
  <2>2. CASE ~(x < Top)
    <3>1. d = -Top \/ d = Top - 1
      BY <1>7, <2>2
    <3>2. Planned(a) = MaxDelay
      BY <1>5, <1>6, <1>8, <2>2
    <3>3. CASE d = -Top
      BY <1>8, <3>2, <3>3
    <3>4. CASE d = Top - 1
      BY <1>8, <3>2, <3>4
    <3> QED
      BY <3>1, <3>3, <3>4
  <2> QED
    BY <2>1, <2>2
<1> QED
  BY <1>8, <1>9, <1>10 DEF x

\* A delay of the policy is the planned one up to the jitter, or the jitter overflows.
LEMMA NextDelayBounds ==
    ASSUME PowersOfTwo, NEW a \in Nat \ {0}, NEW e \in NextDelay(a)
    PROVE  /\ e \in 0..MaxDelay
           /\ e <= (Planned(a) * (100 + Jitter)) \div 100
           /\ e >= (Planned(a) * (100 - Jitter)) \div 100 \/ JitterOverflows(a)
<1> DEFINE c == Planned(a)
           scaled(spread) == (c * (100 + spread)) \div 100
           clamp(f) == IF f < 0 THEN 0 ELSE IF f > MaxDelay THEN MaxDelay ELSE f
<1>1. /\ c \in 1..MaxDelay /\ MaxDelay \in Nat /\ Top \in Nat /\ MaxDelay < Top
      /\ \A d \in ToDuration(Base * 2^(a - 1)) :
           (IF d <= 0 \/ d > MaxDelay THEN MaxDelay ELSE d) = c
  BY PlannedInRange
<1>2. \E spread \in {-Jitter, 0, Jitter} : \E f \in ToDuration(scaled(spread)) : e = clamp(f)
  <2>1. PICK d \in ToDuration(Base * 2^(a - 1)) :
          e \in LET k == IF d <= 0 \/ d > MaxDelay THEN MaxDelay ELSE d
                IN  {IF f < 0 THEN 0 ELSE IF f > MaxDelay THEN MaxDelay ELSE f :
                       f \in UNION {ToDuration((k * (100 + spread)) \div 100) :
                                      spread \in {-Jitter, 0, Jitter}}}
    BY Zenon DEF NextDelay
  <2>2. (IF d <= 0 \/ d > MaxDelay THEN MaxDelay ELSE d) = c
    BY <1>1
  <2> HIDE DEF c
  <2>3. e \in {IF f < 0 THEN 0 ELSE IF f > MaxDelay THEN MaxDelay ELSE f :
                 f \in UNION {ToDuration((c * (100 + spread)) \div 100) :
                                spread \in {-Jitter, 0, Jitter}}}
    BY <2>1, <2>2
  <2> DEFINE scales == {-Jitter, 0, Jitter}
  <2>4. PICK f \in UNION {ToDuration(scaled(spread)) : spread \in scales} : e = clamp(f)
    BY Zenon, <2>3
  <2> HIDE DEF scaled, clamp, scales
  <2>5. \E spread \in scales : f \in ToDuration(scaled(spread))
    BY Zenon
  <2>6. \E spread \in scales : \E g \in ToDuration(scaled(spread)) : e = clamp(g)
    BY Zenon, <2>4, <2>5
  <2> QED
    BY Zenon, <2>6 DEF scales
<1>3. PICK spread \in {-Jitter, 0, Jitter} : \E f \in ToDuration(scaled(spread)) : e = clamp(f)
  BY <1>2
<1>4. PICK f \in ToDuration(scaled(spread)) : e = clamp(f)
  BY <1>3
<1>5. Jitter \in 0..100 /\ spread \in Int /\ -Jitter <= spread /\ spread <= Jitter
  BY AttemptsAssumption
<1>6. \A n \in Nat, u, v \in Int : u <= v => n * u \in Int /\ n * v \in Int /\ n * u <= n * v
  OBVIOUS
<1>7. c \in Nat /\ c >= 1 /\ c <= MaxDelay
  BY <1>1
<1> DEFINE low == c * (100 - Jitter)
           mid == c * (100 + spread)
           high == c * (100 + Jitter)
<1>8. /\ low \in Int /\ mid \in Int /\ high \in Int
      /\ 0 <= low /\ low <= mid /\ mid <= high /\ low <= 100 * c
  <2> HIDE DEF c
  <2>1. 0 <= 100 - Jitter /\ 100 - Jitter <= 100 /\ 100 - Jitter <= 100 + spread
        /\ 100 + spread <= 100 + Jitter
    BY <1>5
  <2>2. c * 0 <= low /\ low \in Int
    BY <1>5, <1>6, <1>7, <2>1
  <2>3. low <= c * 100
    BY <1>5, <1>6, <1>7, <2>1
  <2>4. low <= mid /\ mid \in Int
    BY <1>5, <1>6, <1>7, <2>1
  <2>5. mid <= high /\ high \in Int
    BY <1>5, <1>6, <1>7, <2>1
  <2> HIDE DEF low, mid, high
  <2> QED
    BY <1>7, <2>2, <2>3, <2>4, <2>5
<1>9. \A u \in Int : u \div 100 \in Int /\ 100 * (u \div 100) <= u /\ u < 100 * (u \div 100) + 100
  OBVIOUS
<1>10. f \in Int /\ (f = mid \div 100 \/ (mid \div 100 >= Top /\ f \in {-Top, Top - 1}))
  <2>1. scaled(spread) = mid \div 100
    OBVIOUS
  <2> HIDE DEF scaled, mid, c
  <2> QED
    BY <1>1, <1>4, <1>8, <1>9, <2>1 DEF ToDuration
<1>11. e = clamp(f)
  BY <1>4
<1> HIDE DEF low, mid, high, c
<1>12. /\ e \in 0..MaxDelay /\ e <= high \div 100
       /\ e >= low \div 100 \/ high \div 100 >= Top
  <2>1. CASE f = mid \div 100
    BY <1>1, <1>7, <1>8, <1>9, <1>10, <1>11, <2>1
  <2>2. CASE mid \div 100 >= Top /\ f \in {-Top, Top - 1}
    <3>1. high \div 100 >= Top /\ high \div 100 \in Int
      BY <1>1, <1>8, <1>9, <2>2
    <3> QED
      BY <1>1, <1>10, <1>11, <2>2, <3>1
  <2> QED
    BY <1>10, <2>1, <2>2
<1> QED
  BY <1>12 DEF low, high, c, JitterOverflows

\* The wait that the policy chooses is the planned one up to the jitter, at every attempt and
\* for every base, maximum and jitter: the guard of NextDelay catches the exponential that
\* overflows.  It is at least 0 and at most the maximum also where the jitter overflows.
THEOREM WaitsFollowPolicy ==
    ASSUME PowersOfTwo PROVE Spec => []WaitFollowsPolicy
<1>1. Init => WaitFollowsPolicy
  BY DEF Init, WaitFollowsPolicy
<1>2. Budget /\ WaitFollowsPolicy /\ [Next]_vars => WaitFollowsPolicy'
  <2> SUFFICES ASSUME Budget, WaitFollowsPolicy, [Next]_vars PROVE WaitFollowsPolicy'
    OBVIOUS
  <2>1. ASSUME NEW what, NEW secs, NEW parsed, Return(what, secs, parsed)
        PROVE  WaitFollowsPolicy'
    <3> DEFINE err == Error(what)
               explicit == "after" \in err /\ parsed
               outcome == resolveOutcome(err)
               dead == "dead" \in err \/ what \in deadIf \/ Exhausted(row)
    <3> SUFFICES ASSUME row'.status = "RETRYING", last'.policy
                 PROVE  /\ row'.delay \in 0..MaxDelay
                        /\ row'.delay <= (Planned(row'.attempt) * (100 + Jitter)) \div 100
                        /\ \/ row'.delay >= (Planned(row'.attempt) * (100 - Jitter)) \div 100
                           \/ JitterOverflows(row'.attempt)
      BY DEF WaitFollowsPolicy
    <3>1. outcome = "retry" /\ ~dead /\ ~explicit
      <4>1. last'.policy = (outcome = "retry" /\ ~dead /\ ~explicit)
        BY Zenon, <2>1 DEF Return
      <4> HIDE DEF outcome, dead, explicit
      <4> QED
        BY Zenon, <4>1
    <3>2. \E d \in NextDelay(row.attempt) : row' = [row EXCEPT !.status = "RETRYING", !.delay = d]
      BY Zenon, <2>1, <3>1 DEF Return
    <3>3. PICK d \in NextDelay(row.attempt) :
            row' = [row EXCEPT !.status = "RETRYING", !.delay = d]
      BY Zenon, <3>2
    <3>4. row.attempt \in Nat \ {0}
      <4>1. row.status = "HANDLING"
        BY Zenon, <2>1 DEF Return
      <4> QED
        BY <4>1 DEF Budget
    <3>5. row' = [status |-> "RETRYING", attempt |-> row.attempt, max |-> row.max, delay |-> d]
      BY Zenon, <3>3 DEF Budget
    <3>6. row'.delay = d /\ row'.attempt = row.attempt
      BY <3>5
    <3> QED
      BY <3>4, <3>6, NextDelayBounds
  <2>2. ASSUME Enqueue \/ Claim PROVE WaitFollowsPolicy'
    <3>1. row'.status # "RETRYING"
      BY Zenon, <2>2 DEF Enqueue, Claim, Budget
    <3> QED
      BY <3>1 DEF WaitFollowsPolicy
  <2>3. ASSUME Shutdown \/ Drain \/ Restart \/ UNCHANGED vars PROVE WaitFollowsPolicy'
    BY <2>3 DEF Shutdown, Drain, Restart, vars, WaitFollowsPolicy
  <2>4. ASSUME Lapse PROVE WaitFollowsPolicy'
    <3>1. last' = NoReply
      BY Zenon, <2>4 DEF Lapse, Budget
    <3>2. NoReply.policy = FALSE
      BY DEF NoReply
    <3> QED
      BY <3>1, <3>2 DEF WaitFollowsPolicy
  <2> QED
    BY <2>1, <2>2, <2>3, <2>4 DEF Next
<1> QED
  BY <1>1, <1>2, BudgetInvariant, PTL DEF Spec

-----------------------------------------------------------------------------
(* History *)

HistoryRow == [to : To, attempt : Int]

HistoryTypes ==
    /\ status \in [Msg -> To] /\ attempt \in [Msg -> Int]
    /\ hist \in [Msg -> Seq(HistoryRow)]
    /\ pc \in [Proc -> {"idle", "claimed", "holding", "calling"}]
    /\ mine \in [Proc -> SUBSET [msg : Msg, attempt : Int]]
    /\ call \in [Proc -> SUBSET [msg : Msg, attempt : Int]]
    /\ op \in [Proc -> Op] /\ snap \in [Proc -> [Msg -> Nat]]

\* A call is about copies its process has.
Calls ==
    \A p \in Proc :
        /\ call[p] \subseteq mine[p]
        /\ pc[p] # "calling" => call[p] = {}
        /\ pc[p] = "claimed" => op[p] \in {"claim", "requeue"}
        /\ pc[p] = "calling" => op[p] # "none"

\* Undisturbed, the copies are those of the rows' claims, no message has two, and what a
\* running call has seen of the history of its messages is all there is.
Orderly ==
    /\ refused = {}
    /\ \A p \in Proc : \A c \in mine[p] : Fenced(c)
    /\ \A p, q \in Proc : p # q => Msgs(mine[p]) \cap Msgs(mine[q]) = {}
    /\ \A p \in Proc : \A c \in call[p] : snap[p][c.msg] = Len(hist[c.msg])

HistoryInv == HistoryTypes /\ Calls /\ SettledIsRecorded /\ (~disturbed => Orderly)

\* Rows are only added at the end.
LEMMA RowsAdded ==
    ASSUME NEW s \in Seq(HistoryRow), NEW t \in Seq(HistoryRow)
    PROVE  /\ s \o t \in Seq(HistoryRow)
           /\ Len(s \o t) = Len(s) + Len(t) /\ Len(s) \in Nat /\ Len(t) \in Nat
           /\ \A i \in DOMAIN s : i \in DOMAIN (s \o t) /\ (s \o t)[i] = s[i]
           /\ \A j \in DOMAIN t : Len(s) + j \in DOMAIN (s \o t) /\ (s \o t)[Len(s) + j] = t[j]
           /\ \A i \in DOMAIN (s \o t) : i \in DOMAIN s \/ \E j \in DOMAIN t : i = Len(s) + j
<1>1. /\ s \o t \in Seq(HistoryRow) /\ Len(s \o t) = Len(s) + Len(t)
      /\ \A i \in 1..(Len(s) + Len(t)) :
           (s \o t)[i] = IF i <= Len(s) THEN s[i] ELSE t[i - Len(s)]
  BY ConcatProperties
<1>2. /\ Len(s) \in Nat /\ Len(t) \in Nat /\ DOMAIN s = 1..Len(s) /\ DOMAIN t = 1..Len(t)
      /\ DOMAIN (s \o t) = 1..(Len(s) + Len(t))
  BY <1>1, LenProperties
<1>3. \A j \in 1..Len(t) : /\ Len(s) + j \in 1..(Len(s) + Len(t)) /\ ~(Len(s) + j <= Len(s))
                           /\ (Len(s) + j) - Len(s) = j
  BY <1>2
<1>4. ASSUME NEW i \in 1..(Len(s) + Len(t)), i \notin 1..Len(s)
      PROVE  i - Len(s) \in 1..Len(t) /\ i = Len(s) + (i - Len(s))
  BY <1>2, <1>4
<1>5. \A i \in 1..Len(s) : i \in 1..(Len(s) + Len(t)) /\ i <= Len(s)
  BY <1>2
<1>6. \A i \in DOMAIN s : i \in DOMAIN (s \o t) /\ (s \o t)[i] = s[i]
  BY <1>1, <1>2, <1>5
<1>7. \A j \in DOMAIN t : Len(s) + j \in DOMAIN (s \o t) /\ (s \o t)[Len(s) + j] = t[j]
  BY <1>1, <1>2, <1>3
<1>8. \A i \in DOMAIN (s \o t) : i \in DOMAIN s \/ \E j \in DOMAIN t : i = Len(s) + j
  BY Zenon, <1>2, <1>4
<1> QED
  BY <1>1, <1>2, <1>6, <1>7, <1>8

\* The rows of a call: a success only where the fence matches, and then one row; the row of
\* a death as the last one.
LEMMA RowsOfCall ==
    ASSUME HistoryTypes, NEW p \in Proc, NEW c \in [msg : Msg, attempt : Int], op[p] # "none"
    PROVE  /\ Rows(p, c) \in Seq(HistoryRow)
           /\ op[p] = "succeed" /\ Fenced(c)
                => Rows(p, c) = <<[to |-> "SUCCESS", attempt |-> c.attempt]>>
           /\ ~(op[p] = "succeed" /\ Fenced(c))
                => \A j \in DOMAIN Rows(p, c) : Rows(p, c)[j].to # "SUCCESS"
           /\ op[p] = "dead" /\ Fenced(c)
                => \E j \in DOMAIN Rows(p, c) :
                      Rows(p, c)[j] = [to |-> "DEAD", attempt |-> c.attempt]
<1>1. ASSUME NEW b \in BOOLEAN, NEW to \in To, NEW a \in Int
      PROVE  /\ RowIf(b, to, a) \in Seq(HistoryRow)
             /\ b => RowIf(b, to, a) = <<[to |-> to, attempt |-> a]>>
             /\ ~b => RowIf(b, to, a) = <<>>
             /\ to # "SUCCESS" =>
                  \A j \in DOMAIN RowIf(b, to, a) : RowIf(b, to, a)[j].to # "SUCCESS"
  <2> DEFINE r == [to |-> to, attempt |-> a]
  <2>1. r \in HistoryRow /\ r.to = to
    BY DEF HistoryRow
  <2>2. RowIf(b, to, a) = IF b THEN <<r>> ELSE <<>>
    BY DEF RowIf
  <2> HIDE DEF r
  <2>3. <<r>> \in Seq(HistoryRow) /\ DOMAIN <<r>> = {1} /\ <<r>>[1] = r
    BY <2>1
  <2>4. <<>> \in Seq(HistoryRow) /\ DOMAIN <<>> = {}
    OBVIOUS
  <2> QED
    BY <2>1, <2>2, <2>3, <2>4 DEF r
<1>2. Fenced(c) \in BOOLEAN /\ c.attempt \in Int /\ c.attempt - 1 \in Int
  BY DEF Fenced
<1>3. ASSUME NEW to \in {"RETRYING", "DEAD"}
      PROVE  /\ FailRows(c, to) \in Seq(HistoryRow)
             /\ \A j \in DOMAIN FailRows(c, to) : FailRows(c, to)[j].to # "SUCCESS"
             /\ Fenced(c) => \E j \in DOMAIN FailRows(c, to) :
                  FailRows(c, to)[j] = [to |-> to, attempt |-> c.attempt]
  <2> DEFINE s == RowIf(TRUE, "FAILED", c.attempt)
             t == RowIf(Fenced(c), to, c.attempt)
  <2>1. s \in Seq(HistoryRow) /\ \A j \in DOMAIN s : s[j].to # "SUCCESS"
    BY Zenon, <1>1, <1>2 DEF To
  <2>2. t \in Seq(HistoryRow) /\ \A j \in DOMAIN t : t[j].to # "SUCCESS"
    <3>1. to \in To /\ to # "SUCCESS"
      BY DEF To
    <3> QED
      BY <1>1, <1>2, <3>1
  <2>3. Fenced(c) => t = <<[to |-> to, attempt |-> c.attempt]>>
    BY Zenon, <1>1, <1>2 DEF To
  <2>4. FailRows(c, to) = s \o t
    BY DEF FailRows
  <2> HIDE DEF s, t
  <2>5. \A j \in DOMAIN (s \o t) : (s \o t)[j].to # "SUCCESS"
    BY <2>1, <2>2, RowsAdded
  <2>6. ASSUME Fenced(c)
        PROVE  \E j \in DOMAIN (s \o t) : (s \o t)[j] = [to |-> to, attempt |-> c.attempt]
    <3>1. 1 \in DOMAIN t /\ t[1] = [to |-> to, attempt |-> c.attempt]
      BY <2>3, <2>6
    <3>2. Len(s) + 1 \in DOMAIN (s \o t) /\ (s \o t)[Len(s) + 1] = t[1]
      BY <2>1, <2>2, <3>1, RowsAdded
    <3> QED
      BY <3>1, <3>2
  <2> QED
    BY <2>1, <2>2, <2>4, <2>5, <2>6, RowsAdded
<1>4. CASE op[p] = "claim"
  BY Zenon, <1>1, <1>2, <1>4 DEF Rows, To
<1>5. CASE op[p] = "requeue"
  <2>1. Rows(p, c) = RowIf(TRUE, "CREATED", 0) /\ "CREATED" \in To /\ 0 \in Int
    BY <1>5 DEF Rows, To
  <2> QED
    BY Zenon, <1>1, <1>5, <2>1
<1>6. CASE op[p] = "succeed"
  BY <1>1, <1>2, <1>6 DEF Rows, SuccessRows, To
<1>7. CASE op[p] = "retry"
  BY <1>3, <1>7 DEF Rows
<1>8. CASE op[p] = "dead"
  BY <1>3, <1>8 DEF Rows
<1>9. CASE op[p] = "release"
  BY <1>1, <1>2, <1>9 DEF Rows, To
<1> QED
  BY <1>4, <1>5, <1>6, <1>7, <1>8, <1>9 DEF HistoryTypes, Op

\* The tables stay tables.
LEMMA CommitTables ==
    ASSUME NEW p, Commit(p)
    PROVE  /\ hist' = [m \in Msg |-> hist'[m]] /\ status' = [m \in Msg |-> status'[m]]
           /\ attempt' = [m \in Msg |-> attempt'[m]]
BY DEF Commit

\* A commit leaves the messages alone that its call is not about.
LEMMA CommitOthers ==
    ASSUME NEW p, Commit(p), NEW m \in Msg, m \notin Msgs(call[p])
    PROVE  hist'[m] = hist[m] /\ status'[m] = status[m] /\ attempt'[m] = attempt[m]
BY DEF Commit

\* What a commit does to one message: nothing, or what the call asks for one of its copies.
LEMMA CommitOne ==
    ASSUME HistoryTypes, Calls, NEW p \in Proc, Commit(p), NEW m \in Msg
    PROVE  \/ /\ m \notin Msgs(call[p])
              /\ hist'[m] = hist[m] /\ status'[m] = status[m] /\ attempt'[m] = attempt[m]
           \/ \E c \in call[p] :
                /\ c.msg = m /\ hist'[m] = hist[m] \o Rows(p, c)
                /\ op[p] \in DOMAIN NewStatus /\ Fenced(c) =>
                     /\ status'[m] = NewStatus[op[p]]
                     /\ attempt'[m] = IF op[p] = "release" THEN attempt[m] - 1 ELSE attempt[m]
                /\ ~(op[p] \in DOMAIN NewStatus /\ Fenced(c)) =>
                     status'[m] = status[m] /\ attempt'[m] = attempt[m]
<1> DEFINE c == CHOOSE d \in call[p] : d.msg = m
<1>1. CASE m \notin Msgs(call[p])
  BY Zenon, <1>1, CommitOthers
<1>2. CASE m \in Msgs(call[p])
  <2>1. c \in call[p] /\ c.msg = m
    BY <1>2 DEF Msgs
  <2>2. hist'[m] = hist[m] \o Rows(p, c)
    BY <1>2 DEF Commit
  <2>3. status'[m] = IF op[p] \in DOMAIN NewStatus /\ Fenced(c) THEN NewStatus[op[p]]
                                                               ELSE status[m]
    BY <1>2 DEF Commit
  <2>4. attempt'[m] = IF (op[p] \in DOMAIN NewStatus /\ Fenced(c)) /\ op[p] = "release"
                      THEN attempt[m] - 1 ELSE attempt[m]
    BY <1>2 DEF Commit
  <2> HIDE DEF c
  <2> QED
    BY <2>1, <2>2, <2>3, <2>4
<1> QED
  BY Zenon, <1>1, <1>2

\* The end of a call.
LEMMA CallEnds ==
    ASSUME HistoryTypes, Calls, NEW p \in Proc, NEW kept \in SUBSET mine[p],
           CallReturns(p, kept)
    PROVE  /\ pc' \in [Proc -> {"idle", "claimed", "holding", "calling"}]
           /\ mine' \in [Proc -> SUBSET [msg : Msg, attempt : Int]]
           /\ call' \in [Proc -> SUBSET [msg : Msg, attempt : Int]]
           /\ op' \in [Proc -> Op] /\ snap' \in [Proc -> [Msg -> Nat]]
           /\ Calls'
           /\ mine'[p] = kept /\ call'[p] = {} /\ disturbed' = disturbed
           /\ \A q \in Proc \ {p} :
                mine'[q] = mine[q] /\ call'[q] = call[q] /\ snap'[q] = snap[q]
<1>1. kept \in SUBSET [msg : Msg, attempt : Int]
  BY DEF HistoryTypes
<1>2. /\ pc' \in [Proc -> {"idle", "claimed", "holding", "calling"}]
      /\ mine' \in [Proc -> SUBSET [msg : Msg, attempt : Int]]
      /\ call' \in [Proc -> SUBSET [msg : Msg, attempt : Int]]
      /\ op' \in [Proc -> Op] /\ disturbed' = disturbed
  BY <1>1 DEF CallReturns, HistoryTypes, Op
<1>3. snap' \in [Proc -> [Msg -> Nat]]
  BY DEF CallReturns, HistoryTypes
<1>4. mine'[p] = kept /\ call'[p] = {} /\ op'[p] = "none" /\ pc'[p] \in {"idle", "holding"}
  BY DEF CallReturns, HistoryTypes
<1>5. \A q \in Proc \ {p} : /\ mine'[q] = mine[q] /\ call'[q] = call[q] /\ snap'[q] = snap[q]
                            /\ pc'[q] = pc[q] /\ op'[q] = op[q]
  BY DEF CallReturns, HistoryTypes
<1>6. Calls'
  BY <1>4, <1>5 DEF Calls
<1> QED
  BY <1>2, <1>3, <1>4, <1>5, <1>6

\* A commit writes well-formed rows, and a message becomes terminal with its row.
LEMMA CommitRecords ==
    ASSUME HistoryTypes, Calls, SettledIsRecorded, NEW p \in Proc, Commit(p), NEW m \in Msg
    PROVE  /\ hist'[m] \in Seq(HistoryRow) /\ status'[m] \in To /\ attempt'[m] \in Int
           /\ status'[m] \in {"SUCCESS", "DEAD"} =>
                \E i \in DOMAIN hist'[m] :
                   hist'[m][i] = [to |-> status'[m], attempt |-> attempt'[m]]
           /\ IF status'[m] = "SUCCESS" THEN \E i \in DOMAIN hist'[m] : Successes(m)' = {i}
                                        ELSE Successes(m)' = {}
<1>0. /\ hist[m] \in Seq(HistoryRow) /\ status[m] \in To /\ attempt[m] \in Int
      /\ status[m] \in {"SUCCESS", "DEAD"} =>
           \E i \in DOMAIN hist[m] : hist[m][i] = [to |-> status[m], attempt |-> attempt[m]]
      /\ IF status[m] = "SUCCESS" THEN \E i \in DOMAIN hist[m] : Successes(m) = {i}
                                  ELSE Successes(m) = {}
  BY Zenon DEF HistoryTypes, SettledIsRecorded
<1>1. CASE hist'[m] = hist[m] /\ status'[m] = status[m] /\ attempt'[m] = attempt[m]
  <2>1. Successes(m)' = Successes(m)
    BY <1>1 DEF Successes
  <2> QED
    BY Zenon, <1>0, <1>1, <2>1
<1>2. ASSUME NEW c \in call[p], c.msg = m, hist'[m] = hist[m] \o Rows(p, c),
             op[p] \in DOMAIN NewStatus /\ Fenced(c) =>
               /\ status'[m] = NewStatus[op[p]]
               /\ attempt'[m] = IF op[p] = "release" THEN attempt[m] - 1 ELSE attempt[m],
             ~(op[p] \in DOMAIN NewStatus /\ Fenced(c)) =>
               status'[m] = status[m] /\ attempt'[m] = attempt[m]
      PROVE  /\ hist'[m] \in Seq(HistoryRow) /\ status'[m] \in To /\ attempt'[m] \in Int
             /\ status'[m] \in {"SUCCESS", "DEAD"} =>
                  \E i \in DOMAIN hist'[m] :
                     hist'[m][i] = [to |-> status'[m], attempt |-> attempt'[m]]
             /\ IF status'[m] = "SUCCESS" THEN \E i \in DOMAIN hist'[m] : Successes(m)' = {i}
                                          ELSE Successes(m)' = {}
  <2> DEFINE s == hist[m]
             t == Rows(p, c)
  <2>1. /\ DOMAIN NewStatus = {"succeed", "retry", "dead", "release"}
        /\ NewStatus["succeed"] = "SUCCESS" /\ NewStatus["retry"] = "RETRYING"
        /\ NewStatus["dead"] = "DEAD" /\ NewStatus["release"] = "RETRYING"
    BY DEF NewStatus
  <2>2. c \in [msg : Msg, attempt : Int] /\ op[p] # "none" /\ op[p] \in Op
    BY DEF HistoryTypes, Calls, Commit
  <2>3. /\ t \in Seq(HistoryRow)
        /\ op[p] = "succeed" /\ Fenced(c) => t = <<[to |-> "SUCCESS", attempt |-> c.attempt]>>
        /\ ~(op[p] = "succeed" /\ Fenced(c)) => \A j \in DOMAIN t : t[j].to # "SUCCESS"
        /\ op[p] = "dead" /\ Fenced(c)
             => \E j \in DOMAIN t : t[j] = [to |-> "DEAD", attempt |-> c.attempt]
    BY Zenon, <2>2, RowsOfCall
  <2>4. Fenced(c) => status[m] = "HANDLING" /\ attempt[m] = c.attempt
    BY Zenon, <1>2 DEF Fenced
  <2>5. s \in Seq(HistoryRow)
    BY <1>0
  <2> HIDE DEF t, s
  <2>6. /\ s \o t \in Seq(HistoryRow) /\ Len(s) \in Nat
        /\ \A i \in DOMAIN s : i \in DOMAIN (s \o t) /\ (s \o t)[i] = s[i]
        /\ \A j \in DOMAIN t : Len(s) + j \in DOMAIN (s \o t) /\ (s \o t)[Len(s) + j] = t[j]
        /\ \A i \in DOMAIN (s \o t) : i \in DOMAIN s \/ \E j \in DOMAIN t : i = Len(s) + j
    BY <2>3, <2>5, RowsAdded
  <2>7. hist'[m] = s \o t
    BY <1>2 DEF s, t
  <2>8. hist'[m] \in Seq(HistoryRow) /\ status'[m] \in To /\ attempt'[m] \in Int
    BY SMTT(30), <1>0, <1>2, <2>1, <2>6, <2>7 DEF To
  <2>9. CASE op[p] = "succeed" /\ Fenced(c)
    <3>1. status'[m] = "SUCCESS" /\ attempt'[m] = c.attempt
      BY <1>2, <2>1, <2>4, <2>9
    <3>2. DOMAIN t = {1} /\ t[1] = [to |-> "SUCCESS", attempt |-> c.attempt]
      <4>1. t = <<[to |-> "SUCCESS", attempt |-> c.attempt]>>
        BY Zenon, <2>3, <2>9
      <4>2. \A r : DOMAIN <<r>> = {1} /\ <<r>>[1] = r
        OBVIOUS
      <4> QED
        BY Zenon, <4>1, <4>2
    <3>3. \A i \in DOMAIN s : s[i].to # "SUCCESS"
      BY <1>0, <2>4, <2>9 DEF Successes, s
    <3>4. Len(s) + 1 \in DOMAIN hist'[m] /\ hist'[m][Len(s) + 1] = t[1]
      BY <2>6, <2>7, <3>2
    <3>5. Successes(m)' = {Len(s) + 1}
      <4>1. ASSUME NEW i \in DOMAIN hist'[m], hist'[m][i].to = "SUCCESS" PROVE i = Len(s) + 1
        BY <2>6, <2>7, <3>2, <3>3, <4>1
      <4>2. t[1].to = "SUCCESS"
        BY <3>2
      <4> QED
        BY <3>4, <4>1, <4>2 DEF Successes
    <3> QED
      BY <2>8, <3>1, <3>2, <3>4, <3>5
  <2>10. CASE ~(op[p] = "succeed" /\ Fenced(c))
    <3>1. status'[m] = "SUCCESS" => status[m] = "SUCCESS" /\ attempt'[m] = attempt[m]
      BY <1>2, <2>1, <2>10
    <3>2. status[m] = "SUCCESS" => status'[m] = "SUCCESS"
      BY <1>2, <2>4
    <3>3. Successes(m)' = Successes(m)
      <4>1. Successes(m) = {i \in DOMAIN s : s[i].to = "SUCCESS"}
        BY DEF Successes, s
      <4>2. Successes(m)' = {i \in DOMAIN (s \o t) : (s \o t)[i].to = "SUCCESS"}
        BY <2>7 DEF Successes
      <4>3. ASSUME NEW i \in DOMAIN (s \o t), (s \o t)[i].to = "SUCCESS"
            PROVE  i \in DOMAIN s /\ s[i].to = "SUCCESS"
        BY <2>3, <2>6, <2>10, <4>3
      <4> QED
        BY <2>6, <4>1, <4>2, <4>3
    <3>4. IF status'[m] = "SUCCESS" THEN \E i \in DOMAIN hist'[m] : Successes(m)' = {i}
                                    ELSE Successes(m)' = {}
      BY <1>0, <2>6, <2>7, <3>1, <3>2, <3>3 DEF s
    <3>5. CASE op[p] = "dead" /\ Fenced(c)
      <4>1. status'[m] = "DEAD" /\ attempt'[m] = c.attempt
        BY <1>2, <2>1, <2>4, <3>5
      <4>2. PICK j \in DOMAIN t : t[j] = [to |-> "DEAD", attempt |-> c.attempt]
        BY <2>3, <3>5
      <4>3. Len(s) + j \in DOMAIN hist'[m] /\ hist'[m][Len(s) + j] = t[j]
        BY <2>6, <2>7
      <4> QED
        BY <2>8, <3>4, <4>1, <4>2, <4>3
    <3>6. CASE ~(op[p] = "dead" /\ Fenced(c))
      <4>1. status'[m] \in {"SUCCESS", "DEAD"}
              => status'[m] = status[m] /\ attempt'[m] = attempt[m]
        BY <1>2, <2>1, <2>10, <3>6
      <4>2. ASSUME status'[m] \in {"SUCCESS", "DEAD"}
            PROVE  \E i \in DOMAIN hist'[m] :
                      hist'[m][i] = [to |-> status'[m], attempt |-> attempt'[m]]
        <5>1. PICK i \in DOMAIN s : s[i] = [to |-> status[m], attempt |-> attempt[m]]
          BY <1>0, <4>1, <4>2 DEF s
        <5>2. i \in DOMAIN hist'[m] /\ hist'[m][i] = s[i]
          BY <2>6, <2>7
        <5> QED
          BY <4>1, <4>2, <5>1, <5>2
      <4> QED
        BY <2>8, <3>4, <4>2
    <3> QED
      BY <3>5, <3>6
  <2> QED
    BY <2>9, <2>10
<1> QED
  BY Zenon, <1>1, <1>2, CommitOne

\* What is recorded stays so while neither the history nor a terminal message changes.
LEMMA RecordedKept ==
    ASSUME SettledIsRecorded, hist' = hist,
           \A m \in Msg : \/ status'[m] = status[m] /\ attempt'[m] = attempt[m]
                          \/ status[m] # "SUCCESS" /\ status'[m] \notin {"SUCCESS", "DEAD"}
    PROVE  SettledIsRecorded'
<1> SUFFICES ASSUME NEW m \in Msg
             PROVE  /\ status'[m] \in {"SUCCESS", "DEAD"} =>
                         \E i \in DOMAIN hist'[m] :
                            hist'[m][i] = [to |-> status'[m], attempt |-> attempt'[m]]
                    /\ IF status'[m] = "SUCCESS"
                       THEN \E i \in DOMAIN hist'[m] : Successes(m)' = {i}
                       ELSE Successes(m)' = {}
  BY DEF SettledIsRecorded
<1>1. Successes(m)' = Successes(m)
  BY DEF Successes
<1>2. CASE status'[m] = status[m] /\ attempt'[m] = attempt[m]
  BY <1>1, <1>2 DEF SettledIsRecorded
<1>3. CASE status[m] # "SUCCESS" /\ status'[m] \notin {"SUCCESS", "DEAD"}
  BY Zenon, <1>1, <1>3 DEF SettledIsRecorded
<1> QED
  BY <1>2, <1>3

\* The claim statement takes rows nobody has a copy of, in undisturbed operation.
LEMMA ClaimBatchStep ==
    ASSUME HistoryInv, NEW p \in Proc, ClaimBatch(p)
    PROVE  HistoryInv'
<1> USE DEF HistoryInv
<1>1. PICK S \in SUBSET Claimable :
        /\ status' = [m \in Msg |-> IF m \in S THEN "HANDLING" ELSE status[m]]
        /\ attempt' = [m \in Msg |-> IF m \in S THEN attempt[m] + 1 ELSE attempt[m]]
        /\ mine' = [mine EXCEPT ![p] = {[msg |-> m, attempt |-> attempt[m] + 1] : m \in S}]
  BY Zenon DEF ClaimBatch
<1>2. /\ pc[p] = "idle" /\ pc' = [pc EXCEPT ![p] = "claimed"]
      /\ op' = [op EXCEPT ![p] = "claim"]
      /\ UNCHANGED <<hist, call, snap, disturbed, refused>>
  BY DEF ClaimBatch
<1>3. S \subseteq Msg /\ \A m \in S : status[m] \in Pending
  BY DEF Claimable
<1> DEFINE new == {[msg |-> m, attempt |-> attempt[m] + 1] : m \in S}
<1>4. \A c \in new : c.msg \in S /\ c.attempt = attempt[c.msg] + 1
  OBVIOUS
<1>5. new \subseteq [msg : Msg, attempt : Int] /\ Msgs(new) = S
  <2>1. \A m \in S : m \in Msg /\ attempt[m] + 1 \in Int
    BY <1>3 DEF HistoryTypes
  <2>2. new \subseteq [msg : Msg, attempt : Int]
    BY <2>1
  <2>3. ASSUME NEW m \in S PROVE m \in Msgs(new)
    <3>1. [msg |-> m, attempt |-> attempt[m] + 1] \in new
      OBVIOUS
    <3>2. [msg |-> m, attempt |-> attempt[m] + 1].msg = m
      OBVIOUS
    <3> HIDE DEF new
    <3> QED
      BY <3>1, <3>2 DEF Msgs
  <2> HIDE DEF new
  <2> QED
    BY <1>4, <2>2, <2>3 DEF Msgs
<1>6. mine'[p] = new /\ \A q \in Proc \ {p} : mine'[q] = mine[q]
  BY <1>1 DEF HistoryTypes
<1> HIDE DEF new
<1>7. HistoryTypes'
  <2>1. mine' \in [Proc -> SUBSET [msg : Msg, attempt : Int]]
    BY <1>1, <1>5 DEF HistoryTypes, new
  <2>2. status' \in [Msg -> To]
    BY <1>1 DEF HistoryTypes, To
  <2>3. attempt' \in [Msg -> Int]
    BY SMTT(30), <1>1 DEF HistoryTypes
  <2> QED
    BY Zenon, <1>2, <2>1, <2>3, <2>2 DEF HistoryTypes, Op
<1>8. Calls'
  BY <1>2, <1>6 DEF Calls, HistoryTypes
<1>9. SettledIsRecorded'
  <2>1. \A m \in Msg : \/ status'[m] = status[m] /\ attempt'[m] = attempt[m]
                       \/ status[m] # "SUCCESS" /\ status'[m] \notin {"SUCCESS", "DEAD"}
    BY <1>1, <1>3 DEF Pending
  <2> QED
    BY <1>2, <2>1, RecordedKept
<1>10. ASSUME ~disturbed PROVE Orderly'
  <2>1. \A q \in Proc : \A c \in mine[q] : c.msg \notin S
    BY <1>3, <1>10 DEF Orderly, Fenced, Pending
  <2>2. \A c \in new : Fenced(c)'
    BY <1>1, <1>3, <1>4 DEF Fenced
  <2>3. ASSUME NEW q \in Proc, NEW c \in mine[q] PROVE Fenced(c)'
    <3>1. c.msg \in Msg /\ c.msg \notin S /\ Fenced(c)
      BY <1>10, <2>1, <2>3 DEF Orderly, HistoryTypes
    <3> QED
      BY <1>1, <3>1 DEF Fenced
  <2>4. \A q \in Proc : Msgs(mine[q]) \cap Msgs(new) = {}
    BY <1>5, <2>1 DEF Msgs
  <2>5. \A q, r \in Proc : q # r => Msgs(mine'[q]) \cap Msgs(mine'[r]) = {}
    BY <1>6, <1>10, <2>4 DEF Orderly
  <2>6. \A q \in Proc : \A c \in mine'[q] : Fenced(c)'
    BY <1>6, <2>2, <2>3
  <2> QED
    BY Zenon, <1>2, <1>10, <2>5, <2>6 DEF Orderly, Msgs
<1> QED
  BY <1>2, <1>7, <1>8, <1>9, <1>10

\* A call starts: it sees the whole history of its messages.
LEMMA SnapshotStep ==
    ASSUME HistoryInv, NEW p \in Proc, NEW o \in Op \ {"none"}, NEW C \in SUBSET mine[p],
           Snapshot(p, o, C)
    PROVE  HistoryInv'
<1> USE DEF HistoryInv
<1> DEFINE seen == [m \in Msg |-> IF m \in Msgs(C) THEN Len(hist[m]) ELSE 0]
<1>1. /\ op' = [op EXCEPT ![p] = o] /\ call' = [call EXCEPT ![p] = C]
      /\ snap' = [snap EXCEPT ![p] = seen] /\ pc' = [pc EXCEPT ![p] = "calling"]
      /\ UNCHANGED <<status, attempt, hist, mine, disturbed, refused>>
  BY DEF Snapshot
<1>2. seen \in [Msg -> Nat]
  <2>1. \A m \in Msg : Len(hist[m]) \in Nat
    BY LenProperties DEF HistoryTypes
  <2> QED
    BY <2>1
<1>3. \A c \in C : c.msg \in Msg /\ seen[c.msg] = Len(hist[c.msg])
  BY DEF HistoryTypes, Msgs
<1> HIDE DEF seen
<1>4. HistoryTypes'
  <2>1. C \in SUBSET [msg : Msg, attempt : Int]
    BY DEF HistoryTypes
  <2> QED
    BY <1>1, <1>2, <2>1 DEF HistoryTypes
<1>5. Calls'
  BY <1>1 DEF Calls, HistoryTypes
<1>6. SettledIsRecorded'
  BY <1>1, RecordedKept
<1>7. ASSUME ~disturbed PROVE Orderly'
  <2>1. \A q \in Proc : \A c \in call'[q] : snap'[q][c.msg] = Len(hist[c.msg])
    <3>1. call'[p] = C /\ snap'[p] = seen
      BY <1>1 DEF HistoryTypes
    <3>2. \A q \in Proc \ {p} : call'[q] = call[q] /\ snap'[q] = snap[q]
      BY <1>1 DEF HistoryTypes
    <3>3. \A q \in Proc : \A c \in call[q] : snap[q][c.msg] = Len(hist[c.msg])
      BY Zenon, <1>7 DEF Orderly
    <3> QED
      BY <1>3, <3>1, <3>2, <3>3
  <2>2. /\ refused = {}
        /\ \A q \in Proc : \A c \in mine[q] : Fenced(c)
        /\ \A q, r \in Proc : q # r => Msgs(mine[q]) \cap Msgs(mine[r]) = {}
    BY Zenon, <1>7 DEF Orderly
  <2>3. \A c : Fenced(c)' <=> Fenced(c)
    BY Zenon, <1>1 DEF Fenced
  <2>4. refused' = refused /\ mine' = mine /\ hist' = hist
    BY Zenon, <1>1
  <2> QED
    BY Zenon, <2>1, <2>2, <2>3, <2>4 DEF Orderly, Msgs
<1> QED
  BY <1>1, <1>4, <1>5, <1>6, <1>7

\* A call commits.  Undisturbed, the messages it writes about are nobody else's.
LEMMA CommitStep ==
    ASSUME HistoryInv, NEW p \in Proc, Commit(p)
    PROVE  HistoryInv'
<1> USE DEF HistoryInv
<1> DEFINE kept == IF op[p] = "claim" THEN mine[p] ELSE mine[p] \ call[p]
<1>1. CallReturns(p, kept) /\ kept \in SUBSET mine[p] /\ UNCHANGED refused
  BY Zenon DEF Commit
<1>2. op[p] = "claim" \/ kept = mine[p] \ call[p]
  OBVIOUS
<1> HIDE DEF kept
<1>3. \A m \in Msg :
        /\ hist'[m] \in Seq(HistoryRow) /\ status'[m] \in To /\ attempt'[m] \in Int
        /\ status'[m] \in {"SUCCESS", "DEAD"} =>
             \E i \in DOMAIN hist'[m] :
                hist'[m][i] = [to |-> status'[m], attempt |-> attempt'[m]]
        /\ IF status'[m] = "SUCCESS" THEN \E i \in DOMAIN hist'[m] : Successes(m)' = {i}
                                     ELSE Successes(m)' = {}
  BY CommitRecords
<1>4. SettledIsRecorded'
  BY <1>3 DEF SettledIsRecorded
<1>5. /\ hist' = [m \in Msg |-> hist'[m]] /\ status' = [m \in Msg |-> status'[m]]
      /\ attempt' = [m \in Msg |-> attempt'[m]]
  BY Zenon, CommitTables
<1>6. HistoryTypes' /\ Calls' /\ disturbed' = disturbed
  <2>1. /\ hist' \in [Msg -> Seq(HistoryRow)] /\ status' \in [Msg -> To]
        /\ attempt' \in [Msg -> Int]
    BY Zenon, <1>3, <1>5
  <2> QED
    BY <1>1, <2>1, CallEnds DEF HistoryTypes
<1>7. /\ mine'[p] = kept /\ call'[p] = {}
      /\ \A q \in Proc \ {p} : mine'[q] = mine[q] /\ call'[q] = call[q] /\ snap'[q] = snap[q]
  BY Zenon, <1>1, CallEnds
<1>8. ASSUME ~disturbed PROVE Orderly'
  <2>1. ASSUME NEW m \in Msg \ Msgs(call[p])
        PROVE  hist'[m] = hist[m] /\ status'[m] = status[m] /\ attempt'[m] = attempt[m]
    BY Zenon, CommitOthers
  <2>5. Orderly
    BY <1>8
  <2>6. /\ refused = {}
        /\ \A r \in Proc : \A c \in mine[r] : Fenced(c)
        /\ \A r, s \in Proc : r # s => Msgs(mine[r]) \cap Msgs(mine[s]) = {}
        /\ \A r \in Proc : \A c \in call[r] : snap[r][c.msg] = Len(hist[c.msg])
    BY Zenon, <2>5 DEF Orderly
  <2>7. \A r \in Proc : call[r] \subseteq mine[r]
    BY Zenon DEF Calls
  <2>8. \A r \in Proc : \A c \in mine[r] : c \in [msg : Msg, attempt : Int] /\ c.msg \in Msg
    <3>1. \A r \in Proc : mine[r] \in SUBSET [msg : Msg, attempt : Int]
      BY DEF HistoryTypes
    <3> QED
      BY <3>1
  <2>9. ASSUME NEW r \in Proc, NEW s \in Proc, NEW c \in mine[r], NEW d \in mine[s], c.msg = d.msg
        PROVE  r = s
    <3>1. c.msg \in Msgs(mine[r]) /\ c.msg \in Msgs(mine[s])
      BY Zenon, <2>9 DEF Msgs
    <3> QED
      BY Zenon, <2>6, <3>1
  <2> HIDE DEF HistoryInv
  <2>2. ASSUME NEW q \in Proc, NEW c \in mine'[q] PROVE Fenced(c)'
    <3>0. c \in mine[q]
      BY <1>1, <1>7, <2>2
    <3>1. c \in mine[q] /\ c.msg \in Msg /\ Fenced(c)
      BY Zenon, <2>6, <2>8, <3>0
    <3>2. CASE c.msg \notin Msgs(call[p])
      BY <2>1, <3>1, <3>2 DEF Fenced
    <3>3. CASE c.msg \in Msgs(call[p])
      <4>1. PICK d \in call[p] : d.msg = c.msg
        BY <3>3 DEF Msgs
      <4>2. d \in mine[p] /\ Fenced(d)
        BY <2>6, <2>7
      <4>3. q = p
        BY Zenon, <2>9, <3>1, <4>1, <4>2
      <4>4. c = d
        <5>1. c.attempt = d.attempt
          BY <3>1, <4>1, <4>2 DEF Fenced
        <5>2. c \in [msg : Msg, attempt : Int] /\ d \in [msg : Msg, attempt : Int]
          BY Zenon, <2>8, <3>1, <4>2
        <5> QED
          BY <4>1, <5>1, <5>2
      <4>5. op[p] = "claim"
        BY <1>2, <1>7, <2>2, <4>3, <4>4
      <4>6. status'[c.msg] = status[c.msg] /\ attempt'[c.msg] = attempt[c.msg]
        <5>1. op[p] \notin DOMAIN NewStatus
          BY <4>5 DEF NewStatus
        <5>2. HistoryTypes /\ Calls
          BY Zenon DEF HistoryInv
        <5> QED
          BY <3>1, <5>1, <5>2, CommitOne
      <4> QED
        BY <3>1, <4>6 DEF Fenced
    <3> QED
      BY <3>2, <3>3
  <2>3. \A q, r \in Proc : q # r => Msgs(mine'[q]) \cap Msgs(mine'[r]) = {}
    <3>1. \A q \in Proc : mine'[q] \subseteq mine[q]
      BY <1>1, <1>7
    <3>2. \A q \in Proc : Msgs(mine'[q]) \subseteq Msgs(mine[q])
      BY <3>1 DEF Msgs
    <3> QED
      BY Zenon, <2>6, <3>2
  <2>4. ASSUME NEW q \in Proc, NEW c \in call'[q] PROVE snap'[q][c.msg] = Len(hist'[c.msg])
    <3>1. q # p /\ c \in call[q] /\ snap'[q] = snap[q]
      BY <1>7, <2>4
    <3>2. c \in mine[q] /\ c.msg \in Msg /\ snap[q][c.msg] = Len(hist[c.msg])
      BY Zenon, <2>6, <2>7, <2>8, <3>1
    <3>3. c.msg \notin Msgs(call[p])
      BY Zenon, <2>7, <2>9, <3>1, <3>2 DEF Msgs
    <3> QED
      BY <2>1, <3>1, <3>2, <3>3
  <2> QED
    BY Zenon, <1>1, <2>2, <2>3, <2>4, <2>6 DEF Orderly, Msgs
<1> QED
  BY <1>4, <1>6, <1>8

\* A refused call; undisturbed there is none.
LEMMA RefusedStep ==
    ASSUME HistoryInv, NEW p \in Proc, Refused(p)
    PROVE  HistoryInv' /\ disturbed
<1> USE DEF HistoryInv
<1>1. PICK c \in call[p] : Taken(p, c)
  BY DEF Refused
<1>2. disturbed
  <2> SUFFICES ASSUME ~disturbed PROVE FALSE
    OBVIOUS
  <2>1. snap[p][c.msg] = Len(hist[c.msg]) /\ Len(hist[c.msg]) \in Nat
    BY LenProperties DEF Orderly, HistoryTypes
  <2> QED
    BY <1>1, <2>1 DEF Taken
<1>3. CallReturns(p, mine[p] \ call[p]) /\ UNCHANGED <<status, attempt, hist>>
  BY Zenon DEF Refused
<1>4. HistoryTypes' /\ Calls' /\ disturbed' = disturbed
  BY Zenon, <1>3, CallEnds DEF HistoryTypes
<1>5. SettledIsRecorded'
  BY Zenon, <1>3, RecordedKept
<1> QED
  BY <1>2, <1>4, <1>5

\* Requeued and reclaimed rows disturb.
LEMMA DisturbingStep ==
    ASSUME HistoryInv, NEW m \in Msg, Reclaim(m) \/ \E p \in Proc : Requeue(p, m)
    PROVE  HistoryInv'
<1> USE DEF HistoryInv
<1>1. CASE Reclaim(m)
  <2>1. /\ status[m] = "HANDLING" /\ status' = [status EXCEPT ![m] = "RETRYING"]
        /\ UNCHANGED <<attempt, hist, pc, mine, op, call, snap>> /\ disturbed' = TRUE
    BY <1>1 DEF Reclaim
  <2>2. HistoryTypes' /\ Calls'
    BY <2>1 DEF HistoryTypes, Calls, To
  <2>3. SettledIsRecorded'
    BY <2>1, RecordedKept DEF HistoryTypes
  <2> QED
    BY <2>1, <2>2, <2>3
<1>2. ASSUME NEW p \in Proc, Requeue(p, m) PROVE HistoryInv'
  <2>1. /\ pc[p] = "idle" /\ status[m] = "DEAD"
        /\ status' = [status EXCEPT ![m] = "CREATED"] /\ attempt' = [attempt EXCEPT ![m] = 0]
        /\ mine' = [mine EXCEPT ![p] = {[msg |-> m, attempt |-> 0]}]
        /\ pc' = [pc EXCEPT ![p] = "claimed"] /\ op' = [op EXCEPT ![p] = "requeue"]
        /\ UNCHANGED <<hist, call, snap>> /\ disturbed' = TRUE
    BY <1>2 DEF Requeue
  <2>2. HistoryTypes'
    <3>1. {[msg |-> m, attempt |-> 0]} \in SUBSET [msg : Msg, attempt : Int]
      OBVIOUS
    <3>2. mine' \in [Proc -> SUBSET [msg : Msg, attempt : Int]]
      BY <2>1, <3>1 DEF HistoryTypes
    <3> QED
      BY <2>1, <3>2 DEF HistoryTypes, To, Op
  <2>3. Calls'
    BY <2>1 DEF HistoryTypes, Calls
  <2>4. SettledIsRecorded'
    BY <2>1, RecordedKept DEF HistoryTypes
  <2> QED
    BY <2>1, <2>2, <2>3, <2>4
<1> QED
  BY <1>1, <1>2

\* The invariant of the history: every terminal message has the row of its end, and
\* undisturbed writers of one message follow each other.
THEOREM HistoryInvariant == HistorySpec => []HistoryInv
<1>1. HistoryInit => HistoryInv
  <2> SUFFICES ASSUME HistoryInit PROVE HistoryInv
    OBVIOUS
  <2> USE DEF HistoryInit
  <2>1. HistoryTypes
    <3>1. hist \in [Msg -> Seq(HistoryRow)]
      OBVIOUS
    <3> QED
      BY <3>1 DEF HistoryTypes, To, Op
  <2>2. Calls
    BY DEF Calls
  <2>3. SettledIsRecorded
    <3>1. \A m \in Msg : status[m] = "CREATED" /\ DOMAIN hist[m] = {}
      OBVIOUS
    <3> QED
      BY <3>1 DEF SettledIsRecorded, Successes
  <2>4. Orderly
    <3>1. \A p \in Proc : mine[p] = {} /\ call[p] = {}
      OBVIOUS
    <3> QED
      BY <3>1 DEF Orderly, Msgs
  <2> QED
    BY <2>1, <2>2, <2>3, <2>4 DEF HistoryInv
<1>2. HistoryInv /\ [HistoryNext]_historyVars => HistoryInv'
  <2> SUFFICES ASSUME HistoryInv, [HistoryNext]_historyVars PROVE HistoryInv'
    OBVIOUS
  <2>1. ASSUME NEW p \in Proc, Record(p) PROVE HistoryInv'
    <3>1. op[p] \in Op \ {"none"} /\ mine[p] \in SUBSET mine[p]
      BY <2>1 DEF Record, HistoryInv, Calls, Op
    <3> QED
      BY <2>1, <3>1, SnapshotStep DEF Record
  <2>2. ASSUME NEW p \in Proc, Settle(p) PROVE HistoryInv'
    <3>1. PICK o \in Op \ {"none"}, C \in SUBSET mine[p] : Snapshot(p, o, C)
      BY Zenon, <2>2 DEF Settle, Op
    <3> QED
      BY <3>1, SnapshotStep
  <2>3. CASE UNCHANGED historyVars
    <3>1. SettledIsRecorded'
      BY <2>3, RecordedKept DEF historyVars, HistoryInv
    <3>2. HistoryTypes'
      BY <2>3 DEF historyVars, HistoryInv, HistoryTypes
    <3>3. Calls'
      BY <2>3 DEF historyVars, HistoryInv, Calls
    <3>4. ASSUME ~disturbed' PROVE Orderly'
      <4>1. Orderly
        BY <2>3, <3>4 DEF historyVars, HistoryInv
      <4> QED
        BY <2>3, <4>1 DEF historyVars, Orderly, Fenced
    <3> QED
      BY Zenon, <3>1, <3>2, <3>3, <3>4 DEF HistoryInv
  <2> QED
    BY <2>1, <2>2, <2>3, ClaimBatchStep, CommitStep, RefusedStep, DisturbingStep
    DEF HistoryNext
<1> QED
  BY <1>1, <1>2, PTL DEF HistorySpec

\* The history tells how every terminal message ended, for any number of processes, batches
\* and stale copies.
THEOREM EndsAreRecorded == HistorySpec => []SettledIsRecorded
<1>1. HistoryInv => SettledIsRecorded
  BY DEF HistoryInv
<1> QED
  BY <1>1, HistoryInvariant, PTL

\* A duplicate seq makes a call fail only after a lease lapsed or an operator requeued.
THEOREM UndisturbedNeverRefused == HistorySpec => []RefusedOnlyAfterDisturbance
<1>1. HistoryInv => RefusedOnlyAfterDisturbance
  BY DEF HistoryInv, Orderly, RefusedOnlyAfterDisturbance
<1> QED
  BY <1>1, HistoryInvariant, PTL

=============================================================================
