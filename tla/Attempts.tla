------------------------------ MODULE Attempts ------------------------------
(***************************************************************************)
(* One message from Enqueue to its terminal status: what each kind of      *)
(* handler makes of the outside world's reply, what outcome the engine     *)
(* sees in the returned error, and how long the message waits for its next *)
(* attempt.  An error is the set of marks errors.As and errors.Is find in  *)
(* its chain.  Durations are signed integers of Width bits.                *)
(***************************************************************************)
EXTENDS Integers, FiniteSets

CONSTANTS Kinds,        \* the handlers: "plain" (user code), "http" (PostJSON), "grpc" (Unary)
          Given,        \* values of Message.MaxAttempts
          DefaultMax,   \* ClientConfig.DefaultMaxAttempts
          OptionMax,    \* WithMaxAttempts
          Base, MaxDelay, Jitter,   \* ExponentialBackoff; Jitter in percent
          Second, Width,
          Secs,         \* values of a Retry-After header, in seconds
          DeadIf,       \* predicates of WithDeadLetterIf: sets of replies taken for permanent
          MaxStops,     \* bound on worker shutdowns
          MaxLapses     \* bound on lapsed leases

ASSUME AttemptsAssumption ==
    /\ Kinds \subseteq {"plain", "http", "grpc"} /\ Given \subseteq Nat /\ Secs \subseteq Nat
    /\ {DefaultMax, OptionMax, Second} \subseteq Nat \ {0} /\ Width \in Nat \ {0, 1}
    /\ {Base, MaxDelay} \subseteq 1..(2^(Width - 1) - 1)
    /\ Jitter \in 0..100 /\ {MaxStops, MaxLapses} \subseteq Nat

VARIABLES kind,       \* the handler that is registered for the message's type
          given,      \* what the producer passed
          deadIf,     \* the registration's predicate
          row,        \* status, attempt, maxAttempts, and the delay that process_at stands for
          stop,       \* shutdown: "no", "ctx" (context cancelled), "drain" (stopping is set too)
          stops,
          lapses,     \* how often the lease of an attempt ended before the handler
          last        \* the last reply, and whether the retry policy chose the delay

vars == <<kind, given, deadIf, row, stop, stops, lapses, last>>

Top == 2^(Width - 1)
Duration == -Top..(Top - 1)
Wrap(x) == ((x + Top) % (2 * Top)) - Top

NoReply == [what |-> "none", secs |-> 0, policy |-> FALSE]

TypeOK ==
    /\ kind \in Kinds /\ given \in Given /\ deadIf \in DeadIf
    /\ stop \in {"no", "ctx", "drain"} /\ stops \in 0..MaxStops /\ lapses \in 0..MaxLapses
    /\ row \in [status : {"none", "CREATED", "RETRYING", "HANDLING", "SUCCESS", "DEAD"},
                attempt : Nat, max : Nat, delay : Duration]
    /\ row.status = "HANDLING" => row.attempt > 0
    /\ last.secs \in Secs \cup {0} /\ last.policy \in BOOLEAN

Init ==
    /\ kind \in Kinds /\ given \in Given /\ deadIf \in DeadIf
    /\ row = [status |-> "none", attempt |-> 0, max |-> 0, delay |-> 0]
    /\ stop = "no" /\ stops = 0 /\ lapses = 0
    /\ last = NoReply

\* Client.Enqueue fills in its own default.
Enqueue ==
    /\ row.status = "none"
    /\ row' = [row EXCEPT !.status = "CREATED", !.max = IF given <= 0 THEN DefaultMax ELSE given]
    /\ UNCHANGED <<kind, given, deadIf, stop, stops, lapses, last>>

Claim ==
    /\ row.status \in {"CREATED", "RETRYING"} /\ stop = "no"
    /\ row' = [row EXCEPT !.status = "HANDLING", !.attempt = @ + 1]
    /\ last' = NoReply
    /\ UNCHANGED <<kind, given, deadIf, stop, stops, lapses>>

\* The context ends; the loop notices, and drain sets stopping, only later.
Shutdown ==
    /\ stop = "no" /\ stops < MaxStops
    /\ stop' = "ctx" /\ stops' = stops + 1
    /\ UNCHANGED <<kind, given, deadIf, row, lapses, last>>

Drain ==
    /\ stop = "ctx"
    /\ stop' = "drain"
    /\ UNCHANGED <<kind, given, deadIf, row, stops, lapses, last>>

\* ReclaimExpired, when the worker died or could not extend the lease: the attempt stays
\* counted, whatever the maximum.  What its handler reports later is for the fence of module
\* Outbox.
Lapse ==
    /\ row.status = "HANDLING" /\ lapses < MaxLapses
    /\ row' = [row EXCEPT !.status = "RETRYING", !.delay = 0]
    /\ lapses' = lapses + 1
    /\ UNCHANGED <<kind, given, deadIf, stop, stops, last>>

\* The next process finds the row as the last one, or the reclaimer, has left it.
Restart ==
    /\ stop = "drain" /\ row.status # "HANDLING"
    /\ stop' = "no"
    /\ UNCHANGED <<kind, given, deadIf, row, stops, lapses, last>>

-----------------------------------------------------------------------------
\* What can come of an attempt.  "undecodable": the payload of the message, or in a batch
\* handler's chunk that of any other, is no JSON.  "canceled": the handler gave up because
\* its context was cancelled.
Replies ==
    {"undecodable"} \cup (IF stop # "no" THEN {"canceled"} ELSE {}) \cup
    CASE kind = "plain" -> {"nil", "error", "panic", "skip", "deadLetter", "retryAfter"}
      [] kind = "http"  -> {"badRequest", "transport", "2xx", "throttled", "4xx", "5xx", "other"}
      [] kind = "grpc"  -> {"OK", "permanent", "transient", "nonStatus"}

\* Replies that carry a delay (0: none).
SecsOf(what) == IF what \in {"retryAfter", "throttled", "5xx"} THEN Secs ELSE {0}

Nil == {"nil"}

\* safeInvoke around the user's function.
PlainError(what) ==
    CASE what = "nil"        -> Nil
      [] what = "skip"       -> {"skip"}
      [] what = "deadLetter" -> {"dead"}
      [] what = "retryAfter" -> {"after"}
      [] what = "canceled"   -> {"canceled"}
      [] OTHER               -> {}

\* Mutant of HTTPError: the transport error is formatted with %v.
HTTPErrorOpaque(what) ==
    CASE what = "2xx" -> Nil
      [] what \in {"4xx", "badRequest"} -> {"dead"}
      [] what \in {"throttled", "5xx"} -> {"after"}
      [] OTHER -> {}

\* PostJSON with DefaultClassifier; a cancelled request is a transport error that wraps
\* context.Canceled.
HTTPError(what) ==
    CASE what = "2xx" -> Nil
      [] what \in {"4xx", "badRequest"} -> {"dead"}
      [] what \in {"throttled", "5xx"} -> {"after"}
      [] what = "canceled" -> {"canceled"}
      [] OTHER -> {}

\* Unary with DefaultClassifier.  A cancelled call returns a status error with code
\* CANCELLED, which does not wrap context.Canceled.
GRPCError(what) ==
    CASE what = "OK" -> Nil
      [] what = "permanent" -> {"dead"}
      [] OTHER -> {}

\* wrapJSON and wrapBatchJSON around the handler.
Error(what) ==
    CASE what = "undecodable" -> {"dead"}
      [] kind = "plain" -> PlainError(what)
      [] kind = "http"  -> HTTPError(what)
      [] kind = "grpc"  -> GRPCError(what)

resolveOutcome(err) ==
    CASE err = Nil \/ "skip" \in err -> "success"
      [] "canceled" \in err /\ stop = "drain" -> "canceled"
      [] OTHER -> "retry"

-----------------------------------------------------------------------------
\* Conversion of a float64 to int64: out of range it is the smallest value on amd64 and
\* the largest on arm64.
ToDuration(x) == IF x < Top THEN {x} ELSE {-Top, Top - 1}

\* Mutant of NextDelay: the guard asks for d > maxDelay only.
NextDelayUnguarded(attempt) ==
    UNION {{IF d > MaxDelay THEN MaxDelay ELSE d} : d \in ToDuration(Base * 2^(attempt - 1))}

\* ExponentialBackoff.NextDelay: the delays that some random number gives.
NextDelay(attempt) ==
    UNION {LET c == IF d <= 0 \/ d > MaxDelay THEN MaxDelay ELSE d
           IN  {IF e < 0 THEN 0 ELSE IF e > MaxDelay THEN MaxDelay ELSE e :
                  e \in UNION {ToDuration((c * (100 + spread)) \div 100) :
                                 spread \in {-Jitter, 0, Jitter}}} :
           d \in ToDuration(Base * 2^(attempt - 1))}

\* Mutant of Exhausted: one attempt too many.
ExhaustedLate(r) == r.attempt > (IF r.max <= 0 THEN OptionMax ELSE r.max)

\* The handler's option counts for rows that carry no maximum.
Exhausted(r) == r.attempt >= (IF r.max <= 0 THEN OptionMax ELSE r.max)

\* Mutant of Explicit: the seconds are taken for nanoseconds.
ExplicitUnscaled(secs) == secs

\* The explicit delay of RetryAfter, or of parseRetryAfter.
Explicit(secs) == Wrap(secs * Second)

\* The handler returns and commitOutcome writes its outcome.  A Retry-After that is
\* missing or cannot be parsed leaves the delay to the policy.
Return(what, secs, parsed) ==
    LET err == Error(what)
        outcome == resolveOutcome(err)
        explicit == "after" \in err /\ parsed
        dead == "dead" \in err \/ what \in deadIf \/ Exhausted(row)
    IN  /\ row.status = "HANDLING"
        /\ last' = [what |-> what, secs |-> IF explicit THEN secs ELSE 0,
                    policy |-> outcome = "retry" /\ ~dead /\ ~explicit]
        /\ CASE outcome = "success"  -> row' = [row EXCEPT !.status = "SUCCESS"]
             [] outcome = "canceled" -> row' = [row EXCEPT !.status = "RETRYING", !.attempt = @ - 1,
                                                           !.delay = 0]
             [] outcome = "retry" /\ dead -> row' = [row EXCEPT !.status = "DEAD"]
             [] outcome = "retry" /\ ~dead ->
                  \E d \in (IF explicit THEN {Explicit(secs)} ELSE NextDelay(row.attempt)) :
                      row' = [row EXCEPT !.status = "RETRYING", !.delay = d]
        /\ UNCHANGED <<kind, given, deadIf, stop, stops, lapses>>

Next ==
    \/ Enqueue \/ Claim \/ Lapse \/ Shutdown \/ Drain \/ Restart
    \/ \E what \in Replies : \E secs \in SecsOf(what), parsed \in BOOLEAN :
         /\ kind = "http" \/ parsed
         /\ Return(what, secs, parsed)

Spec == Init /\ [][Next]_vars

-----------------------------------------------------------------------------
(* Properties *)

Dies == row.status # "DEAD" /\ row'.status = "DEAD"
Permanent == {"undecodable", "deadLetter", "badRequest", "4xx", "permanent"} \cup deadIf

\* A message gets the attempts of its row, and one more for every lease that lapsed, because
\* the reclaimer and the claim do not compare the attempt with the maximum.  A failure kills
\* it only when the handler knows it to be permanent or the attempts are used up, however
\* often shutdowns gave attempts back and leases lapsed in between.
BudgetIsExact ==
    [][/\ row'.attempt <= row'.max + lapses'
       /\ Dies => last'.what \in Permanent \/ row.attempt >= row.max]_vars

\* Reference for the policy: Base * 2^(attempt-1), at most MaxDelay.
Planned(attempt) == LET d == Base * 2^(attempt - 1) IN IF d > MaxDelay THEN MaxDelay ELSE d

\* The delay with the largest jitter leaves the range of a Duration.
JitterOverflows(attempt) == (Planned(attempt) * (100 + Jitter)) \div 100 >= Top

\* The wait that the policy chose is the planned one up to the jitter, and never negative or
\* beyond the maximum, at any attempt, those included whose exponential overflows.  It may be
\* shorter, down to none, if the maximum is so long that the jitter overflows: retry.go
\* guards the first conversion, not the second.
WaitFollowsPolicy ==
    row.status = "RETRYING" /\ last.policy =>
        /\ row.delay \in 0..MaxDelay
        /\ row.delay <= (Planned(row.attempt) * (100 + Jitter)) \div 100
        /\ \/ row.delay >= (Planned(row.attempt) * (100 - Jitter)) \div 100
           \/ JitterOverflows(row.attempt)

\* README.md, failure table: "inflight handlers get `ctx.Done()`, claim released without
\* burning attempt": an attempt that ends because the worker shuts down is not counted, if
\* the handler is not handlers/grpc's, whose error hides the cancellation, and does not
\* return before the loop has noticed the shutdown and drain has set stopping.
ShutdownBurnsNothing ==
    [][row.status = "HANDLING" /\ last'.what = "canceled" /\ kind # "grpc" /\ stop = "drain"
       => row'.status = "RETRYING" /\ row'.attempt = row.attempt - 1]_vars

\* handlers/http/handler.go: "Retry-After honored": the next attempt is not made earlier than
\* the answer asked for, if its nanoseconds fit into a Duration.
RetryAfterHonored ==
    row.status = "RETRYING" /\ ~last.policy /\ last.secs * Second < Top
        => row.delay >= last.secs * Second

=============================================================================
