------------------------------- MODULE Lease --------------------------------
(***************************************************************************)
(* The lease of one claimed chunk in real time: the grant of the claim,    *)
(* the wait for a pool slot, the extender's ticker (extendBatchLoop;       *)
(* extendLoop is the chunk of one), the attempt's context, the outcome     *)
(* writes and the acknowledgement buffer, against a reclaimer that goes by *)
(* the database's clock.                                                   *)
(*                                                                         *)
(* `now` is the worker's clock; the database reads now + skew.  A claim    *)
(* counts claimed_until from the database's clock on Postgres, in whole    *)
(* seconds, and from the worker's clock on MySQL; Extend counts it from    *)
(* the worker's clock on both.                                             *)
(***************************************************************************)
EXTENDS Integers

CONSTANTS N,          \* messages of the chunk
          Configs,    \* [dialect, lease, skew]: adapter, WorkerConfig.Lease, clock offset
          Second,     \* clock units of a second
          MinTick,    \* the 100 ms floor of the extender's interval
          Delay,      \* a pass is in time if it ends this long after its tick
          Horizon,    \* bound on the clock
          MaxErrors   \* bound on storage errors

Msg == 1..N
Config == [dialect : {"postgres", "mysql"}, lease : Nat \ {0}, skew : Int]

ASSUME LeaseAssumption ==
    /\ N \in Nat \ {0}
    /\ Configs \subseteq Config
    /\ Second \in Nat \ {0}
    /\ MinTick \in Nat \ {0}
    /\ Delay \in Nat
    /\ Horizon \in Nat
    /\ MaxErrors \in Nat

VARIABLES conf,      \* the configuration, fixed
          now,       \* the worker's clock
          stage,     \* where the chunk is
          outcome,   \* what is committed for every message of the chunk
          stopped,   \* parentCtx is cancelled: the worker shuts down
          ctxEnded,  \* attemptCtx is done
          until,     \* claimed_until of a row under this claim, on the database's clock
          owner,     \* whose claim the row is under
          fate,      \* the outcome of each message: not committed, in succeedCh, written
          ext,       \* the extender goroutine: "off", in its select, or in a pass
          next,      \* when the ticker fires next
          due,       \* a tick is in the ticker's channel (capacity 1)
          pos,       \* the message the pass is at
          ask,       \* the time.Now() of the pass
          errors,    \* how much of MaxErrors is used
          prompt,    \* ghost: the handler started the moment it was claimed
          late,      \* ghost: some pass did not end in time
          cover,     \* ghost: lease that will be left at the tick that renews it next,
                     \* negative while there is no claim to renew or no extender yet
          stopAt,    \* ghost: when the extender stopped
          noticeBy   \* ghost: when the loss of a lost row should be known

vars == <<conf, now, stage, outcome, stopped, ctxEnded, until, owner, fate, ext, next, due,
          pos, ask, errors, prompt, late, cover, stopAt, noticeBy>>
chunk == <<stage, outcome, fate>>
ticker == <<ext, next, due, pos, ask>>
ghosts == <<prompt, late, cover, stopAt, noticeBy>>

\* "ours": under this claim.  "again": reclaimed, then claimed by the same worker.
\* "lost": waiting, settled, or claimed by another worker.  "written": by our outcome.
\* The claimed_until of a newer claim is that claim's affair and not followed.
Owner == {"ours", "again", "lost", "written"}

TypeOK ==
    /\ conf \in Configs
    /\ now \in Nat
    /\ stage \in {"idle", "queued", "running", "committing", "ended"}
    /\ outcome \in {"none", "success", "other"}
    /\ stopped \in BOOLEAN /\ ctxEnded \in BOOLEAN
    /\ until \in [Msg -> Int]
    /\ owner \in [Msg -> Owner]
    /\ fate \in [Msg -> {"open", "sent", "written"}]
    /\ ext \in {"off", "wait", "pass"}
    /\ next \in Nat /\ due \in BOOLEAN /\ pos \in Msg /\ ask \in Nat
    /\ errors \in Nat
    /\ prompt \in BOOLEAN /\ late \in BOOLEAN
    /\ cover \in [Msg -> Int]
    /\ stopAt \in Nat /\ noticeBy \in [Msg -> Nat]

Init ==
    /\ conf \in Configs
    /\ now = 0
    /\ stage = "idle" /\ outcome = "none"
    /\ stopped = FALSE /\ ctxEnded = FALSE
    /\ until = [m \in Msg |-> 0]
    /\ owner = [m \in Msg |-> "lost"]
    /\ fate = [m \in Msg |-> "open"]
    /\ ext = "off" /\ next = 0 /\ due = FALSE /\ pos = 1 /\ ask = 0
    /\ errors = 0
    /\ prompt = FALSE /\ late = FALSE
    /\ cover = [m \in Msg |-> -1]
    /\ stopAt = 0 /\ noticeBy = [m \in Msg |-> 0]

-----------------------------------------------------------------------------
\* Mutant of Interval: the lease is renewed when it is over.
IntervalLease == IF conf.lease > MinTick THEN conf.lease ELSE MinTick

\* max(lease/3, 100ms)
Interval == IF conf.lease \div 3 > MinTick THEN conf.lease \div 3 ELSE MinTick

\* now() of the database.
Clock == now + conf.skew

\* claimed_until of a claim: int(p.Lease.Seconds()) seconds after now(), or
\* time.Now().Add(p.Lease).
Granted ==
    IF conf.dialect = "postgres" THEN Clock + (conf.lease \div Second) * Second
                                 ELSE now + conf.lease

\* Claim takes the rows of the chunk.
Claim ==
    /\ stage = "idle" /\ ~stopped
    /\ stage' = "queued"
    /\ until' = [m \in Msg |-> Granted]
    /\ owner' = [m \in Msg |-> "ours"]
    /\ prompt' = TRUE
    /\ UNCHANGED <<conf, now, outcome, stopped, ctxEnded, fate, ticker, errors, late, cover,
                   stopAt, noticeBy>>

\* The chunk has its pool slots: handler and extender start.  The select may take the
\* slot although the context is done.
StartHandler ==
    /\ stage = "queued"
    /\ stage' = "running"
    /\ ext' = "wait" /\ next' = now + Interval
    /\ cover' = [m \in Msg |-> IF owner[m] = "ours" THEN until[m] - Clock - Interval ELSE -1]
    /\ noticeBy' = [m \in Msg |-> IF owner[m] = "lost" THEN now + Interval + Delay ELSE 0]
    /\ UNCHANGED <<conf, now, outcome, stopped, ctxEnded, until, owner, fate, due, pos, ask,
                   errors, prompt, late, stopAt>>

\* Shutdown before dispatch: every message of the chunk is released.
ReleaseQueued ==
    /\ stage = "queued" /\ stopped
    /\ stage' = "committing" /\ outcome' = "other"
    /\ UNCHANGED <<conf, now, stopped, ctxEnded, until, owner, fate, ticker, errors, ghosts>>

\* The handler returns; it may have ignored its context for any length of time.
HandlerReturns ==
    /\ stage = "running"
    /\ stage' = "committing"
    /\ outcome' \in {"success", "other"}
    /\ UNCHANGED <<conf, now, stopped, ctxEnded, until, owner, fate, ticker, errors, ghosts>>

\* A write for message m lands if the fence matches, or fails and is not retried.
Write(m, matches) ==
    /\ fate' = [fate EXCEPT ![m] = "written"]
    /\ \/ /\ owner' = [owner EXCEPT ![m] = IF matches THEN "written" ELSE @]
          /\ UNCHANGED errors
       \/ /\ errors < MaxErrors
          /\ errors' = errors + 1
          /\ UNCHANGED owner

\* commitOutcome for the next message of the chunk.  A success goes to succeedCh; Fail and
\* ReleaseShutdown compare the attempt on Postgres and claimed_by on MySQL.  The last
\* one ends the goroutine, which closes extenderDone.
CommitNext ==
    /\ stage = "committing"
    /\ \E m \in Msg :
         /\ fate[m] = "open" /\ \A k \in 1..(m - 1) : fate[k] # "open"
         /\ stage' = IF m = N THEN "ended" ELSE stage
         /\ IF outcome = "success"
            THEN fate' = [fate EXCEPT ![m] = "sent"] /\ UNCHANGED <<owner, errors>>
            ELSE Write(m, \/ owner[m] = "ours"
                          \/ owner[m] = "again" /\ conf.dialect = "mysql")
    /\ UNCHANGED <<conf, now, outcome, stopped, ctxEnded, until, ticker, ghosts>>

\* The flusher writes an acknowledgement; BatchSucceed compares the attempt.
Flush(m) ==
    /\ fate[m] = "sent"
    /\ Write(m, owner[m] = "ours")
    /\ UNCHANGED <<conf, now, stage, outcome, stopped, ctxEnded, until, ticker, ghosts>>
-----------------------------------------------------------------------------
\* The extender receives a tick.  With the context done as well, the select may take
\* either; the tick's `until` is computed once for the whole pass.
TakeTick ==
    /\ ext = "wait" /\ due
    /\ ext' = "pass" /\ ask' = now /\ due' = FALSE
    /\ UNCHANGED <<conf, now, chunk, stopped, ctxEnded, until, owner, next, pos, errors, ghosts>>

\* On to the next message, or back to the select.
Advance ==
    /\ IF pos = N THEN ext' = "wait" /\ pos' = 1 /\ ask' = 0
                  ELSE pos' = pos + 1 /\ UNCHANGED <<ext, ask>>
    /\ UNCHANGED <<next, due>>

\* The extender returns and stops its ticker.
Return ==
    /\ ext' = "off" /\ next' = 0 /\ due' = FALSE /\ pos' = 1 /\ ask' = 0
    /\ stopAt' = now

\* Mutant of Renew: the lease is renewed up to the next tick.
RenewShort(m) ==
    /\ owner[m] \in {"ours", "again"}
    /\ IF owner[m] = "ours"
       THEN /\ until' = [until EXCEPT ![m] = ask + Interval]
            /\ cover' = [cover EXCEPT ![m] = conf.lease - conf.skew - Interval]
       ELSE UNCHANGED <<until, cover>>

\* The statement takes effect: it counts towards this claim if the row is still ours.
Renew(m) ==
    /\ owner[m] \in {"ours", "again"}
    /\ IF owner[m] = "ours"
       THEN /\ until' = [until EXCEPT ![m] = ask + conf.lease]
            /\ cover' = [cover EXCEPT ![m] = conf.lease - conf.skew - Interval]
       ELSE UNCHANGED <<until, cover>>

\* Extend matches a row that is HANDLING under this worker.
ExtendOk ==
    /\ ext = "pass" /\ ~stopped
    /\ Renew(pos)
    /\ Advance
    /\ UNCHANGED <<conf, now, chunk, stopped, ctxEnded, owner, errors, prompt, late, stopAt,
                   noticeBy>>

\* An error of the storage; Extend cannot but fail once parentCtx is cancelled.
ExtendFails ==
    IF stopped THEN UNCHANGED errors ELSE errors < MaxErrors /\ errors' = errors + 1

\* One more interval until the lease of m is renewed, or its loss noticed.
Missed(m) ==
    /\ cover' = [cover EXCEPT ![m] = @ - Interval]
    /\ noticeBy' = [noticeBy EXCEPT ![m] = IF owner[m] = "lost" THEN @ + Interval ELSE @]

\* Extend returned an error and had no effect: the pass goes on.
ExtendError ==
    /\ ext = "pass"
    /\ ExtendFails
    /\ Missed(pos)
    /\ Advance
    /\ UNCHANGED <<conf, now, chunk, stopped, ctxEnded, until, owner, prompt, late, stopAt>>

\* Extend took effect and its answer was lost.
ExtendUnanswered ==
    /\ ext = "pass" /\ ~stopped
    /\ ExtendFails
    /\ Renew(pos)
    /\ Advance
    /\ UNCHANGED <<conf, now, chunk, stopped, ctxEnded, owner, prompt, late, stopAt, noticeBy>>

\* Mutant of ExtendLost: a lost lease is passed over like an error.
ExtendLostSkips ==
    /\ ext = "pass" /\ ~stopped
    /\ owner[pos] \in {"lost", "written"}
    /\ Advance
    /\ UNCHANGED <<conf, now, chunk, stopped, ctxEnded, until, owner, errors, ghosts>>

\* Extend matches no row: the attempt is cancelled and the loop ends, also for the
\* messages behind this one.
ExtendLost ==
    /\ ext = "pass" /\ ~stopped
    /\ owner[pos] \in {"lost", "written"}
    /\ ctxEnded' = TRUE
    /\ Return
    /\ UNCHANGED <<conf, now, chunk, stopped, until, owner, errors, prompt, late, cover, noticeBy>>

\* done is closed or attemptCtx has ended.
ExtenderStops ==
    /\ ext = "wait"
    /\ ctxEnded \/ stage = "ended"
    /\ Return
    /\ UNCHANGED <<conf, now, chunk, stopped, ctxEnded, until, owner, errors, prompt, late, cover,
                   noticeBy>>
-----------------------------------------------------------------------------
\* The attempt's timeout; its length is not related to the lease.
AttemptTimesOut ==
    /\ stage \in {"running", "committing"} /\ ext # "off" /\ ~ctxEnded
    /\ ctxEnded' = TRUE
    /\ UNCHANGED <<conf, now, chunk, stopped, until, owner, ticker, errors, ghosts>>

Shutdown ==
    /\ ~stopped
    /\ stopped' = TRUE /\ ctxEnded' = TRUE
    /\ UNCHANGED <<conf, now, chunk, until, owner, ticker, errors, ghosts>>

\* The row leaves this worker's hands; the next tick should find out.
Lose(m) ==
    /\ owner' = [owner EXCEPT ![m] = "lost"]
    /\ until' = [until EXCEPT ![m] = 0]
    /\ cover' = [cover EXCEPT ![m] = -1]
    /\ noticeBy' = [noticeBy EXCEPT ![m] = now + Interval + Delay]
    /\ UNCHANGED <<conf, now, chunk, stopped, ctxEnded, ticker, errors, prompt, late, stopAt>>

\* Some leader's reclaim statement: claimed_until < now().
ReclaimExpired(m) ==
    /\ owner[m] = "ours" /\ fate[m] # "written"
    /\ until[m] < Clock
    /\ Lose(m)

\* The same worker's poll loop claims the reclaimed row.
ClaimAgain(m) ==
    /\ owner[m] = "lost" /\ fate[m] # "written" /\ stage # "idle" /\ ~stopped
    /\ owner' = [owner EXCEPT ![m] = "again"]
    /\ noticeBy' = [noticeBy EXCEPT ![m] = 0]
    /\ UNCHANGED <<conf, now, chunk, stopped, ctxEnded, until, ticker, errors, prompt, late,
                   cover, stopAt>>

\* The newer claim is settled or released by its own handler, or lapses in turn.
NewerClaimEnds(m) ==
    /\ owner[m] = "again" /\ fate[m] # "written"
    /\ Lose(m)

\* A tick that nobody took, or a pass that has not ended.
Behind == due \/ ext = "pass"

\* Time passes, from the claim on.  The ticker of a running extender fires on schedule,
\* and drops the tick if one is waiting already.
Tick ==
    /\ stage # "idle" /\ now < Horizon
    /\ now' = now + 1
    /\ prompt' = (prompt /\ stage # "queued")
    /\ IF ext # "off" /\ next = now + 1
       THEN due' = TRUE /\ next' = next + Interval
       ELSE UNCHANGED <<due, next>>
    /\ late' = \/ late
               \/ /\ ext # "off" /\ Behind
                  /\ now + 1 = next \/ now + 1 > next - Interval + Delay
    /\ UNCHANGED <<conf, chunk, stopped, ctxEnded, until, owner, ext, pos, ask, errors, cover,
                   stopAt, noticeBy>>

Next ==
    \/ Claim \/ StartHandler \/ ReleaseQueued \/ HandlerReturns \/ CommitNext
    \/ TakeTick \/ ExtendOk \/ ExtendError \/ ExtendUnanswered \/ ExtendLost \/ ExtenderStops
    \/ AttemptTimesOut \/ Shutdown \/ Tick
    \/ \E m \in Msg : Flush(m) \/ ReclaimExpired(m) \/ ClaimAgain(m) \/ NewerClaimEnds(m)

Spec == Init /\ [][Next]_vars

-----------------------------------------------------------------------------
(* Properties *)

\* How long the extender has been gone.
Unextended == IF ext = "off" THEN now - stopAt ELSE 0

\* How long a chunk is safe.  As long as no pass of the extender was late, a row whose
\* outcome is not written is reclaimed only after the lease had too little left: at the
\* start (after the wait for a slot), or at the last renewal, less the clocks' offset, it
\* did not cover the ticks up to the next renewal (one more for every failed Extend), one
\* pass, and the time since the extender stopped.  After a timeout, a shutdown or a lost
\* neighbour the handler goes on without extender, and acknowledgements wait without it.
LeaseKept ==
    [][\A m \in Msg : owner[m] = "ours" /\ owner'[m] = "lost"
                       => late \/ cover[m] < Delay + Unextended]_vars

\* The same in terms of the configuration, for README.md's "WithAttemptTimeout can exceed
\* the worker's Lease safely": with clocks that agree, a lease of a second or more, a slot
\* at once and passes of at most a third of a second, a handler whose Extends succeed
\* keeps its rows while the extender runs, however long it takes.
LongHandlersAreSafe ==
    [][/\ 3 * Delay <= Second /\ MinTick + Delay <= Second
       /\ conf.skew = 0 /\ conf.lease >= Second /\ prompt
       /\ ext # "off" /\ errors = 0 /\ ~stopped /\ ~late
       => \A m \in Msg : owner[m] = "ours" => owner'[m] # "lost"]_vars

\* "If the lease is lost to another worker, the in-flight attempt's ctx is cancelled": at
\* the latest one interval and one pass later, plus an interval for every failed Extend
\* of that row, in a chunk of any size.
LossNoticed ==
    \A m \in Msg :
        /\ stage = "running" /\ owner[m] = "lost" /\ ~late /\ now > noticeBy[m]
        => ctxEnded

=============================================================================
