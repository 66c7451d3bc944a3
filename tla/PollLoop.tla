------------------------------ MODULE PollLoop ------------------------------
(***************************************************************************)
(* The claim loop of one worker (engine.go, run): poll, then wait for the  *)
(* back-off timer, for a notification or for the shutdown.  Notifications  *)
(* come from the LISTEN connection through a goroutine and a channel of    *)
(* capacity one (postgres.go, Listen).  What a poll does with the messages *)
(* it claims is the subject of module Engine; module Lifecycle starts the  *)
(* loop and cancels it.                                                    *)
(***************************************************************************)
EXTENDS Naturals, FiniteSetsExt

CONSTANTS PollInterval, PollMaxBackoff, BatchSize,
          MaxRows,       \* bound on rows that become claimable
          MaxErrors      \* bound on failing Claim statements

VARIABLES pc,        \* "top", "poll", "arm", "wait" or "drain"
          currentDelay,
          timer,     \* ticks until the timer fires, while the loop waits
          notify,    \* elements in the channel
          listener,  \* "none": nil channel, "up", "closed"
          wire,      \* notifications between the database and the listener
          work,      \* claimable rows
          unseen,    \* ghost: a row was announced since the last Claim statement
          rows, errors,
          ctxDone    \* the worker's context

engine == <<pc, currentDelay, timer>>
listening == <<notify, listener, wire>>
backlog == <<work, unseen, rows, errors>>

TypeOK ==
    /\ pc \in {"top", "poll", "arm", "wait", "drain"}
    /\ {currentDelay, timer} \subseteq 0..Max({PollInterval, PollMaxBackoff})
    /\ notify \in 0..1 /\ listener \in {"none", "up", "closed"}
    /\ {wire, work, rows} \subseteq 0..MaxRows /\ errors \in 0..MaxErrors
    /\ unseen \in BOOLEAN

Init ==
    /\ pc = "top" /\ currentDelay = PollInterval /\ timer = 0
    /\ notify = 0 /\ listener = "none" /\ wire = 0
    /\ work \in 0..MaxRows /\ unseen = FALSE /\ rows = work /\ errors = 0

-----------------------------------------------------------------------------
(* The environment *)

\* A producer's transaction commits a row and its pg_notify.
CommitAndNotify ==
    /\ rows < MaxRows
    /\ rows' = rows + 1 /\ work' = work + 1
    /\ wire' = IF listener = "up" THEN wire + 1 ELSE wire
    /\ unseen' = TRUE
    /\ UNCHANGED <<engine, notify, listener, errors, ctxDone>>

\* A scheduled or retried row falls due: nobody is notified.
FallDue ==
    /\ rows < MaxRows
    /\ rows' = rows + 1 /\ work' = work + 1
    /\ UNCHANGED <<engine, listening, unseen, errors, ctxDone>>

-----------------------------------------------------------------------------
(* The listener goroutine *)

\* Mutant of Forward: an unbuffered channel, on which only a waiting loop receives.
ForwardUnbuffered ==
    /\ listener = "up" /\ wire > 0
    /\ wire' = wire - 1
    /\ notify' = IF pc = "wait" THEN 1 ELSE notify
    /\ UNCHANGED <<engine, listener, backlog, ctxDone>>

\* WaitForNotification returns; a full channel already says what it would say.
Forward ==
    /\ listener = "up" /\ wire > 0
    /\ wire' = wire - 1
    /\ notify' = 1
    /\ UNCHANGED <<engine, listener, backlog, ctxDone>>

\* A connection error or the end of the context ends it, and closes the channel.
ListenerExits ==
    /\ listener = "up"
    /\ listener' = "closed"
    /\ wire' = 0
    /\ UNCHANGED <<engine, notify, backlog, ctxDone>>

-----------------------------------------------------------------------------
(* engine.run *)

LoopTop ==
    /\ pc = "top"
    /\ pc' = IF ctxDone THEN "drain" ELSE "poll"
    /\ UNCHANGED <<currentDelay, timer, listening, backlog, ctxDone>>

Backoff(delay) == Min({2 * delay, PollMaxBackoff})

\* pollOnce returns how many rows it has claimed: none if the statement failed.
PollOnce(claimed) ==
    /\ pc = "poll"
    /\ pc' = "arm"
    /\ unseen' = FALSE
    /\ work' = work - claimed
    /\ \/ claimed = Min({BatchSize, work}) /\ UNCHANGED errors
       \/ claimed = 0 /\ errors < MaxErrors /\ errors' = errors + 1
    /\ currentDelay' = IF claimed > 0 THEN PollInterval ELSE Backoff(currentDelay)
    /\ UNCHANGED <<timer, listening, rows, ctxDone>>

Arm ==
    /\ pc = "arm"
    /\ pc' = "wait"
    /\ timer' = currentDelay
    /\ UNCHANGED <<currentDelay, listening, backlog, ctxDone>>

Tick ==
    /\ pc = "wait" /\ timer > 0
    /\ timer' = timer - 1
    /\ UNCHANGED <<pc, currentDelay, listening, backlog, ctxDone>>

\* Mutant of TimerFires: a loop that waits for notifications only.
TimerIgnored == FALSE

TimerFires ==
    /\ pc = "wait" /\ timer = 0
    /\ pc' = "top"
    /\ UNCHANGED <<currentDelay, timer, listening, backlog, ctxDone>>

\* A receive from a closed channel succeeds at once, every time.
Receivable == notify > 0 \/ listener = "closed"

Notified ==
    /\ pc = "wait" /\ Receivable
    /\ pc' = "top" /\ timer' = 0
    /\ notify' = 0
    /\ currentDelay' = PollInterval
    /\ UNCHANGED <<listener, wire, backlog, ctxDone>>

Cancelled ==
    /\ pc = "wait" /\ ctxDone
    /\ pc' = "drain" /\ timer' = 0
    /\ UNCHANGED <<currentDelay, listening, backlog, ctxDone>>

\* A step of the loop other than a poll.
Run == LoopTop \/ Arm \/ Tick \/ TimerFires \/ Notified \/ Cancelled

=============================================================================
