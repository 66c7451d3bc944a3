------------------------------- MODULE Outbox -------------------------------
(***************************************************************************)
(* The tickr_messages table and every statement of the Postgres adapter    *)
(* that changes it, together with the in-memory copies of claimed rows     *)
(* (InboundMessage values) that worker processes act on.  A copy can       *)
(* outlive its lease: the row may have been reclaimed and claimed again    *)
(* while some goroutine still runs the handler, waits for a pool slot or   *)
(* sits in the acknowledgement buffer.                                     *)
(*                                                                         *)
(* Time is abstracted to what the statements compare: "due" is             *)
(* process_at <= now(), and "lease" is claimed_until as NULL ("none"),     *)
(* in the future ("live") or in the past ("expired").                      *)
(***************************************************************************)
EXTENDS Naturals, FiniteSets

CONSTANTS Msg,            \* message identifiers (UUIDs; never reused)
          Worker,         \* WorkerConfig.WorkerID values
          Slot,           \* in-memory copies one worker can hold at a time
          None,           \* SQL NULL, and "no such copy"
          Batch,          \* ClaimParams.Batch
          MaxAttempts,    \* max_attempts column of every row
          MaxDisruptions  \* bound on crashes, lapses, releases, lost writes,
                          \* requeues and purges

Holder == Worker \X Slot

ASSUME OutboxAssumption ==
    /\ None \notin Msg \cup Worker \cup Holder
    /\ Batch \in Nat \ {0}
    /\ MaxAttempts \in Nat \ {0}
    /\ MaxDisruptions \in Nat

VARIABLES row,          \* the table, by message id
          held,         \* the copy each holder has, or Idle
          owner,        \* ghost: the holder whose claim the HANDLING row is under
          tainted,      \* ghost: requeued while some worker still had a copy
          lapses,       \* ghost: leases that lapsed since the last requeue
          disruptions,  \* how much of MaxDisruptions is used
          doomed        \* the ids that the running purge statements have chosen

vars == <<row, held, owner, tainted, lapses, disruptions, doomed>>

Pending == {"CREATED", "RETRYING"}
Terminal == {"SUCCESS", "DEAD"}
\* ABSENT: not inserted yet.  PURGED: deleted.  FAILED is only ever written to
\* tickr_history, never to the status column.
Status == {"ABSENT", "HANDLING", "PURGED"} \cup Pending \cup Terminal
Lease == {"none", "live", "expired"}

Row == [status : Status, attempt : Nat, due : BOOLEAN, lease : Lease,
        claimedBy : Worker \cup {None}]

\* The messages that are handled together, by the holders of their copies: one, or a chunk.
Chunk == UNION {[G -> Msg] : G \in SUBSET Holder}
Copy == [msg : Msg \cup {None}, attempt : Nat, cancelled : BOOLEAN, chunk : Chunk]

Idle == [msg |-> None, attempt |-> 0, cancelled |-> FALSE, chunk |-> [h \in {} |-> None]]

TypeOK ==
    /\ row \in [Msg -> Row]
    /\ held \in [Holder -> Copy]
    /\ owner \in [Msg -> Holder \cup {None}]
    /\ tainted \in [Msg -> BOOLEAN]
    /\ lapses \in [Msg -> Nat]
    /\ disruptions \in Nat
    /\ doomed \subseteq Msg

WorkerOf(h) == h[1]
Busy(h) == held[h].msg # None
FreeHolders(w) == {h \in Holder : WorkerOf(h) = w /\ ~Busy(h)}
Eligible == {m \in Msg : row[m].status \in Pending /\ row[m].due}

Init ==
    /\ row = [m \in Msg |-> [status |-> "ABSENT", attempt |-> 0, due |-> FALSE,
                             lease |-> "none", claimedBy |-> None]]
    /\ held = [h \in Holder |-> Idle]
    /\ owner = [m \in Msg |-> None]
    /\ tainted = [m \in Msg |-> FALSE]
    /\ lapses = [m \in Msg |-> 0]
    /\ disruptions = 0
    /\ doomed = {}

\* One of the events whose number MaxDisruptions bounds.
Disrupt ==
    /\ disruptions < MaxDisruptions
    /\ disruptions' = disruptions + 1

-----------------------------------------------------------------------------
\* Enqueue, committed: a CREATED row, due now or scheduled for later.
Enqueue(m) ==
    /\ row[m].status = "ABSENT"
    /\ \E due \in BOOLEAN :
         row' = [row EXCEPT ![m] = [@ EXCEPT !.status = "CREATED", !.due = due]]
    /\ UNCHANGED <<held, owner, tainted, lapses, disruptions, doomed>>

\* Time reaches process_at.
BecomeDue(m) ==
    /\ row[m].status \in Pending
    /\ ~row[m].due
    /\ row' = [row EXCEPT ![m].due = TRUE]
    /\ UNCHANGED <<held, owner, tainted, lapses, disruptions, doomed>>

\* Mutant of Claimed: the claim does not count as an attempt.
ClaimedUncounted(r, w) ==
    [r EXCEPT !.status = "HANDLING", !.lease = "live", !.claimedBy = w]

Claimed(r, w) ==
    [r EXCEPT !.status = "HANDLING", !.attempt = @ + 1,
              !.lease = "live", !.claimedBy = w]

\* Claim returns the rows that pick chooses to the free holders in G.  pollOnce hands those in
\* C, of a type with a batch handler, to one call of it, and the others to a call each; a
\* claim that makes up several chunks is the same as several claims.
HandOut(G, pick, C) ==
    /\ G # {} /\ Cardinality(G) <= Batch /\ Cardinality(C) # 1
    /\ \A h1, h2 \in G : pick[h1] = pick[h2] => h1 = h2
    /\ held' = [h \in Holder |->
                  IF h \in G
                  THEN [msg |-> pick[h], attempt |-> row[pick[h]].attempt + 1, cancelled |-> FALSE,
                        chunk |-> [g \in (IF h \in C THEN C ELSE {h}) |-> pick[g]]]
                  ELSE held[h]]

\* The rows are claimed by w.
ClaimRows(w, G, pick, C) ==
    LET picked == {pick[h] : h \in G}
    IN  /\ HandOut(G, pick, C)
        /\ row' = [m \in Msg |-> IF m \in picked THEN Claimed(row[m], w) ELSE row[m]]
        /\ owner' = [m \in Msg |-> IF m \in picked THEN CHOOSE h \in G : pick[h] = m
                                                   ELSE owner[m]]
        /\ UNCHANGED <<tainted, lapses, disruptions, doomed>>

\* One claim statement: up to Batch eligible rows at once.  The random shard of
\* the first pass and SKIP LOCKED make any non-empty subset possible.
Claim(w) ==
    \E G \in SUBSET FreeHolders(w) : \E pick \in [G -> Eligible], C \in SUBSET G :
        ClaimRows(w, G, pick, C)

\* The claim committed but Claim returned an error (the history rows are written
\* afterwards, in a second transaction): pollOnce drops the messages.
ClaimReturnsError(w) ==
    /\ Disrupt
    /\ \E S \in SUBSET Eligible :
         /\ S # {} /\ Cardinality(S) <= Batch
         /\ row' = [m \in Msg |-> IF m \in S THEN Claimed(row[m], w) ELSE row[m]]
    /\ UNCHANGED <<held, owner, tainted, lapses, doomed>>
-----------------------------------------------------------------------------
\* Mutant of Matches: the WHERE clause does not compare the attempt.
MatchesAnyAttempt(h) == row[held[h].msg].status = "HANDLING"

\* The WHERE clause of Succeed, Fail and ReleaseShutdown.
Matches(h) ==
    LET r == row[held[h].msg]
    IN  r.status = "HANDLING" /\ r.attempt = held[h].attempt

Unclaimed(r) == [r EXCEPT !.lease = "none", !.claimedBy = None]
Succeeded(r) == [Unclaimed(r) EXCEPT !.status = "SUCCESS"]
Failed(r, dead, due) ==
    IF dead THEN [Unclaimed(r) EXCEPT !.status = "DEAD"]
            ELSE [Unclaimed(r) EXCEPT !.status = "RETRYING", !.due = due]
Released(r) ==
    [Unclaimed(r) EXCEPT !.status = "RETRYING", !.due = TRUE,
                         !.attempt = IF @ = 0 THEN 0 ELSE @ - 1]
Reclaimed(r) == [Unclaimed(r) EXCEPT !.status = "RETRYING", !.due = TRUE]
\* The row is gone.
Purged(r) == [Unclaimed(r) EXCEPT !.status = "PURGED"]

\* BatchSucceed: one transaction for any number of a worker's acknowledgements
\* (Succeed is the batch of one).
BatchSucceed(w) ==
    \E H \in SUBSET {h \in Holder : WorkerOf(h) = w /\ Busy(h)} :
        LET hit == {held[h].msg : h \in {g \in H : Matches(g)}}
        IN  /\ H # {}
            /\ row' = [m \in Msg |-> IF m \in hit THEN Succeeded(row[m]) ELSE row[m]]
            /\ owner' = [m \in Msg |-> IF m \in hit THEN None ELSE owner[m]]
            /\ held' = [h \in Holder |-> IF h \in H THEN Idle ELSE held[h]]
            /\ UNCHANGED <<tainted, lapses, disruptions, doomed>>

\* A statement for one copy: `new` replaces the row when the fence matches, and
\* the worker forgets the copy either way.
Settle(h, new) ==
    LET m == held[h].msg
    IN  /\ IF Matches(h)
           THEN /\ row' = [row EXCEPT ![m] = new]
                /\ owner' = [owner EXCEPT ![m] = None]
           ELSE UNCHANGED <<row, owner>>
        /\ held' = [held EXCEPT ![h] = Idle]

\* Mutant of Fail: one attempt too many before the message is dead.
FailOffByOne(h) ==
    /\ Busy(h)
    /\ \E dead, due \in BOOLEAN :
         /\ held[h].attempt > MaxAttempts => dead
         /\ Settle(h, Failed(row[held[h].msg], dead, due))
    /\ UNCHANGED <<tainted, lapses, disruptions, doomed>>

\* commitOutcome's failure branch: DeadLetter at any attempt, and always dead once
\* the attempt reaches max_attempts.
Fail(h) ==
    /\ Busy(h)
    /\ \E dead, due \in BOOLEAN :
         /\ held[h].attempt >= MaxAttempts => dead
         /\ Settle(h, Failed(row[held[h].msg], dead, due))
    /\ UNCHANGED <<tainted, lapses, disruptions, doomed>>

ReleaseShutdown(h) ==
    /\ Busy(h)
    /\ Disrupt
    /\ Settle(h, Released(row[held[h].msg]))
    /\ UNCHANGED <<tainted, lapses, doomed>>

\* The outcome write failed and rolled back; it is logged and never retried.
LoseOutcome(h) ==
    /\ Busy(h)
    /\ Disrupt
    /\ held' = [held EXCEPT ![h] = Idle]
    /\ owner' = [m \in Msg |-> IF owner[m] = h THEN None ELSE owner[m]]
    /\ UNCHANGED <<row, tainted, lapses, doomed>>

\* What the extender of h's attempt does when one of its messages has no row to extend: it
\* cancels the one context of the whole chunk, and ends.
CancelChunk(h) ==
    held' = [g \in Holder |-> IF held[g].chunk = held[h].chunk
                              THEN [held[g] EXCEPT !.cancelled = TRUE] ELSE held[g]]

\* Mutant of Extend: a lease that is over already cannot be extended any more.
ExtendOnlyLive(h) ==
    /\ Busy(h) /\ ~held[h].cancelled
    /\ \E g \in DOMAIN held[h].chunk : row[held[h].chunk[g]].lease # "live"
    /\ CancelChunk(h)
    /\ UNCHANGED <<row, owner, tainted, lapses, disruptions, doomed>>

\* extendLoop and extendBatchLoop, for one message of the attempt, its outcome written or
\* not.  Extend is fenced by claimed_by only.
Extend(h) ==
    /\ Busy(h) /\ ~held[h].cancelled
    /\ \E g \in DOMAIN held[h].chunk :
         LET m == held[h].chunk[g]
         IN  IF row[m].status = "HANDLING" /\ row[m].claimedBy = WorkerOf(h)
             THEN row' = [row EXCEPT ![m].lease = "live"] /\ UNCHANGED held
             ELSE CancelChunk(h) /\ UNCHANGED row
    /\ UNCHANGED <<owner, tainted, lapses, disruptions, doomed>>
-----------------------------------------------------------------------------
\* now() passes claimed_until: bound to happen once nobody extends the lease, a
\* disruption (stall, partition, wait for a pool slot) while the copy is in use.
LeaseExpires(m) ==
    /\ row[m].lease = "live"
    /\ row' = [row EXCEPT ![m].lease = "expired"]
    /\ IF owner[m] = None THEN UNCHANGED disruptions ELSE Disrupt
    /\ UNCHANGED <<held, owner, tainted, lapses, doomed>>

\* The leader's reclaim statement takes any number of expired rows; the copies of
\* the former owners stay where they are.
ReclaimExpired ==
    \E S \in SUBSET {m \in Msg : row[m].status = "HANDLING" /\ row[m].lease = "expired"} :
        /\ S # {}
        /\ row' = [m \in Msg |-> IF m \in S THEN Reclaimed(row[m]) ELSE row[m]]
        /\ owner' = [m \in Msg |-> IF m \in S THEN None ELSE owner[m]]
        /\ lapses' = [m \in Msg |-> IF m \in S THEN lapses[m] + 1 ELSE lapses[m]]
        /\ UNCHANGED <<held, tainted, disruptions, doomed>>

\* The janitor's delete (its age condition is module Retention's subject): a subquery on the
\* snapshot of the statement, without a lock, returns ids of terminal rows ...
PurgeSelects ==
    \E S \in SUBSET {m \in Msg : row[m].status \in Terminal} :
        /\ S # {}
        /\ doomed' = doomed \cup S
        /\ Disrupt
        /\ UNCHANGED <<row, held, owner, tainted, lapses>>

\* ... and the rows with these ids are deleted, whatever has become of them.
PurgeDeletes ==
    \E S \in SUBSET doomed :
        /\ S # {}
        /\ row' = [m \in Msg |-> IF m \in S THEN Purged(row[m]) ELSE row[m]]
        /\ owner' = [m \in Msg |-> IF m \in S THEN None ELSE owner[m]]
        /\ doomed' = doomed \ S
        /\ UNCHANGED <<held, tainted, lapses, disruptions>>

\* Mutant of Requeue: any terminal message is requeued.
RequeueTerminal(m) ==
    /\ row[m].status \in Terminal
    /\ Disrupt
    /\ \E due \in BOOLEAN :
         row' = [row EXCEPT ![m] = [@ EXCEPT !.status = "CREATED", !.attempt = 0, !.due = due]]
    /\ tainted' = [tainted EXCEPT ![m] = @ \/ \E h \in Holder : held[h].msg = m]
    /\ lapses' = [lapses EXCEPT ![m] = 0]
    /\ UNCHANGED <<held, owner, doomed>>

\* An operator requeues a DEAD message; the attempt counter starts over.
Requeue(m) ==
    /\ row[m].status = "DEAD"
    /\ Disrupt
    /\ \E due \in BOOLEAN :
         row' = [row EXCEPT ![m] = [@ EXCEPT !.status = "CREATED", !.attempt = 0, !.due = due]]
    /\ tainted' = [tainted EXCEPT ![m] = @ \/ \E h \in Holder : held[h].msg = m]
    /\ lapses' = [lapses EXCEPT ![m] = 0]
    /\ UNCHANGED <<held, owner, doomed>>

\* SIGKILL: every in-memory copy of the worker is gone; a new process with the
\* same configuration takes its place.
Crash(w) ==
    /\ Disrupt
    /\ held' = [h \in Holder |-> IF WorkerOf(h) = w THEN Idle ELSE held[h]]
    /\ owner' = [m \in Msg |-> IF owner[m] # None /\ WorkerOf(owner[m]) = w
                               THEN None ELSE owner[m]]
    /\ UNCHANGED <<row, tainted, lapses, doomed>>
-----------------------------------------------------------------------------
Next ==
    \/ \E m \in Msg : Enqueue(m) \/ BecomeDue(m) \/ LeaseExpires(m) \/ Requeue(m)
    \/ \E w \in Worker : Claim(w) \/ ClaimReturnsError(w) \/ BatchSucceed(w) \/ Crash(w)
    \/ \E h \in Holder : Fail(h) \/ ReleaseShutdown(h) \/ LoseOutcome(h) \/ Extend(h)
    \/ ReclaimExpired
    \/ PurgeSelects \/ PurgeDeletes

Spec == Init /\ [][Next]_vars

\* A handler has returned and its outcome is written.
Finish(h) == Fail(h) \/ (BatchSucceed(WorkerOf(h)) /\ held'[h] = Idle)

-----------------------------------------------------------------------------
(* Properties *)

\* Two-way fencing, first half.  A copy whose WHERE clause would match the row is
\* the row's current claim, so a worker that lost its lease cannot settle a row
\* someone else claimed.  Holds unless the message was requeued, which restarts
\* the attempt counter the fence compares, while a copy of it was outstanding.
StaleCopyCannotSettle ==
    \A h \in Holder : Busy(h) /\ ~tainted[held[h].msg] /\ Matches(h)
                        => owner[held[h].msg] = h

\* Second half.  The write of the copy that does own the row always lands: while a
\* claim is current the row is HANDLING with the copy's attempt and worker.
OwnerCanSettle ==
    \A m \in Msg : owner[m] # None =>
        /\ held[owner[m]].msg = m
        /\ Matches(owner[m])
        /\ row[m].claimedBy = WorkerOf(owner[m])

\* HANDLING rows and claim columns go together, so no HANDLING row is invisible to
\* the reclaimer (claimed_until NULL) and no other row is ever reclaimed.
ClaimColumns ==
    \A m \in Msg : /\ row[m].status = "HANDLING" <=> row[m].lease # "none"
                   /\ row[m].status = "HANDLING" <=> row[m].claimedBy # None

\* The extender cancels an attempt only when the claim of one of its messages is over: the
\* message was settled, lost or claimed again.  The other messages of the chunk are then
\* cancelled with it although their claims are current.
CancelledOnlyWhenLost ==
    \A h \in Holder : held[h].cancelled =>
        \E g \in DOMAIN held[h].chunk :
            owner[held[h].chunk[g]] # g \/ held[g].chunk # held[h].chunk

\* Every delivery beyond max_attempts is accounted for by a lapsed lease: failures
\* alone (and shutdown releases) never take a message past its budget.
AttemptsAccounted ==
    \A m \in Msg :
        /\ row[m].attempt <= MaxAttempts + lapses[m]
        /\ row[m].status \in Pending => row[m].attempt < MaxAttempts + lapses[m]

\* At-least-once: once crashes and lapses cease, every enqueued or requeued message
\* reaches a terminal state, whatever copies were lost on the way, or a purge that had
\* chosen it before it was requeued deletes it.
EventuallySettled ==
    \A m \in Msg : (row[m].status \in Pending \cup {"HANDLING"})
                     ~> (row[m].status \in Terminal \cup {"PURGED"})

=============================================================================
