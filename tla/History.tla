------------------------------ MODULE History ------------------------------
(***************************************************************************)
(* tickr_history as the Postgres adapter writes it.  Its primary key is    *)
(* (message_id, seq) and every insert computes seq as MAX(seq) + 1 on the  *)
(* snapshot of its statement, so a writer of the same message that commits *)
(* in between makes the insert, and the transaction around it, fail.       *)
(*                                                                         *)
(* hist[m] lists the rows in the order of seq.  A call is two steps: its   *)
(* statements' snapshots, and the locks, checks and inserts up to the      *)
(* commit, which other calls see as one.                                   *)
(***************************************************************************)
EXTENDS Naturals, Sequences, FiniteSets

CONSTANTS Msg, Proc,    \* messages; goroutines that call the adapter
          MaxAttempts,
          MaxClaims,    \* bound on the attempt column
          MaxEvents     \* bound on releases, requeues and reclaimed rows

ASSUME HistoryAssumption ==
    {MaxAttempts, MaxClaims} \subseteq Nat \ {0} /\ MaxEvents \in Nat

VARIABLES status, attempt,  \* of each message
          hist,             \* rows [to, attempt] of each message
          pc, mine,         \* where each process is, and the copies it has
          op, call, snap,   \* its call, the call's copies, and MAX(seq) as it saw it
          events,           \* how much of MaxEvents is used
          disturbed,        \* ghost: a row was reclaimed or requeued
          refused           \* ghost: calls that a duplicate seq made fail

historyVars == <<status, attempt, hist, pc, mine, op, call, snap, events, disturbed, refused>>

Pending == {"CREATED", "RETRYING"}
To == {"HANDLING", "SUCCESS", "FAILED", "RETRYING", "DEAD", "CREATED"}
Copy == [msg : Msg, attempt : 0..MaxClaims]
Op == {"none", "claim", "succeed", "retry", "dead", "release", "requeue"}

HistoryTypeOK ==
    /\ status \in [Msg -> To \ {"FAILED"}]
    /\ attempt \in [Msg -> 0..MaxClaims]
    /\ hist \in [Msg -> Seq([to : To, attempt : 0..MaxClaims])]
    /\ pc \in [Proc -> {"idle", "claimed", "holding", "calling"}]
    /\ mine \in [Proc -> SUBSET Copy] /\ call \in [Proc -> SUBSET Copy]
    /\ op \in [Proc -> Op]
    /\ snap \in [Proc -> [Msg -> Nat]]
    /\ events \in 0..MaxEvents /\ disturbed \in BOOLEAN /\ refused \subseteq Op

HistoryInit ==
    /\ status = [m \in Msg |-> "CREATED"]
    /\ attempt = [m \in Msg |-> 0]
    /\ hist = [m \in Msg |-> <<>>]
    /\ pc = [p \in Proc |-> "idle"]
    /\ mine = [p \in Proc |-> {}] /\ call = [p \in Proc |-> {}]
    /\ op = [p \in Proc |-> "none"]
    /\ snap = [p \in Proc |-> [m \in Msg |-> 0]]
    /\ events = 0 /\ disturbed = FALSE /\ refused = {}

Event == events < MaxEvents /\ events' = events + 1
Msgs(C) == {c.msg : c \in C}

-----------------------------------------------------------------------------
\* Mutant of Claimable: rows somebody is handling are claimed too.
ClaimableHandling ==
    {m \in Msg : status[m] \in Pending \cup {"HANDLING"} /\ attempt[m] < MaxClaims}

Claimable == {m \in Msg : status[m] \in Pending /\ attempt[m] < MaxClaims}

\* The claim statement commits; its history rows are a second transaction.
ClaimBatch(p) ==
    /\ pc[p] = "idle"
    /\ \E S \in (SUBSET Claimable) \ {{}} :
         /\ status' = [m \in Msg |-> IF m \in S THEN "HANDLING" ELSE status[m]]
         /\ attempt' = [m \in Msg |-> IF m \in S THEN attempt[m] + 1 ELSE attempt[m]]
         /\ mine' = [mine EXCEPT ![p] = {[msg |-> m, attempt |-> attempt[m] + 1] : m \in S}]
    /\ pc' = [pc EXCEPT ![p] = "claimed"]
    /\ op' = [op EXCEPT ![p] = "claim"]
    /\ UNCHANGED <<hist, call, snap, events, disturbed, refused>>

\* Requeue: the update commits; appendHistory is a statement of its own.
Requeue(p, m) ==
    /\ pc[p] = "idle" /\ status[m] = "DEAD" /\ Event /\ disturbed' = TRUE
    /\ status' = [status EXCEPT ![m] = "CREATED"]
    /\ attempt' = [attempt EXCEPT ![m] = 0]
    /\ mine' = [mine EXCEPT ![p] = {[msg |-> m, attempt |-> 0]}]
    /\ pc' = [pc EXCEPT ![p] = "claimed"]
    /\ op' = [op EXCEPT ![p] = "requeue"]
    /\ UNCHANGED <<hist, call, snap, refused>>

\* Reclaiming an expired lease writes no history.
Reclaim(m) ==
    /\ status[m] = "HANDLING" /\ Event /\ disturbed' = TRUE
    /\ status' = [status EXCEPT ![m] = "RETRYING"]
    /\ UNCHANGED <<attempt, hist, pc, mine, op, call, snap, refused>>

\* The snapshots of a call's statements: of the history rows of a claim or a requeue,
\* or of a call that settles copies.
Snapshot(p, o, C) ==
    /\ op' = [op EXCEPT ![p] = o]
    /\ call' = [call EXCEPT ![p] = C]
    /\ snap' = [snap EXCEPT ![p] = [m \in Msg |-> IF m \in Msgs(C) THEN Len(hist[m]) ELSE 0]]
    /\ pc' = [pc EXCEPT ![p] = "calling"]
    /\ UNCHANGED <<status, attempt, hist, mine, disturbed, refused>>

Record(p) == pc[p] = "claimed" /\ Snapshot(p, op[p], mine[p]) /\ UNCHANGED events

\* BatchSucceed takes several acknowledgements, Fail and ReleaseShutdown one message.
Settle(p) ==
    /\ pc[p] = "holding"
    /\ \/ /\ \E C \in (SUBSET mine[p]) \ {{}} : Snapshot(p, "succeed", C)
          /\ UNCHANGED events
       \/ /\ \E c \in mine[p], o \in {"retry", "dead"} :
                (c.attempt >= MaxAttempts => o = "dead") /\ Snapshot(p, o, {c})
          /\ UNCHANGED events
       \/ /\ \E c \in mine[p] : Snapshot(p, "release", {c})
          /\ Event

-----------------------------------------------------------------------------
\* What a settling statement's WHERE clause asks of the row.
Fenced(c) == status[c.msg] = "HANDLING" /\ attempt[c.msg] = c.attempt

RowIf(b, to, a) == IF b THEN <<[to |-> to, attempt |-> a]>> ELSE <<>>

SuccessRows(c) == RowIf(Fenced(c), "SUCCESS", c.attempt)

\* Mutant of FailRows: the transition out of FAILED is not written.
FailRowsFirst(c, to) == RowIf(TRUE, "FAILED", c.attempt)

\* Fail's first row does not depend on the fence ("records the attempt regardless of
\* lease loss"), the second one does.
FailRows(c, to) == RowIf(TRUE, "FAILED", c.attempt) \o RowIf(Fenced(c), to, c.attempt)

\* The rows a call inserts for one of its copies.
Rows(p, c) ==
    CASE op[p] = "claim"   -> RowIf(TRUE, "HANDLING", c.attempt)
      [] op[p] = "requeue" -> RowIf(TRUE, "CREATED", 0)
      [] op[p] = "succeed" -> SuccessRows(c)
      [] op[p] = "retry"   -> FailRows(c, "RETRYING")
      [] op[p] = "dead"    -> FailRows(c, "DEAD")
      [] op[p] = "release" -> RowIf(Fenced(c), "RETRYING", c.attempt - 1)

\* An insert of the call meets a seq that is taken.
Taken(p, c) == Rows(p, c) # <<>> /\ snap[p][c.msg] < Len(hist[c.msg])

NewStatus == [succeed |-> "SUCCESS", retry |-> "RETRYING", dead |-> "DEAD",
              release |-> "RETRYING"]

\* The call returns; a claim that succeeded hands its copies to the engine.
CallReturns(p, kept) ==
    /\ mine' = [mine EXCEPT ![p] = kept]
    /\ pc' = [pc EXCEPT ![p] = IF kept = {} THEN "idle" ELSE "holding"]
    /\ op' = [op EXCEPT ![p] = "none"]
    /\ call' = [call EXCEPT ![p] = {}]
    /\ snap' = [snap EXCEPT ![p] = [m \in Msg |-> 0]]
    /\ UNCHANGED <<events, disturbed>>

\* The call commits: all its updates and rows at once.
Commit(p) ==
    /\ pc[p] = "calling"
    /\ \A c \in call[p] : ~Taken(p, c)
    /\ LET copy(m) == CHOOSE c \in call[p] : c.msg = m
           lands(m) == op[p] \in DOMAIN NewStatus /\ m \in Msgs(call[p]) /\ Fenced(copy(m))
       IN  /\ hist' = [m \in Msg |-> IF m \in Msgs(call[p]) THEN hist[m] \o Rows(p, copy(m))
                                                           ELSE hist[m]]
           /\ status' = [m \in Msg |-> IF lands(m) THEN NewStatus[op[p]] ELSE status[m]]
           /\ attempt' = [m \in Msg |-> IF lands(m) /\ op[p] = "release" THEN attempt[m] - 1
                                                                       ELSE attempt[m]]
    /\ CallReturns(p, IF op[p] = "claim" THEN mine[p] ELSE mine[p] \ call[p])
    /\ UNCHANGED refused

\* The call fails and rolls back.  Nobody retries it: pollOnce drops the claimed
\* messages, the engine logs the lost outcomes, the operator sees an error.
Refused(p) ==
    /\ pc[p] = "calling"
    /\ \E c \in call[p] : Taken(p, c)
    /\ refused' = refused \cup {op[p]}
    /\ CallReturns(p, mine[p] \ call[p])
    /\ UNCHANGED <<status, attempt, hist>>

HistoryNext ==
    \/ \E p \in Proc : \/ ClaimBatch(p) \/ Record(p) \/ Settle(p) \/ Commit(p) \/ Refused(p)
                       \/ \E m \in Msg : Requeue(p, m)
    \/ \E m \in Msg : Reclaim(m)

HistorySpec == HistoryInit /\ [][HistoryNext]_historyVars

-----------------------------------------------------------------------------
(* Properties *)

Successes(m) == {i \in DOMAIN hist[m] : hist[m][i].to = "SUCCESS"}

\* The history tells how a terminal message ended: it has the row of its last attempt, and
\* one row of a success exactly if the message succeeded, however many stale copies were
\* settled beside it (BatchSucceed, Fail).
SettledIsRecorded ==
    \A m \in Msg :
        /\ status[m] \in {"SUCCESS", "DEAD"} =>
             \E i \in DOMAIN hist[m] : hist[m][i] = [to |-> status[m], attempt |-> attempt[m]]
        /\ IF status[m] = "SUCCESS" THEN \E i \in DOMAIN hist[m] : Successes(m) = {i}
                                   ELSE Successes(m) = {}

\* The history makes a call fail only after a lease lapsed or an operator requeued:
\* in undisturbed operation the writers of one message follow each other.
RefusedOnlyAfterDisturbance == refused # {} => disturbed

=============================================================================
