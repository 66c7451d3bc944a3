---------------------------- MODULE OutboxProofs ----------------------------
(***************************************************************************)
(* Proofs about Outbox, for any sets of messages, workers and slots and    *)
(* any bounds.  StaleCopyCannotSettle is not inductive by itself: a        *)
(* shutdown release decrements the attempt counter the fence compares.     *)
(* FenceInv adds what makes it so: the attempts of the copies of a message *)
(* are distinct and none exceeds the row's.  The last part is about the    *)
(* deployment of module Adapters, on Postgres or on MySQL.                 *)
(***************************************************************************)
EXTENDS OutboxRefinement, Adapters, TLAPS

\* No copy of an untainted message is ahead of its row.
CopiesBehindRow ==
    \A h \in Holder : Busy(h) /\ ~tainted[held[h].msg]
                        => held[h].attempt <= row[held[h].msg].attempt

\* Two copies of an untainted message were claimed at different attempts.
CopiesDistinct ==
    \A h1, h2 \in Holder :
        /\ Busy(h1) /\ ~tainted[held[h1].msg]
        /\ held[h1].msg = held[h2].msg
        /\ held[h1].attempt = held[h2].attempt
        => h1 = h2

FenceInv ==
    /\ TypeOK
    /\ ClaimColumns
    /\ OwnerCanSettle
    /\ StaleCopyCannotSettle
    /\ CopiesBehindRow
    /\ CopiesDistinct

-----------------------------------------------------------------------------
\* What is known of the identifiers.
LEMMA Identifiers ==
    /\ None \notin Msg /\ None \notin Worker /\ None \notin Holder
    /\ \A h \in Holder : WorkerOf(h) \in Worker
BY OutboxAssumption DEF Holder, WorkerOf

\* The row updates of the statements keep rows well-typed.
LEMMA RowTypes ==
    ASSUME NEW r \in Row
    PROVE  /\ \A w \in Worker : Claimed(r, w) \in Row
           /\ Unclaimed(r) \in Row
           /\ Succeeded(r) \in Row
           /\ \A dead, due \in BOOLEAN : Failed(r, dead, due) \in Row
           /\ Released(r) \in Row
           /\ Reclaimed(r) \in Row
           /\ Purged(r) \in Row
<1>1. Unclaimed(r) \in Row
  BY Zenon DEF Unclaimed, Row, Lease
<1>0. r.attempt \in Nat /\ r.attempt + 1 \in Nat /\ (r.attempt # 0 => r.attempt - 1 \in Nat)
  BY DEF Row
<1>2. ASSUME NEW w \in Worker PROVE Claimed(r, w) \in Row
  BY Zenon, <1>0 DEF Claimed, Row, Status, Lease
<1>3. Succeeded(r) \in Row
  BY <1>1 DEF Succeeded, Row, Status, Terminal
<1>4. ASSUME NEW due \in BOOLEAN PROVE Failed(r, TRUE, due) \in Row
  BY <1>1 DEF Failed, Row, Status, Terminal
<1>5. ASSUME NEW due \in BOOLEAN PROVE Failed(r, FALSE, due) \in Row
  BY Zenon, <1>1 DEF Failed, Row, Status, Pending
<1>6. Released(r) \in Row
  <2> DEFINE u == Unclaimed(r)
  <2>1. u \in Row /\ u.attempt = r.attempt
    BY <1>1 DEF Unclaimed, Row
  <2> HIDE DEF u
  <2> QED
    BY Zenon, <1>0, <2>1 DEF Released, u, Row, Status, Pending
<1>7. Reclaimed(r) \in Row
  BY Zenon, <1>1 DEF Reclaimed, Row, Status, Pending
<1>8. Purged(r) \in Row
  BY <1>1 DEF Purged, Row, Status
<1> QED
  BY Zenon, <1>1, <1>2, <1>3, <1>4, <1>5, <1>6, <1>7, <1>8

\* r without its claim, in a state other than HANDLING, at the given attempt.
Laid(x, attempt) ==
    /\ x.lease = "none" /\ x.claimedBy = None /\ x.status # "HANDLING"
    /\ x.attempt = attempt

\* The fields of the rows the statements write.
LEMMA RowFields ==
    ASSUME NEW r \in Row
    PROVE  /\ \A w \in Worker :
                /\ Claimed(r, w).status = "HANDLING"
                /\ Claimed(r, w).attempt = r.attempt + 1
                /\ Claimed(r, w).lease = "live"
                /\ Claimed(r, w).claimedBy = w
           /\ Laid(Succeeded(r), r.attempt)
           /\ Laid(Reclaimed(r), r.attempt)
           /\ Laid(Purged(r), r.attempt)
           /\ \A dead, due \in BOOLEAN : Laid(Failed(r, dead, due), r.attempt)
           /\ Laid(Released(r), IF r.attempt = 0 THEN 0 ELSE r.attempt - 1)
<1>1. ASSUME NEW w \in Worker
      PROVE  /\ Claimed(r, w).status = "HANDLING"
             /\ Claimed(r, w).attempt = r.attempt + 1
             /\ Claimed(r, w).lease = "live"
             /\ Claimed(r, w).claimedBy = w
  BY DEF Claimed, Row
<1>2. Laid(Succeeded(r), r.attempt) /\ Laid(Reclaimed(r), r.attempt)
  BY DEF Laid, Succeeded, Reclaimed, Unclaimed, Row
<1>5. Laid(Purged(r), r.attempt)
  BY DEF Laid, Purged, Unclaimed, Row
<1>3. ASSUME NEW due \in BOOLEAN
      PROVE  Laid(Failed(r, TRUE, due), r.attempt) /\ Laid(Failed(r, FALSE, due), r.attempt)
  BY DEF Laid, Failed, Unclaimed, Row
<1>4. Laid(Released(r), IF r.attempt = 0 THEN 0 ELSE r.attempt - 1)
  BY DEF Laid, Released, Unclaimed, Row
<1> QED
  BY Zenon, <1>1, <1>2, <1>3, <1>4, <1>5

-----------------------------------------------------------------------------
\* A chunk names messages and the holders of their copies.
LEMMA ChunkTypes ==
    ASSUME NEW c \in Chunk
    PROVE  DOMAIN c \subseteq Holder /\ \A g \in DOMAIN c : c[g] \in Msg
BY DEF Chunk

LEMMA IdleType == Idle \in Copy /\ DOMAIN Idle.chunk = {} /\ ~Idle.cancelled
<1>1. [h \in {} |-> None] \in [{} -> Msg]
  OBVIOUS
<1>2. [h \in {} |-> None] \in Chunk
  BY <1>1 DEF Chunk
<1> QED
  BY <1>2 DEF Idle, Copy

\* What the holders in G, and nobody else, receive from a claim.
Receive(w, G, pick) ==
    /\ held' \in [Holder -> Copy]
    /\ \A h1, h2 \in G : pick[h1] = pick[h2] => h1 = h2
    /\ \A h \in G : /\ h \in Holder /\ WorkerOf(h) = w /\ ~Busy(h)
                    /\ pick[h] \in Msg /\ row[pick[h]].status \in Pending
                    /\ held'[h].msg = pick[h] /\ ~held'[h].cancelled
                    /\ held'[h].attempt = row[pick[h]].attempt + 1
                    /\ h \in DOMAIN held'[h].chunk /\ DOMAIN held'[h].chunk \subseteq G
    /\ \A h \in Holder \ G : held'[h] = held[h]

LEMMA Received ==
    ASSUME TypeOK, NEW w \in Worker, NEW G \in SUBSET FreeHolders(w),
           NEW pick \in [G -> Eligible], NEW C \in SUBSET G, HandOut(G, pick, C)
    PROVE  Receive(w, G, pick)
<1> DEFINE D(h) == IF h \in C THEN C ELSE {h}
           new(h) == [msg |-> pick[h], attempt |-> row[pick[h]].attempt + 1, cancelled |-> FALSE,
                      chunk |-> [g \in D(h) |-> pick[g]]]
<1>1. /\ \A h1, h2 \in G : pick[h1] = pick[h2] => h1 = h2
      /\ held' = [h \in Holder |-> IF h \in G THEN new(h) ELSE held[h]]
  BY Zenon DEF HandOut
<1>2. ASSUME NEW h \in G
      PROVE  /\ h \in Holder /\ WorkerOf(h) = w /\ ~Busy(h)
             /\ pick[h] \in Msg /\ row[pick[h]].status \in Pending
             /\ row[pick[h]].attempt + 1 \in Nat
  BY DEF FreeHolders, Eligible, TypeOK, Row
<1>3. ASSUME NEW h \in G
      PROVE  /\ h \in D(h) /\ D(h) \subseteq G
             /\ [g \in D(h) |-> pick[g]] \in Chunk
  <2>1. h \in D(h) /\ D(h) \subseteq G
    OBVIOUS
  <2> HIDE DEF D
  <2>2. [g \in D(h) |-> pick[g]] \in [D(h) -> Msg] /\ D(h) \subseteq Holder
    BY <1>2, <2>1
  <2> QED
    BY <2>1, <2>2 DEF Chunk
<1> HIDE DEF D
<1>4. ASSUME NEW h \in G
      PROVE  /\ new(h) \in Copy /\ new(h).msg = pick[h] /\ ~new(h).cancelled
             /\ new(h).attempt = row[pick[h]].attempt + 1
             /\ h \in DOMAIN new(h).chunk /\ DOMAIN new(h).chunk \subseteq G
  BY <1>2, <1>3 DEF Copy
<1> HIDE DEF new
<1>5. held' \in [Holder -> Copy]
  BY <1>1, <1>4 DEF TypeOK
<1>6. \A h \in G : held'[h] = new(h)
  BY <1>1, <1>2
<1> QED
  BY <1>1, <1>2, <1>4, <1>5, <1>6 DEF Receive

\* An extension renews the lease of a HANDLING row or cancels a chunk.
LEMMA Extension ==
    ASSUME TypeOK, NEW h \in Holder, Extend(h)
    PROVE  /\ held' \in [Holder -> Copy] /\ row' \in [Msg -> Row]
           /\ \A m \in Msg : /\ row'[m].status = row[m].status
                             /\ row'[m].attempt = row[m].attempt
                             /\ row'[m].claimedBy = row[m].claimedBy
                             /\ \/ row'[m] = row[m]
                                \/ row[m].status = "HANDLING" /\ row'[m].lease = "live"
           /\ \A g \in Holder : /\ held'[g].msg = held[g].msg
                                /\ held'[g].attempt = held[g].attempt
                                /\ held'[g].chunk = held[g].chunk
           /\ UNCHANGED <<owner, tainted, lapses, disruptions, doomed>>
<1>1. held[h] \in Copy /\ held[h].chunk \in Chunk
  BY DEF TypeOK, Copy
<1>2. PICK g \in DOMAIN held[h].chunk :
        LET m == held[h].chunk[g]
        IN  IF row[m].status = "HANDLING" /\ row[m].claimedBy = WorkerOf(h)
            THEN row' = [row EXCEPT ![m].lease = "live"] /\ UNCHANGED held
            ELSE CancelChunk(h) /\ UNCHANGED row
  BY DEF Extend
<1> DEFINE m == held[h].chunk[g]
<1>3. m \in Msg
  BY <1>1, ChunkTypes
<1>4. UNCHANGED <<owner, tainted, lapses, disruptions, doomed>>
  BY DEF Extend
<1>5. CASE row[m].status = "HANDLING" /\ row[m].claimedBy = WorkerOf(h)
  <2>1. row' = [row EXCEPT ![m].lease = "live"] /\ UNCHANGED held
    BY <1>2, <1>5
  <2> HIDE DEF m
  <2>2. row[m] \in Row /\ [row[m] EXCEPT !.lease = "live"] \in Row
    BY Zenon, <1>3 DEF TypeOK, Row, Lease
  <2>3. row'[m] = [row[m] EXCEPT !.lease = "live"] /\ \A n \in Msg \ {m} : row'[n] = row[n]
    BY Zenon, <1>3, <2>1 DEF TypeOK
  <2>4. /\ row'[m].status = row[m].status /\ row'[m].attempt = row[m].attempt
        /\ row'[m].claimedBy = row[m].claimedBy /\ row'[m].lease = "live"
    BY <2>2, <2>3 DEF Row
  <2>5. row' \in [Msg -> Row]
    BY <1>3, <2>1, <2>2 DEF TypeOK
  <2> QED
    BY <1>4, <1>5, <2>1, <2>3, <2>4, <2>5 DEF TypeOK
<1>6. CASE ~(row[m].status = "HANDLING" /\ row[m].claimedBy = WorkerOf(h))
  <2>1. CancelChunk(h) /\ UNCHANGED row
    BY <1>2, <1>6
  <2>2. ASSUME NEW c \in Copy
        PROVE  /\ [c EXCEPT !.cancelled = TRUE] \in Copy
               /\ [c EXCEPT !.cancelled = TRUE].msg = c.msg
               /\ [c EXCEPT !.cancelled = TRUE].attempt = c.attempt
               /\ [c EXCEPT !.cancelled = TRUE].chunk = c.chunk
    BY Zenon DEF Copy
  <2>3. \A k \in Holder : held'[k] \in {held[k], [held[k] EXCEPT !.cancelled = TRUE]}
    BY <2>1 DEF CancelChunk
  <2>4. held' \in [Holder -> Copy]
    BY <2>1, <2>2 DEF CancelChunk, TypeOK
  <2> QED
    BY Zenon, <1>4, <2>1, <2>2, <2>3, <2>4 DEF TypeOK
<1> QED
  BY <1>5, <1>6

\* Every step keeps the variables well-typed.
LEMMA TypeStep ==
    ASSUME TypeOK, [Next]_vars
    PROVE  TypeOK'
<1> USE Identifiers DEF TypeOK
<1>1. \A m \in Msg : row[m] \in Row
  OBVIOUS
<1>2. Idle \in Copy
  BY IdleType
<1>3. ASSUME NEW m \in Msg, Enqueue(m) PROVE TypeOK'
  <2>1. PICK due \in BOOLEAN :
          row' = [row EXCEPT ![m] = [@ EXCEPT !.status = "CREATED", !.due = due]]
    BY Zenon, <1>3 DEF Enqueue
  <2>2. [row[m] EXCEPT !.status = "CREATED", !.due = due] \in Row
    BY Zenon, <1>1 DEF Row, Status, Pending
  <2> QED
    BY <1>1, <1>3, <2>1, <2>2 DEF Enqueue
<1>4. ASSUME NEW m \in Msg, BecomeDue(m) PROVE TypeOK'
  BY Zenon, <1>1, <1>4 DEF BecomeDue, Row
<1>5. ASSUME NEW m \in Msg, LeaseExpires(m) PROVE TypeOK'
  BY SMTT(30), <1>1, <1>5 DEF LeaseExpires, Disrupt, Row, Lease
<1>6. ASSUME NEW m \in Msg, Requeue(m) PROVE TypeOK'
  <2>1. PICK due \in BOOLEAN :
          row' = [row EXCEPT ![m] = [@ EXCEPT !.status = "CREATED", !.attempt = 0, !.due = due]]
    BY Zenon, <1>6 DEF Requeue
  <2>2. [row[m] EXCEPT !.status = "CREATED", !.attempt = 0, !.due = due] \in Row
    BY Zenon, <1>1 DEF Row, Status, Pending
  <2>3. row' \in [Msg -> Row]
    BY <1>1, <2>1, <2>2
  <2>4. tainted' \in [Msg -> BOOLEAN] /\ lapses' \in [Msg -> Nat] /\ disruptions' \in Nat
    BY <1>6 DEF Requeue, Disrupt
  <2> QED
    BY <1>6, <2>3, <2>4 DEF Requeue
<1>7. ASSUME NEW w \in Worker, Claim(w) PROVE TypeOK'
  <2>0. PICK G \in SUBSET FreeHolders(w) :
          \E pick \in [G -> Eligible], C \in SUBSET G : ClaimRows(w, G, pick, C)
    BY <1>7 DEF Claim
  <2>1. PICK pick \in [G -> Eligible], C \in SUBSET G : ClaimRows(w, G, pick, C)
    BY <2>0
  <2>2. row' \in [Msg -> Row]
    BY Zenon, <1>1, <2>1, RowTypes DEF ClaimRows
  <2>3. held' \in [Holder -> Copy]
    BY Zenon, <2>1, Received DEF ClaimRows, Receive
  <2>4. owner' \in [Msg -> Holder \cup {None}]
    BY <2>1 DEF ClaimRows, FreeHolders
  <2> QED
    BY <2>1, <2>2, <2>3, <2>4 DEF ClaimRows
<1>8. ASSUME NEW w \in Worker, ClaimReturnsError(w) PROVE TypeOK'
  <2>0. \A m \in Msg : Claimed(row[m], w) \in Row
    BY Zenon, <1>1, RowTypes
  <2>1. row' \in [Msg -> Row]
    BY <1>1, <1>8, <2>0 DEF ClaimReturnsError
  <2> QED
    BY <1>8, <2>1 DEF ClaimReturnsError, Disrupt
<1>9. ASSUME NEW w \in Worker, BatchSucceed(w) PROVE TypeOK'
  BY <1>1, <1>2, <1>9, RowTypes DEF BatchSucceed
<1>10. ASSUME NEW w \in Worker, Crash(w) PROVE TypeOK'
  BY <1>2, <1>10 DEF Crash, Disrupt
<1>11. ASSUME NEW h \in Holder, Fail(h) PROVE TypeOK'
  <2>1. PICK dead \in BOOLEAN, due \in BOOLEAN : Settle(h, Failed(row[held[h].msg], dead, due))
    BY <1>11 DEF Fail
  <2>2. held[h].msg \in Msg
    BY <1>11 DEF Fail, Busy, Copy
  <2>3. Failed(row[held[h].msg], dead, due) \in Row
    BY Zenon, <1>1, <2>2, RowTypes
  <2> QED
    BY <1>1, <1>2, <1>11, <2>1, <2>2, <2>3 DEF Fail, Settle
<1>12. ASSUME NEW h \in Holder, ReleaseShutdown(h) PROVE TypeOK'
  BY <1>1, <1>2, <1>12, RowTypes DEF ReleaseShutdown, Settle, Disrupt
<1>13. ASSUME NEW h \in Holder, LoseOutcome(h) PROVE TypeOK'
  BY <1>2, <1>13 DEF LoseOutcome, Disrupt
<1>14. ASSUME NEW h \in Holder, Extend(h) PROVE TypeOK'
  BY <1>14, Extension
<1>15. ASSUME ReclaimExpired PROVE TypeOK'
  BY <1>1, <1>15, RowTypes DEF ReclaimExpired
<1>16. ASSUME PurgeSelects PROVE TypeOK'
  BY <1>16 DEF PurgeSelects, Disrupt
<1>17. ASSUME PurgeDeletes PROVE TypeOK'
  BY <1>1, <1>17, RowTypes DEF PurgeDeletes
<1>18. CASE UNCHANGED vars
  BY <1>18 DEF vars
<1> QED
  BY <1>3, <1>4, <1>5, <1>6, <1>7, <1>8, <1>9, <1>10, <1>11, <1>12, <1>13,
     <1>14, <1>15, <1>16, <1>17, <1>18 DEF Next

\* What a settling statement does to the row of h's message: nothing, or it ends
\* the claim and leaves the row at the given attempt.
LaysRow(h, attempt) ==
    LET m == held[h].msg
    IN  /\ m \in Msg
        /\ \A n \in Msg : n # m => row'[n] = row[n] /\ owner'[n] = owner[n]
        /\ Matches(h) => Laid(row'[m], attempt) /\ owner'[m] = None
        /\ ~Matches(h) => row'[m] = row[m] /\ owner'[m] = owner[m]
        /\ held' = [held EXCEPT ![h] = Idle]

\* A failure lays the row to rest at its attempt if it matches and changes nothing else.
LEMMA FailLays ==
    ASSUME TypeOK, NEW h \in Holder, Fail(h)
    PROVE  LaysRow(h, row[held[h].msg].attempt)
<1>1. held[h].msg \in Msg
  BY DEF Fail, Busy, TypeOK, Copy
<1>2. row[held[h].msg] \in Row
  BY <1>1 DEF TypeOK
<1>3. PICK dead \in BOOLEAN, due \in BOOLEAN : Settle(h, Failed(row[held[h].msg], dead, due))
  BY DEF Fail
<1>4. Laid(Failed(row[held[h].msg], dead, due), row[held[h].msg].attempt)
  BY <1>2, RowFields
<1> QED
  BY <1>1, <1>3, <1>4 DEF Settle, LaysRow, TypeOK

\* A release does so at the attempt before, or at 0.
LEMMA ReleaseLays ==
    ASSUME TypeOK, NEW h \in Holder, ReleaseShutdown(h)
    PROVE  LaysRow(h, IF row[held[h].msg].attempt = 0 THEN 0 ELSE row[held[h].msg].attempt - 1)
<1>1. held[h].msg \in Msg
  BY DEF ReleaseShutdown, Busy, TypeOK, Copy
<1>2. row[held[h].msg] \in Row
  BY <1>1 DEF TypeOK
<1>3. Laid(Released(row[held[h].msg]),
           IF row[held[h].msg].attempt = 0 THEN 0 ELSE row[held[h].msg].attempt - 1)
  BY <1>2, RowFields
<1> QED
  BY <1>1, <1>3 DEF ReleaseShutdown, Settle, LaysRow, TypeOK

\* HANDLING rows, and only they, have a claim.
LEMMA ColumnsStep ==
    ASSUME TypeOK, ClaimColumns, [Next]_vars
    PROVE  ClaimColumns'
<1> USE Identifiers
<1>1. \A m \in Msg : row[m] \in Row
  BY DEF TypeOK
<1>2. ASSUME NEW m \in Msg, Enqueue(m) \/ BecomeDue(m) \/ LeaseExpires(m) \/ Requeue(m)
      PROVE  ClaimColumns'
  <2>1. CASE Enqueue(m)
    BY <1>1, <2>1 DEF Enqueue, ClaimColumns, TypeOK, Row
  <2>2. CASE BecomeDue(m)
    BY <1>1, <2>2 DEF BecomeDue, ClaimColumns, TypeOK, Row
  <2>3. CASE LeaseExpires(m)
    BY <1>1, <2>3 DEF LeaseExpires, ClaimColumns, TypeOK, Row
  <2>4. CASE Requeue(m)
    BY <1>1, <2>4 DEF Requeue, ClaimColumns, TypeOK, Row
  <2> QED
    BY <1>2, <2>1, <2>2, <2>3, <2>4
<1>3. ASSUME NEW w \in Worker, Claim(w) PROVE ClaimColumns'
  BY <1>1, <1>3, RowFields DEF Claim, ClaimRows, ClaimColumns
<1>4. ASSUME NEW w \in Worker, ClaimReturnsError(w) PROVE ClaimColumns'
  BY <1>1, <1>4, RowFields DEF ClaimReturnsError, ClaimColumns
<1>5. ASSUME NEW w \in Worker, BatchSucceed(w) PROVE ClaimColumns'
  BY <1>1, <1>5, RowFields DEF BatchSucceed, ClaimColumns, Laid
<1>6. ASSUME NEW h \in Holder, Fail(h) PROVE ClaimColumns'
  BY <1>1, <1>6, FailLays DEF LaysRow, Laid, ClaimColumns
<1>7. ASSUME NEW h \in Holder, ReleaseShutdown(h) PROVE ClaimColumns'
  BY <1>1, <1>7, ReleaseLays DEF LaysRow, Laid, ClaimColumns
<1>8. ASSUME NEW h \in Holder, Extend(h) PROVE ClaimColumns'
  BY <1>8, Extension DEF ClaimColumns
<1>9. ASSUME ReclaimExpired PROVE ClaimColumns'
  BY <1>1, <1>9, RowFields DEF ReclaimExpired, ClaimColumns, Laid
<1>10. ASSUME PurgeDeletes PROVE ClaimColumns'
  BY <1>1, <1>10, RowFields DEF PurgeDeletes, ClaimColumns, Laid
<1>11. ASSUME UNCHANGED row PROVE ClaimColumns'
  BY <1>11 DEF ClaimColumns
<1> QED
  BY <1>2, <1>3, <1>4, <1>5, <1>6, <1>7, <1>8, <1>9, <1>10, <1>11
  DEF Next, vars, Crash, LoseOutcome, PurgeSelects

-----------------------------------------------------------------------------
\* The part of FenceInv about copies.
Fence == OwnerCanSettle /\ StaleCopyCannotSettle /\ CopiesBehindRow /\ CopiesDistinct

\* Steps that touch neither the fenced columns nor the copies keep the fence.
LEMMA QuietKeepsFence ==
    ASSUME TypeOK, Fence,
           \A m \in Msg : /\ row'[m].attempt = row[m].attempt
                          /\ row'[m].claimedBy = row[m].claimedBy
                          /\ row'[m].status = "HANDLING" <=> row[m].status = "HANDLING",
           \A h \in Holder : held'[h].msg = held[h].msg /\ held'[h].attempt = held[h].attempt,
           UNCHANGED <<owner, tainted>>
    PROVE  Fence'
<1> USE Identifiers
<1>1. OwnerCanSettle /\ StaleCopyCannotSettle /\ CopiesBehindRow /\ CopiesDistinct
  BY Zenon DEF Fence
<1>2. OwnerCanSettle'
  BY <1>1 DEF OwnerCanSettle, Busy, Matches, TypeOK, Copy
<1>3. StaleCopyCannotSettle'
  BY <1>1 DEF StaleCopyCannotSettle, Busy, Matches, TypeOK, Copy
<1>4. CopiesBehindRow'
  BY <1>1 DEF CopiesBehindRow, Busy, TypeOK, Copy
<1>5. CopiesDistinct'
  BY <1>1 DEF CopiesDistinct, Busy, TypeOK, Copy
<1> QED
  BY Zenon, <1>2, <1>3, <1>4, <1>5 DEF Fence

\* A statement that ends claims (BatchSucceed, Fail, reclaim): the rows in S leave
\* HANDLING at the same attempt, and the copies in H are dropped.
LEMMA EndingKeepsFence ==
    ASSUME TypeOK, Fence, NEW S \in SUBSET Msg, NEW H \in SUBSET Holder,
           \A m \in S : row'[m].status # "HANDLING" /\ row'[m].attempt = row[m].attempt
                        /\ owner'[m] = None,
           \A m \in Msg \ S : row'[m] = row[m] /\ owner'[m] = owner[m],
           \A m \in Msg \ S : owner[m] \notin H,
           held' = [h \in Holder |-> IF h \in H THEN Idle ELSE held[h]],
           UNCHANGED tainted
    PROVE  Fence'
<1> USE Identifiers
<1>1. OwnerCanSettle /\ StaleCopyCannotSettle /\ CopiesBehindRow /\ CopiesDistinct
  BY Zenon DEF Fence
<1>2. OwnerCanSettle'
  <2>1. \A m \in Msg : owner'[m] # None =>
          owner'[m] = owner[m] /\ row'[m] = row[m] /\ held'[owner[m]] = held[owner[m]]
    BY DEF TypeOK
  <2> QED
    BY <1>1, <2>1 DEF OwnerCanSettle, Matches
<1>3. StaleCopyCannotSettle'
  BY <1>1 DEF StaleCopyCannotSettle, Busy, Matches, TypeOK, Copy, Idle
<1>4. CopiesBehindRow'
  BY <1>1 DEF CopiesBehindRow, Busy, TypeOK, Copy, Idle
<1>5. CopiesDistinct'
  BY <1>1 DEF CopiesDistinct, Busy, TypeOK, Copy, Idle
<1> QED
  BY Zenon, <1>2, <1>3, <1>4, <1>5 DEF Fence

\* A statement that ends claims and leaves the copies where they are (reclaim, purge).
LEMMA RowsEndFence ==
    ASSUME TypeOK, Fence, NEW S \in SUBSET Msg,
           \A m \in S : row'[m].status # "HANDLING" /\ row'[m].attempt = row[m].attempt
                        /\ owner'[m] = None,
           \A m \in Msg \ S : row'[m] = row[m] /\ owner'[m] = owner[m],
           UNCHANGED <<held, tainted>>
    PROVE  Fence'
<1>1. PICK H \in SUBSET Holder : H = {}
  BY Zenon
<1>2. held' = [h \in Holder |-> IF h \in H THEN Idle ELSE held[h]] /\ UNCHANGED tainted
  BY <1>1 DEF TypeOK
<1>3. \A m \in Msg \ S : owner[m] \notin H
  BY <1>1
<1> QED
  BY Zenon, <1>2, <1>3, EndingKeepsFence

\* The copies in H disappear without a write (lost outcome, crash).
LEMMA AbandoningKeepsFence ==
    ASSUME TypeOK, Fence, NEW H \in SUBSET Holder,
           held' = [h \in Holder |-> IF h \in H THEN Idle ELSE held[h]],
           owner' = [m \in Msg |-> IF owner[m] \in H THEN None ELSE owner[m]],
           UNCHANGED <<row, tainted>>
    PROVE  Fence'
<1> USE Identifiers
<1>1. OwnerCanSettle /\ StaleCopyCannotSettle /\ CopiesBehindRow /\ CopiesDistinct
  BY Zenon DEF Fence
<1>2. OwnerCanSettle'
  <2>1. \A m \in Msg : owner'[m] # None =>
          owner'[m] = owner[m] /\ row'[m] = row[m] /\ held'[owner[m]] = held[owner[m]]
    BY DEF TypeOK
  <2> QED
    BY SMTT(30), <1>1, <2>1 DEF OwnerCanSettle, Matches
<1>3. StaleCopyCannotSettle'
  BY <1>1 DEF StaleCopyCannotSettle, Busy, Matches, TypeOK, Copy, Idle
<1>4. CopiesBehindRow'
  BY <1>1 DEF CopiesBehindRow, Busy, TypeOK, Copy, Idle
<1>5. CopiesDistinct'
  BY <1>1 DEF CopiesDistinct, Busy, TypeOK, Copy, Idle
<1> QED
  BY Zenon, <1>2, <1>3, <1>4, <1>5 DEF Fence

\* Every step keeps the fence.
LEMMA FenceStep ==
    ASSUME TypeOK, ClaimColumns, Fence, [Next]_vars
    PROVE  Fence'
<1> USE Identifiers
<1>1. \A m \in Msg : row[m] \in Row
  BY DEF TypeOK
<1>2. ASSUME NEW m \in Msg, Enqueue(m) PROVE Fence'
  BY <1>1, <1>2, QuietKeepsFence DEF Enqueue, TypeOK, Row
<1>3. ASSUME NEW m \in Msg, BecomeDue(m) PROVE Fence'
  BY <1>1, <1>3, QuietKeepsFence DEF BecomeDue, TypeOK, Row
<1>4. ASSUME NEW m \in Msg, LeaseExpires(m) PROVE Fence'
  BY <1>1, <1>4, QuietKeepsFence DEF LeaseExpires, TypeOK, Row
<1>5. ASSUME NEW h \in Holder, Extend(h) PROVE Fence'
  BY <1>5, Extension, QuietKeepsFence
<1>6. ASSUME PurgeDeletes PROVE Fence'
  <2>1. PICK S \in SUBSET Msg :
          /\ row' = [m \in Msg |-> IF m \in S THEN Purged(row[m]) ELSE row[m]]
          /\ owner' = [m \in Msg |-> IF m \in S THEN None ELSE owner[m]]
    BY <1>6 DEF PurgeDeletes, TypeOK
  <2>2. \A m \in S : Laid(row'[m], row[m].attempt)
    BY <1>1, <2>1, RowFields
  <2>3. UNCHANGED <<held, tainted>>
    BY <1>6 DEF PurgeDeletes
  <2> QED
    BY <2>1, <2>2, <2>3, RowsEndFence DEF Laid
<1>7. ASSUME ReclaimExpired PROVE Fence'
  <2>1. PICK S \in SUBSET Msg :
          /\ row' = [m \in Msg |-> IF m \in S THEN Reclaimed(row[m]) ELSE row[m]]
          /\ owner' = [m \in Msg |-> IF m \in S THEN None ELSE owner[m]]
    BY <1>7 DEF ReclaimExpired
  <2>2. \A m \in S : Laid(row'[m], row[m].attempt)
    BY <1>1, <2>1, RowFields
  <2>3. UNCHANGED <<held, tainted>>
    BY <1>7 DEF ReclaimExpired
  <2> QED
    BY <2>1, <2>2, <2>3, RowsEndFence DEF Laid
<1>8. ASSUME NEW w \in Worker, BatchSucceed(w) PROVE Fence'
  <2> DEFINE hit(H) == {held[h].msg : h \in {g \in H : Matches(g)}}
  <2>1. PICK H \in SUBSET {h \in Holder : WorkerOf(h) = w /\ Busy(h)} :
          /\ row' = [m \in Msg |-> IF m \in hit(H) THEN Succeeded(row[m]) ELSE row[m]]
          /\ owner' = [m \in Msg |-> IF m \in hit(H) THEN None ELSE owner[m]]
          /\ held' = [h \in Holder |-> IF h \in H THEN Idle ELSE held[h]]
    BY Zenon, <1>8 DEF BatchSucceed
  <2>2. hit(H) \in SUBSET Msg
    BY DEF TypeOK, Copy, Busy
  <2>3. \A m \in hit(H) : Laid(row'[m], row[m].attempt)
    BY <1>1, <2>1, <2>2, RowFields
  <2>4. \A m \in Msg \ hit(H) : owner[m] \notin H
    BY DEF Fence, OwnerCanSettle
  <2>5. UNCHANGED tainted
    BY <1>8 DEF BatchSucceed
  <2> HIDE DEF hit
  <2> QED
    BY Zenon, <2>1, <2>2, <2>3, <2>4, <2>5, EndingKeepsFence DEF Laid
<1>9. ASSUME NEW h \in Holder, Fail(h) PROVE Fence'
  <2> DEFINE S == IF Matches(h) THEN {held[h].msg} ELSE {}
  <2>1. LaysRow(h, row[held[h].msg].attempt)
    BY <1>9, FailLays
  <2>2. \A m \in Msg \ S : owner[m] \notin {h}
    BY DEF Fence, OwnerCanSettle
  <2>3. held' = [g \in Holder |-> IF g \in {h} THEN Idle ELSE held[g]]
    BY Zenon, <2>1 DEF LaysRow, TypeOK
  <2>4. S \in SUBSET Msg /\ UNCHANGED tainted
    BY <1>9, <2>1 DEF LaysRow, Fail
  <2>5. \A m \in S : row'[m].status # "HANDLING" /\ row'[m].attempt = row[m].attempt
                      /\ owner'[m] = None
    BY <2>1 DEF LaysRow, Laid
  <2>6. \A m \in Msg \ S : row'[m] = row[m] /\ owner'[m] = owner[m]
    BY <2>1 DEF LaysRow
  <2> HIDE DEF S
  <2> QED
    BY Zenon, <2>2, <2>3, <2>4, <2>5, <2>6, EndingKeepsFence
<1>10. ASSUME NEW h \in Holder, ReleaseShutdown(h) PROVE Fence'
  <2> DEFINE m == held[h].msg
  <2>1. LaysRow(h, IF row[m].attempt = 0 THEN 0 ELSE row[m].attempt - 1) /\ UNCHANGED tainted
    BY <1>10, ReleaseLays DEF ReleaseShutdown
  <2>2. m \in Msg /\ row[m].attempt \in Nat
    BY <1>1, <2>1 DEF LaysRow, Row
  <2>0. /\ held'[h].msg = None /\ \A g \in Holder \ {h} : held'[g] = held[g]
        /\ \A n \in Msg \ {m} : row'[n] = row[n] /\ owner'[n] = owner[n]
        /\ IF Matches(h) THEN /\ row'[m].status # "HANDLING" /\ owner'[m] = None
                              /\ row'[m].attempt = IF row[m].attempt = 0 THEN 0
                                                   ELSE row[m].attempt - 1
                         ELSE row'[m] = row[m] /\ owner'[m] = owner[m]
    BY <2>1, <2>2 DEF LaysRow, Laid, TypeOK, Idle
  <2>3. OwnerCanSettle'
    <3>1. \A n \in Msg : owner'[n] # None =>
            owner'[n] = owner[n] /\ row'[n] = row[n] /\ held'[owner[n]] = held[owner[n]]
      BY <2>0, <2>2 DEF Fence, OwnerCanSettle, TypeOK
    <3> QED
      BY <3>1 DEF Fence, OwnerCanSettle, Matches
  <2>4. StaleCopyCannotSettle'
    <3> SUFFICES ASSUME NEW g \in Holder, Busy(g)', ~tainted'[held'[g].msg], Matches(g)'
                 PROVE  owner'[held'[g].msg] = g
      BY DEF StaleCopyCannotSettle
    <3>1. g # h /\ held'[g] = held[g] /\ held[g].msg \in Msg /\ Busy(g)
      BY <2>0 DEF Busy, TypeOK, Copy
    <3>2. /\ row'[held[g].msg] = row[held[g].msg]
          /\ owner'[held[g].msg] = owner[held[g].msg]
      BY <2>0, <3>1 DEF Matches
    <3> QED
      BY <2>1, <3>1, <3>2 DEF Fence, StaleCopyCannotSettle, Matches
  <2>5. CopiesBehindRow'
    <3> SUFFICES ASSUME NEW g \in Holder, Busy(g)', ~tainted'[held'[g].msg]
                 PROVE  held'[g].attempt <= row'[held'[g].msg].attempt
      BY DEF CopiesBehindRow
    <3>1. /\ g # h /\ held'[g] = held[g] /\ held[g].msg \in Msg /\ Busy(g)
          /\ ~tainted[held[g].msg] /\ held[g].attempt \in Nat
      BY <2>0, <2>1 DEF Busy, TypeOK, Copy
    <3>2. held[g].attempt <= row[held[g].msg].attempt
      BY Zenon, <3>1 DEF Fence, CopiesBehindRow
    <3>3. held[g].msg = m => held[g].attempt # held[h].attempt
      BY Zenon, <3>1 DEF Fence, CopiesDistinct
    <3> QED
      BY SMTT(30), <2>0, <2>2, <3>1, <3>2, <3>3 DEF Matches
  <2>6. CopiesDistinct'
    BY <2>1, <2>2 DEF LaysRow, Fence, CopiesDistinct, Busy, TypeOK, Copy, Idle
  <2> QED
    BY <2>3, <2>4, <2>5, <2>6 DEF Fence
<1>11. ASSUME NEW h \in Holder, LoseOutcome(h) PROVE Fence'
  <2>1. held' = [g \in Holder |-> IF g \in {h} THEN Idle ELSE held[g]]
    BY Zenon, <1>11 DEF LoseOutcome, TypeOK
  <2>2. owner' = [m \in Msg |-> IF owner[m] \in {h} THEN None ELSE owner[m]]
    BY <1>11 DEF LoseOutcome
  <2> QED
    BY ZenonT(30), <1>11, <2>1, <2>2, AbandoningKeepsFence DEF LoseOutcome
<1>12. ASSUME NEW w \in Worker, Crash(w) PROVE Fence'
  <2> DEFINE H == {h \in Holder : WorkerOf(h) = w}
  <2>1. held' = [h \in Holder |-> IF h \in H THEN Idle ELSE held[h]]
    BY <1>12 DEF Crash
  <2>2. owner' = [m \in Msg |-> IF owner[m] \in H THEN None ELSE owner[m]]
    BY <1>12 DEF Crash, TypeOK
  <2> QED
    BY Zenon, <1>12, <2>1, <2>2, AbandoningKeepsFence DEF Crash
<1>13. ASSUME NEW w \in Worker, Claim(w) PROVE Fence'
  <2>0. PICK G \in SUBSET FreeHolders(w) :
          \E pick \in [G -> Eligible], C \in SUBSET G : ClaimRows(w, G, pick, C)
    BY <1>13 DEF Claim
  <2>1. PICK pick \in [G -> Eligible], C \in SUBSET G : ClaimRows(w, G, pick, C)
    BY <2>0
  <2>R. Receive(w, G, pick)
    BY Zenon, <2>1, Received DEF ClaimRows
  <2> DEFINE picked == {pick[h] : h \in G}
  <2>2. /\ \A h \in G : h \in Holder /\ WorkerOf(h) = w /\ ~Busy(h)
        /\ \A h \in G : pick[h] \in Msg /\ row[pick[h]].status # "HANDLING"
        /\ \A h1, h2 \in G : pick[h1] = pick[h2] => h1 = h2
    BY <2>R DEF Receive, Pending
  <2>3. \A m \in picked : /\ row'[m].status = "HANDLING"
                          /\ row'[m].attempt = row[m].attempt + 1
                          /\ row'[m].claimedBy = w
    <3>1. ASSUME NEW m \in picked PROVE m \in Msg /\ row'[m] = Claimed(row[m], w)
      BY <2>1, <2>2 DEF ClaimRows
    <3> QED
      BY <1>1, <3>1, RowFields
  <2>4. \A m \in Msg \ picked : row'[m] = row[m] /\ owner'[m] = owner[m]
    BY <2>1 DEF ClaimRows
  <2>5. \A h \in G : owner'[pick[h]] = h
    BY <2>1, <2>2 DEF ClaimRows
  <2>6. \A h \in G : held'[h].msg = pick[h] /\ held'[h].attempt = row[pick[h]].attempt + 1
    BY Zenon, <2>R DEF Receive
  <2>7. /\ \A h \in Holder \ G : held'[h] = held[h]
        /\ UNCHANGED tainted
    BY Zenon, <2>1, <2>R DEF ClaimRows, Receive
  <2>8. \A m \in Msg : row[m].attempt \in Nat
    BY <1>1 DEF Row
  <2>9. \A m \in Msg : owner[m] # None => owner[m] \in Holder \ G
    BY <2>2 DEF TypeOK, Fence, OwnerCanSettle, Busy
  <2>10. OwnerCanSettle'
    <3>1. SUFFICES ASSUME NEW m \in Msg, owner'[m] # None
                   PROVE  /\ held'[owner'[m]].msg = m
                          /\ row'[m].status = "HANDLING"
                          /\ row'[m].attempt = held'[owner'[m]].attempt
                          /\ row'[m].claimedBy = WorkerOf(owner'[m])
      BY DEF OwnerCanSettle, Matches
    <3>2. CASE m \in picked
      <4>1. PICK h \in G : m = pick[h]
        BY <3>2
      <4>2. /\ owner'[m] = h /\ held'[h].msg = m /\ held'[h].attempt = row'[m].attempt
            /\ row'[m].status = "HANDLING" /\ row'[m].claimedBy = WorkerOf(h)
        BY <2>2, <2>3, <2>5, <2>6, <3>2, <4>1
      <4> QED
        BY <4>2
    <3>3. CASE m \notin picked
      <4>1. /\ row'[m] = row[m] /\ owner'[m] = owner[m] /\ held'[owner[m]] = held[owner[m]]
        BY <2>4, <2>7, <2>9, <3>1, <3>3
      <4> QED
        BY <3>1, <4>1 DEF Fence, OwnerCanSettle, Matches
    <3> QED
      BY <3>2, <3>3
  <2>11. CopiesBehindRow'
    BY <2>2, <2>3, <2>4, <2>6, <2>7, <2>8 DEF Fence, CopiesBehindRow, Busy, TypeOK, Copy
  <2>12. StaleCopyCannotSettle'
    BY SMTT(30), <2>2, <2>3, <2>4, <2>5, <2>6, <2>7, <2>8
    DEF Fence, StaleCopyCannotSettle, CopiesBehindRow, Matches, Busy, TypeOK, Copy
  <2>13. CopiesDistinct'
    BY <2>2, <2>6, <2>7, <2>8 DEF Fence, CopiesDistinct, CopiesBehindRow, Busy, TypeOK, Copy
  <2> QED
    BY <2>10, <2>11, <2>12, <2>13 DEF Fence
<1>14. ASSUME NEW w \in Worker, ClaimReturnsError(w) PROVE Fence'
  <2>1. PICK S \in SUBSET Eligible :
          row' = [m \in Msg |-> IF m \in S THEN Claimed(row[m], w) ELSE row[m]]
    BY <1>14 DEF ClaimReturnsError
  <2>2. \A m \in S : /\ m \in Msg /\ row[m].status # "HANDLING"
                     /\ row'[m].attempt = row[m].attempt + 1
    BY <1>1, <2>1, RowFields DEF Eligible, Pending
  <2>3. \A m \in Msg \ S : row'[m] = row[m]
    BY <2>1
  <2>4. UNCHANGED <<held, owner, tainted>> /\ \A m \in Msg : row[m].attempt \in Nat
    BY <1>1, <1>14 DEF ClaimReturnsError, Row
  <2>5. \A m \in S : owner[m] = None
    BY <2>2 DEF Fence, OwnerCanSettle, Matches
  <2>6. OwnerCanSettle'
    BY <2>3, <2>4, <2>5 DEF Fence, OwnerCanSettle, Matches
  <2>7. CopiesBehindRow' /\ CopiesDistinct'
    BY <2>2, <2>3, <2>4 DEF Fence, CopiesBehindRow, CopiesDistinct, Busy, TypeOK, Copy
  <2>8. StaleCopyCannotSettle'
    BY <2>2, <2>3, <2>4
    DEF Fence, StaleCopyCannotSettle, CopiesBehindRow, Matches, Busy, TypeOK, Copy
  <2> QED
    BY <2>6, <2>7, <2>8 DEF Fence
<1>15. ASSUME NEW m \in Msg, Requeue(m) PROVE Fence'
  <2>1. /\ \A n \in Msg \ {m} : row'[n] = row[n] /\ tainted'[n] = tainted[n]
        /\ row[m].status = "DEAD" /\ row'[m].status = "CREATED"
        /\ UNCHANGED <<held, owner>>
    BY <1>1, <1>15 DEF Requeue, TypeOK, Row
  <2>2. \A h \in Holder : held[h].msg = m => tainted'[m]
    BY Zenon, <1>15 DEF Requeue, TypeOK
  <2>3. owner[m] = None
    BY <2>1 DEF Fence, OwnerCanSettle, Matches
  <2>4. OwnerCanSettle'
    BY <2>1, <2>3 DEF Fence, OwnerCanSettle, Matches
  <2>5. StaleCopyCannotSettle' /\ CopiesBehindRow' /\ CopiesDistinct'
    BY <2>1, <2>2
    DEF Fence, StaleCopyCannotSettle, CopiesBehindRow, CopiesDistinct, Matches, Busy, TypeOK, Copy
  <2> QED
    BY <2>4, <2>5 DEF Fence
<1>16. CASE UNCHANGED vars \/ PurgeSelects
  BY <1>16, QuietKeepsFence DEF vars, PurgeSelects
<1> QED
  BY <1>2, <1>3, <1>4, <1>5, <1>6, <1>7, <1>8, <1>9, <1>10, <1>11, <1>12, <1>13,
     <1>14, <1>15, <1>16 DEF Next

-----------------------------------------------------------------------------
\* The empty table satisfies the invariant.
LEMMA FenceInit ==
    ASSUME Init PROVE FenceInv
<1>1. TypeOK
  BY Identifiers, IdleType DEF Init, TypeOK, Row, Status, Lease
<1> QED
  BY <1>1 DEF Init, FenceInv, ClaimColumns, OwnerCanSettle, StaleCopyCannotSettle,
     CopiesBehindRow,
     CopiesDistinct, Busy, Idle

\* Row, copies and ghost state of the storage model keep their types under every
\* interleaving of the adapter's statements with crashes and lost writes.
THEOREM TypeCorrect == Spec => []TypeOK
<1>1. Init => TypeOK
  BY FenceInit DEF FenceInv
<1>2. TypeOK /\ [Next]_vars => TypeOK'
  BY TypeStep
<1> QED
  BY <1>1, <1>2, PTL DEF Spec

\* The inductive invariant behind the attempt fence holds in every reachable state.
THEOREM FenceInvariant == Spec => []FenceInv
<1>1. Init => FenceInv
  BY FenceInit
<1>2. FenceInv /\ [Next]_vars => FenceInv'
  BY TypeStep, ColumnsStep, FenceStep DEF FenceInv, Fence
<1> QED
  BY <1>1, <1>2, PTL DEF Spec

\* A copy whose (status, attempt) WHERE clause matches is the row's current claim:
\* no stale worker settles a row that was reclaimed and claimed again.
THEOREM Fencing == Spec => []StaleCopyCannotSettle
<1>1. FenceInv => StaleCopyCannotSettle
  BY DEF FenceInv
<1> QED
  BY <1>1, FenceInvariant, PTL

\* The outcome write of the copy that owns a row always finds the row.
THEOREM OwnersWriteLands == Spec => []OwnerCanSettle
<1>1. FenceInv => OwnerCanSettle
  BY DEF FenceInv
<1> QED
  BY <1>1, FenceInvariant, PTL

\* HANDLING rows, and only they, carry claimed_by and claimed_until, so the
\* reclaimer's predicate misses none of them.
THEOREM ClaimColumnsAgree == Spec => []ClaimColumns
<1>1. FenceInv => ClaimColumns
  BY DEF FenceInv
<1> QED
  BY <1>1, FenceInvariant, PTL

-----------------------------------------------------------------------------
\* A copy belongs to its own chunk, whose copies went to one worker; an idle holder has
\* no chunk.
Chunked ==
    \A h \in Holder :
        /\ Busy(h) => /\ h \in DOMAIN held[h].chunk
                      /\ \A g \in DOMAIN held[h].chunk : WorkerOf(g) = WorkerOf(h)
        /\ ~Busy(h) => DOMAIN held[h].chunk = {} /\ ~held[h].cancelled

CancelInv == Chunked /\ CancelledOnlyWhenLost

\* What is left of a chunk stays what it is, or a copy goes and its message with it.
LEMMA EndingKeepsCancel ==
    ASSUME TypeOK, CancelInv,
           \A h \in Holder : held'[h] = held[h] \/ held'[h] = Idle,
           \A m \in Msg : owner'[m] = owner[m] \/ owner'[m] = None
    PROVE  CancelInv'
<1> USE Identifiers DEF CancelInv
<1>1. Chunked'
  BY IdleType DEF Chunked, Busy, Idle
<1>2. ASSUME NEW h \in Holder, held'[h].cancelled
      PROVE  \E g \in DOMAIN held'[h].chunk :
               owner'[held'[h].chunk[g]] # g \/ held'[g].chunk # held'[h].chunk
  <2>1. held'[h] = held[h] /\ h \in DOMAIN held[h].chunk
    BY <1>2, IdleType DEF Chunked
  <2>2. PICK g \in DOMAIN held[h].chunk :
          owner[held[h].chunk[g]] # g \/ held[g].chunk # held[h].chunk
    BY <1>2, <2>1 DEF CancelledOnlyWhenLost
  <2>3. g \in Holder /\ held[h].chunk[g] \in Msg
    BY ChunkTypes DEF TypeOK, Copy
  <2>4. held[g].chunk # held[h].chunk => held'[g].chunk # held[h].chunk
    BY <2>1, <2>3, IdleType
  <2>5. owner[held[h].chunk[g]] # g => owner'[held[h].chunk[g]] # g
    BY <2>3
  <2> QED
    BY <2>1, <2>2, <2>4, <2>5
<1>3. CancelledOnlyWhenLost'
  BY <1>2 DEF CancelledOnlyWhenLost
<1> QED
  BY <1>1, <1>3

\* A claim hands out new chunks, which are none of those that exist; the row of a message
\* passes only to a holder that receives it.
LEMMA HandOutKeepsCancel ==
    ASSUME TypeOK, CancelInv, NEW w \in Worker, NEW G \in SUBSET FreeHolders(w),
           NEW pick \in [G -> Eligible], NEW C \in SUBSET G, HandOut(G, pick, C),
           \A m \in Msg : owner'[m] = owner[m] \/ owner'[m] \in G
    PROVE  CancelInv'
<1> USE DEF CancelInv
<1>1. /\ \A h \in G : /\ h \in Holder /\ WorkerOf(h) = w /\ ~Busy(h) /\ ~held'[h].cancelled
                      /\ held'[h].msg \in Msg
                      /\ h \in DOMAIN held'[h].chunk /\ DOMAIN held'[h].chunk \subseteq G
      /\ \A h \in Holder \ G : held'[h] = held[h]
  <2>1. Receive(w, G, pick)
    BY Zenon, Received
  <2> QED
    BY <2>1 DEF Receive
<1>2. Chunked'
  <2> SUFFICES ASSUME NEW h \in Holder
               PROVE  /\ Busy(h)' => /\ h \in DOMAIN held'[h].chunk
                                     /\ \A g \in DOMAIN held'[h].chunk : WorkerOf(g) = WorkerOf(h)
                      /\ ~Busy(h)' => DOMAIN held'[h].chunk = {} /\ ~held'[h].cancelled
    BY DEF Chunked
  <2>1. CASE h \in G
    BY <1>1, <2>1, Identifiers DEF Busy
  <2>2. CASE h \notin G
    BY <1>1, <2>2 DEF Chunked, Busy
  <2> QED
    BY Zenon, <2>1, <2>2
<1>3. ASSUME NEW h \in Holder, held'[h].cancelled
      PROVE  \E g \in DOMAIN held'[h].chunk :
               owner'[held'[h].chunk[g]] # g \/ held'[g].chunk # held'[h].chunk
  <2>1. h \notin G /\ held'[h] = held[h] /\ h \in DOMAIN held[h].chunk
    BY <1>1, <1>3 DEF Chunked
  <2>2. PICK g \in DOMAIN held[h].chunk :
          owner[held[h].chunk[g]] # g \/ held[g].chunk # held[h].chunk
    BY <1>3, <2>1 DEF CancelledOnlyWhenLost
  <2>3. g \in Holder /\ held[h].chunk[g] \in Msg
    BY ChunkTypes DEF TypeOK, Copy
  <2>4. CASE g \in G
    BY Zenon, <1>1, <2>1, <2>4
  <2>5. CASE g \notin G
    <3>1. held'[g] = held[g]
      BY Zenon, <1>1, <2>3, <2>5
    <3>2. owner[held[h].chunk[g]] # g => owner'[held[h].chunk[g]] # g
      BY Zenon, <2>3, <2>5
    <3> QED
      BY Zenon, <2>1, <2>2, <3>1, <3>2
  <2> QED
    BY <2>4, <2>5
<1>4. CancelledOnlyWhenLost'
  BY <1>3 DEF CancelledOnlyWhenLost
<1> QED
  BY <1>2, <1>4

\* The extender cancels a chunk because of a message whose row it could not extend, so the
\* claim that the chunk had on it is over.
LEMMA ExtendKeepsCancel ==
    ASSUME TypeOK, OwnerCanSettle, CancelInv, NEW h \in Holder, Extend(h)
    PROVE  CancelInv'
<1> USE DEF CancelInv
<1>1. PICK g \in DOMAIN held[h].chunk :
        LET m == held[h].chunk[g]
        IN  \/ UNCHANGED held
            \/ /\ ~(row[m].status = "HANDLING" /\ row[m].claimedBy = WorkerOf(h))
               /\ CancelChunk(h)
  BY DEF Extend
<1>2. /\ \A k \in Holder : held'[k].msg = held[k].msg /\ held'[k].chunk = held[k].chunk
      /\ UNCHANGED owner
  BY Extension
<1>3. CASE UNCHANGED held
  BY <1>2, <1>3 DEF Chunked, CancelledOnlyWhenLost, Busy
<1>4. CASE /\ ~(row[held[h].chunk[g]].status = "HANDLING"
                 /\ row[held[h].chunk[g]].claimedBy = WorkerOf(h))
           /\ CancelChunk(h)
  <2>1. g \in Holder /\ held[h].chunk[g] \in Msg
    BY ChunkTypes DEF TypeOK, Copy
  <2>2. WorkerOf(g) = WorkerOf(h) /\ DOMAIN held[h].chunk # {}
    BY DEF Chunked, Extend
  <2>3. owner[held[h].chunk[g]] # g
    BY <1>4, <2>1, <2>2, Identifiers DEF OwnerCanSettle, Matches
  <2>4. \A k \in Holder : /\ held'[k].cancelled => held[k].cancelled \/ held[k].chunk = held[h].chunk
                          /\ held[k].chunk # held[h].chunk => held'[k] = held[k]
    BY <1>4 DEF CancelChunk
  <2>5. Chunked'
    BY <1>2, <2>2, <2>4 DEF Chunked, Busy
  <2>6. ASSUME NEW k \in Holder, held'[k].cancelled
        PROVE  \E q \in DOMAIN held'[k].chunk :
                 owner'[held'[k].chunk[q]] # q \/ held'[q].chunk # held'[k].chunk
    <3>1. CASE held[k].chunk = held[h].chunk
      BY <1>2, <2>3, <3>1
    <3>2. CASE held[k].chunk # held[h].chunk
      <4>1. PICK q \in DOMAIN held[k].chunk :
              owner[held[k].chunk[q]] # q \/ held[q].chunk # held[k].chunk
        BY <2>4, <2>6, <3>2 DEF CancelledOnlyWhenLost
      <4>2. q \in Holder
        BY ChunkTypes DEF TypeOK, Copy
      <4> QED
        BY <1>2, <4>1, <4>2
    <3> QED
      BY <3>1, <3>2
  <2>7. CancelledOnlyWhenLost'
    BY <2>6 DEF CancelledOnlyWhenLost
  <2> QED
    BY <2>5, <2>7
<1> QED
  BY <1>1, <1>3, <1>4

\* Every step keeps the reason of every cancellation.
LEMMA CancelStep ==
    ASSUME TypeOK, OwnerCanSettle, CancelInv, [Next]_vars
    PROVE  CancelInv'
<1> USE Identifiers
<1>1. ASSUME NEW w \in Worker, Claim(w) PROVE CancelInv'
  <2>0. PICK G \in SUBSET FreeHolders(w) :
          \E pick \in [G -> Eligible], C \in SUBSET G : ClaimRows(w, G, pick, C)
    BY <1>1 DEF Claim
  <2>1. PICK pick \in [G -> Eligible], C \in SUBSET G : ClaimRows(w, G, pick, C)
    BY <2>0
  <2>2. HandOut(G, pick, C) /\ \A m \in Msg : owner'[m] = owner[m] \/ owner'[m] \in G
    BY <2>1 DEF ClaimRows
  <2> QED
    BY <2>2, HandOutKeepsCancel
<1>2. ASSUME NEW h \in Holder, Extend(h) PROVE CancelInv'
  BY <1>2, ExtendKeepsCancel
<1>3. ASSUME NEW w \in Worker, BatchSucceed(w) PROVE CancelInv'
  BY <1>3, EndingKeepsCancel DEF BatchSucceed
<1>4. ASSUME NEW w \in Worker, Crash(w) PROVE CancelInv'
  BY <1>4, EndingKeepsCancel DEF Crash
<1>5. ASSUME NEW h \in Holder, Fail(h) \/ ReleaseShutdown(h) PROVE CancelInv'
  BY Zenon, <1>5, FailLays, ReleaseLays, EndingKeepsCancel DEF LaysRow, TypeOK
<1>6. ASSUME NEW h \in Holder, LoseOutcome(h) PROVE CancelInv'
  BY <1>6, EndingKeepsCancel DEF LoseOutcome, TypeOK
<1>7. ASSUME ReclaimExpired \/ PurgeDeletes PROVE CancelInv'
  BY <1>7, EndingKeepsCancel DEF ReclaimExpired, PurgeDeletes
<1>8. ASSUME UNCHANGED <<held, owner>> PROVE CancelInv'
  BY <1>8, EndingKeepsCancel
<1> QED
  BY Zenon, <1>1, <1>2, <1>3, <1>4, <1>5, <1>6, <1>7, <1>8
  DEF Next, vars, Enqueue, BecomeDue, LeaseExpires, Requeue, ClaimReturnsError, PurgeSelects

\* At first nobody has a copy.
LEMMA CancelInit ==
    ASSUME Init PROVE CancelInv
BY IdleType DEF Init, CancelInv, Chunked, CancelledOnlyWhenLost, Busy, Idle

\* The lease extender cancels an attempt, and with it the chunk it belongs to, only when the
\* claim of one of the chunk's messages is over (engine.go, extendLoop and extendBatchLoop).
THEOREM NoSpuriousCancel == Spec => []CancelledOnlyWhenLost
<1>1. Init => CancelInv
  BY CancelInit
<1>2. FenceInv /\ CancelInv /\ [Next]_vars => CancelInv'
  BY CancelStep DEF FenceInv
<1>3. CancelInv => CancelledOnlyWhenLost
  BY DEF CancelInv
<1> QED
  BY <1>1, <1>2, <1>3, FenceInvariant, PTL DEF Spec

-----------------------------------------------------------------------------
\* One row's share of AttemptsAccounted, strengthened for rows not inserted yet.
Accounted(r, n) ==
    /\ r.attempt <= MaxAttempts + n
    /\ r.status \in Pending \cup {"ABSENT"} => r.attempt < MaxAttempts + n

AccountedInv == \A m \in Msg : Accounted(row[m], lapses[m])

\* What each statement's row update does to the accounting.
LEMMA AccountedRows ==
    ASSUME NEW r \in Row, NEW n \in Nat, Accounted(r, n)
    PROVE  /\ r.status \in Pending => \A w \in Worker : Accounted(Claimed(r, w), n)
           /\ Accounted(Succeeded(r), n)
           /\ Accounted(Purged(r), n)
           /\ Accounted(Released(r), n)
           /\ Accounted(Reclaimed(r), n + 1)
           /\ \A dead, due \in BOOLEAN :
                dead \/ r.attempt < MaxAttempts => Accounted(Failed(r, dead, due), n)
<1> USE OutboxAssumption
<1>0. r.attempt \in Nat /\ MaxAttempts \in Nat
  BY DEF Row
<1>1. \A w \in Worker : Claimed(r, w).status = "HANDLING" /\ Claimed(r, w).attempt = r.attempt + 1
  BY RowFields
<1>2. Succeeded(r).status = "SUCCESS" /\ Succeeded(r).attempt = r.attempt
  BY DEF Succeeded, Unclaimed, Row
<1>9. Purged(r).status = "PURGED" /\ Purged(r).attempt = r.attempt
  BY DEF Purged, Unclaimed, Row
<1>3. Released(r).attempt = IF r.attempt = 0 THEN 0 ELSE r.attempt - 1
  BY Zenon, RowFields DEF Laid
<1>4. Reclaimed(r).attempt = r.attempt
  BY Zenon, RowFields DEF Laid
<1>5. ASSUME NEW due \in BOOLEAN
      PROVE  /\ Failed(r, TRUE, due).status = "DEAD" /\ Failed(r, TRUE, due).attempt = r.attempt
             /\ Failed(r, FALSE, due).attempt = r.attempt
  BY DEF Failed, Unclaimed, Row
<1>6. ASSUME NEW due \in BOOLEAN
      PROVE  /\ Accounted(Failed(r, TRUE, due), n)
             /\ r.attempt < MaxAttempts => Accounted(Failed(r, FALSE, due), n)
  <2> DEFINE d == Failed(r, TRUE, due)
             a == Failed(r, FALSE, due)
  <2>1. d.status = "DEAD" /\ d.attempt = r.attempt /\ a.attempt = r.attempt
    BY Zenon, <1>5
  <2> HIDE DEF d, a
  <2>2. Accounted(d, n) /\ (r.attempt < MaxAttempts => Accounted(a, n))
    BY <1>0, <2>1 DEF Accounted, Pending
  <2> QED
    BY Zenon, <2>2 DEF d, a
<1>7. r.status \in Pending => \A w \in Worker : Accounted(Claimed(r, w), n)
  BY <1>0, <1>1 DEF Accounted, Pending
<1>8. Accounted(Succeeded(r), n) /\ Accounted(Released(r), n) /\ Accounted(Reclaimed(r), n + 1)
  BY <1>0, <1>2, <1>3, <1>4 DEF Accounted, Pending
<1>10. Accounted(Purged(r), n)
  BY <1>0, <1>9 DEF Accounted, Pending
<1> QED
  BY Zenon, <1>6, <1>7, <1>8, <1>10

\* Every step keeps the accounting of deliveries.
LEMMA AccountedStep ==
    ASSUME TypeOK, AccountedInv, [Next]_vars
    PROVE  AccountedInv'
<1>1. \A m \in Msg : row[m] \in Row /\ lapses[m] \in Nat /\ Accounted(row[m], lapses[m])
  BY DEF TypeOK, AccountedInv
<1>2. SUFFICES ASSUME NEW m \in Msg PROVE Accounted(row'[m], lapses'[m])
  BY DEF AccountedInv
<1>3. ASSUME row'[m].attempt = row[m].attempt, lapses'[m] = lapses[m],
             row'[m].status \in Pending \cup {"ABSENT"} => row[m].status \in Pending \cup {"ABSENT"}
      PROVE  Accounted(row'[m], lapses'[m])
  BY <1>1, <1>3 DEF Accounted
<1>4. ASSUME row'[m].attempt = 0, lapses'[m] \in Nat PROVE Accounted(row'[m], lapses'[m])
  BY <1>4, OutboxAssumption DEF Accounted
<1>5. ASSUME NEW n \in Msg, Enqueue(n) \/ BecomeDue(n) \/ LeaseExpires(n) \/ Requeue(n)
      PROVE  Accounted(row'[m], lapses'[m])
  <2>1. CASE Enqueue(n)
    <3>1. CASE m = n
      BY <1>1, <1>3, <2>1, <3>1 DEF Enqueue, TypeOK, Row
    <3>2. CASE m # n
      BY <1>1, <2>1, <3>2 DEF Enqueue, TypeOK
    <3> QED
      BY <3>1, <3>2
  <2>2. CASE BecomeDue(n)
    BY <1>1, <1>3, <2>2 DEF BecomeDue, TypeOK, Row
  <2>3. CASE LeaseExpires(n)
    BY <1>1, <1>3, <2>3 DEF LeaseExpires, TypeOK, Row
  <2>4. CASE Requeue(n)
    <3>1. CASE m = n
      BY <1>1, <1>4, <2>4, <3>1 DEF Requeue, TypeOK, Row
    <3>2. CASE m # n
      BY <1>1, <2>4, <3>2 DEF Requeue, TypeOK
    <3> QED
      BY <3>1, <3>2
  <2> QED
    BY <1>5, <2>1, <2>2, <2>3, <2>4
<1>6. ASSUME NEW w \in Worker, Claim(w) PROVE Accounted(row'[m], lapses'[m])
  BY <1>1, <1>6, AccountedRows DEF Claim, ClaimRows, Eligible
<1>7. ASSUME NEW w \in Worker, ClaimReturnsError(w) PROVE Accounted(row'[m], lapses'[m])
  BY <1>1, <1>7, AccountedRows DEF ClaimReturnsError, Eligible
<1>8. ASSUME NEW w \in Worker, BatchSucceed(w) PROVE Accounted(row'[m], lapses'[m])
  <2>1. row'[m] \in {row[m], Succeeded(row[m])} /\ lapses'[m] = lapses[m]
    BY <1>8 DEF BatchSucceed
  <2> QED
    BY <1>1, <2>1, AccountedRows
<1>9. ASSUME NEW h \in Holder, Fail(h) PROVE Accounted(row'[m], lapses'[m])
  <2>1. PICK dead \in BOOLEAN, due \in BOOLEAN :
          /\ held[h].attempt >= MaxAttempts => dead
          /\ Settle(h, Failed(row[held[h].msg], dead, due))
    BY <1>9 DEF Fail
  <2>2. held[h].attempt \in Nat /\ MaxAttempts \in Nat /\ lapses' = lapses
    BY <1>9, OutboxAssumption DEF Fail, TypeOK, Copy
  <2>3. CASE Matches(h) /\ held[h].msg = m
    <3>1. dead \/ row[m].attempt < MaxAttempts
      BY <2>1, <2>2, <2>3 DEF Matches
    <3>2. row'[m] = Failed(row[m], dead, due)
      BY <2>1, <2>3 DEF Settle, TypeOK
    <3> QED
      BY <1>1, <2>2, <3>1, <3>2, AccountedRows
  <2>4. CASE ~(Matches(h) /\ held[h].msg = m)
    BY <1>1, <2>1, <2>2, <2>4 DEF Settle, TypeOK
  <2> QED
    BY <2>3, <2>4
<1>10. ASSUME NEW h \in Holder, ReleaseShutdown(h) PROVE Accounted(row'[m], lapses'[m])
  BY <1>1, <1>10, AccountedRows DEF ReleaseShutdown, Settle, TypeOK
<1>11. ASSUME NEW h \in Holder, Extend(h) PROVE Accounted(row'[m], lapses'[m])
  BY Zenon, <1>3, <1>11, Extension
<1>12. ASSUME ReclaimExpired PROVE Accounted(row'[m], lapses'[m])
  <2>1. \/ row'[m] = row[m] /\ lapses'[m] = lapses[m]
        \/ row'[m] = Reclaimed(row[m]) /\ lapses'[m] = lapses[m] + 1
    BY Zenon, <1>12 DEF ReclaimExpired
  <2> QED
    BY Zenon, <1>1, <2>1, AccountedRows
<1>13. ASSUME PurgeDeletes PROVE Accounted(row'[m], lapses'[m])
  <2>1. row'[m] \in {row[m], Purged(row[m])} /\ lapses'[m] = lapses[m]
    BY Zenon, <1>13 DEF PurgeDeletes
  <2> QED
    BY Zenon, <1>1, <2>1, AccountedRows
<1>14. ASSUME UNCHANGED <<row, lapses>> PROVE Accounted(row'[m], lapses'[m])
  BY <1>1, <1>14
<1> QED
  BY <1>5, <1>6, <1>7, <1>8, <1>9, <1>10, <1>11, <1>12, <1>13, <1>14
  DEF Next, vars, Crash, LoseOutcome, PurgeSelects

\* A message is delivered more often than max_attempts only by as many deliveries
\* as it had leases lapse: failures and shutdown releases stay within the budget.
THEOREM DeliveriesAccounted == Spec => []AttemptsAccounted
<1>1. Init => AccountedInv
  BY OutboxAssumption DEF Init, AccountedInv, Accounted
<1>2. TypeOK /\ AccountedInv /\ [Next]_vars => AccountedInv'
  BY AccountedStep
<1>3. AccountedInv => AttemptsAccounted
  BY DEF AccountedInv, Accounted, AttemptsAccounted
<1> QED
  BY <1>1, <1>2, <1>3, TypeCorrect, PTL DEF Spec
-----------------------------------------------------------------------------
\* The refinement of LeaseQueue.

\* The abstract state of each message, and the message each holder has a copy of.
States == [m \in Msg |-> Phase(row[m].status)]
Copies == [h \in Holder |-> held[h].msg]

\* The phases of the statuses, one by one.
LEMMA Phases ==
    /\ Phase("ABSENT") = "none" /\ Phase("CREATED") = "ready" /\ Phase("RETRYING") = "ready"
    /\ Phase("HANDLING") = "taken" /\ Phase("SUCCESS") = "done" /\ Phase("DEAD") = "dead"
    /\ Phase("PURGED") = "gone"
BY DEF Phase, Pending

\* The phases of the rows the statements write.
LEMMA RowPhases ==
    ASSUME NEW r \in Row
    PROVE  /\ \A w : Phase(Claimed(r, w).status) = "taken"
           /\ Phase(Succeeded(r).status) = "done"
           /\ \A due : Phase(Failed(r, TRUE, due).status) = "dead"
           /\ \A due : Phase(Failed(r, FALSE, due).status) = "ready"
           /\ Phase(Released(r).status) = "ready"
           /\ Phase(Reclaimed(r).status) = "ready"
           /\ Phase(Purged(r).status) = "gone"
<1>1. /\ \A w : Claimed(r, w).status = "HANDLING"
      /\ Succeeded(r).status = "SUCCESS"
      /\ \A due : Failed(r, TRUE, due).status = "DEAD"
      /\ \A due : Failed(r, FALSE, due).status = "RETRYING"
      /\ Released(r).status = "RETRYING" /\ Reclaimed(r).status = "RETRYING"
  BY DEF Row, Claimed, Succeeded, Failed, Released, Reclaimed, Unclaimed
<1>2. Purged(r).status = "PURGED"
  BY DEF Row, Purged, Unclaimed
<1> QED BY Zenon, <1>1, <1>2, Phases

\* Steps of the abstract queue in terms of the table.
LEMMA PutStep ==
    ASSUME TypeOK, NEW m \in Msg, Enqueue(m)
    PROVE  LQ!Put(m)
<1>1. row[m] \in Row
  BY DEF TypeOK
<1>2. PICK due \in BOOLEAN :
        row' = [row EXCEPT ![m] = [@ EXCEPT !.status = "CREATED", !.due = due]]
  BY Zenon DEF Enqueue
<1>3. row'[m].status = "CREATED" /\ \A n \in Msg \ {m} : row'[n] = row[n]
  BY <1>1, <1>2 DEF TypeOK, Row
<1>4. States' = [States EXCEPT ![m] = "ready"] /\ States[m] = "none"
  BY Zenon, <1>3, Phases DEF States, Enqueue
<1> QED BY <1>4 DEF LQ!Put, States, Copies, Enqueue

\* A requeue revives the message.
LEMMA ReviveStep ==
    ASSUME TypeOK, NEW m \in Msg, Requeue(m)
    PROVE  LQ!Revive(m)
<1>1. row[m] \in Row
  BY DEF TypeOK
<1>2. PICK due \in BOOLEAN :
        row' = [row EXCEPT ![m] = [@ EXCEPT !.status = "CREATED", !.attempt = 0, !.due = due]]
  BY Zenon DEF Requeue
<1>3. row'[m].status = "CREATED" /\ \A n \in Msg \ {m} : row'[n] = row[n]
  BY <1>1, <1>2 DEF TypeOK, Row
<1>4. States' = [States EXCEPT ![m] = "ready"] /\ States[m] = "dead"
  BY Zenon, <1>3, Phases DEF States, Requeue
<1>5. tainted' = [tainted EXCEPT ![m] = @ \/ \E h \in Holder : Copies[h] = m]
  BY Zenon DEF Requeue, Copies
<1> QED BY <1>4, <1>5 DEF LQ!Revive, States, Copies, Requeue

\* A claim lets the copies that receive a row take one ready message each.
LEMMA TakeStep ==
    ASSUME TypeOK, NEW w \in Worker, Claim(w)
    PROVE  LQ!Next
<1>0. PICK G \in SUBSET FreeHolders(w) :
        \E pick \in [G -> Eligible], C \in SUBSET G : ClaimRows(w, G, pick, C)
  BY DEF Claim
<1>1. PICK pick \in [G -> Eligible], C \in SUBSET G : ClaimRows(w, G, pick, C)
  BY <1>0
<1>R. Receive(w, G, pick)
  BY Zenon, <1>1, Received DEF ClaimRows
<1>2. \A m \in Msg : row[m] \in Row
  BY DEF TypeOK
<1>3. \A h \in G : h \in Holder /\ Copies[h] = None /\ pick[h] \in Msg
                   /\ States[pick[h]] = "ready"
  BY Phases DEF FreeHolders, Busy, Copies, Eligible, States, Pending
<1>4. States' = [m \in Msg |-> IF \E h \in G : pick[h] = m THEN "taken" ELSE States[m]]
  <2>1. ASSUME NEW m \in Msg, NEW h \in G, pick[h] = m PROVE Phase(row'[m].status) = "taken"
    BY Zenon, <1>1, <1>2, <2>1, RowPhases DEF ClaimRows
  <2>2. ASSUME NEW m \in Msg, ~ \E h \in G : pick[h] = m PROVE row'[m] = row[m]
    BY <1>1, <2>2 DEF ClaimRows
  <2> QED
    BY <2>1, <2>2 DEF States
<1>5. owner' = [m \in Msg |-> IF \E h \in G : pick[h] = m
                              THEN CHOOSE h \in G : pick[h] = m ELSE owner[m]]
  BY <1>1 DEF ClaimRows
<1>6. Copies' = [h \in Holder |-> IF h \in G THEN pick[h] ELSE Copies[h]]
  BY <1>R DEF Receive, Copies
<1>7. (\A h1, h2 \in G : pick[h1] = pick[h2] => h1 = h2) /\ UNCHANGED <<tainted, doomed>>
  BY Zenon, <1>1, <1>R DEF ClaimRows, Receive
<1>8. LQ!Take(G, pick)
  BY Zenon, <1>4, <1>5, <1>6, <1>7 DEF LQ!Take, States, Copies
<1>9. G \in SUBSET (Holder \ LQ!Holding)
  BY <1>3 DEF LQ!Holding, Copies
<1>10. pick \in [G -> LQ!In({"ready"})]
  BY <1>3 DEF LQ!In, States
<1> QED
  BY Zenon, <1>8, <1>9, <1>10 DEF LQ!Next

\* A claim whose answer is an error takes messages for nobody.
LEMMA TakeForNobodyStep ==
    ASSUME TypeOK, NEW w \in Worker, ClaimReturnsError(w)
    PROVE  LQ!Next
<1>1. PICK S \in SUBSET Eligible :
        row' = [m \in Msg |-> IF m \in S THEN Claimed(row[m], w) ELSE row[m]]
  BY DEF ClaimReturnsError
<1>2. S \in SUBSET LQ!In({"ready"})
  BY Phases DEF Eligible, Pending, LQ!In
<1>3. States' = [m \in Msg |-> IF m \in S THEN "taken" ELSE States[m]]
  BY Zenon, <1>1, RowPhases DEF States, TypeOK
<1>4. LQ!TakeForNobody(S)
  BY Zenon, <1>2, <1>3 DEF LQ!TakeForNobody, States, Copies, ClaimReturnsError
<1> QED
  BY Zenon, <1>2, <1>4 DEF LQ!Next

\* An outcome of the copies in H that reaches the rows they match settles the messages
\* they have and, of the messages requeued under a copy, those that match.
LEMMA SettleStep ==
    ASSUME TypeOK, OwnerCanSettle, StaleCopyCannotSettle,
           NEW H \in SUBSET Holder, \A h \in H : Busy(h),
           NEW hit, hit = {held[h].msg : h \in {g \in H : Matches(g)}},
           NEW to \in {"done", "dead", "ready"},
           States' = [m \in Msg |-> IF m \in hit THEN to ELSE States[m]],
           owner' = [m \in Msg |-> IF m \in hit THEN None ELSE owner[m]],
           Copies' = [h \in Holder |-> IF h \in H THEN None ELSE Copies[h]],
           UNCHANGED <<tainted, doomed>>
    PROVE  LQ!Next
<1> DEFINE S == {m \in hit : tainted[m]}
<1> DEFINE theirs == {m \in Msg : owner[m] \in H} \cup S
<1>1. \A m \in hit : m \in Msg /\ row[m].status = "HANDLING" /\ \E h \in H : held[h].msg = m
  BY DEF TypeOK, Copy, Busy, Matches
<1>2. \A m \in Msg : owner[m] \in H => m \in hit
  BY Identifiers DEF OwnerCanSettle
<1>3. \A m \in hit : ~tainted[m] => owner[m] \in H
  BY SMTT(30), <1>1 DEF StaleCopyCannotSettle
<1>4. theirs = hit
  BY <1>1, <1>2, <1>3
<1>5. \A m \in hit : States[m] = "taken" /\ \E h \in H : Copies[h] = m
  BY Zenon, <1>1, Phases DEF States, Copies
<1>6. S \in SUBSET {m \in Msg : tainted[m]}
  BY Zenon, <1>1
<1>7. LQ!Settle(H, S, to)
  BY ZenonT(30), <1>4, <1>5 DEF LQ!Settle, States, Copies
<1>8. H \in SUBSET LQ!Holding
  BY DEF Busy, LQ!Holding
<1> QED
  BY Zenon, <1>6, <1>7, <1>8 DEF LQ!Next

\* The outcome of one copy.
LEMMA SettleOneStep ==
    ASSUME TypeOK, OwnerCanSettle, StaleCopyCannotSettle,
           NEW h \in Holder, Busy(h), NEW new, Settle(h, new),
           UNCHANGED <<tainted, doomed>>,
           NEW to \in {"dead", "ready"}, Phase(new.status) = to
    PROVE  LQ!Next
<1> DEFINE hit == {held[k].msg : k \in {g \in {h} : Matches(g)}}
<1>1. held[h].msg \in Msg
  BY DEF TypeOK, Copy, Busy
<1>2. \A m \in Msg : m \in hit <=> m = held[h].msg /\ Matches(h)
  BY Zenon
<1>3. States' = [m \in Msg |-> IF m \in hit THEN to ELSE States[m]]
  BY <1>1, <1>2 DEF States, Settle, TypeOK
<1>4. owner' = [m \in Msg |-> IF m \in hit THEN None ELSE owner[m]]
  BY <1>1, <1>2 DEF Settle, TypeOK
<1>5. Copies' = [k \in Holder |-> IF k \in {h} THEN None ELSE Copies[k]]
  BY Zenon DEF Settle, TypeOK, Copies, Idle
<1>6. /\ {h} \in SUBSET Holder /\ (\A k \in {h} : Busy(k))
      /\ to \in {"done", "dead", "ready"}
  OBVIOUS
<1> HIDE DEF hit
<1>7. hit = {held[k].msg : k \in {g \in {h} : Matches(g)}}
  BY DEF hit
<1> QED
  BY Zenon, <1>3, <1>4, <1>5, <1>6, <1>7, SettleStep

\* Copies that disappear without a write abandon what they had.
LEMMA AbandonStep ==
    ASSUME NEW H \in SUBSET Holder, \A h \in H : Busy(h),
           Copies' = [h \in Holder |-> IF h \in H THEN None ELSE Copies[h]],
           owner' = [m \in Msg |-> IF owner[m] \in H THEN None ELSE owner[m]],
           UNCHANGED <<row, tainted, doomed>>
    PROVE  LQ!Next
<1>1. LQ!Abandon(H)
  BY Zenon DEF LQ!Abandon, Copies
<1>2. H \in SUBSET LQ!Holding
  BY DEF Busy, LQ!Holding
<1> QED
  BY Zenon, <1>1, <1>2 DEF LQ!Next

\* The reclaimer takes messages back.
LEMMA TakeBackStep ==
    ASSUME TypeOK, ReclaimExpired
    PROVE  LQ!Next
<1>1. PICK S \in SUBSET {m \in Msg : row[m].status = "HANDLING" /\ row[m].lease = "expired"} :
        /\ row' = [m \in Msg |-> IF m \in S THEN Reclaimed(row[m]) ELSE row[m]]
        /\ owner' = [m \in Msg |-> IF m \in S THEN None ELSE owner[m]]
        /\ UNCHANGED <<held, tainted, doomed>>
  BY DEF ReclaimExpired
<1>2. S \in SUBSET LQ!In({"taken"})
  BY Phases DEF LQ!In
<1>3. States' = [m \in Msg |-> IF m \in S THEN "ready" ELSE States[m]]
  BY Zenon, <1>1, RowPhases DEF States, TypeOK
<1>4. LQ!TakeBack(S)
  BY Zenon, <1>1, <1>2, <1>3 DEF LQ!TakeBack, States
<1> QED
  BY Zenon, <1>2, <1>4 DEF LQ!Next

\* The janitor's subquery marks messages ...
LEMMA MarkStep ==
    ASSUME PurgeSelects
    PROVE  LQ!Next
<1>1. PICK S \in SUBSET {m \in Msg : row[m].status \in Terminal} :
        doomed' = doomed \cup S /\ UNCHANGED <<row, held, owner, tainted>>
  BY DEF PurgeSelects
<1>2. S \in SUBSET LQ!In({"done", "dead"})
  BY Phases DEF LQ!In, Terminal
<1>3. LQ!Mark(S)
  BY Zenon, <1>1 DEF LQ!Mark
<1> QED
  BY Zenon, <1>2, <1>3 DEF LQ!Next

\* ... and its delete makes the queue forget them.
LEMMA ForgetStep ==
    ASSUME TypeOK, PurgeDeletes
    PROVE  LQ!Next
<1>1. PICK S \in SUBSET doomed :
        /\ row' = [m \in Msg |-> IF m \in S THEN Purged(row[m]) ELSE row[m]]
        /\ owner' = [m \in Msg |-> IF m \in S THEN None ELSE owner[m]]
        /\ doomed' = doomed \ S
        /\ UNCHANGED <<held, tainted>>
  BY DEF PurgeDeletes
<1>2. States' = [m \in Msg |-> IF m \in S THEN "gone" ELSE States[m]]
  BY Zenon, <1>1, RowPhases DEF States, TypeOK
<1>3. LQ!Forget(S)
  BY Zenon, <1>1, <1>2 DEF LQ!Forget, States
<1> QED
  BY Zenon, <1>3 DEF LQ!Next

\* Steps that change neither a status nor which message a copy is of are invisible.
LEMMA InvisibleStep ==
    ASSUME \A m \in Msg : row'[m].status = row[m].status,
           \A h \in Holder : held'[h].msg = held[h].msg,
           UNCHANGED <<owner, tainted, doomed>>
    PROVE  UNCHANGED LQ!vars
BY DEF LQ!vars

\* Every step of the table and its workers is a step of the lease queue or invisible.
LEMMA RefinementStep ==
    ASSUME FenceInv, [Next]_vars
    PROVE  [LQ!Next]_(LQ!vars)
<1> USE DEF FenceInv
<1>1. \A m \in Msg : row[m] \in Row
  BY DEF TypeOK
<1>2. ASSUME NEW m \in Msg, Enqueue(m) \/ Requeue(m) PROVE LQ!Next
  BY Zenon, <1>2, PutStep, ReviveStep DEF LQ!Next
<1>3. ASSUME NEW m \in Msg, BecomeDue(m) \/ LeaseExpires(m) PROVE UNCHANGED LQ!vars
  BY <1>1, <1>3, InvisibleStep DEF BecomeDue, LeaseExpires, TypeOK, Row
<1>4. ASSUME NEW w \in Worker, Claim(w) \/ ClaimReturnsError(w) PROVE LQ!Next
  BY Zenon, <1>4, TakeStep, TakeForNobodyStep
<1>5. ASSUME NEW w \in Worker, BatchSucceed(w) PROVE LQ!Next
  <2>1. PICK H \in SUBSET {h \in Holder : WorkerOf(h) = w /\ Busy(h)} :
          LET hit == {held[h].msg : h \in {g \in H : Matches(g)}}
          IN  /\ row' = [m \in Msg |-> IF m \in hit THEN Succeeded(row[m]) ELSE row[m]]
              /\ owner' = [m \in Msg |-> IF m \in hit THEN None ELSE owner[m]]
              /\ held' = [h \in Holder |-> IF h \in H THEN Idle ELSE held[h]]
              /\ UNCHANGED <<tainted, doomed>>
    BY Zenon, <1>5 DEF BatchSucceed
  <2> DEFINE hit == {held[h].msg : h \in {g \in H : Matches(g)}}
  <2>2. States' = [m \in Msg |-> IF m \in hit THEN "done" ELSE States[m]]
    BY Zenon, <1>1, <2>1, RowPhases DEF States
  <2>3. Copies' = [h \in Holder |-> IF h \in H THEN None ELSE Copies[h]]
    BY Zenon, <2>1 DEF Copies, Idle
  <2>4. H \in SUBSET Holder /\ \A h \in H : Busy(h)
    OBVIOUS
  <2> QED
    BY Zenon, <2>1, <2>2, <2>3, <2>4, SettleStep
<1>6. ASSUME NEW h \in Holder, Fail(h) PROVE LQ!Next
  <2>1. PICK dead \in BOOLEAN, due \in BOOLEAN : Settle(h, Failed(row[held[h].msg], dead, due))
    BY <1>6 DEF Fail
  <2>2. Busy(h) /\ held[h].msg \in Msg /\ UNCHANGED <<tainted, doomed>>
    BY <1>6 DEF Fail, Busy, TypeOK, Copy
  <2>3. Phase(Failed(row[held[h].msg], dead, due).status) \in {"dead", "ready"}
    BY Zenon, <1>1, <2>2, RowPhases
  <2> QED
    BY <2>1, <2>2, <2>3, SettleOneStep
<1>7. ASSUME NEW h \in Holder, ReleaseShutdown(h) PROVE LQ!Next
  <2>1. Busy(h) /\ held[h].msg \in Msg /\ UNCHANGED <<tainted, doomed>>
    BY <1>7 DEF ReleaseShutdown, Busy, TypeOK, Copy
  <2>2. Phase(Released(row[held[h].msg]).status) = "ready"
    BY Zenon, <1>1, <2>1, RowPhases
  <2> QED
    BY <1>7, <2>1, <2>2, SettleOneStep DEF ReleaseShutdown
<1>8. ASSUME NEW h \in Holder, LoseOutcome(h) PROVE LQ!Next
  <2>1. Copies' = [k \in Holder |-> IF k \in {h} THEN None ELSE Copies[k]]
    BY <1>8 DEF LoseOutcome, TypeOK, Copies, Idle
  <2>2. owner' = [m \in Msg |-> IF owner[m] \in {h} THEN None ELSE owner[m]]
    BY <1>8 DEF LoseOutcome
  <2>3. UNCHANGED <<row, tainted, doomed>> /\ {h} \in SUBSET Holder /\ Busy(h)
    BY <1>8 DEF LoseOutcome
  <2> QED
    BY Zenon, <2>1, <2>2, <2>3, AbandonStep
<1>9. ASSUME NEW w \in Worker, Crash(w) PROVE LQ!Next
  <2> DEFINE H == {h \in Holder : WorkerOf(h) = w /\ Busy(h)}
  <2>1. Copies' = [h \in Holder |-> IF h \in H THEN None ELSE Copies[h]]
    BY <1>9 DEF Crash, Copies, Idle, Busy
  <2>2. owner' = [m \in Msg |-> IF owner[m] \in H THEN None ELSE owner[m]]
    BY <1>9, Identifiers DEF Crash, TypeOK, OwnerCanSettle, Busy
  <2>3. H \in SUBSET Holder /\ (\A h \in H : Busy(h)) /\ UNCHANGED <<row, tainted, doomed>>
    BY <1>9 DEF Crash
  <2> HIDE DEF H
  <2> QED
    BY <2>1, <2>2, <2>3, AbandonStep
<1>10. ASSUME NEW h \in Holder, Extend(h) PROVE UNCHANGED LQ!vars
  BY <1>10, Extension, InvisibleStep
<1>11. ASSUME ReclaimExpired \/ PurgeSelects \/ PurgeDeletes PROVE LQ!Next
  BY Zenon, <1>11, TakeBackStep, MarkStep, ForgetStep
<1>12. ASSUME UNCHANGED vars PROVE UNCHANGED LQ!vars
  BY <1>12, InvisibleStep DEF vars
<1> QED
  BY Zenon, <1>2, <1>3, <1>4, <1>5, <1>6, <1>7, <1>8, <1>9, <1>10, <1>11, <1>12 DEF Next

\* An empty table is an empty queue.
LEMMA QueueInit == Init => LQ!Init
BY SMTT(30), Phases DEF Init, LQ!Init, Idle

\* The table and its workers implement the lease queue, whatever the sets of messages,
\* workers and slots: an outcome written by a copy whose lease was lost changes nothing, and
\* only what a purge statement chose when it was terminal disappears (postgres.go, purgeSQL).
THEOREM Refinement == Spec => ImplementsLeaseQueue
<1>1. Init => LQ!Init
  BY QueueInit
<1>2. FenceInv /\ [Next]_vars => [LQ!Next]_(LQ!vars)
  BY RefinementStep
<1> QED
  BY <1>1, <1>2, FenceInvariant, PTL DEF Spec, ImplementsLeaseQueue, LQ!Spec
-----------------------------------------------------------------------------
(* The deployment on either database *)

\* On Postgres the whole of FenceInv holds; what holds on both databases needs only that an
\* owner's write lands, since MySQL's other writes are fenced by claimed_by.
DeploymentInv ==
    /\ TypeOK /\ OwnerCanSettle /\ CancelInv
    /\ dialect \in {"postgres", "mysql"}
    /\ dialect = "postgres" => FenceInv
    /\ DrainedIsSettled

\* MySQL's own statements keep the variables well-typed.
LEMMA MySQLTypeStep ==
    ASSUME TypeOK, [MySQLNext]_vars
    PROVE  TypeOK'
<1> USE Identifiers
<1>0. Disrupt => disruptions' \in Nat
  BY DEF Disrupt, TypeOK
<1>1. \A m \in Msg : row[m] \in Row
  BY DEF TypeOK
<1>2. Idle \in Copy
  BY IdleType
<1>3. \A h \in Holder : Busy(h) => held[h].msg \in Msg
  BY DEF TypeOK, Busy, Copy
<1>4. ASSUME NEW m \in Msg, MySQLRequeue(m) PROVE TypeOK'
  <2>1. PICK due \in BOOLEAN :
          row' = [row EXCEPT ![m] = [status |-> "CREATED", attempt |-> 0, due |-> due,
                                     lease |-> "none", claimedBy |-> None]]
    BY Zenon, <1>4 DEF MySQLRequeue
  <2>2. [status |-> "CREATED", attempt |-> 0, due |-> due, lease |-> "none",
         claimedBy |-> None] \in Row
    BY DEF Row, Status, Pending, Lease
  <2>3. row' \in [Msg -> Row]
    BY <2>1, <2>2 DEF TypeOK
  <2>4. tainted' \in [Msg -> BOOLEAN] /\ lapses' \in [Msg -> Nat]
    BY <1>4 DEF MySQLRequeue, TypeOK
  <2> QED
    BY Zenon, <1>0, <1>4, <2>3, <2>4 DEF MySQLRequeue, TypeOK
<1>5. ASSUME NEW w \in Worker, ClaimRolledBack(w) PROVE TypeOK'
  <2>1. held' \in [Holder -> Copy]
    BY Zenon, <1>5, Received DEF ClaimRolledBack, Receive
  <2> QED
    BY Zenon, <1>0, <1>5, <2>1 DEF ClaimRolledBack, TypeOK
<1>6. ASSUME NEW w \in Worker, MySQLBatchSucceed(w) PROVE TypeOK'
  <2>1. \A m \in Msg : [row[m] EXCEPT !.status = "SUCCESS"] \in Row
    BY <1>1 DEF Row, Status, Terminal
  <2> QED
    BY <1>1, <1>2, <1>6, <2>1 DEF MySQLBatchSucceed, TypeOK
<1>7. ASSUME NEW h \in Holder, NEW new \in Row, Busy(h), MySQLSettle(h, new)
      PROVE  row' \in [Msg -> Row] /\ owner' \in [Msg -> Holder \cup {None}]
             /\ held' \in [Holder -> Copy]
  <2>1. /\ row \in [Msg -> Row] /\ owner \in [Msg -> Holder \cup {None}]
        /\ held \in [Holder -> Copy] /\ held[h].msg \in Msg
    BY Zenon, <1>3, <1>7 DEF TypeOK
  <2>2. held' = [held EXCEPT ![h] = Idle]
    BY Zenon, <1>7 DEF MySQLSettle
  <2>3. \/ row' = row /\ owner' = owner
        \/ /\ row' = [row EXCEPT ![held[h].msg] = new]
           /\ owner' = [owner EXCEPT ![held[h].msg] = None]
    BY Zenon, <1>7 DEF MySQLSettle
  <2> QED
    BY <1>2, <2>1, <2>2, <2>3
<1>8. ASSUME NEW h \in Holder, MySQLFail(h) PROVE TypeOK'
  <2>1. PICK dead \in BOOLEAN, due \in BOOLEAN :
          MySQLSettle(h, MySQLFailed(row[held[h].msg], dead, due))
    BY Zenon, <1>8 DEF MySQLFail
  <2>2. Busy(h) /\ row[held[h].msg] \in Row
    BY Zenon, <1>1, <1>3, <1>8 DEF MySQLFail
  <2>3. MySQLFailed(row[held[h].msg], dead, due) \in Row
    <3>1. CASE dead
      BY <2>2, <3>1 DEF MySQLFailed, Row, Status, Terminal
    <3>2. CASE ~dead
      <4>1. Unclaimed(row[held[h].msg]) \in Row
        BY <2>2, RowTypes
      <4> QED
        BY Zenon, <3>2, <4>1 DEF MySQLFailed, Row, Status, Pending
    <3> QED
      BY <3>1, <3>2
  <2> QED
    BY Zenon, <1>7, <1>8, <2>1, <2>2, <2>3 DEF MySQLFail, TypeOK
<1>9. ASSUME NEW h \in Holder, MySQLReleaseShutdown(h) PROVE TypeOK'
  <2> DEFINE u == Unclaimed(row[held[h].msg])
  <2>1. Busy(h) /\ row[held[h].msg] \in Row
    BY <1>1, <1>3, <1>9 DEF MySQLReleaseShutdown
  <2>2. u \in Row /\ u.attempt \in Nat /\ (u.attempt # 0 => u.attempt - 1 \in Nat)
    <3>1. u \in Row
      BY Zenon, <2>1, RowTypes
    <3>2. u.attempt \in Nat
      BY Zenon, <3>1 DEF Row
    <3> QED
      BY <3>1, <3>2
  <2> HIDE DEF u
  <2>3. MySQLReleased(row[held[h].msg]) \in Row
    BY Zenon, <2>2 DEF MySQLReleased, u, Row, Status, Pending
  <2> QED
    BY Zenon, <1>0, <1>7, <1>9, <2>1, <2>3 DEF MySQLReleaseShutdown, TypeOK
<1>10. ASSUME NEW h \in Holder, MySQLSucceed(h) PROVE TypeOK'
  <2>1. Busy(h) /\ row[held[h].msg] \in Row
    BY <1>1, <1>3, <1>10 DEF MySQLSucceed
  <2>2. [row[held[h].msg] EXCEPT !.status = "SUCCESS"] \in Row
    BY <2>1 DEF Row, Status, Terminal
  <2> QED
    BY <1>7, <1>10, <2>1, <2>2 DEF MySQLSucceed, TypeOK
<1>11. ASSUME MySQLPurgeTerminal PROVE TypeOK'
  BY <1>1, <1>11 DEF MySQLPurgeTerminal, TypeOK, Row, Status
<1>12. CASE [Next]_vars
  BY <1>12, TypeStep
<1> QED
  BY Zenon, <1>4, <1>5, <1>6, <1>8, <1>9, <1>10, <1>11, <1>12
  DEF MySQLNext, Next, MySQLClaim, MySQLExtend, MySQLReclaimExpired

\* The claim of m is as it was.
Undisturbed(m) ==
    /\ owner'[m] = owner[m]
    /\ row'[m].status = row[m].status /\ row'[m].attempt = row[m].attempt
    /\ row'[m].claimedBy = row[m].claimedBy
    /\ held'[owner[m]].msg = held[owner[m]].msg
    /\ held'[owner[m]].attempt = held[owner[m]].attempt

\* The columns that OwnerCanSettle compares.
OwnerColumns(m) ==
    /\ held[owner[m]].msg = m
    /\ row[m].status = "HANDLING" /\ row[m].attempt = held[owner[m]].attempt
    /\ row[m].claimedBy = WorkerOf(owner[m])

LEMMA OwnersByColumns ==
    /\ OwnerCanSettle <=> \A m \in Msg : owner[m] # None => OwnerColumns(m)
    /\ OwnerCanSettle' <=> \A m \in Msg : owner'[m] # None => OwnerColumns(m)'
<1>1. \A m : OwnerColumns(m) <=> /\ held[owner[m]].msg = m /\ Matches(owner[m])
                                /\ row[m].claimedBy = WorkerOf(owner[m])
  BY DEF OwnerColumns, Matches
<1>2. \A m : OwnerColumns(m)' <=> /\ held'[owner'[m]].msg = m /\ Matches(owner[m])'
                                 /\ row'[m].claimedBy = WorkerOf(owner'[m])
  BY DEF OwnerColumns, Matches
<1> QED
  BY Zenon, <1>1, <1>2 DEF OwnerCanSettle

\* Claims that end or stay as they are.
LEMMA OwnersKept ==
    ASSUME OwnerCanSettle, \A m \in Msg : owner'[m] = None \/ Undisturbed(m)
    PROVE  OwnerCanSettle'
<1>1. ASSUME NEW m \in Msg, owner'[m] # None PROVE OwnerColumns(m)'
  <2>1. Undisturbed(m) /\ owner[m] # None
    BY Zenon, <1>1 DEF Undisturbed
  <2>2. OwnerColumns(m)
    BY <2>1, OwnersByColumns
  <2> QED
    BY Zenon, <2>1, <2>2 DEF OwnerColumns, Undisturbed
<1> QED
  BY <1>1, OwnersByColumns

\* Only HANDLING rows have an owner.
LEMMA OwnedRows ==
    ASSUME TypeOK, OwnerCanSettle, NEW m \in Msg, owner[m] # None
    PROVE  /\ row[m].status = "HANDLING" /\ m \notin Eligible /\ owner[m] \in Holder
           /\ held[owner[m]].msg = m /\ held[owner[m]].attempt = row[m].attempt
           /\ row[m].claimedBy = WorkerOf(owner[m]) /\ Busy(owner[m])
<1>1. /\ held[owner[m]].msg = m /\ Matches(owner[m])
      /\ row[m].claimedBy = WorkerOf(owner[m])
  BY Zenon DEF OwnerCanSettle
<1>2. row[m].status = "HANDLING" /\ held[owner[m]].attempt = row[m].attempt
  BY Zenon, <1>1 DEF Matches
<1>3. m \notin Eligible
  BY <1>2 DEF Eligible, Pending
<1>4. owner[m] \in Holder
  BY DEF TypeOK
<1>5. Busy(owner[m])
  BY Zenon, <1>1, Identifiers DEF Busy
<1> QED
  BY Zenon, <1>1, <1>2, <1>3, <1>4, <1>5

\* A claim makes the copies of the claimed rows their owners' and leaves the others alone.
LEMMA ClaimOwners ==
    ASSUME TypeOK, OwnerCanSettle, NEW w \in Worker, Claim(w)
    PROVE  OwnerCanSettle'
<1>1. \A m \in Msg : row[m] \in Row
  BY DEF TypeOK
<1>2. PICK G \in SUBSET FreeHolders(w) :
        \E pick \in [G -> Eligible], C \in SUBSET G : ClaimRows(w, G, pick, C)
  BY DEF Claim
<1>3. PICK pick \in [G -> Eligible], C \in SUBSET G : ClaimRows(w, G, pick, C)
  BY <1>2
<1> DEFINE picked == {pick[h] : h \in G}
<1>4. /\ row' = [m \in Msg |-> IF m \in picked THEN Claimed(row[m], w) ELSE row[m]]
      /\ owner' = [m \in Msg |-> IF m \in picked THEN CHOOSE h \in G : pick[h] = m
                                                 ELSE owner[m]]
      /\ Receive(w, G, pick)
  BY Zenon, <1>3, Received DEF ClaimRows
<1>5. ASSUME NEW m \in Msg, m \in picked PROVE OwnerColumns(m)'
  <2>1. owner'[m] \in G /\ pick[owner'[m]] = m
    BY <1>4, <1>5
  <2>2. owner'[m] \in Holder /\ WorkerOf(owner'[m]) = w
    BY <2>1 DEF FreeHolders
  <2>4. row'[m] = Claimed(row[m], w)
    BY Zenon, <1>4, <1>5
  <2> HIDE DEF picked
  <2>5. row'[m].status = "HANDLING" /\ row'[m].attempt = row[m].attempt + 1
        /\ row'[m].claimedBy = w
    <3>1. row[m] \in Row
      BY <1>1
    <3>2. /\ Claimed(row[m], w).status = "HANDLING" /\ Claimed(row[m], w).claimedBy = w
          /\ Claimed(row[m], w).attempt = row[m].attempt + 1
      BY Zenon, <3>1, RowFields
    <3> QED
      BY Zenon, <2>4, <3>2
  <2>6. held'[owner'[m]].msg = m /\ held'[owner'[m]].attempt = row[m].attempt + 1
    BY Zenon, <1>4, <2>1 DEF Receive
  <2> QED
    BY Zenon, <2>2, <2>5, <2>6 DEF OwnerColumns
<1>6. ASSUME NEW m \in Msg, m \notin picked, owner'[m] # None PROVE OwnerColumns(m)'
  <2>1. owner'[m] = owner[m] /\ row'[m] = row[m]
    BY Zenon, <1>4, <1>6
  <2>2. owner[m] \in Holder /\ Busy(owner[m])
    BY <1>6, <2>1, OwnedRows
  <2>3. held'[owner[m]] = held[owner[m]]
    BY <1>4, <2>2 DEF Receive
  <2>4. OwnerColumns(m)
    BY Zenon, <1>6, <2>1, OwnersByColumns
  <2> QED
    BY Zenon, <2>1, <2>3, <2>4 DEF OwnerColumns
<1> HIDE DEF picked
<1> QED
  BY <1>5, <1>6, OwnersByColumns

\* What the two adapters have in common keeps the owners.
LEMMA SharedOwnerStep ==
    ASSUME TypeOK, OwnerCanSettle,
           \/ \E m \in Msg : Enqueue(m) \/ BecomeDue(m) \/ LeaseExpires(m)
           \/ \E w \in Worker : Claim(w) \/ ClaimReturnsError(w) \/ Crash(w)
           \/ \E h \in Holder : LoseOutcome(h) \/ Extend(h)
           \/ ReclaimExpired
    PROVE  OwnerCanSettle'
<1> USE Identifiers
<1>1. \A m \in Msg : row[m] \in Row
  BY DEF TypeOK
<1>2. ASSUME NEW m \in Msg, Enqueue(m) \/ BecomeDue(m) \/ LeaseExpires(m)
      PROVE  OwnerCanSettle'
  <2>1. held' = held /\ owner' = owner
    BY Zenon, <1>2 DEF Enqueue, BecomeDue, LeaseExpires
  <2>2. ASSUME NEW n \in Msg, owner[n] # None
        PROVE  /\ row'[n].status = row[n].status /\ row'[n].attempt = row[n].attempt
               /\ row'[n].claimedBy = row[n].claimedBy
    <3>1. row[n].status = "HANDLING"
      BY Zenon, <2>2, OwnedRows
    <3>2. CASE Enqueue(m)
      BY Zenon, <3>1, <3>2 DEF Enqueue, TypeOK
    <3>3. CASE BecomeDue(m)
      BY <3>1, <3>3 DEF BecomeDue, TypeOK, Pending
    <3>4. CASE LeaseExpires(m)
      BY <1>1, <3>4 DEF LeaseExpires, TypeOK, Row
    <3> QED
      BY Zenon, <1>2, <3>2, <3>3, <3>4
  <2> QED
    BY Zenon, <2>1, <2>2, OwnersKept DEF Undisturbed
<1>3. ASSUME NEW w \in Worker, Claim(w) PROVE OwnerCanSettle'
  BY <1>3, ClaimOwners
<1>4. ASSUME NEW w \in Worker, ClaimReturnsError(w) PROVE OwnerCanSettle'
  <2>1. PICK S \in SUBSET Eligible :
          row' = [m \in Msg |-> IF m \in S THEN Claimed(row[m], w) ELSE row[m]]
    BY <1>4 DEF ClaimReturnsError
  <2>2. held' = held /\ owner' = owner
    BY <1>4 DEF ClaimReturnsError
  <2>3. \A m \in Msg : owner[m] # None => row'[m] = row[m]
    BY Zenon, <2>1, OwnedRows
  <2> QED
    BY Zenon, <2>2, <2>3, OwnersKept DEF Undisturbed
<1>5. ASSUME NEW w \in Worker, Crash(w) PROVE OwnerCanSettle'
  <2>1. ASSUME NEW m \in Msg, owner'[m] # None PROVE Undisturbed(m)
    <3>1. owner'[m] = owner[m] /\ row' = row /\ WorkerOf(owner[m]) # w
      BY Zenon, <1>5, <2>1 DEF Crash
    <3>2. owner[m] \in Holder
      BY Zenon, <2>1, <3>1, OwnedRows
    <3> QED
      BY Zenon, <1>5, <3>1, <3>2 DEF Crash, Undisturbed
  <2> QED
    BY <2>1, OwnersKept
<1>6. ASSUME NEW h \in Holder, LoseOutcome(h) PROVE OwnerCanSettle'
  <2>1. ASSUME NEW m \in Msg, owner'[m] # None PROVE Undisturbed(m)
    <3>1. owner'[m] = owner[m] /\ row' = row /\ owner[m] # h
      BY Zenon, <1>6, <2>1 DEF LoseOutcome
    <3> QED
      BY Zenon, <1>6, <2>1, <3>1, OwnedRows DEF LoseOutcome, Undisturbed, TypeOK
  <2> QED
    BY Zenon, <2>1, OwnersKept
<1>7. ASSUME ReclaimExpired PROVE OwnerCanSettle'
  BY Zenon, <1>7, OwnersKept DEF ReclaimExpired, Undisturbed
<1>8. ASSUME NEW h \in Holder, Extend(h) PROVE OwnerCanSettle'
  <2>1. /\ \A m \in Msg : /\ row'[m].status = row[m].status /\ row'[m].attempt = row[m].attempt
                          /\ row'[m].claimedBy = row[m].claimedBy
        /\ \A g \in Holder : held'[g].msg = held[g].msg /\ held'[g].attempt = held[g].attempt
    BY Zenon, <1>8, Extension
  <2>2. owner' = owner
    BY Zenon, <1>8 DEF Extend
  <2>3. ASSUME NEW m \in Msg, owner'[m] # None PROVE Undisturbed(m)
    <3>1. owner[m] \in Holder
      BY Zenon, <2>2, <2>3, OwnedRows
    <3> QED
      BY Zenon, <2>1, <2>2, <3>1 DEF Undisturbed
  <2> QED
    BY Zenon, <2>3, OwnersKept
<1> QED
  BY <1>2, <1>3, <1>4, <1>5, <1>6, <1>7, <1>8

\* A statement of MySQL that is fenced by claimed_by takes the claim from the owner, be it
\* the caller or another copy of the same worker, or changes nothing.
LEMMA MySQLSettleOwners ==
    ASSUME TypeOK, OwnerCanSettle, NEW h \in Holder, Busy(h), NEW new, MySQLSettle(h, new)
    PROVE  OwnerCanSettle'
<1>1. held[h].msg \in Msg /\ held' = [held EXCEPT ![h] = Idle]
  BY DEF MySQLSettle, TypeOK, Busy, Copy
<1>2. ASSUME NEW m \in Msg, owner'[m] # None PROVE Undisturbed(m)
  <2>1. owner'[m] = owner[m] /\ row'[m] = row[m]
    BY <1>1, <1>2 DEF MySQLSettle, TypeOK
  <2>2. owner[m] # h
    <3> SUFFICES ASSUME owner[m] = h PROVE FALSE
      OBVIOUS
    <3>1. held[h].msg = m /\ MatchesClaim(h)
      BY Zenon, <1>2, <2>1, OwnedRows DEF MatchesClaim
    <3> QED
      BY <1>2, <3>1 DEF MySQLSettle, TypeOK
  <2>3. owner[m] \in Holder
    BY Zenon, <1>2, <2>1, OwnedRows
  <2> QED
    BY Zenon, <1>1, <2>1, <2>2, <2>3 DEF Undisturbed, TypeOK
<1> QED
  BY <1>2, OwnersKept

\* Owners can settle on MySQL as well.
LEMMA MySQLOwnerStep ==
    ASSUME TypeOK, OwnerCanSettle, [MySQLNext]_vars
    PROVE  OwnerCanSettle'
<1> USE Identifiers
<1>1. \A m \in Msg : row[m] \in Row
  BY DEF TypeOK
<1>2. ASSUME NEW m \in Msg, MySQLRequeue(m) PROVE OwnerCanSettle'
  <2>1. ASSUME NEW n \in Msg, owner[n] # None PROVE row'[n] = row[n]
    BY Zenon, <1>2, <2>1, OwnedRows DEF MySQLRequeue, TypeOK
  <2> QED
    BY Zenon, <1>2, <2>1, OwnersKept DEF MySQLRequeue, Undisturbed
<1>3. ASSUME NEW w \in Worker, ClaimRolledBack(w) PROVE OwnerCanSettle'
  <2>1. PICK G \in SUBSET FreeHolders(w) : \A g \in Holder \ G : held'[g] = held[g]
    BY Zenon, <1>3, Received DEF ClaimRolledBack, Receive
  <2>2. \A m \in Msg : owner[m] # None => owner[m] \in Holder \ G
    BY Zenon, OwnedRows DEF FreeHolders
  <2> QED
    BY Zenon, <1>3, <2>1, <2>2, OwnersKept DEF ClaimRolledBack, Undisturbed
<1>4. ASSUME NEW w \in Worker, MySQLBatchSucceed(w) PROVE OwnerCanSettle'
  <2>1. PICK H \in SUBSET {h \in Holder : WorkerOf(h) = w /\ Busy(h)} :
          LET hit == {held[h].msg : h \in {g \in H : Matches(g)}}
          IN  /\ row' = [m \in Msg |-> IF m \in hit THEN [row[m] EXCEPT !.status = "SUCCESS"]
                                                    ELSE row[m]]
              /\ owner' = [m \in Msg |-> IF m \in hit THEN None ELSE owner[m]]
              /\ held' = [h \in Holder |-> IF h \in H THEN Idle ELSE held[h]]
    BY Zenon, <1>4 DEF MySQLBatchSucceed
  <2>2. ASSUME NEW m \in Msg, owner'[m] # None PROVE Undisturbed(m)
    <3>1. owner'[m] = owner[m] /\ row'[m] = row[m]
      BY <2>1, <2>2
    <3>2. owner[m] \in Holder /\ held[owner[m]].msg = m /\ Matches(owner[m])
      BY Zenon, <2>2, <3>1, OwnedRows DEF OwnerCanSettle
    <3>3. owner[m] \notin H
      BY <2>1, <2>2, <3>2
    <3> QED
      BY <2>1, <3>1, <3>2, <3>3 DEF Undisturbed
  <2> QED
    BY <2>2, OwnersKept
<1>5. ASSUME NEW h \in Holder, MySQLSucceed(h) \/ MySQLFail(h) \/ MySQLReleaseShutdown(h)
      PROVE  OwnerCanSettle'
  BY <1>5, MySQLSettleOwners DEF MySQLSucceed, MySQLFail, MySQLReleaseShutdown
<1>6. ASSUME MySQLPurgeTerminal PROVE OwnerCanSettle'
  <2>1. \A m \in Msg : owner[m] # None => row'[m] = row[m]
    BY <1>6, OwnedRows DEF MySQLPurgeTerminal, Terminal
  <2> QED
    BY Zenon, <1>6, <2>1, OwnersKept DEF MySQLPurgeTerminal, Undisturbed
<1>7. CASE UNCHANGED vars
  BY <1>7, OwnersKept DEF vars, Undisturbed
<1> QED
  BY Zenon, <1>2, <1>3, <1>4, <1>5, <1>6, <1>7, SharedOwnerStep
  DEF MySQLNext, MySQLClaim, MySQLExtend, MySQLReclaimExpired

\* Cancellations keep their reason on MySQL as well.
LEMMA MySQLCancelStep ==
    ASSUME TypeOK, OwnerCanSettle, CancelInv, [MySQLNext]_vars
    PROVE  CancelInv'
<1>1. ASSUME NEW m \in Msg, MySQLRequeue(m) PROVE CancelInv'
  BY <1>1, EndingKeepsCancel DEF MySQLRequeue
<1>2. ASSUME NEW w \in Worker, ClaimRolledBack(w) PROVE CancelInv'
  <2>1. PICK G \in SUBSET FreeHolders(w) :
          \E pick \in [G -> Eligible], C \in SUBSET G : HandOut(G, pick, C)
    BY <1>2 DEF ClaimRolledBack
  <2>2. PICK pick \in [G -> Eligible], C \in SUBSET G : HandOut(G, pick, C)
    BY <2>1
  <2>3. \A m \in Msg : owner'[m] = owner[m]
    BY <1>2 DEF ClaimRolledBack
  <2> QED
    BY <2>2, <2>3, HandOutKeepsCancel
<1>3. ASSUME NEW w \in Worker, MySQLBatchSucceed(w) PROVE CancelInv'
  BY <1>3, EndingKeepsCancel DEF MySQLBatchSucceed
<1>4. ASSUME NEW h \in Holder, MySQLSucceed(h) \/ MySQLFail(h) \/ MySQLReleaseShutdown(h)
      PROVE  CancelInv'
  <2>1. PICK new : MySQLSettle(h, new)
    BY <1>4 DEF MySQLSucceed, MySQLFail, MySQLReleaseShutdown
  <2> QED
    BY <2>1, EndingKeepsCancel DEF MySQLSettle, TypeOK
<1>5. ASSUME MySQLPurgeTerminal PROVE CancelInv'
  BY <1>5, EndingKeepsCancel DEF MySQLPurgeTerminal
<1>6. CASE [Next]_vars
  BY <1>6, CancelStep
<1> QED
  BY Zenon, <1>1, <1>2, <1>3, <1>4, <1>5, <1>6
  DEF MySQLNext, Next, MySQLClaim, MySQLExtend, MySQLReclaimExpired

\* A message nobody has to work on.
Quiet(m) == row[m].status \in {"ABSENT", "PURGED"} \cup Terminal

\* Only an Enqueue or a Requeue gives the workers something new to do.
LEMMA QuietStays ==
    ASSUME TypeOK, [Next]_vars \/ [MySQLNext]_vars, NEW m \in Msg, Quiet(m)
    PROVE  Quiet(m)' \/ (row[m].status \in {"ABSENT", "DEAD"} /\ row'[m].status = "CREATED")
<1>0. row[m].status # "HANDLING" /\ row[m].status \notin Pending /\ m \notin Eligible
  BY DEF Quiet, Terminal, Pending, Eligible
<1>1. ASSUME row'[m].status = row[m].status PROVE Quiet(m)'
  BY <1>1 DEF Quiet
<1>2. ASSUME NEW n \in Msg, Enqueue(n) \/ Requeue(n) \/ MySQLRequeue(n)
      PROVE  \/ row'[m].status = row[m].status
             \/ row[m].status \in {"ABSENT", "DEAD"} /\ row'[m].status = "CREATED"
  <2>1. CASE n # m
    BY Zenon, <1>2, <2>1 DEF Enqueue, Requeue, MySQLRequeue, TypeOK
  <2>2. CASE n = m /\ Enqueue(m)
    BY <2>2 DEF Enqueue, TypeOK, Row
  <2>3. CASE n = m /\ Requeue(m)
    BY <2>3 DEF Requeue, TypeOK, Row
  <2>4. CASE n = m /\ MySQLRequeue(m)
    <3>1. row[m].status = "DEAD"
      BY Zenon, <2>4 DEF MySQLRequeue
    <3>2. PICK due \in BOOLEAN :
            row' = [row EXCEPT ![m] = [status |-> "CREATED", attempt |-> 0, due |-> due,
                                       lease |-> "none", claimedBy |-> None]]
      BY Zenon, <2>4 DEF MySQLRequeue
    <3>3. row'[m].status = "CREATED"
      BY <3>2 DEF TypeOK
    <3> QED
      BY <3>1, <3>3
  <2> QED
    BY Zenon, <1>2, <2>1, <2>2, <2>3, <2>4
<1>3. ASSUME NEW n \in Msg, BecomeDue(n) \/ LeaseExpires(n) PROVE row'[m].status = row[m].status
  BY <1>3 DEF BecomeDue, LeaseExpires, TypeOK, Row
<1>4. ASSUME NEW w \in Worker, Claim(w) \/ ClaimReturnsError(w) \/ ClaimRolledBack(w)
      PROVE  row'[m] = row[m]
  <2>1. CASE Claim(w)
    <3>1. PICK G \in SUBSET FreeHolders(w) :
            \E pick \in [G -> Eligible], C \in SUBSET G : ClaimRows(w, G, pick, C)
      BY <2>1 DEF Claim
    <3>2. PICK pick \in [G -> Eligible], C \in SUBSET G : ClaimRows(w, G, pick, C)
      BY <3>1
    <3>3. \A h \in G : pick[h] # m
      BY <1>0
    <3> QED
      BY <3>2, <3>3 DEF ClaimRows
  <2>2. CASE ClaimReturnsError(w)
    BY <1>0, <2>2 DEF ClaimReturnsError
  <2> QED
    BY <1>4, <2>1, <2>2 DEF ClaimRolledBack
<1>5. ASSUME NEW w \in Worker, BatchSucceed(w) \/ MySQLBatchSucceed(w) PROVE row'[m] = row[m]
  <2>1. CASE BatchSucceed(w)
    <3>1. PICK H \in SUBSET Holder :
            row' = [k \in Msg |-> IF k \in {held[h].msg : h \in {g \in H : Matches(g)}}
                                 THEN Succeeded(row[k]) ELSE row[k]]
      BY Zenon, <2>1 DEF BatchSucceed
    <3>2. \A h \in H : Matches(h) => held[h].msg # m
      BY <1>0 DEF Matches
    <3> QED
      BY <3>1, <3>2
  <2>2. CASE MySQLBatchSucceed(w)
    BY <1>0, <2>2 DEF MySQLBatchSucceed, Matches
  <2> QED
    BY <1>5, <2>1, <2>2
<1>6. ASSUME NEW h \in Holder, NEW new, Settle(h, new) \/ MySQLSettle(h, new)
      PROVE  row'[m] = row[m]
  BY Zenon, <1>0, <1>6 DEF Settle, MySQLSettle, Matches, MatchesClaim, TypeOK
<1>7. ASSUME NEW h \in Holder, Extend(h) PROVE row'[m].status = row[m].status
  BY <1>7, Extension
<1>8. ASSUME ReclaimExpired PROVE row'[m] = row[m]
  BY <1>0, <1>8 DEF ReclaimExpired
<1>9. ASSUME PurgeDeletes \/ MySQLPurgeTerminal PROVE Quiet(m)'
  <2>1. row[m] \in Row
    BY DEF TypeOK
  <2>2. row'[m].status \in {row[m].status, "PURGED"}
    BY Zenon, <1>9, <2>1 DEF PurgeDeletes, Purged, Unclaimed, MySQLPurgeTerminal, Row
  <2> QED
    BY <2>2 DEF Quiet
<1>10. ASSUME UNCHANGED row PROVE row'[m] = row[m]
  BY <1>10
<1>11. CASE [Next]_vars
  BY Zenon, <1>1, <1>2, <1>3, <1>4, <1>5, <1>6, <1>7, <1>8, <1>9, <1>10, <1>11
  DEF Next, vars, Fail, ReleaseShutdown, LoseOutcome, Crash, PurgeSelects
<1>12. CASE [MySQLNext]_vars
  BY Zenon, <1>1, <1>2, <1>3, <1>4, <1>5, <1>6, <1>7, <1>8, <1>9, <1>10, <1>12
  DEF MySQLNext, vars, MySQLSucceed, MySQLFail, MySQLReleaseShutdown, LoseOutcome, Crash,
      MySQLClaim, MySQLExtend, MySQLReclaimExpired
<1> QED
  BY <1>11, <1>12

\* Every step of a deployment keeps its invariant.
LEMMA DeploymentStep ==
    ASSUME DeploymentInv, [DeploymentNext]_allVars
    PROVE  DeploymentInv'
<1> USE DEF DeploymentInv
<1>1. ASSUME [Next]_vars \/ [MySQLNext]_vars, UNCHANGED drain, \A m \in fresh : m \in fresh',
             drain = "drained"
               => \A m \in Msg : row[m].status \in {"ABSENT", "DEAD"}
                                 /\ row'[m].status = "CREATED" => m \in fresh'
      PROVE  DrainedIsSettled'
  BY <1>1, QuietStays DEF DrainedIsSettled, Quiet
<1>2. ASSUME dialect = "postgres", [Next]_vars, dialect' = dialect, DrainedIsSettled'
      PROVE  DeploymentInv'
  <2>1. TypeOK' /\ ClaimColumns' /\ Fence'
    BY <1>2, TypeStep, ColumnsStep, FenceStep DEF FenceInv, Fence
  <2>2. CancelInv'
    BY <1>2, CancelStep
  <2> QED
    BY <1>2, <2>1, <2>2 DEF FenceInv, Fence
<1>3. ASSUME Deployed(dialect = "postgres" /\ Next) PROVE DeploymentInv'
  BY <1>1, <1>2, <1>3 DEF Deployed
<1>4. ASSUME Deployed(dialect = "mysql" /\ MySQLNext) PROVE DeploymentInv'
  <2>1. dialect = "mysql" /\ MySQLNext /\ dialect' = dialect
    BY <1>4 DEF Deployed
  <2>2. TypeOK' /\ OwnerCanSettle' /\ CancelInv'
    BY <2>1, MySQLTypeStep, MySQLOwnerStep, MySQLCancelStep
  <2>3. DrainedIsSettled'
    BY <1>1, <1>4 DEF Deployed
  <2> QED
    BY <2>1, <2>2, <2>3
<1>5. ASSUME DrainPoll PROVE DeploymentInv'
  <2>1. dialect = "postgres" /\ dialect' = dialect /\ UNCHANGED vars
    BY <1>5 DEF DrainPoll
  <2>2. DrainedIsSettled'
    <3> SUFFICES ASSUME drain' = "drained", NEW m \in Msg
                 PROVE  row'[m].status \in {"ABSENT", "PURGED"} \cup Terminal
      BY DEF DrainedIsSettled
    <3>1. Unsettled = {} /\ row' = row
      BY <1>5, <2>1 DEF DrainPoll, vars
    <3>2. row[m].status \in Status /\ row[m].status \notin Pending \cup {"HANDLING"}
      BY <3>1 DEF Unsettled, TypeOK, Row
    <3> QED
      BY <3>1, <3>2 DEF Status
  <2> QED
    BY <1>2, <2>1, <2>2
<1>6. CASE UNCHANGED allVars
  <2>1. UNCHANGED vars /\ UNCHANGED <<dialect, drain, fresh>>
    BY <1>6 DEF allVars, vars
  <2>2. DrainedIsSettled'
    BY <2>1 DEF DrainedIsSettled, vars
  <2>3. TypeOK' /\ OwnerCanSettle' /\ CancelInv'
    BY <2>1, MySQLTypeStep, MySQLOwnerStep, MySQLCancelStep
  <2>4. CASE dialect = "postgres"
    BY <1>2, <2>1, <2>2, <2>4
  <2> QED
    BY <2>1, <2>2, <2>3, <2>4
<1> QED
  BY <1>3, <1>4, <1>5, <1>6 DEF DeploymentNext

\* The invariant of a deployment on either database, whoever runs `tickrctl drain`.
THEOREM DeploymentInvariant == DeploymentSpec => []DeploymentInv
<1>1. DeploymentInit => DeploymentInv
  <2> SUFFICES ASSUME DeploymentInit PROVE DeploymentInv
    OBVIOUS
  <2>1. FenceInv
    BY FenceInit DEF DeploymentInit
  <2>2. CancelInv
    BY CancelInit DEF DeploymentInit
  <2> QED
    BY <2>1, <2>2 DEF DeploymentInit, DeploymentInv, FenceInv, DrainedIsSettled
<1>2. DeploymentInv /\ [DeploymentNext]_allVars => DeploymentInv'
  BY DeploymentStep
<1> QED
  BY <1>1, <1>2, PTL DEF DeploymentSpec

\* On Postgres and on MySQL the lease extender cancels an attempt, and with it its chunk, only
\* when the claim of one of the chunk's messages is over.
THEOREM NoSpuriousCancelDeployed == DeploymentSpec => []CancelledOnlyWhenLost
<1>1. DeploymentInv => CancelledOnlyWhenLost
  BY DEF DeploymentInv, CancelInv
<1> QED
  BY <1>1, DeploymentInvariant, PTL

\* On Postgres and on MySQL the write of the copy that owns a row lands, also where writes
\* are fenced by the worker instead of the attempt.
THEOREM OwnersWriteLandsDeployed == DeploymentSpec => []OwnerCanSettle
<1>1. DeploymentInv => OwnerCanSettle
  BY DEF DeploymentInv
<1> QED
  BY <1>1, DeploymentInvariant, PTL

\* After `tickrctl drain`, which runs on Postgres only, has printed "drained" nothing comes
\* back through a late write, a reclaim or a shutdown.
THEOREM DrainedStaysSettled == DeploymentSpec => []DrainedIsSettled
<1>1. DeploymentInv => DrainedIsSettled
  BY DEF DeploymentInv
<1> QED
  BY <1>1, DeploymentInvariant, PTL

OnPostgres == dialect = "postgres"

\* A deployment on Postgres implements the lease queue as well, `tickrctl drain` included: the
\* command only reads.  (On MySQL Claim may hand out copies whose claim was rolled back, which
\* the lease queue does not allow.)
THEOREM DeploymentKeepsQueue ==
    DeploymentSpec /\ OnPostgres => ImplementsLeaseQueue
<1>1. DeploymentInit => LQ!Init
  BY Zenon, QueueInit DEF DeploymentInit
<1>2. DeploymentInv /\ OnPostgres /\ [DeploymentNext]_allVars
        => OnPostgres' /\ [LQ!Next]_(LQ!vars)
  <2> SUFFICES ASSUME DeploymentInv, OnPostgres, [DeploymentNext]_allVars
               PROVE  OnPostgres' /\ [LQ!Next]_(LQ!vars)
    OBVIOUS
  <2>1. FenceInv
    BY DEF DeploymentInv, OnPostgres
  <2>2. OnPostgres' /\ [Next]_vars
    <3>1. CASE Deployed(dialect = "postgres" /\ Next)
      BY <3>1 DEF Deployed, OnPostgres
    <3>2. CASE Deployed(dialect = "mysql" /\ MySQLNext)
      BY <3>2 DEF Deployed, OnPostgres
    <3>3. CASE DrainPoll
      BY <3>3 DEF DrainPoll, OnPostgres
    <3>4. CASE UNCHANGED allVars
      BY <3>4 DEF allVars, vars, OnPostgres
    <3> QED
      BY <3>1, <3>2, <3>3, <3>4 DEF DeploymentNext
  <2> QED
    BY <2>1, <2>2, RefinementStep
<1> QED
  BY <1>1, <1>2, DeploymentInvariant, PTL DEF DeploymentSpec, ImplementsLeaseQueue, LQ!Spec
=============================================================================
