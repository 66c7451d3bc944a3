------------------------------ MODULE Producer ------------------------------
(***************************************************************************)
(* The producer side: Client.Enqueue and Client.EnqueueBatch over the      *)
(* inserts of the Postgres adapter, with the plain or the partitioned      *)
(* schema, or of the MySQL adapter; in auto-commit or in the caller's      *)
(* transaction (READ COMMITTED on Postgres, REPEATABLE READ on MySQL),     *)
(* with idempotency keys and notifications.  A call is a sequence of keys, *)
(* one per message; the row ids are fresh UUIDs, so item i of call c is    *)
(* row <<c, i>>.                                                           *)
(***************************************************************************)
EXTENDS Naturals, Sequences, FiniteSets

CONSTANTS Call, NoKey,
          Nil,            \* no message
          Keys,           \* the idempotency keys of a call's messages
          Batched,        \* calls made through EnqueueBatch; the others have one message
          Transactional,  \* which calls are in a caller transaction: the alternatives
          MaxErrors       \* bound on failing pg_notify statements

Items(c) == DOMAIN Keys[c]
Id == UNION {{<<c, i>> : i \in Items(c)} : c \in Call}
KeyOf(id) == Keys[id[1]][id[2]]

ASSUME ProducerAssumption ==
    /\ Batched \subseteq Call /\ Transactional \subseteq SUBSET Call /\ Nil \notin Id
    /\ \A c \in Call : /\ Len(Keys[c]) \in Nat \ {0} /\ Items(c) = 1..Len(Keys[c])
                       /\ c \notin Batched => Len(Keys[c]) = 1
    /\ MaxErrors \in Nat

VARIABLES schema,   \* the adapter and its schema
          inTx,     \* calls inside a caller transaction
          row,      \* absent; open: inserted, not committed; live; gone: purged
          pc,       \* where each call is
          at,       \* the item the call inserts next
          out,      \* the messages the call has found or inserted, by item, or Nil
          dup,      \* whether some item was a duplicate
          res,      \* what the call returned
          view,     \* the snapshots of MySQL transactions that have read: the rows live then
          aborted,  \* transactions that a failed statement has doomed or ended
          queued,   \* pg_notify executed, delivery pending on commit
          signals,  \* notifications delivered to listeners
          errors,   \* how much of MaxErrors is used
          prior,    \* ghost: the live rows with the first item's key when the call began
          committed \* ghost: the calls whose caller committed

vars == <<schema, inTx, row, pc, at, out, dup, res, view, aborted, queued, signals, errors, prior,
          committed>>
setting == <<schema, inTx>>
notifying == <<queued, signals, errors>>
answer == <<out, dup, res>>

Exists == {"live", "gone"}

TypeOK ==
    /\ schema \in {"plain", "partitioned", "mysql"} /\ inTx \in Transactional
    /\ row \in [Id -> {"absent", "open", "live", "gone"}]
    /\ pc \in [Call -> {"start", "insert", "collect", "notify", "clientNotify", "returned", "ended"}]
    /\ at \in [Call -> Nat \ {0}] /\ out \in [Call -> Seq(Id \cup {Nil})]
    /\ dup \in [Call -> BOOLEAN]
    /\ res \in [Call -> {"none", "ok", "dup", "error"}]
    /\ view \in [DOMAIN view -> SUBSET Id] /\ DOMAIN view \subseteq inTx
    /\ aborted \subseteq inTx /\ queued \subseteq Call /\ signals \subseteq Call
    /\ errors \in 0..MaxErrors
    /\ prior \in [Call -> SUBSET Id] /\ committed \subseteq Call

Init ==
    /\ schema \in {"plain", "partitioned", "mysql"} /\ inTx \in Transactional
    /\ row = [id \in Id |-> "absent"]
    /\ pc = [c \in Call |-> "start"] /\ at = [c \in Call |-> 1]
    /\ out = [c \in Call |-> <<>>]
    /\ dup = [c \in Call |-> FALSE]
    /\ res = [c \in Call |-> "none"]
    /\ view = [c \in {} |-> {}]
    /\ aborted = {} /\ queued = {} /\ signals = {} /\ errors = 0
    /\ prior = [c \in Call |-> {}] /\ committed = {}

Goto(c, place) == pc' = [pc EXCEPT ![c] = place]
Live == {id \in Id : row[id] = "live"}

\* Mutant of TxOpen: the statements run on the pool, not on the caller's transaction.
TxOpenNever(c) == FALSE

\* The call's statements are part of a transaction of the caller.  MySQL ends the
\* transaction of a deadlock victim, and what follows on the connection is auto-commit.
TxOpen(c) == c \in inTx /\ ~(schema = "mysql" /\ c \in aborted)

\* Mutant of Visible: uncommitted rows of other transactions are seen too.
VisibleDirty(c, key) == {id \in Id : KeyOf(id) = key /\ row[id] \in {"open", "live"}}

\* Rows a SELECT of call c sees under a key: its own, and the committed ones; in a MySQL
\* transaction the ones that were committed at its first read.
Visible(c, key) ==
    LET committedRows == IF c \in DOMAIN view THEN view[c] ELSE Live
    IN  {id \in Id : KeyOf(id) = key /\ (id \in committedRows \/ (row[id] = "open" /\ id[1] = c))}

\* A SELECT fixes the snapshot of a MySQL transaction.
Reads(c) ==
    view' = IF schema = "mysql" /\ TxOpen(c) /\ c \notin DOMAIN view
            THEN [d \in DOMAIN view \cup {c} |-> IF d = c THEN Live ELSE view[d]]
            ELSE view

\* The call's transaction is rolled back.
Undo(c) ==
    /\ row' = [id \in Id |-> IF id[1] = c /\ row[id] = "open" THEN "absent" ELSE row[id]]
    /\ view' = [d \in DOMAIN view \ {c} |-> view[d]]

\* Mutant of Leave: the adapter's own transaction is left open.
LeaveOpen(c) == Goto(c, "returned")

\* The call is over for its caller; a transaction is still to be ended.
Leave(c) == Goto(c, IF c \in inTx THEN "returned" ELSE "ended")

\* The adapter returns to the client with what it has collected.  Enqueue passes
\* errors and duplicates on; EnqueueBatch notifies for whatever is not nil first.  The
\* MySQL adapter is no Notifier.
Return(c, result, collected) ==
    /\ res' = [res EXCEPT ![c] = result]
    /\ out' = [out EXCEPT ![c] = collected]
    /\ IF schema # "mysql" /\ collected # <<>> /\ (c \in Batched \/ result = "ok")
       THEN Goto(c, "clientNotify")
       ELSE Leave(c)

-----------------------------------------------------------------------------
\* Partitioned single enqueues look the key up before they insert.  A caller's MySQL
\* transaction may have read something before it enqueues.
Start(c) ==
    /\ pc[c] = "start"
    /\ LET key == Keys[c][1]
           seen == IF schema = "partitioned" /\ c \notin Batched /\ key # NoKey
                   THEN Visible(c, key) ELSE {}
       IN  IF seen = {}
           THEN Goto(c, "insert") /\ UNCHANGED answer
           ELSE /\ dup' = [dup EXCEPT ![c] = TRUE]
                /\ \E id \in seen : Return(c, "dup", <<id>>)
    /\ Reads(c) \/ UNCHANGED view
    /\ prior' = [prior EXCEPT ![c] = {id \in Live : KeyOf(id) = Keys[c][1]}]
    /\ UNCHANGED <<row, at, aborted, notifying, committed>>

\* Mutant of Rivals: a look-up of committed rows instead of a unique index.
RivalsCommitted(c, i) ==
    IF Keys[c][i] = NoKey \/ schema = "partitioned" THEN {}
    ELSE {id \in Id : id[1] # c /\ KeyOf(id) = Keys[c][i] /\ row[id] = "live"}

\* Rows of other calls that the unique index compares item i with.  In the
\* partitioned schema the index includes created_at, so there are none.
Rivals(c, i) ==
    IF Keys[c][i] = NoKey \/ schema = "partitioned" THEN {}
    ELSE {id \in Id : id[1] # c /\ KeyOf(id) = Keys[c][i] /\ row[id] \in {"open", "live"}}

\* The key is taken, by another call or by an earlier item of the same one.
Taken(c, i) ==
    \/ Rivals(c, i) # {}
    \/ /\ Keys[c][i] # NoKey
       /\ \E j \in 1..(i - 1) : Keys[c][j] = Keys[c][i] /\ row[<<c, j>>] \in {"open", "live"}

\* Calls whose uncommitted row the insert of c's next item waits for.
WaitsFor(c) ==
    IF pc[c] = "insert" THEN {id[1] : id \in {x \in Rivals(c, at[c]) : row[x] = "open"}} ELSE {}

\* The insert of the next item.  Postgres inserts the items of a batch in one statement,
\* MySQL in a statement each; a statement outside a transaction commits at its end.
Insert(c) ==
    LET i == at[c]
        ends == schema = "mysql" \/ i = Len(Keys[c])
    IN  /\ pc[c] = "insert" /\ WaitsFor(c) = {}
        /\ row' = [id \in Id |->
                     IF id[1] = c /\ (row[id] = "open" \/ (id[2] = i /\ ~Taken(c, i)))
                     THEN IF ends /\ ~TxOpen(c) THEN "live" ELSE "open"
                     ELSE row[id]]
        /\ at' = [at EXCEPT ![c] = i + 1]
        /\ Goto(c, IF ends THEN "collect" ELSE "insert")
        /\ UNCHANGED <<answer, view, aborted, notifying, prior, committed>>

\* MySQL's loop: what the item yields is appended, and the next one is inserted, whatever
\* came before; only errors that are no duplicates are reported.
NextItem(c, id) ==
    LET collected == Append(out[c], id)
        failed == \E i \in DOMAIN collected : collected[i] = Nil
        result == CASE failed -> "error"
                    [] ~failed /\ dup'[c] /\ c \notin Batched -> "dup"
                    [] OTHER -> "ok"
    IN  IF Len(collected) = Len(Keys[c])
        THEN Return(c, result, collected)
        ELSE /\ out' = [out EXCEPT ![c] = collected]
             /\ Goto(c, "insert")
             /\ UNCHANGED res

\* Every member of D waits for one of D and is waited for by one of D.
Deadlocked(D) ==
    \A c \in D : WaitsFor(c) \cap D # {} /\ \E d \in D : c \in WaitsFor(d)

\* The server ends a deadlock at the expense of c: its transaction is rolled back.
\* Postgres refuses further statements; on MySQL the loop goes on without a transaction.
DeadlockVictim(c) ==
    /\ WaitsFor(c) # {}
    /\ \E D \in SUBSET Call : c \in D /\ Deadlocked(D)
    /\ Undo(c)
    /\ aborted' = aborted \cup ({c} \cap inTx)
    /\ UNCHANGED dup
    /\ IF schema = "mysql"
       THEN NextItem(c, Nil) /\ at' = [at EXCEPT ![c] = @ + 1]
       ELSE Return(c, "error", <<>>) /\ UNCHANGED at
    /\ UNCHANGED <<notifying, prior, committed>>

\* Postgres: the inserted rows come with the statement, the others are looked up now; an
\* error when such a row has gone in the meantime.
Collect(c) ==
    /\ pc[c] = "collect" /\ schema # "mysql"
    /\ LET i == Len(out[c]) + 1
           own == row[<<c, i>>] # "absent"
           found == IF own THEN {<<c, i>>} ELSE Visible(c, Keys[c][i])
           last == i = Len(Keys[c])
           any == \E j \in Items(c) : row[<<c, j>>] # "absent"
       IN  IF found = {}
           THEN Return(c, "error", out[c]) /\ UNCHANGED dup
           ELSE /\ dup' = [dup EXCEPT ![c] = @ \/ ~own]
                /\ \E id \in found :
                     IF last /\ ~any
                     THEN Return(c, "dup", Append(out[c], id))
                     ELSE /\ out' = [out EXCEPT ![c] = Append(@, id)]
                          /\ Goto(c, IF last THEN "notify" ELSE "collect")
                          /\ UNCHANGED res
    /\ UNCHANGED <<row, at, view, aborted, notifying, prior, committed>>

\* MySQL: findByID for an inserted row, findByIdempotency after a duplicate key error;
\* finding nothing is an error of this item.
LookUp(c) ==
    /\ pc[c] = "collect" /\ schema = "mysql"
    /\ LET i == Len(out[c]) + 1
           own == row[<<c, i>>] # "absent"
           found == IF own THEN {<<c, i>>} \cap {id \in Id : row[id] # "gone"}
                           ELSE Visible(c, Keys[c][i])
       IN  /\ dup' = [dup EXCEPT ![c] = @ \/ (~own /\ found # {})]
           /\ \E id \in IF found = {} THEN {Nil} ELSE found : NextItem(c, id)
    /\ Reads(c)
    /\ UNCHANGED <<row, at, aborted, notifying, prior, committed>>

\* pg_notify is delivered at commit; auto-commit delivers it at once.
SendNotify(c) ==
    IF c \in inTx THEN queued' = queued \cup {c} /\ UNCHANGED signals
                  ELSE signals' = signals \cup {c} /\ UNCHANGED queued

\* A failed statement ends the transaction it is part of, and nothing of it remains.
NotifyFails(c) ==
    /\ errors < MaxErrors
    /\ errors' = errors + 1
    /\ aborted' = aborted \cup ({c} \cap inTx)
    /\ Undo(c)
    /\ UNCHANGED <<queued, signals>>

\* notifyEnqueue inside the adapter: its error becomes the error of the call, and
\* Enqueue then returns no id.
AdapterNotify(c) ==
    /\ pc[c] = "notify"
    /\ \/ /\ SendNotify(c)
          /\ Return(c, IF dup[c] THEN "dup" ELSE "ok", out[c])
          /\ UNCHANGED <<row, view, aborted, errors>>
       \/ /\ NotifyFails(c)
          /\ Return(c, "error", IF c \in Batched THEN out[c] ELSE <<>>)
    /\ UNCHANGED <<at, dup, prior, committed>>

\* The client's own notification, best effort.  In a doomed transaction it fails.
ClientNotify(c) ==
    /\ pc[c] = "clientNotify"
    /\ \/ c \notin aborted /\ SendNotify(c) /\ UNCHANGED <<row, view, aborted, errors>>
       \/ c \notin aborted /\ NotifyFails(c)
       \/ c \in aborted /\ UNCHANGED <<row, view, aborted, notifying>>
    /\ Leave(c)
    /\ UNCHANGED <<at, answer, prior, committed>>

-----------------------------------------------------------------------------
\* The caller commits after a usable result, and may roll back at any point.
Commit(c) ==
    /\ pc[c] = "returned" /\ res[c] # "error" /\ c \notin aborted
    /\ row' = [id \in Id |-> IF id[1] = c /\ row[id] = "open" THEN "live" ELSE row[id]]
    /\ signals' = signals \cup (queued \cap {c})
    /\ queued' = queued \ {c}
    /\ committed' = committed \cup {c}
    /\ view' = [d \in DOMAIN view \ {c} |-> view[d]]
    /\ Goto(c, "ended")
    /\ UNCHANGED <<at, answer, aborted, errors, prior>>

Rollback(c) ==
    /\ c \in inTx /\ pc[c] # "ended"
    /\ Undo(c)
    /\ queued' = queued \ {c}
    /\ Goto(c, "ended")
    /\ UNCHANGED <<at, answer, aborted, signals, errors, prior, committed>>

\* The message was handled and the janitor deleted it: its key is free again.
Purge(id) ==
    /\ row[id] = "live"
    /\ row' = [row EXCEPT ![id] = "gone"]
    /\ UNCHANGED <<pc, at, answer, view, aborted, notifying, prior, committed>>

-----------------------------------------------------------------------------
\* What the call does of itself, and what its caller does once it has returned.
Progress(c) ==
    /\ \/ Start(c) \/ Insert(c) \/ DeadlockVictim(c) \/ Collect(c) \/ LookUp(c)
       \/ AdapterNotify(c) \/ ClientNotify(c) \/ Commit(c)
       \/ (pc[c] = "returned" /\ Rollback(c))
    /\ UNCHANGED setting

\* The caller's context ends during the call, and its transaction with it.
GiveUp(c) == pc[c] # "returned" /\ Rollback(c) /\ UNCHANGED setting
Purges == (\E id \in Id : Purge(id)) /\ UNCHANGED setting

Next == Purges \/ \E c \in Call : Progress(c) \/ GiveUp(c)

\* Calls run on, the server ends deadlocks, and callers end their transactions after a call.
Spec == Init /\ [][Next]_vars /\ \A c \in Call : WF_vars(Progress(c))

-----------------------------------------------------------------------------
(* Properties *)

\* At most one message exists per idempotency key, whatever inserts race.  On the
\* partitioned schema, whose index includes created_at, this much is left: an Enqueue adds
\* no message to one with its key that was there when it began.
KeyUnique ==
    /\ schema # "partitioned" =>
         \A a, b \in {id \in Id : KeyOf(id) # NoKey /\ row[id] \in {"open", "live"}} :
             KeyOf(a) = KeyOf(b) => a = b
    /\ schema = "partitioned" =>
         \A c \in Call \ Batched : row[<<c, 1>>] # "absent" /\ Keys[c][1] # NoKey
                          => \A id \in prior[c] : KeyOf(id) # Keys[c][1]

\* ErrDuplicate names a message with the caller's key that is really there: it was
\* committed by someone, or inserted by the call itself, and never rolled back.
DuplicateNamesTwin ==
    \A c \in Call \ aborted :
        res[c] = "dup" /\ (c \in inTx /\ pc[c] = "ended" => c \in committed)
        => \A i \in Items(c) : /\ KeyOf(out[c][i]) = Keys[c][i]
                               /\ \/ row[out[c][i]] \in Exists
                                  \/ out[c][i][1] = c /\ row[out[c][i]] = "open"

\* The outbox guarantee.  A message enqueued in the caller's transaction exists only if
\* that transaction committed, a committed call has a message with its key for every item,
\* and workers are woken only for messages that are committed.  (After a deadlock MySQL's
\* EnqueueBatch goes on outside the transaction: those calls are exempt.)
OutboxGuarantee ==
    /\ \A id \in Id : id[1] \in inTx \ aborted /\ row[id] \in Exists => id[1] \in committed
    /\ \A c \in committed : \A i \in Items(c) : KeyOf(out[c][i]) = Keys[c][i] /\ row[out[c][i]] \in Exists
    /\ \A c \in signals : \E i \in DOMAIN out[c] : row[out[c][i]] \in Exists

\* Inserts that wait for each other's transactions, also in a circle, all end.
CallsEnd == \A c \in Call : <>(pc[c] = "ended")

=============================================================================
