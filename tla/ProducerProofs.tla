--------------------------- MODULE ProducerProofs ---------------------------
(***************************************************************************)
(* Proofs about module Producer, for any number of calls, batches of any   *)
(* length, any keys and any number of failing notifications.               *)
(***************************************************************************)
EXTENDS Producer, TLAPS

\* The rows and the place of a call: items are inserted in order, an uncommitted row
\* belongs to a running statement or to an open transaction, and no snapshot has a row
\* that does not exist.
Inserting(c) ==
    /\ at[c] <= Len(Keys[c]) + 1 /\ (pc[c] = "insert" => at[c] <= Len(Keys[c]))
    /\ pc[c] = "start" => at[c] = 1
    /\ \A i \in Items(c) : /\ row[<<c, i>>] # "absent" => i < at[c]
                           /\ row[<<c, i>>] = "open" =>
                                /\ pc[c] # "ended"
                                /\ (schema # "mysql" /\ pc[c] = "insert") \/ TxOpen(c)
    /\ schema = "mysql" => pc[c] \notin {"notify", "clientNotify"}
    /\ pc[c] = "returned" => c \in inTx
    /\ c \in DOMAIN view => schema = "mysql" /\ \A id \in view[c] : row[id] \in Exists

\* How much of its answer a call has, by its place.
Collecting(c) ==
    /\ pc[c] \in {"start", "insert"} => Len(out[c]) = IF schema = "mysql" THEN at[c] - 1 ELSE 0
    /\ pc[c] = "collect" => /\ Len(out[c]) < Len(Keys[c])
                            /\ schema = "mysql" => Len(out[c]) = at[c] - 2
    /\ Len(out[c]) <= Len(Keys[c])
    /\ schema # "mysql" => \A i \in DOMAIN out[c] : out[c][i] # Nil
    /\ pc[c] = "notify" => Len(out[c]) = Len(Keys[c])
    /\ pc[c] \in {"clientNotify", "returned"} => res[c] # "none"
    /\ pc[c] = "clientNotify" => Len(out[c]) > 0
    /\ res[c] # "none" => pc[c] \in {"clientNotify", "returned", "ended"}
    /\ res[c] \in {"ok", "dup"} => /\ Len(out[c]) = Len(Keys[c])
                                   /\ \A i \in DOMAIN out[c] : out[c][i] # Nil

\* A call's work was not rolled back.
Stands(c) == c \notin aborted /\ (c \in inTx /\ pc[c] = "ended" => c \in committed)

\* The items that have an answer have a message, committed or inserted by the call itself.
Answering(c) ==
    Stands(c) => \A i \in DOMAIN out[c] : out[c][i] # Nil =>
        /\ KeyOf(out[c][i]) = Keys[c][i]
        /\ row[out[c][i]] \in Exists \/ (out[c][i][1] = c /\ row[out[c][i]] = "open")

\* Transactions and notifications, and what they need.
Ending(c) ==
    /\ c \in committed => c \in inTx \ aborted /\ pc[c] = "ended" /\ res[c] \in {"ok", "dup"}
    /\ \A i \in Items(c) : c \in inTx \ aborted /\ row[<<c, i>>] \in Exists => c \in committed
    /\ c \in queued => c \in inTx
    /\ c \in signals /\ c \in inTx => c \in committed
    /\ c \in queued \cup signals => /\ schema # "mysql" /\ Len(out[c]) > 0
                                    /\ pc[c] \in {"clientNotify", "returned", "ended"}

CallInv(c) == Inserting(c) /\ Collecting(c) /\ Answering(c) /\ Ending(c)

\* Why the look-up before an insert into partitions suffices for calls that do not overlap.
LookedUp ==
    schema = "partitioned" =>
        \A c \in Call \ Batched : Keys[c][1] # NoKey /\ prior[c] # {}
            => pc[c] # "insert" /\ row[<<c, 1>>] = "absent"

ProducerInv == TypeOK /\ (\A c \in Call : CallInv(c)) /\ KeyUnique /\ LookedUp

\* A step of call c leaves the other calls alone, and never loses a row that exists.
Local(c) ==
    /\ \A d \in Call \ {c} :
         /\ pc'[d] = pc[d] /\ at'[d] = at[d] /\ out'[d] = out[d] /\ res'[d] = res[d]
         /\ prior'[d] = prior[d]
         /\ d \in DOMAIN view' <=> d \in DOMAIN view
         /\ d \in DOMAIN view => view'[d] = view[d]
         /\ d \in aborted' <=> d \in aborted
         /\ d \in queued' <=> d \in queued
         /\ d \in signals' <=> d \in signals
         /\ d \in committed' <=> d \in committed
    /\ schema' = schema /\ inTx' = inTx
    /\ \A id \in Id : /\ row[id] \in Exists => row'[id] = row[id]
                      /\ id[1] # c => row'[id] = row[id]

-----------------------------------------------------------------------------
\* A row id is a call with one of its items.
LEMMA IdFacts ==
    /\ \A c \in Call : \A i \in Items(c) : <<c, i>> \in Id /\ KeyOf(<<c, i>>) = Keys[c][i]
    /\ \A id \in Id : id[1] \in Call /\ id[2] \in Items(id[1]) /\ id = <<id[1], id[2]>>
BY DEF Id, KeyOf

\* The lengths of the calls.
LEMMA Lengths ==
    \A c \in Call : /\ Len(Keys[c]) \in Nat /\ Len(Keys[c]) >= 1
                    /\ Items(c) = 1..Len(Keys[c])
                    /\ c \notin Batched => Len(Keys[c]) = 1
BY ProducerAssumption

\* What a look-up returns exists, or is an uncommitted row of the call itself.
LEMMA VisibleRows ==
    ASSUME TypeOK, NEW c \in Call, Inserting(c), NEW key, NEW id \in Visible(c, key)
    PROVE  /\ id \in Id /\ KeyOf(id) = key
           /\ row[id] \in Exists \/ (id[1] = c /\ row[id] = "open")
BY DEF TypeOK, Inserting, Visible, Live, Exists

\* The end of an adapter call.
LEMMA Returning ==
    ASSUME TypeOK, NEW c \in Call, NEW result, NEW collected, Return(c, result, collected)
    PROVE  /\ res' = [res EXCEPT ![c] = result]
           /\ out' = [out EXCEPT ![c] = collected]
           /\ \A d \in Call \ {c} : pc'[d] = pc[d]
           /\ \/ pc'[c] = "clientNotify" /\ schema # "mysql" /\ collected # <<>>
              \/ pc'[c] = "returned" /\ c \in inTx
              \/ pc'[c] = "ended" /\ c \notin inTx
           /\ pc' \in [Call -> {"start", "insert", "collect", "notify", "clientNotify",
                                "returned", "ended"}]
BY Zenon DEF TypeOK, Return, Leave, Goto

\* A step of MySQL's loop.
LEMMA Looping ==
    ASSUME TypeOK, NEW c \in Call, NEW id \in Id \cup {Nil}, NextItem(c, id), schema = "mysql"
    PROVE  /\ out' = [out EXCEPT ![c] = Append(out[c], id)]
           /\ out' \in [Call -> Seq(Id \cup {Nil})]
           /\ res' \in [Call -> {"none", "ok", "dup", "error"}]
           /\ pc' \in [Call -> {"start", "insert", "collect", "notify", "clientNotify",
                                "returned", "ended"}]
           /\ \A d \in Call \ {c} : pc'[d] = pc[d] /\ res'[d] = res[d]
           /\ \/ pc'[c] = "insert" /\ res' = res /\ Len(out[c]) + 1 # Len(Keys[c])
              \/ /\ Len(out[c]) + 1 = Len(Keys[c])
                 /\ \/ pc'[c] = "returned" /\ c \in inTx
                    \/ pc'[c] = "ended" /\ c \notin inTx
                 /\ res'[c] \in {"ok", "dup", "error"}
                 /\ res'[c] # "error" => id # Nil /\ \A i \in DOMAIN out[c] : out[c][i] # Nil
<1> DEFINE collected == Append(out[c], id)
           failed == \E i \in DOMAIN collected : collected[i] = Nil
           result == CASE failed -> "error"
                       [] ~failed /\ dup'[c] /\ c \notin Batched -> "dup"
                       [] OTHER -> "ok"
<1>1. /\ out[c] \in Seq(Id \cup {Nil}) /\ collected \in Seq(Id \cup {Nil})
      /\ Len(collected) = Len(out[c]) + 1 /\ Len(out[c]) \in Nat
      /\ DOMAIN collected = 1..(Len(out[c]) + 1) /\ DOMAIN out[c] = 1..Len(out[c])
      /\ collected[Len(out[c]) + 1] = id
      /\ \A i \in DOMAIN out[c] : collected[i] = out[c][i]
  BY DEF TypeOK
<1>2. result \in {"ok", "dup", "error"}
  OBVIOUS
<1>3. result # "error" => id # Nil /\ \A i \in DOMAIN out[c] : out[c][i] # Nil
  <2>1. result # "error" => ~failed
    OBVIOUS
  <2>2. Len(out[c]) + 1 \in DOMAIN collected /\ DOMAIN out[c] \subseteq DOMAIN collected
    BY <1>1
  <2> QED BY <1>1, <2>1, <2>2
<1>4. CASE Len(collected) = Len(Keys[c])
  <2>1. Return(c, result, collected)
    BY <1>4 DEF NextItem
  <2> HIDE DEF collected, result
  <2>2. /\ res' = [res EXCEPT ![c] = result] /\ out' = [out EXCEPT ![c] = collected]
        /\ \A d \in Call \ {c} : pc'[d] = pc[d]
        /\ \/ pc'[c] = "returned" /\ c \in inTx
           \/ pc'[c] = "ended" /\ c \notin inTx
        /\ pc' \in [Call -> {"start", "insert", "collect", "notify", "clientNotify",
                             "returned", "ended"}]
    BY <2>1, Returning
  <2>3. /\ res' \in [Call -> {"none", "ok", "dup", "error"}] /\ res'[c] = result
        /\ \A d \in Call \ {c} : res'[d] = res[d]
        /\ out' \in [Call -> Seq(Id \cup {Nil})]
    BY <1>1, <1>2, <2>2 DEF TypeOK
  <2>4. Len(out[c]) + 1 = Len(Keys[c])
    BY <1>1, <1>4
  <2> QED BY <1>2, <1>3, <2>2, <2>3, <2>4 DEF collected
<1>5. CASE Len(collected) # Len(Keys[c])
  <2>1. /\ out' = [out EXCEPT ![c] = collected]
        /\ Goto(c, "insert") /\ res' = res
    BY <1>5 DEF NextItem
  <2> HIDE DEF collected
  <2> QED BY <1>1, <1>5, <2>1 DEF TypeOK, Goto, collected
<1> QED BY <1>4, <1>5

\* The other calls keep their part of the invariant.
LEMMA Others ==
    ASSUME TypeOK, TypeOK', NEW c \in Call, Local(c), NEW d \in Call \ {c}, CallInv(d)
    PROVE  CallInv(d)'
<1>1. \A i \in Items(d) : <<d, i>> \in Id /\ <<d, i>>[1] # c /\ row'[<<d, i>>] = row[<<d, i>>]
  BY IdFacts DEF Local
<1>2. Inserting(d)'
  BY <1>1 DEF CallInv, Inserting, Local, TxOpen, TypeOK, Exists
<1>3. Collecting(d)'
  BY DEF CallInv, Collecting, Local
<1>4. Answering(d)'
  <2>1. out'[d] = out[d] /\ (Stands(d)' => Stands(d))
    BY DEF Local, Stands
  <2>2. SUFFICES ASSUME Stands(d), NEW i \in DOMAIN out[d], out[d][i] # Nil
                 PROVE  /\ KeyOf(out[d][i]) = Keys[d][i]
                        /\ \/ row'[out[d][i]] \in Exists
                           \/ out[d][i][1] = d /\ row'[out[d][i]] = "open"
    BY <2>1 DEF Answering, KeyOf, Exists
  <2>3. out[d][i] \in Id
    BY <2>2 DEF TypeOK
  <2>4. /\ KeyOf(out[d][i]) = Keys[d][i]
        /\ row[out[d][i]] \in Exists \/ (out[d][i][1] = d /\ row[out[d][i]] = "open")
    BY <2>2 DEF CallInv, Answering
  <2> QED BY <2>3, <2>4 DEF Local
<1>5. Ending(d)'
  BY <1>1 DEF CallInv, Ending, Local, Exists
<1> QED BY <1>2, <1>3, <1>4, <1>5 DEF CallInv

\* A call keeps its answers while its rows are kept, and may get one more.
LEMMA KeepsAnswers ==
    ASSUME TypeOK, NEW c \in Call, Local(c), Answering(c), Stands(c)' => Stands(c),
           Stands(c)' => \A id \in Id : id[1] = c /\ row[id] = "open"
                                         => row'[id] \in {"open", "live"},
           \/ out'[c] = out[c]
           \/ \E x \in Id \cup {Nil} :
                /\ out'[c] = Append(out[c], x)
                /\ x # Nil /\ Stands(c)' =>
                     /\ KeyOf(x) = Keys[c][Len(out[c]) + 1]
                     /\ row'[x] \in Exists \/ (x[1] = c /\ row'[x] = "open")
    PROVE  Answering(c)'
<1>1. SUFFICES ASSUME Stands(c)', NEW i \in DOMAIN out'[c], out'[c][i] # Nil
               PROVE  /\ KeyOf(out'[c][i]) = Keys[c][i]
                      /\ \/ row'[out'[c][i]] \in Exists
                         \/ out'[c][i][1] = c /\ row'[out'[c][i]] = "open"
  BY DEF Answering, KeyOf, Exists
<1>2. ASSUME i \in DOMAIN out[c], out'[c][i] = out[c][i]
      PROVE  /\ KeyOf(out'[c][i]) = Keys[c][i]
             /\ \/ row'[out'[c][i]] \in Exists
                \/ out'[c][i][1] = c /\ row'[out'[c][i]] = "open"
  <2>1. out[c][i] \in Id
    BY <1>1, <1>2 DEF TypeOK
  <2>2. /\ KeyOf(out[c][i]) = Keys[c][i]
        /\ row[out[c][i]] \in Exists \/ (out[c][i][1] = c /\ row[out[c][i]] = "open")
    BY <1>1, <1>2 DEF Answering
  <2> QED BY <1>1, <1>2, <2>1, <2>2 DEF Local, Exists
<1>3. CASE out'[c] = out[c]
  BY <1>1, <1>2, <1>3
<1>4. ASSUME NEW x \in Id \cup {Nil}, out'[c] = Append(out[c], x),
             x # Nil => /\ KeyOf(x) = Keys[c][Len(out[c]) + 1]
                        /\ row'[x] \in Exists \/ (x[1] = c /\ row'[x] = "open")
      PROVE  /\ KeyOf(out'[c][i]) = Keys[c][i]
             /\ \/ row'[out'[c][i]] \in Exists
                \/ out'[c][i][1] = c /\ row'[out'[c][i]] = "open"
  <2>1. /\ out[c] \in Seq(Id \cup {Nil}) /\ Len(out[c]) \in Nat /\ DOMAIN out[c] = 1..Len(out[c])
        /\ DOMAIN out'[c] = 1..(Len(out[c]) + 1)
        /\ out'[c][Len(out[c]) + 1] = x /\ \A k \in DOMAIN out[c] : out'[c][k] = out[c][k]
    BY <1>4 DEF TypeOK
  <2>2. CASE i \in DOMAIN out[c]
    BY <1>2, <2>1, <2>2
  <2>3. CASE i = Len(out[c]) + 1
    BY <1>1, <1>4, <2>1, <2>3
  <2> QED BY <2>1, <2>2, <2>3
<1> QED BY Zenon, <1>1, <1>3, <1>4

\* The insert of an item.
LEMMA InsertStep ==
    ASSUME TypeOK, NEW c \in Call, CallInv(c), Insert(c), UNCHANGED setting
    PROVE  TypeOK' /\ Local(c) /\ CallInv(c)'
<1>1. /\ at[c] \in Items(c) /\ at[c] \in Nat /\ at'[c] = at[c] + 1
      /\ Len(Keys[c]) \in Nat /\ Items(c) = 1..Len(Keys[c])
  BY Lengths DEF TypeOK, CallInv, Inserting, Insert
<1>2. TypeOK'
  BY <1>1 DEF TypeOK, Insert, Goto, answer, notifying, setting
<1>a. \A id \in Id : id[1] = c /\ id[2] = at[c] => row[id] = "absent"
  BY <1>1, IdFacts DEF TypeOK, CallInv, Inserting
<1>3. Local(c)
  BY <1>a DEF TypeOK, Local, Insert, Goto, answer, notifying, setting, Exists
<1>4. Inserting(c)'
  BY <1>1, <1>3, IdFacts DEF TypeOK, CallInv, Inserting, Local, Insert, Goto, TxOpen,
     setting, answer, notifying, Exists
<1>5. Collecting(c)'
  BY <1>1 DEF TypeOK, CallInv, Collecting, Insert, Goto, setting, answer
<1>6. Answering(c)'
  BY <1>3, KeepsAnswers DEF TypeOK, CallInv, Insert, Goto, Stands, setting, answer
<1>7. Ending(c)'
  BY <1>1, IdFacts DEF TypeOK, CallInv, Ending, Insert, Goto, TxOpen, setting, answer,
     notifying, Exists
<1> QED BY <1>2, <1>3, <1>4, <1>5, <1>6, <1>7 DEF CallInv

\* The caller commits.
LEMMA CommitStep ==
    ASSUME TypeOK, NEW c \in Call, CallInv(c), Commit(c), UNCHANGED setting
    PROVE  TypeOK' /\ Local(c) /\ CallInv(c)'
<1>2. TypeOK'
  BY DEF TypeOK, Commit, Goto, answer, setting
<1>3. Local(c)
  BY DEF TypeOK, Local, Commit, Goto, answer, setting, Exists
<1>4. Inserting(c)'
  BY <1>3, IdFacts DEF TypeOK, CallInv, Inserting, Local, Commit, Goto, TxOpen, setting,
     answer, Exists
<1>5. Collecting(c)'
  BY DEF TypeOK, CallInv, Collecting, Commit, Goto, setting, answer
<1>6. Answering(c)'
  BY <1>3, KeepsAnswers DEF TypeOK, CallInv, Commit, Goto, Stands, setting, answer
<1>7. Ending(c)'
  BY IdFacts DEF TypeOK, CallInv, Inserting, Collecting, Ending, Commit, Goto, setting,
     answer, Exists
<1> QED BY <1>2, <1>3, <1>4, <1>5, <1>6, <1>7 DEF CallInv

\* The caller rolls back.
LEMMA RollbackStep ==
    ASSUME TypeOK, NEW c \in Call, CallInv(c), Rollback(c), UNCHANGED setting
    PROVE  TypeOK' /\ Local(c) /\ CallInv(c)'
<1>2. TypeOK'
  BY DEF TypeOK, Rollback, Undo, Goto, answer, setting
<1>3. Local(c)
  BY DEF TypeOK, Local, Rollback, Undo, Goto, answer, setting, Exists
<1>4. Inserting(c)'
  BY <1>3, IdFacts DEF TypeOK, CallInv, Inserting, Local, Rollback, Undo, Goto, TxOpen,
     setting, answer, Exists
<1>5. Collecting(c)'
  BY DEF TypeOK, CallInv, Collecting, Rollback, Goto, setting, answer
<1>6. Answering(c)'
  BY DEF TypeOK, CallInv, Ending, Rollback, Goto, Answering, Stands, setting
<1>7. Ending(c)'
  BY IdFacts DEF TypeOK, CallInv, Ending, Rollback, Undo, Goto, setting, answer, Exists
<1> QED BY <1>2, <1>3, <1>4, <1>5, <1>6, <1>7 DEF CallInv

\* A read leaves the snapshots of the other calls alone and sees rows that exist.
LEMMA ReadsView ==
    ASSUME TypeOK, NEW c \in Call, Inserting(c), Reads(c) \/ UNCHANGED view
    PROVE  /\ view' \in [DOMAIN view' -> SUBSET Id] /\ DOMAIN view' \subseteq inTx
           /\ \A d \in Call \ {c} : /\ d \in DOMAIN view' <=> d \in DOMAIN view
                                    /\ d \in DOMAIN view => view'[d] = view[d]
           /\ c \in DOMAIN view' => schema = "mysql" /\ \A id \in view'[c] : row[id] \in Exists
<1>1. CASE UNCHANGED view
  BY <1>1 DEF TypeOK, Inserting
<1>2. CASE /\ schema = "mysql" /\ TxOpen(c) /\ c \notin DOMAIN view
           /\ view' = [d \in DOMAIN view \cup {c} |-> IF d = c THEN Live ELSE view[d]]
  BY <1>2 DEF TypeOK, TxOpen, Live, Exists
<1> QED BY <1>1, <1>2 DEF Reads

\* The start of a call.
LEMMA StartStep ==
    ASSUME TypeOK, NEW c \in Call, CallInv(c), Start(c), UNCHANGED setting
    PROVE  TypeOK' /\ Local(c) /\ CallInv(c)'
<1>1. /\ Len(Keys[c]) \in Nat /\ Len(Keys[c]) >= 1 /\ Items(c) = 1..Len(Keys[c])
      /\ (c \notin Batched => Len(Keys[c]) = 1)
      /\ pc[c] = "start" /\ at[c] = 1 /\ Len(out[c]) = 0 /\ res[c] = "none"
      /\ \A i \in Items(c) : row[<<c, i>>] = "absent"
  BY Lengths DEF TypeOK, CallInv, Inserting, Collecting, Start
<1>2. /\ row' = row /\ at' = at /\ aborted' = aborted /\ queued' = queued /\ signals' = signals
      /\ errors' = errors /\ committed' = committed /\ schema' = schema /\ inTx' = inTx
      /\ prior' \in [Call -> SUBSET Id] /\ \A d \in Call \ {c} : prior'[d] = prior[d]
  BY DEF TypeOK, Start, notifying, setting, Live
<1>3. /\ view' \in [DOMAIN view' -> SUBSET Id] /\ DOMAIN view' \subseteq inTx
      /\ \A d \in Call \ {c} : /\ d \in DOMAIN view' <=> d \in DOMAIN view
                               /\ d \in DOMAIN view => view'[d] = view[d]
      /\ c \in DOMAIN view' => schema = "mysql" /\ \A id \in view'[c] : row[id] \in Exists
  BY ReadsView DEF CallInv, Start
<1>4. CASE Goto(c, "insert") /\ UNCHANGED answer
  <2>1. TypeOK'
    BY <1>2, <1>3, <1>4 DEF TypeOK, Goto, answer
  <2>2. Local(c)
    BY <1>2, <1>3, <1>4 DEF TypeOK, Local, Goto, answer
  <2>3. Inserting(c)'
    BY <1>1, <1>2, <1>3, <1>4 DEF TypeOK, CallInv, Inserting, Goto, TxOpen
  <2>4. Collecting(c)'
    BY <1>1, <1>2, <1>4 DEF TypeOK, CallInv, Collecting, Goto, answer
  <2>5. Answering(c)'
    <3>1. /\ out'[c] = out[c] /\ (Stands(c)' => Stands(c))
          /\ \A id \in Id : id[1] = c /\ row[id] = "open" => row'[id] \in {"open", "live"}
      BY <1>1, <1>2, <1>4 DEF TypeOK, Goto, Stands, answer
    <3> QED BY <2>2, <3>1, KeepsAnswers DEF CallInv
  <2>6. Ending(c)'
    BY <1>1, <1>2, <1>4 DEF TypeOK, CallInv, Ending, Goto, answer
  <2> QED BY <2>1, <2>2, <2>3, <2>4, <2>5, <2>6 DEF CallInv
<1>5. ASSUME NEW id \in Visible(c, Keys[c][1]), schema = "partitioned", c \notin Batched,
             dup' = [dup EXCEPT ![c] = TRUE], Return(c, "dup", <<id>>)
      PROVE  TypeOK' /\ Local(c) /\ CallInv(c)'
  <2>0. /\ id \in Id /\ KeyOf(id) = Keys[c][1]
        /\ row[id] \in Exists \/ (id[1] = c /\ row[id] = "open")
    BY VisibleRows DEF CallInv
  <2>1. /\ res' = [res EXCEPT ![c] = "dup"] /\ out' = [out EXCEPT ![c] = <<id>>]
        /\ \A d \in Call \ {c} : pc'[d] = pc[d]
        /\ \/ pc'[c] = "clientNotify" /\ schema # "mysql"
           \/ pc'[c] = "returned" /\ c \in inTx
           \/ pc'[c] = "ended" /\ c \notin inTx
        /\ pc' \in [Call -> {"start", "insert", "collect", "notify", "clientNotify",
                             "returned", "ended"}]
    BY <1>5, Returning
  <2>2. /\ <<id>> \in Seq(Id \cup {Nil}) /\ Len(<<id>>) = 1 /\ DOMAIN <<id>> = {1} /\ <<id>>[1] = id
        /\ id # Nil
    BY <2>0, ProducerAssumption
  <2>a. /\ out' \in [Call -> Seq(Id \cup {Nil})] /\ out'[c] = <<id>> /\ res'[c] = "dup"
        /\ \A d \in Call \ {c} : out'[d] = out[d] /\ res'[d] = res[d]
    BY <2>1, <2>2 DEF TypeOK
  <2>3. TypeOK'
    BY <1>2, <1>3, <1>5, <2>1, <2>a DEF TypeOK
  <2>4. Local(c)
    BY <1>2, <1>3, <2>1, <2>a DEF Local
  <2>5. Inserting(c)'
    BY <1>1, <1>2, <1>3, <1>5, <2>1 DEF CallInv, Inserting, TxOpen
  <2>6. Collecting(c)'
    BY <1>1, <1>2, <1>5, <2>1, <2>2, <2>a DEF Collecting
  <2>7. Answering(c)'
    BY <1>2, <2>0, <2>2, <2>a DEF Answering
  <2>8. Ending(c)'
    BY <1>1, <1>2, <1>5, <2>1, <2>2, <2>a DEF CallInv, Ending
  <2> QED BY <2>3, <2>4, <2>5, <2>6, <2>7, <2>8 DEF CallInv
<1> QED BY Zenon, <1>4, <1>5 DEF Start

\* An item is collected on Postgres.
LEMMA CollectStep ==
    ASSUME TypeOK, NEW c \in Call, CallInv(c), Collect(c), UNCHANGED setting
    PROVE  TypeOK' /\ Local(c) /\ CallInv(c)'
<1> DEFINE i == Len(out[c]) + 1
           own == row[<<c, i>>] # "absent"
           found == IF own THEN {<<c, i>>} ELSE Visible(c, Keys[c][i])
<1>1. /\ Len(Keys[c]) \in Nat /\ Len(Keys[c]) >= 1 /\ Items(c) = 1..Len(Keys[c])
      /\ pc[c] = "collect" /\ schema # "mysql" /\ res[c] = "none"
      /\ out[c] \in Seq(Id \cup {Nil}) /\ Len(out[c]) \in Nat /\ Len(out[c]) < Len(Keys[c])
      /\ DOMAIN out[c] = 1..Len(out[c]) /\ i \in Items(c)
      /\ \A k \in DOMAIN out[c] : out[c][k] # Nil
  BY Lengths DEF TypeOK, CallInv, Collecting, Collect
<1>2. /\ row' = row /\ at' = at /\ view' = view /\ aborted' = aborted /\ queued' = queued
      /\ signals' = signals /\ errors' = errors /\ committed' = committed /\ prior' = prior
      /\ schema' = schema /\ inTx' = inTx
  BY DEF Collect, notifying, setting
<1>3. \A id \in found : /\ id \in Id /\ id # Nil /\ KeyOf(id) = Keys[c][i]
                        /\ row[id] \in Exists \/ (id[1] = c /\ row[id] = "open")
  <2>1. <<c, i>> \in Id /\ KeyOf(<<c, i>>) = Keys[c][i]
    BY <1>1, IdFacts
  <2>2. row[<<c, i>>] \in {"absent", "open"} \cup Exists
    BY <2>1 DEF TypeOK, Exists
  <2>3. CASE own
    BY <2>1, <2>2, <2>3, ProducerAssumption
  <2>4. CASE ~own
    BY <2>4, VisibleRows, ProducerAssumption DEF CallInv
  <2> QED BY <2>3, <2>4
<1>4. CASE Return(c, "error", out[c]) /\ UNCHANGED dup
  <2>1. /\ res' = [res EXCEPT ![c] = "error"] /\ out' = [out EXCEPT ![c] = out[c]]
        /\ \A d \in Call \ {c} : pc'[d] = pc[d]
        /\ \/ pc'[c] = "clientNotify" /\ out[c] # <<>>
           \/ pc'[c] = "returned" /\ c \in inTx
           \/ pc'[c] = "ended" /\ c \notin inTx
        /\ pc' \in [Call -> {"start", "insert", "collect", "notify", "clientNotify",
                             "returned", "ended"}]
    BY <1>4, Returning
  <2>2. /\ out' = out /\ res'[c] = "error" /\ \A d \in Call \ {c} : res'[d] = res[d]
        /\ out[c] # <<>> => Len(out[c]) > 0
    BY <1>1, <2>1 DEF TypeOK
  <2>3. TypeOK'
    BY <1>2, <1>4, <2>1, <2>2 DEF TypeOK
  <2>4. Local(c)
    BY <1>2, <2>1, <2>2 DEF Local
  <2>5. Inserting(c)'
    BY <1>1, <1>2, <2>1 DEF CallInv, Inserting, TxOpen
  <2>6. Collecting(c)'
    BY <1>1, <1>2, <2>1, <2>2 DEF CallInv, Collecting
  <2>7. Answering(c)'
    BY <1>1, <1>2, <2>1, <2>2 DEF CallInv, Answering, Stands
  <2>8. Ending(c)'
    BY <1>1, <1>2, <2>1, <2>2 DEF CallInv, Ending
  <2> QED BY <2>3, <2>4, <2>5, <2>6, <2>7, <2>8 DEF CallInv
<1>5. ASSUME NEW id \in found, dup' \in [Call -> BOOLEAN],
             \/ i = Len(Keys[c]) /\ Return(c, "dup", Append(out[c], id))
             \/ /\ out' = [out EXCEPT ![c] = Append(out[c], id)]
                /\ Goto(c, IF i = Len(Keys[c]) THEN "notify" ELSE "collect")
                /\ UNCHANGED res
      PROVE  TypeOK' /\ Local(c) /\ CallInv(c)'
  <2>1. /\ out' = [out EXCEPT ![c] = Append(out[c], id)]
        /\ \A d \in Call \ {c} : pc'[d] = pc[d] /\ res'[d] = res[d]
        /\ res' \in [Call -> {"none", "ok", "dup", "error"}]
        /\ \/ /\ i = Len(Keys[c]) /\ res'[c] = "dup"
              /\ \/ pc'[c] = "clientNotify"
                 \/ pc'[c] = "returned" /\ c \in inTx
                 \/ pc'[c] = "ended" /\ c \notin inTx
           \/ res'[c] = "none" /\ pc'[c] = "notify" /\ i = Len(Keys[c])
           \/ res'[c] = "none" /\ pc'[c] = "collect" /\ i # Len(Keys[c])
        /\ pc' \in [Call -> {"start", "insert", "collect", "notify", "clientNotify",
                             "returned", "ended"}]
    <3>1. CASE i = Len(Keys[c]) /\ Return(c, "dup", Append(out[c], id))
      <4>1. /\ res' = [res EXCEPT ![c] = "dup"] /\ out' = [out EXCEPT ![c] = Append(out[c], id)]
            /\ \A d \in Call \ {c} : pc'[d] = pc[d]
            /\ \/ pc'[c] = "clientNotify"
               \/ pc'[c] = "returned" /\ c \in inTx
               \/ pc'[c] = "ended" /\ c \notin inTx
            /\ pc' \in [Call -> {"start", "insert", "collect", "notify", "clientNotify",
                                 "returned", "ended"}]
        BY Zenon, <3>1, Returning
      <4> QED BY <3>1, <4>1 DEF TypeOK
    <3>2. CASE /\ out' = [out EXCEPT ![c] = Append(out[c], id)]
               /\ Goto(c, IF i = Len(Keys[c]) THEN "notify" ELSE "collect")
               /\ UNCHANGED res
      BY <1>1, <3>2 DEF TypeOK, Goto
    <3> QED BY <1>5, <3>1, <3>2
  <2>2. /\ id \in Id /\ id # Nil /\ KeyOf(id) = Keys[c][i]
        /\ row[id] \in Exists \/ (id[1] = c /\ row[id] = "open")
    BY <1>3
  <2> HIDE DEF found
  <2>3. /\ out'[c] = Append(out[c], id) /\ Len(out'[c]) = i /\ DOMAIN out'[c] = 1..i
        /\ \A k \in DOMAIN out[c] : out'[c][k] = out[c][k]
        /\ out'[c][i] = id
        /\ out' \in [Call -> Seq(Id \cup {Nil})] /\ \A d \in Call \ {c} : out'[d] = out[d]
    BY <1>1, <2>1, <2>2 DEF TypeOK
  <2>4. \A k \in DOMAIN out'[c] : out'[c][k] # Nil
    BY <1>1, <2>2, <2>3
  <2>5. TypeOK'
    BY <1>2, <1>5, <2>1, <2>3 DEF TypeOK
  <2>6. Local(c)
    BY <1>2, <2>1, <2>3 DEF Local
  <2>7. Inserting(c)'
    BY <1>1, <1>2, <2>1 DEF CallInv, Inserting, TxOpen
  <2>8. Collecting(c)'
    BY <1>1, <1>2, <2>1, <2>3, <2>4 DEF CallInv, Collecting
  <2>9. Answering(c)'
    <3>1. /\ Stands(c)' => Stands(c)
          /\ \A x \in Id : x[1] = c /\ row[x] = "open" => row'[x] \in {"open", "live"}
      BY <1>1, <1>2, <2>1 DEF Stands
    <3>2. /\ KeyOf(id) = Keys[c][Len(out[c]) + 1]
          /\ row'[id] \in Exists \/ (id[1] = c /\ row'[id] = "open")
      BY <1>2, <2>2
    <3> QED BY <2>2, <2>3, <2>6, <3>1, <3>2, KeepsAnswers DEF CallInv
  <2>10. Ending(c)'
    BY <1>1, <1>2, <2>1, <2>3 DEF CallInv, Ending
  <2> QED BY <2>5, <2>6, <2>7, <2>8, <2>9, <2>10 DEF CallInv
<1>6. \/ Return(c, "error", out[c]) /\ UNCHANGED dup
      \/ \E id \in found :
           /\ dup' = [dup EXCEPT ![c] = dup[c] \/ ~own]
           /\ \/ i = Len(Keys[c]) /\ Return(c, "dup", Append(out[c], id))
              \/ /\ out' = [out EXCEPT ![c] = Append(out[c], id)]
                 /\ Goto(c, IF i = Len(Keys[c]) THEN "notify" ELSE "collect")
                 /\ UNCHANGED res
  BY Zenon DEF Collect
<1>7. dup' = [dup EXCEPT ![c] = dup[c] \/ ~own] => dup' \in [Call -> BOOLEAN]
  BY DEF TypeOK
<1> QED BY <1>4, <1>5, <1>6, <1>7

\* An item is looked up on MySQL.
LEMMA LookUpStep ==
    ASSUME TypeOK, NEW c \in Call, CallInv(c), LookUp(c), UNCHANGED setting
    PROVE  TypeOK' /\ Local(c) /\ CallInv(c)'
<1> DEFINE i == Len(out[c]) + 1
           own == row[<<c, i>>] # "absent"
           found == IF own THEN {<<c, i>>} \cap {id \in Id : row[id] # "gone"}
                           ELSE Visible(c, Keys[c][i])
<1>1. /\ Len(Keys[c]) \in Nat /\ Len(Keys[c]) >= 1 /\ Items(c) = 1..Len(Keys[c])
      /\ pc[c] = "collect" /\ schema = "mysql" /\ res[c] = "none" /\ at[c] \in Nat
      /\ out[c] \in Seq(Id \cup {Nil}) /\ Len(out[c]) \in Nat /\ Len(out[c]) < Len(Keys[c])
      /\ Len(out[c]) = at[c] - 2 /\ DOMAIN out[c] = 1..Len(out[c]) /\ i \in Items(c)
  BY Lengths DEF TypeOK, CallInv, Collecting, LookUp
<1>2. /\ row' = row /\ at' = at /\ aborted' = aborted /\ queued' = queued
      /\ signals' = signals /\ errors' = errors /\ committed' = committed /\ prior' = prior
      /\ schema' = schema /\ inTx' = inTx
  BY DEF LookUp, notifying, setting
<1>3. /\ view' \in [DOMAIN view' -> SUBSET Id] /\ DOMAIN view' \subseteq inTx
      /\ \A d \in Call \ {c} : /\ d \in DOMAIN view' <=> d \in DOMAIN view
                               /\ d \in DOMAIN view => view'[d] = view[d]
      /\ c \in DOMAIN view' => schema = "mysql" /\ \A id \in view'[c] : row[id] \in Exists
  BY ReadsView DEF CallInv, LookUp
<1>4. \A id \in found : /\ id \in Id /\ id # Nil /\ KeyOf(id) = Keys[c][i]
                        /\ row[id] \in Exists \/ (id[1] = c /\ row[id] = "open")
  <2>1. <<c, i>> \in Id /\ KeyOf(<<c, i>>) = Keys[c][i]
    BY <1>1, IdFacts
  <2>2. row[<<c, i>>] \in {"absent", "open"} \cup Exists
    BY <2>1 DEF TypeOK, Exists
  <2>3. CASE own
    BY <2>1, <2>2, <2>3, ProducerAssumption
  <2>4. CASE ~own
    BY <2>4, VisibleRows, ProducerAssumption DEF CallInv
  <2> QED BY <2>3, <2>4
<1>5. dup' \in [Call -> BOOLEAN]
  <2>1. dup' = [dup EXCEPT ![c] = dup[c] \/ (~own /\ found # {})]
    BY Zenon DEF LookUp
  <2> QED BY <2>1 DEF TypeOK
<1>6. PICK id \in IF found = {} THEN {Nil} ELSE found : NextItem(c, id)
  BY Zenon DEF LookUp
<1>7. /\ id \in Id \cup {Nil}
      /\ id # Nil => /\ KeyOf(id) = Keys[c][i]
                     /\ row[id] \in Exists \/ (id[1] = c /\ row[id] = "open")
  BY <1>4, <1>6
<1> HIDE DEF found
<1>8. /\ out' = [out EXCEPT ![c] = Append(out[c], id)]
      /\ out' \in [Call -> Seq(Id \cup {Nil})]
      /\ res' \in [Call -> {"none", "ok", "dup", "error"}]
      /\ pc' \in [Call -> {"start", "insert", "collect", "notify", "clientNotify",
                           "returned", "ended"}]
      /\ \A d \in Call \ {c} : pc'[d] = pc[d] /\ res'[d] = res[d]
      /\ \/ pc'[c] = "insert" /\ res' = res /\ Len(out[c]) + 1 # Len(Keys[c])
         \/ /\ Len(out[c]) + 1 = Len(Keys[c])
            /\ \/ pc'[c] = "returned" /\ c \in inTx
               \/ pc'[c] = "ended" /\ c \notin inTx
            /\ res'[c] \in {"ok", "dup", "error"}
            /\ res'[c] # "error" => id # Nil /\ \A k \in DOMAIN out[c] : out[c][k] # Nil
  BY <1>1, <1>6, <1>7, Looping
<1>9. /\ out'[c] = Append(out[c], id) /\ Len(out'[c]) = i /\ DOMAIN out'[c] = 1..i
      /\ \A k \in DOMAIN out[c] : out'[c][k] = out[c][k]
      /\ out'[c][i] = id /\ \A d \in Call \ {c} : out'[d] = out[d]
  BY <1>1, <1>7, <1>8 DEF TypeOK
<1>10. TypeOK'
  BY <1>2, <1>3, <1>5, <1>8 DEF TypeOK
<1>11. Local(c)
  BY <1>2, <1>3, <1>8, <1>9 DEF Local
<1>12. Inserting(c)'
  <2>1. /\ pc'[c] \in {"insert", "returned", "ended"}
        /\ pc'[c] = "returned" => c \in inTx
        /\ pc'[c] = "ended" => c \notin inTx
        /\ pc'[c] = "insert" => at[c] <= Len(Keys[c])
    BY <1>1, <1>8
  <2>2. /\ at[c] <= Len(Keys[c]) + 1
        /\ \A k \in Items(c) : /\ row[<<c, k>>] # "absent" => k < at[c]
                               /\ row[<<c, k>>] = "open" => TxOpen(c)
    BY <1>1 DEF CallInv, Inserting
  <2>3. (TxOpen(c)' <=> TxOpen(c)) /\ (TxOpen(c) => c \in inTx)
    BY <1>2 DEF TxOpen
  <2> QED BY <1>2, <1>3, <2>1, <2>2, <2>3 DEF Inserting
<1>13. Collecting(c)'
  <2>1. /\ pc'[c] \in {"insert", "returned", "ended"}
        /\ pc'[c] = "insert" <=> res'[c] = "none"
        /\ pc'[c] # "insert" => Len(out'[c]) = Len(Keys[c])
        /\ Len(out'[c]) = at[c] - 1 /\ Len(out'[c]) <= Len(Keys[c])
    BY <1>1, <1>8, <1>9
  <2>2. res'[c] \in {"ok", "dup"} => \A k \in DOMAIN out'[c] : out'[c][k] # Nil
    BY <1>1, <1>8, <1>9
  <2>3. schema' = "mysql" /\ at' = at
    BY <1>1, <1>2
  <2> QED BY <2>1, <2>2, <2>3 DEF Collecting
<1>14. Answering(c)'
  <2>1. /\ Stands(c)' => Stands(c)
        /\ \A x \in Id : x[1] = c /\ row[x] = "open" => row'[x] \in {"open", "live"}
    BY <1>1, <1>2, <1>8 DEF Stands
  <2> QED BY <1>2, <1>7, <1>9, <1>11, <2>1, KeepsAnswers DEF CallInv
<1>15. Ending(c)'
  BY <1>1, <1>2, <1>8, <1>9 DEF CallInv, Ending
<1> QED BY <1>10, <1>11, <1>12, <1>13, <1>14, <1>15 DEF CallInv

\* A deadlock is resolved.
LEMMA DeadlockVictimStep ==
    ASSUME TypeOK, NEW c \in Call, CallInv(c), DeadlockVictim(c), UNCHANGED setting
    PROVE  TypeOK' /\ Local(c) /\ CallInv(c)'
<1>1. /\ Len(Keys[c]) \in Nat /\ Len(Keys[c]) >= 1 /\ Items(c) = 1..Len(Keys[c])
      /\ pc[c] = "insert" /\ res[c] = "none" /\ at[c] \in Nat /\ at[c] <= Len(Keys[c])
      /\ out[c] \in Seq(Id \cup {Nil}) /\ Len(out[c]) \in Nat
      /\ DOMAIN out[c] = 1..Len(out[c]) /\ (schema = "mysql" => Len(out[c]) = at[c] - 1)
      /\ \A id \in Id : id[1] = c /\ schema = "mysql" /\ row[id] = "open" => c \in inTx
  BY Lengths, IdFacts DEF TypeOK, CallInv, Inserting, Collecting, DeadlockVictim,
     WaitsFor, TxOpen
<1>2. /\ row' = [id \in Id |-> IF id[1] = c /\ row[id] = "open" THEN "absent" ELSE row[id]]
      /\ view' = [d \in DOMAIN view \ {c} |-> view[d]]
      /\ aborted' = aborted \cup ({c} \cap inTx)
      /\ dup' = dup /\ queued' = queued /\ signals' = signals /\ errors' = errors
      /\ committed' = committed /\ prior' = prior /\ schema' = schema /\ inTx' = inTx
  BY DEF DeadlockVictim, Undo, notifying, setting
<1>3. /\ at' \in [Call -> Nat \ {0}] /\ \A d \in Call \ {c} : at'[d] = at[d]
      /\ at'[c] = IF schema = "mysql" THEN at[c] + 1 ELSE at[c]
  BY DEF DeadlockVictim, TypeOK
<1>4. /\ out' \in [Call -> Seq(Id \cup {Nil})] /\ \A d \in Call \ {c} : out'[d] = out[d]
      /\ out'[c] = IF schema = "mysql" THEN Append(out[c], Nil) ELSE <<>>
      /\ res' \in [Call -> {"none", "ok", "dup", "error"}]
      /\ pc' \in [Call -> {"start", "insert", "collect", "notify", "clientNotify",
                           "returned", "ended"}]
      /\ \A d \in Call \ {c} : pc'[d] = pc[d] /\ res'[d] = res[d]
      /\ \/ /\ schema = "mysql" /\ pc'[c] = "insert" /\ res'[c] = "none"
            /\ Len(out[c]) + 1 # Len(Keys[c])
         \/ /\ pc'[c] = "returned" /\ c \in inTx
            /\ res'[c] = "error" /\ (schema = "mysql" => Len(out[c]) + 1 = Len(Keys[c]))
         \/ /\ pc'[c] = "ended" /\ c \notin inTx
            /\ res'[c] = "error" /\ (schema = "mysql" => Len(out[c]) + 1 = Len(Keys[c]))
  <2>1. CASE schema = "mysql"
    BY <1>1, <2>1, Looping DEF DeadlockVictim, TypeOK
  <2>2. CASE schema # "mysql"
    <3>1. Return(c, "error", <<>>)
      BY <2>2 DEF DeadlockVictim
    <3>2. /\ res' = [res EXCEPT ![c] = "error"] /\ out' = [out EXCEPT ![c] = <<>>]
          /\ \A d \in Call \ {c} : pc'[d] = pc[d]
          /\ \/ pc'[c] = "returned" /\ c \in inTx
             \/ pc'[c] = "ended" /\ c \notin inTx
          /\ pc' \in [Call -> {"start", "insert", "collect", "notify", "clientNotify",
                               "returned", "ended"}]
      BY <3>1, Returning
    <3>3. <<>> \in Seq(Id \cup {Nil})
      OBVIOUS
    <3> QED BY <2>2, <3>2, <3>3 DEF TypeOK
  <2> QED BY <2>1, <2>2
<1>5. /\ schema = "mysql" => Len(out'[c]) = Len(out[c]) + 1
      /\ schema # "mysql" => Len(out'[c]) = 0 /\ DOMAIN out'[c] = {}
  BY <1>1, <1>4
<1>6. TypeOK'
  BY <1>2, <1>3, <1>4 DEF TypeOK
<1>7. Local(c)
  BY <1>2, <1>3, <1>4 DEF TypeOK, Local, Exists
<1>8. Inserting(c)'
  <2>1. \A k \in Items(c) : /\ row'[<<c, k>>] # "open"
                            /\ row'[<<c, k>>] # "absent" => row[<<c, k>>] # "absent"
    BY <1>2, IdFacts
  <2>2. \A k \in Items(c) : k \in Nat /\ (row[<<c, k>>] # "absent" => k < at[c])
    BY <1>1 DEF CallInv, Inserting
  <2>3. /\ at[c] <= at'[c] /\ at'[c] \in Nat /\ at'[c] <= Len(Keys[c]) + 1
        /\ pc'[c] = "insert" => at'[c] <= Len(Keys[c])
        /\ pc'[c] \in {"insert", "returned", "ended"}
        /\ pc'[c] = "returned" => c \in inTx
    BY <1>1, <1>3, <1>4
  <2>4. c \notin DOMAIN view' /\ inTx' = inTx
    BY <1>2
  <2>5. \A k \in Items(c) : row'[<<c, k>>] # "absent" => k < at'[c]
    BY <1>1, <2>1, <2>2, <2>3
  <2> QED BY <2>1, <2>3, <2>4, <2>5 DEF Inserting
<1>9. Collecting(c)'
  <2>0. schema' = schema
    BY <1>2
  <2>1. CASE schema = "mysql"
    <3>1. /\ at'[c] = at[c] + 1 /\ Len(out'[c]) = at[c]
          /\ \/ pc'[c] = "insert" /\ res'[c] = "none"
             \/ pc'[c] \in {"returned", "ended"} /\ res'[c] = "error"
      BY <1>1, <1>3, <1>4, <1>5, <2>1
    <3> QED BY <1>1, <2>0, <2>1, <3>1 DEF Collecting
  <2>2. CASE schema # "mysql"
    <3>1. pc'[c] \in {"returned", "ended"} /\ res'[c] = "error"
      BY <1>4, <2>2
    <3> QED BY <1>1, <1>5, <2>0, <2>2, <3>1 DEF Collecting
  <2> QED BY <2>1, <2>2
<1>10. Answering(c)'
  <2>1. CASE schema = "mysql"
    <3>1. /\ Stands(c)' => Stands(c)
          /\ Stands(c)' => \A x \in Id : x[1] = c /\ row[x] = "open" => row'[x] \in {"open", "live"}
      BY <1>1, <1>2, <1>4, <2>1 DEF Stands
    <3> QED BY <1>4, <1>7, <2>1, <3>1, KeepsAnswers DEF CallInv
  <2>2. CASE schema # "mysql"
    BY <1>5, <2>2 DEF Answering
  <2> QED BY <2>1, <2>2
<1>11. Ending(c)'
  BY <1>1, <1>2, <1>4, IdFacts DEF TypeOK, CallInv, Ending, Exists
<1> QED BY <1>6, <1>7, <1>8, <1>9, <1>10, <1>11 DEF CallInv

\* The adapter's notification.
LEMMA AdapterNotifyStep ==
    ASSUME TypeOK, NEW c \in Call, CallInv(c), AdapterNotify(c), UNCHANGED setting
    PROVE  TypeOK' /\ Local(c) /\ CallInv(c)'
<1>1. /\ Len(Keys[c]) \in Nat /\ Len(Keys[c]) >= 1 /\ Items(c) = 1..Len(Keys[c])
      /\ pc[c] = "notify" /\ schema # "mysql" /\ res[c] = "none"
      /\ out[c] \in Seq(Id \cup {Nil}) /\ Len(out[c]) = Len(Keys[c])
      /\ c \notin queued /\ c \notin signals /\ c \notin committed
      /\ \A i \in DOMAIN out[c] : out[c][i] # Nil
      /\ \A id \in Id : id[1] = c /\ row[id] = "open" => c \in inTx
  BY Lengths, IdFacts DEF TypeOK, CallInv, Inserting, Collecting, Ending, AdapterNotify,
     TxOpen
<1>2. at' = at /\ dup' = dup /\ prior' = prior /\ committed' = committed
      /\ schema' = schema /\ inTx' = inTx
  BY DEF AdapterNotify, setting
<1>3. ASSUME NEW result \in {"ok", "dup", "error"}, NEW collected \in {out[c], <<>>},
             Return(c, result, collected), result # "error" => collected = out[c]
      PROVE  /\ res' \in [Call -> {"none", "ok", "dup", "error"}] /\ res'[c] = result
             /\ out' \in [Call -> Seq(Id \cup {Nil})] /\ out'[c] = collected
             /\ \A d \in Call \ {c} : pc'[d] = pc[d] /\ res'[d] = res[d] /\ out'[d] = out[d]
             /\ \/ pc'[c] = "clientNotify" /\ Len(out'[c]) > 0
                \/ pc'[c] = "returned" /\ c \in inTx
                \/ pc'[c] = "ended" /\ c \notin inTx
             /\ pc' \in [Call -> {"start", "insert", "collect", "notify", "clientNotify",
                                  "returned", "ended"}]
             /\ Inserting(c) /\ row' = row /\ view' = view /\ aborted' = aborted => Inserting(c)'
             /\ Collecting(c)'
  <2>1. /\ res' = [res EXCEPT ![c] = result] /\ out' = [out EXCEPT ![c] = collected]
        /\ \A d \in Call \ {c} : pc'[d] = pc[d]
        /\ \/ pc'[c] = "clientNotify" /\ collected # <<>>
           \/ pc'[c] = "returned" /\ c \in inTx
           \/ pc'[c] = "ended" /\ c \notin inTx
        /\ pc' \in [Call -> {"start", "insert", "collect", "notify", "clientNotify",
                             "returned", "ended"}]
    BY <1>3, Returning
  <2>2. /\ collected \in Seq(Id \cup {Nil}) /\ (collected # <<>> => Len(collected) > 0)
        /\ Len(collected) <= Len(Keys[c]) /\ \A i \in DOMAIN collected : collected[i] # Nil
    <3>1. CASE collected = out[c]
      BY <1>1, <3>1
    <3>2. CASE collected = <<>>
      BY <1>1, <3>2
    <3> QED BY <1>3, <3>1, <3>2
  <2>3. /\ res'[c] = result /\ out'[c] = collected
        /\ res' \in [Call -> {"none", "ok", "dup", "error"}]
        /\ out' \in [Call -> Seq(Id \cup {Nil})]
        /\ \A d \in Call \ {c} : res'[d] = res[d] /\ out'[d] = out[d]
    BY <1>3, <2>1, <2>2 DEF TypeOK
  <2>4. Inserting(c) /\ row' = row /\ view' = view /\ aborted' = aborted => Inserting(c)'
    BY <1>1, <1>2, <2>1 DEF Inserting, TxOpen
  <2>5. Collecting(c)'
    BY <1>1, <1>2, <1>3, <2>1, <2>2, <2>3 DEF Collecting
  <2> QED BY <2>1, <2>2, <2>3, <2>4, <2>5
<1>4. CASE /\ SendNotify(c) /\ Return(c, IF dup[c] THEN "dup" ELSE "ok", out[c])
           /\ UNCHANGED <<row, view, aborted, errors>>
  <2> DEFINE result == IF dup[c] THEN "dup" ELSE "ok"
  <2>0. result \in {"ok", "dup", "error"} /\ result # "error"
    OBVIOUS
  <2>1. Return(c, result, out[c])
    BY <1>4
  <2> HIDE DEF result
  <2>2. /\ res' \in [Call -> {"none", "ok", "dup", "error"}] /\ res'[c] = result
        /\ out' \in [Call -> Seq(Id \cup {Nil})] /\ out'[c] = out[c]
        /\ \A d \in Call \ {c} : pc'[d] = pc[d] /\ res'[d] = res[d] /\ out'[d] = out[d]
        /\ \/ pc'[c] = "clientNotify"
           \/ pc'[c] = "returned" /\ c \in inTx
           \/ pc'[c] = "ended" /\ c \notin inTx
        /\ pc' \in [Call -> {"start", "insert", "collect", "notify", "clientNotify",
                             "returned", "ended"}]
        /\ Inserting(c)' /\ Collecting(c)'
    BY <1>3, <1>4, <2>0, <2>1 DEF CallInv
  <2>3. TypeOK'
    BY <1>2, <1>4, <2>2 DEF TypeOK, SendNotify
  <2>4. Local(c)
    BY <1>2, <1>4, <2>2 DEF Local, SendNotify
  <2>5. Answering(c)'
    <3>1. /\ Stands(c)' => Stands(c)
          /\ \A x \in Id : x[1] = c /\ row[x] = "open" => row'[x] \in {"open", "live"}
      BY <1>1, <1>2, <1>4, <2>2 DEF Stands
    <3> QED BY <2>2, <2>4, <3>1, KeepsAnswers DEF CallInv
  <2>6. Ending(c)'
    <3>1. /\ row' = row /\ aborted' = aborted
          /\ c \in queued' => c \in inTx
          /\ c \in signals' => c \notin inTx
      BY <1>1, <1>4 DEF SendNotify
    <3>2. Ending(c)
      BY DEF CallInv
    <3>3. Len(out'[c]) > 0 /\ pc'[c] \in {"clientNotify", "returned", "ended"}
      BY SMTT(30), <1>1, <2>2
    <3> QED BY <1>1, <1>2, <3>1, <3>2, <3>3 DEF Ending
  <2> QED BY <2>2, <2>3, <2>4, <2>5, <2>6 DEF CallInv
<1>5. CASE NotifyFails(c) /\ Return(c, "error", IF c \in Batched THEN out[c] ELSE <<>>)
  <2> DEFINE collected == IF c \in Batched THEN out[c] ELSE <<>>
  <2>0. collected \in {out[c], <<>>}
    OBVIOUS
  <2>1. Return(c, "error", collected)
    BY <1>5
  <2> HIDE DEF collected
  <2>2. /\ res' \in [Call -> {"none", "ok", "dup", "error"}] /\ res'[c] = "error"
        /\ out' \in [Call -> Seq(Id \cup {Nil})] /\ out'[c] = collected
        /\ \A d \in Call \ {c} : pc'[d] = pc[d] /\ res'[d] = res[d] /\ out'[d] = out[d]
        /\ \/ pc'[c] = "clientNotify"
           \/ pc'[c] = "returned" /\ c \in inTx
           \/ pc'[c] = "ended" /\ c \notin inTx
        /\ pc' \in [Call -> {"start", "insert", "collect", "notify", "clientNotify",
                             "returned", "ended"}]
        /\ Collecting(c)'
    BY <1>3, <2>0, <2>1
  <2>3. TypeOK'
    BY <1>2, <1>5, <2>2, ProducerAssumption DEF TypeOK, NotifyFails, Undo
  <2>4. Local(c)
    BY <1>2, <1>5, <2>2 DEF TypeOK, Local, NotifyFails, Undo, Exists
  <2>5. Inserting(c)'
    BY <1>1, <1>2, <1>5, <2>2, IdFacts DEF TypeOK, CallInv, Inserting, NotifyFails, Undo,
       TxOpen
  <2>6. Answering(c)'
    <3>1. CASE collected = out[c]
      <4>1. /\ Stands(c)' => Stands(c)
            /\ Stands(c)' => \A x \in Id : x[1] = c /\ row[x] = "open"
                                           => row'[x] \in {"open", "live"}
        BY <1>1, <1>2, <1>5, <2>2 DEF Stands, NotifyFails
      <4> QED BY <2>2, <2>4, <3>1, <4>1, KeepsAnswers DEF CallInv
    <3>2. CASE collected = <<>>
      BY <2>2, <3>2 DEF Answering
    <3> QED BY <2>0, <3>1, <3>2
  <2>7. Ending(c)'
    BY <1>1, <1>2, <1>5, <2>2, IdFacts DEF TypeOK, CallInv, Ending, NotifyFails, Undo,
       Exists
  <2> QED BY <2>2, <2>3, <2>4, <2>5, <2>6, <2>7 DEF CallInv
<1> QED BY Zenon, <1>4, <1>5 DEF AdapterNotify

\* The client's notification.
LEMMA ClientNotifyStep ==
    ASSUME TypeOK, NEW c \in Call, CallInv(c), ClientNotify(c), UNCHANGED setting
    PROVE  TypeOK' /\ Local(c) /\ CallInv(c)'
<1>1. /\ pc[c] = "clientNotify" /\ schema # "mysql" /\ Len(out[c]) > 0 /\ c \notin committed
      /\ \A id \in Id : id[1] = c /\ row[id] = "open" => c \in inTx
      /\ res[c] # "none"
  BY IdFacts DEF TypeOK, CallInv, Inserting, Collecting, Ending, ClientNotify, TxOpen
<1>2. /\ at' = at /\ out' = out /\ dup' = dup /\ res' = res /\ prior' = prior
      /\ committed' = committed /\ schema' = schema /\ inTx' = inTx
      /\ pc' \in [Call -> {"start", "insert", "collect", "notify", "clientNotify",
                           "returned", "ended"}]
      /\ \A d \in Call \ {c} : pc'[d] = pc[d]
      /\ pc'[c] = IF c \in inTx THEN "returned" ELSE "ended"
  BY DEF ClientNotify, Leave, Goto, answer, setting, TypeOK
<1>3. Collecting(c)'
  BY <1>1, <1>2 DEF CallInv, Collecting
<1>4. CASE c \notin aborted /\ SendNotify(c) /\ UNCHANGED <<row, view, aborted, errors>>
  <2>1. TypeOK'
    BY <1>2, <1>4 DEF TypeOK, SendNotify
  <2>2. Local(c)
    BY <1>2, <1>4 DEF Local, SendNotify
  <2>3. Inserting(c)'
    BY <1>1, <1>2, <1>4, IdFacts DEF CallInv, Inserting, TxOpen
  <2>4. Answering(c)'
    <3>1. /\ Stands(c)' => Stands(c)
          /\ \A x \in Id : x[1] = c /\ row[x] = "open" => row'[x] \in {"open", "live"}
      BY <1>1, <1>2, <1>4 DEF Stands
    <3> QED BY <1>2, <2>2, <3>1, KeepsAnswers DEF CallInv
  <2>5. Ending(c)'
    BY Zenon, <1>1, <1>2, <1>4 DEF CallInv, Ending, SendNotify
  <2> QED BY <1>3, <2>1, <2>2, <2>3, <2>4, <2>5 DEF CallInv
<1>5. CASE NotifyFails(c)
  <2>1. TypeOK'
    BY <1>2, <1>5, ProducerAssumption DEF TypeOK, NotifyFails, Undo
  <2>2. Local(c)
    BY <1>2, <1>5 DEF TypeOK, Local, NotifyFails, Undo, Exists
  <2>3. Inserting(c)'
    BY <1>1, <1>2, <1>5, IdFacts DEF TypeOK, CallInv, Inserting, NotifyFails, Undo, TxOpen
  <2>4. Answering(c)'
    <3>1. /\ Stands(c)' => Stands(c)
          /\ Stands(c)' => \A x \in Id : x[1] = c /\ row[x] = "open" => row'[x] \in {"open", "live"}
      BY Zenon, <1>1, <1>2, <1>5 DEF Stands, NotifyFails
    <3> QED BY Zenon, <1>2, <2>2, <3>1, KeepsAnswers DEF CallInv
  <2>5. Ending(c)'
    BY <1>1, <1>2, <1>5, IdFacts DEF TypeOK, CallInv, Ending, NotifyFails, Undo, Exists
  <2> QED BY <1>3, <2>1, <2>2, <2>3, <2>4, <2>5 DEF CallInv
<1>6. CASE c \in aborted /\ UNCHANGED <<row, view, aborted, notifying>>
  <2>1. TypeOK'
    BY <1>2, <1>6 DEF TypeOK, notifying
  <2>2. Local(c)
    BY <1>2, <1>6 DEF Local, notifying
  <2>3. Inserting(c)'
    BY <1>1, <1>2, <1>6, IdFacts DEF CallInv, Inserting, TxOpen
  <2>4. Answering(c)'
    BY <1>6 DEF Answering, Stands
  <2>5. Ending(c)'
    BY <1>1, <1>2, <1>6 DEF CallInv, Ending, notifying
  <2> QED BY <1>3, <2>1, <2>2, <2>3, <2>4, <2>5 DEF CallInv
<1> QED BY <1>4, <1>5, <1>6 DEF ClientNotify

\* A row is purged.
LEMMA PurgeStep ==
    ASSUME TypeOK, \A c \in Call : CallInv(c), NEW id \in Id, Purge(id), UNCHANGED setting
    PROVE  TypeOK' /\ \A c \in Call : CallInv(c)'
<1>1. /\ pc' = pc /\ at' = at /\ out' = out /\ dup' = dup /\ res' = res /\ view' = view
      /\ aborted' = aborted /\ queued' = queued /\ signals' = signals /\ errors' = errors
      /\ prior' = prior /\ committed' = committed /\ schema' = schema /\ inTx' = inTx
      /\ row[id] = "live" /\ row' = [row EXCEPT ![id] = "gone"]
  BY DEF Purge, answer, notifying, setting
<1>2. TypeOK'
  BY <1>1 DEF TypeOK
<1>3. \A x \in Id : /\ row[x] \in Exists <=> row'[x] \in Exists
                    /\ row[x] = "open" <=> row'[x] = "open"
                    /\ row[x] = "absent" <=> row'[x] = "absent"
  BY <1>1 DEF TypeOK, Exists
<1>4. ASSUME NEW c \in Call PROVE CallInv(c)'
  <2>0. \A i \in Items(c) : <<c, i>> \in Id
    BY IdFacts
  <2>1. Inserting(c)'
    BY <1>1, <1>3, <2>0 DEF TypeOK, CallInv, Inserting, TxOpen
  <2>2. Collecting(c)'
    BY <1>1 DEF CallInv, Collecting
  <2>3. Answering(c)'
    <3>1. SUFFICES ASSUME Stands(c), NEW i \in DOMAIN out[c], out[c][i] # Nil
                   PROVE  /\ KeyOf(out[c][i]) = Keys[c][i]
                          /\ \/ row'[out[c][i]] \in Exists
                             \/ out[c][i][1] = c /\ row'[out[c][i]] = "open"
      BY Zenon, <1>1 DEF Answering, Stands, KeyOf, Exists
    <3>2. out[c][i] \in Id
      BY <3>1 DEF TypeOK
    <3>3. /\ KeyOf(out[c][i]) = Keys[c][i]
          /\ row[out[c][i]] \in Exists \/ (out[c][i][1] = c /\ row[out[c][i]] = "open")
      BY <3>1 DEF CallInv, Answering
    <3> QED BY <1>3, <3>2, <3>3
  <2>4. Ending(c)'
    BY Zenon, <1>1, <1>3, <2>0 DEF CallInv, Ending
  <2> QED BY <2>1, <2>2, <2>3, <2>4 DEF CallInv
<1> QED BY <1>2, <1>4

\* A step keeps the types and what is known of every call, and if it is no insert it adds
\* no row.
LEMMA CallStep ==
    ASSUME TypeOK, \A c \in Call : CallInv(c), [Next]_vars
    PROVE  TypeOK' /\ \A c \in Call : CallInv(c)'
<1>1. ASSUME NEW c \in Call, UNCHANGED setting,
             \/ Start(c) \/ Insert(c) \/ DeadlockVictim(c) \/ Collect(c) \/ LookUp(c)
             \/ AdapterNotify(c) \/ ClientNotify(c) \/ Commit(c) \/ Rollback(c)
      PROVE  TypeOK' /\ \A d \in Call : CallInv(d)'
  <2>1. TypeOK' /\ Local(c) /\ CallInv(c)'
    BY <1>1, StartStep, InsertStep, DeadlockVictimStep, CollectStep, LookUpStep,
       AdapterNotifyStep, ClientNotifyStep, CommitStep, RollbackStep
  <2>2. \A d \in Call \ {c} : CallInv(d)'
    BY <2>1, Others
  <2> QED BY <2>1, <2>2
<1>2. ASSUME NEW id \in Id, Purge(id), UNCHANGED setting
      PROVE  TypeOK' /\ \A d \in Call : CallInv(d)'
  BY <1>2, PurgeStep
<1>3. CASE UNCHANGED vars
  <2>1. TypeOK'
    BY <1>3 DEF vars, TypeOK
  <2>2. ASSUME NEW c \in Call PROVE CallInv(c)'
    <3>1. Inserting(c) /\ Collecting(c) /\ Answering(c) /\ Ending(c)
      BY DEF CallInv
    <3>2. Inserting(c)'
      BY <1>3, <3>1 DEF vars, Inserting, TxOpen
    <3>3. Collecting(c)'
      BY <1>3, <3>1 DEF vars, Collecting
    <3>4. Answering(c)'
      BY <1>3, <3>1 DEF vars, Answering, Stands
    <3>5. Ending(c)'
      BY <1>3, <3>1 DEF vars, Ending
    <3> QED BY <3>2, <3>3, <3>4, <3>5 DEF CallInv
  <2> QED BY <2>1, <2>2
<1> QED BY <1>1, <1>2, <1>3 DEF Next, Progress, GiveUp, Purges

\* What a step may do to the rows: only an insert adds one, and one whose key is free.
LEMMA RowStep ==
    ASSUME TypeOK, \A c \in Call : CallInv(c), [Next]_vars
    PROVE  \/ /\ \A id \in Id : row'[id] \in {"open", "live"} => row[id] \in {"open", "live"}
              /\ \A id \in Id : row'[id] # "absent" => row[id] # "absent"
           \/ \E c \in Call :
                /\ Insert(c)
                /\ \A id \in Id : id # <<c, at[c]>> =>
                     /\ row'[id] \in {"open", "live"} => row[id] \in {"open", "live"}
                     /\ row'[id] # "absent" => row[id] # "absent"
<1>1. ASSUME NEW c \in Call, Insert(c)
      PROVE  \A id \in Id : id # <<c, at[c]>> =>
                 /\ row'[id] \in {"open", "live"} => row[id] \in {"open", "live"}
                 /\ row'[id] # "absent" => row[id] # "absent"
  BY <1>1, IdFacts DEF Insert, TypeOK
<1>2. ASSUME NEW c \in Call, Undo(c)
      PROVE  /\ \A id \in Id : row'[id] \in {"open", "live"} => row[id] \in {"open", "live"}
             /\ \A id \in Id : row'[id] # "absent" => row[id] # "absent"
  BY <1>2 DEF Undo, TypeOK
<1>3. ASSUME NEW c \in Call, Commit(c)
      PROVE  /\ \A id \in Id : row'[id] \in {"open", "live"} => row[id] \in {"open", "live"}
             /\ \A id \in Id : row'[id] # "absent" => row[id] # "absent"
  BY <1>3 DEF Commit, TypeOK
<1>4. ASSUME NEW id \in Id, Purge(id)
      PROVE  /\ \A x \in Id : row'[x] \in {"open", "live"} => row[x] \in {"open", "live"}
             /\ \A x \in Id : row'[x] # "absent" => row[x] # "absent"
  BY <1>4 DEF Purge, TypeOK
<1>5. CASE row' = row
  BY <1>5
<1>6. ASSUME NEW c \in Call, \/ Start(c) \/ Collect(c) \/ LookUp(c) PROVE row' = row
  BY <1>6 DEF Start, Collect, LookUp
<1>7. ASSUME NEW c \in Call, DeadlockVictim(c) \/ Rollback(c) PROVE Undo(c)
  BY <1>7 DEF DeadlockVictim, Rollback
<1>8. ASSUME NEW c \in Call, AdapterNotify(c) \/ ClientNotify(c) PROVE Undo(c) \/ row' = row
  BY <1>8 DEF AdapterNotify, ClientNotify, NotifyFails
<1>9. CASE UNCHANGED vars
  BY <1>9 DEF vars
<1> QED BY Zenon, <1>1, <1>2, <1>3, <1>4, <1>5, <1>6, <1>7, <1>8, <1>9 DEF Next, Progress,
   GiveUp, Purges

\* A step of another call, or none, leaves what a call found at its start.
LEMMA OtherStep ==
    ASSUME TypeOK, \A c \in Call : CallInv(c), [Next]_vars, NEW c \in Call
    PROVE  \/ /\ pc'[c] = pc[c] /\ prior'[c] = prior[c]
           \/ Progress(c) \/ GiveUp(c)
<1>1. ASSUME NEW d \in Call, d # c, Progress(d) \/ GiveUp(d)
      PROVE  pc'[c] = pc[c] /\ prior'[c] = prior[c]
  <2>1. Local(d)
    BY <1>1, StartStep, InsertStep, DeadlockVictimStep, CollectStep, LookUpStep,
       AdapterNotifyStep, ClientNotifyStep, CommitStep, RollbackStep DEF Progress, GiveUp
  <2> QED BY <1>1, <2>1 DEF Local
<1>2. CASE Purges
  BY <1>2 DEF Purges, Purge
<1>3. CASE UNCHANGED vars
  BY <1>3 DEF vars
<1> QED BY <1>1, <1>2, <1>3 DEF Next

\* In the partitioned schema only Start leads to the insert, and only with nothing found.
LEMMA OwnStep ==
    ASSUME TypeOK, \A c \in Call : CallInv(c), NEW c \in Call, c \notin Batched,
           schema = "partitioned", Keys[c][1] # NoKey, Progress(c) \/ GiveUp(c)
    PROVE  \/ /\ prior'[c] = prior[c]
              /\ pc'[c] = "insert" => pc[c] = "insert"
           \/ /\ row' = row /\ row[<<c, 1>>] = "absent"
              /\ prior'[c] = {} \/ pc'[c] # "insert"
<1>1. CASE Start(c)
  <2>1. row' = row /\ row[<<c, 1>>] = "absent"
    BY <1>1, IdFacts, Lengths DEF Start, CallInv, Inserting, TypeOK
  <2>2. c \notin DOMAIN view
    BY Zenon DEF CallInv, Inserting
  <2>3. prior'[c] = {id \in Live : KeyOf(id) = Keys[c][1]}
    BY <1>1 DEF Start, TypeOK
  <2>4. prior'[c] \subseteq Visible(c, Keys[c][1])
    BY <2>2, <2>3 DEF Visible, Live
  <2>5. CASE Visible(c, Keys[c][1]) = {}
    BY <2>1, <2>4, <2>5
  <2>6. CASE Visible(c, Keys[c][1]) # {}
    <3>1. PICK id \in Visible(c, Keys[c][1]) : Return(c, "dup", <<id>>)
      BY <1>1, <2>6 DEF Start
    <3>2. pc'[c] # "insert"
      BY <3>1, Returning
    <3> QED BY <2>1, <3>2
  <2> QED BY <2>5, <2>6
<1>2. ASSUME Insert(c) \/ DeadlockVictim(c)
      PROVE  pc[c] = "insert" /\ prior' = prior
  BY Zenon, <1>2 DEF Insert, DeadlockVictim, WaitsFor
<1>3. ASSUME Collect(c) PROVE prior' = prior /\ pc'[c] # "insert"
  BY Zenon, <1>3 DEF Collect, Return, Leave, Goto, TypeOK
<1>4. ASSUME AdapterNotify(c) \/ ClientNotify(c) PROVE prior' = prior /\ pc'[c] # "insert"
  BY <1>4 DEF AdapterNotify, ClientNotify, Return, Leave, Goto, TypeOK
<1>5. ASSUME Commit(c) \/ Rollback(c) PROVE prior' = prior /\ pc'[c] # "insert"
  BY <1>5 DEF Commit, Rollback, Goto, TypeOK
<1>6. ~LookUp(c)
  BY DEF LookUp
<1> QED BY <1>1, <1>2, <1>3, <1>4, <1>5, <1>6 DEF Progress, GiveUp

\* The adapter, the schema and the transactions are given once.
LEMMA SettingStep ==
    ASSUME [Next]_vars PROVE schema' = schema /\ inTx' = inTx
BY DEF Next, vars, setting, Purges, Progress, GiveUp

\* Both halves of KeyUnique, and what the look-up leaves behind.
LEMMA KeyStep ==
    ASSUME ProducerInv, [Next]_vars PROVE KeyUnique' /\ LookedUp'
<1>0. TypeOK /\ (\A c \in Call : CallInv(c)) /\ KeyUnique /\ LookedUp
  BY DEF ProducerInv
<1>s. schema' = schema
  BY SettingStep
<1>1. ASSUME schema # "partitioned", NEW a \in Id, NEW b \in Id,
             KeyOf(a) = KeyOf(b), KeyOf(a) # NoKey,
             row'[a] \in {"open", "live"}, row'[b] \in {"open", "live"}, a # b
      PROVE  FALSE
  <2>1. CASE row[a] \in {"open", "live"} /\ row[b] \in {"open", "live"}
    BY <1>0, <1>1, <2>1 DEF KeyUnique
  <2>2. ASSUME NEW c \in Call, Insert(c), NEW x \in Id, NEW y \in Id, x # y,
               KeyOf(x) = KeyOf(y), KeyOf(x) # NoKey, x = <<c, at[c]>>,
               row'[x] \in {"open", "live"}, row[y] \in {"open", "live"}
        PROVE  FALSE
    <3>1. at[c] \in Items(c) /\ row[x] = "absent"
      <4>1. x[1] = c /\ x[2] = at[c]
        BY <2>2
      <4>2. at[c] \in Items(c)
        BY <2>2, <4>1, IdFacts
      <4>3. at[c] \in Nat
        BY <1>0 DEF TypeOK
      <4>4. row[<<c, at[c]>>] # "absent" => at[c] < at[c]
        BY <1>0, <4>2 DEF CallInv, Inserting
      <4> QED BY <2>2, <4>2, <4>3, <4>4
    <3>2. ~Taken(c, at[c])
      BY <2>2, <3>1 DEF Insert
    <3>3. Rivals(c, at[c]) = {}
      BY <3>2 DEF Taken
    <3>4. KeyOf(x) = Keys[c][at[c]]
      BY <2>2, <3>1, IdFacts
    <3>5. y[1] = c
      BY <1>1, <2>2, <3>3, <3>4 DEF Rivals
    <3>6. y[2] \in Items(c) /\ y = <<c, y[2]>> /\ y[2] < at[c]
      BY <1>0, <2>2, <3>5, IdFacts DEF CallInv, Inserting
    <3>7. y[2] \in 1..(at[c] - 1) /\ Keys[c][y[2]] = KeyOf(y)
      BY <1>0, <2>2, <3>6, IdFacts, Lengths DEF TypeOK
    <3> QED BY <2>2, <3>2, <3>4, <3>6, <3>7 DEF Taken
  <2>3. PICK c \in Call : Insert(c) /\ \A id \in Id : id # <<c, at[c]>> =>
                             (row'[id] \in {"open", "live"} => row[id] \in {"open", "live"})
    BY <1>0, <1>1, <2>1, RowStep
  <2> QED BY <1>1, <2>1, <2>2, <2>3
<1>2. ASSUME schema = "partitioned", NEW c \in Call, c \notin Batched, Keys[c][1] # NoKey
      PROVE  /\ row'[<<c, 1>>] # "absent" => \A id \in prior'[c] : KeyOf(id) # Keys[c][1]
             /\ prior'[c] # {} => pc'[c] # "insert" /\ row'[<<c, 1>>] = "absent"
  <2>1. <<c, 1>> \in Id
    BY Lengths, IdFacts
  <2>2. prior[c] # {} => pc[c] # "insert" /\ row[<<c, 1>>] = "absent"
    BY <1>0, <1>2 DEF LookedUp
  <2>3. row[<<c, 1>>] # "absent" => prior[c] = {}
    BY <2>2
  <2>4. row'[<<c, 1>>] # "absent" => row[<<c, 1>>] # "absent" \/ pc[c] = "insert"
    <3>1. ASSUME NEW d \in Call, Insert(d), <<c, 1>> = <<d, at[d]>> PROVE pc[c] = "insert"
      BY <3>1 DEF Insert
    <3> QED BY <1>0, <2>1, <3>1, RowStep
  <2>5. CASE prior'[c] = prior[c] /\ (pc'[c] = "insert" => pc[c] = "insert")
    BY <2>2, <2>4, <2>5
  <2>6. CASE row' = row /\ row[<<c, 1>>] = "absent" /\ (prior'[c] = {} \/ pc'[c] # "insert")
    BY <2>6
  <2> QED BY <1>0, <1>2, <2>5, <2>6, OtherStep, OwnStep
<1>3. KeyUnique'
  BY <1>s, <1>1, <1>2 DEF KeyUnique, KeyOf
<1>4. LookedUp'
  BY <1>s, <1>2 DEF LookedUp
<1> QED BY <1>3, <1>4

-----------------------------------------------------------------------------
\* The inductive invariant of the producer: the types, what is known of each call by its
\* place, and the two facts about keys.
THEOREM ProducerInvariant == Spec => []ProducerInv
<1>1. Init => ProducerInv
  <2> SUFFICES ASSUME Init PROVE ProducerInv
    OBVIOUS
  <2>1. TypeOK
    BY ProducerAssumption DEF Init, TypeOK
  <2>2. ASSUME NEW c \in Call PROVE CallInv(c)
    <3>1. Len(Keys[c]) \in Nat /\ Len(Keys[c]) >= 1 /\ \A i \in Items(c) : <<c, i>> \in Id
      BY Lengths, IdFacts
    <3>2. out[c] = <<>> /\ Len(out[c]) = 0 /\ DOMAIN out[c] = {}
      BY DEF Init
    <3>3. Inserting(c)
      BY <3>1 DEF Init, Inserting
    <3>4. Collecting(c)
      BY <3>1, <3>2 DEF Init, Collecting
    <3>5. Answering(c)
      BY <3>2 DEF Answering
    <3>6. Ending(c)
      BY <3>1 DEF Init, Ending, Exists
    <3> QED BY <3>3, <3>4, <3>5, <3>6 DEF CallInv
  <2>3. KeyUnique
    BY Lengths, IdFacts DEF Init, KeyUnique
  <2>4. LookedUp
    BY DEF Init, LookedUp
  <2> QED BY <2>1, <2>2, <2>3, <2>4 DEF ProducerInv
<1>2. ProducerInv /\ [Next]_vars => ProducerInv'
  BY CallStep, KeyStep DEF ProducerInv
<1> QED BY <1>1, <1>2, PTL DEF Spec

\* One message per idempotency key, for any calls, batches and transactions: the unique
\* indexes of the plain Postgres and the MySQL schema let no race of inserts through, and
\* the look-up of the partitioned schema suffices for enqueues that do not overlap.
THEOREM KeysUnique == Spec => []KeyUnique
<1>1. ProducerInv => KeyUnique
  BY DEF ProducerInv
<1> QED BY <1>1, ProducerInvariant, PTL

\* ErrDuplicate always names a message with the caller's key that was not rolled back.
THEOREM DuplicatesNameTwins == Spec => []DuplicateNamesTwin
<1>1. ProducerInv => DuplicateNamesTwin
  <2> SUFFICES ASSUME ProducerInv, NEW c \in Call \ aborted, res[c] = "dup",
                      c \in inTx /\ pc[c] = "ended" => c \in committed, NEW i \in Items(c)
               PROVE  /\ KeyOf(out[c][i]) = Keys[c][i]
                      /\ \/ row[out[c][i]] \in Exists
                         \/ out[c][i][1] = c /\ row[out[c][i]] = "open"
    BY DEF DuplicateNamesTwin
  <2>1. TypeOK /\ CallInv(c) /\ Stands(c)
    BY DEF ProducerInv, Stands
  <2>2. i \in DOMAIN out[c] /\ out[c][i] # Nil
    BY <2>1, Lengths DEF CallInv, Collecting, TypeOK
  <2> QED BY Zenon, <2>1, <2>2 DEF CallInv, Answering
<1> QED BY <1>1, ProducerInvariant, PTL

\* The outbox guarantee: messages of a transaction exist if and only if it committed, and
\* no worker is woken for a message that is not committed.
THEOREM OutboxGuaranteed == Spec => []OutboxGuarantee
<1>1. ProducerInv => OutboxGuarantee
  <2> SUFFICES ASSUME ProducerInv PROVE OutboxGuarantee
    OBVIOUS
  <2>1. TypeOK /\ \A c \in Call : CallInv(c)
    BY DEF ProducerInv
  <2>2. ASSUME NEW id \in Id, id[1] \in inTx \ aborted, row[id] \in Exists
        PROVE  id[1] \in committed
    <3>1. id[1] \in Call /\ id[2] \in Items(id[1]) /\ id = <<id[1], id[2]>>
      BY IdFacts
    <3> QED BY <2>1, <2>2, <3>1 DEF CallInv, Ending
  <2>3. ASSUME NEW c \in Call, c \in committed, NEW i \in DOMAIN out[c]
        PROVE  /\ DOMAIN out[c] = Items(c)
               /\ KeyOf(out[c][i]) = Keys[c][i] /\ row[out[c][i]] \in Exists
    <3>1. /\ c \in inTx \ aborted /\ pc[c] = "ended" /\ res[c] \in {"ok", "dup"} /\ Stands(c)
      BY <2>1, <2>3 DEF CallInv, Ending, Stands
    <3>2. DOMAIN out[c] = Items(c) /\ out[c][i] # Nil
      BY <2>1, <2>3, <3>1, Lengths DEF CallInv, Collecting, TypeOK
    <3>3. out[c][i] \in Id
      BY <2>1, <2>3, <3>2 DEF TypeOK
    <3>4. /\ KeyOf(out[c][i]) = Keys[c][i]
          /\ row[out[c][i]] \in Exists \/ (out[c][i][1] = c /\ row[out[c][i]] = "open")
      BY <2>1, <2>3, <3>1, <3>2 DEF CallInv, Answering
    <3>5. row[out[c][i]] # "open" \/ out[c][i][1] # c
      BY <2>1, <3>1, <3>3, IdFacts DEF CallInv, Inserting
    <3> QED BY <3>2, <3>4, <3>5
  <2>4. ASSUME NEW c \in Call, c \in committed
        PROVE  \A i \in Items(c) : KeyOf(out[c][i]) = Keys[c][i] /\ row[out[c][i]] \in Exists
    <3>1. DOMAIN out[c] = Items(c)
      BY <2>1, <2>4, Lengths DEF CallInv, Collecting, Ending, TypeOK
    <3> QED BY <2>3, <2>4, <3>1
  <2>5. ASSUME NEW c \in signals PROVE \E i \in DOMAIN out[c] : row[out[c][i]] \in Exists
    <3>1. c \in Call /\ Len(out[c]) > 0 /\ schema # "mysql" /\ 1 \in DOMAIN out[c]
      BY <2>1 DEF CallInv, Ending, TypeOK
    <3>2. CASE c \in inTx
      BY <2>1, <2>3, <3>1, <3>2 DEF CallInv, Ending
    <3>3. CASE c \notin inTx
      <4>1. out[c][1] # Nil /\ Stands(c)
        BY <2>1, <3>1, <3>3 DEF CallInv, Collecting, Stands, TypeOK
      <4>2. out[c][1] \in Id
        BY <2>1, <3>1, <4>1 DEF TypeOK
      <4>3. pc[c] # "insert"
        BY <2>1, <2>5, <3>1 DEF CallInv, Ending
      <4>4. row[out[c][1]] # "open" \/ out[c][1][1] # c
        BY <2>1, <3>1, <3>3, <4>2, <4>3, IdFacts DEF CallInv, Inserting, TxOpen
      <4>5. row[out[c][1]] \in Exists
        BY <2>1, <3>1, <4>1, <4>4 DEF CallInv, Answering
      <4> QED BY <3>1, <4>5
    <3> QED BY <3>2, <3>3
  <2> QED BY <2>1, <2>2, <2>4, <2>5 DEF OutboxGuarantee, TypeOK
<1> QED BY <1>1, ProducerInvariant, PTL

=============================================================================
