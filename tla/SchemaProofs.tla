---------------------------- MODULE SchemaProofs ----------------------------
(***************************************************************************)
(* Proofs about the two modules of the schema: Migrations, for any number  *)
(* of processes, files, statements per file and interruptions, and         *)
(* Partitions, for any messages, maintainers, months ahead and length of   *)
(* time.  The two share no state.                                          *)
(***************************************************************************)
EXTENDS Migrations, Partitions, WellFoundedInduction, TLAPS

-----------------------------------------------------------------------------
(* Migrations *)

CallTypes ==
    /\ dialect \in {"postgres", "mysql", "cockroach"}
    /\ created \subseteq Object /\ recorded \subseteq Version
    /\ pc \in [Proc -> {"idle", "read", "apply", "locks"}]
    /\ todo \in [Proc -> SUBSET Version] /\ done \in [Proc -> Nat]
    /\ result \in [Proc -> {"none", "ok", "error"}]

\* A recorded version is complete, whatever the dialect; a transactional one also nowhere
\* in between.
Recorded ==
    \A v \in Version : IF v \in recorded THEN File(v) \subseteq created
                                         ELSE Atomic => File(v) \cap created = {}

\* What a call knows: outside the files it has nothing to do; what it no longer has to do is
\* recorded; MySQL's executed statements of the current file are in the schema.
Calling(p) ==
    /\ pc[p] # "apply" => todo[p] = {}
    /\ pc[p] \in {"apply", "locks"} => Version \ todo[p] \subseteq recorded
    /\ ~Atomic /\ todo[p] # {} => \A i \in 1..done[p] : <<Current(p), i>> \in created
    /\ todo[p] = {} => done[p] = 0

MigrationsInv == CallTypes /\ Recorded /\ \A p \in Proc : Calling(p)

-----------------------------------------------------------------------------
\* The current file is one of those left to do: a set of numbers has a smallest member.
LEMMA CurrentIsLeft ==
    ASSUME CallTypes, NEW p \in Proc, todo[p] # {}
    PROVE  Current(p) \in todo[p] /\ Current(p) \in Version
<1>1. todo[p] \subseteq Nat /\ todo[p] \subseteq Version
  BY MigrationsAssumption DEF CallTypes, Version
<1>2. PICK v \in todo[p] : \A u \in todo[p] : ~(<<u, v>> \in OpToRel(<, Nat))
  BY Zenon, <1>1, NatLessThanWellFounded, WFMin
<1>3. \A u \in todo[p] : ~(u < v)
  BY Zenon, <1>1, <1>2 DEF OpToRel
<1>4. \A u \in todo[p] : v <= u
  BY <1>1, <1>3
<1> QED BY <1>1, <1>4 DEF Current

\* Files have no object in common, and their statements make up the schema.
LEMMA Files ==
    /\ \A v \in Version : File(v) \subseteq Object
    /\ \A u, v \in Version : u # v => File(u) \cap File(v) = {}
    /\ \A v \in Version : \A i \in 1..Stmts[v] : <<v, i>> \in File(v)
    /\ \A v \in Version : Stmts[v] \in Nat \ {0}
BY MigrationsAssumption DEF Object, File, Version

\* The end of a call.
LEMMA Returns ==
    ASSUME CallTypes, NEW p \in Proc, NEW res \in {"ok", "error"}, Return(p, res),
           UNCHANGED <<dialect, created, recorded>>, Recorded, \A q \in Proc : Calling(q)
    PROVE  MigrationsInv' /\ pc'[p] = "idle" /\ result'[p] = res
<1>1. CallTypes' /\ pc'[p] = "idle" /\ result'[p] = res
  BY DEF CallTypes, Return
<1>2. Recorded'
  BY DEF Recorded, Atomic
<1>3. Calling(p)'
  BY DEF Return, Calling, CallTypes
<1>4. ASSUME NEW q \in Proc, q # p PROVE Calling(q)'
  <2>1. pc'[q] = pc[q] /\ todo'[q] = todo[q] /\ done'[q] = done[q]
    BY <1>4 DEF Return, CallTypes
  <2> QED BY <2>1 DEF Calling, Atomic, Current
<1> QED BY <1>1, <1>2, <1>3, <1>4 DEF MigrationsInv

\* The other calls when call p moves on and the schema only grows.
LEMMA OtherCalls ==
    ASSUME NEW p \in Proc, NEW q \in Proc, Calling(q), dialect' = dialect,
           pc'[q] = pc[q], todo'[q] = todo[q], done'[q] = done[q],
           created \subseteq created', recorded \subseteq recorded'
    PROVE  Calling(q)'
BY DEF Calling, Atomic, Current

\* A statement of a file.
LEMMA ExecStep ==
    ASSUME MigrationsInv, NEW p \in Proc, Exec(p), UNCHANGED dialect
    PROVE  MigrationsInv' /\ (pc'[p] = "idle" => result'[p] = "error")
<1> DEFINE object == <<Current(p), done[p] + 1>>
<1>0. CallTypes /\ Recorded /\ (\A q \in Proc : Calling(q))
  BY DEF MigrationsInv
<1>1. CASE object \in created
  <2>1. Return(p, "error") /\ UNCHANGED <<dialect, created, recorded>>
    BY <1>1 DEF Exec, Conflict
  <2> QED BY <1>0, <2>1, Returns
<1>2. CASE object \notin created
  <2>1. /\ done' = [done EXCEPT ![p] = @ + 1]
        /\ created' = IF Atomic THEN created ELSE created \cup {object}
        /\ pc' = pc /\ todo' = todo /\ result' = result /\ recorded' = recorded
        /\ pc[p] = "apply" /\ todo[p] # {} /\ done[p] < Stmts[Current(p)]
    BY <1>2 DEF Exec
  <2>2. Current(p) \in todo[p] /\ Current(p) \in Version
    BY <1>0, <2>1, CurrentIsLeft
  <2>3. Current(p)' = Current(p)
    BY <2>1 DEF Current
  <2>4. done[p] \in Nat /\ Stmts[Current(p)] \in Nat /\ done[p] + 1 \in 1..Stmts[Current(p)]
    BY <1>0, <2>1, <2>2, Files DEF CallTypes
  <2>5. object \in File(Current(p)) /\ object \in Object
    BY <2>2, <2>4, Files
  <2>6. CallTypes'
    BY <1>0, <2>1, <2>5 DEF CallTypes
  <2>7. Recorded'
    BY <1>0, <2>1 DEF Recorded, Atomic
  <2>8. created \subseteq created' /\ recorded \subseteq recorded'
    BY <2>1
  <2>9. Calling(p)'
    <3>1. pc'[p] = "apply" /\ todo'[p] = todo[p] /\ done'[p] = done[p] + 1
      BY <1>0, <2>1 DEF CallTypes
    <3>2. ASSUME ~Atomic, NEW i \in 1..done'[p] PROVE <<Current(p), i>> \in created'
      <4>1. i \in 1..done[p] \/ i = done[p] + 1
        BY <2>4, <3>1, <3>2
      <4>2. \A j \in 1..done[p] : <<Current(p), j>> \in created
        BY <1>0, <2>1, <3>2 DEF Calling
      <4> QED BY <2>1, <3>2, <4>1, <4>2
    <3>3. Version \ todo[p] \subseteq recorded
      BY <1>0, <2>1 DEF Calling
    <3> QED BY <2>1, <2>3, <3>1, <3>2, <3>3 DEF Calling, Atomic
  <2>10. ASSUME NEW q \in Proc, q # p PROVE Calling(q)'
    <3>1. pc'[q] = pc[q] /\ todo'[q] = todo[q] /\ done'[q] = done[q]
      BY <1>0, <2>1, <2>10 DEF CallTypes
    <3> QED BY <1>0, <2>8, <3>1, OtherCalls
  <2> QED BY <2>1, <2>6, <2>7, <2>9, <2>10 DEF MigrationsInv
<1> QED BY <1>1, <1>2

\* The commit of a file.
LEMMA RecordStep ==
    ASSUME MigrationsInv, NEW p \in Proc, Record(p), UNCHANGED dialect
    PROVE  MigrationsInv' /\ pc' = pc
<1> DEFINE v == Current(p)
<1>0. CallTypes /\ Recorded /\ (\A q \in Proc : Calling(q))
  BY DEF MigrationsInv
<1>1. /\ pc[p] = "apply" /\ todo[p] # {} /\ done[p] = Stmts[v]
      /\ created' = created \cup Open(p) /\ recorded' = recorded \cup {v}
      /\ todo' = [todo EXCEPT ![p] = @ \ {v}] /\ done' = [done EXCEPT ![p] = 0]
      /\ pc' = pc /\ result' = result
  BY DEF Record
<1>2. v \in todo[p] /\ v \in Version
  BY <1>0, <1>1, CurrentIsLeft
<1> HIDE DEF v
<1>3. Open(p) \subseteq File(v) /\ File(v) \subseteq created'
  <2>1. CASE Atomic
    <3>1. Open(p) = File(v)
      BY <1>1, <2>1 DEF Open, File, v
    <3> QED BY <1>1, <3>1
  <2>2. CASE ~Atomic
    <3>1. Open(p) = {}
      BY <2>2 DEF Open
    <3>2. \A i \in 1..Stmts[v] : <<v, i>> \in created
      BY <1>0, <1>1, <2>2 DEF Calling, v
    <3> QED BY <1>1, <3>1, <3>2 DEF File
  <2> QED BY <2>1, <2>2
<1>4. CallTypes'
  <2>1. Open(p) \subseteq Object
    BY <1>2, <1>3, Files
  <2> QED BY <1>0, <1>1, <1>2, <2>1 DEF CallTypes
<1>5. Recorded'
  <2>1. ASSUME NEW u \in Version, u = v
        PROVE  u \in recorded' /\ File(u) \subseteq created'
    BY <1>1, <1>3, <2>1
  <2>2. ASSUME NEW u \in Version, u # v, u \in recorded' PROVE File(u) \subseteq created'
    BY <1>0, <1>1, <2>2 DEF Recorded
  <2>3. ASSUME NEW u \in Version, u # v, u \notin recorded', Atomic
        PROVE  File(u) \cap created' = {}
    <3>1. File(u) \cap created = {}
      BY <1>0, <1>1, <2>3 DEF Recorded
    <3>2. File(u) \cap File(v) = {}
      BY <1>2, <2>3, Files
    <3> QED BY <1>1, <1>3, <3>1, <3>2
  <2> QED BY <2>1, <2>2, <2>3 DEF Recorded, Atomic, File
<1>6. Calling(p)'
  <2>1. pc'[p] = "apply" /\ todo'[p] = todo[p] \ {v} /\ done'[p] = 0
    BY <1>0, <1>1 DEF CallTypes
  <2>2. Version \ todo[p] \subseteq recorded
    BY <1>0, <1>1 DEF Calling
  <2> QED BY <1>1, <2>1, <2>2 DEF Calling
<1>7. ASSUME NEW q \in Proc, q # p PROVE Calling(q)'
  <2>1. pc'[q] = pc[q] /\ todo'[q] = todo[q] /\ done'[q] = done[q]
    BY <1>0, <1>1, <1>7 DEF CallTypes
  <2>2. created \subseteq created' /\ recorded \subseteq recorded'
    BY <1>1
  <2> QED BY <1>0, <2>1, <2>2, OtherCalls
<1> QED BY <1>1, <1>4, <1>5, <1>6, <1>7 DEF MigrationsInv

\* The steps that change neither the schema nor the versions, and do not return.
LEMMA QuietStep ==
    ASSUME MigrationsInv, NEW p \in Proc, UNCHANGED dialect,
           Call(p) \/ ReadVersions(p) \/ (Applied(p) /\ LockTable)
    PROVE  MigrationsInv' /\ pc'[p] # "idle"
<1>0. CallTypes /\ Recorded /\ (\A q \in Proc : Calling(q))
  BY DEF MigrationsInv
<1>1. /\ created' = created /\ recorded' = recorded /\ done' = done /\ result' = result
      /\ CallTypes' /\ pc'[p] # "idle"
  BY <1>0 DEF Call, ReadVersions, Applied, CallTypes
<1>2. Recorded'
  BY <1>0, <1>1 DEF Recorded, Atomic
<1>3. Calling(p)'
  <2>1. done[p] \in Nat /\ (todo[p] = {} => done[p] = 0) /\ 1..0 = {}
    BY <1>0 DEF CallTypes, Calling
  <2>2. CASE Call(p)
    BY <1>0, <1>1, <2>1, <2>2 DEF Calling, Call, CallTypes
  <2>3. CASE ReadVersions(p)
    <3>1. done'[p] = 0 /\ pc'[p] = "apply" /\ todo'[p] = Version \ recorded
      BY <1>0, <1>1, <2>1, <2>3 DEF ReadVersions, CallTypes, Calling
    <3> QED BY <1>1, <2>1, <3>1 DEF Calling, CallTypes
  <2>4. CASE Applied(p) /\ LockTable
    BY <1>0, <1>1, <2>1, <2>4 DEF Calling, Applied, CallTypes, LockTable, Atomic
  <2> QED BY <2>2, <2>3, <2>4
<1>4. ASSUME NEW q \in Proc, q # p PROVE Calling(q)'
  <2>1. pc'[q] = pc[q] /\ todo'[q] = todo[q]
    BY <1>0, <1>4 DEF Call, ReadVersions, Applied, CallTypes
  <2> QED BY <1>0, <1>1, <2>1, OtherCalls
<1> QED BY <1>1, <1>2, <1>3, <1>4 DEF MigrationsInv

\* A call that has applied all files leaves the whole schema behind.
LEMMA AllApplied ==
    ASSUME MigrationsInv, NEW p \in Proc, pc[p] \in {"apply", "locks"}, todo[p] = {}
    PROVE  recorded = Version /\ created = Object
<1>1. recorded = Version
  BY DEF MigrationsInv, Calling, CallTypes
<1>2. \A v \in Version : File(v) \subseteq created
  BY <1>1 DEF MigrationsInv, Recorded
<1> QED BY <1>1, <1>2 DEF MigrationsInv, CallTypes, Object

\* Every step keeps the invariant, and a step that ends a call with nil ends it with
\* everything applied.
LEMMA MigrationsStep ==
    ASSUME MigrationsInv, [Next]_vars
    PROVE  /\ MigrationsInv'
           /\ \A p \in Proc : pc[p] # "idle" /\ pc'[p] = "idle" /\ result'[p] = "ok"
                => recorded' = Version /\ created' = Object /\ (LockTable => locks')
<1>0. CallTypes /\ Recorded /\ (\A q \in Proc : Calling(q))
  BY DEF MigrationsInv
<1>1. ASSUME UNCHANGED vars
      PROVE  MigrationsInv' /\ pc' = pc
  BY <1>0, <1>1 DEF MigrationsInv, vars, CallTypes, Recorded, Calling, Atomic, Current
<1>2. ASSUME NEW p \in Proc, Environment(p) \/ Step(p)
      PROVE  /\ MigrationsInv'
             /\ pc'[p] = "idle" /\ result'[p] = "ok"
                  => recorded' = Version /\ created' = Object /\ (LockTable => locks')
             /\ \A q \in Proc \ {p} : pc'[q] = pc[q]
  <2>0. dialect' = dialect
    BY <1>2 DEF Environment, Step
  <2>1. \A q \in Proc \ {p} : pc'[q] = pc[q]
    BY <1>0, <1>2 DEF Environment, Step, Call, Interrupted, ReadVersions, Exec, Conflict,
                      Record, Applied, CreateLocks, Return, CallTypes
  <2>2. CASE Call(p) \/ ReadVersions(p) \/ (Applied(p) /\ LockTable)
    BY <2>0, <2>1, <2>2, QuietStep
  <2>3. CASE Exec(p)
    BY <2>0, <2>1, <2>3, ExecStep
  <2>4. CASE Record(p)
    <3>1. MigrationsInv' /\ pc' = pc /\ pc[p] = "apply"
      BY Zenon, <2>0, <2>4, RecordStep DEF Record
    <3> QED BY <2>1, <3>1
  <2>5. CASE Applied(p) /\ ~LockTable
    <3>1. Return(p, "ok") /\ UNCHANGED <<dialect, created, recorded>>
      BY <2>0, <2>5 DEF Applied
    <3>2. MigrationsInv'
      BY <1>0, <3>1, Returns
    <3>3. recorded = Version /\ created = Object
      BY <2>5, AllApplied DEF Applied
    <3> QED BY <2>1, <2>5, <3>1, <3>2, <3>3
  <2>6. CASE CreateLocks(p)
    <3>1. Return(p, "ok") /\ UNCHANGED <<dialect, created, recorded>> /\ locks' = TRUE
      BY <2>0, <2>6 DEF CreateLocks
    <3>2. MigrationsInv'
      BY <1>0, <3>1, Returns
    <3>3. recorded = Version /\ created = Object
      BY <1>0, <2>6, AllApplied DEF CreateLocks, Calling
    <3> QED BY <2>1, <3>1, <3>2, <3>3
  <2>7. CASE Interrupted(p)
    <3>1. Return(p, "error") /\ UNCHANGED <<dialect, created, recorded>>
      BY <2>0, <2>7 DEF Interrupted
    <3>2. MigrationsInv' /\ result'[p] = "error"
      BY <1>0, <3>1, Returns
    <3> QED BY <2>1, <3>2
  <2> QED BY <1>2, <2>2, <2>3, <2>4, <2>5, <2>6, <2>7 DEF Environment, Step
<1> QED BY <1>1, <1>2 DEF Next

-----------------------------------------------------------------------------
\* The inductive invariant: a recorded version is complete, and what a call no longer has to
\* do is recorded.
THEOREM MigrationsInvariant == Spec => []MigrationsInv
<1>1. Init => MigrationsInv
  BY MigrationsAssumption DEF Init, MigrationsInv, CallTypes, Recorded, Calling
<1>2. MigrationsInv /\ [Next]_vars => MigrationsInv'
  BY MigrationsStep
<1> QED BY <1>1, <1>2, PTL DEF Spec

\* On Postgres and CockroachDB a version is recorded exactly when all of its objects exist,
\* however many processes migrate at once and whatever is interrupted.
THEOREM MigrationsAtomic == Spec => []AllOrNothing
<1>1. MigrationsInv => AllOrNothing
  BY DEF MigrationsInv, Recorded, AllOrNothing
<1> QED BY <1>1, MigrationsInvariant, PTL

\* ApplyMigrations returns nil only with the whole schema in place, also on MySQL, whose
\* files are no transactions.
THEOREM NilMeansMigrated == Spec => OkMeansMigrated
<1>1. MigrationsInv /\ [Next]_vars
      => [\A p \in Proc :
             pc[p] # "idle" /\ pc'[p] = "idle" /\ result'[p] = "ok"
             => recorded' = Version /\ created' = Object /\ (LockTable => locks')]_vars
  BY MigrationsStep
<1> QED BY <1>1, MigrationsInvariant, PTL DEF Spec, OkMeansMigrated

-----------------------------------------------------------------------------
(* Partitions *)

PartitionTypes ==
    /\ cadence \in BOOLEAN /\ now \in Nat /\ parts \subseteq Nat /\ ensured \subseteq Nat
    /\ ensure \in [Maintainer -> [start : Nat \cup {None}, i : Nat]]
    /\ drop \in [Maintainer -> [cutoff : Nat \cup {None}, list : SUBSET Nat]]
    /\ row \in [Msg -> [at : Nat \cup {None}, home : Nat \cup {None, Default},
                        status : {"none", "pending", "terminal", "dropped"}]]

\* A row is in the partition of its month, and dropped partitions end by the cutoff.
Placed ==
    /\ \A m \in Msg : row[m].home \in Nat => row[m].at \in Nat /\ Month(row[m].at) = row[m].home
    /\ \A p \in Maintainer :
         /\ ensure[p] = NoCall \/ ensure[p].start \in Nat
         /\ drop[p].list # {} => drop[p].cutoff \in Nat /\ drop[p].cutoff <= now
         /\ \A month \in drop[p].list : Upper(month) <= drop[p].cutoff

\* Whoever ensures the partitions of a month has, up to the loop's index, all those that are
\* not in the past; this month always has its partition, and the next one before it begins.
Covered ==
    /\ \A p \in Maintainer : ensure[p].start \in Nat =>
         /\ ensure[p].start <= Month(now) /\ ensure[p].i <= Ahead
         /\ \A j \in 0..Ahead : j < ensure[p].i /\ ensure[p].start + j >= Month(now)
                                => ensure[p].start + j \in parts
    /\ \A month \in ensured : \A j \in 0..Ahead :
         month + j >= Month(now) => month + j \in parts
    /\ cadence => Month(now) \in parts /\ LiveWritesInPartitions

PartitionsInv == PartitionTypes /\ Placed /\ Covered

-----------------------------------------------------------------------------
\* The calendar.
LEMMA Calendar ==
    /\ \A t \in Nat : Month(t) \in Nat /\ t < Upper(Month(t))
    /\ \A t \in Nat : Month(t + 1) \in {Month(t), Month(t) + 1}
    /\ \A k \in Nat, t, n \in Nat : Upper(k) <= t /\ t <= n => k < Month(n)
    /\ None \notin Nat /\ Default \notin Nat /\ None # Default
BY PartitionsAssumption DEF Month, Upper

\* PartitionTypes and places are kept, and a step drops only what is older than a cutoff.
LEMMA PlacedStep ==
    ASSUME PartitionTypes, Placed, [PartitionsNext]_partitionVars
    PROVE  /\ PartitionTypes' /\ Placed'
           /\ \A m \in Msg : Dropped(m) => \E p \in Maintainer :
                drop'[p] # drop[p] /\ row[m].at < drop[p].cutoff
<1>1. CASE UNCHANGED partitionVars
  BY <1>1 DEF partitionVars, PartitionTypes, Placed, Dropped
<1>2. CASE Tick /\ UNCHANGED cadence
  BY <1>2 DEF Tick, PartitionTypes, Placed, Dropped
<1>3. ASSUME NEW m \in Msg, Insert(m) \/ Settle(m), UNCHANGED cadence
      PROVE  PartitionTypes' /\ Placed' /\ \A k \in Msg : ~Dropped(k)
  <2>1. Month(now) \in Nat /\ now \in Nat
    BY Calendar DEF PartitionTypes
  <2>2. PICK r \in [at : Nat \cup {None}, home : Nat \cup {None, Default},
                    status : {"pending", "terminal"}] :
          /\ row' = [row EXCEPT ![m] = r]
          /\ r.home \in Nat => r.at \in Nat /\ Month(r.at) = r.home
    <3>1. CASE Insert(m)
      <4> DEFINE r == [at |-> now, status |-> "pending",
                       home |-> IF Month(now) \in parts THEN Month(now) ELSE Default]
      <4>1. row' = [row EXCEPT ![m] = r]
        BY <3>1 DEF Insert
      <4>2. r \in [at : Nat \cup {None}, home : Nat \cup {None, Default},
                   status : {"pending", "terminal"}]
        BY <2>1
      <4>3. r.home \in Nat => r.at \in Nat /\ Month(r.at) = r.home
        BY <2>1, Calendar
      <4> HIDE DEF r
      <4> QED BY Zenon, <4>1, <4>2, <4>3
    <3>2. CASE Settle(m)
      <4> DEFINE r == [row[m] EXCEPT !.status = "terminal"]
      <4>1. row' = [row EXCEPT ![m] = r]
        BY <3>2 DEF Settle, PartitionTypes
      <4>2. r \in [at : Nat \cup {None}, home : Nat \cup {None, Default},
                   status : {"pending", "terminal"}]
        BY Zenon DEF PartitionTypes
      <4>3. r.home \in Nat => r.at \in Nat /\ Month(r.at) = r.home
        BY DEF PartitionTypes, Placed
      <4> HIDE DEF r
      <4> QED BY Zenon, <4>1, <4>2, <4>3
    <3> QED BY <1>3, <3>1, <3>2
  <2>3. UNCHANGED <<now, parts, ensure, ensured, drop>>
    BY <1>3 DEF Insert, Settle
  <2>4. PartitionTypes'
    BY <1>3, <2>2, <2>3 DEF PartitionTypes
  <2>5. \A k \in Msg : row'[k] = IF k = m THEN r ELSE row[k]
    BY <2>2 DEF PartitionTypes
  <2>6. \A k \in Msg : ~Dropped(k)
    BY <2>2, <2>5 DEF Dropped
  <2> QED BY <2>2, <2>3, <2>4, <2>5, <2>6 DEF Placed
<1>4. ASSUME NEW p \in Maintainer, UNCHANGED cadence,
             EnsureStart(p) \/ EnsureFails(p) \/ EnsureCollides(p) \/ EnsureStep(p)
      PROVE  PartitionTypes' /\ Placed' /\ row' = row
  <2>1. row' = row /\ drop' = drop /\ now' = now
    BY <1>4 DEF EnsureStart, EnsureFails, EnsureCollides, EnsureStep
  <2>2. Month(now) \in Nat
    BY Calendar DEF PartitionTypes
  <2>3. PICK c : ensure' = [ensure EXCEPT ![p] = c] /\ (c = NoCall \/ c \in [start : Nat, i : Nat])
    <3>1. CASE EnsureStart(p)
      <4> DEFINE c1 == [start |-> Month(now), i |-> 0]
      <4>1. c1 \in [start : Nat, i : Nat]
        BY <2>2
      <4>2. ensure' = [ensure EXCEPT ![p] = c1]
        BY <3>1 DEF EnsureStart
      <4> HIDE DEF c1
      <4> QED BY Zenon, <4>1, <4>2
    <3>2. CASE EnsureFails(p) \/ EnsureCollides(p)
      BY Zenon, <3>2 DEF EnsureFails, EnsureCollides
    <3>3. CASE EnsureStep(p)
      <4>1. ensure[p] \in [start : Nat, i : Nat]
        BY <3>3 DEF EnsureStep, PartitionTypes, Placed
      <4>2. CASE Last(ensure[p].i)
        BY <3>3, <4>2 DEF EnsureStep
      <4>3. CASE ~Last(ensure[p].i)
        <5> DEFINE c2 == [ensure[p] EXCEPT !.i = ensure[p].i + 1]
        <5>1. ensure' = [ensure EXCEPT ![p] = c2]
          BY <3>3, <4>3 DEF EnsureStep, PartitionTypes
        <5>2. c2 \in [start : Nat, i : Nat]
          BY <4>1
        <5> HIDE DEF c2
        <5> QED BY Zenon, <5>1, <5>2
      <4> QED BY <4>2, <4>3
    <3> QED BY <1>4, <3>1, <3>2, <3>3
  <2>4. parts' \subseteq Nat /\ ensured' \subseteq Nat
    <3>1. ASSUME EnsureStep(p) PROVE ensure[p].start \in Nat /\ ensure[p].i \in Nat
      BY <3>1 DEF EnsureStep, PartitionTypes, Placed
    <3> QED BY <1>4, <3>1 DEF EnsureStart, EnsureFails, EnsureCollides, EnsureStep, PartitionTypes
  <2>5. NoCall \in [start : Nat \cup {None}, i : Nat]
    BY DEF NoCall
  <2>6. PartitionTypes'
    BY <1>4, <2>1, <2>3, <2>4, <2>5 DEF PartitionTypes
  <2>7. \A q \in Maintainer : ensure'[q] = NoCall \/ ensure'[q].start \in Nat
    BY <2>3 DEF PartitionTypes, Placed
  <2> QED BY <2>1, <2>6, <2>7 DEF Placed
<1>5. ASSUME NEW p \in Maintainer, DropStart(p), UNCHANGED cadence
      PROVE  PartitionTypes' /\ Placed' /\ row' = row
  <2>1. PICK cutoff \in 0..now :
          drop' = [drop EXCEPT ![p] =
                     [cutoff |-> cutoff, list |-> {month \in parts : Droppable(month, cutoff)}]]
    BY Zenon, <1>5 DEF DropStart
  <2>2. UNCHANGED <<now, parts, row, ensure, ensured, failed>>
    BY <1>5 DEF DropStart
  <2>3. cutoff \in Nat /\ cutoff <= now
    BY DEF PartitionTypes
  <2>4. PartitionTypes'
    BY Zenon, <1>5, <2>1, <2>2, <2>3 DEF PartitionTypes
  <2> QED BY <2>1, <2>2, <2>3, <2>4 DEF PartitionTypes, Placed, Droppable
<1>6. ASSUME NEW p \in Maintainer, DropStep(p), UNCHANGED cadence
      PROVE  /\ PartitionTypes' /\ Placed'
             /\ \A m \in Msg : Dropped(m) => drop'[p] # drop[p] /\ row[m].at < drop[p].cutoff
  <2>1. PICK month \in drop[p].list :
          /\ drop' = [drop EXCEPT ![p].list = @ \ {month}]
          /\ parts' = parts \ {month}
          /\ row' = [m \in Msg |-> IF row[m].home = month
                                   THEN [row[m] EXCEPT !.home = None, !.status = "dropped"]
                                   ELSE row[m]]
    BY Zenon, <1>6 DEF DropStep
  <2>2. UNCHANGED <<now, ensure, ensured, failed>>
    BY Zenon, <1>6 DEF DropStep
  <2>3. PartitionTypes'
    <3>1. drop' \in [Maintainer -> [cutoff : Nat \cup {None}, list : SUBSET Nat]]
      BY Zenon, <2>1 DEF PartitionTypes
    <3>2. row' \in [Msg -> [at : Nat \cup {None}, home : Nat \cup {None, Default},
                            status : {"none", "pending", "terminal", "dropped"}]]
      <4> DEFINE R == [at : Nat \cup {None}, home : Nat \cup {None, Default},
                       status : {"none", "pending", "terminal", "dropped"}]
      <4>1. \A m \in Msg : row[m] \in R
        BY DEF PartitionTypes
      <4>2. ASSUME NEW r \in R PROVE [r EXCEPT !.home = None, !.status = "dropped"] \in R
        BY Zenon
      <4> HIDE DEF R
      <4>3. row' \in [Msg -> R]
        BY Zenon, <2>1, <4>1, <4>2
      <4> QED BY <4>3 DEF R
    <3>3. parts' \subseteq Nat
      BY Zenon, <2>1 DEF PartitionTypes
    <3> QED BY Zenon, <1>6, <2>2, <3>1, <3>2, <3>3 DEF PartitionTypes
  <2>4. /\ month \in Nat /\ drop[p].cutoff \in Nat /\ Upper(month) <= drop[p].cutoff
    BY Zenon, <2>1 DEF PartitionTypes, Placed
  <2>8. drop'[p] # drop[p]
    <3>1. drop'[p].list = drop[p].list \ {month}
      BY Zenon, <2>1 DEF PartitionTypes
    <3> QED BY Zenon, <2>1, <3>1
  <2>5. ASSUME NEW m \in Msg, Dropped(m) PROVE row[m].at < drop[p].cutoff
    <3>1. row[m].home = month
      BY Zenon, <2>1, <2>5 DEF Dropped
    <3>2. row[m].at \in Nat /\ Month(row[m].at) = month
      BY <2>4, <3>1 DEF Placed
    <3>3. row[m].at < Upper(month) /\ Upper(month) \in Nat
      BY <2>4, <3>2, Calendar DEF Upper
    <3> QED BY <2>4, <3>2, <3>3
  <2>6. \A m \in Msg : row'[m].home \in Nat => row'[m] = row[m]
    BY Zenon, <2>1, Calendar DEF PartitionTypes
  <2>7. \A q \in Maintainer : /\ drop'[q].cutoff = drop[q].cutoff
                              /\ drop'[q].list \subseteq drop[q].list
    BY Zenon, <2>1 DEF PartitionTypes
  <2> QED BY Zenon, <2>2, <2>3, <2>5, <2>6, <2>7, <2>8 DEF Placed
<1>7. ASSUME NEW p \in Maintainer, DropReturns(p), UNCHANGED cadence
      PROVE  PartitionTypes' /\ Placed' /\ row' = row
  BY <1>7 DEF DropReturns, PartitionTypes, Placed, NoDrop
<1>8. ASSUME row' = row PROVE \A m \in Msg : ~Dropped(m)
  BY <1>8 DEF Dropped
<1> QED BY <1>1, <1>2, <1>3, <1>4, <1>5, <1>6, <1>7, <1>8 DEF PartitionsNext

\* DropPartitionsBefore never takes a message younger than the cutoff it was called with,
\* whatever runs at the same time.
THEOREM DropsAreOld == PartitionsSpec => DropsOnlyOlder
<1>1. PartitionsInit => PartitionTypes /\ Placed
  BY SMTT(30), PartitionsAssumption
     DEF PartitionsInit, PartitionTypes, Placed, NoRow, NoCall, NoDrop
<1>2. PartitionTypes /\ Placed /\ [PartitionsNext]_partitionVars => PartitionTypes' /\ Placed'
  BY PlacedStep
<1>3. PartitionTypes /\ Placed /\ [PartitionsNext]_partitionVars
      => [\A m \in Msg : Dropped(m) => \E p \in Maintainer :
             drop'[p] # drop[p] /\ row[m].at < drop[p].cutoff]_partitionVars
  BY PlacedStep
<1> QED BY <1>1, <1>2, <1>3, PTL DEF PartitionsSpec, DropsOnlyOlder

-----------------------------------------------------------------------------
\* The months from now on are covered, if there is one ahead.
LEMMA CoveredStep ==
    ASSUME PartitionsInv, [PartitionsNext]_partitionVars, Ahead >= 1
    PROVE  Covered'
<1>0. PartitionTypes /\ Placed /\ Covered
  BY DEF PartitionsInv
<1>1. /\ now \in Nat /\ Month(now) \in Nat /\ Ahead \in Nat
      /\ \A p \in Maintainer : ensure[p].i \in Nat
  BY <1>0, Calendar, PartitionsAssumption DEF PartitionTypes
<1>2. CASE UNCHANGED partitionVars
  BY <1>0, <1>2 DEF partitionVars, Covered, LiveWritesInPartitions
<1>3. ASSUME Tick, UNCHANGED cadence PROVE Covered'
  <2>1. now' = now + 1 /\ UNCHANGED <<parts, row, ensure, ensured, failed, cadence>>
    BY <1>3 DEF Tick
  <2>2. Month(now') \in Nat /\ Month(now') \in {Month(now), Month(now) + 1}
    BY <1>1, <2>1, Calendar
  <2>3. ASSUME cadence PROVE Month(now') \in parts
    <3>1. CASE Month(now') = Month(now)
      BY <1>0, <2>3, <3>1 DEF Covered
    <3>2. CASE Month(now') # Month(now)
      <4>1. Month(now) \in ensured
        BY <1>3, <2>1, <2>3, <3>2 DEF Tick
      <4>2. 1 \in 0..Ahead /\ Month(now) + 1 >= Month(now)
        BY <1>1
      <4>3. Month(now) + 1 \in parts
        BY <1>0, <4>1, <4>2 DEF Covered
      <4> QED BY <2>2, <3>2, <4>3
    <3> QED BY <3>1, <3>2
  <2>4. \A k \in Nat : k >= Month(now') => k >= Month(now)
    BY <1>1, <2>2
  <2>5. \A p \in Maintainer : ensure[p].start \in Nat =>
          /\ ensure[p].start <= Month(now')
          /\ ensure[p].i <= Ahead
          /\ \A j \in 0..Ahead : j < ensure[p].i /\ ensure[p].start + j >= Month(now')
                                 => ensure[p].start + j \in parts
    BY <1>0, <1>1, <2>2, <2>4 DEF Covered
  <2>6. \A month \in ensured : \A j \in 0..Ahead :
          month + j >= Month(now') => month + j \in parts
    <3> SUFFICES ASSUME NEW month \in ensured, NEW j \in 0..Ahead, month + j >= Month(now')
                 PROVE  month + j \in parts
      OBVIOUS
    <3>1. month + j \in Nat
      BY <1>0, <1>1 DEF PartitionTypes
    <3>2. month + j >= Month(now)
      BY <2>4, <3>1
    <3> QED BY <1>0, <3>2 DEF Covered
  <2> QED BY <1>0, <2>1, <2>3, <2>5, <2>6 DEF Covered, LiveWritesInPartitions
<1>4. ASSUME NEW m \in Msg, Insert(m) \/ Settle(m), UNCHANGED cadence PROVE Covered'
  <2>1. UNCHANGED <<now, parts, ensure, ensured, failed, cadence>>
    BY <1>4 DEF Insert, Settle
  <2>2. ASSUME cadence, NEW k \in Msg PROVE row'[k].home # Default
    <3>1. Month(now) \in parts /\ row[k].home # Default
      BY <1>0, <2>2 DEF Covered, LiveWritesInPartitions
    <3>2. CASE Insert(m)
      BY <1>0, <1>1, <3>1, <3>2, Calendar DEF Insert, PartitionTypes
    <3>3. CASE Settle(m)
      BY <1>0, <3>1, <3>3 DEF Settle, PartitionTypes
    <3> QED BY <1>4, <3>2, <3>3
  <2> QED BY <1>0, <2>1, <2>2 DEF Covered, LiveWritesInPartitions
<1>5. ASSUME NEW p \in Maintainer, EnsureStart(p), UNCHANGED cadence PROVE Covered'
  <2>1. /\ ensure' = [ensure EXCEPT ![p] = [start |-> Month(now), i |-> 0]]
        /\ UNCHANGED <<now, parts, row, ensured, failed, cadence>>
    BY <1>5 DEF EnsureStart
  <2>2. ASSUME NEW q \in Maintainer, ensure'[q].start \in Nat
        PROVE  /\ ensure'[q].start <= Month(now) /\ ensure'[q].i <= Ahead
               /\ \A j \in 0..Ahead : j < ensure'[q].i /\ ensure'[q].start + j >= Month(now)
                                      => ensure'[q].start + j \in parts
    BY <1>0, <1>1, <2>1, <2>2 DEF Covered, PartitionTypes
  <2> QED BY <1>0, <2>1, <2>2 DEF Covered, LiveWritesInPartitions
<1>6. ASSUME NEW p \in Maintainer, EnsureFails(p), UNCHANGED cadence PROVE Covered'
  <2>1. ~cadence
    <3>1. \E m \in Msg : row[m].home = Default
      BY <1>6 DEF EnsureFails, Refused
    <3> QED BY <1>0, <3>1 DEF Covered, LiveWritesInPartitions
  <2>2. /\ ensure' = [ensure EXCEPT ![p] = NoCall] /\ None \notin Nat
        /\ UNCHANGED <<now, parts, row, ensured, cadence>>
    BY <1>6, Calendar DEF EnsureFails
  <2>3. ASSUME NEW q \in Maintainer, ensure'[q].start \in Nat PROVE ensure'[q] = ensure[q]
    BY <1>0, <2>2, <2>3 DEF PartitionTypes, NoCall
  <2> QED BY <1>0, <2>1, <2>2, <2>3 DEF Covered
<1>10. ASSUME NEW p \in Maintainer, EnsureCollides(p), UNCHANGED cadence PROVE Covered'
  <2>1. /\ ensure' = [ensure EXCEPT ![p] = NoCall] /\ None \notin Nat
        /\ UNCHANGED <<now, parts, row, ensured, failed, cadence>>
    BY <1>10, Calendar DEF EnsureCollides
  <2>2. ASSUME NEW q \in Maintainer, ensure'[q].start \in Nat PROVE ensure'[q] = ensure[q]
    BY <1>0, <2>1, <2>2 DEF PartitionTypes, NoCall
  <2> QED BY <1>0, <2>1, <2>2 DEF Covered, LiveWritesInPartitions
<1>7. ASSUME NEW p \in Maintainer, EnsureStep(p), UNCHANGED cadence PROVE Covered'
  <2> DEFINE c == ensure[p]
  <2>1. /\ c.start \in Nat /\ c.i \in Nat /\ c.i <= Ahead /\ c.start <= Month(now)
        /\ \A j \in 0..Ahead : j < c.i /\ c.start + j >= Month(now) => c.start + j \in parts
    BY <1>0, <1>1, <1>7 DEF EnsureStep, Placed, Covered
  <2>2. /\ parts' = parts \cup {c.start + c.i}
        /\ UNCHANGED <<now, row, failed, cadence>>
    BY <1>7 DEF EnsureStep
  <2>3. \A j \in 0..Ahead : j <= c.i /\ c.start + j >= Month(now) => c.start + j \in parts'
    BY <2>1, <2>2
  <2>4. /\ \A month \in ensured : \A j \in 0..Ahead :
             month + j >= Month(now) => month + j \in parts'
        /\ \A q \in Maintainer : ensure[q].start \in Nat =>
             /\ ensure[q].start <= Month(now) /\ ensure[q].i <= Ahead
             /\ \A j \in 0..Ahead : j < ensure[q].i /\ ensure[q].start + j >= Month(now)
                                    => ensure[q].start + j \in parts'
        /\ cadence => Month(now) \in parts' /\ LiveWritesInPartitions
    BY <1>0, <2>2 DEF Covered
  <2>5. CASE Last(c.i)
    <3>1. /\ ensure' = [ensure EXCEPT ![p] = NoCall]
          /\ ensured' = ensured \cup {c.start} /\ c.i = Ahead
      BY <1>7, <2>5 DEF EnsureStep, Last
    <3>2. ASSUME NEW q \in Maintainer, ensure'[q].start \in Nat PROVE ensure'[q] = ensure[q]
      BY <1>0, <3>1, <3>2, Calendar DEF PartitionTypes, NoCall
    <3>3. \A j \in 0..Ahead : c.start + j >= Month(now) => c.start + j \in parts'
      BY <1>1, <2>3, <3>1
    <3> QED BY <2>2, <2>4, <3>1, <3>2, <3>3 DEF Covered, LiveWritesInPartitions
  <2>6. CASE ~Last(c.i)
    <3>1. ensure' = [ensure EXCEPT ![p].i = c.i + 1] /\ ensured' = ensured /\ c.i # Ahead
      BY <1>7, <2>6 DEF EnsureStep, Last
    <3>2. /\ ensure'[p].start = c.start /\ ensure'[p].i = c.i + 1
          /\ \A q \in Maintainer \ {p} : ensure'[q] = ensure[q]
      BY <1>0, <3>1 DEF PartitionTypes
    <3>3. /\ c.i + 1 <= Ahead
          /\ \A j \in 0..Ahead : j < c.i + 1 /\ c.start + j >= Month(now) => c.start + j \in parts'
      BY <1>1, <2>1, <2>3, <3>1
    <3> HIDE DEF c
    <3> QED BY <2>1, <2>2, <2>4, <3>1, <3>2, <3>3 DEF Covered, LiveWritesInPartitions
  <2> QED BY <2>5, <2>6
<1>8. ASSUME NEW p \in Maintainer, DropStart(p) \/ DropReturns(p), UNCHANGED cadence
      PROVE  Covered'
  BY <1>0, <1>8 DEF DropStart, DropReturns, Covered, LiveWritesInPartitions
<1>9. ASSUME NEW p \in Maintainer, DropStep(p), UNCHANGED cadence PROVE Covered'
  <2>1. PICK month \in drop[p].list :
          /\ parts' = parts \ {month}
          /\ row' = [m \in Msg |-> IF row[m].home = month
                                   THEN [row[m] EXCEPT !.home = None, !.status = "dropped"]
                                   ELSE row[m]]
    BY Zenon, <1>9 DEF DropStep
  <2>2. UNCHANGED <<now, ensure, ensured, failed, cadence>>
    BY Zenon, <1>9 DEF DropStep
  <2>3. month \in Nat /\ month < Month(now)
    <3>1. month \in Nat /\ drop[p].cutoff \in Nat /\ drop[p].cutoff <= now
          /\ Upper(month) <= drop[p].cutoff
      BY Zenon, <1>0, <2>1 DEF PartitionTypes, Placed
    <3> QED BY <1>1, <3>1, Calendar
  <2>4. \A k \in Nat : k >= Month(now) /\ k \in parts => k \in parts'
    <3>1. parts' = parts \ {month}
      BY Zenon, <2>1
    <3>2. \A k \in Nat : k >= Month(now) => k # month
      BY <1>1, <2>3
    <3> QED BY <3>1, <3>2
  <2>5. \A m \in Msg : row'[m].home = Default => row[m].home = Default
    <3> SUFFICES ASSUME NEW m \in Msg PROVE row'[m].home \in {None, row[m].home}
      BY PartitionsAssumption
    <3>1. row'[m] = IF row[m].home = month
                    THEN [row[m] EXCEPT !.home = None, !.status = "dropped"] ELSE row[m]
      BY Zenon, <2>1
    <3>2. [row[m] EXCEPT !.home = None, !.status = "dropped"].home = None
      BY <1>0 DEF PartitionTypes
    <3> QED BY Zenon, <3>1, <3>2
  <2>6. \A q \in Maintainer : ensure[q].start \in Nat =>
          /\ ensure[q].start <= Month(now) /\ ensure[q].i <= Ahead
          /\ \A j \in 0..Ahead : j < ensure[q].i /\ ensure[q].start + j >= Month(now)
                                 => ensure[q].start + j \in parts'
    BY <1>0, <1>1, <2>4 DEF Covered
  <2>7. \A k \in ensured : \A j \in 0..Ahead : k + j >= Month(now) => k + j \in parts'
    BY Zenon, <1>0, <1>1, <2>4 DEF Covered, PartitionTypes
  <2>8. cadence => Month(now) \in parts' /\ ~failed /\ \A m \in Msg : row'[m].home # Default
    BY <1>0, <1>1, <2>4, <2>5 DEF Covered, LiveWritesInPartitions
  <2> QED BY <2>2, <2>6, <2>7, <2>8 DEF Covered, LiveWritesInPartitions
<1> QED BY <1>2, <1>3, <1>4, <1>5, <1>6, <1>7, <1>8, <1>9, <1>10 DEF PartitionsNext

\* With at least one month ahead, a deployment in which EnsurePartitions returns nil once a
\* month never writes to the default partition and is never refused a partition.
THEOREM WritesInPartitions ==
    ASSUME Ahead >= 1 PROVE PartitionsSpec => []LiveWritesInPartitions
<1>1. PartitionsInit => PartitionsInv
  <2> SUFFICES ASSUME PartitionsInit PROVE PartitionsInv
    OBVIOUS
  <2>1. PartitionTypes /\ Placed
    BY SMTT(30), PartitionsAssumption
       DEF PartitionsInit, PartitionTypes, Placed, NoRow, NoCall, NoDrop
  <2>2. Month(0) = 0 /\ 0 \in 0..Ahead
    BY PartitionsAssumption DEF Month
  <2>3. Covered
    BY <2>2, Calendar DEF PartitionsInit, Covered, LiveWritesInPartitions, NoRow, NoCall
  <2> QED BY <2>1, <2>3 DEF PartitionsInv
<1>2. PartitionsInv /\ [PartitionsNext]_partitionVars => PartitionsInv'
  BY PlacedStep, CoveredStep DEF PartitionsInv
<1>3. PartitionsInv => LiveWritesInPartitions
  BY DEF PartitionsInv, Covered, LiveWritesInPartitions
<1> QED BY <1>1, <1>2, <1>3, PTL DEF PartitionsSpec

=============================================================================
