----------------------------- MODULE Partitions -----------------------------
(***************************************************************************)
(* The partitioned Postgres schema: tickr_messages is split by the month   *)
(* of created_at, a DEFAULT partition takes rows of months that have no    *)
(* partition, EnsurePartitions creates the partitions of this month and of *)
(* the months ahead, and DropPartitionsBefore is the retention.  Time is   *)
(* counted in half months, so that cutoffs fall inside of months too.      *)
(***************************************************************************)
EXTENDS Naturals, FiniteSets

CONSTANTS Msg, Maintainer, None, Default,
          Ahead,      \* monthsAhead
          MaxTime     \* bound on the clock

ASSUME PartitionsAssumption ==
    /\ Ahead \in Nat /\ MaxTime \in Nat
    /\ {None, Default} \cap Nat = {} /\ None # Default

Month(t) == t \div 2
Upper(month) == 2 * month + 2     \* the TO bound: where the next month begins
Horizon == Month(MaxTime) + Ahead

VARIABLES cadence,   \* EnsurePartitions runs at deploy time and in every month
          now,
          parts,     \* months that have a partition
          row,       \* the messages: when created, in which partition, whether settled
          ensure,    \* EnsurePartitions calls: the first month and the loop's index
          ensured,   \* months in which a call returned nil
          failed,    \* Postgres refused some call a partition
          drop       \* DropPartitionsBefore calls: the cutoff and the partitions still to visit

partitionVars == <<cadence, now, parts, row, ensure, ensured, failed, drop>>

NoRow == [at |-> None, home |-> None, status |-> "none"]
NoCall == [start |-> None, i |-> 0]
NoDrop == [cutoff |-> None, list |-> {}]

PartitionsTypeOK ==
    /\ cadence \in BOOLEAN
    /\ now \in 0..MaxTime /\ parts \subseteq 0..Horizon /\ failed \in BOOLEAN
    /\ \A m \in Msg : \/ row[m].status \in {"none", "dropped"} /\ row[m].home = None
                      \/ /\ row[m].status \in {"pending", "terminal"}
                         /\ row[m].at \in 0..now
                         /\ row[m].home \in parts \cup {Default}
    /\ ensure \in [Maintainer -> [start : 0..Month(MaxTime) \cup {None}, i : 0..Ahead]]
    /\ ensured \subseteq 0..Month(MaxTime)
    /\ drop \in [Maintainer -> [cutoff : 0..MaxTime \cup {None}, list : SUBSET (0..Horizon)]]

PartitionsInit ==
    /\ cadence \in BOOLEAN
    /\ now = 0 /\ failed = FALSE /\ ensured = {}
    /\ parts = IF cadence THEN 0..Ahead ELSE {}
    /\ row = [m \in Msg |-> NoRow]
    /\ ensure = [p \in Maintainer |-> NoCall]
    /\ drop = [p \in Maintainer |-> NoDrop]

Tick ==
    /\ now < MaxTime
    /\ cadence /\ Month(now + 1) # Month(now) => Month(now) \in ensured
    /\ now' = now + 1
    /\ UNCHANGED <<parts, row, ensure, ensured, failed, drop>>

\* An insert goes to the partition of its month, or to the default partition.
Insert(m) ==
    /\ row[m].status = "none"
    /\ row' = [row EXCEPT ![m] =
                 [at |-> now, status |-> "pending",
                  home |-> IF Month(now) \in parts THEN Month(now) ELSE Default]]
    /\ UNCHANGED <<now, parts, ensure, ensured, failed, drop>>

\* The message becomes SUCCESS or DEAD.
Settle(m) ==
    /\ row[m].status = "pending"
    /\ row' = [row EXCEPT ![m].status = "terminal"]
    /\ UNCHANGED <<now, parts, ensure, ensured, failed, drop>>

-----------------------------------------------------------------------------
EnsureStart(p) ==
    /\ ensure[p] = NoCall
    /\ ensure' = [ensure EXCEPT ![p] = [start |-> Month(now), i |-> 0]]
    /\ UNCHANGED <<now, parts, row, ensured, failed, drop>>

\* The default partition holds a row of the month: Postgres refuses to create the partition.
Refused(month) ==
    /\ month \notin parts
    /\ \E m \in Msg : row[m].home = Default /\ Month(row[m].at) = month

EnsureFails(p) ==
    /\ ensure[p] # NoCall
    /\ Refused(ensure[p].start + ensure[p].i)
    /\ failed' = TRUE
    /\ ensure' = [ensure EXCEPT ![p] = NoCall]
    /\ UNCHANGED <<now, parts, row, ensured, drop>>

\* Another call is about to create the same partition.  IF NOT EXISTS does not help the one
\* that is second: it waits for the first and then returns that the relation exists.
EnsureCollides(p) ==
    LET Target(q) == ensure[q].start + ensure[q].i
    IN  /\ ensure[p] # NoCall /\ Target(p) \notin parts
        /\ \E q \in Maintainer \ {p} : ensure[q] # NoCall /\ Target(q) = Target(p)
        /\ ensure' = [ensure EXCEPT ![p] = NoCall]
        /\ UNCHANGED <<now, parts, row, ensured, failed, drop>>

\* Mutant of Last: i < monthsAhead.
LastExclusive(i) == i + 1 >= Ahead

\* i <= monthsAhead.
Last(i) == i = Ahead

\* One round of the loop: CREATE TABLE IF NOT EXISTS ... PARTITION OF.
EnsureStep(p) ==
    LET c == ensure[p]
    IN  /\ c # NoCall
        /\ ~Refused(c.start + c.i)
        /\ parts' = parts \cup {c.start + c.i}
        /\ IF Last(c.i)
           THEN /\ ensure' = [ensure EXCEPT ![p] = NoCall]
                /\ ensured' = ensured \cup {c.start}
           ELSE ensure' = [ensure EXCEPT ![p].i = c.i + 1] /\ UNCHANGED ensured
        /\ UNCHANGED <<now, row, failed, drop>>

-----------------------------------------------------------------------------
\* Mutant of Droppable: the lower bound is compared.
DroppableByLower(month, cutoff) == 2 * month < cutoff

\* The entire range ends at or before the cutoff: !upper.After(cutoff).
Droppable(month, cutoff) == Upper(month) <= cutoff

\* DropPartitionsBefore lists the partitions first; those with a later end are skipped.
DropStart(p) ==
    /\ drop[p] = NoDrop
    /\ \E cutoff \in 0..now :
         drop' = [drop EXCEPT ![p] =
                    [cutoff |-> cutoff, list |-> {month \in parts : Droppable(month, cutoff)}]]
    /\ UNCHANGED <<now, parts, row, ensure, ensured, failed>>

\* The next partition is dropped with all its rows; one that is gone by now is no error.
DropStep(p) ==
    /\ \E month \in drop[p].list :
         /\ drop' = [drop EXCEPT ![p].list = @ \ {month}]
         /\ parts' = parts \ {month}
         /\ row' = [m \in Msg |->
                      IF row[m].home = month
                      THEN [row[m] EXCEPT !.home = None, !.status = "dropped"]
                      ELSE row[m]]
    /\ UNCHANGED <<now, ensure, ensured, failed>>

DropReturns(p) ==
    /\ drop[p] # NoDrop /\ drop[p].list = {}
    /\ drop' = [drop EXCEPT ![p] = NoDrop]
    /\ UNCHANGED <<now, parts, row, ensure, ensured, failed>>

PartitionsNext ==
    /\ \/ Tick
       \/ \E m \in Msg : Insert(m) \/ Settle(m)
       \/ \E p \in Maintainer : \/ EnsureStart(p) \/ EnsureFails(p) \/ EnsureCollides(p)
                                \/ EnsureStep(p)
                                \/ DropStart(p) \/ DropStep(p) \/ DropReturns(p)
    /\ UNCHANGED cadence

PartitionsSpec == PartitionsInit /\ [][PartitionsNext]_partitionVars

-----------------------------------------------------------------------------
(* Properties *)

\* When a call of EnsurePartitions returns nil in every month, every insert finds the partition
\* of its month, also while retention drops partitions and calls overlap a month's end or each
\* other, so that no row is beyond the reach of DROP and no call is refused a partition
\* because of rows in the default one.
LiveWritesInPartitions ==
    cadence => ~failed /\ \A m \in Msg : row[m].home # Default

Dropped(m) == row[m].status # "dropped" /\ row'[m].status = "dropped"

\* Retention never takes a message that is younger than the cutoff of the call that drops it:
\* only whole months are dropped.
DropsOnlyOlder ==
    [][\A m \in Msg :
          Dropped(m) => \E p \in Maintainer :
                           drop'[p] # drop[p] /\ row[m].at < drop[p].cutoff]_partitionVars

=============================================================================
