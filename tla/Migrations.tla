----------------------------- MODULE Migrations -----------------------------
(***************************************************************************)
(* ApplyMigrations of the adapters, called by several processes of a       *)
(* deployment, each of which calls again when it starts again.  Postgres   *)
(* runs a file and the record of its version in one transaction; MySQL     *)
(* runs the statements of a file one by one, each committing by itself.    *)
(* The statements are plain CREATEs: they fail when their object exists.   *)
(***************************************************************************)
EXTENDS Naturals, Sequences

CONSTANTS Proc,
          Stmts,      \* Stmts[v]: number of statements in the file of version v = 1, 2, ...
          MaxFaults   \* bound on interrupted calls

Version == DOMAIN Stmts
File(v) == {<<v, i>> : i \in 1..Stmts[v]}
Object == UNION {File(v) : v \in Version}

ASSUME MigrationsAssumption ==
    /\ Stmts \in Seq(Nat \ {0})
    /\ MaxFaults \in Nat

VARIABLES dialect,   \* "postgres", "mysql" or "cockroach"
          created,   \* the committed objects of the schema
          recorded,  \* tickr_schema_version
          locks,     \* tickr_locks exists
          pc, todo,  \* where a call is, and the versions it has not applied yet
          done,      \* the statements of the current file that it has executed
          result,    \* what a process's last call returned
          faults

vars == <<dialect, created, recorded, locks, pc, todo, done, result, faults>>

\* A file is one transaction.  CockroachDB fills the index of 0002 only after the commit, in
\* a job of the server; that this job succeeds is assumed.  tickr_locks is created after the
\* files.
Atomic == dialect # "mysql"
LockTable == dialect = "cockroach"

\* The file the call is at: the names are sorted.
Current(p) == CHOOSE v \in todo[p] : \A u \in todo[p] : v <= u

TypeOK ==
    /\ dialect \in {"postgres", "mysql", "cockroach"}
    /\ created \subseteq Object /\ recorded \subseteq Version /\ locks \in BOOLEAN
    /\ pc \in [Proc -> {"idle", "read", "apply", "locks"}]
    /\ todo \in [Proc -> SUBSET Version]
    /\ \A p \in Proc : todo[p] # {} => done[p] \in 0..Stmts[Current(p)]
    /\ result \in [Proc -> {"none", "ok", "error"}]
    /\ faults \in 0..MaxFaults

Init ==
    /\ dialect \in {"postgres", "mysql", "cockroach"}
    /\ created = {} /\ recorded = {} /\ locks = FALSE
    /\ pc = [p \in Proc |-> "idle"]
    /\ todo = [p \in Proc |-> {}]
    /\ done = [p \in Proc |-> 0]
    /\ result = [p \in Proc |-> "none"]
    /\ faults = 0

\* What an open transaction of the call has created.
Open(p) == IF Atomic /\ todo[p] # {} THEN {<<Current(p), i>> : i \in 1..done[p]} ELSE {}

Return(p, res) ==
    /\ pc' = [pc EXCEPT ![p] = "idle"]
    /\ todo' = [todo EXCEPT ![p] = {}]
    /\ done' = [done EXCEPT ![p] = 0]
    /\ result' = [result EXCEPT ![p] = res]

-----------------------------------------------------------------------------
\* Up: the version table is created if it is missing.
Call(p) ==
    /\ pc[p] = "idle"
    /\ pc' = [pc EXCEPT ![p] = "read"]
    /\ UNCHANGED <<created, recorded, locks, todo, done, result, faults>>

\* Mutant of ReadVersions: the recorded versions are applied again.
ReadVersionsAll(p) ==
    /\ pc[p] = "read"
    /\ pc' = [pc EXCEPT ![p] = "apply"]
    /\ todo' = [todo EXCEPT ![p] = Version]
    /\ UNCHANGED <<created, recorded, locks, done, result, faults>>

ReadVersions(p) ==
    /\ pc[p] = "read"
    /\ pc' = [pc EXCEPT ![p] = "apply"]
    /\ todo' = [todo EXCEPT ![p] = Version \ recorded]
    /\ UNCHANGED <<created, recorded, locks, done, result, faults>>

\* Mutant of Conflict: somebody else has created the object, so the version counts as
\* applied.
ConflictSkipsVersion(p) ==
    /\ todo' = [todo EXCEPT ![p] = @ \ {Current(p)}]
    /\ done' = [done EXCEPT ![p] = 0]
    /\ UNCHANGED <<pc, result>>

\* The object exists: the transaction is rolled back and the error returned.
Conflict(p) == Return(p, "error")

\* The next statement.  It waits for another transaction that is creating the same
\* object, and fails when the object exists.
Exec(p) ==
    /\ pc[p] = "apply" /\ todo[p] # {}
    /\ done[p] < Stmts[Current(p)]
    /\ LET object == <<Current(p), done[p] + 1>>
       IN  /\ \A q \in Proc \ {p} : object \notin Open(q)
           /\ IF object \in created
              THEN Conflict(p) /\ UNCHANGED created
              ELSE /\ done' = [done EXCEPT ![p] = @ + 1]
                   /\ created' = IF Atomic THEN created ELSE created \cup {object}
                   /\ UNCHANGED <<pc, todo, result>>
    /\ UNCHANGED <<recorded, locks, faults>>

\* Mutant of Record: the version is recorded before its statements are executed.
RecordFirst(p) ==
    /\ pc[p] = "apply" /\ todo[p] # {}
    /\ recorded' = recorded \cup {Current(p)}
    /\ todo' = [todo EXCEPT ![p] = @ \ {Current(p)}]
    /\ done' = [done EXCEPT ![p] = 0]
    /\ created' = created \cup Open(p)
    /\ UNCHANGED <<pc, locks, result, faults>>

\* The insert of the version (a duplicate is ignored), and the commit.
Record(p) ==
    /\ pc[p] = "apply" /\ todo[p] # {}
    /\ done[p] = Stmts[Current(p)]
    /\ created' = created \cup Open(p)
    /\ recorded' = recorded \cup {Current(p)}
    /\ todo' = [todo EXCEPT ![p] = @ \ {Current(p)}]
    /\ done' = [done EXCEPT ![p] = 0]
    /\ UNCHANGED <<pc, locks, result, faults>>

\* All files are applied.
Applied(p) ==
    /\ pc[p] = "apply" /\ todo[p] = {}
    /\ IF LockTable THEN pc' = [pc EXCEPT ![p] = "locks"] /\ UNCHANGED <<todo, done, result>>
                    ELSE Return(p, "ok")
    /\ UNCHANGED <<created, recorded, locks, faults>>

\* CREATE TABLE IF NOT EXISTS tickr_locks.
CreateLocks(p) ==
    /\ pc[p] = "locks"
    /\ locks' = TRUE
    /\ Return(p, "ok")
    /\ UNCHANGED <<created, recorded, faults>>

\* A statement fails for another reason, the context ends, or the process dies; an
\* open transaction is rolled back.
Interrupted(p) ==
    /\ pc[p] # "idle" /\ faults < MaxFaults
    /\ faults' = faults + 1
    /\ Return(p, "error")
    /\ UNCHANGED <<created, recorded, locks>>

Step(p) ==
    /\ ReadVersions(p) \/ Exec(p) \/ Record(p) \/ Applied(p) \/ CreateLocks(p)
    /\ UNCHANGED dialect
Environment(p) == (Call(p) \/ Interrupted(p)) /\ UNCHANGED dialect

Next == \E p \in Proc : Environment(p) \/ Step(p)

\* Calls run to their end, and the processes of the deployment call again.
Spec ==
    /\ Init /\ [][Next]_vars
    /\ \A p \in Proc : WF_vars(Call(p) /\ UNCHANGED dialect) /\ WF_vars(Step(p))

-----------------------------------------------------------------------------
(* Properties *)

\* Postgres and CockroachDB: a version is recorded exactly when all of its objects exist, and
\* the objects of an unrecorded version do not, whatever call was interrupted.
AllOrNothing ==
    Atomic => \A v \in Version : IF v \in recorded THEN File(v) \subseteq created
                                                   ELSE File(v) \cap created = {}

\* A call that returns nil leaves the whole schema behind, also the parts another process
\* was creating at the same time.
OkMeansMigrated ==
    [][\A p \in Proc :
          pc[p] # "idle" /\ pc'[p] = "idle" /\ result'[p] = "ok"
          => recorded' = Version /\ created' = Object /\ (LockTable => locks')]_vars

\* ARCHITECTURE.md, storage contract: "`ApplyMigrations` is idempotent": repeating the call
\* brings the schema up to date, however often earlier calls were interrupted.  MySQL, whose
\* files are not transactions, is exempt: one interrupted file makes all later calls fail.
UpConverges == Atomic => <>[](recorded = Version /\ created = Object)

=============================================================================
