# tickr in TLA+

tickr is a transactional outbox: producers insert messages into `tickr_messages`, possibly
inside their own database transaction, and worker processes claim them under a lease, run
handlers and write the outcome back. Delivery is at least once. This directory models that
system from its Go code and its SQL, checks the models with TLC on small instances, and proves
with TLAPS, for every instance, their safety properties and that the storage implements an
abstract lease queue and the worker process an abstract contract. `PROJECT.json` lists
components, runs, mutated definitions that each property must reject, source lines of each
definition, findings, hazards and theorems.

    tlc -workers 2 -config Outbox.cfg MCOutbox     # one run
    tlapm OutboxProofs.tla                         # the proofs

## The system

| Part | State | Operations | Talks to |
|---|---|---|---|
| `client.go` | none | Enqueue, EnqueueBatch | storage, in or out of the caller's transaction; Notifier |
| `storage/postgres` | `tickr_messages`, `tickr_history`, `tickr_schema_version` | Enqueue(Batch), Claim, BatchSucceed/Succeed, Fail, ReleaseShutdown, Extend, Requeue, ReclaimExpired, PurgeTerminal, PurgeHistory, TryLeaderLock, Notify/Listen, ApplyMigrations, EnsurePartitions, DropPartitionsBefore | all others |
| `storage/mysql` | the same tables | the same without notifications and partitions; fences by `claimed_by` | |
| `storage/cockroach` | Postgres' tables and `tickr_locks` | own leader lock; the rest forwards to Postgres | |
| `engine.go` | semaphores, acknowledgement channel, goroutines, `stopping` | run, pollOnce, dispatch, handlers, lease extenders, ackFlusher, drain | storage |
| `worker.go` | `started`, `cancel`, `stopOnce`, background goroutines | Start, Stop, reclaimer, janitor and statistics loops | engine, storage |
| `registry.go`, `errors.go`, `retry.go`, `handler_typed.go`, `handlers/*` | handlers with options | classification of replies, outcomes, back-off | engine |
| `cmd/tickrctl` | none | migrate, list, requeue, drain, partitions | storage |
| metrics, tracing, logging, alerts, codecs | none that the queue reads | | |

What makes it hard: a lease can lapse while its handler runs, so several processes can hold a
copy of one message; acknowledgements are batched and may be lost; shutdown interrupts the claim
loop, the handlers and the flusher at any point; SQL statements read snapshots; background loops
of a fleet share locks whose sessions or leases can end; processes deploy, migrate and die
concurrently. The hazards in `PROJECT.json` name the line of each.

## Modules

Each component has one module; `MC*` modules only name constants and symmetries for TLC.

**Outbox** (Postgres adapter). `row` is the table, by message: status, attempt, whether it is due,
whether its lease is none, live or expired, and `claimed_by`. `held` is the copy
(`InboundMessage`) in each slot of each worker, with the chunk it is handled in: a batch handler
has one context and one extender for all its messages, and the first that finds no row cancels
the chunk (`CancelChunk`). Every statement is one action, atomic as in the
database: Enqueue, Claim (any eligible batch: `SKIP LOCKED` makes the choice arbitrary),
BatchSucceed, Fail, ReleaseShutdown, Extend, ReclaimExpired, Requeue. The exception is
`purgeSQL`, whose subquery takes no lock: `PurgeSelects` chooses ids (`doomed`) and `PurgeDeletes`
deletes the rows, requeued and claimed in between or not.
ClaimReturnsError, LoseOutcome and Crash leave rows claimed without a live copy. `owner`,
`tainted` and `lapses` are ghosts: the copy of the current claim, whether a requeue happened under
a running copy, and the number of leases that lapsed since.

**LeaseQueue** is what the queue promises: a message waits, is held by at most one holder, or is
settled; only its holder settles it, except a message that was revived while a copy of an earlier
claim was out (`spoilt`), and it is forgotten only if it was settled when it was `marked` for that.
**OutboxRefinement** maps Outbox to it. **OutboxProofs** holds the
theorems.

**OutboxMySQL** extends Outbox, keeps its rows and replaces the statements that differ: the claim is a
transaction whose history insert can be a deadlock victim, Succeed, Fail and ReleaseShutdown
compare `claimed_by` and not the attempt (BatchSucceed does), and the purge is atomic.
**Adapters** is a deployment on either of the two, with the
fairness of a running fleet, and `tickrctl drain`, which polls one `Stats` query until nothing
is CREATED, RETRYING or HANDLING. `tickrctl` speaks to Postgres only, and so does `DrainPoll`.

**Lease** follows one claimed chunk on a clock: the grant of the claim (whole seconds of the
database's clock on Postgres, the worker's clock on MySQL), the wait for a pool slot, the
extender with its ticker of capacity 1 and its passes over the chunk, storage errors, lost leases,
the attempt's context, shutdown, the outcome writes and the acknowledgement buffer, beside a
reclaimer that reads the database's clock. `late`, `cover`, `stopAt` and `noticeBy` are ghosts
that keep account of how much lease is left at the next renewal.

**History** (Postgres `tickr_history`): statements in two steps, a snapshot of `MAX(seq)` and the
insert, with the unique index on `(message_id, seq)` deciding which one fails.

**Engine**: the claim loop, dispatch with the pool and per-type semaphores, single and batch
handler goroutines, `resolveOutcome` and `commitOutcome`, the acknowledgement channel and its
flusher, and `drain` with its closer goroutine and its grace period. Steps are the points where a
goroutine can be interrupted. Storage is reduced to what one worker sees of its own messages.
The configuration `conf` is a variable that Init chooses and no step changes.

**WorkerContract** is what a worker process promises the queue: it is answerable for a message
from the Claim that returns it until it reports one outcome of it; it asks for another attempt
only within the budget and gives an attempt back only while leaving; it takes nothing into its
custody then, and is over with empty hands. **EngineRefinement** maps Engine to it: custody is
the union of all places of the process a message can be in, the phase is decided by the context
and by what `run` returned. A `run` that gave up after the grace period is not over: its
goroutines go on. **EngineProofs** and **EngineContractProofs** hold the theorems.

**PollLoop**: the waiting in `run`: the timer, back-off, notifications, the coalescing channel of
`Listen` and its closing. **Lifecycle** runs it inside Start: Start and Stop of one Worker from
several goroutines, with `startMu`, `stopOnce`, the background goroutines and `bgWg`. Stop reads
`w.cancel` without a lock, calls it, and only then is `stopOnce` used up: three steps, with a second
Stop beside them. `crew` is what the engine has started besides its loop, the handlers and the
flusher: a drain that runs out of its grace period returns an error and leaves them. Nobody waits for
the listener's goroutine, which forwards what has arrived even after Start returned.

**Producer**: Enqueue and EnqueueBatch, in auto-commit or in a caller's transaction, on Postgres
with the plain or the partitioned schema, or on MySQL. Inserts wait for a rival's transaction on
the unique key, and the server ends a circle of waits at one victim's expense; Postgres then
refuses the rest of the transaction, MySQL's loop goes on outside of it. After a conflict the
row is looked up, in a MySQL transaction on the snapshot of its first read (REPEATABLE READ).
The two notifications, of the adapter and of the client, are delivered at commit.

**Attempts**: one message from Enqueue to its terminal status. A reply of the outside world
becomes an error (a set of marks that `errors.As`/`errors.Is` find), the error an outcome, the
outcome a delay. Durations have a small width and overflow like `int64`; the conversion of a too
large `float64` is either of the results that amd64 and arm64 produce, in both conversions of
`NextDelay`, before and after the jitter. A lease can lapse under the attempt (`Lapse`), which
leaves it counted. A shutdown has two steps: the
context ends, and later `drain` sets `stopping`; a handler may return in between.

**Retention**: `tryPurge`'s phases, `purgeHistory` and the delete statements of both kinds over
a clock. **LeaderLock**: `TryLeaderLock` and its unlock, as a session lock (Postgres, MySQL)
or as a row with a lease (CockroachDB). **Janitor** composes them: the janitors of several
workers run their passes under the lock, which they may lose in the middle. Each phase deletes
SUCCESS and DEAD rows alike, so `ShorterAge` is what a row can count on. One clock stands for the
database's and the workers'.

**Migrations**: ApplyMigrations, transactional per file or statement by statement.
**Partitions**: EnsurePartitions and DropPartitionsBefore over months. A call fails when the
default partition holds a row of the month (`EnsureFails`), or when another call creates the
partition at the same moment (`EnsureCollides`).

Engine and Outbox are linked by their abstractions rather than by a product: WorkerContract says
what Engine does with a claimed message (one report: done, dead, another attempt, given back,
or lost), and each of these is what Outbox, and LeaseQueue above it, allows a holder to do in any
order. That the two contracts fit is read off the two modules and not checked by a run. Where a property holds of some dialects only, the dialect is a variable that Init chooses.

## Runs

| Run | Shows | Instance |
|---|---|---|
| outbox | a copy whose write matches the row owns the current claim, and the owner's write always matches; extra deliveries are paid for by lapsed leases; an attempt is cancelled only when a claim of its chunk is over; Outbox implements LeaseQueue | 2 messages, 2 workers with 2 copies each, batches of 2, 3 disruptions |
| adapters | on Postgres and on MySQL every message reaches SUCCESS or DEAD or is deleted; what `drain` calls drained stays settled | 1 message, 2 workers with 2 copies each, 3 disruptions, deadlock victims |
| lease | a row is reclaimed under its worker only when its lease had too little left; long handlers keep their rows; a loss ends the attempt's context in time | chunk of 2, a second of 4 units, leases of 3, 6 and 9 units, clock offsets of 0, 2 and -1, 9 units of time, 2 errors |
| history | one success row per settled delivery, a row for each terminal status, refusals only after a lapse or a requeue | 2 processes, 2 messages, 3 claims, 2 events |
| engine | no send on the closed channel; tokens and claims conserved; nobody waits for somebody who waits for them; Engine implements WorkerContract (a drain within the grace period leaves nothing); every claimed message leaves the process; a cancelled worker returns | 3 deployments of up to 3 messages: narrow, wide, direct acknowledgements |
| worker | no loop runs after Start returned, and no handler or flusher after it returned nil; no notification is lost; due rows get claimed; the caller's context, and Stop on a running worker, end Start | 2 Starts, 2 goroutines that call Stop repeatedly, 1 background loop, 1 row, 1 failing claim |
| producer | a key is unique; a duplicate names its twin; rows and signals exist only for committed transactions; calls end, also after deadlocks | a single call and batches of 3 and of 2 with the keys in opposite order and one key twice, two of the three calls in transactions, 3 schemas, 1 error |
| attempts | exact budget of attempts, one more for each lapsed lease; waits follow the policy, also past the overflow; cancelled attempts are given back | 6-bit durations, up to 6 attempts, 2 shutdowns, 2 lapsed leases |
| janitor | a leader's lock is not freed or taken by another; on MySQL and CockroachDB nothing is deleted before the shorter of the two retentions; everything expired is deleted | 1 message, 2 workers, lease of 1 tick, clock to 4, 1 error |
| migrations | Postgres, CockroachDB: all or nothing per file, repeated calls converge; all dialects: nil means a complete schema | 3 processes, 2 files, 2 interruptions |
| partitions | drops take only rows older than the cutoff; with a successful call in every month no row lands in the default partition | 3 months, 1 message, 2 maintainers |

Why the bounds are enough: the fence needs a stale copy, a newer claim and a release between them,
which takes 2 holders and 3 disruptions; a purge that meets a newer claim takes the purge, a requeue
and a claim in between; a chunk of two has a message that is lost and one that is not; the engine's blocking needs one message more than the
pool and one more than the channel; a race of keys needs a winner and a waiter; two passes of the
janitor overlap once a lease of one tick is over, and a batch of 1 is full with 1 message; a
partition needs a month before and after; two batches with two keys in opposite orders are the
smallest deadlock of inserts; a chunk of two has a row behind the one whose Extend fails, and
9 units are three intervals of the longest lease. Run lease stops at the first late pass
(`InTime`), after which its properties say nothing. Bounds are constants (`MaxDisruptions`,
`MaxErrors`, `MaxFaults`, `MaxStops`, `MaxLapses`, `MaxClaims`, `MaxEvents`, `MaxTime`, `Horizon`, `MaxRows`). Where
deadlock checking is off, messages are enqueued once, calls made once or clocks bounded, so a run
ends when all is settled, or every Start has returned. Migrations and Partitions check deadlock.

One run must find a violation: it states a sentence of the repository that the code does not
keep. `janitor_requeue`: Postgres' delete removes a row that was requeued after its subquery had
chosen it.

## Divergences

Where code and documentation disagree; the findings in `PROJECT.json` quote both. The ones marked
(e) are exemptions that the named property of a passing run had to make; the ones marked (r) have
a run. The others were met as counterexamples to stricter properties on earlier forms of
these models and are recorded without a run.

- Outbox: (e) `StaleCopyCannotSettle`: a requeue resets the attempt that the fence compares, so
  an old copy settles the new claim; (e) `AttemptsAccounted`, `BudgetIsExact`: reclaimed messages
  are delivered beyond `max_attempts`; (e) `ImplementsLeaseQueue`: a message that was chosen by a
  purge is deleted although it was requeued meanwhile.
- OutboxMySQL: an old copy settles its worker's newer claim; a rolled back claim is returned.
- History: (e) `RefusedOnlyAfterDisturbance`: a history conflict fails a committed claim;
  reclaiming writes no history.
- Lease: (e) `LongHandlersAreSafe`: leases below a second are zero seconds on Postgres, and an
  offset of the clocks shortens every renewed lease.
- PollLoop: a closed notification channel makes the loop poll without pause.
- Lifecycle: (e) `StopEndsStart`: a Stop that finds no `w.cancel` uses up `stopOnce`.
- Producer: (e) `KeyUnique`: batches duplicate keys on the partitioned schema; (e)
  `OutboxGuarantee`: MySQL's batch goes on after a deadlock, outside the transaction that is gone;
  a MySQL look-up on an old snapshot is an error instead of `ErrDuplicate`; a failed notification
  fails the enqueue; inserted items are reported as nil.
- Attempts: (e) `ShutdownBurnsNothing`: a cancelled gRPC call, and a handler that returns
  before `drain` sets `stopping`, burn the attempt; (e)
  `RetryAfterHonored`: a large Retry-After wraps; `WithMaxAttempts` is never used.
- Janitor: (r) the delete of a requeued row; (e) `LockedPurgesOnlyExpired`: DEAD rows are deleted
  at the age of SUCCESS rows, also under a negative Dead age; the lock row's lease is not renewed.
- Migrations: (e) `UpConverges`: an interrupted MySQL migration fails for ever.
- Partitions: rows in the default partition block EnsurePartitions, and of two simultaneous calls
  one fails; unsettled messages are dropped.

Smaller ones, not in the findings: a released message becomes RETRYING even if
it was CREATED; the reason of `Skip` is not written to the history; an empty idempotency header
name means the default and cannot switch forwarding off; `failNoHandler` is unreachable; the
product with the jitter in `NextDelay` overflows for a maximum of more than 240 years (at the default
jitter), and the wait is then none or the maximum ((e) `WaitFollowsPolicy`).

## Fairness

Weak fairness is assumed of what a goroutine does by itself: polling, a handler's return (the
attempt timeout or the user's code ends it), the flusher, the closer, the janitor's and
reclaimer's ticks, time (leases lapse, scheduled rows become due, the clock), steps of a running
database call. In Producer the server also ends every deadlock, and callers end their transactions
once the call has returned. Nothing is assumed of crashes, errors, notifications, producers or
operators; they are bounded where liveness needs an end of disruptions. Lifecycle assumes strong fairness of
a loop's exit: with both cases of the `select` ready again and again, Go picks at random. In
Migrations the deployment calls again after an error, as an orchestrator restarts a process.

## Proofs

Eight modules prove what the runs check of safety, for every value of the constants that
satisfies the named assumption of the module. Each has an inductive invariant, one lemma that every
step keeps it, with a step per action, and theorems that follow from it. The bounds on
disruptions, errors and time are arbitrary naturals in the proofs.

**OutboxProofs** (`OutboxAssumption`: identifiers differ from NULL, batch and maximum are positive).
`FenceInvariant` is the inductive invariant `FenceInv`. `StaleCopyCannotSettle` is not inductive: a
release decrements the row's attempt, after which an older copy might match a later claim. It is
strengthened by: claim columns agree with the status; the owner's copy matches its row; no copy is
ahead of its row (`CopiesBehindRow`); two copies of a message have different attempts
(`CopiesDistinct`), so that the released attempt number belonged to the releasing copy alone.
Messages requeued under a running copy (`tainted`) are exempt, as they must be. `Fencing`,
`OwnersWriteLands` and `ClaimColumnsAgree` are its consequences. `NoSpuriousCancel` is relative to
it and rests on `CancelInv`: besides the property, `Chunked`, that a copy belongs to its own chunk
and a chunk to one worker, because the extender's fence is the worker's. `DeliveriesAccounted` rests on `AccountedInv`. `Refinement` is
`Spec => ImplementsLeaseQueue`: under `FenceInv` every action is the step of LeaseQueue of its lemma
(`PutStep`, `TakeStep`, `SettleStep`, ...) or invisible (`BecomeDue`, `LeaseExpires`, `Extend`).
`SettleStep` is where the fence is needed: the rows a settling statement matches are exactly those
its copies own, and spoilt ones. The two halves of a purge are `MarkStep` and `ForgetStep`.

Its last part is about Adapters, a deployment on either database (`MySQLAssumption` besides).
`FenceInv` does not hold on MySQL, where an old copy can settle its worker's newer claim.
What does is the part about owners: the write of a current claim's copy lands
(`OwnersWriteLandsDeployed`), because a statement that changes a row under a foreign claim ends
that claim (`SharedOwnerStep`, `MySQLOwnerStep`). `DeploymentInv` has that and `CancelInv` for both
databases, and `FenceInv` for Postgres. `NoSpuriousCancelDeployed` rests on it. `DrainedStaysSettled` rests on
`QuietStays`: no statement of a worker, the reclaimer or the janitor, late writes included, makes
work out of a settled row; only Enqueue and Requeue do. `DeploymentKeepsQueue` is the refinement
of LeaseQueue by a deployment whose initial state chose Postgres; on MySQL it does not hold,
because Claim can return copies of a claim that was rolled back.

**LeaseProofs** (`LeaseAssumption`). `LeaseInv` relates `claimed_until` to the ticker: while no pass
was late, the lease of an owned row reaches `cover` beyond the tick that renews it next, which is
`next`, or the one before for a row whose part of the current pass is still owed (`Pend`); the
same difference bounds when a loss is noticed. `LeasesKept`, `LongHandlersSafe` and
`LossesNoticed` follow, for chunks of any size and any leases and clock offsets.

**ProducerProofs** (`ProducerAssumption`). `ProducerInv` says for each call where its rows, its
answer, its snapshot and its notifications are at every point of the call, and that keys are
unique. `KeysUnique`, `DuplicatesNameTwins` and `OutboxGuaranteed` follow for any number of calls
and batches of any length.

**MessageProofs** joins two components that share no state. Attempts (`AttemptsAssumption`): `Budget`
says that a row that can be claimed has an attempt left, its own or one for a lapsed lease; `BudgetExact`, `ShutdownsBurnNothing`,
`RetryAfterKept` follow. `WaitsFollowPolicy` is about the back-off: whatever the overflowing
conversion gives, the guard of `NextDelay` makes `Planned` of it (`PlannedInRange`), and the jitter
stays within its bounds unless the product leaves the range of a Duration, when only the clamp is
left (`NextDelayBounds`). The maximum is any that fits a Duration. The provers know the operator `^` only by its type, so the theorem has
`PowersOfTwo`, the two equations that define the powers of two, as a hypothesis.

History (`HistoryAssumption`): `HistoryInv` says that ended messages have their rows, and that, as
long as no lease lapsed and nobody requeued, every copy is its row's claim, no message has two
copies, and a running call has seen all rows of its messages (`Orderly`). The last is why the
insert of `MAX(seq) + 1` cannot collide: `UndisturbedNeverRefused`. `EndsAreRecorded` needs no
order, only that the update and its row commit together (`CommitRecords`, `RecordedKept`).

**EngineProofs** (`EngineAssumption`). `EngineInv` has five parts: the types; `Conserved`: a claimed
message is in exactly one place, todo, chunk, handler, channel or buffer; `Fibers`: a
handler goroutine is known by its messages and the attempts they were claimed at, which is what
makes counting goroutines the same as counting tokens; `Draining`: how far
the loop, the closer and the flusher are decides what is empty; `Counted`: the semaphores equal the
numbers of goroutines that hold a token. `CloseIsSafe` (no send on the closed channel),
`TokensNeverLeak`, `ClaimsNeverLost` and `DrainIsClean` follow for any messages, types, limits and
batch sizes. `NoSendOnClosed` alone is not inductive: that the closer has seen no goroutine left
says nothing unless the loop has stopped starting them.

**EngineContractProofs** goes on from there. `NoWaitInVain` is the safety half of the absence of deadlocks: behind every full semaphore, full
channel and wait of `drain` somebody can move who frees what is waited for. It needs `Counted` (a
full semaphore has goroutines behind it) and `Waiting`, which ties the flusher, the closer and
the channel to the configuration. That whoever can move does, and so all waits end, is
`EveryMessageLeaves` and `ShutdownEnds`, which TLC checks.

`EngineKeepsContract` is `Spec => ImplementsContract`. `CustodyIsClaimed` is its key: by `Conserved`
the custody is exactly the set of HANDLING rows whose write did not fail, so that a step's effect
on custody can be read off its effect on the rows. `PollTakes` maps a Claim to Take or, when it
returned an error, to TakeUnheard; `SucceedReports`, `FailReports` and `ReleaseReports` map the
writes to Report; moving a message between places of the process is invisible (`CustodyMoves`);
`OverIsOver` says that nothing happens after `run` returned nil, and the step to it needs
`Draining`. `TypeCorrect` bounds the pool, the attempts of rows and handlers and the rest of the
state; its inductive part is `Bounded`: a claimable row has an attempt left, a claimed one has used one.

**SchemaProofs** joins two components that share no state. Migrations (`MigrationsAssumption`):
`MigrationsInv`: recorded versions are complete, and what a call no longer has to do is recorded.
`MigrationsAtomic`, `NilMeansMigrated`. Partitions (`PartitionsAssumption`; `WritesInPartitions` for
`Ahead >= 1`): whoever ensures a month's partitions has, up to the loop's index, all that are not
in the past; a call that collides leaves this as it is. `DropsAreOld`, `WritesInPartitions`.

**WorkerProofs** is about what `worker.go` runs around the engine, in two parts that share no state.
Start and Stop (`LifecycleAssumption`). `LifecycleInv`: where the one accepted Start is decides what
may run, the engine's goroutines end only in the drain, `run` returns nil only when they have
(`CrewInv`), and between a Claim and the wait an announced row is on the wire or in the channel.
`QuietWorker`, `WakeupsKept`. `ShutdownsTakeHold` is the safety half of `ParentEndsStart` and
`StopEndsStart`: a request to shut down has cancelled the worker's context or is on its way into
`stopOnce`. Its invariant `ShutdownInv` adds that `w.cancel` is set once, by the one Start that was
let in, before a Stop can ask for it (`CancelSetOnce`), and that `stopOnce` lets one caller in at a
time (`OnceInv`).

The janitors (`LeaderLockAssumption`: a finite fleet and more holder ids than workers, as the code
draws a fresh one each time; `RetentionAssumption`). `LockInv`: no two workers hold the same holder
id or session; `PassInv`: the cutoff of a running phase is at least as old as its age.
`LeadersKeepLock`, `LockedPurgesAreSafe`.

tlapm 1.4.5 mistranslates `[f EXCEPT ![m].a = x, ![m].b = y]` (it proves that the second
clause is and is not applied). Modules under a theorem write `![m] = [@ EXCEPT !.a = x, !.b = y]`,
and the proofs were seen to fail on deliberately broken actions.

Only model-checked: the liveness properties (the provers do not treat fairness) and, since it is
violated, `PurgesOnlyExpired`. Every invariant and every action property of a passing run
is stated by a theorem. The temporal formulas ImplementsLeaseQueue and ImplementsContract are
safety specifications without fairness, so their refinement is within the provers' reach.

## Not modelled

Reads that nothing depends on (`History`, `ListDead`, `Stats` beyond what `drain` adds up) and
`tickrctl`'s printing; metrics, tracing, logging and alerts, which never change the queue; codecs;
header and metadata forwarding; the examples. The handler registry is a map under a mutex that is
filled before Start: its options are constants of Attempts and Engine, and registering on a
running worker, which the engine reads once per poll, is left out, as is `failNoHandler`, which
no claim can reach. Retention and Janitor have one clock. CockroachDB is taken to complete the
schema changes it has committed: it fills the index of migration 0002 in a job after the commit, and
what follows from a job that fails is left out.

## Plan

Done: Outbox with its abstraction, Engine, Producer, Retention, LeaderLock, PollLoop,
OutboxMySQL, History, Migrations, Partitions, Attempts, Lifecycle; the compositions Adapters, Janitor,
and Lifecycle with PollLoop; then the MySQL producer, Lease, `drain`, the two steps of a shutdown,
the proofs of all safety properties with the refinement of LeaseQueue, and the refinement of
WorkerContract by Engine.
Next: a module in which several workers, each known only by WorkerContract, share one LeaseQueue.
