# taskflow in TLA+

taskflow is a job scheduler on Postgres: an API stores jobs, an elected scheduler
replica turns due jobs into runs, workers lease runs and execute them, janitors
take runs back from workers that died. This directory models the parts whose
correctness depends on interleavings, crashes, lost answers and time, checks them
with TLC on small instances, and proves with TLAPS, for every value of the
constants, the safety properties the passing runs check.

## The system and its parts

| part | code | module |
| --- | --- | --- |
| tables `job_runs`, `dead_letters` and the statements on them | `internal/store/postgres.go`, `migrations/0001_init.sql` | `JobRuns` |
| workers: `leaseLoop`, `executeOne`; janitor | `internal/worker/pool.go`, `janitor.go` | `WorkerPool` |
| what workers promise about a run | (abstract) | `RunLifecycle` |
| leader election by advisory lock | `internal/lock` | `Elector` |
| promotion of jobs to runs, schedules, dependencies | `internal/scheduler` | `Promoter` |
| schedulers and workers together | `internal/scheduler`, `internal/worker` | `Taskflow` |
| reads through a streaming standby | `internal/store/postgres.go` (`readPool`) | `ReadReplica` |
| Redis cache in front of the store, pause and resume | `internal/cache`, `internal/api/handlers.go` | `CacheAside` |
| idempotent creation of jobs | `internal/api/handlers.go`, `internal/store` | `JobApi` |
| rate limiter | `internal/api/ratelimit.go` | `RateLimiter` |
| schema migrations at start | `internal/store/migrate.go`, `cmd/*/main.go` | `Migrations` |
| processes from start to serving | `cmd/api/main.go`, `internal/api/router.go` | `ApiServer` |

All parts share the database and nothing else. The promoter inserts a run; the
workers move it through `pending`, `leased`, `running` to `succeeded`, or back to
`pending` with a delay, or through `failed` to `dead` with a dead letter; the
promoter reads these states to decide about dependants and the next fire. The API
servers write jobs and read everything, through a cache and a standby if these are
configured; workers and schedulers use neither. Every process migrates the schema
before it does anything else.

## Modules

**JobRuns** has one operator per store method that writes `job_runs` or
`dead_letters`. Rows keep `status`, `attempt`, `scheduled_at` and
`lease_expires_at`; the two times are relative to `now()`, so time is one operator
(`Aged`) and no clock has to be bounded. `MaxSmallint` stands for the range of the
SMALLINT column `attempt`.

**WorkerPool** has one program counter per `leaseLoop` goroutine. A step is one
statement or transaction as the database serialises it, or a handler's return.
`LeaseNextRun` is two steps because the row lock between them is visible
(`SKIP LOCKED`). Errors of store calls are logged by the code, which goes on as if
they had succeeded: every call has such an alternative (`StoreError`). The answer
of a committed lease may be lost (`LeaseAnswerLost`). `Stop` is a crash or a
shutdown: a shutdown cancels the context of all store calls and leaves the rows as
they are too. `reclaims`, `requeued` and `buried` are history.

Two specifications share these actions. `Spec` lets time pass at any moment:
workers may be arbitrarily late. `TimelySpec` lets it pass only while every
goroutine is idle or in a handler with time left: store calls take no time and
handlers honour their context, as the registered ones do.

**RunLifecycle** is the abstract specification: a run has at most one owner, only
the owner moves it to an end, it is taken back only from nobody, ends are final,
one letter per dead run. `WorkerPool` instantiates it with the goroutines that hold
a run as its set of owners.

**Elector** separates what a replica remembers (`conn`, `isLeader`) from what the
server knows (`lock`). A connection may be lost on either side first: the session
ends at once, or lingers as `DETACHED` until the server notices.

**Promoter** runs the pass of every replica statement by statement: `ListJobs`,
`HasActiveRun`, `LatestRunForJob` with `NextRunDue`, one `LatestRunForJob` per
dependency, `CreateRun`. Clients create, pause and resume jobs, workers end and
requeue runs, in between. A cron schedule is its period; runs are active, succeeded
or failed, which is all the promoter tells apart. `fired` (the `scheduled_at` of the
INSERT), `late` and `drops` are history.

**Taskflow** composes the two over one `job_runs`: it extends `WorkerPool` and
instantiates `Promoter`, with the promoter's view of a job's runs as a query over
that table (`Runs`). `InsertRun` is the joint step; every other step is one half's
with the other half's variables left alone, and time passes for both. `Promoter` by
itself assumes that workers only end or requeue active runs (`RunEnds`,
`RunRequeued`). `ImplementsPromoter` discharges this assumption for timely workers.
It is false for late ones, which revive ended runs.

**ReadReplica** is the commits of the primary and the prefix a standby has replayed.
The modules of the API that read rows extend it. `replicaPool` says whether
`EnableReadReplica` was called; both values are initial.

**CacheAside** is one key of the cache, either a job's or a run's: they differ in what is
SET and in who writes. A step is one call to Redis or the database. Each API process
has a singleflight (`flight`) that requests join; errors of Redis are ignored as in the
code. Time passes only while the standby is behind by less than `Lag` and no flight is
about to SET a version that was overwritten `Lag + Slow` ago or earlier.

**JobApi** is `createJob` in three steps (look-up, INSERT, dependencies and COMMIT) with
clients that retry. A COMMIT may take effect and look like a failure. All that the
validation of a body does is one choice (`Invalid`).

**RateLimiter** has one action per request, since `allow` holds its mutex throughout.
Tokens are counted in fractions, which stand for the code's `float64`. `Forget` is the
end of the process that holds some of the buckets.

**Migrations** is `RunMigrations` statement by statement. A process that dies leaves its
session on the server, with the lock and perhaps with a COMMIT that was received.

**ApiServer** composes the last two: a process migrates, then serves with a limiter of
its own, whose buckets die with it.

**MCWorkerPool**, **MCPromoter**, **MCTaskflow**, **MCCacheAside**, **MCJobApi** and
**MCApiServer** give the constants of the runs.

## Runs

| run | question | instance |
| --- | --- | --- |
| `pool_safety` | what holds however late anybody is; no row stays leased | 3 goroutines of 2 workers, 1 run, 2 faults |
| `sched_cron` | leadership, double fires, one fire per period, pausing | 2 replicas, 1 recurring job, 3 instants, 2 lost connections, 1 fault |
| `sched_live` | one-shots and dependencies; no promotable job is forgotten | 2 replicas, chain of 2 jobs, 1 lost connection, 1 fault |
| `sys_timely` | do schedulers and timely workers implement `Promoter` and `RunLifecycle`; is every promotable job run to an end | 1 replica, 2 workers, a recurring job and a one-shot after it, 2 instants, 1 disturbance of any kind |
| `cache` | how stale an answer can be; cached runs need no invalidation; the cache converges, every request is answered | 2 processes, 3 requests, a job or a run of 3 versions, with and without standby, 1 fault |
| `api` | one job per key, agreeing answers, what a 409 means; who retries is told the job | 5 clients: 2 with one key, 1 dangling, 1 invalid, 1 without key; with and without standby, 1 fault |
| `serve` | migrations once, in order, no collision, before serving, by everybody; the bound of every window, and only that; the bound of the fleet | 3 processes, 2 of them API servers, 2 directories, 2 faults, 1 client, burst 2, rate 2/3, 4 instants |
| `pool_overlap`, `pool_final`, `pool_orphan`, `pool_failed`, `sched_doublefire` | statements of the documentation the code does not keep | see Findings |

Bounds. Two goroutines on one run are enough for a claim race and for an overtaken
worker; the third in `pool_safety` allows a second overtaking and a letter race. Two
attempts reach both branches of the retry decision, and `MaxSmallint` 4 lets
reclaims push `attempt` to the column's limit. `FaultLimit` bounds stops and failed
calls, `DropLimit` lost elector connections; one of each already reaches every
action, two let them combine. A lease and a timeout of one tick distinguish
before, at and after expiry. In `sched_cron` the clock has three values so that two
fires lie apart, and replicas are symmetric. `sched_live` stops the clock at once,
which one-shot jobs do not need.

In `sys_timely` `Disturbances` bounds the faults of both halves together: one at a
time, of every kind, wherever it may strike. The promoter's clock stops at 1 and time
goes on for the workers (`LongTick`), so that their leases expire; no worker has a
handler for the second job, so that one run dies. Three versions in `cache` let a
flight fetch one, an update write the next and another overwrite that, or a run
end; two requests meet in one flight while the third is in another process. In
`serve` a refill is two thirds of a token, so fractions accumulate and the cap cuts
them off; two faults let a process die with a COMMIT on its way and its successor
fail or lose its unlock.

Fairness. Polling loops and tickers run for ever, `executeOne` and a pass run to
their end, a stopped process is restarted by its Deployment, time passes in
`WorkerPool`, the server ends sessions whose client is gone. In
`ApiServer` every process is started again and takes its steps, and sessions end; a
process waiting for the lock needs no more than weak fairness because others serve
once they have had it. In `CacheAside` a handler once entered goes on (each call
returns or fails), Redis expires keys and the standby replays; nobody has to send. In
`JobApi` clients repeat a request that was not settled, and an INSERT that waits for
another transaction of its key, which may come and go, is strongly fair: Postgres
wakes the waiter when that transaction ends. `Taskflow` takes the fairness of its
halves. Nothing is assumed of clients otherwise, of the promoter (in `WorkerPool`), of
workers (in `Promoter`) or of faults, which are finitely many.

## Findings

- `pool_overlap`: with a timeout longer than the lease (the defaults are 300 s and
  30 s, and `ExtendLease` has no caller) two workers execute a run at once;
  docs/ARCHITECTURE.md:179-181 says they do not, and store.go:48-49 that the lease of
  a slow worker is extended.
- `pool_final`: the writes of an overtaken worker check neither status nor owner, so
  a terminal run changes; cache.go:18 says it never does.
- `pool_orphan`: `MarkRunning` after a reclaim leaves `running` with a NULL lease. If
  that worker stops, neither the lease query nor the janitor matches the row again.
- `pool_failed`: a stop between `FailRun` and `MarkDead` leaves `failed` for ever.
- `sched_doublefire`: a leader cut off in the middle of a pass and its successor both
  create a run; lock.go:1-3 says promotion must not double-fire.

The properties that hold say how far this goes. `FinalUnlessReclaimed`, `SoleExecutor`
and the budgets bound the damage by the number of reclaims, `DoubleFireBudget` and
`OneShotBudget` by the number of lost connections, `BoundedStaleness` the age of what a
cache serves by the TTL, the lag and the delay of a flight. And with
`Timeout <= LeaseDuration` and timely workers the first two findings cannot occur
(`NoConcurrentExecutionTheorem`, `TimelyRunsAreFinal`).

## Proofs

The proofs hold for every value of the constants: any number of workers, goroutines,
runs, jobs, replicas, clients, processes and requests, any delays, rates and
lifetimes, any bound on faults. They assume only what the named ASSUMEs say of the
constants, and what a theorem states as its hypothesis. Each rests on an inductive
invariant; the theorems about properties follow from it.

**WorkerPoolProofs**, whatever the timing. `IInv` adds to the types: open claims are on
distinct pending rows; attempt numbers in flight are distinct and at most the row's;
whoever executes a run that was never reclaimed has its latest lease and the row is
where that goroutine left it. The last part makes the rest inductive: the unguarded
writes could hit another worker's row unless one knows that, without a reclaim, there
is none. `TypeOK`, `AttemptIsFencingToken` and `SoleExecutor` follow;
`FinalUnlessReclaimed` and `RowsConsistent` follow from it and a summary of what a step
may do to a row (`RowSteps`).

The same module, timely workers. `TInv` adds to `IInv`: a run in flight has one
executor (`SingleOwner`), its row is where that executor left it, and its lease lasts
at least as long as the executor's deadline (`Backed`). The hypothesis
`Timeout <= LeaseDuration` is used where the handler starts: the lease is still whole
then, because no time passed since the claim. The janitor then finds no expired lease
of a run in flight (`BackedNotExpired`), so nobody is overtaken and no unguarded write
hits another's row. From this: `NoConcurrentExecution`; `TerminalIsFinal`
(`TimelyRunsAreFinal`); one letter per dead run (`TimelyOneLetter`); and the refinement
of `RunLifecycle`, in which every step of the pool is a step of the life cycle or
changes neither status, owners nor letters (`LifecycleTheorem`).

**RetryBudgetProofs.** `BInv` counts: a lease follows the creation, a requeue or a
reclaim; a requeue spends an attempt number below `max_attempts`, a letter one that is
not, and no number is spent twice because it is a fencing token. `RetryBudget`,
`LetterBudget` and `LetterMeansExhausted` follow by cardinality.

**PromoterProofs.** `PInv`: leadership remembered over a live connection implies the
lock; while no connection was lost a pass implies leadership; a pass has seen the
dependencies it no longer has to look at succeed, and a success is never undone.
`LeadershipExclusive` and `DependenciesFirst` follow. `ApartInv` adds, for
`FiresApart`: no run is scheduled before it fired, and while no connection was lost
what a replica found due still is. A retry only moves `scheduled_at` forward, and
`NextFire` is monotone, so it can only put the next fire off.

**FireBudgetProofs.** `BudgetInv`: at most `drops` replicas are in a pass without holding
the lock; a job's active runs and the replicas that have read that there is none and
may still insert one are together at most `1 + drops`; so are the fires of a one-shot
with the replicas that found it due, and the runs after a pause with the replicas that
still have the job on their page. A replica moves its part of the budget to the
table when it inserts, and gets a new part only by reading that the table uses none
of it. `DoubleFireBudget`, `OneShotBudget` and `PauseSlack` follow.

**TaskflowProofs.** A pass began no later than now (`Clocks`), so what the promoter
inserts is a run that `WorkerPool` allows for: the system's workers are those of
`TimelySpec` (`SystemRunsWorkers`), and `NoConcurrentExecution` and
`ImplementsLifecycle` hold of the system. `SystemInv` adds what ties the two views of
`job_runs` together: the runs of a job are numbered without gaps, so that the newest is
the last (`Numbered`); `scheduled_at`, which the workers keep relative to `now()`, and
`planned`, which the schedulers see, are the same time, up to the bound of the
promoter's clock (`PlanKept`); whoever works on a run found it due (`HeldDue`). A step
of a worker then ends an active run, requeues one to now plus the delay, or shows the
schedulers nothing: `SystemImplementsPromoter`. The prover cannot cite the theorems of
an instantiated module, so that `DoubleFireBudget` and the others hold of `Runs` is
left to the reader: it is PromoterProofs and FireBudgetProofs applied to this
refinement.

**ApiServerProofs.** Migrations: who is past the lock holds it and has dealt with a
prefix of its directory; a COMMIT in flight belongs to the detached session that holds
the lock and its version is new and next in order. `ExactlyOnce`, `NoCollision`,
`InOrder` and `ServesMigrated` are parts of it. Limiter: in every window what was
admitted and what is left in the bucket are together no more than the bound (`Budget`),
and in the window from the request at which the bucket was last full they are exactly
the bound (`Tight`). `WindowBound` and `RefusedAtTheBound` are the two sides. Fleet: the
composition implements both parts (`ServerImplements`), so it keeps all of this
(`ServerKeepsPromises`). For `FleetBound`, what a client was let through and the tokens
it could use now on the servers that serve are together within the bound (`Account`): a
request moves a token from one to the other, a start adds a full bucket, a tick a
refill per server. The sum over the servers is the cardinality of a set (`Pile`), since
a sum over a set is a recursion the prover cannot reason about.

**CacheAsideProofs.** `Young`: the standby is at most `Lag` old, what a flight is
about to SET at most `Lag + Slow`, and an entry's age and its remaining life are
together within the bound; `Ages`: older versions are at least as old, so replaying a
commit never makes it worse. `BoundedStaleness` follows. `FinalEntries` is proved from
the hypothesis that a cached status of a run has no successor (`RunsEnd`), which is
what `TimelyRunsAreFinal` says of timely workers and `pool_final` refutes for others.

**JobApiProofs.** A transaction past its INSERT is the only one of its key and no job
has the key; what requests were told is committed under their key; without a standby,
a request past its look-up began when no job had its key. `OneJobPerKey`,
`AnswersAgree` and `ConflictMeansRace` follow.

The type invariants that runs check are proved with the rest.

Only model-checked: everything under fairness (`LeasedIsLeft`, `PromotableIsPromoted`,
`PromotableIsRun`, `EventuallyServes`, `CacheConverges`, `EveryRequestAnswered`,
`RetrySettles`), which TLAPS does not reach here.

## Not modelled

Authentication, configuration, logging, metrics and tracing have no state others
depend on. The worker registry has one writer per row and no reader but
`GET /v1/workers`. `listJobs`, `listJobRuns` and `listWorkers` are one SELECT each and
change nothing; paging over them is left out. The arithmetic of the delay of a retry
is left out too: `Backoff` is an arbitrary integer per attempt, negative ones included,
as `1<<attempt` seconds become when they overflow. What handlers do is reduced to their
return: echo computes nothing, sleep and http_call wait for a timer or a server and
honour their context. Listening and graceful shutdown of the HTTP servers are
net/http's. `ExtendLease` is dead code. The pool of database connections is left out:
that a stopping standby scheduler keeps a connection its own pool waits for depends on
the library's Close. Buckets of the rate limiter are never removed while a process
runs, which no answer depends on.
