----------------------------- MODULE WorkerPool -----------------------------
(***************************************************************************)
(* The worker processes (internal/worker): each runs some goroutines that  *)
(* lease and execute runs (leaseLoop, executeOne) and a janitor that takes *)
(* expired leases back.  All of them share the tables of JobRuns and       *)
(* nothing else.                                                           *)
(*                                                                         *)
(* A step is one statement or transaction as the database serialises it,   *)
(* or the return of a handler.  LeaseNextRun is two steps, the SELECT FOR  *)
(* UPDATE SKIP LOCKED and the UPDATE with its commit, because the row lock *)
(* it holds in between is visible: other lessees skip the row and other    *)
(* writers wait for it.                                                    *)
(***************************************************************************)
EXTENDS JobRuns

CONSTANTS
    Worker,         \* worker processes
    Slot,           \* the leaseLoop goroutines of all workers
    Host,           \* Host[s]: the worker whose goroutine s is
    Handled,        \* the runs whose job name has a registered handler
    Timeout,        \* timeout_seconds of the jobs, in ticks
    Backoff,        \* Backoff[a]: delay of the retry after attempt a, in ticks
    FaultLimit      \* bound: stops and failed store calls in a behaviour

ASSUME PoolAssumption ==
    /\ Host \in [Slot -> Worker]
    /\ Handled \subseteq Run
    /\ Timeout \in Nat
    /\ Backoff \in [1 .. MaxSmallint -> Int]
    /\ FaultLimit \in Nat

VARIABLES
    slot,           \* slot[s]: where goroutine s is, and its copy of the run
    up,             \* up[w]: the process of worker w is running
    faults,         \* faults so far
    reclaims,       \* reclaims[r]: times the janitor took r back (the metric
                    \* taskflow_leases_reclaimed_total, per run)
    requeued,       \* requeued[r]: history: the attempts whose failure put r
                    \* back in the queue
    buried          \* buried[r]: history: the attempts that wrote r's letters

pool == <<slot, up>>
history == <<reclaims, requeued, buried>>
vars == <<tables, pool, faults, history>>

(***************************************************************************)
(* Program counters of a goroutine:                                        *)
(*   idle      at the top of leaseLoop                                     *)
(*   claim     LeaseNextRun: row locked, UPDATE not committed              *)
(*   leased    executeOne called, before MarkRunning or the no-handler     *)
(*             FailRun                                                     *)
(*   handler   in the handler                                              *)
(*   complete, retry, fail, bury                                           *)
(*             about to call CompleteRun, FailRun(requeue), FailRun,       *)
(*             MarkDead                                                    *)
(***************************************************************************)
PC == {"idle", "claim", "leased", "handler",
       "complete", "retry", "fail", "bury"}

SlotState == [pc: PC, run: Run \cup {NULL},
              attempt: 0 .. MaxSmallint, deadline: 0 .. Timeout]

Idle == [pc |-> "idle", run |-> NULL, attempt |-> 0, deadline |-> 0]
Claiming(r) == [pc |-> "claim", run |-> r, attempt |-> 0, deadline |-> 0]

\* The type of every variable.
TypeOK ==
    /\ TablesTypeOK
    /\ slot \in [Slot -> SlotState]
    /\ up \in [Worker -> BOOLEAN]
    /\ faults \in 0 .. FaultLimit
    /\ reclaims \in [Run -> Nat]
    /\ requeued \in [Run -> SUBSET (1 .. MaxSmallint)]
    /\ buried \in [Run -> SUBSET (1 .. MaxSmallint)]

Init ==
    /\ TablesInit
    /\ slot = [s \in Slot |-> Idle]
    /\ up = [w \in Worker |-> TRUE]
    /\ faults = 0
    /\ reclaims = [r \in Run |-> 0]
    /\ requeued = [r \in Run |-> {}]
    /\ buried = [r \in Run |-> {}]

-----------------------------------------------------------------------------
\* A row is locked while a lease transaction on it is open.
Locked(r) == \E s \in Slot : slot[s].pc = "claim" /\ slot[s].run = r

\* s is executing r: LeaseNextRun returned r to it and executeOne has not
\* returned.
Holds(s, r) == slot[s].pc \notin {"idle", "claim"} /\ slot[s].run = r

\* Goroutine s goes on at program counter p, d ticks before its deadline.
Goto(s, p, d) ==
    slot' = [slot EXCEPT ![s] = [@ EXCEPT !.pc = p, !.deadline = d]]

\* Goroutine s returns to the top of leaseLoop.
GoIdle(s) == slot' = [slot EXCEPT ![s] = Idle]

Fault == faults < FaultLimit /\ faults' = faults + 1

\* The INSERT of the promoter (internal/scheduler), scheduled at the time its
\* pass began.
Promote(r, at) ==
    /\ CreateRun(r, at)
    /\ UNCHANGED <<pool, faults, history>>

-----------------------------------------------------------------------------
(* leaseLoop and LeaseNextRun                                              *)

\* Mutant of NextRuns: a SELECT that neither locks nor skips locked rows.
NextRunsUnlocked ==
    LET due == {r \in Run : Due(r)}
    IN  {r \in due : \A q \in due : NotAfter(r, q)}

\* The rows SELECT ... LIMIT 1 FOR UPDATE SKIP LOCKED may return.
NextRuns ==
    LET free == {r \in Run : Due(r) /\ ~Locked(r)}
    IN  {r \in free : \A q \in free : NotAfter(r, q)}

SelectRun(s) ==
    /\ up[Host[s]]
    /\ slot[s].pc = "idle"
    /\ \E r \in NextRuns :
          slot' = [slot EXCEPT ![s] = Claiming(r)]
    /\ UNCHANGED <<tables, up, faults, history>>

\* Mutant of LeaseRun: attempt + 1 is stored without the column's range check.
LeaseRunUnchecked(s) ==
    LET r == slot[s].run IN
    /\ slot[s].pc = "claim"
    /\ TakeLease(r)
    /\ slot' = [slot EXCEPT ![s] = [@ EXCEPT !.pc = "leased",
                                             !.attempt = job_runs[r].attempt + 1]]
    /\ UNCHANGED <<up, faults, history>>

\* UPDATE and commit: the goroutine gets the row as updated.
LeaseRun(s) ==
    LET r == slot[s].run IN
    /\ slot[s].pc = "claim"
    /\ job_runs[r].attempt < MaxSmallint
    /\ TakeLease(r)
    /\ slot' = [slot EXCEPT ![s] = [@ EXCEPT !.pc = "leased",
                                             !.attempt = job_runs[r].attempt + 1]]
    /\ UNCHANGED <<up, faults, history>>

\* The transaction is rolled back: attempt + 1 does not fit the column, or
\* the connection fails.  leaseLoop logs, sleeps and polls again.
LeaseRollback(s) ==
    /\ slot[s].pc = "claim"
    /\ \/ job_runs[slot[s].run].attempt = MaxSmallint /\ UNCHANGED faults
       \/ Fault
    /\ GoIdle(s)
    /\ UNCHANGED <<tables, up, history>>

\* The commit takes effect and its answer is lost: nobody executes the run.
LeaseAnswerLost(s) ==
    /\ slot[s].pc = "claim"
    /\ job_runs[slot[s].run].attempt < MaxSmallint
    /\ Fault
    /\ TakeLease(slot[s].run)
    /\ GoIdle(s)
    /\ UNCHANGED <<up, history>>

-----------------------------------------------------------------------------
(* executeOne                                                              *)

\* An error of a store call on r is logged and executeOne goes on as if the
\* call had succeeded.  A writer of r waits for the row lock.
StoreError == Fault /\ UNCHANGED tables

StartHandler(s) ==
    LET r == slot[s].run IN
    /\ slot[s].pc = "leased"
    /\ r \in Handled
    /\ \/ ~Locked(r) /\ MarkRunning(r) /\ UNCHANGED faults
       \/ StoreError
    /\ Goto(s, "handler", Timeout)
    /\ UNCHANGED <<up, history>>

\* err = nil counts as success only before the deadline of runCtx.
HandlerSucceeds(s) ==
    /\ slot[s].pc = "handler"
    /\ slot[s].deadline > 0
    /\ Goto(s, "complete", 0)
    /\ UNCHANGED <<tables, up, faults, history>>

\* Mutants of HandlerFails: one retry too many; one too few.
HandlerFailsLate(s) ==
    /\ slot[s].pc = "handler"
    /\ IF slot[s].attempt <= MaxAttempts[slot[s].run]
       THEN Goto(s, "retry", 0) ELSE Goto(s, "fail", 0)
    /\ UNCHANGED <<tables, up, faults, history>>
HandlerFailsEarly(s) ==
    /\ slot[s].pc = "handler"
    /\ IF slot[s].attempt + 1 < MaxAttempts[slot[s].run]
       THEN Goto(s, "retry", 0) ELSE Goto(s, "fail", 0)
    /\ UNCHANGED <<tables, up, faults, history>>

HandlerFails(s) ==
    /\ slot[s].pc = "handler"
    /\ IF slot[s].attempt < MaxAttempts[slot[s].run]
       THEN Goto(s, "retry", 0) ELSE Goto(s, "fail", 0)
    /\ UNCHANGED <<tables, up, faults, history>>

Complete(s) ==
    LET r == slot[s].run IN
    /\ slot[s].pc = "complete"
    /\ \/ ~Locked(r) /\ CompleteRun(r) /\ UNCHANGED faults
       \/ StoreError
    /\ GoIdle(s)
    /\ UNCHANGED <<up, history>>

Retry(s) ==
    LET r == slot[s].run IN
    /\ slot[s].pc = "retry"
    /\ \/ /\ ~Locked(r)
          /\ RequeueRun(r, Backoff[slot[s].attempt])
          /\ requeued' = [requeued EXCEPT ![r] = @ \cup {slot[s].attempt}]
          /\ UNCHANGED faults
       \/ StoreError /\ UNCHANGED requeued
    /\ GoIdle(s)
    /\ UNCHANGED <<up, reclaims, buried>>

\* Attempts exhausted, or no handler registered for the job's name.
Fail(s) ==
    LET r == slot[s].run IN
    /\ \/ slot[s].pc = "fail"
       \/ slot[s].pc = "leased" /\ r \notin Handled
    /\ \/ ~Locked(r) /\ FailRun(r) /\ UNCHANGED faults
       \/ StoreError
    /\ Goto(s, "bury", 0)
    /\ UNCHANGED <<up, history>>

Bury(s) ==
    LET r == slot[s].run IN
    /\ slot[s].pc = "bury"
    /\ \/ /\ ~Locked(r)
          /\ MarkDead(r)
          /\ buried' = [buried EXCEPT ![r] = @ \cup {slot[s].attempt}]
          /\ UNCHANGED faults
       \/ StoreError /\ UNCHANGED buried
    /\ GoIdle(s)
    /\ UNCHANGED <<up, reclaims, requeued>>

-----------------------------------------------------------------------------
(* Janitor, process stop and start, time                                   *)

Janitor(w) ==
    /\ up[w]
    /\ \E r \in Run : LeaseExpired(r)
    /\ ReclaimExpiredLeases
    /\ reclaims' = [r \in Run |-> IF LeaseExpired(r) THEN reclaims[r] + 1
                                                     ELSE reclaims[r]]
    /\ UNCHANGED <<pool, faults, requeued, buried>>

\* A crash, or a shutdown: once the context of Run is cancelled every store
\* call fails before it reaches the database, so a shutdown too leaves the
\* rows of its goroutines as they are.  Open transactions are rolled back.
Stop(w) ==
    /\ up[w]
    /\ Fault
    /\ up' = [up EXCEPT ![w] = FALSE]
    /\ slot' = [s \in Slot |-> IF Host[s] = w THEN Idle ELSE slot[s]]
    /\ UNCHANGED <<tables, history>>

Start(w) ==
    /\ ~up[w]
    /\ up' = [up EXCEPT ![w] = TRUE]
    /\ UNCHANGED <<tables, slot, faults, history>>

Tick ==
    /\ job_runs' = [r \in Run |-> Aged(job_runs[r])]
    /\ slot' = [s \in Slot |->
                  [slot[s] EXCEPT !.deadline = IF @ > 0 THEN @ - 1 ELSE 0]]
    /\ UNCHANGED <<dead_letters, up, faults, history>>

-----------------------------------------------------------------------------
ExecuteOne(s) ==
    \/ StartHandler(s) \/ HandlerSucceeds(s) \/ HandlerFails(s)
    \/ Complete(s) \/ Retry(s) \/ Fail(s) \/ Bury(s)

LeaseLoop(s) ==
    SelectRun(s) \/ LeaseRun(s) \/ LeaseRollback(s) \/ LeaseAnswerLost(s)

Step ==
    \/ \E r \in Run, at \in -MaxAge .. 0 : Promote(r, at)
    \/ \E s \in Slot : LeaseLoop(s) \/ ExecuteOne(s)
    \/ \E w \in Worker : Janitor(w) \/ Stop(w) \/ Start(w)

Next == Step \/ Tick

Spec == Init /\ [][Next]_vars

(***************************************************************************)
(* Fairness.  leaseLoop polls for ever and executeOne runs to its end      *)
(* (every registered handler returns once its context is done), janitors   *)
(* run on a ticker, a stopped process is restarted by its deployment, time *)
(* passes.  Nothing is assumed of the promoter or of faults, which are     *)
(* finitely many.                                                          *)
(***************************************************************************)
Fairness ==
    /\ \A s \in Slot : WF_vars(LeaseLoop(s)) /\ WF_vars(ExecuteOne(s))
    /\ \A w \in Worker : WF_vars(Janitor(w)) /\ WF_vars(Start(w))
    /\ WF_vars(Tick)

FairSpec == Spec /\ Fairness

(***************************************************************************)
(* The same program on a deployment whose store calls take no noticeable   *)
(* time and whose handlers return when their context is done: time passes  *)
(* only while every goroutine is idle or in a handler that has time left.  *)
(***************************************************************************)
Prompt ==
    \A s \in Slot :
       \/ slot[s].pc = "idle"
       \/ slot[s].pc = "handler" /\ slot[s].deadline > 0

PromptTick == Prompt /\ Tick

TimelyNext == Step \/ PromptTick

TimelySpec == Init /\ [][TimelyNext]_vars

TimelyFairSpec == TimelySpec /\ Fairness

-----------------------------------------------------------------------------
(* Safety, whatever the timing of leases, handlers and store calls         *)

\* attempt, incremented in the transaction that claims the row, is a fencing
\* token: no two executions of a run carry the same number and none carries a
\* number the row has not reached, even after the run was reclaimed from a
\* worker that is still executing it (LeaseNextRun, executeOne).
AttemptIsFencingToken ==
    \A s, t \in Slot, r \in Run :
       /\ Holds(s, r) => slot[s].attempt <= job_runs[r].attempt
       /\ s # t /\ Holds(s, r) /\ Holds(t, r) => slot[s].attempt # slot[t].attempt

\* As long as the janitor has not taken a run back, at most one goroutine of
\* one worker executes it (SKIP LOCKED claim, unguarded writes of executeOne).
SoleExecutor ==
    \A r \in Run : reclaims[r] = 0 =>
       \A s, t \in Slot : Holds(s, r) /\ Holds(t, r) => s = t

\* max_attempts bounds the leases of a run up to those the janitor took back:
\* neither lost answers, failed store calls, restarts nor late failures of
\* overtaken workers add an attempt of their own (executeOne's retry branch).
RetryBudget ==
    \A r \in Run : job_runs[r].attempt <= MaxAttempts[r] + reclaims[r]

\* dead_letters has no unique constraint on job_run_id: a run gets at most one
\* letter, and at most one more for every time it was reclaimed (MarkDead).
LetterBudget == \A r \in Run : dead_letters[r] <= 1 + reclaims[r]

\* A run that has a handler is dead-lettered only after max_attempts leases
\* (executeOne's last branch, seen from the tables).
LetterMeansExhausted ==
    \A r \in Handled :
       dead_letters[r] > 0 => job_runs[r].attempt >= MaxAttempts[r]

\* A leased row always has a lease the janitor can see expire, and a dead row
\* always has its letter (TakeLease, ReclaimExpiredLeases, MarkDead).
RowsConsistent ==
    \A r \in Run :
       /\ job_runs[r].status = "leased" => job_runs[r].lease_expires_at # NULL
       /\ job_runs[r].status = "dead" => dead_letters[r] > 0

\* succeeded and dead are final for a run the janitor never took back: no late
\* write of any goroutine changes its row (MarkRunning, CompleteRun, FailRun).
FinalUnlessReclaimed ==
    [][\A r \in Run :
          job_runs[r].status \in {"succeeded", "dead"} /\ reclaims[r] = 0
             => job_runs'[r].status = job_runs[r].status]_vars

\* However late workers are, a claim never strands a run: a leased row leaves
\* that status, if need be through the janitor of any worker that is up.
LeasedIsLeft ==
    \A r \in Run : job_runs[r].status = "leased" ~> job_runs[r].status # "leased"

-----------------------------------------------------------------------------
(* What a timely deployment with Timeout <= LeaseDuration adds             *)

\* No run is in the handlers of two goroutines at the same time: no janitor takes
\* it back while its handler may still run (executeOne, janitorLoop).
NoConcurrentExecution ==
    \A s, t \in Slot :
       /\ slot[s].pc = "handler"
       /\ slot[t].pc = "handler"
       /\ slot[s].run = slot[t].run
       => s = t

Holders(r) == {s \in Slot : Holds(s, r)}

\* The goroutines that hold a run are its owners.
Lifecycle == INSTANCE RunLifecycle WITH
    Owner <- Slot,
    status <- [r \in Run |-> job_runs[r].status],
    owner <- [r \in Run |-> Holders(r)],
    letters <- dead_letters

\* The pool implements RunLifecycle: single owner, no reclaim from a live owner,
\* final ends, one letter (executeOne, janitorLoop and the store's statements).
ImplementsLifecycle == Lifecycle!LifecycleSpec

-----------------------------------------------------------------------------
(* Statements of the documentation and of comments that the code does not  *)
(* keep; see the findings of README.md.                                    *)

\* "A terminal run's fields never change again" (cache.go:18), whatever the
\* janitor did.
TerminalIsFinal ==
    [][\A r \in Run :
          job_runs[r].status \in {"succeeded", "dead"}
             => job_runs'[r].status = job_runs[r].status]_vars

\* The janitor "recovers work from a worker that died (or was killed)
\* mid-execution" (docs/ARCHITECTURE.md:73): a leased or running run that
\* nobody executes is taken back, or taken up again.
OrphanIsRecovered ==
    \A r \in Run :
       /\ job_runs[r].status \in {"leased", "running"}
       /\ \A s \in Slot : ~Holds(s, r)
       ~> \/ job_runs[r].status \notin {"leased", "running"}
          \/ \E s \in Slot : Holds(s, r)

\* "'failed' without retries is followed by MarkDead" (cache.go:16): no run
\* stays failed.
FailedIsBuried ==
    \A r \in Run : job_runs[r].status = "failed" ~> job_runs[r].status = "dead"
=============================================================================
