-------------------------- MODULE WorkerPoolProofs --------------------------
(***************************************************************************)
(* Theorems about WorkerPool for every set of runs, workers and goroutines *)
(* and every value of the other constants.                                 *)
(***************************************************************************)
EXTENDS WorkerPool, TLAPS

\* The run of a goroutine that is past the top of leaseLoop.
InFlight(s) == slot[s].pc \notin {"idle", "claim"}

(***************************************************************************)
(* The inductive invariant behind the safety theorems.                     *)
(***************************************************************************)

\* A busy goroutine works on an existing row.
BusyOnRow ==
    \A s \in Slot : slot[s].pc # "idle" =>
       slot[s].run \in Run /\ job_runs[slot[s].run].status # "absent"

\* The row of an open lease transaction stays pending: writers wait.
ClaimsPending ==
    \A s \in Slot : slot[s].pc = "claim" =>
       job_runs[slot[s].run].status = "pending"

\* Open lease transactions are on different rows: SKIP LOCKED.
DistinctClaims ==
    \A s, t \in Slot :
       s # t /\ slot[s].pc = "claim" /\ slot[t].pc = "claim"
          => slot[s].run # slot[t].run

\* Attempt numbers in flight are between 1 and the row's, and distinct.
Tokens ==
    /\ \A s \in Slot : InFlight(s) =>
          slot[s].attempt \in 1 .. job_runs[slot[s].run].attempt
    /\ \A s, t \in Slot :
          s # t /\ InFlight(s) /\ InFlight(t) /\ slot[s].run = slot[t].run
             => slot[s].attempt # slot[t].attempt

\* Until a run is reclaimed, whoever executes it has its latest lease, and the
\* row is still where that goroutine left it.
Owners ==
    \A s \in Slot : InFlight(s) /\ reclaims[slot[s].run] = 0 =>
       /\ slot[s].attempt = job_runs[slot[s].run].attempt
       /\ job_runs[slot[s].run].status \in {"leased", "running", "failed"}
       /\ job_runs[slot[s].run].status = "failed" => slot[s].pc = "bury"

IInv == TypeOK /\ BusyOnRow /\ ClaimsPending /\ DistinctClaims /\ Tokens /\ Owners

-----------------------------------------------------------------------------
(* What the statements of JobRuns do to the tables.                        *)

\* Lemmas about one row: the statement leaves the other rows alone.
Others(r) == \A q \in Run \ {r} : job_runs'[q] = job_runs[q]

\* TakeLease: the row is leased, one attempt later, with a lease.
LEMMA TakeLeaseEffect ==
  ASSUME TablesTypeOK, NEW r \in Run, TakeLease(r),
         job_runs[r].attempt < MaxSmallint
  PROVE  /\ TablesTypeOK' /\ Others(r) /\ dead_letters' = dead_letters
         /\ job_runs'[r].status = "leased"
         /\ job_runs'[r].attempt = job_runs[r].attempt + 1
         /\ job_runs'[r].lease_expires_at = LeaseDuration
<1> DEFINE new == [job_runs[r] EXCEPT !.status = "leased",
                                      !.attempt = job_runs[r].attempt + 1,
                                      !.lease_expires_at = LeaseDuration]
<1>1. job_runs' = [job_runs EXCEPT ![r] = new]
  BY DEF TakeLease
<1>2. job_runs[r] \in Row
  BY DEF TablesTypeOK
<1>a. job_runs[r].attempt + 1 \in 0 .. MaxSmallint
  BY <1>2, LimitAssumption DEF Row
<1>b. LeaseDuration \in Int \cup {NULL} /\ "leased" \in RunStatus
  BY LimitAssumption DEF RunStatus
<1>3. /\ new \in Row
      /\ new.status = "leased"
      /\ new.attempt = job_runs[r].attempt + 1
      /\ new.lease_expires_at = LeaseDuration
  BY <1>2, <1>a, <1>b DEF Row
<1> HIDE DEF new
<1> QED
  BY <1>1, <1>3 DEF TablesTypeOK, TakeLease, Others

\* CreateRun: a fresh pending row.
LEMMA CreateRunEffect ==
  ASSUME TablesTypeOK, NEW r \in Run, NEW at \in Int, CreateRun(r, at)
  PROVE  /\ TablesTypeOK' /\ Others(r) /\ dead_letters' = dead_letters
         /\ job_runs[r].status = "absent"
         /\ job_runs'[r].status = "pending"
         /\ job_runs'[r].attempt = 0
BY LimitAssumption DEF TablesTypeOK, CreateRun, Others, Row, RunStatus

\* The unguarded UPDATEs change the status and keep the attempt.
LEMMA StatusEffect ==
  ASSUME TablesTypeOK, NEW r \in Run, NEW st \in RunStatus,
         \/ MarkRunning(r) /\ st = "running"
         \/ CompleteRun(r) /\ st = "succeeded"
         \/ FailRun(r) /\ st = "failed"
         \/ MarkDead(r) /\ st = "dead"
         \/ st = "pending" /\ \E b \in Int : RequeueRun(r, b)
  PROVE  /\ TablesTypeOK' /\ Others(r)
         /\ job_runs'[r].status = st
         /\ job_runs'[r].attempt = job_runs[r].attempt
         /\ st # "pending" => job_runs'[r].lease_expires_at = job_runs[r].lease_expires_at
<1> USE DEF TablesTypeOK, Others, Row
<1>1. CASE MarkRunning(r) /\ st = "running"
  BY <1>1 DEF MarkRunning
<1>2. CASE CompleteRun(r) /\ st = "succeeded"
  BY <1>2 DEF CompleteRun
<1>3. CASE FailRun(r) /\ st = "failed"
  BY <1>3 DEF FailRun
<1>4. CASE MarkDead(r) /\ st = "dead"
  BY <1>4 DEF MarkDead
<1>5. CASE st = "pending" /\ \E b \in Int : RequeueRun(r, b)
  BY <1>5 DEF RequeueRun
<1> QED
  BY <1>1, <1>2, <1>3, <1>4, <1>5

\* The janitor moves exactly the expired rows, which were leased or running.
LEMMA ReclaimEffect ==
  ASSUME TablesTypeOK, ReclaimExpiredLeases
  PROVE  /\ TablesTypeOK' /\ dead_letters' = dead_letters
         /\ \A r \in Run :
              /\ job_runs'[r].attempt = job_runs[r].attempt
              /\ LeaseExpired(r) => /\ job_runs'[r].status = "pending"
                                    /\ job_runs[r].status \in {"leased", "running"}
              /\ ~LeaseExpired(r) => job_runs'[r] = job_runs[r]
BY DEF TablesTypeOK, ReclaimExpiredLeases, LeaseExpired, Row, RunStatus

\* Time changes no status and no attempt.
LEMMA AgedEffect ==
  ASSUME TablesTypeOK, job_runs' = [r \in Run |-> Aged(job_runs[r])],
         UNCHANGED dead_letters
  PROVE  /\ TablesTypeOK'
         /\ \A r \in Run : /\ job_runs'[r].status = job_runs[r].status
                           /\ job_runs'[r].attempt = job_runs[r].attempt
                           /\ job_runs[r].lease_expires_at # NULL =>
                                job_runs'[r].lease_expires_at # NULL
                           /\ job_runs[r].status # "absent"
                              /\ job_runs[r].lease_expires_at \in Nat =>
                                job_runs'[r].lease_expires_at = job_runs[r].lease_expires_at - 1
<1>1. ASSUME NEW row \in Row
      PROVE  /\ Aged(row) \in Row
             /\ Aged(row).status = row.status
             /\ Aged(row).attempt = row.attempt
             /\ row.lease_expires_at # NULL => Aged(row).lease_expires_at # NULL
             /\ row.status # "absent" /\ row.lease_expires_at \in Nat =>
                  Aged(row).lease_expires_at = row.lease_expires_at - 1
  <2> DEFINE at == IF row.scheduled_at > -MaxAge
                   THEN row.scheduled_at - 1 ELSE row.scheduled_at
             lease == IF row.lease_expires_at = NULL \/ row.lease_expires_at = -1
                      THEN row.lease_expires_at ELSE row.lease_expires_at - 1
  <2>1. at \in Int
    BY LimitAssumption DEF Row
  <2>2. /\ lease \in Int \cup {NULL}
        /\ row.lease_expires_at # NULL => lease # NULL
        /\ row.lease_expires_at \in Nat => lease = row.lease_expires_at - 1
    BY NullAssumption DEF Row
  <2>3. Aged(row) = IF row.status = "absent" THEN row
                    ELSE [row EXCEPT !.scheduled_at = at, !.lease_expires_at = lease]
    BY DEF Aged
  <2> HIDE DEF at, lease
  <2> QED
    BY <2>1, <2>2, <2>3 DEF Row
<1> QED
  BY <1>1 DEF TablesTypeOK

-----------------------------------------------------------------------------
(* Steps of a goroutine that executes a run.                               *)

\* What all of them have in common: goroutine s keeps its run and attempt or
\* becomes idle, only the row of its run changes, and only when no lease
\* transaction has it locked.
LEMMA HolderStep ==
  ASSUME IInv, NEW s \in Slot, InFlight(s),
         \A t \in Slot \ {s} : slot'[t] = slot[t],
         \/ slot'[s].pc = "idle"
         \/ /\ InFlight(s)'
            /\ slot'[s].run = slot[s].run
            /\ slot'[s].attempt = slot[s].attempt,
         Others(slot[s].run),
         job_runs'[slot[s].run].attempt = job_runs[slot[s].run].attempt,
         job_runs'[slot[s].run].status # "absent",
         job_runs' = job_runs \/ ~Locked(slot[s].run),
         reclaims' = reclaims,
         \/ slot'[s].pc = "idle"
         \/ reclaims[slot[s].run] # 0
         \/ /\ job_runs'[slot[s].run].status \in {"leased", "running", "failed"}
            /\ job_runs'[slot[s].run].status = "failed" => slot'[s].pc = "bury"
  PROVE  BusyOnRow' /\ ClaimsPending' /\ DistinctClaims' /\ Tokens' /\ Owners'
<1> DEFINE r == slot[s].run
<1>1. r \in Run
  BY DEF IInv, BusyOnRow, InFlight
<1>2. \A q \in Run : job_runs'[q].attempt = job_runs[q].attempt
  BY DEF Others
<1>3. BusyOnRow'
  BY <1>1 DEF IInv, BusyOnRow, Others, InFlight
<1>4. ClaimsPending' /\ DistinctClaims'
  BY <1>1 DEF IInv, BusyOnRow, ClaimsPending, DistinctClaims, Others, InFlight,
              Locked
<1>5. Tokens'
  BY <1>1, <1>2 DEF IInv, BusyOnRow, Tokens, InFlight
<1>6. \A t \in Slot \ {s} :
         InFlight(t) /\ reclaims[slot[t].run] = 0 => slot[t].run # r
  BY <1>1 DEF IInv, Tokens, Owners
<1>7. Owners'
  BY <1>1, <1>2, <1>6 DEF IInv, BusyOnRow, Owners, Others, InFlight
<1> QED
  BY <1>3, <1>4, <1>5, <1>7

\* Moving goroutine s to another program counter.
LEMMA SlotMove ==
  ASSUME slot \in [Slot -> SlotState], NEW s \in Slot, NEW p \in PC,
         NEW d \in 0 .. Timeout,
         Goto(s, p, d)
  PROVE  /\ slot' \in [Slot -> SlotState]
         /\ slot'[s].pc = p
         /\ slot'[s].run = slot[s].run
         /\ slot'[s].attempt = slot[s].attempt
         /\ slot'[s].deadline = d
         /\ \A t \in Slot \ {s} : slot'[t] = slot[t]
BY DEF SlotState, Goto

\* Goroutine s returns to the top of leaseLoop.
LEMMA SlotIdle ==
  ASSUME slot \in [Slot -> SlotState], NEW s \in Slot,
         GoIdle(s)
  PROVE  /\ slot' \in [Slot -> SlotState]
         /\ slot'[s].pc = "idle"
         /\ \A t \in Slot \ {s} : slot'[t] = slot[t]
<1>1. Idle \in SlotState
  BY PoolAssumption, LimitAssumption DEF Idle, SlotState, PC
<1> QED
  BY <1>1 DEF GoIdle, Idle

\* StoreError changes no table; a fault is counted within its bound.
LEMMA StoreErrorEffect ==
  ASSUME TypeOK, StoreError
  PROVE  job_runs' = job_runs /\ dead_letters' = dead_letters
         /\ faults' \in 0 .. FaultLimit
BY PoolAssumption DEF TypeOK, StoreError, Fault, tables

\* MarkRunning, or its failure, keeps the invariant: the row keeps its attempt
\* and nobody gains or loses the run.
LEMMA StartHandlerInv ==
  ASSUME IInv, NEW s \in Slot, StartHandler(s)
  PROVE  IInv'
<1> DEFINE r == slot[s].run
<1>1. /\ TypeOK /\ InFlight(s) /\ r \in Run
      /\ slot[s].pc = "leased"
      /\ job_runs[r].status # "absent"
  BY DEF IInv, BusyOnRow, StartHandler, InFlight
<1>2. /\ slot' \in [Slot -> SlotState]
      /\ slot'[s].pc = "handler"
      /\ slot'[s].run = r
      /\ slot'[s].attempt = slot[s].attempt
      /\ \A t \in Slot \ {s} : slot'[t] = slot[t]
  <2>1. Goto(s, "handler", Timeout)
    BY DEF StartHandler
  <2>2. "handler" \in PC /\ Timeout \in 0 .. Timeout /\ slot \in [Slot -> SlotState]
    BY <1>1, PoolAssumption DEF TypeOK, PC
  <2> QED
    BY <2>1, <2>2, SlotMove
<1>3. /\ TablesTypeOK' /\ Others(r)
      /\ job_runs'[r].attempt = job_runs[r].attempt
      /\ job_runs'[r].status \in {job_runs[r].status, "running"}
      /\ job_runs' = job_runs \/ ~Locked(r)
      /\ faults' \in 0 .. FaultLimit
  <2>1. CASE ~Locked(r) /\ MarkRunning(r) /\ UNCHANGED faults
    BY <1>1, <2>1, StatusEffect DEF TypeOK, RunStatus
  <2>2. CASE StoreError
    BY <1>1, <2>2, StoreErrorEffect DEF TypeOK, TablesTypeOK, Others
  <2> QED
    BY <2>1, <2>2 DEF StartHandler
<1>4. up' = up /\ reclaims' = reclaims /\ requeued' = requeued /\ buried' = buried
  BY DEF StartHandler, history
<1>5. TypeOK'
  BY <1>1, <1>2, <1>3, <1>4 DEF TypeOK
<1>6. BusyOnRow' /\ ClaimsPending' /\ DistinctClaims' /\ Tokens' /\ Owners'
  <2>1. InFlight(s)'
    BY <1>2 DEF InFlight
  <2>2. \/ reclaims[r] # 0
        \/ job_runs'[r].status \in {"leased", "running"}
    BY <1>1, <1>3 DEF IInv, Owners
  <2> QED
    BY <1>1, <1>2, <1>3, <1>4, <2>1, <2>2, HolderStep
<1> QED
  BY <1>5, <1>6 DEF IInv

\* Both returns of the handler.
LEMMA HandlerReturnsInv ==
  ASSUME IInv, NEW s \in Slot, HandlerSucceeds(s) \/ HandlerFails(s)
  PROVE  IInv'
<1> DEFINE r == slot[s].run
<1>1. /\ TypeOK /\ InFlight(s) /\ r \in Run
      /\ slot[s].pc = "handler"
      /\ job_runs[r].status # "absent"
  BY DEF IInv, BusyOnRow, HandlerSucceeds, HandlerFails, InFlight
<1>2. PICK p \in {"complete", "retry", "fail"} :
         Goto(s, p, 0)
  BY DEF HandlerSucceeds, HandlerFails
<1>3. /\ slot' \in [Slot -> SlotState]
      /\ slot'[s].pc = p
      /\ slot'[s].run = r
      /\ slot'[s].attempt = slot[s].attempt
      /\ \A t \in Slot \ {s} : slot'[t] = slot[t]
  <2>1. p \in PC /\ 0 \in 0 .. Timeout /\ slot \in [Slot -> SlotState]
    BY <1>1, PoolAssumption DEF TypeOK, PC
  <2> QED
    BY <1>2, <2>1, SlotMove
<1>4. /\ job_runs' = job_runs /\ dead_letters' = dead_letters
      /\ up' = up /\ faults' = faults
      /\ reclaims' = reclaims /\ requeued' = requeued /\ buried' = buried
  BY DEF HandlerSucceeds, HandlerFails, tables, history
<1>5. TypeOK'
  BY <1>1, <1>3, <1>4 DEF TypeOK, TablesTypeOK
<1>6. BusyOnRow' /\ ClaimsPending' /\ DistinctClaims' /\ Tokens' /\ Owners'
  <2>1. InFlight(s)' /\ Others(r)
    BY <1>3, <1>4 DEF InFlight, Others
  <2>2. \/ reclaims[r] # 0
        \/ job_runs'[r].status \in {"leased", "running"}
    BY <1>1, <1>4 DEF IInv, Owners
  <2> QED
    BY <1>1, <1>3, <1>4, <2>1, <2>2, HolderStep
<1> QED
  BY <1>5, <1>6 DEF IInv

\* The last store call of executeOne, whichever it is.
LEMMA FinishStep ==
  ASSUME IInv, NEW s \in Slot, InFlight(s), GoIdle(s), NEW st \in RunStatus,
         st # "absent",
         \/ /\ ~Locked(slot[s].run)
            /\ TablesTypeOK' /\ Others(slot[s].run)
            /\ job_runs'[slot[s].run].status = st
            /\ job_runs'[slot[s].run].attempt = job_runs[slot[s].run].attempt
            /\ faults' = faults
         \/ StoreError,
         up' = up, reclaims' = reclaims,
         requeued' \in [Run -> SUBSET (1 .. MaxSmallint)],
         buried' \in [Run -> SUBSET (1 .. MaxSmallint)]
  PROVE  IInv'
<1> DEFINE r == slot[s].run
<1>1. TypeOK /\ r \in Run /\ job_runs[r].status # "absent"
  BY DEF IInv, BusyOnRow, InFlight
<1>2. /\ slot' \in [Slot -> SlotState]
      /\ slot'[s].pc = "idle"
      /\ \A t \in Slot \ {s} : slot'[t] = slot[t]
  BY <1>1, SlotIdle DEF TypeOK
<1>3. /\ TablesTypeOK' /\ Others(r)
      /\ job_runs'[r].attempt = job_runs[r].attempt
      /\ job_runs'[r].status # "absent"
      /\ job_runs' = job_runs \/ ~Locked(r)
      /\ faults' \in 0 .. FaultLimit
  <2>1. CASE StoreError
    BY <1>1, <2>1, StoreErrorEffect DEF TypeOK, TablesTypeOK, Others
  <2> QED
    BY <1>1, <2>1 DEF TypeOK
<1>4. TypeOK'
  BY <1>1, <1>2, <1>3 DEF TypeOK
<1>5. BusyOnRow' /\ ClaimsPending' /\ DistinctClaims' /\ Tokens' /\ Owners'
  BY <1>1, <1>2, <1>3, HolderStep
<1> QED
  BY <1>4, <1>5 DEF IInv

\* CompleteRun keeps the invariant and frees the goroutine.
LEMMA CompleteInv ==
  ASSUME IInv, NEW s \in Slot, Complete(s)
  PROVE  IInv'
<1> DEFINE r == slot[s].run
<1>1. /\ TypeOK /\ InFlight(s) /\ r \in Run
      /\ GoIdle(s) /\ up' = up /\ reclaims' = reclaims /\ requeued' = requeued /\ buried' = buried
  BY DEF IInv, BusyOnRow, Complete, InFlight, history
<1>2. \/ /\ ~Locked(r)
         /\ TablesTypeOK' /\ Others(r)
         /\ job_runs'[r].status = "succeeded"
         /\ job_runs'[r].attempt = job_runs[r].attempt
         /\ faults' = faults
      \/ StoreError
  BY <1>1, StatusEffect DEF Complete, TypeOK, RunStatus
<1> QED
  BY <1>1, <1>2, FinishStep DEF TypeOK, RunStatus

\* FailRun(requeue) keeps it: a run that becomes pending has no other holder
\* unless it was reclaimed.
LEMMA RetryInv ==
  ASSUME IInv, NEW s \in Slot, Retry(s)
  PROVE  IInv'
<1> DEFINE r == slot[s].run
<1>1. /\ TypeOK /\ InFlight(s) /\ r \in Run
      /\ GoIdle(s) /\ up' = up /\ reclaims' = reclaims
      /\ slot[s].attempt \in 1 .. MaxSmallint
  BY DEF IInv, BusyOnRow, Tokens, Retry, InFlight, TypeOK, TablesTypeOK, Row,
         SlotState
<1>2. \/ /\ ~Locked(r)
         /\ TablesTypeOK' /\ Others(r)
         /\ job_runs'[r].status = "pending"
         /\ job_runs'[r].attempt = job_runs[r].attempt
         /\ faults' = faults
      \/ StoreError
  <2>1. Backoff[slot[s].attempt] \in Int
    BY <1>1, PoolAssumption
  <2> QED
    BY <1>1, <2>1, StatusEffect DEF Retry, TypeOK, RunStatus
<1>3. /\ requeued' \in [Run -> SUBSET (1 .. MaxSmallint)]
      /\ buried' \in [Run -> SUBSET (1 .. MaxSmallint)]
  BY <1>1 DEF Retry, TypeOK
<1> QED
  BY <1>1, <1>2, <1>3, FinishStep DEF RunStatus

\* MarkDead keeps the invariant and frees the goroutine.
LEMMA BuryInv ==
  ASSUME IInv, NEW s \in Slot, Bury(s)
  PROVE  IInv'
<1> DEFINE r == slot[s].run
<1>1. /\ TypeOK /\ InFlight(s) /\ r \in Run
      /\ GoIdle(s) /\ up' = up /\ reclaims' = reclaims /\ requeued' = requeued
      /\ slot[s].attempt \in 1 .. MaxSmallint
  BY DEF IInv, BusyOnRow, Tokens, Bury, InFlight, TypeOK, TablesTypeOK, Row,
         SlotState
<1>2. \/ /\ ~Locked(r)
         /\ TablesTypeOK' /\ Others(r)
         /\ job_runs'[r].status = "dead"
         /\ job_runs'[r].attempt = job_runs[r].attempt
         /\ faults' = faults
      \/ StoreError
  BY <1>1, StatusEffect DEF Bury, TypeOK, RunStatus
<1>3. buried' \in [Run -> SUBSET (1 .. MaxSmallint)]
  BY <1>1 DEF Bury, TypeOK
<1> QED
  BY <1>1, <1>2, <1>3, FinishStep DEF TypeOK, RunStatus

\* A goroutine that gives up: from "fail", or from "leased" without handler.
LEMMA FailInv ==
  ASSUME IInv, NEW s \in Slot, Fail(s)
  PROVE  IInv'
<1> DEFINE r == slot[s].run
<1>1. /\ TypeOK /\ InFlight(s) /\ r \in Run
      /\ slot[s].pc \in {"fail", "leased"}
      /\ job_runs[r].status # "absent"
  BY DEF IInv, BusyOnRow, Fail, InFlight
<1>2. /\ slot' \in [Slot -> SlotState]
      /\ slot'[s].pc = "bury"
      /\ slot'[s].run = r
      /\ slot'[s].attempt = slot[s].attempt
      /\ \A t \in Slot \ {s} : slot'[t] = slot[t]
  <2>1. Goto(s, "bury", 0)
    BY DEF Fail
  <2>2. "bury" \in PC /\ 0 \in 0 .. Timeout /\ slot \in [Slot -> SlotState]
    BY <1>1, PoolAssumption DEF TypeOK, PC
  <2> QED
    BY <2>1, <2>2, SlotMove
<1>3. /\ TablesTypeOK' /\ Others(r)
      /\ job_runs'[r].attempt = job_runs[r].attempt
      /\ job_runs'[r].status \in {job_runs[r].status, "failed"}
      /\ job_runs' = job_runs \/ ~Locked(r)
      /\ faults' \in 0 .. FaultLimit
  <2>1. CASE ~Locked(r) /\ FailRun(r) /\ UNCHANGED faults
    BY <1>1, <2>1, StatusEffect DEF TypeOK, RunStatus
  <2>2. CASE StoreError
    BY <1>1, <2>2, StoreErrorEffect DEF TypeOK, TablesTypeOK, Others
  <2> QED
    BY <2>1, <2>2 DEF Fail
<1>4. up' = up /\ reclaims' = reclaims /\ requeued' = requeued /\ buried' = buried
  BY DEF Fail, history
<1>5. TypeOK'
  BY <1>1, <1>2, <1>3, <1>4 DEF TypeOK
<1>6. BusyOnRow' /\ ClaimsPending' /\ DistinctClaims' /\ Tokens' /\ Owners'
  <2>1. InFlight(s)'
    BY <1>2 DEF InFlight
  <2>2. \/ reclaims[r] # 0
        \/ job_runs'[r].status \in {"leased", "running", "failed"}
    BY <1>1, <1>3 DEF IInv, Owners
  <2> QED
    BY <1>1, <1>2, <1>3, <1>4, <2>1, <2>2, HolderStep
<1> QED
  BY <1>5, <1>6 DEF IInv

-----------------------------------------------------------------------------
(* Steps of leaseLoop.                                                     *)

\* The locking SELECT keeps it: only an unlocked pending row is selected.
LEMMA SelectRunInv ==
  ASSUME IInv, NEW s \in Slot, SelectRun(s)
  PROVE  IInv'
<1>1. PICK r \in Run :
         /\ Due(r) /\ ~Locked(r)
         /\ slot' = [slot EXCEPT ![s] = Claiming(r)]
  BY DEF SelectRun, NextRuns
<1>2. Claiming(r) \in SlotState
  BY PoolAssumption, LimitAssumption DEF Claiming, SlotState, PC
<1>3. /\ slot' \in [Slot -> SlotState]
      /\ slot'[s].pc = "claim"
      /\ slot'[s].run = r
      /\ \A t \in Slot \ {s} : slot'[t] = slot[t]
  BY <1>1, <1>2 DEF IInv, TypeOK, Claiming
<1>4. /\ job_runs' = job_runs /\ dead_letters' = dead_letters
      /\ up' = up /\ faults' = faults
      /\ reclaims' = reclaims /\ requeued' = requeued /\ buried' = buried
  BY DEF SelectRun, tables, history
<1>5. TypeOK'
  BY <1>3, <1>4 DEF IInv, TypeOK, TablesTypeOK
<1>6. BusyOnRow' /\ ClaimsPending' /\ DistinctClaims'
  BY <1>1, <1>3, <1>4
     DEF IInv, BusyOnRow, ClaimsPending, DistinctClaims, Due, Locked
<1>7. Tokens' /\ Owners'
  BY <1>3, <1>4 DEF IInv, Tokens, Owners, InFlight
<1> QED
  BY <1>5, <1>6, <1>7 DEF IInv

\* The new token is above every token in flight; the row was pending, so
\* nobody executed the run unless it had been reclaimed.
LEMMA LeaseRunInv ==
  ASSUME IInv, NEW s \in Slot, LeaseRun(s)
  PROVE  IInv'
<1> DEFINE r == slot[s].run
<1>1. /\ TypeOK /\ r \in Run
      /\ slot[s].pc = "claim"
      /\ job_runs[r].status = "pending"
      /\ job_runs[r].attempt < MaxSmallint
      /\ job_runs[r].attempt \in Nat
  BY DEF IInv, BusyOnRow, ClaimsPending, LeaseRun, TypeOK, TablesTypeOK, Row
<1>2. /\ TablesTypeOK' /\ Others(r)
      /\ job_runs'[r].status = "leased"
      /\ job_runs'[r].attempt = job_runs[r].attempt + 1
  BY <1>1, TakeLeaseEffect DEF LeaseRun, TypeOK
<1>3. /\ slot' \in [Slot -> SlotState]
      /\ slot'[s].pc = "leased"
      /\ slot'[s].run = r
      /\ slot'[s].attempt = job_runs[r].attempt + 1
      /\ \A t \in Slot \ {s} : slot'[t] = slot[t]
  <2>1. job_runs[r].attempt + 1 \in 0 .. MaxSmallint
    BY <1>1, LimitAssumption
  <2> DEFINE new == [slot[s] EXCEPT !.pc = "leased",
                                    !.attempt = job_runs[r].attempt + 1]
  <2>2. slot[s] \in SlotState
    BY <1>1 DEF TypeOK
  <2>3. /\ new \in SlotState
        /\ new.pc = "leased"
        /\ new.run = r
        /\ new.attempt = job_runs[r].attempt + 1
    BY <2>1, <2>2 DEF SlotState, PC
  <2>4. slot' = [slot EXCEPT ![s] = new]
    BY DEF LeaseRun
  <2> HIDE DEF new
  <2> QED
    BY <1>1, <2>3, <2>4 DEF TypeOK
<1>4. up' = up /\ faults' = faults /\ reclaims' = reclaims /\ requeued' = requeued /\ buried' = buried
  BY DEF LeaseRun, history
<1>5. TypeOK'
  BY <1>1, <1>2, <1>3, <1>4 DEF TypeOK
<1>6. BusyOnRow'
  BY <1>1, <1>2, <1>3 DEF IInv, BusyOnRow, Others
<1>7. \A t \in Slot \ {s} : slot[t].pc = "claim" => slot[t].run # r
  BY <1>1 DEF IInv, DistinctClaims
<1>8. ClaimsPending' /\ DistinctClaims'
  BY <1>1, <1>2, <1>3, <1>7
     DEF IInv, BusyOnRow, ClaimsPending, DistinctClaims, Others
<1>9. Tokens'
  BY <1>1, <1>2, <1>3 DEF IInv, BusyOnRow, Tokens, Others, InFlight
<1>10. Owners'
  BY <1>1, <1>2, <1>3, <1>4 DEF IInv, BusyOnRow, Owners, Others, InFlight
<1> QED
  BY <1>5, <1>6, <1>8, <1>9, <1>10 DEF IInv

\* A rolled back claim keeps it: it only releases the row lock.
LEMMA LeaseRollbackInv ==
  ASSUME IInv, NEW s \in Slot, LeaseRollback(s)
  PROVE  IInv'
<1>1. /\ slot' \in [Slot -> SlotState]
      /\ slot'[s].pc = "idle"
      /\ \A t \in Slot \ {s} : slot'[t] = slot[t]
  BY SlotIdle DEF IInv, TypeOK, LeaseRollback
<1>2. /\ job_runs' = job_runs /\ dead_letters' = dead_letters
      /\ up' = up /\ reclaims' = reclaims /\ requeued' = requeued /\ buried' = buried
  BY DEF LeaseRollback, tables, history
<1>3. faults' \in 0 .. FaultLimit
  BY PoolAssumption DEF IInv, TypeOK, LeaseRollback, Fault
<1>4. TypeOK'
  BY <1>1, <1>2, <1>3 DEF IInv, TypeOK, TablesTypeOK
<1>5. BusyOnRow' /\ ClaimsPending' /\ DistinctClaims'
  BY <1>1, <1>2 DEF IInv, BusyOnRow, ClaimsPending, DistinctClaims
<1>6. Tokens' /\ Owners'
  BY <1>1, <1>2 DEF IInv, Tokens, Owners, InFlight
<1> QED
  BY <1>4, <1>5, <1>6 DEF IInv

\* The claim commits and nobody executes the run.
LEMMA LeaseAnswerLostInv ==
  ASSUME IInv, NEW s \in Slot, LeaseAnswerLost(s)
  PROVE  IInv'
<1> DEFINE r == slot[s].run
<1>1. /\ TypeOK /\ r \in Run
      /\ slot[s].pc = "claim"
      /\ job_runs[r].status = "pending"
      /\ job_runs[r].attempt < MaxSmallint
      /\ job_runs[r].attempt \in Nat
  BY DEF IInv, BusyOnRow, ClaimsPending, LeaseAnswerLost, TypeOK, TablesTypeOK,
         Row
<1>2. /\ TablesTypeOK' /\ Others(r)
      /\ job_runs'[r].status = "leased"
      /\ job_runs'[r].attempt = job_runs[r].attempt + 1
  BY <1>1, TakeLeaseEffect DEF LeaseAnswerLost, TypeOK
<1>3. /\ slot' \in [Slot -> SlotState]
      /\ slot'[s].pc = "idle"
      /\ \A t \in Slot \ {s} : slot'[t] = slot[t]
  BY SlotIdle DEF IInv, TypeOK, LeaseAnswerLost
<1>4. /\ up' = up /\ reclaims' = reclaims /\ requeued' = requeued /\ buried' = buried
      /\ faults' \in 0 .. FaultLimit
  BY PoolAssumption DEF IInv, TypeOK, LeaseAnswerLost, Fault, history
<1>5. TypeOK'
  BY <1>1, <1>2, <1>3, <1>4 DEF TypeOK
<1>6. BusyOnRow'
  BY <1>1, <1>2, <1>3 DEF IInv, BusyOnRow, Others
<1>7. ClaimsPending' /\ DistinctClaims'
  BY <1>1, <1>2, <1>3
     DEF IInv, BusyOnRow, ClaimsPending, DistinctClaims, Others
<1>8. Tokens'
  BY <1>1, <1>2, <1>3 DEF IInv, BusyOnRow, Tokens, Others, InFlight
<1>9. Owners'
  BY <1>1, <1>2, <1>3, <1>4 DEF IInv, BusyOnRow, Owners, Others, InFlight
<1> QED
  BY <1>5, <1>6, <1>7, <1>8, <1>9 DEF IInv

-----------------------------------------------------------------------------
(* The promoter, the janitor, processes and time.                          *)

\* CreateRun keeps it: nobody holds a row that does not exist.
LEMMA PromoteInv ==
  ASSUME IInv, NEW r \in Run, NEW at \in Int, Promote(r, at)
  PROVE  IInv'
<1>1. /\ TablesTypeOK' /\ Others(r) /\ dead_letters' = dead_letters
      /\ job_runs[r].status = "absent"
      /\ job_runs'[r].status = "pending"
  BY CreateRunEffect DEF IInv, TypeOK, Promote
<1>2. /\ slot' = slot /\ up' = up /\ faults' = faults
      /\ reclaims' = reclaims /\ requeued' = requeued /\ buried' = buried
  BY DEF Promote, pool, history
<1>3. TypeOK'
  BY <1>1, <1>2 DEF IInv, TypeOK
<1>4. \A s \in Slot : slot[s].pc # "idle" =>
         slot[s].run # r /\ job_runs'[slot[s].run] = job_runs[slot[s].run]
  BY <1>1 DEF IInv, BusyOnRow, Others
<1>5. BusyOnRow' /\ ClaimsPending' /\ DistinctClaims'
  BY <1>1, <1>2, <1>4 DEF IInv, BusyOnRow, ClaimsPending, DistinctClaims
<1>6. Tokens' /\ Owners'
  BY <1>2, <1>4 DEF IInv, Tokens, Owners, InFlight
<1> QED
  BY <1>3, <1>5, <1>6 DEF IInv

\* The rows the janitor moves are counted in reclaims; it moves none that a
\* lease transaction has locked, since those are pending.
LEMMA JanitorInv ==
  ASSUME IInv, NEW w \in Worker, Janitor(w)
  PROVE  IInv'
<1>1. /\ TablesTypeOK' /\ dead_letters' = dead_letters
      /\ \A r \in Run :
            /\ job_runs'[r].attempt = job_runs[r].attempt
            /\ LeaseExpired(r) => /\ job_runs'[r].status = "pending"
                                  /\ job_runs[r].status \in {"leased", "running"}
            /\ ~LeaseExpired(r) => job_runs'[r] = job_runs[r]
  BY ReclaimEffect DEF IInv, TypeOK, Janitor
<1>2. slot' = slot /\ up' = up /\ faults' = faults /\ requeued' = requeued /\ buried' = buried
  BY DEF Janitor, pool
<1>3. \A r \in Run : reclaims'[r] = IF LeaseExpired(r) THEN reclaims[r] + 1
                                                       ELSE reclaims[r]
  BY DEF Janitor
<1>4. reclaims' \in [Run -> Nat]
  <2>1. \A r \in Run : (IF LeaseExpired(r) THEN reclaims[r] + 1
                                           ELSE reclaims[r]) \in Nat
    BY DEF IInv, TypeOK
  <2> QED
    BY <2>1 DEF Janitor
<1>5. TypeOK'
  BY <1>1, <1>2, <1>4 DEF IInv, TypeOK
<1>6. BusyOnRow' /\ ClaimsPending' /\ DistinctClaims'
  BY <1>1, <1>2 DEF IInv, BusyOnRow, ClaimsPending, DistinctClaims
<1>7. Tokens'
  BY <1>1, <1>2 DEF IInv, BusyOnRow, Tokens, InFlight
<1>8. Owners'
  <2>1. \A r \in Run : reclaims'[r] = 0 => ~LeaseExpired(r) /\ reclaims[r] = 0
    BY <1>3 DEF IInv, TypeOK
  <2> QED
    BY <1>1, <1>2, <2>1 DEF IInv, BusyOnRow, Owners, InFlight
<1> QED
  BY <1>5, <1>6, <1>7, <1>8 DEF IInv

\* The end of a process keeps it: its goroutines only let go.
LEMMA StopInv ==
  ASSUME IInv, NEW w \in Worker, Stop(w)
  PROVE  IInv'
<1>1. Idle \in SlotState /\ Idle.pc = "idle"
  BY PoolAssumption, LimitAssumption DEF Idle, SlotState, PC
<1>2. /\ slot' \in [Slot -> SlotState]
      /\ \A s \in Slot : slot'[s].pc = "idle" \/ slot'[s] = slot[s]
  BY <1>1 DEF IInv, TypeOK, Stop
<1>3. /\ job_runs' = job_runs /\ dead_letters' = dead_letters
      /\ reclaims' = reclaims /\ requeued' = requeued /\ buried' = buried
  BY DEF Stop, tables, history
<1>4. up' \in [Worker -> BOOLEAN] /\ faults' \in 0 .. FaultLimit
  BY PoolAssumption DEF IInv, TypeOK, Stop, Fault
<1>5. TypeOK'
  BY <1>2, <1>3, <1>4 DEF IInv, TypeOK, TablesTypeOK
<1>6. BusyOnRow' /\ ClaimsPending' /\ DistinctClaims'
  BY <1>2, <1>3 DEF IInv, BusyOnRow, ClaimsPending, DistinctClaims
<1>7. Tokens' /\ Owners'
  BY <1>2, <1>3 DEF IInv, Tokens, Owners, InFlight
<1> QED
  BY <1>5, <1>6, <1>7 DEF IInv

\* A restarted process begins with idle goroutines.
LEMMA StartInv ==
  ASSUME IInv, NEW w \in Worker, Start(w)
  PROVE  IInv'
<1>1. /\ job_runs' = job_runs /\ dead_letters' = dead_letters
      /\ slot' = slot /\ faults' = faults
      /\ reclaims' = reclaims /\ requeued' = requeued /\ buried' = buried
      /\ up' \in [Worker -> BOOLEAN]
  BY DEF IInv, TypeOK, Start, tables, history
<1> QED
  BY <1>1 DEF IInv, TypeOK, TablesTypeOK, BusyOnRow, ClaimsPending,
              DistinctClaims, Tokens, Owners, InFlight

\* Time changes neither an owner nor an attempt.
LEMMA TickInv ==
  ASSUME IInv, Tick
  PROVE  IInv'
<1>1. /\ TablesTypeOK'
      /\ \A r \in Run : /\ job_runs'[r].status = job_runs[r].status
                        /\ job_runs'[r].attempt = job_runs[r].attempt
  BY AgedEffect DEF IInv, TypeOK, Tick
<1>2. /\ slot' \in [Slot -> SlotState]
      /\ \A s \in Slot : /\ slot'[s].pc = slot[s].pc
                         /\ slot'[s].run = slot[s].run
                         /\ slot'[s].attempt = slot[s].attempt
  <2> DEFINE aged(x) == [x EXCEPT !.deadline = IF x.deadline > 0
                                               THEN x.deadline - 1 ELSE 0]
  <2>1. \A x \in SlotState : /\ aged(x) \in SlotState
                             /\ aged(x).pc = x.pc
                             /\ aged(x).run = x.run
                             /\ aged(x).attempt = x.attempt
    BY PoolAssumption DEF SlotState
  <2>2. slot' = [s \in Slot |-> aged(slot[s])]
    BY DEF Tick
  <2> HIDE DEF aged
  <2> QED
    BY <2>1, <2>2 DEF IInv, TypeOK
<1>3. /\ up' = up /\ faults' = faults
      /\ reclaims' = reclaims /\ requeued' = requeued /\ buried' = buried
  BY DEF Tick, history
<1>4. TypeOK'
  BY <1>1, <1>2, <1>3 DEF IInv, TypeOK
<1>5. BusyOnRow' /\ ClaimsPending' /\ DistinctClaims'
  BY <1>1, <1>2 DEF IInv, BusyOnRow, ClaimsPending, DistinctClaims
<1>6. Tokens' /\ Owners'
  BY <1>1, <1>2, <1>3 DEF IInv, BusyOnRow, Tokens, Owners, InFlight
<1> QED
  BY <1>4, <1>5, <1>6 DEF IInv

-----------------------------------------------------------------------------
(* The invariant holds.                                                    *)

\* The empty tables and idle goroutines satisfy the invariant.
LEMMA InitIInv == Init => IInv
<1> SUFFICES ASSUME Init PROVE IInv
  OBVIOUS
<1>1. NoRow \in Row
  BY LimitAssumption DEF NoRow, Row, RunStatus
<1>2. Idle \in SlotState /\ Idle.pc = "idle"
  BY PoolAssumption, LimitAssumption DEF Idle, SlotState, PC
<1>3. TypeOK
  BY <1>1, <1>2, PoolAssumption
     DEF Init, TablesInit, TypeOK, TablesTypeOK
<1>4. \A s \in Slot : slot[s].pc = "idle"
  BY <1>2 DEF Init
<1> QED
  BY <1>3, <1>4 DEF IInv, BusyOnRow, ClaimsPending, DistinctClaims, Tokens,
                    Owners, InFlight

\* Every step of the workers, the promoter and time keeps the invariant.
LEMMA NextIInv == IInv /\ [Next]_vars => IInv'
<1> SUFFICES ASSUME IInv, [Next]_vars PROVE IInv'
  OBVIOUS
<1>1. CASE \E r \in Run, at \in -MaxAge .. 0 : Promote(r, at)
  BY <1>1, PromoteInv, LimitAssumption
<1>2. CASE \E s \in Slot : LeaseLoop(s)
  BY <1>2, SelectRunInv, LeaseRunInv, LeaseRollbackInv, LeaseAnswerLostInv
     DEF LeaseLoop
<1>3. CASE \E s \in Slot : ExecuteOne(s)
  BY <1>3, StartHandlerInv, HandlerReturnsInv, CompleteInv, RetryInv, FailInv,
     BuryInv DEF ExecuteOne
<1>4. CASE \E w \in Worker : Janitor(w) \/ Stop(w) \/ Start(w)
  BY <1>4, JanitorInv, StopInv, StartInv
<1>5. CASE Tick
  BY <1>5, TickInv
<1>6. CASE UNCHANGED vars
  BY <1>6 DEF vars, tables, pool, history, IInv, TypeOK, TablesTypeOK,
              BusyOnRow, ClaimsPending, DistinctClaims, Tokens, Owners, InFlight
<1> QED
  BY <1>1, <1>2, <1>3, <1>4, <1>5, <1>6 DEF Next, Step

\* The inductive invariant holds in every reachable state.
THEOREM Invariance == Spec => []IInv
<1> QED
  BY InitIInv, NextIInv, PTL DEF Spec

\* Every variable keeps its type: attempt stays in the SMALLINT column, a
\* goroutine's copy of the run stays well formed.
THEOREM TypeCorrect == Spec => []TypeOK
<1>1. IInv => TypeOK
  BY DEF IInv
<1> QED
  BY <1>1, Invariance, PTL

\* LeaseNextRun's increment inside the claiming transaction makes attempt a
\* fencing token, whatever leases, handlers and faults do.
THEOREM FencingToken == Spec => []AttemptIsFencingToken
<1>1. IInv => AttemptIsFencingToken
  BY DEF IInv, TypeOK, TablesTypeOK, Row, SlotState, Tokens, InFlight,
         AttemptIsFencingToken, Holds
<1> QED
  BY <1>1, Invariance, PTL

\* A run that was never reclaimed has at most one executor.
THEOREM SoleExecutorTheorem == Spec => []SoleExecutor
<1>1. IInv => SoleExecutor
  BY DEF IInv, Tokens, Owners, InFlight, SoleExecutor, Holds
<1> QED
  BY <1>1, Invariance, PTL

-----------------------------------------------------------------------------
(* What one step may do to a row, whoever takes it.                        *)

USE SMTT(20), ZenonT(20)

SameHistory(r) ==
    /\ reclaims'[r] = reclaims[r]
    /\ requeued'[r] = requeued[r]
    /\ buried'[r] = buried[r]
    /\ dead_letters'[r] = dead_letters[r]

RowKept(r) ==
    /\ job_runs'[r].status = job_runs[r].status
    /\ job_runs[r].lease_expires_at # NULL => job_runs'[r].lease_expires_at # NULL
    /\ job_runs'[r].attempt = job_runs[r].attempt
    /\ SameHistory(r)

RowCreated(r) ==
    /\ job_runs[r].status = "absent"
    /\ job_runs'[r].status = "pending"
    /\ job_runs'[r].attempt = 0
    /\ SameHistory(r)

RowLeased(r) ==
    /\ job_runs[r].status = "pending"
    /\ job_runs'[r].status = "leased"
    /\ job_runs'[r].attempt = job_runs[r].attempt + 1
    /\ job_runs'[r].lease_expires_at # NULL
    /\ SameHistory(r)

\* by the goroutine that executes the run
RowWritten(r) ==
    /\ \E s \in Slot : InFlight(s) /\ slot[s].run = r
    /\ job_runs'[r].status \in {"running", "succeeded", "failed"}
    /\ job_runs'[r].attempt = job_runs[r].attempt
    /\ SameHistory(r)

RowRequeued(r) ==
    /\ \E s \in Slot :
          /\ slot[s].pc = "retry" /\ slot[s].run = r
          /\ requeued'[r] = requeued[r] \cup {slot[s].attempt}
          /\ slot'[s].pc = "idle"
    /\ job_runs'[r].status = "pending"
    /\ job_runs'[r].attempt = job_runs[r].attempt
    /\ reclaims'[r] = reclaims[r]
    /\ buried'[r] = buried[r]
    /\ dead_letters'[r] = dead_letters[r]

RowBuried(r) ==
    /\ \E s \in Slot :
          /\ slot[s].pc = "bury" /\ slot[s].run = r
          /\ buried'[r] = buried[r] \cup {slot[s].attempt}
          /\ slot'[s].pc = "idle"
    /\ job_runs'[r].status = "dead"
    /\ job_runs'[r].attempt = job_runs[r].attempt
    /\ dead_letters'[r] = dead_letters[r] + 1
    /\ reclaims'[r] = reclaims[r]
    /\ requeued'[r] = requeued[r]

RowReclaimed(r) ==
    /\ job_runs[r].status \in {"leased", "running"}
    /\ job_runs'[r].status = "pending"
    /\ job_runs'[r].attempt = job_runs[r].attempt
    /\ reclaims'[r] = reclaims[r] + 1
    /\ requeued'[r] = requeued[r]
    /\ buried'[r] = buried[r]
    /\ dead_letters'[r] = dead_letters[r]

RowStep(r) ==
    \/ RowKept(r) \/ RowCreated(r) \/ RowLeased(r)
    \/ RowWritten(r) \/ RowRequeued(r) \/ RowBuried(r) \/ RowReclaimed(r)

\* What the steps of leaseLoop may do to a row.
LEMMA LeaseLoopRows ==
  ASSUME IInv, NEW s \in Slot, LeaseLoop(s)
  PROVE  \A r \in Run : RowStep(r)
<1>1. CASE SelectRun(s) \/ LeaseRollback(s)
  BY <1>1 DEF SelectRun, LeaseRollback, tables, history, RowStep, RowKept,
              SameHistory
<1>2. CASE LeaseRun(s) \/ LeaseAnswerLost(s)
  <2> DEFINE q == slot[s].run
  <2>1. /\ TablesTypeOK /\ q \in Run
        /\ job_runs[q].status = "pending"
        /\ job_runs[q].attempt < MaxSmallint
        /\ TakeLease(q) /\ dead_letters' = dead_letters
        /\ reclaims' = reclaims /\ requeued' = requeued /\ buried' = buried
    BY <1>2 DEF IInv, TypeOK, BusyOnRow, ClaimsPending, LeaseRun,
                LeaseAnswerLost, TakeLease, history
  <2>2. /\ Others(q)
        /\ job_runs'[q].status = "leased"
        /\ job_runs'[q].attempt = job_runs[q].attempt + 1
        /\ job_runs'[q].lease_expires_at # NULL
    <3>1. LeaseDuration # NULL
      BY LimitAssumption, NullAssumption
    <3> HIDE DEF q
    <3> QED BY <2>1, <3>1, TakeLeaseEffect
  <2>3. RowLeased(q)
    BY <2>1, <2>2 DEF RowLeased, SameHistory
  <2>4. \A r \in Run \ {q} : RowKept(r)
    BY <2>1, <2>2 DEF RowKept, Others, SameHistory
  <2> QED
    BY <2>1, <2>3, <2>4 DEF RowStep
<1> QED
  BY <1>1, <1>2 DEF LeaseLoop

\* What the steps of executeOne may do to a row.
LEMMA ExecuteOneRows ==
  ASSUME IInv, NEW s \in Slot, ExecuteOne(s)
  PROVE  \A r \in Run : RowStep(r)
<1> DEFINE q == slot[s].run
<1>1. InFlight(s) /\ q \in Run /\ TypeOK
  BY DEF ExecuteOne, StartHandler, HandlerSucceeds, HandlerFails, Complete,
         Retry, Fail, Bury, InFlight, IInv, BusyOnRow
<1>2. reclaims' = reclaims
  BY DEF ExecuteOne, StartHandler, HandlerSucceeds, HandlerFails, Complete,
         Retry, Fail, Bury, history
<1>3. CASE /\ job_runs' = job_runs /\ dead_letters' = dead_letters
           /\ requeued' = requeued /\ buried' = buried
  BY <1>2, <1>3 DEF RowStep, RowKept, SameHistory
<1>4. CASE /\ MarkRunning(q) \/ CompleteRun(q) \/ FailRun(q)
           /\ requeued' = requeued /\ buried' = buried
  <2>1. /\ Others(q) /\ dead_letters' = dead_letters
        /\ job_runs'[q].status \in {"running", "succeeded", "failed"}
        /\ job_runs'[q].attempt = job_runs[q].attempt
    BY <1>1, <1>4, StatusEffect
       DEF TypeOK, RunStatus, MarkRunning, CompleteRun, FailRun
  <2>2. RowWritten(q)
    BY <1>1, <1>2, <1>4, <2>1 DEF RowWritten, SameHistory
  <2>3. \A r \in Run \ {q} : RowKept(r)
    BY <1>2, <1>4, <2>1 DEF RowKept, Others, SameHistory
  <2> QED
    BY <2>2, <2>3 DEF RowStep
<1>5. CASE /\ Retry(s)
           /\ RequeueRun(q, Backoff[slot[s].attempt])
           /\ requeued' = [requeued EXCEPT ![q] = @ \cup {slot[s].attempt}]
           /\ buried' = buried
  <2>1. Backoff[slot[s].attempt] \in Int
    BY <1>1, PoolAssumption
       DEF IInv, Tokens, TypeOK, TablesTypeOK, Row, SlotState
  <2>2. /\ Others(q) /\ dead_letters' = dead_letters
        /\ job_runs'[q].status = "pending"
        /\ job_runs'[q].attempt = job_runs[q].attempt
    BY <1>1, <1>5, <2>1, StatusEffect DEF TypeOK, RunStatus, RequeueRun
  <2>3. slot[s].pc = "retry" /\ slot'[s].pc = "idle"
    BY <1>1, <1>5, SlotIdle DEF Retry, TypeOK
  <2>4. requeued'[q] = requeued[q] \cup {slot[s].attempt}
    BY <1>1, <1>5 DEF TypeOK
  <2>5. RowRequeued(q)
    BY <1>1, <1>2, <1>5, <2>2, <2>3, <2>4 DEF RowRequeued
  <2>6. \A r \in Run \ {q} : RowKept(r)
    BY <1>1, <1>2, <1>5, <2>2 DEF RowKept, Others, SameHistory, TypeOK
  <2> QED
    BY <2>5, <2>6 DEF RowStep
<1>6. CASE /\ Bury(s)
           /\ MarkDead(q)
           /\ buried' = [buried EXCEPT ![q] = @ \cup {slot[s].attempt}]
           /\ requeued' = requeued
  <2>1. /\ Others(q)
        /\ job_runs'[q].status = "dead"
        /\ job_runs'[q].attempt = job_runs[q].attempt
    BY <1>1, <1>6, StatusEffect DEF TypeOK, RunStatus
  <2>2. slot[s].pc = "bury" /\ slot'[s].pc = "idle"
    BY <1>1, <1>6, SlotIdle DEF Bury, TypeOK
  <2>3. /\ buried'[q] = buried[q] \cup {slot[s].attempt}
        /\ dead_letters'[q] = dead_letters[q] + 1
        /\ \A r \in Run \ {q} : /\ buried'[r] = buried[r]
                                /\ dead_letters'[r] = dead_letters[r]
    BY <1>1, <1>6 DEF TypeOK, TablesTypeOK, MarkDead
  <2>4. RowBuried(q)
    BY <1>1, <1>2, <1>6, <2>1, <2>2, <2>3 DEF RowBuried
  <2>5. \A r \in Run \ {q} : RowKept(r)
    BY <1>2, <1>6, <2>1, <2>3 DEF RowKept, Others, SameHistory
  <2> QED
    BY <2>4, <2>5 DEF RowStep
<1> QED
  BY <1>3, <1>4, <1>5, <1>6
     DEF ExecuteOne, StartHandler, HandlerSucceeds, HandlerFails, Complete,
         Retry, Fail, Bury, StoreError, tables, history

\* Every step of the pool is a RowStep of every row.
LEMMA RowSteps == IInv /\ [Next]_vars => \A r \in Run : RowStep(r)
<1> SUFFICES ASSUME IInv, [Next]_vars PROVE \A r \in Run : RowStep(r)
  OBVIOUS
<1>1. CASE \E r \in Run, at \in -MaxAge .. 0 : Promote(r, at)
  <2>1. PICK q \in Run, at \in -MaxAge .. 0 : Promote(q, at)
    BY <1>1
  <2>0. at \in Int
    BY LimitAssumption
  <2>2. /\ Others(q) /\ dead_letters' = dead_letters
        /\ job_runs[q].status = "absent"
        /\ job_runs'[q].status = "pending"
        /\ job_runs'[q].attempt = 0
    BY <2>0, <2>1, CreateRunEffect DEF Promote, IInv, TypeOK
  <2> QED
    BY <2>1, <2>2 DEF Promote, history, Others, SameHistory, RowStep, RowKept,
                      RowCreated
<1>2. CASE \E w \in Worker : Janitor(w)
  <2>1. /\ dead_letters' = dead_letters
        /\ \A r \in Run :
              /\ job_runs'[r].attempt = job_runs[r].attempt
              /\ LeaseExpired(r) => /\ job_runs'[r].status = "pending"
                                    /\ job_runs[r].status \in {"leased", "running"}
              /\ ~LeaseExpired(r) => job_runs'[r] = job_runs[r]
    BY <1>2, ReclaimEffect DEF Janitor, IInv, TypeOK
  <2>2. /\ requeued' = requeued /\ buried' = buried
        /\ \A r \in Run : reclaims'[r] = IF LeaseExpired(r) THEN reclaims[r] + 1
                                                             ELSE reclaims[r]
    BY <1>2 DEF Janitor
  <2> QED
    BY <2>1, <2>2 DEF RowStep, RowKept, RowReclaimed, SameHistory
<1>3. CASE \E w \in Worker : Stop(w) \/ Start(w)
  BY <1>3 DEF Stop, Start, tables, history, RowStep, RowKept, SameHistory
<1>4. CASE Tick
  <2>1. \A r \in Run : /\ job_runs'[r].status = job_runs[r].status
                       /\ job_runs'[r].attempt = job_runs[r].attempt
                       /\ job_runs[r].lease_expires_at # NULL =>
                            job_runs'[r].lease_expires_at # NULL
    BY <1>4, AgedEffect DEF Tick, IInv, TypeOK
  <2> QED
    BY <1>4, <2>1 DEF Tick, history, RowStep, RowKept, SameHistory
<1>5. CASE UNCHANGED vars
  BY <1>5 DEF vars, tables, history, RowStep, RowKept, SameHistory
<1> QED
  BY <1>1, <1>2, <1>3, <1>4, <1>5, LeaseLoopRows, ExecuteOneRows DEF Next, Step

\* succeeded and dead are final for a run that was never reclaimed.
THEOREM FinalUnlessReclaimedTheorem == Spec => FinalUnlessReclaimed
<1>1. IInv /\ [Next]_vars =>
         [\A r \in Run :
            job_runs[r].status \in {"succeeded", "dead"} /\ reclaims[r] = 0
               => job_runs'[r].status = job_runs[r].status]_vars
  <2> SUFFICES ASSUME IInv, [Next]_vars, NEW r \in Run,
                      job_runs[r].status \in {"succeeded", "dead"},
                      reclaims[r] = 0
               PROVE  job_runs'[r].status = job_runs[r].status
    OBVIOUS
  <2>1. RowStep(r)
    BY RowSteps
  <2>2. ~ \E s \in Slot : InFlight(s) /\ slot[s].run = r
    BY DEF IInv, Owners
  <2> QED
    BY <2>1, <2>2 DEF RowStep, RowKept, RowCreated, RowLeased, RowWritten,
                      RowRequeued, RowBuried, RowReclaimed,
                      InFlight
<1> QED
  BY <1>1, Invariance, PTL DEF Spec, FinalUnlessReclaimed

\* The janitor sees every lease expire, and every dead run has its letter.
THEOREM RowsConsistentTheorem == Spec => []RowsConsistent
<1>1. Init => RowsConsistent
  <2> SUFFICES ASSUME Init, NEW r \in Run PROVE job_runs[r].status = "absent"
    BY DEF RowsConsistent
  <2> QED BY DEF Init, TablesInit, NoRow
<1>2. IInv /\ RowsConsistent /\ [Next]_vars => RowsConsistent'
  <2> SUFFICES ASSUME IInv, RowsConsistent, [Next]_vars, NEW r \in Run
               PROVE  /\ job_runs'[r].status = "leased" => job_runs'[r].lease_expires_at # NULL
                      /\ job_runs'[r].status = "dead" => dead_letters'[r] > 0
    BY DEF RowsConsistent
  <2>1. RowStep(r) /\ dead_letters[r] \in Nat
    BY RowSteps DEF IInv, TypeOK, TablesTypeOK
  <2>2. CASE RowKept(r)
    BY <2>2 DEF RowsConsistent, RowKept, SameHistory
  <2>3. CASE RowLeased(r)
    BY <2>3 DEF RowLeased
  <2>4. CASE RowBuried(r)
    BY <2>1, <2>4 DEF RowBuried
  <2>5. CASE RowCreated(r) \/ RowWritten(r) \/ RowRequeued(r) \/ RowReclaimed(r)
    BY <2>5 DEF RowCreated, RowWritten, RowRequeued, RowReclaimed
  <2> QED
    BY <2>1, <2>2, <2>3, <2>4, <2>5 DEF RowStep
<1> QED
  BY <1>1, <1>2, Invariance, PTL DEF Spec

-----------------------------------------------------------------------------
(* Timely workers.  As long as time passes only while goroutines are idle  *)
(* or in a handler with time left, the lease of a run outlasts the         *)
(* deadline of whoever executes it; so the janitor finds no expired lease  *)
(* of a run in flight, and a run has one executor.                         *)

\* Goroutine s has the row it executes, under a lease that covers its deadline.
Backed(s) ==
    LET row == job_runs[slot[s].run] IN
    /\ row.status \in {"leased", "running", "failed"}
    /\ row.status = "failed" => slot[s].pc = "bury"
    /\ row.lease_expires_at \in Int /\ row.lease_expires_at >= slot[s].deadline
    /\ slot[s].pc = "leased" => row.lease_expires_at = LeaseDuration

SingleOwner ==
    \A s, t \in Slot : InFlight(s) /\ InFlight(t) /\ slot[s].run = slot[t].run => s = t

TInv == IInv /\ SingleOwner /\ \A s \in Slot : InFlight(s) => Backed(s)

\* A row that is not leased, running or failed is nobody's.
LEMMA Unowned ==
  ASSUME TInv, NEW r \in Run, job_runs[r].status \in {"absent", "pending", "succeeded", "dead"},
         NEW s \in Slot, InFlight(s)
  PROVE  slot[s].run # r
BY DEF TInv, Backed

\* Rows in flight are not expired, and deadlines are never negative.
LEMMA BackedNotExpired ==
  ASSUME TInv, NEW s \in Slot, InFlight(s)
  PROVE  /\ slot[s].deadline \in Nat /\ slot[s].run \in Run
         /\ job_runs[slot[s].run].lease_expires_at \in Nat
         /\ ~LeaseExpired(slot[s].run)
<1>1. slot[s].deadline \in Nat /\ slot[s].run \in Run
  BY PoolAssumption DEF TInv, IInv, TypeOK, SlotState, BusyOnRow, InFlight
<1>2. job_runs[slot[s].run].lease_expires_at \in Nat
  BY <1>1 DEF TInv, Backed
<1> QED BY <1>1, <1>2 DEF LeaseExpired

\* Where a step of executeOne takes its goroutine.
LEMMA ExecuteOneMoves ==
  ASSUME NEW s \in Slot, ExecuteOne(s)
  PROVE  /\ InFlight(s)
         /\ GoIdle(s) \/ \E p \in PC, d \in 0 .. Timeout : Goto(s, p, d)
<1>0. Timeout \in 0 .. Timeout /\ 0 \in 0 .. Timeout
  BY PoolAssumption
<1>1. CASE StartHandler(s)
  <2>1. slot[s].pc = "leased" /\ Goto(s, "handler", Timeout)
    BY <1>1 DEF StartHandler
  <2> QED BY <1>0, <2>1 DEF PC, InFlight
<1>2. CASE HandlerSucceeds(s)
  <2>1. slot[s].pc = "handler" /\ Goto(s, "complete", 0)
    BY <1>2 DEF HandlerSucceeds
  <2> QED BY <1>0, <2>1 DEF PC, InFlight
<1>3. CASE HandlerFails(s)
  <2>1. slot[s].pc = "handler" /\ (Goto(s, "retry", 0) \/ Goto(s, "fail", 0))
    BY <1>3 DEF HandlerFails
  <2> QED BY <1>0, <2>1 DEF PC, InFlight
<1>4. CASE Fail(s)
  <2>1. slot[s].pc \in {"fail", "leased"} /\ Goto(s, "bury", 0)
    BY <1>4 DEF Fail
  <2> QED BY <1>0, <2>1 DEF PC, InFlight
<1>5. CASE Complete(s) \/ Retry(s) \/ Bury(s)
  <2>1. slot[s].pc \in {"complete", "retry", "bury"} /\ GoIdle(s)
    BY <1>5 DEF Complete, Retry, Bury
  <2> QED BY <2>1 DEF InFlight
<1> QED BY <1>1, <1>2, <1>3, <1>4, <1>5 DEF ExecuteOne

\* Every step of executeOne is about one goroutine and the row it executes.
LEMMA ExecuteOneFrame ==
  ASSUME IInv, NEW s \in Slot, ExecuteOne(s)
  PROVE  /\ InFlight(s) /\ slot[s].run \in Run /\ Others(slot[s].run)
         /\ \A t \in Slot \ {s} : slot'[t] = slot[t]
         /\ \/ ~InFlight(s)'
            \/ InFlight(s)' /\ slot'[s].run = slot[s].run
<1> DEFINE r == slot[s].run
<1>1. /\ InFlight(s) /\ r \in Run /\ TablesTypeOK /\ slot \in [Slot -> SlotState]
      /\ slot[s].attempt \in 1 .. MaxSmallint
  <2>1. InFlight(s)
    BY ExecuteOneMoves
  <2>2. TablesTypeOK /\ slot \in [Slot -> SlotState]
    BY DEF IInv, TypeOK
  <2>3. r \in Run
    BY <2>1 DEF IInv, BusyOnRow, InFlight
  <2>4. slot[s].attempt \in 1 .. job_runs[r].attempt /\ job_runs[r].attempt \in 0 .. MaxSmallint
    BY <2>1, <2>2, <2>3 DEF IInv, Tokens, TablesTypeOK, Row
  <2> QED BY <2>1, <2>2, <2>3, <2>4, LimitAssumption
<1>2. Others(r)
  BY <1>1 DEF ExecuteOne, StartHandler, HandlerSucceeds, HandlerFails, Complete, Retry, Fail, Bury,
       StoreError, tables, MarkRunning, CompleteRun, RequeueRun, FailRun, MarkDead, Others,
       TablesTypeOK
<1>3. /\ \A t \in Slot \ {s} : slot'[t] = slot[t]
      /\ slot'[s].pc = "idle" \/ slot'[s].run = r
  BY <1>1, ExecuteOneMoves, SlotMove, SlotIdle
<1> QED BY <1>1, <1>2, <1>3 DEF InFlight

\* The others of a step of executeOne keep what backs them.
LEMMA HolderTimely ==
  ASSUME TInv, IInv', NEW s \in Slot, ExecuteOne(s), InFlight(s)' => Backed(s)'
  PROVE  TInv'
<1>1. /\ InFlight(s) /\ slot[s].run \in Run /\ Others(slot[s].run)
      /\ \A t \in Slot \ {s} : slot'[t] = slot[t]
      /\ \/ ~InFlight(s)'
         \/ InFlight(s)' /\ slot'[s].run = slot[s].run
  BY ExecuteOneFrame DEF TInv
<1>2. \A t \in Slot \ {s} : InFlight(t)' <=> InFlight(t)
  BY <1>1 DEF InFlight
<1>3. SingleOwner'
  BY <1>1, <1>2 DEF TInv, SingleOwner
<1>4. ASSUME NEW t \in Slot \ {s}, InFlight(t)' PROVE Backed(t)'
  <2>1. /\ slot'[t] = slot[t] /\ slot[t].run # slot[s].run /\ slot[t].run \in Run /\ Backed(t)
    BY <1>1, <1>2, <1>4, BackedNotExpired DEF TInv, SingleOwner
  <2>2. job_runs'[slot[t].run] = job_runs[slot[t].run]
    BY <1>1, <2>1 DEF Others
  <2> QED BY <2>1, <2>2 DEF Backed
<1> QED BY <1>3, <1>4 DEF TInv

LEMMA ExecuteOneTimely ==
  ASSUME Timeout <= LeaseDuration, TInv, IInv', NEW s \in Slot, ExecuteOne(s)
  PROVE  TInv'
<1> DEFINE r == slot[s].run
<1>1. /\ InFlight(s) /\ r \in Run /\ TablesTypeOK /\ slot \in [Slot -> SlotState] /\ TypeOK
      /\ Backed(s)
  BY ExecuteOneFrame DEF TInv, IInv, TypeOK
<1>2. job_runs[r].lease_expires_at \in Nat
  BY <1>1, BackedNotExpired
<1>3. CASE Complete(s) \/ Retry(s) \/ Bury(s)
  <2>1. ~InFlight(s)'
    BY <1>1, <1>3, SlotIdle DEF Complete, Retry, Bury, InFlight
  <2> QED BY <2>1, HolderTimely
<1>4. CASE StartHandler(s)
  <2>1. slot'[s].pc = "handler" /\ slot'[s].run = r /\ slot'[s].deadline = Timeout
    BY <1>1, <1>4, SlotMove, PoolAssumption DEF StartHandler, PC
  <2>2. /\ slot[s].pc = "leased" /\ job_runs[r].lease_expires_at = LeaseDuration
        /\ job_runs[r].status \in {"leased", "running"}
    BY <1>1, <1>4 DEF StartHandler, Backed
  <2>3. /\ job_runs'[r].status \in {"leased", "running"}
        /\ job_runs'[r].lease_expires_at = LeaseDuration
    <3>1. CASE MarkRunning(r)
      BY <1>1, <2>2, <3>1, StatusEffect DEF RunStatus
    <3>2. CASE StoreError
      BY <2>2, <3>2 DEF StoreError, tables
    <3> QED BY <1>4, <3>1, <3>2 DEF StartHandler
  <2>4. Backed(s)'
    BY <2>1, <2>3, LimitAssumption DEF Backed
  <2> QED BY <2>4, HolderTimely
<1>5. CASE HandlerSucceeds(s) \/ HandlerFails(s)
  <2>1. PICK p \in {"complete", "retry", "fail"} : Goto(s, p, 0)
    BY <1>5 DEF HandlerSucceeds, HandlerFails
  <2>2. slot'[s].pc = p /\ slot'[s].run = r /\ slot'[s].deadline = 0
    BY <1>1, <2>1, SlotMove, PoolAssumption DEF PC
  <2>3. job_runs' = job_runs /\ slot[s].pc = "handler"
    BY <1>5 DEF HandlerSucceeds, HandlerFails, tables
  <2>4. Backed(s)'
    BY <1>1, <1>2, <2>2, <2>3 DEF Backed
  <2> QED BY <2>4, HolderTimely
<1>6. CASE Fail(s)
  <2>1. slot'[s].pc = "bury" /\ slot'[s].run = r /\ slot'[s].deadline = 0
    BY <1>1, <1>6, SlotMove, PoolAssumption DEF Fail, PC
  <2>2. /\ job_runs'[r].status \in {"leased", "running", "failed"}
        /\ job_runs'[r].lease_expires_at = job_runs[r].lease_expires_at
    <3>1. CASE FailRun(r)
      BY <1>1, <3>1, StatusEffect DEF RunStatus
    <3>2. CASE StoreError
      BY <1>1, <3>2 DEF StoreError, tables, Backed
    <3> QED BY <1>6, <3>1, <3>2 DEF Fail
  <2>3. Backed(s)'
    BY <1>2, <2>1, <2>2 DEF Backed
  <2> QED BY <2>3, HolderTimely
<1> QED BY <1>3, <1>4, <1>5, <1>6 DEF ExecuteOne

\* A step that neither lengthens anyone's execution nor touches a row in flight.
LEMMA QuietTimely ==
  ASSUME TInv, IInv',
         \A s \in Slot : InFlight(s)' =>
            /\ InFlight(s) /\ slot'[s] = slot[s]
            /\ job_runs'[slot[s].run] = job_runs[slot[s].run]
  PROVE  TInv'
<1>1. SingleOwner'
  BY DEF TInv, SingleOwner
<1>2. ASSUME NEW s \in Slot, InFlight(s)' PROVE Backed(s)'
  <2>1. /\ slot'[s] = slot[s] /\ job_runs'[slot[s].run] = job_runs[slot[s].run]
        /\ Backed(s)
    BY <1>2 DEF TInv
  <2> QED BY <2>1 DEF Backed
<1> QED BY <1>1, <1>2 DEF TInv

\* The row of an open lease transaction is nobody's; SelectRun and a rollback
\* change nothing in flight.
LEMMA LeaseLoopTimely ==
  ASSUME Timeout <= LeaseDuration, TInv, IInv', NEW s \in Slot, LeaseLoop(s)
  PROVE  TInv'
<1> DEFINE r == slot[s].run
<1>1. TablesTypeOK /\ slot \in [Slot -> SlotState] /\ ~InFlight(s)
  BY DEF TInv, IInv, TypeOK, LeaseLoop, SelectRun, LeaseRun, LeaseRollback, LeaseAnswerLost,
         InFlight
<1>2. \A t \in Slot \ {s} : slot'[t] = slot[t] /\ (InFlight(t)' <=> InFlight(t))
  BY <1>1 DEF LeaseLoop, SelectRun, LeaseRun, LeaseRollback, LeaseAnswerLost, GoIdle, InFlight
<1>3. CASE SelectRun(s) \/ LeaseRollback(s)
  <2>1. ~InFlight(s)' /\ job_runs' = job_runs
    BY <1>1, <1>3, SlotIdle DEF SelectRun, LeaseRollback, Claiming, InFlight, tables
  <2> QED BY <1>2, <2>1, QuietTimely
<1>4. CASE LeaseRun(s) \/ LeaseAnswerLost(s)
  <2>1. /\ r \in Run /\ job_runs[r].status = "pending" /\ job_runs[r].attempt < MaxSmallint
        /\ TakeLease(r)
    BY <1>4 DEF TInv, IInv, BusyOnRow, ClaimsPending, LeaseRun, LeaseAnswerLost
  <2>2. /\ Others(r) /\ job_runs'[r].status = "leased"
        /\ job_runs'[r].lease_expires_at = LeaseDuration
    BY <1>1, <2>1, TakeLeaseEffect
  <2>3. \A t \in Slot \ {s} : InFlight(t) => /\ slot[t].run # r /\ slot[t].run \in Run
                                             /\ job_runs'[slot[t].run] = job_runs[slot[t].run]
    BY <2>1, <2>2, Unowned, BackedNotExpired DEF Others
  <2>4. CASE LeaseAnswerLost(s)
    <3>1. ~InFlight(s)'
      BY <1>1, <2>4, SlotIdle DEF LeaseAnswerLost, InFlight
    <3> QED BY <1>2, <2>3, <3>1, QuietTimely
  <2>5. CASE LeaseRun(s)
    <3>1. /\ slot'[s].run = r /\ slot'[s].pc = "leased" /\ slot'[s].deadline = slot[s].deadline
          /\ slot[s].deadline \in 0 .. Timeout
      BY <1>1, <2>5 DEF LeaseRun, SlotState
    <3>2. LeaseDuration \in Int /\ LeaseDuration >= slot[s].deadline
      BY <3>1, LimitAssumption, PoolAssumption
    <3>3. Backed(s)'
      BY <2>2, <3>1, <3>2 DEF Backed
    <3>4. \A t \in Slot \ {s} : InFlight(t)' => Backed(t)'
      BY <1>2, <2>3 DEF TInv, Backed
    <3>5. SingleOwner'
      BY <1>2, <2>3, <3>1 DEF TInv, SingleOwner
    <3> QED BY <3>3, <3>4, <3>5 DEF TInv
  <2> QED BY <1>4, <2>4, <2>5
<1> QED BY <1>3, <1>4 DEF LeaseLoop

LEMMA PromptTickTimely == ASSUME TInv, IInv', PromptTick PROVE TInv'
<1>1. /\ TablesTypeOK /\ slot \in [Slot -> SlotState]
      /\ slot' = [s \in Slot |-> [slot[s] EXCEPT !.deadline = IF @ > 0 THEN @ - 1 ELSE 0]]
      /\ job_runs' = [r \in Run |-> Aged(job_runs[r])] /\ UNCHANGED dead_letters
  BY DEF PromptTick, Tick, TInv, IInv, TypeOK
<1>2. ASSUME NEW s \in Slot
      PROVE  /\ slot'[s].pc = slot[s].pc /\ slot'[s].run = slot[s].run
             /\ slot'[s].deadline = IF slot[s].deadline > 0 THEN slot[s].deadline - 1 ELSE 0
             /\ InFlight(s)' <=> InFlight(s)
  BY <1>1 DEF SlotState, InFlight
<1>3. SingleOwner'
  BY <1>2 DEF TInv, SingleOwner
<1>4. ASSUME NEW s \in Slot, InFlight(s)' PROVE Backed(s)'
  <2> DEFINE r == slot[s].run
  <2>1. /\ InFlight(s) /\ Backed(s) /\ r \in Run /\ slot[s].deadline \in Nat
        /\ job_runs[r].lease_expires_at \in Nat
    BY <1>2, <1>4, BackedNotExpired DEF TInv
  <2>2. slot[s].pc = "handler" /\ slot[s].deadline > 0
    BY <2>1 DEF PromptTick, Prompt, InFlight
  <2>3. /\ job_runs'[r].status = job_runs[r].status
        /\ job_runs'[r].lease_expires_at = job_runs[r].lease_expires_at - 1
    BY <1>1, <2>1, AgedEffect DEF Backed
  <2>4. slot'[s].pc = "handler" /\ slot'[s].run = r /\ slot'[s].deadline = slot[s].deadline - 1
    BY <1>2, <2>2
  <2>5. /\ job_runs[r].status \in {"leased", "running"}
        /\ job_runs[r].lease_expires_at >= slot[s].deadline
    BY <2>1, <2>2 DEF Backed
  <2> HIDE DEF r
  <2>6. /\ job_runs'[r].lease_expires_at \in Int
        /\ job_runs'[r].lease_expires_at >= slot'[s].deadline
    BY <2>1, <2>3, <2>4, <2>5
  <2> QED BY <2>3, <2>4, <2>5, <2>6 DEF Backed
<1> QED BY <1>3, <1>4 DEF TInv

LEMMA TimelyStep ==
  ASSUME Timeout <= LeaseDuration, TInv, [TimelyNext]_vars
  PROVE  TInv'
<1>1. IInv'
  BY NextIInv DEF TInv, TimelyNext, PromptTick, Next
<1>2. TypeOK
  BY DEF TInv, IInv
<1>3. CASE \E r \in Run, at \in -MaxAge .. 0 : Promote(r, at)
  <2>1. PICK r \in Run, at \in -MaxAge .. 0 : Promote(r, at)
    BY <1>3
  <2>2. Others(r) /\ job_runs[r].status = "absent" /\ slot' = slot
    BY <1>2, <2>1, CreateRunEffect, LimitAssumption DEF Promote, TypeOK, pool
  <2>3. \A s \in Slot : InFlight(s) => job_runs'[slot[s].run] = job_runs[slot[s].run]
    BY <2>2, Unowned, BackedNotExpired DEF Others
  <2>4. \A s \in Slot : InFlight(s)' <=> InFlight(s)
    BY <2>2 DEF InFlight
  <2> QED BY <1>1, <2>2, <2>3, <2>4, QuietTimely
<1>4. CASE \E w \in Worker : Janitor(w)
  <2>1. slot' = slot /\ \A r \in Run : ~LeaseExpired(r) => job_runs'[r] = job_runs[r]
    BY <1>2, <1>4, ReclaimEffect DEF Janitor, TypeOK, pool
  <2>2. \A s \in Slot : InFlight(s)' <=> InFlight(s)
    BY <2>1 DEF InFlight
  <2> QED BY <1>1, <2>1, <2>2, BackedNotExpired, QuietTimely
<1>5. CASE \E w \in Worker : Stop(w)
  <2>1. job_runs' = job_runs /\ \A s \in Slot : slot'[s].pc = "idle" \/ slot'[s] = slot[s]
    BY <1>5 DEF Stop, tables, Idle
  <2>2. \A s \in Slot : InFlight(s)' => InFlight(s) /\ slot'[s] = slot[s]
    BY <2>1 DEF InFlight
  <2> QED BY <1>1, <2>1, <2>2, QuietTimely
<1>6. CASE (\E w \in Worker : Start(w)) \/ UNCHANGED vars
  <2>1. job_runs' = job_runs /\ slot' = slot
    BY <1>6 DEF Start, vars, tables, pool
  <2>2. \A s \in Slot : InFlight(s)' <=> InFlight(s)
    BY <2>1 DEF InFlight
  <2> QED BY <1>1, <2>1, <2>2, QuietTimely
<1> QED BY <1>1, <1>3, <1>4, <1>5, <1>6, LeaseLoopTimely, ExecuteOneTimely, PromptTickTimely
        DEF TimelyNext, Step

\* The inductive invariant of timely workers.
THEOREM TimelyInvariance == Timeout <= LeaseDuration => (TimelySpec => []TInv)
<1> SUFFICES ASSUME Timeout <= LeaseDuration PROVE TimelySpec => []TInv
  OBVIOUS
<1>1. Init => TInv
  <2>1. Init => \A s \in Slot : ~InFlight(s)
    BY DEF Init, Idle, InFlight
  <2> QED BY <2>1, InitIInv DEF TInv, SingleOwner
<1>2. TInv /\ [TimelyNext]_vars => TInv'
  BY TimelyStep
<1> QED BY <1>1, <1>2, PTL DEF TimelySpec

\* If handlers are given no more time than a lease lasts and nothing is late, a run
\* is never in two handlers at once (executeOne, janitorLoop).
THEOREM NoConcurrentExecutionTheorem ==
    Timeout <= LeaseDuration => (TimelySpec => []NoConcurrentExecution)
<1> SUFFICES ASSUME Timeout <= LeaseDuration PROVE TimelySpec => []NoConcurrentExecution
  OBVIOUS
<1>1. TInv => NoConcurrentExecution
  BY DEF TInv, SingleOwner, InFlight, NoConcurrentExecution
<1> QED BY <1>1, TimelyInvariance, PTL

\* A row that has ended is left alone.
LEMMA EndedKept ==
  ASSUME TInv, [TimelyNext]_vars, NEW r \in Run, job_runs[r].status \in {"succeeded", "dead"}
  PROVE  RowKept(r)
<1>1. RowStep(r)
  BY RowSteps DEF TInv, TimelyNext, PromptTick, Next
<1>2. ~ \E s \in Slot : InFlight(s) /\ slot[s].run = r
  BY Unowned
<1> QED
  BY <1>1, <1>2 DEF RowStep, RowCreated, RowLeased, RowWritten, RowRequeued, RowBuried,
                    RowReclaimed, InFlight

\* "A terminal run's fields never change again" (cache.go:18) is true of timely
\* workers: only an overtaken worker writes to a run that has ended.
THEOREM TimelyRunsAreFinal == Timeout <= LeaseDuration => (TimelySpec => TerminalIsFinal)
<1> SUFFICES ASSUME Timeout <= LeaseDuration PROVE TimelySpec => TerminalIsFinal
  OBVIOUS
<1>1. TInv /\ [TimelyNext]_vars =>
         [\A r \in Run : job_runs[r].status \in {"succeeded", "dead"}
             => job_runs'[r].status = job_runs[r].status]_vars
  BY EndedKept DEF RowKept
<1> QED BY <1>1, TimelyInvariance, PTL DEF TimelySpec, TerminalIsFinal

\* A run has a letter when it is dead, and no second one.
OneLetter == \A r \in Run : dead_letters[r] = IF job_runs[r].status = "dead" THEN 1 ELSE 0

\* Timely workers write one letter for each dead run and none for another, which
\* the table itself does not ensure (MarkDead).
THEOREM TimelyOneLetter == Timeout <= LeaseDuration => (TimelySpec => []OneLetter)
<1> SUFFICES ASSUME Timeout <= LeaseDuration PROVE TimelySpec => []OneLetter
  OBVIOUS
<1>1. Init => OneLetter
  <2> SUFFICES ASSUME Init, NEW r \in Run
               PROVE  dead_letters[r] = 0 /\ job_runs[r].status # "dead"
    BY DEF OneLetter
  <2> QED BY DEF Init, TablesInit, NoRow
<1>2. TInv /\ OneLetter /\ [TimelyNext]_vars => OneLetter'
  <2> SUFFICES ASSUME TInv, OneLetter, [TimelyNext]_vars, NEW r \in Run
               PROVE  dead_letters'[r] = IF job_runs'[r].status = "dead" THEN 1 ELSE 0
    BY DEF OneLetter
  <2>1. dead_letters[r] = IF job_runs[r].status = "dead" THEN 1 ELSE 0
    BY DEF OneLetter
  <2>2. CASE job_runs[r].status = "dead"
    BY <2>1, <2>2, EndedKept DEF RowKept, SameHistory
  <2>3. CASE job_runs[r].status # "dead"
    <3>1. RowStep(r)
      BY RowSteps DEF TInv, TimelyNext, PromptTick, Next
    <3>2. CASE RowBuried(r)
      <4>1. job_runs'[r].status = "dead" /\ dead_letters'[r] = dead_letters[r] + 1
        BY <3>2 DEF RowBuried
      <4> QED BY <2>1, <2>3, <4>1
    <3>3. CASE RowKept(r) \/ RowCreated(r) \/ RowLeased(r)
      BY <2>1, <2>3, <3>3 DEF RowKept, RowCreated, RowLeased, SameHistory
    <3>4. CASE RowWritten(r) \/ RowRequeued(r) \/ RowReclaimed(r)
      BY <2>1, <2>3, <3>4 DEF RowWritten, RowRequeued, RowReclaimed, SameHistory
    <3> QED BY <3>1, <3>2, <3>3, <3>4 DEF RowStep
  <2> QED BY <2>2, <2>3
<1> QED BY <1>1, <1>2, TimelyInvariance, PTL DEF TimelySpec

-----------------------------------------------------------------------------
(* Timely workers implement RunLifecycle, step by step.                    *)

\* Goroutines that keep their run, or stay out of flight, keep the holders.
LEMMA HoldersFrame ==
  ASSUME NEW r \in Run,
         \A s \in Slot : Holds(s, r)' <=> Holds(s, r)
  PROVE  Holders(r)' = Holders(r)
BY DEF Holders

\* One row changes, and its holders.
LEMMA BecomeRow ==
  ASSUME NEW r \in Run, NEW st, NEW O, Others(r), job_runs'[r].status = st,
         Holders(r)' = O, \A q \in Run \ {r} : Holders(q)' = Holders(q)
  PROVE  Lifecycle!Become(r, st, O)
BY DEF Lifecycle!Become, Others

\* A step that leaves statuses, letters and holders alone is a stutter.
LEMMA LifecycleStutter ==
  ASSUME \A r \in Run : job_runs'[r].status = job_runs[r].status /\ Holders(r)' = Holders(r),
         dead_letters' = dead_letters
  PROVE  UNCHANGED Lifecycle!lifecycle
BY DEF Lifecycle!lifecycle

\* Whoever executes a run is its only holder.
LEMMA OnlyHolder ==
  ASSUME TInv, NEW s \in Slot, InFlight(s)
  PROVE  Holders(slot[s].run) = {s}
BY DEF TInv, SingleOwner, Holders, Holds, InFlight

\* The holders after a step of one goroutine that had the run q, or had none.
LEMMA HoldersAfter ==
  ASSUME TInv, NEW s \in Slot, NEW q \in Run,
         \A t \in Slot \ {s} : slot'[t] = slot[t],
         InFlight(s) => slot[s].run = q, InFlight(s)' => slot'[s].run = q,
         InFlight(s) \/ \A t \in Slot : ~Holds(t, q)
  PROVE  /\ Holders(q)' = IF InFlight(s)' THEN {s} ELSE {}
         /\ \A r \in Run \ {q} : Holders(r)' = Holders(r)
<1>1. ASSUME NEW t \in Slot \ {s} PROVE \A r \in Run : Holds(t, r)' <=> Holds(t, r)
  BY DEF Holds
<1>2. \A t \in Slot \ {s} : ~Holds(t, q)
  BY DEF TInv, SingleOwner, Holds, InFlight
<1>3. \A r \in Run \ {q} : ~Holds(s, r) /\ ~Holds(s, r)'
  BY DEF Holds, InFlight
<1>4. Holds(s, q)' <=> InFlight(s)'
  BY DEF Holds, InFlight
<1> QED BY <1>1, <1>2, <1>3, <1>4 DEF Holders

\* Steps of leaseLoop: a claim, with an owner or without, or nothing.
LEMMA LeaseLoopLifecycle ==
  ASSUME TInv, NEW s \in Slot, LeaseLoop(s)
  PROVE  [Lifecycle!LifecycleNext]_(Lifecycle!lifecycle)
<1>1. TablesTypeOK /\ slot \in [Slot -> SlotState] /\ ~InFlight(s)
  BY DEF TInv, IInv, TypeOK, LeaseLoop, SelectRun, LeaseRun, LeaseRollback, LeaseAnswerLost,
         InFlight
<1>2. \A t \in Slot \ {s} : slot'[t] = slot[t]
  BY <1>1 DEF LeaseLoop, SelectRun, LeaseRun, LeaseRollback, LeaseAnswerLost, GoIdle
<1>3. CASE SelectRun(s) \/ LeaseRollback(s)
  <2>1. ~InFlight(s)' /\ job_runs' = job_runs /\ dead_letters' = dead_letters
    BY <1>1, <1>3, SlotIdle DEF SelectRun, LeaseRollback, Claiming, InFlight, tables
  <2>2. \A t \in Slot : \A r \in Run : Holds(t, r)' <=> Holds(t, r)
    BY <1>1, <1>2, <2>1 DEF Holds, InFlight
  <2> QED BY <2>1, <2>2, HoldersFrame, LifecycleStutter
<1>4. CASE LeaseRun(s) \/ LeaseAnswerLost(s)
  <2>1. PICK q \in Run : q = slot[s].run
    BY <1>4 DEF TInv, IInv, BusyOnRow, LeaseRun, LeaseAnswerLost
  <2>2. job_runs[q].status = "pending" /\ job_runs[q].attempt < MaxSmallint /\ TakeLease(q)
    BY <1>4, <2>1 DEF TInv, IInv, ClaimsPending, LeaseRun, LeaseAnswerLost
  <2>3. Others(q) /\ job_runs'[q].status = "leased" /\ dead_letters' = dead_letters
    BY <1>1, <2>2, TakeLeaseEffect
  <2>4. \A t \in Slot : ~Holds(t, q)
    BY <2>2, Unowned DEF Holds, InFlight
  <2>5. InFlight(s)' => slot'[s].run = q
    <3>1. CASE LeaseRun(s)
      BY <1>1, <2>1, <3>1 DEF LeaseRun, SlotState
    <3>2. CASE LeaseAnswerLost(s)
      BY <1>1, <3>2, SlotIdle DEF LeaseAnswerLost, InFlight
    <3> QED BY <1>4, <3>1, <3>2
  <2>6. /\ Holders(q)' = IF InFlight(s)' THEN {s} ELSE {}
        /\ \A r \in Run \ {q} : Holders(r)' = Holders(r)
    BY <1>1, <1>2, <2>4, <2>5, HoldersAfter
  <2>7. \E O \in {{}} \cup {{o} : o \in Slot} : Lifecycle!Become(q, "leased", O)
    <3>1. CASE InFlight(s)'
      <4>1. Lifecycle!Become(q, "leased", {s})
        BY <2>3, <2>6, <3>1, BecomeRow
      <4> QED BY <4>1
    <3>2. CASE ~InFlight(s)'
      <4>1. Lifecycle!Become(q, "leased", {})
        BY <2>3, <2>6, <3>2, BecomeRow
      <4> QED BY <4>1
    <3> QED BY <3>1, <3>2
  <2>8. Lifecycle!Claim(q)
    BY <2>2, <2>3, <2>7 DEF Lifecycle!Claim
  <2> QED BY <2>8 DEF Lifecycle!LifecycleNext
<1> QED BY <1>3, <1>4 DEF LeaseLoop

\* Runs lose their owners and nothing else happens.
LEMMA AbandonRuns ==
  ASSUME NEW S \in SUBSET Run, job_runs' = job_runs, dead_letters' = dead_letters,
         \A r \in S : Holders(r)' = {}, \A r \in Run \ S : Holders(r)' = Holders(r)
  PROVE  Lifecycle!LifecycleNext
<1>1. Lifecycle!Abandon(S)
  BY DEF Lifecycle!Abandon
<1> QED BY <1>1 DEF Lifecycle!LifecycleNext

\* Runs without an owner go back to pending.
LEMMA TakeBackRuns ==
  ASSUME NEW S \in SUBSET Run, dead_letters' = dead_letters,
         \A r \in S : job_runs[r].status \in {"leased", "running"} /\ Holders(r) = {},
         \A r \in Run : /\ job_runs'[r].status = IF r \in S THEN "pending" ELSE job_runs[r].status
                        /\ Holders(r)' = Holders(r)
  PROVE  Lifecycle!LifecycleNext
<1>1. Lifecycle!TakeBack(S)
  BY DEF Lifecycle!TakeBack
<1> QED BY <1>1 DEF Lifecycle!LifecycleNext

\* Steps of executeOne: what the owner of a run does to it, or its loss.
LEMMA ExecuteOneLifecycle ==
  ASSUME TInv, NEW s \in Slot, ExecuteOne(s)
  PROVE  [Lifecycle!LifecycleNext]_(Lifecycle!lifecycle)
<1>1. PICK q \in Run : q = slot[s].run
  BY ExecuteOneFrame DEF TInv
<1>2. /\ InFlight(s) /\ Others(q) /\ \A t \in Slot \ {s} : slot'[t] = slot[t]
      /\ InFlight(s)' => slot'[s].run = q
      /\ TablesTypeOK /\ slot \in [Slot -> SlotState] /\ TypeOK /\ Backed(s)
  BY <1>1, ExecuteOneFrame DEF TInv, IInv, TypeOK
<1>3. /\ Holders(q)' = IF InFlight(s)' THEN {s} ELSE {}
      /\ \A r \in Run \ {q} : Holders(r)' = Holders(r)
  BY <1>1, <1>2, HoldersAfter
<1>4. Holders(q) = {s} /\ Holders(q) # {}
  BY <1>1, <1>2, OnlyHolder
<1>5. /\ job_runs[q].status \in {"leased", "running", "failed"}
      /\ slot[s].pc # "bury" => job_runs[q].status \in {"leased", "running"}
  BY <1>1, <1>2 DEF Backed
<1>6. CASE job_runs' = job_runs /\ dead_letters' = dead_letters /\ InFlight(s)'
  <2>1. \A r \in Run : Holders(r)' = Holders(r)
    BY <1>3, <1>4, <1>6
  <2> QED BY <1>6, <2>1, LifecycleStutter
<1>7. CASE job_runs' = job_runs /\ dead_letters' = dead_letters /\ ~InFlight(s)'
  <2>1. {q} \in SUBSET Run /\ (\A r \in {q} : Holders(r)' = {})
        /\ \A r \in Run \ {q} : Holders(r)' = Holders(r)
    BY <1>3, <1>7
  <2> QED BY <1>7, <2>1, AbandonRuns
<1>8. CASE StartHandler(s) /\ MarkRunning(q)
  <2>1. InFlight(s)' /\ slot[s].pc = "leased"
    <3>1. slot[s].pc = "leased" /\ Goto(s, "handler", Timeout)
      BY <1>8 DEF StartHandler
    <3>2. "handler" \in PC /\ Timeout \in 0 .. Timeout
      BY PoolAssumption DEF PC
    <3>3. slot'[s].pc = "handler"
      BY <1>2, <3>1, <3>2, SlotMove
    <3> QED BY <3>1, <3>3 DEF InFlight
  <2>2. job_runs'[q].status = "running" /\ dead_letters' = dead_letters
    BY <1>2, <1>8, StatusEffect DEF RunStatus, MarkRunning
  <2>3. Lifecycle!Become(q, "running", {s})
    BY <1>2, <1>3, <1>4, <2>1, <2>2, BecomeRow
  <2>4. Lifecycle!Begin(q)
    BY <1>4, <1>5, <2>1, <2>2, <2>3 DEF Lifecycle!Begin, Lifecycle!Owned, Lifecycle!Become
  <2> QED BY <2>4 DEF Lifecycle!LifecycleNext
<1>9. CASE Complete(s) /\ CompleteRun(q)
  <2>1. ~InFlight(s)' /\ slot[s].pc = "complete"
    BY <1>2, <1>9, SlotIdle DEF Complete, InFlight
  <2>2. job_runs'[q].status = "succeeded" /\ dead_letters' = dead_letters
    BY <1>2, <1>9, StatusEffect DEF RunStatus, CompleteRun
  <2>3. Lifecycle!Become(q, "succeeded", {})
    BY <1>2, <1>3, <2>1, <2>2, BecomeRow
  <2>4. Lifecycle!Succeed(q)
    BY <1>4, <1>5, <2>1, <2>2, <2>3 DEF Lifecycle!Succeed, Lifecycle!Owned
  <2> QED BY <2>4 DEF Lifecycle!LifecycleNext
<1>10. CASE Retry(s) /\ RequeueRun(q, Backoff[slot[s].attempt])
  <2>1. ~InFlight(s)' /\ slot[s].pc = "retry"
    BY <1>2, <1>10, SlotIdle DEF Retry, InFlight
  <2>2. job_runs'[q].status = "pending" /\ dead_letters' = dead_letters
    BY <1>2, <1>10 DEF RequeueRun, TablesTypeOK, Row
  <2>3. Lifecycle!Become(q, "pending", {})
    BY <1>2, <1>3, <2>1, <2>2, BecomeRow
  <2>4. Lifecycle!Requeue(q)
    BY <1>4, <1>5, <2>1, <2>2, <2>3 DEF Lifecycle!Requeue, Lifecycle!Owned
  <2> QED BY <2>4 DEF Lifecycle!LifecycleNext
<1>11. CASE Fail(s) /\ FailRun(q)
  <2>1. InFlight(s)' /\ slot[s].pc # "bury"
    <3>1. slot[s].pc # "bury" /\ Goto(s, "bury", 0)
      BY <1>11 DEF Fail
    <3>2. "bury" \in PC /\ 0 \in 0 .. Timeout
      BY PoolAssumption DEF PC
    <3>3. slot'[s].pc = "bury"
      BY <1>2, <3>1, <3>2, SlotMove
    <3> QED BY <3>1, <3>3 DEF InFlight
  <2>2. job_runs'[q].status = "failed" /\ dead_letters' = dead_letters
    BY <1>2, <1>11, StatusEffect DEF RunStatus, FailRun
  <2>3. Lifecycle!Become(q, "failed", {s})
    BY <1>2, <1>3, <1>4, <2>1, <2>2, BecomeRow
  <2>4. Lifecycle!GiveUp(q)
    BY <1>4, <1>5, <2>1, <2>2, <2>3 DEF Lifecycle!GiveUp, Lifecycle!Owned, Lifecycle!Become
  <2> QED BY <2>4 DEF Lifecycle!LifecycleNext
<1>12. CASE Bury(s) /\ MarkDead(q)
  <2>1. ~InFlight(s)'
    BY <1>2, <1>12, SlotIdle DEF Bury, InFlight
  <2>2. job_runs'[q].status = "dead" /\ dead_letters' = [dead_letters EXCEPT ![q] = @ + 1]
    BY <1>2, <1>12, StatusEffect DEF RunStatus, MarkDead
  <2>3. Lifecycle!Become(q, "dead", {})
    BY <1>2, <1>3, <2>1, <2>2, BecomeRow
  <2>4. Lifecycle!BuryRun(q)
    BY <1>4, <1>5, <2>2, <2>3 DEF Lifecycle!BuryRun
  <2> QED BY <2>4 DEF Lifecycle!LifecycleNext
<1>13. CASE StoreError \/ HandlerSucceeds(s) \/ HandlerFails(s)
  BY <1>6, <1>7, <1>13 DEF StoreError, HandlerSucceeds, HandlerFails, tables
<1> QED
  BY <1>1, <1>8, <1>9, <1>10, <1>11, <1>12, <1>13
     DEF ExecuteOne, StartHandler, Complete, Retry, Fail, Bury

LEMMA LifecycleStep ==
  ASSUME TInv, [TimelyNext]_vars
  PROVE  [Lifecycle!LifecycleNext]_(Lifecycle!lifecycle)
<1>1. TypeOK
  BY DEF TInv, IInv
<1>2. CASE \E r \in Run, at \in -MaxAge .. 0 : Promote(r, at)
  <2>1. PICK r \in Run, at \in -MaxAge .. 0 : Promote(r, at)
    BY <1>2
  <2>2. /\ Others(r) /\ job_runs[r].status = "absent" /\ slot' = slot
        /\ job_runs'[r].status = "pending" /\ dead_letters' = dead_letters
    BY <1>1, <2>1, CreateRunEffect, LimitAssumption DEF Promote, TypeOK, pool
  <2>3. \A s \in Slot : ~Holds(s, r)
    BY <2>2, Unowned DEF Holds, InFlight
  <2>4. Holders(r)' = {} /\ \A q \in Run \ {r} : Holders(q)' = Holders(q)
    BY <2>2, <2>3 DEF Holders, Holds
  <2>5. Lifecycle!Become(r, "pending", {})
    BY <2>2, <2>4, BecomeRow
  <2>6. Lifecycle!Create(r)
    BY <2>2, <2>5 DEF Lifecycle!Create
  <2> QED BY <2>6 DEF Lifecycle!LifecycleNext
<1>3. CASE \E w \in Worker : Janitor(w)
  <2> DEFINE S == {r \in Run : LeaseExpired(r)}
  <2>1. /\ slot' = slot /\ dead_letters' = dead_letters
        /\ \A r \in Run : job_runs'[r].status = IF r \in S THEN "pending" ELSE job_runs[r].status
        /\ \A r \in S : job_runs[r].status \in {"leased", "running"}
    BY <1>1, <1>3, ReclaimEffect DEF Janitor, TypeOK, pool
  <2>2. \A r \in S : Holders(r) = {}
    BY BackedNotExpired DEF Holders, Holds, InFlight
  <2>3. \A r \in Run : Holders(r)' = Holders(r)
    BY <2>1 DEF Holders, Holds
  <2>4. S \in SUBSET Run
    OBVIOUS
  <2> HIDE DEF S
  <2> QED BY <2>1, <2>2, <2>3, <2>4, TakeBackRuns
<1>4. CASE \E w \in Worker : Stop(w)
  <2>1. PICK w \in Worker : Stop(w)
    BY <1>4
  <2> DEFINE S == {r \in Run : \E s \in Slot : Host[s] = w /\ Holds(s, r)}
  <2>2. /\ job_runs' = job_runs /\ dead_letters' = dead_letters
        /\ \A s \in Slot : slot'[s] = IF Host[s] = w THEN Idle ELSE slot[s]
    BY <2>1 DEF Stop, tables
  <2>3. \A s \in Slot, r \in Run : Holds(s, r)' <=> Host[s] # w /\ Holds(s, r)
    BY <2>2 DEF Holds, Idle
  <2>4. ASSUME NEW r \in S PROVE Holders(r)' = {}
    <3>1. PICK s \in Slot : Host[s] = w /\ Holds(s, r)
      OBVIOUS
    <3>2. ASSUME NEW t \in Slot, Holds(t, r) PROVE t = s
      BY <3>1, <3>2 DEF Holds, TInv, SingleOwner, InFlight
    <3>3. \A t \in Slot : ~Holds(t, r)'
      BY <2>3, <3>1, <3>2
    <3> QED BY <3>3 DEF Holders
  <2>5. ASSUME NEW r \in Run \ S PROVE Holders(r)' = Holders(r)
    BY <2>3 DEF Holders
  <2>6. S \in SUBSET Run
    OBVIOUS
  <2> HIDE DEF S
  <2> QED BY <2>2, <2>4, <2>5, <2>6, AbandonRuns
<1>5. CASE (\E w \in Worker : Start(w)) \/ UNCHANGED vars
  <2>1. job_runs' = job_runs /\ dead_letters' = dead_letters /\ slot' = slot
    BY <1>5 DEF Start, vars, tables, pool
  <2>2. \A r \in Run : Holders(r)' = Holders(r)
    BY <2>1 DEF Holders, Holds
  <2> QED BY <2>1, <2>2, LifecycleStutter
<1>6. CASE PromptTick
  <2>1. \A r \in Run : job_runs'[r].status = job_runs[r].status
    BY <1>1, <1>6, AgedEffect DEF PromptTick, Tick, TypeOK
  <2>2. \A s \in Slot : slot'[s].pc = slot[s].pc /\ slot'[s].run = slot[s].run
    BY <1>1, <1>6 DEF PromptTick, Tick, TypeOK, SlotState
  <2>3. \A r \in Run : Holders(r)' = Holders(r)
    BY <2>2 DEF Holders, Holds
  <2> QED BY <1>6, <2>1, <2>3, LifecycleStutter DEF PromptTick, Tick
<1> QED BY <1>2, <1>3, <1>4, <1>5, <1>6, LeaseLoopLifecycle, ExecuteOneLifecycle
        DEF TimelyNext, Step

\* Timely workers whose handlers have no more time than a lease lasts keep the life
\* cycle of a run: one owner at a time, nothing taken from a live owner, final
\* ends, one letter (executeOne, janitorLoop and the store's statements).
THEOREM LifecycleTheorem == Timeout <= LeaseDuration => (TimelySpec => ImplementsLifecycle)
<1> SUFFICES ASSUME Timeout <= LeaseDuration PROVE TimelySpec => ImplementsLifecycle
  OBVIOUS
<1>1. Init => Lifecycle!LifecycleInit
  <2> SUFFICES ASSUME Init PROVE Lifecycle!LifecycleInit
    OBVIOUS
  <2>1. /\ \A r \in Run : job_runs[r].status = "absent"
        /\ dead_letters = [r \in Run |-> 0]
    BY DEF Init, TablesInit, NoRow
  <2>2. \A r \in Run : Holders(r) = {}
    BY DEF Init, Idle, Holders, Holds
  <2> QED BY <2>1, <2>2 DEF Lifecycle!LifecycleInit
<1>2. TInv /\ [TimelyNext]_vars => [Lifecycle!LifecycleNext]_(Lifecycle!lifecycle)
  BY LifecycleStep
<1> QED
  BY <1>1, <1>2, TimelyInvariance, PTL
     DEF TimelySpec, ImplementsLifecycle, Lifecycle!LifecycleSpec
=============================================================================
