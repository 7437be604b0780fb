------------------------- MODULE RetryBudgetProofs --------------------------
(***************************************************************************)
(* max_attempts bounds the leases of a run, and dead_letters its letters,  *)
(* up to the leases the janitor took back.  The argument counts: every     *)
(* lease follows the creation, a requeue or a reclaim; every requeue       *)
(* spends an attempt number below max_attempts that no other execution     *)
(* has, and every letter one that is not below it.                         *)
(***************************************************************************)
EXTENDS WorkerPoolProofs, FiniteSetTheorems

USE SMTT(20), ZenonT(20)

\* Attempt numbers a run has spent on requeues and letters.
SpentOK ==
    \A r \in Run :
       /\ requeued[r] \subseteq 1 .. MaxAttempts[r] - 1
       /\ requeued[r] \subseteq 1 .. job_runs[r].attempt
       /\ buried[r] \subseteq 1 .. job_runs[r].attempt
       /\ r \in Handled => buried[r] \subseteq MaxAttempts[r] .. job_runs[r].attempt
       /\ r \notin Handled => requeued[r] = {}
       /\ job_runs[r].status = "absent" => requeued[r] = {} /\ buried[r] = {}

\* A goroutine in flight has not spent its attempt, and is where the attempt
\* number and the handler registration send it.
UnspentInFlight ==
    \A s \in Slot : InFlight(s) =>
       /\ slot[s].attempt \notin requeued[slot[s].run] \cup buried[slot[s].run]
       /\ slot[s].pc \in {"handler", "complete", "retry", "fail"} =>
             slot[s].run \in Handled
       /\ slot[s].pc = "retry" => slot[s].attempt < MaxAttempts[slot[s].run]
       /\ slot[s].pc \in {"fail", "bury"} /\ slot[s].run \in Handled =>
             slot[s].attempt >= MaxAttempts[slot[s].run]

\* The leases and the letters, counted.
Counts ==
    \A r \in Run :
       /\ job_runs[r].attempt <= 1 + Cardinality(requeued[r]) + reclaims[r]
       /\ job_runs[r].status = "pending" =>
             job_runs[r].attempt <= Cardinality(requeued[r]) + reclaims[r]
       /\ dead_letters[r] = Cardinality(buried[r])

BInv == SpentOK /\ UnspentInFlight /\ Counts

-----------------------------------------------------------------------------
\* What one step may do to a goroutine: it keeps its run and attempt, or it
\* commits a lease, or it is not in flight afterwards.
SlotKept(s) ==
    /\ InFlight(s)
    /\ slot'[s].run = slot[s].run
    /\ slot'[s].attempt = slot[s].attempt
    /\ \/ slot'[s].pc = slot[s].pc
       \/ /\ slot'[s].pc = "handler"
          /\ slot[s].run \in Handled
       \/ /\ slot'[s].pc = "complete"
          /\ slot[s].pc = "handler"
       \/ /\ slot'[s].pc = "retry"
          /\ slot[s].pc = "handler"
          /\ slot[s].attempt < MaxAttempts[slot[s].run]
       \/ /\ slot'[s].pc = "fail"
          /\ slot[s].pc = "handler"
          /\ ~(slot[s].attempt < MaxAttempts[slot[s].run])
       \/ /\ slot'[s].pc = "bury"
          /\ slot[s].pc = "fail" \/ slot[s].run \notin Handled

SlotLeased(s) ==
    /\ slot[s].pc = "claim"
    /\ slot'[s].pc = "leased"
    /\ slot'[s].run = slot[s].run
    /\ slot'[s].attempt = job_runs[slot[s].run].attempt + 1
    /\ job_runs'[slot[s].run].attempt = job_runs[slot[s].run].attempt + 1

SlotStep(s) == InFlight(s)' => SlotKept(s) \/ SlotLeased(s)

\* A goroutine whose state is unchanged has made no budget-relevant move.
LEMMA SlotUnchanged ==
  ASSUME NEW s \in Slot, slot'[s] = slot[s]
  PROVE  SlotStep(s)
BY DEF SlotStep, SlotKept, InFlight

\* What the steps of leaseLoop may do to a goroutine.
LEMMA LeaseLoopSlots ==
  ASSUME IInv, NEW t \in Slot, LeaseLoop(t)
  PROVE  \A s \in Slot : SlotStep(s)
<1> DEFINE r == slot[t].run
<1>1. \A s \in Slot \ {t} : slot'[s] = slot[s]
  BY DEF LeaseLoop, SelectRun, LeaseRun, LeaseRollback, LeaseAnswerLost, GoIdle,
         IInv, TypeOK
<1>2. CASE LeaseRun(t)
  <2>1. slot[t].pc = "claim" /\ r \in Run
    BY <1>2 DEF LeaseRun, IInv, BusyOnRow
  <2>2. job_runs'[r].attempt = job_runs[r].attempt + 1
    BY <1>2, <2>1, TakeLeaseEffect DEF LeaseRun, IInv, TypeOK
  <2>3. /\ slot'[t].pc = "leased"
        /\ slot'[t].run = r
        /\ slot'[t].attempt = job_runs[r].attempt + 1
    BY <1>2 DEF LeaseRun, IInv, TypeOK, SlotState
  <2> QED
    BY <1>1, <2>1, <2>2, <2>3, SlotUnchanged DEF SlotStep, SlotLeased
<1>3. CASE SelectRun(t)
  <2>1. slot'[t].pc = "claim"
    BY <1>3 DEF SelectRun, Claiming, IInv, TypeOK
  <2> QED
    BY <1>1, <2>1, SlotUnchanged DEF SlotStep, InFlight
<1>4. CASE LeaseRollback(t) \/ LeaseAnswerLost(t)
  <2>1. slot'[t].pc = "idle"
    BY <1>4, SlotIdle DEF LeaseRollback, LeaseAnswerLost, IInv, TypeOK
  <2> QED
    BY <1>1, <2>1, SlotUnchanged DEF SlotStep, InFlight
<1> QED
  BY <1>2, <1>3, <1>4 DEF LeaseLoop

\* What the steps of executeOne may do to a goroutine.
LEMMA ExecuteOneSlots ==
  ASSUME IInv, NEW t \in Slot, ExecuteOne(t)
  PROVE  \A s \in Slot : SlotStep(s)
<1>1. slot \in [Slot -> SlotState]
  BY DEF IInv, TypeOK
<1>2. ASSUME NEW p \in PC, NEW d \in 0 .. Timeout, Goto(t, p, d)
      PROVE  /\ \A s \in Slot \ {t} : SlotStep(s)
             /\ slot'[t].pc = p
             /\ slot'[t].run = slot[t].run
             /\ slot'[t].attempt = slot[t].attempt
  BY <1>1, <1>2, SlotMove, SlotUnchanged
<1>3. CASE Complete(t) \/ Retry(t) \/ Bury(t)
  <2>1. GoIdle(t)
    BY <1>3 DEF Complete, Retry, Bury
  <2>2. slot'[t].pc = "idle" /\ \A s \in Slot \ {t} : slot'[s] = slot[s]
    BY <1>1, <2>1, SlotIdle
  <2> QED
    BY <2>2, SlotUnchanged DEF SlotStep, InFlight
<1>4. CASE StartHandler(t)
  <2>1. /\ Goto(t, "handler", Timeout) /\ slot[t].pc = "leased"
        /\ slot[t].run \in Handled
    BY <1>4 DEF StartHandler
  <2>2. "handler" \in PC /\ Timeout \in 0 .. Timeout
    BY PoolAssumption DEF PC
  <2> QED
    BY <1>2, <2>1, <2>2 DEF SlotStep, SlotKept, InFlight
<1>5. CASE HandlerSucceeds(t)
  <2>1. Goto(t, "complete", 0) /\ slot[t].pc = "handler"
    BY <1>5 DEF HandlerSucceeds
  <2>2. "complete" \in PC /\ 0 \in 0 .. Timeout
    BY PoolAssumption DEF PC
  <2> QED
    BY <1>2, <2>1, <2>2 DEF SlotStep, SlotKept, InFlight
<1>6. CASE HandlerFails(t)
  <2>1. slot[t].pc = "handler"
    BY <1>6 DEF HandlerFails
  <2>2. \/ /\ Goto(t, "retry", 0)
           /\ slot[t].attempt < MaxAttempts[slot[t].run]
        \/ /\ Goto(t, "fail", 0)
           /\ ~(slot[t].attempt < MaxAttempts[slot[t].run])
    BY <1>6 DEF HandlerFails
  <2>3. "retry" \in PC /\ "fail" \in PC /\ 0 \in 0 .. Timeout
    BY PoolAssumption DEF PC
  <2> QED
    BY <1>2, <2>1, <2>2, <2>3 DEF SlotStep, SlotKept, InFlight
<1>7. CASE Fail(t)
  <2>1. /\ Goto(t, "bury", 0)
        /\ \/ slot[t].pc = "fail"
           \/ slot[t].pc = "leased" /\ slot[t].run \notin Handled
    BY <1>7 DEF Fail
  <2>2. "bury" \in PC /\ 0 \in 0 .. Timeout
    BY PoolAssumption DEF PC
  <2> QED
    BY <1>2, <2>1, <2>2 DEF SlotStep, SlotKept, InFlight
<1> QED
  BY <1>3, <1>4, <1>5, <1>6, <1>7 DEF ExecuteOne

\* Every step of the pool is a SlotStep of every goroutine.
LEMMA SlotSteps == IInv /\ [Next]_vars => \A s \in Slot : SlotStep(s)
<1> SUFFICES ASSUME IInv, [Next]_vars PROVE \A s \in Slot : SlotStep(s)
  OBVIOUS
<1>1. CASE slot' = slot
  BY <1>1, SlotUnchanged
<1>2. CASE \E w \in Worker : Stop(w)
  <2>1. \A s \in Slot : slot'[s].pc = "idle" \/ slot'[s] = slot[s]
    BY <1>2 DEF Stop, Idle
  <2> QED
    BY <2>1, SlotUnchanged DEF SlotStep, InFlight
<1>3. CASE Tick
  <2>1. \A s \in Slot : /\ slot'[s].pc = slot[s].pc
                        /\ slot'[s].run = slot[s].run
                        /\ slot'[s].attempt = slot[s].attempt
    BY <1>3 DEF Tick, IInv, TypeOK, SlotState
  <2> QED
    BY <2>1 DEF SlotStep, SlotKept, InFlight
<1> QED
  BY <1>1, <1>2, <1>3, LeaseLoopSlots, ExecuteOneSlots
     DEF Next, Step, Promote, Janitor, Start, vars, pool

-----------------------------------------------------------------------------
\* Nothing is spent in the initial state.
LEMMA InitBInv == Init => BInv
<1> SUFFICES ASSUME Init PROVE BInv
  OBVIOUS
<1>1. \A s \in Slot : ~InFlight(s)
  BY DEF Init, Idle, InFlight
<1>2. \A r \in Run : /\ job_runs[r].attempt = 0
                     /\ job_runs[r].status = "absent"
                     /\ dead_letters[r] = 0
                     /\ reclaims[r] = 0 /\ requeued[r] = {} /\ buried[r] = {}
  BY DEF Init, TablesInit, NoRow
<1>3. Cardinality({}) = 0
  BY FS_EmptySet
<1>4. Counts
  <2>1. \A r \in Run : Cardinality(requeued[r]) = 0 /\ Cardinality(buried[r]) = 0
    BY <1>2, <1>3
  <2>2. \A r \in Run : job_runs[r].attempt <= 1 + Cardinality(requeued[r]) + reclaims[r]
    <3> TAKE r \in Run
    <3>1. job_runs[r].attempt = 0 /\ Cardinality(requeued[r]) = 0 /\ reclaims[r] = 0
      BY <1>2, <2>1
    <3>2. 0 <= 1 + 0 + 0
      OBVIOUS
    <3> QED
      BY <3>1, <3>2
  <2> QED
    BY <1>2, <2>1, <2>2 DEF Counts
<1>5. SpentOK
  BY <1>2 DEF SpentOK
<1>6. UnspentInFlight
  BY <1>1 DEF UnspentInFlight
<1> QED
  BY <1>4, <1>5, <1>6 DEF BInv

\* The sets of spent attempts are finite, so that they can be counted.
LEMMA SpentFinite ==
  ASSUME IInv, NEW r \in Run
  PROVE  /\ IsFiniteSet(requeued[r]) /\ Cardinality(requeued[r]) \in Nat
         /\ IsFiniteSet(buried[r]) /\ Cardinality(buried[r]) \in Nat
<1>1. /\ requeued[r] \in SUBSET (1 .. MaxSmallint)
      /\ buried[r] \in SUBSET (1 .. MaxSmallint)
  BY DEF IInv, TypeOK
<1>2. IsFiniteSet(1 .. MaxSmallint)
  BY LimitAssumption, FS_Interval
<1> QED
  BY <1>1, <1>2, FS_Subset, FS_CardinalityType

\* A set of integers between a and b has at most b - a + 1 elements.
LEMMA IntervalBound ==
  ASSUME NEW a \in Int, NEW b \in Int, NEW S \in SUBSET (a .. b)
  PROVE  /\ Cardinality(S) \in Nat
         /\ Cardinality(S) <= IF a > b THEN 0 ELSE b - a + 1
<1>1. /\ IsFiniteSet(a .. b)
      /\ Cardinality(a .. b) = IF a > b THEN 0 ELSE b - a + 1
  BY FS_Interval
<1>2. IsFiniteSet(S) /\ Cardinality(S) <= Cardinality(a .. b)
  BY <1>1, FS_Subset
<1> QED
  BY <1>1, <1>2, FS_CardinalityType

\* Every step keeps the accounting of attempts.
LEMMA NextBInv == IInv /\ IInv' /\ BInv /\ [Next]_vars => BInv'
<1> SUFFICES ASSUME IInv, IInv', BInv, [Next]_vars PROVE BInv'
  OBVIOUS
<1>1. \A r \in Run : RowStep(r)
  BY RowSteps
<1>2. \A s \in Slot : SlotStep(s)
  BY SlotSteps
<1>3. \A s \in Slot : InFlight(s) =>
         /\ slot[s].run \in Run
         /\ slot[s].attempt \in 1 .. job_runs[slot[s].run].attempt
  BY DEF IInv, BusyOnRow, Tokens, InFlight
<1>4. \A r \in Run : /\ job_runs[r].attempt \in Nat /\ reclaims[r] \in Nat
                     /\ MaxAttempts[r] \in Nat /\ dead_letters[r] \in Nat
  BY JobAssumption DEF IInv, TypeOK, TablesTypeOK, Row
<1>5. SpentOK'
  <2> SUFFICES ASSUME NEW r \in Run
               PROVE  /\ requeued'[r] \subseteq 1 .. MaxAttempts[r] - 1
                      /\ requeued'[r] \subseteq 1 .. job_runs'[r].attempt
                      /\ buried'[r] \subseteq 1 .. job_runs'[r].attempt
                      /\ r \in Handled =>
                            buried'[r] \subseteq MaxAttempts[r] .. job_runs'[r].attempt
                      /\ r \notin Handled => requeued'[r] = {}
                      /\ job_runs'[r].status = "absent" =>
                            requeued'[r] = {} /\ buried'[r] = {}
    BY DEF SpentOK
  <2> USE <1>4 DEF BInv, SpentOK
  <2>1. CASE RowKept(r) \/ RowWritten(r) \/ RowReclaimed(r)
    BY <2>1 DEF RowKept, RowWritten, RowReclaimed, SameHistory
  <2>2. CASE RowCreated(r)
    BY <2>2 DEF RowCreated, SameHistory
  <2>3. CASE RowLeased(r)
    BY <2>3 DEF RowLeased, SameHistory
  <2>4. CASE RowRequeued(r)
    BY <1>3, <2>4 DEF RowRequeued, UnspentInFlight, InFlight
  <2>5. CASE RowBuried(r)
    BY <1>3, <2>5 DEF RowBuried, UnspentInFlight, InFlight
  <2> QED
    BY <1>1, <2>1, <2>2, <2>3, <2>4, <2>5 DEF RowStep
<1>6. UnspentInFlight'
  <2> SUFFICES ASSUME NEW s \in Slot, InFlight(s)'
               PROVE  /\ slot'[s].attempt \notin
                            requeued'[slot'[s].run] \cup buried'[slot'[s].run]
                      /\ slot'[s].pc \in {"handler", "complete", "retry", "fail"} =>
                            slot'[s].run \in Handled
                      /\ slot'[s].pc = "retry" =>
                            slot'[s].attempt < MaxAttempts[slot'[s].run]
                      /\ slot'[s].pc \in {"fail", "bury"} /\ slot'[s].run \in Handled =>
                            slot'[s].attempt >= MaxAttempts[slot'[s].run]
    BY DEF UnspentInFlight
  <2> DEFINE r == slot[s].run
  <2>1. CASE SlotKept(s)
    <3>1. InFlight(s) /\ r \in Run /\ slot[s].attempt \in Int
      BY <2>1, <1>3 DEF SlotKept
    <3>2. \A t \in Slot : InFlight(t) /\ slot[t].run = r /\ slot'[t].pc = "idle" =>
             slot[t].attempt # slot[s].attempt
      BY <3>1 DEF IInv, Tokens, InFlight
    <3>3. slot[s].attempt \notin requeued'[r] \cup buried'[r]
      <4>1. slot[s].attempt \notin requeued[r] \cup buried[r]
        BY <3>1 DEF BInv, UnspentInFlight
      <4>2. CASE RowKept(r) \/ RowCreated(r) \/ RowLeased(r) \/ RowWritten(r)
        BY <4>1, <4>2 DEF RowKept, RowCreated, RowLeased, RowWritten, SameHistory
      <4>3. CASE RowRequeued(r)
        BY <4>1, <4>3, <3>2 DEF RowRequeued, InFlight
      <4>4. CASE RowBuried(r)
        BY <4>1, <4>4, <3>2 DEF RowBuried, InFlight
      <4>5. CASE RowReclaimed(r)
        BY <4>1, <4>5 DEF RowReclaimed
      <4> QED
        BY <1>1, <3>1, <4>2, <4>3, <4>4, <4>5 DEF RowStep
    <3>4. /\ slot'[s].pc \in {"handler", "complete", "retry", "fail"} => r \in Handled
          /\ slot'[s].pc = "retry" => slot[s].attempt < MaxAttempts[r]
          /\ slot'[s].pc \in {"fail", "bury"} /\ r \in Handled =>
                slot[s].attempt >= MaxAttempts[r]
      BY <2>1, <3>1, <1>4 DEF SlotKept, BInv, UnspentInFlight
    <3> QED
      BY <2>1, <3>3, <3>4 DEF SlotKept
  <2>2. CASE SlotLeased(s)
    <3>1. r \in Run /\ job_runs[r].attempt \in Nat
      BY <2>2, <1>4 DEF SlotLeased, IInv, BusyOnRow
    <3>2. RowLeased(r)
      BY <1>1, <2>2, <3>1
         DEF SlotLeased, RowStep, RowKept, RowCreated, RowWritten, RowRequeued,
             RowBuried, RowReclaimed
    <3>3. job_runs[r].attempt + 1 \notin requeued'[r] \cup buried'[r]
      BY <3>1, <3>2 DEF RowLeased, SameHistory, BInv, SpentOK
    <3> QED
      BY <2>2, <3>3 DEF SlotLeased
  <2> QED
    BY <1>2, <2>1, <2>2 DEF SlotStep
<1>7. Counts'
  <2> SUFFICES ASSUME NEW r \in Run
               PROVE  /\ job_runs'[r].attempt
                            <= 1 + Cardinality(requeued'[r]) + reclaims'[r]
                      /\ job_runs'[r].status = "pending" =>
                            job_runs'[r].attempt
                               <= Cardinality(requeued'[r]) + reclaims'[r]
                      /\ dead_letters'[r] = Cardinality(buried'[r])
    BY DEF Counts
  <2>1. /\ IsFiniteSet(requeued[r]) /\ Cardinality(requeued[r]) \in Nat
        /\ IsFiniteSet(buried[r]) /\ Cardinality(buried[r]) \in Nat
    BY SpentFinite
  <2>2. /\ job_runs[r].attempt <= 1 + Cardinality(requeued[r]) + reclaims[r]
        /\ job_runs[r].status = "pending" =>
              job_runs[r].attempt <= Cardinality(requeued[r]) + reclaims[r]
        /\ dead_letters[r] = Cardinality(buried[r])
    BY DEF BInv, Counts
  <2>3. CASE RowKept(r) \/ RowCreated(r) \/ RowLeased(r) \/ RowWritten(r)
    BY <1>4, <2>1, <2>2, <2>3
       DEF RowKept, RowCreated, RowLeased, RowWritten, SameHistory
  <2>4. CASE RowReclaimed(r)
    BY <1>4, <2>1, <2>2, <2>4 DEF RowReclaimed
  <2>5. CASE RowRequeued(r)
    <3>1. PICK s \in Slot :
             /\ slot[s].pc = "retry" /\ slot[s].run = r
             /\ requeued'[r] = requeued[r] \cup {slot[s].attempt}
      BY <2>5 DEF RowRequeued
    <3>2. slot[s].attempt \notin requeued[r]
      BY <3>1 DEF BInv, UnspentInFlight, InFlight
    <3>3. Cardinality(requeued'[r]) = Cardinality(requeued[r]) + 1
      BY <2>1, <3>1, <3>2, FS_AddElement
    <3> QED
      BY <1>4, <2>1, <2>2, <2>5, <3>3 DEF RowRequeued
  <2>6. CASE RowBuried(r)
    <3>1. PICK s \in Slot :
             /\ slot[s].pc = "bury" /\ slot[s].run = r
             /\ buried'[r] = buried[r] \cup {slot[s].attempt}
      BY <2>6 DEF RowBuried
    <3>2. slot[s].attempt \notin buried[r]
      BY <3>1 DEF BInv, UnspentInFlight, InFlight
    <3>3. Cardinality(buried'[r]) = Cardinality(buried[r]) + 1
      BY <2>1, <3>1, <3>2, FS_AddElement
    <3> QED
      BY <1>4, <2>1, <2>2, <2>6, <3>3 DEF RowBuried
  <2> QED
    BY <1>1, <2>3, <2>4, <2>5, <2>6 DEF RowStep
<1> QED
  BY <1>5, <1>6, <1>7 DEF BInv

\* The counting invariant holds in every reachable state.
THEOREM BudgetInvariance == Spec => [](IInv /\ BInv)
<1>1. IInv /\ BInv /\ [Next]_vars => (IInv /\ BInv)'
  BY NextIInv, NextBInv
<1> QED
  BY InitIInv, InitBInv, <1>1, PTL DEF Spec

\* At most max_attempts - 1 attempts of a run are requeued.
LEMMA RequeueBound ==
  ASSUME IInv, BInv, NEW r \in Run
  PROVE  /\ Cardinality(requeued[r]) \in Nat
         /\ Cardinality(requeued[r]) <= MaxAttempts[r] - 1
<1>1. MaxAttempts[r] \in Nat \ {0}
  BY JobAssumption, LimitAssumption
<1>2. PICK m \in Int : m = MaxAttempts[r] - 1
  BY <1>1
<1>3. requeued[r] \in SUBSET (1 .. m)
  BY <1>2 DEF BInv, SpentOK
<1>4. /\ Cardinality(requeued[r]) \in Nat
      /\ Cardinality(requeued[r]) <= IF 1 > m THEN 0 ELSE m - 1 + 1
  <2>1. 1 \in Int
    OBVIOUS
  <2> QED
    BY <1>3, <2>1, IntervalBound
<1> QED
  BY <1>1, <1>2, <1>4

\* A run is leased at most max_attempts times, plus once for every lease the
\* janitor took back.
THEOREM RetryBudgetTheorem == Spec => []RetryBudget
<1>1. IInv /\ BInv => RetryBudget
  <2> SUFFICES ASSUME IInv, BInv, NEW r \in Run
               PROVE  job_runs[r].attempt <= MaxAttempts[r] + reclaims[r]
    BY DEF RetryBudget
  <2>1. MaxAttempts[r] \in Nat \ {0} /\ reclaims[r] \in Nat
        /\ job_runs[r].attempt \in Nat
    BY JobAssumption, LimitAssumption DEF IInv, TypeOK, TablesTypeOK, Row
  <2> QED
    BY <2>1, RequeueBound DEF BInv, Counts
<1> QED
  BY <1>1, BudgetInvariance, PTL

\* A run has at most one dead letter, plus one for every lease the janitor
\* took back.
THEOREM LetterBudgetTheorem == Spec => []LetterBudget
<1>1. IInv /\ BInv => LetterBudget
  <2> SUFFICES ASSUME IInv, BInv, NEW r \in Run
               PROVE  dead_letters[r] <= 1 + reclaims[r]
    BY DEF LetterBudget
  <2> DEFINE low == IF r \in Handled THEN MaxAttempts[r] ELSE 1
             top == job_runs[r].attempt
  <2>1. MaxAttempts[r] \in Nat \ {0} /\ reclaims[r] \in Nat /\ top \in Nat
    BY JobAssumption, LimitAssumption DEF IInv, TypeOK, TablesTypeOK, Row
  <2>2. top <= low + reclaims[r]
    <3>1. CASE r \in Handled
      BY <2>1, <3>1, RequeueBound DEF BInv, Counts
    <3>2. CASE r \notin Handled
      <4>1. Cardinality(requeued[r]) = 0
        BY <3>2, FS_EmptySet DEF BInv, SpentOK
      <4> QED
        BY <2>1, <3>2, <4>1 DEF BInv, Counts
    <3> QED
      BY <3>1, <3>2
  <2>3. buried[r] \in SUBSET (low .. top)
    BY DEF BInv, SpentOK
  <2>4. low \in Int /\ top \in Int
    BY <2>1
  <2>5. dead_letters[r] = Cardinality(buried[r]) /\ dead_letters[r] \in Nat
    BY DEF BInv, Counts, IInv, TypeOK, TablesTypeOK
  <2> HIDE DEF low, top
  <2>6. Cardinality(buried[r]) <= IF low > top THEN 0 ELSE top - low + 1
    BY <2>3, <2>4, IntervalBound
  <2> QED
    BY <2>1, <2>2, <2>4, <2>5, <2>6
<1> QED
  BY <1>1, BudgetInvariance, PTL

\* A dead-lettered run that has a handler used up its attempts.
THEOREM LetterMeansExhaustedTheorem == Spec => []LetterMeansExhausted
<1>1. IInv /\ BInv => LetterMeansExhausted
  <2> SUFFICES ASSUME IInv, BInv, NEW r \in Handled, dead_letters[r] > 0
               PROVE  job_runs[r].attempt >= MaxAttempts[r]
    BY DEF LetterMeansExhausted
  <2>1. r \in Run
    BY PoolAssumption
  <2>2. buried[r] # {}
    <3>1. dead_letters[r] = Cardinality(buried[r])
      BY <2>1 DEF BInv, Counts
    <3>2. Cardinality({}) = 0
      BY FS_EmptySet
    <3> QED
      BY <3>1, <3>2
  <2>3. buried[r] \subseteq MaxAttempts[r] .. job_runs[r].attempt
    BY <2>1 DEF BInv, SpentOK
  <2> QED
    BY <2>1, <2>2, <2>3, JobAssumption DEF IInv, TypeOK, TablesTypeOK, Row
<1> QED
  BY <1>1, BudgetInvariance, PTL
=============================================================================
