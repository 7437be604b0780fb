--------------------------- MODULE TaskflowProofs ---------------------------
(***************************************************************************)
(* Theorems about Taskflow: the system of schedulers and workers runs the  *)
(* workers that WorkerPoolProofs is about, and shows the schedulers the    *)
(* runs that Promoter takes for granted.                                   *)
(***************************************************************************)
EXTENDS Taskflow, WorkerPoolProofs, FiniteSetTheorems

USE SMTT(20), ZenonT(20)

\* A pass began at some time up to now.
Clocks ==
    /\ clock \in 0 .. MaxTime
    /\ pass = [p \in Replica |-> pass[p]]
    /\ \A p \in Replica : pass[p].now \in 0 .. clock

\* The actions of Promoter that workers see nothing of.
Scheduling ==
    \/ \E p \in Replica :
         \/ P!Elect(p) \/ P!Start(p) \/ P!ListJobs(p) \/ P!CheckActive(p) \/ P!CheckDue(p)
         \/ P!CheckDependency(p) \/ P!CallFails(p) \/ P!Finish(p)
         \/ P!ElectFails(p) \/ P!Stop(p) \/ P!Drop(p)
    \/ P!EndSession
    \/ \E j \in Job : P!CreateJob(j) \/ P!PauseJob(j) \/ P!ResumeJob(j)

\* The actions of the workers, without the promoter's.
Working ==
    \/ \E s \in Slot : LeaseLoop(s) \/ ExecuteOne(s)
    \/ \E w \in Worker : Janitor(w) \/ Start(w) \/ Stop(w)

\* What a step of the system is.
LEMMA SystemCases ==
  ASSUME [SystemNext]_system
  PROVE  \/ Apart /\ Scheduling
         \/ \E p \in Replica : InsertRun(p)
         \/ Working /\ Below
         \/ SystemTick \/ LongTick
         \/ UNCHANGED system
BY DEF SystemNext, SystemStep, Elect, StartReplica, PromoteOnce, Disturb, EndSession, Api, Work,
       Recover, StopWorker, Scheduling, Working

LEMMA SchedulingClocks ==
  ASSUME Clocks, Scheduling, clock' = clock
  PROVE  Clocks'
<1>1. SUFFICES \/ pass' = pass
               \/ \E p \in Replica : \E row :
                    pass' = [pass EXCEPT ![p] = row] /\ row.now \in 0 .. clock
  BY <1>1, SystemAssumption DEF Clocks
<1>2. CASE \E j \in Job : P!CreateJob(j) \/ P!PauseJob(j) \/ P!ResumeJob(j)
  BY <1>2 DEF P!CreateJob, P!PauseJob, P!ResumeJob
<1>3. CASE P!EndSession
  BY <1>3 DEF P!EndSession, P!schedule
<1>4. ASSUME NEW p \in Replica, P!Start(p) \/ P!ElectFails(p) \/ P!Drop(p)
      PROVE  pass' = pass
  BY <1>4 DEF P!Start, P!ElectFails, P!Drop, P!schedule
<1>5. 0 \in 0 .. clock /\ clock \in 0 .. clock /\ \A p \in Replica : pass[p].now \in 0 .. clock
  BY SystemAssumption DEF Clocks
<1>6. ASSUME NEW p \in Replica, P!EndPass(p)
      PROVE  \E row : pass' = [pass EXCEPT ![p] = row] /\ row.now \in 0 .. clock
  <2>1. pass' = [pass EXCEPT ![p] = P!IdlePass]
    BY <1>6 DEF P!EndPass
  <2>2. P!IdlePass.now = 0
    BY DEF P!IdlePass
  <2> QED BY <1>5, <2>1, <2>2
<1>7. ASSUME NEW p \in Replica, NEW pc, NEW todo, NEW job, NEW deps, P!Goto(p, pc, todo, job, deps)
      PROVE  \E row : pass' = [pass EXCEPT ![p] = row] /\ row.now \in 0 .. clock
  <2> DEFINE row == [pc |-> pc, todo |-> todo, job |-> job, deps |-> deps, now |-> pass[p].now]
  <2>1. pass' = [pass EXCEPT ![p] = row]
    BY <1>7 DEF P!Goto
  <2>2. row.now \in 0 .. clock
    BY <1>5
  <2> HIDE DEF row
  <2> QED BY <2>1, <2>2
<1>8. ASSUME NEW p \in Replica, P!ListJobs(p)
      PROVE  \E row : pass' = [pass EXCEPT ![p] = row] /\ row.now \in 0 .. clock
  BY <1>5, <1>8 DEF P!ListJobs
<1>9. ASSUME NEW p \in Replica,
             P!Elect(p) \/ P!CheckActive(p) \/ P!CheckDue(p) \/ P!CheckDependency(p) \/ P!CallFails(p)
      PROVE  P!EndPass(p) \/ \E pc, todo, job, deps : P!Goto(p, pc, todo, job, deps)
  BY <1>9 DEF P!Elect, P!CheckActive, P!CheckDue, P!CheckDependency, P!CallFails, P!Continue
<1>10. ASSUME NEW p \in Replica, P!Finish(p) \/ P!Stop(p)
      PROVE  P!EndPass(p)
  BY <1>10 DEF P!Finish, P!Stop
<1> QED BY <1>2, <1>3, <1>4, <1>6, <1>7, <1>8, <1>9, <1>10 DEF Scheduling

LEMMA InsertClocks ==
  ASSUME Clocks, NEW p \in Replica, InsertRun(p)
  PROVE  Clocks'
<1>1. pass' = [pass EXCEPT ![p] = [pc |-> "scan", todo |-> pass[p].todo, job |-> NoJob,
                                  deps |-> {}, now |-> pass[p].now]] /\ clock' = clock
  BY DEF InsertRun, P!CreateRun, P!Continue, P!Goto
<1> QED BY <1>1 DEF Clocks

LEMMA ClocksStep == Clocks /\ [SystemNext]_system => Clocks'
<1> SUFFICES ASSUME Clocks, [SystemNext]_system PROVE Clocks'
  OBVIOUS
<1>1. CASE Apart /\ Scheduling
  BY <1>1, SchedulingClocks DEF Apart
<1>2. CASE \E p \in Replica : InsertRun(p)
  BY <1>2, InsertClocks
<1>3. CASE Below \/ LongTick \/ UNCHANGED system
  BY <1>3 DEF Below, LongTick, system, schedulers, Clocks
<1>4. CASE SystemTick
  <2>1. clock < MaxTime /\ clock' = clock + 1 /\ pass' = pass
    BY <1>4 DEF SystemTick, P!Tick
  <2> QED BY <2>1, SystemAssumption DEF Clocks
<1> QED BY <1>1, <1>2, <1>3, <1>4, SystemCases

THEOREM ClocksInvariance == SystemSpec => []Clocks
<1>1. SystemInit => Clocks
  BY SystemAssumption DEF SystemInit, P!Init, P!IdlePass, Clocks
<1> QED BY <1>1, ClocksStep, PTL DEF SystemSpec

\* A step of the system is one of timely workers, or none of theirs.
LEMMA TimelySteps == Clocks /\ [SystemNext]_system => [TimelyNext]_vars
<1> SUFFICES ASSUME Clocks, [SystemNext]_system PROVE [TimelyNext]_vars
  OBVIOUS
<1>1. CASE Apart \/ UNCHANGED system
  BY <1>1 DEF Apart, system
<1>2. CASE \E p \in Replica : InsertRun(p)
  <2>1. PICK p \in Replica : InsertRun(p)
    BY <1>2
  <2>2. pass[p].now - clock \in -MaxAge .. 0
    BY SystemAssumption, LimitAssumption DEF Clocks
  <2>3. \E r \in Run : Promote(r, pass[p].now - clock)
    BY <2>1 DEF InsertRun
  <2>4. \E r \in Run, at \in -MaxAge .. 0 : Promote(r, at)
    BY <2>2, <2>3
  <2> QED BY <2>4 DEF TimelyNext, Step
<1>3. CASE Working
  BY <1>3 DEF Working, TimelyNext, Step
<1>4. CASE SystemTick \/ LongTick
  BY <1>4 DEF SystemTick, LongTick, TimelyNext
<1> QED BY <1>1, <1>2, <1>3, <1>4, SystemCases

\* The workers of the system are those of WorkerPool: what the promoter creates
\* is overdue by no more than a pass may last (CreateRun with the pass's now).
THEOREM SystemRunsWorkers == SystemSpec => TimelySpec
<1>1. SystemInit => Init
  BY DEF SystemInit
<1> QED BY <1>1, TimelySteps, ClocksInvariance, PTL DEF SystemSpec, TimelySpec

\* So no run of the system is in two handlers at once (executeOne, janitorLoop).
THEOREM SystemNoConcurrentExecution ==
  Timeout <= LeaseDuration => (SystemSpec => []NoConcurrentExecution)
BY SystemRunsWorkers, NoConcurrentExecutionTheorem

\* And the runs of the promoter live the life of RunLifecycle.
THEOREM SystemLifecycle ==
  Timeout <= LeaseDuration => (SystemSpec => ImplementsLifecycle)
BY SystemRunsWorkers, LifecycleTheorem

-----------------------------------------------------------------------------
(* What the schedulers see of the workers.  Runs of a job are numbered     *)
(* without gaps, scheduled_at as the workers keep it is planned as the     *)
(* schedulers see it, and whoever works on a run found it due.             *)

Made(j) == {i \in 1 .. RunLimit : job_runs[<<j, i>>].status # "absent"}

Numbered == \A j \in Job : \E k \in 0 .. RunLimit : Made(j) = 1 .. k

PlanKept ==
    /\ planned = [r \in Run |-> planned[r]]
    /\ \A r \in Run : job_runs[r].status # "absent" =>
         /\ planned[r] \in 0 .. clock + RetryDelay
         /\ \/ job_runs[r].scheduled_at = planned[r] - clock
            \/ clock = MaxTime /\ job_runs[r].scheduled_at <= planned[r] - clock

HeldDue == \A s \in Slot : slot[s].pc # "idle" => job_runs[slot[s].run].scheduled_at <= 0

SystemInv == TInv /\ Clocks /\ Numbered /\ PlanKept /\ HeldDue

\* A step that no query of the schedulers can tell.
RowQuiet(r) ==
    /\ SeenAs(job_runs'[r].status) = SeenAs(job_runs[r].status)
    /\ job_runs'[r].scheduled_at = job_runs[r].scheduled_at

\* A step that ends run q.
RowEnded(q) ==
    /\ Others(q) /\ Active(q) /\ job_runs'[q].status \in {"succeeded", "failed", "dead"}
    /\ job_runs'[q].scheduled_at = job_runs[q].scheduled_at

\* A step that requeues run q.
RowDelayed(q) ==
    /\ Others(q) /\ Active(q) /\ job_runs'[q].status = "pending"
    /\ job_runs'[q].scheduled_at = RetryDelay /\ job_runs[q].scheduled_at <= 0

LEMMA ScheduledKept ==
  ASSUME TablesTypeOK, NEW r \in Run,
         TakeLease(r) \/ MarkRunning(r) \/ CompleteRun(r) \/ FailRun(r) \/ MarkDead(r)
  PROVE  job_runs'[r].scheduled_at = job_runs[r].scheduled_at
<1> USE DEF TablesTypeOK, Row
<1>1. CASE TakeLease(r)
  BY <1>1 DEF TakeLease
<1>2. CASE MarkRunning(r)
  BY <1>2 DEF MarkRunning
<1>3. CASE CompleteRun(r)
  BY <1>3 DEF CompleteRun
<1>4. CASE FailRun(r)
  BY <1>4 DEF FailRun
<1>5. CASE MarkDead(r)
  BY <1>5 DEF MarkDead
<1> QED BY <1>1, <1>2, <1>3, <1>4, <1>5

\* What steps of the workers show.
LEMMA LeaseLoopSeen ==
  ASSUME TInv, NEW s \in Slot, LeaseLoop(s)
  PROVE  \A r \in Run : RowQuiet(r)
<1>1. CASE job_runs' = job_runs
  BY <1>1 DEF RowQuiet
<1>2. CASE slot[s].pc = "claim" /\ TakeLease(slot[s].run)
  <2>1. PICK q \in Run : q = slot[s].run
    BY <1>2 DEF TInv, IInv, BusyOnRow
  <2>2. TablesTypeOK /\ job_runs[q].status = "pending"
    BY <1>2, <2>1 DEF TInv, IInv, TypeOK, ClaimsPending
  <2>3. Others(q) /\ job_runs'[q].status = "leased"
    BY <1>2, <2>1, <2>2 DEF TakeLease, Others, TablesTypeOK, Row
  <2>4. job_runs'[q].scheduled_at = job_runs[q].scheduled_at
    BY <1>2, <2>1, <2>2, ScheduledKept
  <2> QED BY <2>2, <2>3, <2>4 DEF RowQuiet, SeenAs, Others
<1> QED BY <1>1, <1>2 DEF LeaseLoop, SelectRun, LeaseRun, LeaseRollback, LeaseAnswerLost, tables

LEMMA ExecuteOneSeen ==
  ASSUME TInv, HeldDue, NEW s \in Slot, ExecuteOne(s)
  PROVE  (\A r \in Run : RowQuiet(r)) \/ \E q \in Run : RowEnded(q) \/ RowDelayed(q)
<1>1. PICK q \in Run : q = slot[s].run
  BY ExecuteOneFrame DEF TInv
<1>2. /\ InFlight(s) /\ Others(q) /\ TablesTypeOK /\ Backed(s)
      /\ job_runs[q].scheduled_at <= 0
  BY <1>1, ExecuteOneFrame DEF TInv, IInv, TypeOK, HeldDue, InFlight
<1>0. slot[s].attempt \in 1 .. MaxSmallint
  BY <1>1, <1>2, LimitAssumption DEF TInv, IInv, TypeOK, Tokens, InFlight, TablesTypeOK, Row
<1>3. /\ job_runs[q].status \in {"leased", "running", "failed"}
      /\ slot[s].pc # "bury" => job_runs[q].status \in {"leased", "running"}
  BY <1>1, <1>2 DEF Backed
<1>4. CASE job_runs' = job_runs
  BY <1>4 DEF RowQuiet
<1>5. CASE MarkRunning(q) /\ slot[s].pc # "bury"
  <2>1. job_runs'[q].status = "running" /\ job_runs'[q].scheduled_at = job_runs[q].scheduled_at
    BY <1>2, <1>5, StatusEffect, ScheduledKept DEF RunStatus
  <2> QED BY <1>2, <1>3, <1>5, <2>1 DEF RowQuiet, SeenAs, Others
<1>6. CASE CompleteRun(q) /\ slot[s].pc # "bury"
  <2>1. job_runs'[q].status = "succeeded" /\ job_runs'[q].scheduled_at = job_runs[q].scheduled_at
    BY <1>2, <1>6, StatusEffect, ScheduledKept DEF RunStatus
  <2> QED BY <1>2, <1>3, <1>6, <2>1 DEF RowEnded, Active
<1>7. CASE FailRun(q) /\ slot[s].pc # "bury"
  <2>1. job_runs'[q].status = "failed" /\ job_runs'[q].scheduled_at = job_runs[q].scheduled_at
    BY <1>2, <1>7, StatusEffect, ScheduledKept DEF RunStatus
  <2> QED BY <1>2, <1>3, <1>7, <2>1 DEF RowEnded, Active
<1>8. CASE MarkDead(q)
  <2>1. job_runs'[q].status = "dead" /\ job_runs'[q].scheduled_at = job_runs[q].scheduled_at
    BY <1>2, <1>8, StatusEffect, ScheduledKept DEF RunStatus
  <2>2. CASE job_runs[q].status = "failed"
    BY <1>2, <2>1, <2>2 DEF RowQuiet, SeenAs, Others
  <2> QED BY <1>2, <1>3, <2>1, <2>2 DEF RowEnded, Active
<1>9. CASE RequeueRun(q, Backoff[slot[s].attempt]) /\ slot[s].pc # "bury"
  <2>1. job_runs'[q].status = "pending" /\ job_runs'[q].scheduled_at = RetryDelay
    BY <1>0, <1>2, <1>9, SystemAssumption DEF RequeueRun, TablesTypeOK, Row
  <2> QED BY <1>2, <1>3, <1>9, <2>1 DEF RowDelayed, Active
<1> QED
  BY <1>1, <1>4, <1>5, <1>6, <1>7, <1>8, <1>9
     DEF ExecuteOne, StartHandler, HandlerSucceeds, HandlerFails, Complete, Retry, Fail, Bury,
         StoreError, tables

LEMMA WorkingSeen ==
  ASSUME TInv, HeldDue, Working
  PROVE  (\A r \in Run : RowQuiet(r)) \/ \E q \in Run : RowEnded(q) \/ RowDelayed(q)
<1>1. CASE \E w \in Worker : Janitor(w)
  <2>1. TablesTypeOK /\ ReclaimExpiredLeases
    BY <1>1 DEF TInv, IInv, TypeOK, Janitor
  <2>2. \A r \in Run : /\ job_runs'[r].scheduled_at = job_runs[r].scheduled_at
                       /\ \/ job_runs'[r].status = job_runs[r].status
                          \/ Active(r) /\ job_runs'[r].status = "pending"
    BY <2>1 DEF ReclaimExpiredLeases, TablesTypeOK, Row, LeaseExpired, Active
  <2> QED BY <2>2 DEF RowQuiet, SeenAs, Active
<1>2. CASE \E w \in Worker : Start(w) \/ Stop(w)
  BY <1>2 DEF Start, Stop, tables, RowQuiet
<1> QED BY <1>1, <1>2, LeaseLoopSeen, ExecuteOneSeen DEF Working

\* No step of the workers brings a row into being or takes one away.
LEMMA SeenRows ==
  ASSUME TypeOK, (\A r \in Run : RowQuiet(r)) \/ \E q \in Run : RowEnded(q) \/ RowDelayed(q)
  PROVE  \A r \in Run : job_runs'[r].status = "absent" <=> job_runs[r].status = "absent"
<1>1. CASE \A r \in Run : RowQuiet(r)
  BY <1>1 DEF RowQuiet, SeenAs
<1>2. CASE \E q \in Run : RowEnded(q) \/ RowDelayed(q)
  BY <1>2 DEF RowEnded, RowDelayed, Others, Active
<1> QED BY <1>1, <1>2

LEMMA MadeKept ==
  ASSUME \A r \in Run : job_runs'[r].status = "absent" <=> job_runs[r].status = "absent",
         NEW j \in Job
  PROVE  Made(j)' = Made(j)
<1>1. \A i \in 1 .. RunLimit : <<j, i>> \in Run
  BY SystemAssumption
<1> QED BY <1>1 DEF Made

LEMMA WorkingPlan ==
  ASSUME SystemInv, Working, Below
  PROVE  Numbered' /\ PlanKept'
<1>1. (\A r \in Run : RowQuiet(r)) \/ \E q \in Run : RowEnded(q) \/ RowDelayed(q)
  BY WorkingSeen DEF SystemInv
<1>2. \A r \in Run : job_runs'[r].status = "absent" <=> job_runs[r].status = "absent"
  BY <1>1, SeenRows DEF SystemInv, TInv, IInv
<1>3. Numbered'
  BY <1>2, MadeKept DEF SystemInv, Numbered
<1>4. \A r \in Run : \/ job_runs'[r].scheduled_at = job_runs[r].scheduled_at
                     \/ job_runs'[r].scheduled_at = RetryDelay
  BY <1>1 DEF RowQuiet, RowEnded, RowDelayed, Others
<1>5. clock' = clock /\ planned' = [r \in Run |->
         IF job_runs'[r].scheduled_at = job_runs[r].scheduled_at THEN planned[r]
         ELSE clock + job_runs'[r].scheduled_at]
  BY DEF Below
<1>6. clock \in Nat /\ RetryDelay \in Nat
  BY SystemAssumption DEF SystemInv, Clocks
<1>7. ASSUME NEW r \in Run, job_runs'[r].status # "absent"
      PROVE  /\ planned'[r] \in 0 .. clock + RetryDelay
             /\ \/ job_runs'[r].scheduled_at = planned'[r] - clock
                \/ clock = MaxTime /\ job_runs'[r].scheduled_at <= planned'[r] - clock
  <2>1. job_runs[r].status # "absent"
    BY <1>2, <1>7
  <2>2. CASE job_runs'[r].scheduled_at = job_runs[r].scheduled_at
    BY <1>5, <2>1, <2>2 DEF SystemInv, PlanKept
  <2>3. CASE job_runs'[r].scheduled_at # job_runs[r].scheduled_at
    BY <1>4, <1>5, <1>6, <2>3
  <2> QED BY <2>2, <2>3
<1> QED BY <1>3, <1>5, <1>7 DEF PlanKept

LEMMA WorkingDue ==
  ASSUME SystemInv, Working
  PROVE  HeldDue'
<1> SUFFICES ASSUME NEW t \in Slot, slot'[t].pc # "idle"
             PROVE  job_runs'[slot'[t].run].scheduled_at <= 0
  BY DEF HeldDue
<1>0. TInv /\ IInv /\ TypeOK /\ HeldDue /\ slot \in [Slot -> SlotState]
  BY DEF SystemInv, TInv, IInv, TypeOK
<1>1. ASSUME NEW s \in Slot, LeaseLoop(s)
      PROVE  job_runs'[slot'[t].run].scheduled_at <= 0
  <2>1. \A r \in Run : job_runs'[r].scheduled_at = job_runs[r].scheduled_at
    BY <1>0, <1>1, LeaseLoopSeen DEF RowQuiet
  <2>2. CASE slot[t].pc # "idle" /\ slot'[t].run = slot[t].run
    BY <1>0, <2>1, <2>2 DEF IInv, BusyOnRow, HeldDue
  <2>3. CASE SelectRun(s) /\ t = s
    <3>1. PICK r \in NextRuns : slot' = [slot EXCEPT ![s] = Claiming(r)]
      BY <2>3 DEF SelectRun
    <3>2. r \in Run /\ job_runs[r].scheduled_at <= 0 /\ slot'[t].run = r
      BY <1>0, <2>3, <3>1 DEF NextRuns, Due, Claiming
    <3> QED BY <2>1, <3>2
  <2>4. CASE LeaseRun(s)
    <3>1. slot[t].pc # "idle" /\ slot'[t].run = slot[t].run
      BY <1>0, <2>4 DEF LeaseRun, SlotState
    <3> QED BY <2>2, <3>1
  <2>5. CASE ~(SelectRun(s) /\ t = s) /\ ~LeaseRun(s)
    <3>1. slot'[t] = slot[t]
      BY <1>0, <1>1, <2>5 DEF LeaseLoop, SelectRun, LeaseRollback, LeaseAnswerLost, GoIdle, Idle
    <3> QED BY <2>2, <3>1
  <2> QED BY <2>3, <2>4, <2>5
<1>2. ASSUME NEW s \in Slot, ExecuteOne(s)
      PROVE  job_runs'[slot'[t].run].scheduled_at <= 0
  <2>1. PICK q \in Run : q = slot[s].run
    BY <1>0, <1>2, ExecuteOneFrame
  <2>2. /\ InFlight(s) /\ Others(q) /\ (t # s => slot'[t] = slot[t])
        /\ InFlight(s)' => slot'[s].run = q
    BY <1>0, <1>2, <2>1, ExecuteOneFrame
  <2>3. Backed(s)
    BY <1>0, <2>2 DEF TInv
  <2>4. CASE t # s
    <3>1. slot'[t] = slot[t] /\ slot[t].pc # "idle" /\ slot[t].run \in Run
      BY <1>0, <2>2, <2>4 DEF IInv, BusyOnRow
    <3>2. slot[t].run # q
      <4>1. CASE InFlight(t)
        BY <1>0, <2>1, <2>2, <2>4, <4>1 DEF TInv, SingleOwner
      <4>2. CASE slot[t].pc = "claim"
        BY <1>0, <2>1, <2>3, <4>2 DEF IInv, ClaimsPending, Backed
      <4> QED BY <3>1, <4>1, <4>2 DEF InFlight
    <3> QED BY <1>0, <2>2, <3>1, <3>2 DEF Others, HeldDue
  <2>5. CASE t = s
    <3>1. ~GoIdle(s)
      BY <1>0, <2>5 DEF GoIdle, Idle
    <3>2. \/ job_runs' = job_runs
          \/ MarkRunning(q) \/ FailRun(q)
      BY <1>2, <2>1, <3>1
         DEF ExecuteOne, StartHandler, HandlerSucceeds, HandlerFails, Complete, Retry, Fail, Bury,
             StoreError, tables
    <3>3. job_runs'[q].scheduled_at = job_runs[q].scheduled_at
      BY <1>0, <3>2, ScheduledKept DEF TypeOK
    <3>4. slot'[s].run = q
      <4>1. \E p \in PC, d \in 0 .. Timeout : Goto(s, p, d)
        BY <1>2, <3>1, ExecuteOneMoves
      <4> QED BY <1>0, <2>1, <4>1, SlotMove
    <3>5. job_runs[q].scheduled_at <= 0
      BY <1>0, <2>1, <2>2 DEF HeldDue, InFlight
    <3> QED BY <2>5, <3>3, <3>4, <3>5
  <2> QED BY <2>4, <2>5
<1>3. ASSUME NEW w \in Worker, Janitor(w) \/ Start(w) \/ Stop(w)
      PROVE  job_runs'[slot'[t].run].scheduled_at <= 0
  <2>1. slot'[t] = slot[t]
    <3>1. CASE Janitor(w) \/ Start(w)
      BY <3>1 DEF Janitor, Start, pool
    <3>2. CASE Stop(w)
      <4>1. slot'[t] = IF Host[t] = w THEN Idle ELSE slot[t]
        BY <3>2 DEF Stop
      <4> QED BY <4>1 DEF Idle
    <3> QED BY <1>3, <3>1, <3>2
  <2>2. \A r \in Run : job_runs'[r].scheduled_at = job_runs[r].scheduled_at
    <3>1. CASE ReclaimExpiredLeases
      BY <1>0, <3>1 DEF ReclaimExpiredLeases, TypeOK, TablesTypeOK, Row
    <3> QED BY <1>3, <3>1 DEF Janitor, Start, Stop, tables
  <2> QED BY <1>0, <2>1, <2>2 DEF IInv, BusyOnRow, HeldDue
<1> QED BY <1>1, <1>2, <1>3 DEF Working

LEMMA CountMade ==
  ASSUME NEW j, NEW k \in Nat, Made(j) = 1 .. k
  PROVE  Count(j) = k
<1>1. Cardinality(1 .. k) = k
  BY FS_Interval
<1> QED BY <1>1 DEF Count, Made

\* The run InsertRun creates is the next number of its job.
LEMMA InsertPlan ==
  ASSUME SystemInv, NEW p \in Replica, InsertRun(p)
  PROVE  Numbered' /\ PlanKept' /\ HeldDue'
<1>1. PICK j \in Job, n \in 1 .. RunLimit :
         /\ n = Count(j) + 1
         /\ Promote(<<j, n>>, pass[p].now - clock)
         /\ planned' = [planned EXCEPT ![<<j, n>>] = pass[p].now]
         /\ clock' = clock
  BY SystemAssumption DEF InsertRun
<1> DEFINE r == <<j, n>>
<1>2. r \in Run
  BY SystemAssumption
<1>3. pass[p].now \in 0 .. clock /\ clock \in Nat /\ RetryDelay \in Nat
  BY SystemAssumption DEF SystemInv, Clocks
<1>4. TypeOK /\ TablesTypeOK /\ TInv
  BY DEF SystemInv, TInv, IInv, TypeOK
<1>5. /\ Others(r) /\ job_runs[r].status = "absent" /\ job_runs'[r].status = "pending"
      /\ job_runs'[r].scheduled_at = pass[p].now - clock
      /\ slot' = slot
  BY <1>1, <1>2, <1>4 DEF Promote, CreateRun, Others, TablesTypeOK, pool
<1> HIDE DEF r
<1>6. Numbered'
  <2>1. \A i \in Job, m \in 1 .. RunLimit : <<i, m>> \in Run
    BY SystemAssumption
  <2>2. ASSUME NEW i \in Job, i # j PROVE \E k \in 0 .. RunLimit : Made(i)' = 1 .. k
    <3>1. Made(i)' = Made(i)
      BY <1>5, <2>1, <2>2 DEF Made, Others, r
    <3> QED BY <3>1 DEF SystemInv, Numbered
  <2>3. \E k \in 0 .. RunLimit : Made(j)' = 1 .. k
    <3>1. PICK k \in 0 .. RunLimit : Made(j) = 1 .. k
      BY DEF SystemInv, Numbered
    <3>2. k \in Nat /\ RunLimit \in Nat
      BY SystemAssumption
    <3>3. n = k + 1
      BY <1>1, <3>1, <3>2, CountMade
    <3>4. Made(j)' = Made(j) \cup {n}
      BY <1>5, <2>1 DEF Made, Others, r
    <3>5. Made(j)' = 1 .. n
      BY <3>1, <3>2, <3>3, <3>4
    <3> QED BY <3>2, <3>5
  <2> QED BY <2>2, <2>3 DEF Numbered
<1>7. PlanKept'
  <2>1. /\ planned' = [q \in Run |-> planned'[q]]
        /\ planned'[r] = pass[p].now /\ \A q \in Run \ {r} : planned'[q] = planned[q]
    BY <1>1, <1>2 DEF SystemInv, PlanKept, r
  <2>2. planned'[r] \in 0 .. clock + RetryDelay /\ job_runs'[r].scheduled_at = planned'[r] - clock
    BY <1>3, <1>5, <2>1
  <2> QED BY <1>1, <1>5, <2>1, <2>2 DEF SystemInv, PlanKept, Others
<1>8. HeldDue'
  <2>1. \A s \in Slot : slot[s].pc # "idle" => slot[s].run \in Run \ {r}
    BY <1>4, <1>5 DEF TInv, IInv, BusyOnRow
  <2> QED BY <1>5, <2>1 DEF SystemInv, HeldDue, Others
<1> QED BY <1>6, <1>7, <1>8

\* What a tick does to scheduled_at.
LEMMA TickScheduled ==
  ASSUME TypeOK, Tick, NEW r \in Run
  PROVE  /\ job_runs'[r].status = job_runs[r].status
         /\ job_runs[r].status = "absent" => job_runs'[r] = job_runs[r]
         /\ job_runs[r].scheduled_at \in Int
         /\ job_runs[r].status # "absent" =>
              job_runs'[r].scheduled_at =
                 IF job_runs[r].scheduled_at > -MaxAge THEN job_runs[r].scheduled_at - 1
                 ELSE job_runs[r].scheduled_at
<1>1. job_runs[r] \in Row /\ job_runs'[r] = Aged(job_runs[r])
  BY DEF Tick, TypeOK, TablesTypeOK
<1> QED BY <1>1 DEF Aged, Row

LEMMA TickPlan ==
  ASSUME SystemInv, PromptTick, planned' = planned,
         (clock < MaxTime /\ clock' = clock + 1) \/ (clock = MaxTime /\ clock' = clock)
  PROVE  Numbered' /\ PlanKept' /\ HeldDue'
<1>1. TypeOK /\ Tick
  BY DEF SystemInv, TInv, IInv, PromptTick
<1>2. \A r \in Run : job_runs'[r].status = job_runs[r].status
  BY <1>1, TickScheduled
<1>3. Numbered'
  BY <1>2, MadeKept DEF SystemInv, Numbered
<1>4. PlanKept'
  <2> SUFFICES ASSUME NEW r \in Run, job_runs[r].status # "absent"
               PROVE  /\ planned[r] \in 0 .. clock' + RetryDelay
                      /\ \/ job_runs'[r].scheduled_at = planned[r] - clock'
                         \/ clock' = MaxTime /\ job_runs'[r].scheduled_at <= planned[r] - clock'
    BY <1>2 DEF SystemInv, PlanKept
  <2>1. /\ planned[r] \in 0 .. clock + RetryDelay
        /\ \/ job_runs[r].scheduled_at = planned[r] - clock
           \/ clock = MaxTime /\ job_runs[r].scheduled_at <= planned[r] - clock
    BY DEF SystemInv, PlanKept
  <2>2. /\ job_runs[r].scheduled_at \in Int
        /\ job_runs'[r].scheduled_at =
                 IF job_runs[r].scheduled_at > -MaxAge THEN job_runs[r].scheduled_at - 1
                 ELSE job_runs[r].scheduled_at
    BY <1>1, TickScheduled
  <2>3. clock \in 0 .. MaxTime /\ MaxTime \in Nat /\ MaxAge \in Nat /\ MaxTime <= MaxAge /\ RetryDelay \in Nat
    BY SystemAssumption, LimitAssumption DEF SystemInv, Clocks
  <2> QED BY <2>1, <2>2, <2>3
<1>5. HeldDue'
  <2> SUFFICES ASSUME NEW s \in Slot, slot'[s].pc # "idle"
               PROVE  job_runs'[slot'[s].run].scheduled_at <= 0
    BY DEF HeldDue
  <2>1. slot[s].pc # "idle" /\ slot'[s].run = slot[s].run
    BY <1>1 DEF Tick, TypeOK, SlotState
  <2>2. PICK r \in Run : r = slot[s].run /\ job_runs[r].scheduled_at <= 0 /\ job_runs[r].status # "absent"
    BY <2>1 DEF SystemInv, TInv, IInv, BusyOnRow, HeldDue
  <2>3. job_runs'[r].scheduled_at <= 0
    BY <1>1, <2>2, TickScheduled, LimitAssumption
  <2> QED BY <2>1, <2>2, <2>3
<1> QED BY <1>3, <1>4, <1>5

LEMMA PlanStep ==
  SystemInv /\ [SystemNext]_system => Numbered' /\ PlanKept' /\ HeldDue'
<1> SUFFICES ASSUME SystemInv, [SystemNext]_system PROVE Numbered' /\ PlanKept' /\ HeldDue'
  OBVIOUS
<1>1. CASE Apart \/ UNCHANGED system
  <2>1. job_runs' = job_runs /\ slot' = slot /\ clock' = clock /\ planned' = planned
    BY <1>1 DEF Apart, system, vars, tables, pool
  <2> QED BY <2>1 DEF SystemInv, Numbered, Made, PlanKept, HeldDue
<1>2. CASE \E p \in Replica : InsertRun(p)
  BY <1>2, InsertPlan
<1>3. CASE Working /\ Below
  BY <1>3, WorkingPlan, WorkingDue
<1>4. CASE SystemTick \/ LongTick
  <2>1. /\ PromptTick /\ planned' = planned
        /\ (clock < MaxTime /\ clock' = clock + 1) \/ (clock = MaxTime /\ clock' = clock)
    <3>1. CASE SystemTick
      BY <3>1 DEF SystemTick, P!Tick
    <3>2. CASE LongTick
      BY <3>2 DEF LongTick
    <3> QED BY <1>4, <3>1, <3>2
  <2> QED BY <2>1, TickPlan
<1> QED BY <1>1, <1>2, <1>3, <1>4, SystemCases

\* The invariant of the system: the timely workers', and what ties their tables to
\* what the schedulers read (LatestRunForJob, HasActiveRun).
THEOREM SystemInvariance == Timeout <= LeaseDuration => (SystemSpec => []SystemInv)
<1> SUFFICES ASSUME Timeout <= LeaseDuration PROVE SystemSpec => []SystemInv
  OBVIOUS
<1>1. SystemInit => Numbered /\ PlanKept /\ HeldDue
  <2> SUFFICES ASSUME SystemInit PROVE Numbered /\ PlanKept /\ HeldDue
    OBVIOUS
  <2>1. /\ \A r \in Run : job_runs[r].status = "absent"
        /\ \A s \in Slot : slot[s].pc = "idle"
        /\ planned = [r \in Run |-> 0]
    BY DEF SystemInit, Init, TablesInit, NoRow, Idle
  <2>2. ASSUME NEW j \in Job PROVE \E k \in 0 .. RunLimit : Made(j) = 1 .. k
    <3>1. Made(j) = {}
      BY <2>1, SystemAssumption DEF Made
    <3>2. 1 .. 0 = {} /\ 0 \in 0 .. RunLimit
      BY SystemAssumption
    <3> QED BY <3>1, <3>2
  <2> QED BY <2>1, <2>2 DEF Numbered, PlanKept, HeldDue
<1>2. SystemInv <=> TInv /\ Clocks /\ Numbered /\ PlanKept /\ HeldDue
  BY DEF SystemInv
<1>3. TimelySpec => []TInv
  BY TimelyInvariance
<1> QED
  BY <1>1, <1>2, <1>3, PlanStep, SystemRunsWorkers, ClocksInvariance, PTL DEF SystemSpec

-----------------------------------------------------------------------------
(* The refinement of Promoter.                                             *)

LEMMA CountType ==
  ASSUME Numbered, NEW j \in Job
  PROVE  /\ Count(j) \in 0 .. RunLimit /\ Made(j) = 1 .. Count(j)
         /\ Len(Runs[j]) = Count(j)
         /\ \A i \in 1 .. Count(j) : <<j, i>> \in Run /\ Runs[j][i] = Shown(<<j, i>>)
<1>1. PICK k \in 0 .. RunLimit : Made(j) = 1 .. k
  BY DEF Numbered
<1>2. k \in Nat /\ RunLimit \in Nat
  BY SystemAssumption
<1>3. Count(j) = k
  BY <1>1, <1>2, CountMade
<1>4. Runs[j] = [i \in 1 .. k |-> Shown(<<j, i>>)]
  BY <1>3 DEF Runs
<1>5. Len(Runs[j]) = k /\ \A i \in 1 .. k : Runs[j][i] = Shown(<<j, i>>)
  BY <1>2, <1>4
<1>6. \A i \in 1 .. k : <<j, i>> \in Run
  BY <1>2, SystemAssumption
<1> QED BY <1>1, <1>3, <1>5, <1>6

\* A step that shows the same of every row shows the same runs.
LEMMA SameRuns ==
  ASSUME Numbered, \A r \in Run : Shown(r)' = Shown(r),
         \A r \in Run : job_runs'[r].status = "absent" <=> job_runs[r].status = "absent"
  PROVE  Runs' = Runs
<1>1. \A j \in Job : Count(j)' = Count(j)
  BY MadeKept DEF Count, Made
<1>2. \A j \in Job : \A i \in 1 .. Count(j) : <<j, i>> \in Run
  BY CountType
<1> QED BY <1>1, <1>2 DEF Runs

\* A step that shows something new of one row writes to one run.
LEMMA OneRun ==
  ASSUME Numbered, NEW k \in Job, NEW n \in 1 .. Count(k), NEW row,
         Shown(<<k, n>>)' = row,
         \A r \in Run \ {<<k, n>>} : Shown(r)' = Shown(r),
         \A r \in Run : job_runs'[r].status = "absent" <=> job_runs[r].status = "absent"
  PROVE  P!SetRun(k, n, row)
<1>1. \A j \in Job : Count(j)' = Count(j)
  BY MadeKept DEF Count, Made
<1>2. \A j \in Job : \A i \in 1 .. Count(j) : <<j, i>> \in Run
  BY CountType
<1>3. Runs' = [j \in Job |-> [i \in 1 .. Count(j) |-> Shown(<<j, i>>)']]
  BY <1>1 DEF Runs
<1>4. ASSUME NEW j \in Job, NEW i \in 1 .. Count(j)
      PROVE  Shown(<<j, i>>)' = IF j = k /\ i = n THEN row ELSE Shown(<<j, i>>)
  BY <1>2
<1>5. Runs' = [Runs EXCEPT ![k] = [Runs[k] EXCEPT ![n] = row]]
  <2> DEFINE old == [j \in Job |-> [i \in 1 .. Count(j) |-> Shown(<<j, i>>)]]
             one == [old[k] EXCEPT ![n] = row]
             new == [j \in Job |-> [i \in 1 .. Count(j) |-> Shown(<<j, i>>)']]
  <2>1. \A j \in Job \ {k} : new[j] = old[j]
    BY <1>4
  <2>2. new[k] = one
    BY <1>4
  <2>3. DOMAIN old = Job /\ new = [j \in Job |-> new[j]] /\ old = [j \in Job |-> old[j]]
    OBVIOUS
  <2>4. Runs' = new /\ Runs = old /\ one = [Runs[k] EXCEPT ![n] = row]
    BY <1>3 DEF Runs
  <2> HIDE DEF old, new, one
  <2>5. new = [old EXCEPT ![k] = one]
    BY <2>1, <2>2, <2>3
  <2> QED BY <2>4, <2>5
<1> QED BY <1>5 DEF P!SetRun

\* Steps of workers end a run, requeue one, or show nothing.
LEMMA WorkingPromoter ==
  ASSUME SystemInv, Working, Below
  PROVE  [P!Next]_(P!vars)
<1>1. TypeOK /\ TInv /\ HeldDue /\ Numbered /\ PlanKept
  BY DEF SystemInv, TInv, IInv
<1>2. (\A r \in Run : RowQuiet(r)) \/ \E q \in Run : RowEnded(q) \/ RowDelayed(q)
  BY <1>1, WorkingSeen
<1>3. \A r \in Run : job_runs'[r].status = "absent" <=> job_runs[r].status = "absent"
  BY <1>1, <1>2, SeenRows
<1>4. /\ planned' = [r \in Run |->
         IF job_runs'[r].scheduled_at = job_runs[r].scheduled_at THEN planned[r]
         ELSE clock + job_runs'[r].scheduled_at]
      /\ UNCHANGED <<replicaUp, conn, isLeader, lock, drops, jobs, pass, lostCalls, late, clock, fired>>
  BY DEF Below, schedulers
<1>5. ASSUME NEW r \in Run, RowQuiet(r) PROVE Shown(r)' = Shown(r)
  BY <1>4, <1>5 DEF RowQuiet, Shown
<1>6. CASE \A r \in Run : RowQuiet(r)
  <2>1. Runs' = Runs
    BY <1>1, <1>3, <1>5, <1>6, SameRuns
  <2> QED BY <1>4, <2>1 DEF P!vars, P!elector, P!schedule
<1>7. ASSUME NEW q \in Run, RowEnded(q) \/ RowDelayed(q)
      PROVE  P!Next
  <2>1. PICK k \in Job, n \in 1 .. RunLimit : q = <<k, n>>
    BY SystemAssumption
  <2>2. Active(q)
    BY <1>7 DEF RowEnded, RowDelayed
  <2>3. n \in 1 .. Count(k)
    <3>1. n \in Made(k)
      BY <2>1, <2>2 DEF Made, Active
    <3> QED BY <1>1, <3>1, CountType
  <2>4. /\ Len(Runs[k]) = Count(k) /\ Runs[k][n] = Shown(q)
    BY <1>1, <2>1, <2>3, CountType
  <2>5. n \in P!ActiveRuns(k)
    BY <2>2, <2>3, <2>4 DEF P!ActiveRuns, Shown, SeenAs, Active
  <2>6. \A r \in Run \ {<<k, n>>} : Shown(r)' = Shown(r)
    BY <1>5, <1>7, <2>1 DEF RowEnded, RowDelayed, Others, RowQuiet
  <2>7. CASE RowEnded(q)
    <3>1. PICK st \in {"succeeded", "failed"} : st = SeenAs(job_runs'[q].status)
      BY <2>7 DEF RowEnded, SeenAs
    <3> DEFINE row == [status |-> st, scheduled_at |-> Runs[k][n].scheduled_at, fired |-> Runs[k][n].fired]
    <3>2. Shown(<<k, n>>)' = row
      <4>1. Shown(<<k, n>>)' = [status |-> SeenAs(job_runs'[<<k, n>>].status),
                                scheduled_at |-> planned'[<<k, n>>], fired |-> fired'[<<k, n>>]]
        BY DEF Shown
      <4>2. planned'[q] = planned[q] /\ fired'[q] = fired[q]
        BY <1>4, <2>7 DEF RowEnded
      <4>3. Runs[k][n].scheduled_at = planned[q] /\ Runs[k][n].fired = fired[q]
        <5>1. Shown(q).scheduled_at = planned[q] /\ Shown(q).fired = fired[q]
          BY DEF Shown
        <5>2. Runs[k][n] = Shown(q)
          BY <2>4
        <5> QED BY <5>1, <5>2
      <4> QED BY <2>1, <3>1, <4>1, <4>2, <4>3
    <3>3. P!SetRun(k, n, row)
      <4> HIDE DEF row
      <4> QED BY <1>1, <1>3, <2>3, <2>6, <3>2, OneRun
    <3>4. P!RunEnds(k)
      BY <1>4, <2>5, <3>3 DEF P!RunEnds, P!elector
    <3> QED BY <3>4 DEF P!Next
  <2>8. CASE RowDelayed(q)
    <3>1. planned'[q] = clock + RetryDelay
      <4>1. /\ job_runs'[q].scheduled_at = RetryDelay /\ job_runs[q].scheduled_at <= 0
            /\ job_runs[q].status # "absent" /\ job_runs[q].scheduled_at \in Int
        BY <1>1, <2>8 DEF RowDelayed, Active, TypeOK, TablesTypeOK, Row
      <4>2. /\ planned[q] \in 0 .. clock + RetryDelay
            /\ \/ job_runs[q].scheduled_at = planned[q] - clock
               \/ job_runs[q].scheduled_at <= planned[q] - clock
        BY <1>1, <4>1 DEF PlanKept
      <4>3. clock \in Nat /\ RetryDelay \in Nat
        BY SystemAssumption DEF SystemInv, Clocks
      <4>4. CASE job_runs[q].scheduled_at = RetryDelay
        BY <1>4, <4>1, <4>2, <4>3, <4>4
      <4>5. CASE job_runs[q].scheduled_at # RetryDelay
        BY <1>4, <4>1, <4>5
      <4> QED BY <4>4, <4>5
    <3> DEFINE row == [status |-> "active", scheduled_at |-> clock + RetryDelay, fired |-> Runs[k][n].fired]
    <3>2. Shown(<<k, n>>)' = row
      BY <1>4, <2>1, <2>4, <2>8, <3>1 DEF RowDelayed, Shown, SeenAs
    <3>3. P!SetRun(k, n, row)
      <4> HIDE DEF row
      <4> QED BY <1>1, <1>3, <2>3, <2>6, <3>2, OneRun
    <3>4. P!RunRequeued(k)
      BY <1>4, <2>5, <3>3 DEF P!RunRequeued, P!elector
    <3> QED BY <3>4 DEF P!Next
  <2> QED BY <1>7, <2>7, <2>8
<1> QED BY <1>2, <1>6, <1>7

LEMMA PromoterStep == SystemInv /\ [SystemNext]_system => [P!Next]_(P!vars)
<1> SUFFICES ASSUME SystemInv, [SystemNext]_system PROVE [P!Next]_(P!vars)
  OBVIOUS
<1>1. CASE Scheduling
  BY <1>1 DEF Scheduling, P!Next, P!PromoteOnce
<1>2. CASE \E p \in Replica : InsertRun(p)
  BY <1>2 DEF InsertRun, P!Next, P!PromoteOnce
<1>3. CASE Working /\ Below
  BY <1>3, WorkingPromoter
<1>4. CASE SystemTick
  BY <1>4 DEF SystemTick, P!Next
<1>5. CASE LongTick
  <2>1. TypeOK /\ Tick /\ Numbered
    BY <1>5 DEF SystemInv, TInv, IInv, LongTick, PromptTick
  <2>2. \A r \in Run : job_runs'[r].status = job_runs[r].status
    BY <2>1, TickScheduled
  <2>3. \A r \in Run : Shown(r)' = Shown(r)
    BY <1>5, <2>2 DEF LongTick, Shown
  <2>4. Runs' = Runs
    BY <2>1, <2>2, <2>3, SameRuns
  <2> QED BY <1>5, <2>4 DEF LongTick, schedulers, P!vars, P!elector, P!schedule
<1>6. CASE UNCHANGED system
  <2>1. Runs' = Runs
    BY <1>6 DEF system, vars, tables, Runs, Count, Shown
  <2> QED BY <1>6, <2>1 DEF system, schedulers, P!vars, P!elector, P!schedule
<1> QED BY <1>1, <1>2, <1>3, <1>4, <1>5, <1>6, SystemCases

\* With timely workers the system implements Promoter: whatever is shown there of
\* fires, pauses and dependencies holds of the real workers.
THEOREM SystemImplementsPromoter ==
  Timeout <= LeaseDuration => (SystemSpec => ImplementsPromoter)
<1> SUFFICES ASSUME Timeout <= LeaseDuration PROVE SystemSpec => ImplementsPromoter
  OBVIOUS
<1>1. SystemInit => P!Init
  BY DEF SystemInit
<1> QED
  BY <1>1, PromoterStep, SystemInvariance, PTL DEF SystemSpec, ImplementsPromoter, P!Spec

=============================================================================
