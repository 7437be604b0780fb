-------------------------- MODULE FireBudgetProofs --------------------------
(***************************************************************************)
(* How often a job fires, for any jobs, replicas and faults.  Whoever is   *)
(* in a pass without the lock has lost a connection (Stray), so at most    *)
(* 1 + drops replicas are in a pass.  For every job, what was created      *)
(* already and what replicas may still create on answers they have read    *)
(* share that budget: each replica spends its part when it inserts, and    *)
(* gets a part back only by reading that nothing is there.                 *)
(***************************************************************************)
EXTENDS PromoterProofs, FiniteSetTheorems

Inside == {p \in Replica : pass[p].pc # "idle"}

\* Replicas in a pass that do not hold the lock.
Stray == {p \in Inside : ~(conn[p] = "open" /\ lock = p)}

StrayInv == IsFiniteSet(Stray) /\ Cardinality(Stray) <= drops

Deciding(j) == {p \in Replica : Decides(pass[p], j)}
Firing(j) == {p \in Replica : Fires(pass[p], j)}
Holding(j) == {p \in Replica : Holds(pass[p], j)}

\* Set S and n things that exist are within the budget.
Within(n, S, d) == IsFiniteSet(S) /\ n + Cardinality(S) <= 1 + d

ActiveInv == \A j \in Job : Within(Cardinality(ActiveRuns(j)), Deciding(j), drops)
OnceInv == \A j \in Job : Cron[j] = 0 => Within(Len(runs[j]), Firing(j), drops)
PauseInv ==
    \A j \in Job :
       /\ jobs[j].status # "paused" => late[j] = 0
       /\ Within(late[j], Holding(j), drops)

\* A job at hand has been taken off the page.
OffPage == \A p \in Replica : pass[p].job \notin pass[p].todo

BudgetInv == PInv /\ StrayInv /\ OffPage /\ ActiveInv /\ OnceInv /\ PauseInv

-----------------------------------------------------------------------------
(* Counting.                                                               *)

USE SMTT(20), ZenonT(20)

\* Nothing is added.
LEMMA WithinSubset ==
    ASSUME NEW S, NEW T \in SUBSET S, NEW n \in Nat, NEW m \in Nat, NEW d \in Nat, NEW e \in Nat,
           Within(n, S, d), m <= n, d <= e
    PROVE  Within(m, T, e)
<1>1. IsFiniteSet(T) /\ Cardinality(T) <= Cardinality(S)
  BY FS_Subset DEF Within
<1>2. Cardinality(S) \in Nat /\ Cardinality(T) \in Nat
  BY <1>1, FS_CardinalityType DEF Within
<1> QED BY <1>1, <1>2 DEF Within

\* A replica spends its part.
LEMMA WithinSpent ==
    ASSUME NEW S, NEW p \in S, NEW T \in SUBSET (S \ {p}), NEW n \in Nat, NEW m \in Nat,
           NEW d \in Nat, Within(n, S, d), m <= n + 1
    PROVE  Within(m, T, d)
<1>1. IsFiniteSet(S \ {p}) /\ Cardinality(S \ {p}) = Cardinality(S) - 1
  BY FS_RemoveElement DEF Within
<1>2. IsFiniteSet(T) /\ Cardinality(T) <= Cardinality(S) - 1
  BY <1>1, FS_Subset
<1>3. Cardinality(S) \in Nat /\ Cardinality(T) \in Nat
  BY <1>2, FS_CardinalityType DEF Within
<1> QED BY <1>2, <1>3 DEF Within

\* Who is in a pass holds the lock or is stray.
LEMMA InsideBound == ASSUME StrayInv, drops \in Nat PROVE Within(0, Inside, drops)
<1>0. IsFiniteSet(Stray) /\ Cardinality(Stray) \in Nat
  BY FS_CardinalityType DEF StrayInv
<1>1. IsFiniteSet(Stray \cup {lock}) /\ Cardinality(Stray \cup {lock}) <= Cardinality(Stray) + 1
  <2> DEFINE S == Stray
             T == S \cup {lock}
  <2>1. IsFiniteSet(T) /\ Cardinality(T) = IF lock \in S THEN Cardinality(S) ELSE Cardinality(S) + 1
    BY <1>0, FS_AddElement
  <2>2. Cardinality(S) \in Nat
    BY <1>0
  <2> HIDE DEF S, T
  <2>3. IsFiniteSet(T) /\ Cardinality(T) <= Cardinality(S) + 1
    BY <2>1, <2>2
  <2> QED BY <2>3 DEF S, T
<1>2. Inside \subseteq Stray \cup {lock}
  BY DEF Stray
<1>3. IsFiniteSet(Inside) /\ Cardinality(Inside) <= Cardinality(Stray \cup {lock})
  BY <1>1, <1>2, FS_Subset
<1>4. Cardinality(Inside) \in Nat /\ Cardinality(Stray) \in Nat /\ Cardinality(Stray \cup {lock}) \in Nat
  BY <1>1, <1>3, FS_CardinalityType DEF StrayInv
<1> QED BY <1>1, <1>3, <1>4 DEF Within, StrayInv

\* The active runs of a job can be counted.
LEMMA ActiveFinite ==
    ASSUME TypeOK, NEW j \in Job
    PROVE  IsFiniteSet(ActiveRuns(j)) /\ Cardinality(ActiveRuns(j)) \in Nat
<1>1. Len(runs[j]) \in Nat
  BY DEF TypeOK
<1>2. IsFiniteSet(1 .. Len(runs[j])) /\ ActiveRuns(j) \in SUBSET (1 .. Len(runs[j]))
  BY <1>1, FS_Interval DEF ActiveRuns
<1> QED BY <1>2, FS_Subset, FS_CardinalityType

-----------------------------------------------------------------------------
(* Steps that give nobody anything new.                                    *)

\* Nobody becomes stray.
LEMMA StrayKept ==
    ASSUME StrayInv, drops \in Nat, drops' = drops, Stray' \subseteq Stray
    PROVE  StrayInv'
<1>1. IsFiniteSet(Stray') /\ Cardinality(Stray') <= Cardinality(Stray)
  BY FS_Subset DEF StrayInv
<1>2. Cardinality(Stray) \in Nat /\ Cardinality(Stray') \in Nat
  BY <1>1, FS_CardinalityType DEF StrayInv
<1> QED BY <1>1, <1>2 DEF StrayInv

\* Nobody finds a job inactive, and no run becomes active.
LEMMA ActiveKept ==
    ASSUME TypeOK, TypeOK', ActiveInv, drops <= drops',
           \A q \in Replica, j \in Job : Decides(pass'[q], j) => Decides(pass[q], j),
           \A j \in Job : ActiveRuns(j)' \subseteq ActiveRuns(j)
    PROVE  ActiveInv'
<1> SUFFICES ASSUME NEW j \in Job
             PROVE  Within(Cardinality(ActiveRuns(j)'), Deciding(j)', drops')
  BY DEF ActiveInv
<1>1. Deciding(j)' \in SUBSET Deciding(j)
  BY DEF Deciding
<1>2. drops \in Nat /\ drops' \in Nat
  BY DropAssumption DEF TypeOK, ElectorTypeOK
<1>3. Cardinality(ActiveRuns(j)) \in Nat /\ IsFiniteSet(ActiveRuns(j))
  BY ActiveFinite
<1>4. Cardinality(ActiveRuns(j)') \in Nat /\ Cardinality(ActiveRuns(j)') <= Cardinality(ActiveRuns(j))
  BY <1>3, FS_Subset, FS_CardinalityType
<1>5. Within(Cardinality(ActiveRuns(j)), Deciding(j), drops)
  BY DEF ActiveInv
<1> QED BY <1>1, <1>2, <1>3, <1>4, <1>5, WithinSubset

\* Nobody finds a one-shot due, and no run is created.
LEMMA OnceKept ==
    ASSUME TypeOK, TypeOK', OnceInv, drops <= drops',
           \A q \in Replica, j \in Job : Fires(pass'[q], j) => Fires(pass[q], j),
           \A j \in Job : Len(runs'[j]) = Len(runs[j])
    PROVE  OnceInv'
<1> SUFFICES ASSUME NEW j \in Job, Cron[j] = 0
             PROVE  Within(Len(runs'[j]), Firing(j)', drops')
  BY DEF OnceInv
<1>1. Firing(j)' \in SUBSET Firing(j)
  BY DEF Firing
<1>2. drops \in Nat /\ drops' \in Nat
  BY DropAssumption DEF TypeOK, ElectorTypeOK
<1>3. Len(runs[j]) \in Nat
  BY DEF TypeOK
<1>4. Within(Len(runs[j]), Firing(j), drops)
  BY DEF OnceInv
<1> QED BY <1>1, <1>2, <1>3, <1>4, WithinSubset

\* Nobody lists a job, and late counts nothing new.
LEMMA PauseKept ==
    ASSUME TypeOK, TypeOK', PauseInv, drops <= drops',
           \A q \in Replica, j \in Job : Holds(pass'[q], j) => Holds(pass[q], j),
           \A j \in Job : late'[j] <= late[j],
           \A j \in Job : jobs'[j].status # "paused" => late'[j] = 0
    PROVE  PauseInv'
<1> SUFFICES ASSUME NEW j \in Job
             PROVE  Within(late'[j], Holding(j)', drops')
  BY DEF PauseInv
<1>1. Holding(j)' \in SUBSET Holding(j)
  BY DEF Holding
<1>2. drops \in Nat /\ drops' \in Nat
  BY DropAssumption DEF TypeOK, ElectorTypeOK
<1>3. late[j] \in Nat /\ late'[j] \in Nat
  BY DEF TypeOK
<1>4. Within(late[j], Holding(j), drops)
  BY DEF PauseInv
<1> QED BY <1>1, <1>2, <1>3, <1>4, WithinSubset

-----------------------------------------------------------------------------
(* Who is stray.                                                           *)

\* Nobody enters a pass but by an election.
LEMMA NobodyEnters ==
    ASSUME TypeOK, NEW p \in Replica, PromoteOnce(p), NEW q \in Replica, pass'[q].pc # "idle"
    PROVE  pass[q].pc # "idle"
<1>1. CASE q = p
  BY <1>1 DEF PromoteOnce, ListJobs, CheckActive, CheckDue, CheckDependency, CreateRun, CallFails,
              Finish
<1>2. CASE q # p
  <2>1. CASE ListJobs(p)
    BY <1>2, <2>1 DEF ListJobs, TypeOK
  <2>2. CASE CheckActive(p)
    BY <1>2, <2>2, GotoRecord DEF CheckActive
  <2>3. CASE CheckDue(p)
    BY <1>2, <2>3, GotoRecord DEF CheckDue, Continue
  <2>4. CASE CheckDependency(p)
    BY <1>2, <2>4, GotoRecord DEF CheckDependency, Continue
  <2>5. CASE CreateRun(p)
    BY <1>2, <2>5, GotoRecord DEF CreateRun, Continue
  <2>6. CASE CallFails(p) \/ Finish(p)
    BY <1>2, <2>6, GotoRecord, EndPassRecord DEF CallFails, Finish, Continue
  <2> QED BY <2>1, <2>2, <2>3, <2>4, <2>5, <2>6 DEF PromoteOnce
<1> QED BY <1>1, <1>2

\* Who is elected holds the lock, and takes it from nobody who has it.
LEMMA ElectStray ==
    ASSUME TypeOK, LeaderInv, NEW p \in Replica, Elect(p) \/ ElectFails(p)
    PROVE  Stray' \subseteq Stray /\ drops' = drops
<1> SUFFICES ASSUME NEW q \in Replica, pass'[q].pc # "idle", ~(conn'[q] = "open" /\ lock' = q)
             PROVE  q \in Stray /\ drops' = drops
  BY DEF Stray, Inside, Elect, ElectFails, TryAcquire, TryAcquireFails
<1>1. CASE Elect(p)
  <2>1. PICK leads \in BOOLEAN : TryAcquire(p, leads) /\ Goto(p, IF leads THEN "list" ELSE "idle", {}, NoJob, {})
    BY <1>1 DEF Elect
  <2>2. CASE q = p
    <3>1. leads
      BY <2>1, <2>2, GotoRecord
    <3>2. conn'[q] = "open" /\ lock' = p
      BY <2>1, <2>2, <3>1 DEF TryAcquire, StillLeader, LeaderInv, TypeOK, ElectorTypeOK
    <3> QED BY <2>2, <3>2
  <2>3. CASE q # p
    <3>1. pass[q].pc # "idle" /\ conn'[q] = conn[q] /\ drops' = drops
      BY <2>1, <2>3, GotoRecord DEF TryAcquire, TypeOK, ElectorTypeOK
    <3>2. lock = q => lock' = q
      BY <2>1, <2>3, LockAssumption DEF TryAcquire, StillLeader, LeaderInv
    <3> QED BY <3>1, <3>2 DEF Stray, Inside
  <2> QED BY <2>2, <2>3
<1>2. CASE ElectFails(p)
  <2>1. q # p /\ pass[q].pc # "idle" /\ conn'[q] = conn[q] /\ drops' = drops
    BY <1>2 DEF ElectFails, TryAcquireFails, TypeOK, ElectorTypeOK
  <2>2. lock = q => lock' = q
    BY <1>2, LockAssumption DEF ElectFails, TryAcquireFails
  <2> QED BY <2>1, <2>2 DEF Stray, Inside
<1> QED BY <1>1, <1>2

\* A stop and a start take the lock from nobody who stays in a pass.
LEMMA StopStray ==
    ASSUME TypeOK, NEW p \in Replica, Stop(p) \/ Start(p)
    PROVE  Stray' \subseteq Stray /\ drops' = drops
<1>1. CASE Stop(p)
  <2>1. pass'[p].pc = "idle" /\ \A q \in Replica \ {p} : pass'[q] = pass[q] /\ conn'[q] = conn[q]
    BY <1>1, EndPassRecord DEF Stop, StopReplica, TypeOK, ElectorTypeOK
  <2>2. \A q \in Replica \ {p} : lock = q => lock' = q
    BY <1>1 DEF Stop, StopReplica
  <2> QED BY <1>1, <2>1, <2>2 DEF Stray, Inside, Stop, StopReplica
<1>2. CASE Start(p)
  BY <1>2 DEF Start, StartReplica, schedule, Stray, Inside
<1> QED BY <1>1, <1>2

\* A lost connection makes one replica stray.
LEMMA DropStray ==
    ASSUME TypeOK, StrayInv, NEW p \in Replica, Drop(p)
    PROVE  StrayInv'
<1>1. drops \in Nat /\ drops' = drops + 1
  BY DropAssumption DEF TypeOK, ElectorTypeOK, Drop, DropConn
<1>2. Stray' \subseteq Stray \cup {p}
  <2>1. \A q \in Replica \ {p} : conn'[q] = conn[q] /\ (lock = q => lock' = q)
    BY DEF Drop, DropConn, TypeOK, ElectorTypeOK
  <2> QED BY <2>1 DEF Drop, schedule, Stray, Inside
<1> DEFINE S == Stray
           T == S \cup {p}
<1>3. IsFiniteSet(S) /\ Cardinality(S) \in Nat /\ Cardinality(S) <= drops
  BY FS_CardinalityType DEF StrayInv
<1>4. IsFiniteSet(T) /\ Cardinality(T) = IF p \in S THEN Cardinality(S) ELSE Cardinality(S) + 1
  BY <1>3, FS_AddElement
<1>5. IsFiniteSet(Stray') /\ Cardinality(Stray') <= Cardinality(T) /\ Cardinality(Stray') \in Nat
  BY <1>2, <1>4, FS_Subset, FS_CardinalityType
<1> HIDE DEF S, T
<1>6. Cardinality(Stray') <= drops'
  BY <1>1, <1>3, <1>4, <1>5
<1> QED BY <1>5, <1>6 DEF StrayInv

\* At most one replica is stray for every connection lost.
LEMMA StrayStep ==
    ASSUME PInv, StrayInv, [Next]_vars
    PROVE  StrayInv'
<1>0. TypeOK /\ LeaderInv /\ drops \in Nat
  BY DropAssumption DEF PInv, TypeOK, ElectorTypeOK
<1>1. ASSUME UNCHANGED elector, \A q \in Replica : pass'[q].pc # "idle" => pass[q].pc # "idle"
      PROVE  StrayInv'
  BY <1>0, <1>1, StrayKept DEF elector, Stray, Inside
<1>2. ASSUME NEW p \in Replica, PromoteOnce(p)
      PROVE  StrayInv'
  <2>1. UNCHANGED elector
    BY <1>2 DEF PromoteOnce, ListJobs, CheckActive, CheckDue, CheckDependency, CreateRun, CallFails,
                Finish
  <2> QED BY <1>0, <1>1, <1>2, <2>1, NobodyEnters
<1>3. ASSUME NEW p \in Replica, Elect(p) \/ ElectFails(p)
      PROVE  StrayInv'
  BY <1>0, <1>3, ElectStray, StrayKept
<1>4. ASSUME NEW p \in Replica, Stop(p) \/ Start(p)
      PROVE  StrayInv'
  BY <1>0, <1>4, StopStray, StrayKept
<1>5. CASE EndSession
  <2>1. Stray' \subseteq Stray /\ drops' = drops
    <3>1. \A q \in Replica : lock # q
      BY <1>5, LockAssumption DEF EndSession, SessionEnds
    <3> QED BY <1>5, <3>1 DEF EndSession, SessionEnds, schedule, Stray, Inside
  <2> QED BY <1>0, <2>1, StrayKept
<1>6. ASSUME NEW j \in Job,
             CreateJob(j) \/ PauseJob(j) \/ ResumeJob(j) \/ RunEnds(j) \/ RunRequeued(j)
      PROVE  StrayInv'
  BY <1>1, <1>6 DEF CreateJob, PauseJob, ResumeJob, RunEnds, RunRequeued
<1>7. CASE Tick \/ UNCHANGED vars
  BY <1>1, <1>7 DEF Tick, vars, schedule
<1> QED BY <1>0, <1>2, <1>3, <1>4, <1>5, <1>6, <1>7, DropStray DEF Next

-----------------------------------------------------------------------------
(* The budget, step by step.                                               *)

\* A step that leaves the tables alone.
LEMMA CalmBudget ==
    ASSUME TypeOK, TypeOK', BudgetInv, UNCHANGED <<jobs, runs, late>>, drops <= drops'
    PROVE  /\ (\A q \in Replica : CalmDecides(q)) => ActiveInv'
           /\ (\A q \in Replica : CalmFires(q)) => OnceInv'
           /\ (\A q \in Replica : CalmHolds(q)) => PauseInv'
<1>1. \A j \in Job : ActiveRuns(j)' = ActiveRuns(j) /\ Len(runs'[j]) = Len(runs[j])
  BY DEF ActiveRuns
<1>2. \A j \in Job : late'[j] <= late[j] /\ (jobs'[j].status # "paused" => late'[j] = 0)
  BY DEF BudgetInv, PauseInv, TypeOK
<1>3. ASSUME \A q \in Replica : CalmDecides(q) PROVE ActiveInv'
  BY <1>1, <1>3, ActiveKept DEF BudgetInv, CalmDecides
<1>4. ASSUME \A q \in Replica : CalmFires(q) PROVE OnceInv'
  BY <1>1, <1>4, OnceKept DEF BudgetInv, CalmFires
<1>5. ASSUME \A q \in Replica : CalmHolds(q) PROVE PauseInv'
  BY <1>2, <1>5, PauseKept DEF BudgetInv, CalmHolds
<1> QED BY <1>3, <1>4, <1>5

\* A page holds active jobs only, and only leaders have pages.
LEMMA ListJobsBudget ==
    ASSUME TypeOK, TypeOK', BudgetInv, NEW p \in Replica, ListJobs(p)
    PROVE  ActiveInv' /\ OnceInv' /\ PauseInv'
<1>0. UNCHANGED <<jobs, runs, late>> /\ drops' = drops /\ drops \in Nat
  BY DropAssumption DEF ListJobs, elector, TypeOK, ElectorTypeOK
<1>1. ActiveInv' /\ OnceInv'
  BY <1>0, ListJobsPass, CalmBudget
<1>2. ASSUME NEW j \in Job PROVE Within(late[j], Holding(j)', drops)
  <2>0. late[j] \in Nat
    BY DEF TypeOK
  <2>1. CASE late[j] = 0
    <3>1. Holding(j)' \in SUBSET Inside
      BY ListJobsPass DEF Holding, Holds, Inside
    <3>2. Within(0, Inside, drops)
      BY <1>0, InsideBound DEF BudgetInv
    <3> QED BY <1>0, <2>1, <3>1, <3>2, WithinSubset
  <2>2. CASE late[j] # 0
    <3>1. jobs[j].status # "active"
      BY <2>2 DEF BudgetInv, PauseInv
    <3>2. Holding(j)' \in SUBSET Holding(j)
      BY <3>1, ListJobsPass, ScheduleAssumption DEF Holding, Holds
    <3>3. Within(late[j], Holding(j), drops)
      BY DEF BudgetInv, PauseInv
    <3> QED BY <1>0, <2>0, <3>2, <3>3, WithinSubset
  <2> QED BY <2>1, <2>2
<1>3. PauseInv'
  BY <1>0, <1>2 DEF BudgetInv, PauseInv
<1> QED BY <1>1, <1>3

\* A replica decides on a job that has no active run, and only leaders decide.
LEMMA CheckActiveBudget ==
    ASSUME TypeOK, TypeOK', BudgetInv, NEW p \in Replica, CheckActive(p)
    PROVE  ActiveInv' /\ OnceInv' /\ PauseInv'
<1>0. UNCHANGED <<jobs, runs, late>> /\ drops' = drops /\ drops \in Nat
  BY DropAssumption DEF CheckActive, elector, TypeOK, ElectorTypeOK
<1>1. OnceInv' /\ PauseInv'
  BY <1>0, CheckActivePass, CalmBudget
<1>2. ASSUME NEW j \in Job PROVE Within(Cardinality(ActiveRuns(j)), Deciding(j)', drops)
  <2>1. CASE ActiveRuns(j) = {}
    <3>1. Deciding(j)' \in SUBSET Inside
      BY CheckActivePass DEF Deciding, Decides, Inside
    <3>2. Within(0, Inside, drops)
      BY <1>0, InsideBound DEF BudgetInv
    <3>3. Cardinality(ActiveRuns(j)) = 0
      BY <2>1, FS_EmptySet
    <3> QED BY <1>0, <3>1, <3>2, <3>3, WithinSubset
  <2>2. CASE ActiveRuns(j) # {}
    <3>1. ~ Decides(pass'[p], j)
      BY <2>2, CheckActivePass
    <3>2. Deciding(j)' \in SUBSET Deciding(j)
      BY <3>1, CheckActivePass DEF Deciding
    <3>3. Within(Cardinality(ActiveRuns(j)), Deciding(j), drops)
      BY DEF BudgetInv, ActiveInv
    <3>4. Cardinality(ActiveRuns(j)) \in Nat
      BY ActiveFinite
    <3> QED BY <1>0, <3>2, <3>3, <3>4, WithinSubset
  <2> QED BY <2>1, <2>2
<1>3. \A j \in Job : ActiveRuns(j)' = ActiveRuns(j)
  BY <1>0 DEF ActiveRuns
<1>4. ActiveInv'
  BY <1>0, <1>2, <1>3 DEF ActiveInv
<1> QED BY <1>1, <1>4

\* A replica fires a one-shot that has no run, and only leaders fire.
LEMMA CheckDueBudget ==
    ASSUME TypeOK, TypeOK', BudgetInv, NEW p \in Replica, CheckDue(p)
    PROVE  ActiveInv' /\ OnceInv' /\ PauseInv'
<1>0. UNCHANGED <<jobs, runs, late>> /\ drops' = drops /\ drops \in Nat
  BY DropAssumption DEF CheckDue, elector, TypeOK, ElectorTypeOK
<1>1. ActiveInv' /\ PauseInv'
  BY <1>0, CheckDuePass, CalmBudget
<1>2. ASSUME NEW j \in Job, Cron[j] = 0 PROVE Within(Len(runs[j]), Firing(j)', drops)
  <2>1. CASE runs[j] = <<>>
    <3>1. Firing(j)' \in SUBSET Inside
      BY CheckDuePass DEF Firing, Fires, Inside
    <3>2. Within(0, Inside, drops)
      BY <1>0, InsideBound DEF BudgetInv
    <3>3. Len(runs[j]) = 0
      BY <2>1
    <3> QED BY <1>0, <3>1, <3>2, <3>3, WithinSubset
  <2>2. CASE runs[j] # <<>>
    <3>1. ~ Fires(pass'[p], j)
      BY <1>2, <2>2, CheckDuePass DEF NextRunDue
    <3>2. Firing(j)' \in SUBSET Firing(j)
      BY <3>1, CheckDuePass DEF Firing
    <3>3. Within(Len(runs[j]), Firing(j), drops)
      BY <1>2 DEF BudgetInv, OnceInv
    <3>4. Len(runs[j]) \in Nat
      BY DEF TypeOK
    <3> QED BY <1>0, <3>2, <3>3, <3>4, WithinSubset
  <2> QED BY <2>1, <2>2
<1>3. OnceInv'
  BY <1>0, <1>2 DEF OnceInv
<1> QED BY <1>1, <1>3

\* The INSERT turns the part of the replica into a run.
LEMMA CreateRunBudget ==
    ASSUME TypeOK, TypeOK', BudgetInv, NEW p \in Replica, CreateRun(p)
    PROVE  ActiveInv' /\ OnceInv' /\ PauseInv'
<1>0. drops' = drops /\ drops \in Nat /\ UNCHANGED jobs
  BY DropAssumption DEF CreateRun, elector, TypeOK, ElectorTypeOK
<1>1. PICK k \in Job : pass[p].job = k /\ pass[p].pc = "create"
  BY DEF CreateRun, BudgetInv, PInv, SeenInv, Seen
<1>2. /\ pass'[p].pc = "scan" /\ pass'[p].todo = pass[p].todo /\ pass'[p].job = NoJob
      /\ \A q \in Replica \ {p} : pass'[q] = pass[q]
  BY GotoRecord DEF CreateRun, Continue
<1>3. k \notin pass[p].todo
  BY <1>1 DEF BudgetInv, OffPage
<1>4. \A q \in Replica : CalmDecides(q) /\ CalmFires(q) /\ CalmHolds(q)
  BY <1>2, <1>1, ScheduleAssumption DEF CalmDecides, CalmFires, CalmHolds, Decides, Fires, Holds
<1>5. p \in Deciding(k) /\ p \in Firing(k) /\ p \in Holding(k)
  BY <1>1 DEF Deciding, Firing, Holding, Decides, Fires, Holds
<1>6. /\ Deciding(k)' \in SUBSET (Deciding(k) \ {p})
      /\ Firing(k)' \in SUBSET (Firing(k) \ {p})
      /\ Holding(k)' \in SUBSET (Holding(k) \ {p})
  <2>1. ~ Decides(pass'[p], k) /\ ~ Fires(pass'[p], k) /\ ~ Holds(pass'[p], k)
    BY <1>1, <1>2, <1>3, ScheduleAssumption DEF Decides, Fires, Holds
  <2> QED BY <1>1, <1>4, <2>1 DEF Deciding, Firing, Holding, CalmDecides, CalmFires, CalmHolds
<1>7. \A j \in Job : /\ Deciding(j)' \in SUBSET Deciding(j)
                     /\ Firing(j)' \in SUBSET Firing(j)
                     /\ Holding(j)' \in SUBSET Holding(j)
  BY <1>4 DEF Deciding, Firing, Holding, CalmDecides, CalmFires, CalmHolds
<1>8. PICK row \in RunRow : runs' = [runs EXCEPT ![k] = Append(@, row)]
  <2> DEFINE row == [status |-> "active", scheduled_at |-> pass[p].now, fired |-> pass[p].now]
  <2>1. pass[p].now \in 0 .. MaxTime
    BY DEF TypeOK, PassState
  <2>2. row \in RunRow
    BY <2>1, ScheduleAssumption DEF RunRow
  <2>3. runs' = [runs EXCEPT ![k] = Append(@, row)]
    BY <1>1 DEF CreateRun
  <2> QED BY <2>2, <2>3
<1>9. /\ \A j \in Job \ {k} : runs'[j] = runs[j]
      /\ Len(runs'[k]) = Len(runs[k]) + 1
      /\ \A i \in 1 .. Len(runs[k]) : runs'[k][i] = runs[k][i]
  <2> QED BY <1>1, <1>8, AppendRun
<1>10. \A j \in Job : Len(runs[j]) \in Nat /\ Len(runs'[j]) \in Nat
  BY DEF TypeOK
<1>11. \A j \in Job : late[j] \in Nat /\ late'[j] \in Nat
  BY DEF TypeOK
<1>12. /\ \A j \in Job \ {k} : late'[j] = late[j]
       /\ late'[k] = IF jobs[k].status = "paused" THEN late[k] + 1 ELSE late[k]
  BY <1>1 DEF CreateRun, TypeOK
<1>13. OnceInv'
  <2> SUFFICES ASSUME NEW j \in Job, Cron[j] = 0 PROVE Within(Len(runs'[j]), Firing(j)', drops')
    BY DEF OnceInv
  <2>1. Within(Len(runs[j]), Firing(j), drops)
    BY DEF BudgetInv, OnceInv
  <2>2. CASE j = k
    <3>1. p \in Firing(j) /\ Firing(j)' \in SUBSET (Firing(j) \ {p})
      BY <1>5, <1>6, <2>2
    <3>2. Len(runs'[j]) <= Len(runs[j]) + 1
      BY <1>9, <1>10, <2>2
    <3> QED BY <1>0, <1>10, <2>1, <3>1, <3>2, WithinSpent
  <2>3. CASE j # k
    BY <1>0, <1>7, <1>9, <1>10, <2>1, <2>3, WithinSubset
  <2> QED BY <2>2, <2>3
<1>14. PauseInv'
  <2>1. ASSUME NEW j \in Job PROVE Within(late'[j], Holding(j)', drops')
    <3>1. Within(late[j], Holding(j), drops)
      BY DEF BudgetInv, PauseInv
    <3>2. CASE j = k
      <4>1. p \in Holding(j) /\ Holding(j)' \in SUBSET (Holding(j) \ {p})
        BY <1>5, <1>6, <3>2
      <4>2. late'[j] <= late[j] + 1
        BY <1>11, <1>12, <3>2
      <4> QED BY <1>0, <1>11, <3>1, <4>1, <4>2, WithinSpent
    <3>3. CASE j # k
      BY <1>0, <1>7, <1>11, <1>12, <3>1, <3>3, WithinSubset
    <3> QED BY <3>2, <3>3
  <2>2. \A j \in Job : jobs'[j].status # "paused" => late'[j] = 0
    BY <1>0, <1>12 DEF BudgetInv, PauseInv
  <2> QED BY <2>1, <2>2 DEF PauseInv
<1>15. ActiveInv'
  <2> SUFFICES ASSUME NEW j \in Job PROVE Within(Cardinality(ActiveRuns(j)'), Deciding(j)', drops')
    BY DEF ActiveInv
  <2>1. Within(Cardinality(ActiveRuns(j)), Deciding(j), drops)
    BY DEF BudgetInv, ActiveInv
  <2>2. IsFiniteSet(ActiveRuns(j)) /\ Cardinality(ActiveRuns(j)) \in Nat
    BY ActiveFinite
  <2>3. CASE j = k
    <3> DEFINE A == ActiveRuns(j)
               n == Len(runs[j]) + 1
    <3>1. ActiveRuns(j)' \in SUBSET (A \cup {n})
      BY <1>9, <1>10, <2>3 DEF ActiveRuns
    <3>2. IsFiniteSet(A \cup {n}) /\ Cardinality(A \cup {n}) <= Cardinality(A) + 1
      <4>1. /\ IsFiniteSet(A \cup {n})
            /\ Cardinality(A \cup {n}) = IF n \in A THEN Cardinality(A) ELSE Cardinality(A) + 1
        BY <2>2, FS_AddElement
      <4> HIDE DEF A, n
      <4>2. Cardinality(A) \in Nat
        BY <2>2 DEF A
      <4> QED BY <4>1, <4>2
    <3>3. /\ IsFiniteSet(ActiveRuns(j)') /\ Cardinality(ActiveRuns(j)') \in Nat
          /\ Cardinality(ActiveRuns(j)') <= Cardinality(A \cup {n})
      BY <3>1, <3>2, FS_Subset, FS_CardinalityType
    <3>4. Cardinality(A \cup {n}) \in Nat
      BY <3>2, FS_CardinalityType
    <3> HIDE DEF n
    <3>5. Cardinality(ActiveRuns(j)') <= Cardinality(ActiveRuns(j)) + 1
      BY <2>2, <3>2, <3>3, <3>4
    <3>6. p \in Deciding(j) /\ Deciding(j)' \in SUBSET (Deciding(j) \ {p})
      BY <1>5, <1>6, <2>3
    <3> QED BY <1>0, <2>1, <2>2, <3>3, <3>5, <3>6, WithinSpent
  <2>4. CASE j # k
    <3>1. ActiveRuns(j)' = ActiveRuns(j)
      BY <1>9, <2>4 DEF ActiveRuns
    <3> QED BY <1>0, <1>7, <2>1, <2>2, <3>1, WithinSubset
  <2> QED BY <2>3, <2>4
<1> QED BY <1>13, <1>14, <1>15

\* A worker ends or requeues a run that is active.
LEMMA WorkerBudget ==
    ASSUME TypeOK, TypeOK', BudgetInv, NEW j \in Job, RunEnds(j) \/ RunRequeued(j)
    PROVE  ActiveInv' /\ OnceInv' /\ PauseInv'
<1>0. UNCHANGED <<jobs, late, pass, drops>> /\ drops \in Nat
  BY DropAssumption DEF RunEnds, RunRequeued, elector, TypeOK, ElectorTypeOK
<1>1. \A k \in Job : Len(runs'[k]) = Len(runs[k]) /\ ActiveRuns(k)' \subseteq ActiveRuns(k)
  <2>1. PICK i \in ActiveRuns(j), row \in RunRow : SetRun(j, i, row)
    BY WorkerRow
  <2>2. i \in 1 .. Len(runs[j]) /\ runs[j][i].status = "active"
    BY DEF ActiveRuns
  <2>3. /\ \A k \in Job \ {j} : runs'[k] = runs[k]
        /\ Len(runs'[j]) = Len(runs[j])
        /\ \A n \in (1 .. Len(runs[j])) \ {i} : runs'[j][n] = runs[j][n]
    BY <2>1, <2>2, SetRunType
  <2> QED BY <2>2, <2>3 DEF ActiveRuns
<1>2. \A k \in Job : late'[k] <= late[k] /\ (jobs'[k].status # "paused" => late'[k] = 0)
  BY <1>0 DEF BudgetInv, PauseInv, TypeOK
<1>3. drops <= drops'
  BY <1>0
<1>4. ActiveInv'
  BY <1>0, <1>1, <1>3, ActiveKept DEF BudgetInv
<1>5. OnceInv'
  BY <1>0, <1>1, <1>3, OnceKept DEF BudgetInv
<1>6. PauseInv'
  BY <1>0, <1>2, <1>3, PauseKept DEF BudgetInv
<1> QED BY <1>4, <1>5, <1>6

\* A client creates, pauses or resumes a job.
LEMMA ClientBudget ==
    ASSUME TypeOK, TypeOK', BudgetInv, NEW j \in Job, CreateJob(j) \/ PauseJob(j) \/ ResumeJob(j)
    PROVE  ActiveInv' /\ OnceInv' /\ PauseInv'
<1>0. UNCHANGED <<runs, pass, drops>> /\ drops \in Nat
  BY DropAssumption DEF CreateJob, PauseJob, ResumeJob, elector, TypeOK, ElectorTypeOK
<1>1. \A k \in Job : ActiveRuns(k)' = ActiveRuns(k) /\ Len(runs'[k]) = Len(runs[k])
  BY <1>0 DEF ActiveRuns
<1>2. \A k \in Job : late'[k] <= late[k] /\ (jobs'[k].status # "paused" => late'[k] = 0)
  <2>1. \A k \in Job : late[k] \in Nat /\ (jobs[k].status # "paused" => late[k] = 0)
    BY DEF BudgetInv, PauseInv, TypeOK
  <2>2. CASE CreateJob(j) \/ PauseJob(j)
    <3>1. late' = late /\ jobs[j].status # "paused" /\ \A k \in Job \ {j} : jobs'[k] = jobs[k]
      BY <2>2 DEF CreateJob, PauseJob, TypeOK
    <3> QED BY <2>1, <3>1
  <2>3. CASE ResumeJob(j)
    <3>1. /\ late'[j] = 0
          /\ \A k \in Job \ {j} : jobs'[k] = jobs[k] /\ late'[k] = late[k]
      BY <2>3 DEF ResumeJob, TypeOK
    <3> QED BY <2>1, <3>1
  <2> QED BY <2>2, <2>3
<1>3. drops <= drops'
  BY <1>0
<1>4. ActiveInv'
  BY <1>0, <1>1, <1>3, ActiveKept DEF BudgetInv
<1>5. OnceInv'
  BY <1>0, <1>1, <1>3, OnceKept DEF BudgetInv
<1>6. PauseInv'
  BY <1>0, <1>2, <1>3, PauseKept DEF BudgetInv
<1> QED BY <1>4, <1>5, <1>6

\* A job that is taken off the page does not come back in the same pass.
LEMMA OffPageStep ==
    ASSUME PInv, OffPage, [Next]_vars
    PROVE  OffPage'
<1>0. TypeOK
  BY DEF PInv
<1>1. ASSUME UNCHANGED pass PROVE OffPage'
  BY <1>1 DEF OffPage
<1>2. ASSUME NEW p \in Replica, \A q \in Replica \ {p} : pass'[q] = pass[q],
             pass'[p].job \notin pass'[p].todo
      PROVE  OffPage'
  BY <1>2 DEF OffPage
<1>3. \A p \in Replica : pass[p].todo \in SUBSET Job /\ pass[p].job \notin pass[p].todo /\ NoJob \notin pass[p].todo
  BY <1>0, ScheduleAssumption DEF OffPage, TypeOK, PassState
<1>4. ASSUME NEW p \in Replica, Elect(p) \/ Stop(p) \/ Finish(p) PROVE OffPage'
  <2>1. CASE Elect(p)
    <3>1. PICK pc : Goto(p, pc, {}, NoJob, {})
      BY <2>1 DEF Elect
    <3> QED BY <1>0, <1>2, <3>1, GotoRecord
  <2>2. CASE Stop(p) \/ Finish(p)
    BY <1>0, <1>2, <2>2, EndPassRecord DEF Stop, Finish
  <2> QED BY <1>4, <2>1, <2>2
<1>5. ASSUME NEW p \in Replica, ListJobs(p) PROVE OffPage'
  <2>1. pass'[p].todo \in SUBSET Job
    BY <1>0, <1>5 DEF ListJobs, Pages, TypeOK
  <2> QED BY <1>0, <1>2, <1>5, <2>1, ListJobsPass, ScheduleAssumption
<1>6. ASSUME NEW p \in Replica, CheckActive(p) PROVE OffPage'
  BY <1>0, <1>2, <1>6, CheckActivePass
<1>7. ASSUME NEW p \in Replica, CheckDue(p) PROVE OffPage'
  BY <1>0, <1>2, <1>3, <1>7, CheckDuePass
<1>8. ASSUME NEW p \in Replica, CheckDependency(p) PROVE OffPage'
  <2>1. /\ \A q \in Replica \ {p} : pass'[q] = pass[q]
        /\ pass'[p].todo = pass[p].todo /\ pass'[p].job \in {NoJob, pass[p].job}
    BY <1>0, <1>8, GotoRecord DEF CheckDependency, Continue
  <2> QED BY <1>2, <1>3, <2>1
<1>9. ASSUME NEW p \in Replica, CreateRun(p) PROVE OffPage'
  <2>1. Goto(p, "scan", pass[p].todo, NoJob, {})
    BY <1>9 DEF CreateRun, Continue
  <2>2. /\ \A q \in Replica \ {p} : pass'[q] = pass[q]
        /\ pass'[p].todo = pass[p].todo /\ pass'[p].job = NoJob
    BY <1>0, <2>1, GotoRecord
  <2> QED BY <1>2, <1>3, <2>2
<1>10. ASSUME NEW p \in Replica, CallFails(p) PROVE OffPage'
  <2>1. /\ \A q \in Replica \ {p} : pass'[q] = pass[q]
        /\ pass'[p].todo \subseteq pass[p].todo /\ pass'[p].job = NoJob
    <3>1. CASE EndPass(p)
      BY <1>0, <3>1, EndPassRecord
    <3>2. ASSUME NEW todo \in SUBSET pass[p].todo, Goto(p, "scan", todo, NoJob, {})
          PROVE  /\ \A q \in Replica \ {p} : pass'[q] = pass[q]
                 /\ pass'[p].todo \subseteq pass[p].todo /\ pass'[p].job = NoJob
      BY <1>0, <3>2, GotoRecord
    <3> QED BY <1>10, <3>1, <3>2 DEF CallFails, Continue
  <2> QED BY <1>2, <1>3, <2>1
<1>11. ASSUME NEW p \in Replica, ElectFails(p) \/ Start(p) \/ Drop(p) PROVE OffPage'
  BY <1>1, <1>11 DEF ElectFails, Start, Drop, schedule
<1>12. ASSUME NEW j \in Job,
              CreateJob(j) \/ PauseJob(j) \/ ResumeJob(j) \/ RunEnds(j) \/ RunRequeued(j)
       PROVE  OffPage'
  BY <1>1, <1>12 DEF CreateJob, PauseJob, ResumeJob, RunEnds, RunRequeued
<1>13. CASE EndSession \/ Tick \/ UNCHANGED vars
  BY <1>1, <1>13 DEF EndSession, Tick, vars, schedule
<1> QED BY <1>4, <1>5, <1>6, <1>7, <1>8, <1>9, <1>10, <1>11, <1>12, <1>13 DEF Next, PromoteOnce

-----------------------------------------------------------------------------
(* The theorems about the budget.                                          *)

\* It holds at the start.
LEMMA InitBudget == Init => BudgetInv
<1> SUFFICES ASSUME Init PROVE BudgetInv
  OBVIOUS
<1>1. PInv
  BY InitPInv
<1>2. Stray = {} /\ drops = 0
  BY DEF Init, ElectorInit, Stray, Inside, IdlePass
<1>3. \A j \in Job : Deciding(j) = {} /\ Firing(j) = {} /\ Holding(j) = {}
  BY DEF Init, IdlePass, Deciding, Firing, Holding, Decides, Fires, Holds
<1>4. \A j \in Job : ActiveRuns(j) = {} /\ Len(runs[j]) = 0 /\ late[j] = 0
  BY DEF Init, ActiveRuns
<1>5. IsFiniteSet({}) /\ Cardinality({}) = 0
  BY FS_EmptySet
<1>6. OffPage
  BY DEF Init, IdlePass, OffPage
<1>7. StrayInv
  BY <1>2, <1>5 DEF StrayInv
<1>8. ActiveInv /\ OnceInv /\ PauseInv
  <2>1. Within(0, {}, drops)
    BY <1>2, <1>5 DEF Within
  <2>2. \A j \in Job : Cardinality(ActiveRuns(j)) = 0
    BY <1>4, <1>5
  <2> QED BY <1>3, <1>4, <2>1, <2>2 DEF ActiveInv, OnceInv, PauseInv
<1> QED BY <1>1, <1>6, <1>7, <1>8 DEF BudgetInv

\* Every step keeps it.
LEMMA NextBudget == BudgetInv /\ [Next]_vars => BudgetInv'
<1> SUFFICES ASSUME BudgetInv, [Next]_vars PROVE BudgetInv'
  OBVIOUS
<1>1. PInv /\ PInv' /\ TypeOK /\ TypeOK'
  BY NextPInv DEF BudgetInv, PInv
<1>2. StrayInv' /\ OffPage'
  BY StrayStep, OffPageStep DEF BudgetInv
<1>3. drops \in Nat /\ drops' \in Nat
  BY <1>1, DropAssumption DEF TypeOK, ElectorTypeOK
<1>4. ASSUME UNCHANGED <<jobs, runs, late>>, drops <= drops',
             \A q \in Replica : CalmDecides(q) /\ CalmFires(q) /\ CalmHolds(q)
      PROVE  ActiveInv' /\ OnceInv' /\ PauseInv'
  BY <1>1, <1>4, CalmBudget
<1>5. ASSUME UNCHANGED pass
      PROVE  \A q \in Replica : CalmDecides(q) /\ CalmFires(q) /\ CalmHolds(q)
  BY <1>5 DEF CalmDecides, CalmFires, CalmHolds
<1>6. ASSUME NEW p \in Replica,
             CheckDependency(p) \/ CallFails(p) \/ Finish(p) \/ Elect(p) \/ ElectFails(p) \/ Stop(p)
      PROVE  ActiveInv' /\ OnceInv' /\ PauseInv'
  <2>1. UNCHANGED <<jobs, runs, late>> /\ drops <= drops'
    BY <1>3, <1>6, CalmTables
  <2> QED BY <1>1, <1>4, <1>6, <2>1, CalmPass
<1>7. ASSUME NEW p \in Replica, Start(p) \/ Drop(p)
      PROVE  ActiveInv' /\ OnceInv' /\ PauseInv'
  <2>1. UNCHANGED <<jobs, runs, late, pass>> /\ drops <= drops'
    BY <1>3, <1>7 DEF Start, Drop, schedule, StartReplica, DropConn
  <2> QED BY <1>4, <1>5, <2>1
<1>8. ASSUME EndSession \/ Tick \/ UNCHANGED vars
      PROVE  ActiveInv' /\ OnceInv' /\ PauseInv'
  <2>1. UNCHANGED <<jobs, runs, late, pass>> /\ drops <= drops'
    BY <1>3, <1>8 DEF EndSession, SessionEnds, Tick, vars, elector, schedule
  <2> QED BY <1>4, <1>5, <2>1
<1>9. ASSUME NEW p \in Replica, ListJobs(p) \/ CheckActive(p) \/ CheckDue(p) \/ CreateRun(p)
      PROVE  ActiveInv' /\ OnceInv' /\ PauseInv'
  BY <1>1, <1>9, ListJobsBudget, CheckActiveBudget, CheckDueBudget, CreateRunBudget
<1>10. ASSUME NEW j \in Job,
              CreateJob(j) \/ PauseJob(j) \/ ResumeJob(j) \/ RunEnds(j) \/ RunRequeued(j)
       PROVE  ActiveInv' /\ OnceInv' /\ PauseInv'
  BY <1>1, <1>10, ClientBudget, WorkerBudget
<1>11. ActiveInv' /\ OnceInv' /\ PauseInv'
  BY <1>6, <1>7, <1>8, <1>9, <1>10 DEF Next, PromoteOnce
<1> QED BY <1>1, <1>2, <1>11 DEF BudgetInv

\* What is within the budget is at most the budget.
LEMMA WithinBound ==
    ASSUME NEW S, NEW n \in Nat, NEW d \in Nat, Within(n, S, d)
    PROVE  n <= 1 + d
<1>1. Cardinality(S) \in Nat
  BY FS_CardinalityType DEF Within
<1> QED BY <1>1 DEF Within

\* The inductive invariant of the budget.
THEOREM BudgetInvariance == Spec => []BudgetInv
  BY InitBudget, NextBudget, PTL DEF Spec

\* A job has at most one active run more than connections were lost: the
\* advisory lock and HasActiveRun together, for any number of replicas.
THEOREM DoubleFireBudgetTheorem == Spec => []DoubleFireBudget
<1>1. BudgetInv => DoubleFireBudget
  <2> SUFFICES ASSUME BudgetInv, NEW j \in Job PROVE Cardinality(ActiveRuns(j)) <= 1 + drops
    BY DEF DoubleFireBudget
  <2>1. drops \in Nat /\ Cardinality(ActiveRuns(j)) \in Nat
    BY ActiveFinite, DropAssumption DEF BudgetInv, PInv, TypeOK, ElectorTypeOK
  <2>2. Within(Cardinality(ActiveRuns(j)), Deciding(j), drops)
    BY DEF BudgetInv, ActiveInv
  <2> QED BY <2>1, <2>2, WithinBound
<1> QED BY <1>1, BudgetInvariance, PTL

\* A one-shot job is run at most once more than connections were lost.
THEOREM OneShotBudgetTheorem == Spec => []OneShotBudget
<1>1. BudgetInv => OneShotBudget
  <2> SUFFICES ASSUME BudgetInv, NEW j \in Job, Cron[j] = 0 PROVE Len(runs[j]) <= 1 + drops
    BY DEF OneShotBudget
  <2>1. drops \in Nat /\ Len(runs[j]) \in Nat
    BY DropAssumption DEF BudgetInv, PInv, TypeOK, ElectorTypeOK
  <2>2. Within(Len(runs[j]), Firing(j), drops)
    BY DEF BudgetInv, OnceInv
  <2> QED BY <2>1, <2>2, WithinBound
<1> QED BY <1>1, BudgetInvariance, PTL

\* A paused job gets at most the runs of the passes that listed it before.
THEOREM PauseSlackTheorem == Spec => []PauseSlack
<1>1. BudgetInv => PauseSlack
  <2> SUFFICES ASSUME BudgetInv, NEW j \in Job PROVE late[j] <= 1 + drops
    BY DEF PauseSlack
  <2>1. drops \in Nat /\ late[j] \in Nat
    BY DropAssumption DEF BudgetInv, PInv, TypeOK, ElectorTypeOK
  <2>2. Within(late[j], Holding(j), drops)
    BY DEF BudgetInv, PauseInv
  <2> QED BY <2>1, <2>2, WithinBound
<1> QED BY <1>1, BudgetInvariance, PTL
=============================================================================
