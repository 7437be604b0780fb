--------------------------- MODULE PromoterProofs ---------------------------
(***************************************************************************)
(* For any jobs, dependencies, replicas and faults: leadership is          *)
(* exclusive until a connection is lost, no run is created before each     *)
(* dependency of its job has succeeded, however many leaders there are,    *)
(* and until a connection is lost a recurring job fires once per period.   *)
(***************************************************************************)
EXTENDS Promoter, TLAPS

PassPC == {"idle", "list", "scan", "latest", "deps", "create"}

\* What the server and the electors agree on: the holder of the lock knows it,
\* and a replica in a pass whose connection was never lost is that holder.
LeaderInv ==
    /\ \A p \in Replica : isLeader[p] /\ conn[p] = "open" => lock = p
    /\ \A p \in Replica : isLeader[p] => up[p]
    /\ drops = 0 =>
          \A p \in Replica : pass[p].pc # "idle" => isLeader[p] /\ conn[p] = "open"

\* d has succeeded at least once.
EverSucceeded(d) ==
    \E i \in 1 .. Len(runs[d]) : runs[d][i].status = "succeeded"

\* A pass that is about to create a run has seen each dependency succeed.
Seen(p) ==
    /\ pass[p].pc \in {"latest", "deps", "create"} => pass[p].job \in Job
    /\ pass[p].pc = "create" => pass[p].deps = {}
    /\ pass[p].pc \in {"deps", "create"} =>
          \A d \in Deps[pass[p].job] \ pass[p].deps : EverSucceeded(d)

SeenInv == \A p \in Replica : Seen(p)

PInv == TypeOK /\ LeaderInv /\ SeenInv /\ DependenciesFirst

-----------------------------------------------------------------------------
(* Types.                                                                  *)

\* Goto keeps the type of pass.
LEMMA GotoType ==
    ASSUME TypeOK, NEW p \in Replica, NEW pc \in PassPC, NEW todo \in SUBSET Job,
           NEW job \in Job \cup {NoJob}, NEW deps \in SUBSET Job,
           Goto(p, pc, todo, job, deps)
    PROVE  /\ pass' \in [Replica -> PassState]
           /\ pass'[p].pc = pc /\ pass'[p].job = job /\ pass'[p].deps = deps
           /\ \A q \in Replica \ {p} : pass'[q] = pass[q]
  BY DEF TypeOK, PassState, PassPC, Goto

\* EndPass keeps the type of pass.
LEMMA EndPassType ==
    ASSUME TypeOK, NEW p \in Replica, EndPass(p)
    PROVE  /\ pass' \in [Replica -> PassState]
           /\ pass'[p].pc = "idle"
           /\ \A q \in Replica \ {p} : pass'[q] = pass[q]
  BY ScheduleAssumption DEF TypeOK, PassState, EndPass, IdlePass

\* Appending a run keeps the type of runs and the runs there are.
LEMMA AppendRun ==
    ASSUME TypeOK, NEW j \in Job, NEW row \in RunRow,
           runs' = [runs EXCEPT ![j] = Append(@, row)]
    PROVE  /\ runs' \in [Job -> Seq(RunRow)]
           /\ \A k \in Job \ {j} : runs'[k] = runs[k]
           /\ Len(runs'[j]) = Len(runs[j]) + 1
           /\ \A i \in 1 .. Len(runs[j]) : runs'[j][i] = runs[j][i]
  BY DEF TypeOK

\* So does writing to one of them.
LEMMA SetRunType ==
    ASSUME TypeOK, NEW j \in Job, NEW i \in 1 .. Len(runs[j]), NEW row \in RunRow,
           SetRun(j, i, row)
    PROVE  /\ runs' \in [Job -> Seq(RunRow)]
           /\ \A k \in Job \ {j} : runs'[k] = runs[k]
           /\ Len(runs'[j]) = Len(runs[j])
           /\ \A k \in (1 .. Len(runs[j])) \ {i} : runs'[j][k] = runs[j][k]
           /\ runs'[j][i] = row
  BY DEF TypeOK, SetRun

-----------------------------------------------------------------------------
(* Facts about single parts of the invariant.                              *)

\* A step that keeps the electors and starts no pass keeps leadership.
LEMMA SameLeader ==
    ASSUME LeaderInv, UNCHANGED elector,
           \A q \in Replica : pass'[q].pc # "idle" => pass[q].pc # "idle"
    PROVE  LeaderInv'
  BY DEF LeaderInv, elector

\* The runs of a job only grow, and no succeeded run changes.
RunsGrow ==
    \A d \in Job :
       /\ Len(runs[d]) <= Len(runs'[d])
       /\ \A i \in 1 .. Len(runs[d]) :
             runs[d][i].status = "succeeded" => runs'[d][i].status = "succeeded"

\* Then what has succeeded stays so.
LEMMA StaysSucceeded ==
    ASSUME TypeOK, TypeOK', RunsGrow, NEW d \in Job, EverSucceeded(d)
    PROVE  EverSucceeded(d)'
<1>1. PICK i \in 1 .. Len(runs[d]) : runs[d][i].status = "succeeded"
  BY DEF EverSucceeded
<1>2. i \in 1 .. Len(runs'[d])
  <2>1. Len(runs[d]) \in Nat /\ Len(runs'[d]) \in Nat
    BY DEF TypeOK
  <2> QED
    BY <2>1 DEF RunsGrow
<1>3. runs'[d][i].status = "succeeded"
  BY <1>1 DEF RunsGrow
<1> QED
  BY <1>2, <1>3 DEF EverSucceeded

\* It has still seen it after a step in which the runs grow.
LEMMA SeenKept ==
    ASSUME TypeOK, TypeOK', RunsGrow, NEW q \in Replica,
           pass'[q] = pass[q], Seen(q)
    PROVE  Seen(q)'
<1>1. ASSUME pass[q].pc \in {"deps", "create"},
             NEW d \in Deps[pass[q].job] \ pass[q].deps
      PROVE  EverSucceeded(d)'
  <2>1. pass[q].job \in Job /\ EverSucceeded(d)
    BY <1>1 DEF Seen
  <2>2. d \in Job
    BY <2>1, ScheduleAssumption
  <2> QED
    BY <2>1, <2>2, StaysSucceeded
<1> QED
  BY <1>1 DEF Seen

\* Only the replica that moves has to be looked at again.
LEMMA SeenOthers ==
    ASSUME TypeOK, TypeOK', SeenInv, RunsGrow, NEW p \in Replica,
           \A q \in Replica \ {p} : pass'[q] = pass[q],
           Seen(p)'
    PROVE  SeenInv'
<1> SUFFICES ASSUME NEW q \in Replica, q # p PROVE Seen(q)'
  BY DEF SeenInv
<1>1. pass'[q] = pass[q] /\ Seen(q)
  BY DEF SeenInv
<1> QED
  BY <1>1, SeenKept

\* A job that had runs keeps its dependencies' successes; one that gets its
\* first run must have them.
LEMMA FirstOthers ==
    ASSUME TypeOK, TypeOK', DependenciesFirst, RunsGrow,
           NEW S \in SUBSET Job,
           \A k \in Job \ S : runs'[k] # <<>> => runs[k] # <<>>,
           \A k \in S : \A d \in Deps[k] : EverSucceeded(d)
    PROVE  DependenciesFirst'
<1> SUFFICES ASSUME NEW k \in Job, runs'[k] # <<>>, NEW d \in Deps[k]
             PROVE  EverSucceeded(d)'
  BY DEF DependenciesFirst, EverSucceeded
<1>1. d \in Job
  BY ScheduleAssumption
<1>2. EverSucceeded(d)
  BY DEF DependenciesFirst, EverSucceeded
<1> QED
  BY <1>1, <1>2, StaysSucceeded

-----------------------------------------------------------------------------
(* The steps, by what they may change.                                     *)

\* A step of p's pass that only reads.
LEMMA ReadStep ==
    ASSUME PInv, NEW p \in Replica,
           UNCHANGED <<elector, jobs, runs, clock, late>>,
           faults' \in 0 .. FaultLimit,
           pass[p].pc # "idle",
           pass' \in [Replica -> PassState],
           \A q \in Replica \ {p} : pass'[q] = pass[q],
           Seen(p)'
    PROVE  PInv'
<1>1. TypeOK'
  BY DEF PInv, TypeOK, ElectorTypeOK, elector
<1>2. LeaderInv'
  BY SameLeader DEF PInv
<1>3. RunsGrow
  BY DEF RunsGrow, PInv, TypeOK
<1>4. SeenInv'
  BY <1>1, <1>3, SeenOthers DEF PInv
<1>5. DependenciesFirst'
  BY DEF PInv, DependenciesFirst
<1> QED
  BY <1>1, <1>2, <1>4, <1>5 DEF PInv

\* A step of an elector, which leaves jobs and runs alone.
LEMMA ElectorStep ==
    ASSUME PInv, NEW p \in Replica,
           UNCHANGED <<jobs, runs, clock, late>>,
           faults' \in 0 .. FaultLimit,
           ElectorTypeOK', LeaderInv',
           pass' \in [Replica -> PassState],
           \A q \in Replica \ {p} : pass'[q] = pass[q],
           Seen(p)'
    PROVE  PInv'
<1>1. TypeOK'
  BY DEF PInv, TypeOK
<1>2. RunsGrow
  BY DEF RunsGrow, PInv, TypeOK
<1>3. SeenInv'
  BY <1>1, <1>2, SeenOthers DEF PInv
<1>4. DependenciesFirst'
  BY DEF PInv, DependenciesFirst
<1> QED
  BY <1>1, <1>3, <1>4 DEF PInv

\* A step of the API, a worker or time.
LEMMA OutsideStep ==
    ASSUME PInv, UNCHANGED <<elector, pass, faults>>,
           jobs' \in [Job -> JobRow], runs' \in [Job -> Seq(RunRow)],
           clock' \in 0 .. MaxTime, late' \in [Job -> Nat],
           RunsGrow, \A k \in Job : runs'[k] # <<>> => runs[k] # <<>>
    PROVE  PInv'
<1>1. TypeOK'
  BY DEF PInv, TypeOK, ElectorTypeOK, elector
<1>2. LeaderInv'
  BY SameLeader DEF PInv
<1>3. SeenInv'
  BY <1>1, SeenKept DEF PInv, SeenInv
<1>4. DependenciesFirst'
  <2> DEFINE S == {}
  <2>1. /\ S \in SUBSET Job
        /\ \A k \in Job \ S : runs'[k] # <<>> => runs[k] # <<>>
        /\ \A k \in S : \A d \in Deps[k] : EverSucceeded(d)
    OBVIOUS
  <2> HIDE DEF S
  <2> QED
    BY <1>1, <2>1, FirstOthers DEF PInv
<1> QED
  BY <1>1, <1>2, <1>3, <1>4 DEF PInv

-----------------------------------------------------------------------------
(* One lemma per action of a pass.                                         *)

\* A page is a set of jobs.
LEMMA ListJobsInv ==
    ASSUME PInv, NEW p \in Replica, ListJobs(p)
    PROVE  PInv'
<1>1. PICK page \in Pages :
         pass' = [pass EXCEPT ![p] = [pc |-> "scan", todo |-> page, job |-> NoJob,
                                      deps |-> {}, now |-> clock]]
  BY DEF ListJobs
<1>2. page \in SUBSET Job
  BY DEF Pages
<1>3. pass' \in [Replica -> PassState]
  BY <1>1, <1>2 DEF PInv, TypeOK, PassState
<1>4. pass'[p].pc = "scan" /\ \A q \in Replica \ {p} : pass'[q] = pass[q]
  BY <1>1 DEF PInv, TypeOK
<1>5. Seen(p)'
  BY <1>4 DEF Seen
<1>6. pass[p].pc # "idle" /\ faults' \in 0 .. FaultLimit
  BY DEF ListJobs, PInv, TypeOK
<1> QED
  BY <1>3, <1>4, <1>5, <1>6, ReadStep DEF ListJobs

\* The loop goes on: nothing is claimed to be seen.
LEMMA ContinueInv ==
    ASSUME PInv, NEW p \in Replica, NEW todo \in SUBSET Job,
           Goto(p, "scan", todo, NoJob, {}),
           UNCHANGED <<elector, jobs, runs, clock, late>>,
           faults' \in 0 .. FaultLimit, pass[p].pc # "idle"
    PROVE  PInv'
<1>1. /\ pass' \in [Replica -> PassState]
      /\ pass'[p].pc = "scan"
      /\ \A q \in Replica \ {p} : pass'[q] = pass[q]
  <2>1. "scan" \in PassPC /\ NoJob \in Job \cup {NoJob} /\ {} \in SUBSET Job
    BY DEF PassPC
  <2> QED
    BY <2>1, GotoType DEF PInv
<1>2. Seen(p)'
  BY <1>1 DEF Seen
<1> QED
  BY <1>1, <1>2, ReadStep

\* HasActiveRun.
LEMMA CheckActiveInv ==
    ASSUME PInv, NEW p \in Replica, CheckActive(p)
    PROVE  PInv'
<1>1. PICK j \in pass[p].todo :
         IF HasActiveRun(j)
         THEN Goto(p, "scan", pass[p].todo \ {j}, NoJob, {})
         ELSE Goto(p, "latest", pass[p].todo \ {j}, j, {})
  BY DEF CheckActive
<1>2. j \in Job /\ pass[p].todo \ {j} \in SUBSET Job
  BY DEF PInv, TypeOK, PassState
<1>3. /\ pass[p].pc # "idle" /\ faults' \in 0 .. FaultLimit
      /\ UNCHANGED <<elector, jobs, runs, clock, late>>
  BY DEF CheckActive, PInv, TypeOK
<1>4. CASE HasActiveRun(j)
  BY <1>1, <1>2, <1>3, <1>4, ContinueInv
<1>5. CASE ~HasActiveRun(j)
  <2>1. Goto(p, "latest", pass[p].todo \ {j}, j, {})
    BY <1>1, <1>5
  <2>2. /\ pass' \in [Replica -> PassState]
        /\ pass'[p].pc = "latest" /\ pass'[p].job = j
        /\ \A q \in Replica \ {p} : pass'[q] = pass[q]
    <3>1. "latest" \in PassPC /\ j \in Job \cup {NoJob} /\ {} \in SUBSET Job
      BY <1>2 DEF PassPC
    <3> QED
      BY <2>1, <3>1, <1>2, GotoType DEF PInv
  <2>3. Seen(p)'
    BY <2>2, <1>2 DEF Seen
  <2> QED
    BY <1>3, <2>2, <2>3, ReadStep
<1> QED
  BY <1>4, <1>5

\* LatestRunForJob and NextRunDue: all dependencies are still to be seen.
LEMMA CheckDueInv ==
    ASSUME PInv, NEW p \in Replica, CheckDue(p)
    PROVE  PInv'
<1> DEFINE j == pass[p].job
           pc == IF Deps[j] = {} THEN "create" ELSE "deps"
<1>1. /\ pass[p].pc = "latest" /\ faults' \in 0 .. FaultLimit
      /\ UNCHANGED <<elector, jobs, runs, clock, late>>
  BY DEF CheckDue, PInv, TypeOK
<1>2. j \in Job /\ pass[p].todo \in SUBSET Job
  BY <1>1 DEF PInv, SeenInv, Seen, TypeOK, PassState
<1>3. CASE NextRunDue(j, pass[p].now)
  <2>1. Goto(p, pc, pass[p].todo, j, Deps[j])
    BY <1>3 DEF CheckDue
  <2>2. pc \in PassPC /\ j \in Job \cup {NoJob} /\ Deps[j] \in SUBSET Job
    BY <1>2, ScheduleAssumption DEF PassPC
  <2>3. pc \in {"create", "deps"} /\ (pc = "create" => Deps[j] = {})
    OBVIOUS
  <2> HIDE DEF j, pc
  <2>4. /\ pass' \in [Replica -> PassState]
        /\ pass'[p].pc = pc /\ pass'[p].job = j /\ pass'[p].deps = Deps[j]
        /\ \A q \in Replica \ {p} : pass'[q] = pass[q]
    BY <1>2, <2>1, <2>2, GotoType DEF PInv
  <2>5. Seen(p)'
    BY <1>2, <2>3, <2>4 DEF Seen
  <2> QED
    BY <1>1, <2>4, <2>5, ReadStep
<1>4. CASE ~NextRunDue(j, pass[p].now)
  <2>1. Goto(p, "scan", pass[p].todo, NoJob, {})
    BY <1>4 DEF CheckDue, Continue
  <2> QED
    BY <1>1, <1>2, <2>1, ContinueInv
<1> QED
  BY <1>3, <1>4

\* LatestRunForJob of one dependency: if it succeeded it is seen.
LEMMA CheckDependencyInv ==
    ASSUME PInv, NEW p \in Replica, CheckDependency(p)
    PROVE  PInv'
<1> DEFINE j == pass[p].job
<1>1. /\ pass[p].pc = "deps" /\ faults' \in 0 .. FaultLimit
      /\ UNCHANGED <<elector, jobs, runs, clock, late>>
  BY DEF CheckDependency, PInv, TypeOK
<1>2. j \in Job /\ pass[p].todo \in SUBSET Job /\ pass[p].deps \in SUBSET Job
  BY <1>1 DEF PInv, SeenInv, Seen, TypeOK, PassState
<1>3. PICK d \in pass[p].deps :
         IF Succeeded(d)
         THEN Goto(p, IF pass[p].deps = {d} THEN "create" ELSE "deps",
                   pass[p].todo, pass[p].job, pass[p].deps \ {d})
         ELSE Continue(p)
  BY DEF CheckDependency
<1>4. CASE Succeeded(d)
  <2> DEFINE pc == IF pass[p].deps = {d} THEN "create" ELSE "deps"
             deps == pass[p].deps \ {d}
  <2>1. Goto(p, pc, pass[p].todo, j, deps)
    BY <1>3, <1>4
  <2>2. pc \in PassPC /\ j \in Job \cup {NoJob} /\ deps \in SUBSET Job
    BY <1>2 DEF PassPC
  <2>3. pc \in {"create", "deps"} /\ (pc = "create" => deps = {})
    OBVIOUS
  <2>4. EverSucceeded(d)
    <3>1. runs[d] \in Seq(RunRow) /\ runs[d] # <<>>
      BY <1>2, <1>4 DEF Succeeded, PInv, TypeOK
    <3>2. Len(runs[d]) \in 1 .. Len(runs[d])
      BY <3>1
    <3>3. runs[d][Len(runs[d])].status = "succeeded"
      BY <1>4 DEF Succeeded, Latest
    <3> QED
      BY <3>2, <3>3 DEF EverSucceeded
  <2>5. \A e \in Deps[j] \ deps : EverSucceeded(e)
    BY <1>1, <2>4 DEF PInv, SeenInv, Seen
  <2> HIDE DEF pc, deps, j
  <2>6. /\ pass' \in [Replica -> PassState]
        /\ pass'[p].pc = pc /\ pass'[p].job = j /\ pass'[p].deps = deps
        /\ \A q \in Replica \ {p} : pass'[q] = pass[q]
    BY <1>2, <2>1, <2>2, GotoType DEF PInv
  <2>7. \A e \in Deps[j] \ deps : EverSucceeded(e)'
    BY <1>1, <2>5 DEF EverSucceeded
  <2>8. Seen(p)'
    BY <1>2, <2>3, <2>6, <2>7 DEF Seen
  <2> QED
    BY <1>1, <2>6, <2>8, ReadStep
<1>5. CASE ~Succeeded(d)
  <2>1. Goto(p, "scan", pass[p].todo, NoJob, {})
    BY <1>3, <1>5 DEF Continue
  <2> QED
    BY <1>1, <1>2, <2>1, ContinueInv
<1> QED
  BY <1>4, <1>5

\* The INSERT: the pass has seen every dependency of its job succeed.
LEMMA CreateRunInv ==
    ASSUME PInv, NEW p \in Replica, CreateRun(p)
    PROVE  PInv'
<1> DEFINE j == pass[p].job
           row == [status |-> "active", scheduled_at |-> pass[p].now,
                   fired |-> pass[p].now]
<1>1. /\ pass[p].pc = "create"
      /\ runs' = [runs EXCEPT ![j] = Append(@, row)]
      /\ Goto(p, "scan", pass[p].todo, NoJob, {})
      /\ UNCHANGED <<elector, jobs, clock, faults>>
  BY DEF CreateRun, Continue
<1>2. j \in Job /\ pass[p].todo \in SUBSET Job /\ pass[p].now \in 0 .. MaxTime
  BY <1>1 DEF PInv, SeenInv, Seen, TypeOK, PassState
<1>3. row \in RunRow
  BY <1>2, ScheduleAssumption DEF RunRow
<1>4. \A d \in Deps[j] : EverSucceeded(d)
  BY <1>1 DEF PInv, SeenInv, Seen
<1>5. late' \in [Job -> Nat]
  <2> DEFINE n == IF jobs[j].status = "paused" THEN late[j] + 1 ELSE late[j]
  <2>1. late' = [late EXCEPT ![j] = n] /\ late \in [Job -> Nat]
    BY DEF CreateRun, PInv, TypeOK
  <2>2. n \in Nat
    BY <1>2, <2>1
  <2> QED
    BY <2>1, <2>2
<1> HIDE DEF j, row
<1>6. /\ runs' \in [Job -> Seq(RunRow)]
      /\ \A k \in Job \ {j} : runs'[k] = runs[k]
      /\ Len(runs'[j]) = Len(runs[j]) + 1
      /\ \A i \in 1 .. Len(runs[j]) : runs'[j][i] = runs[j][i]
  BY <1>1, <1>2, <1>3, AppendRun DEF PInv
<1>7. /\ pass' \in [Replica -> PassState]
      /\ pass'[p].pc = "scan"
      /\ \A q \in Replica \ {p} : pass'[q] = pass[q]
  <2>1. "scan" \in PassPC /\ NoJob \in Job \cup {NoJob} /\ {} \in SUBSET Job
    BY DEF PassPC
  <2> QED
    BY <1>1, <1>2, <2>1, GotoType DEF PInv
<1>8. TypeOK'
  BY <1>1, <1>5, <1>6, <1>7 DEF PInv, TypeOK, ElectorTypeOK, elector
<1>9. LeaderInv'
  BY <1>1, <1>7, SameLeader DEF PInv
<1>10. RunsGrow
  <2> SUFFICES ASSUME NEW d \in Job
               PROVE  /\ Len(runs[d]) <= Len(runs'[d])
                      /\ \A i \in 1 .. Len(runs[d]) : runs'[d][i] = runs[d][i]
    BY DEF RunsGrow
  <2>1. Len(runs[d]) \in Nat
    BY DEF PInv, TypeOK
  <2>2. CASE d = j
    BY <1>6, <2>1, <2>2
  <2>3. CASE d # j
    BY <1>6, <2>1, <2>3
  <2> QED
    BY <2>2, <2>3
<1>11. SeenInv'
  <2>1. Seen(p)'
    BY <1>7 DEF Seen
  <2> QED
    BY <1>7, <1>8, <1>10, <2>1, SeenOthers DEF PInv
<1>12. DependenciesFirst'
  <2> DEFINE S == {j}
  <2>1. /\ S \in SUBSET Job
        /\ \A k \in Job \ S : runs'[k] # <<>> => runs[k] # <<>>
        /\ \A k \in S : \A d \in Deps[k] : EverSucceeded(d)
    BY <1>2, <1>4, <1>6
  <2> HIDE DEF S
  <2> QED
    BY <1>8, <1>10, <2>1, FirstOthers DEF PInv
<1> QED
  BY <1>8, <1>9, <1>11, <1>12 DEF PInv

\* A failed call and the end of the loop leave nothing to be seen.
LEMMA EndsInv ==
    ASSUME PInv, NEW p \in Replica, CallFails(p) \/ Finish(p)
    PROVE  PInv'
<1>1. /\ UNCHANGED <<elector, jobs, runs, clock, late>>
      /\ faults' \in 0 .. FaultLimit /\ pass[p].pc # "idle"
  BY ScheduleAssumption DEF CallFails, Finish, Fault, PInv, TypeOK
<1>2. CASE EndPass(p)
  <2>1. /\ pass' \in [Replica -> PassState]
        /\ pass'[p].pc = "idle"
        /\ \A q \in Replica \ {p} : pass'[q] = pass[q]
    BY <1>2, EndPassType DEF PInv
  <2>2. Seen(p)'
    BY <2>1 DEF Seen
  <2> QED
    BY <1>1, <2>1, <2>2, ReadStep
<1>3. CASE \E todo \in SUBSET Job : Goto(p, "scan", todo, NoJob, {})
  BY <1>1, <1>3, ContinueInv
<1>4. pass[p].todo \in SUBSET Job
  BY DEF PInv, TypeOK, PassState
<1>5. ASSUME NEW j \in pass[p].todo PROVE pass[p].todo \ {j} \in SUBSET Job
  BY <1>4
<1> QED
  BY <1>2, <1>3, <1>4, <1>5 DEF CallFails, Finish, Continue

-----------------------------------------------------------------------------
(* One lemma per action of an elector.                                     *)

\* TryAcquire, from the ticker: whoever starts a pass has the lock.
LEMMA ElectInv ==
    ASSUME PInv, NEW p \in Replica, Elect(p)
    PROVE  PInv'
<1>1. PICK leads \in BOOLEAN :
         /\ TryAcquire(p, leads)
         /\ Goto(p, IF leads THEN "list" ELSE "idle", {}, NoJob, {})
  BY DEF Elect
<1> DEFINE pc == IF leads THEN "list" ELSE "idle"
<1>2. pc \in PassPC /\ pc \in {"list", "idle"} /\ (leads \/ pc = "idle")
  BY DEF PassPC
<1>3. Goto(p, pc, {}, NoJob, {})
  BY <1>1
<1> HIDE DEF pc
<1>4. /\ pass' \in [Replica -> PassState]
      /\ pass'[p].pc = pc
      /\ \A q \in Replica \ {p} : pass'[q] = pass[q]
  <2>1. NoJob \in Job \cup {NoJob} /\ {} \in SUBSET Job
    OBVIOUS
  <2> QED
    BY <1>2, <1>3, <2>1, GotoType DEF PInv
<1>5. ElectorTypeOK'
  BY <1>1 DEF TryAcquire, PInv, TypeOK, ElectorTypeOK
<1>6. LeaderInv'
  <2>1. /\ conn'[p] = "open" /\ isLeader'[p] = leads
        /\ \A q \in Replica \ {p} : conn'[q] = conn[q] /\ isLeader'[q] = isLeader[q]
        /\ up' = up /\ drops' = drops /\ up[p]
    BY <1>1 DEF TryAcquire, Elect, PInv, TypeOK, ElectorTypeOK
  <2>2. ASSUME NEW q \in Replica, isLeader'[q], conn'[q] = "open"
        PROVE  lock' = q
    <3>1. CASE q = p
      BY <1>1, <2>1, <2>2, <3>1 DEF TryAcquire, StillLeader, PInv, LeaderInv
    <3>2. CASE q # p
      <4>1. lock = q
        BY <2>1, <2>2, <3>2 DEF PInv, LeaderInv
      <4>2. lock' = lock
        BY <1>1, <3>2, <4>1, LockAssumption DEF TryAcquire, StillLeader
      <4> QED
        BY <4>1, <4>2
    <3> QED
      BY <3>1, <3>2
  <2>3. ASSUME NEW q \in Replica, drops = 0, pass'[q].pc # "idle"
        PROVE  isLeader'[q] /\ conn'[q] = "open"
    BY <1>2, <1>4, <2>1, <2>3 DEF PInv, LeaderInv
  <2>4. \A q \in Replica : isLeader'[q] => up'[q]
    BY <2>1 DEF PInv, LeaderInv
  <2> QED
    BY <2>1, <2>2, <2>3, <2>4 DEF LeaderInv
<1>7. Seen(p)'
  BY <1>2, <1>4 DEF Seen
<1>8. UNCHANGED <<jobs, runs, clock, late>> /\ faults' \in 0 .. FaultLimit
  BY DEF Elect, PInv, TypeOK
<1> QED
  BY <1>4, <1>5, <1>6, <1>7, <1>8, ElectorStep

\* TryAcquire returns an error: the replica does not lead and is not in a pass.
LEMMA ElectFailsInv ==
    ASSUME PInv, NEW p \in Replica, ElectFails(p)
    PROVE  PInv'
<1>1. /\ TryAcquireFails(p) /\ pass[p].pc = "idle" /\ pass' = pass
      /\ UNCHANGED <<jobs, runs, clock, late>> /\ faults' \in 0 .. FaultLimit
  BY ScheduleAssumption DEF ElectFails, Fault, PInv, TypeOK
<1>2. /\ conn' \in [Replica -> {"none", "open", "broken"}]
      /\ isLeader' \in [Replica -> BOOLEAN] /\ ~isLeader'[p]
      /\ \A q \in Replica \ {p} : conn'[q] = conn[q] /\ isLeader'[q] = isLeader[q]
      /\ up' = up /\ drops' = drops
  BY <1>1 DEF TryAcquireFails, PInv, TypeOK, ElectorTypeOK
<1>3. lock' = lock \/ (lock = FREE /\ lock' = DETACHED)
  BY <1>1 DEF TryAcquireFails
<1>4. ElectorTypeOK'
  BY <1>2, <1>3 DEF PInv, TypeOK, ElectorTypeOK
<1>5. LeaderInv'
  BY <1>1, <1>2, <1>3, LockAssumption DEF PInv, LeaderInv
<1>6. pass' \in [Replica -> PassState] /\ Seen(p)'
  BY <1>1 DEF PInv, TypeOK, Seen
<1> QED
  BY <1>1, <1>4, <1>5, <1>6, ElectorStep

\* A lost connection: from now on drops > 0.
LEMMA DropInv ==
    ASSUME PInv, NEW p \in Replica, Drop(p)
    PROVE  PInv'
<1>1. /\ conn' \in [Replica -> {"none", "open", "broken"}]
      /\ conn'[p] = "broken" /\ \A q \in Replica \ {p} : conn'[q] = conn[q]
      /\ lock' = lock \/ (lock = p /\ lock' \in {FREE, DETACHED})
      /\ UNCHANGED <<up, isLeader>> /\ UNCHANGED schedule
      /\ drops' \in 0 .. DropLimit /\ drops' # 0
  BY DropAssumption DEF Drop, DropConn, PInv, TypeOK, ElectorTypeOK
<1>2. ElectorTypeOK'
  BY <1>1 DEF PInv, TypeOK, ElectorTypeOK
<1>3. LeaderInv'
  BY <1>1 DEF PInv, LeaderInv
<1>4. /\ UNCHANGED <<jobs, runs, clock, late>> /\ faults' \in 0 .. FaultLimit
      /\ pass' \in [Replica -> PassState] /\ pass' = pass
  BY <1>1 DEF schedule, PInv, TypeOK
<1>5. Seen(p)'
  <2>1. Seen(p)
    BY DEF PInv, SeenInv
  <2> QED
    BY <1>4, <2>1 DEF Seen, EverSucceeded
<1> QED
  BY <1>2, <1>3, <1>4, <1>5, ElectorStep

\* The end of a process.
LEMMA StopInv ==
    ASSUME PInv, NEW p \in Replica, Stop(p)
    PROVE  PInv'
<1>1. /\ UNCHANGED <<jobs, runs, clock, late, drops>> /\ faults' \in 0 .. FaultLimit
      /\ EndPass(p)
  BY ScheduleAssumption DEF Stop, StopReplica, Fault, PInv, TypeOK
<1>2. /\ pass' \in [Replica -> PassState] /\ pass'[p].pc = "idle"
      /\ \A q \in Replica \ {p} : pass'[q] = pass[q]
  BY <1>1, EndPassType DEF PInv
<1>3. ElectorTypeOK'
  BY DEF Stop, StopReplica, PInv, TypeOK, ElectorTypeOK
<1>4. /\ ~isLeader'[p]
      /\ \A q \in Replica \ {p} : /\ conn'[q] = conn[q] /\ isLeader'[q] = isLeader[q]
                                  /\ up'[q] = up[q]
      /\ lock' = lock \/ (lock = p /\ lock' = DETACHED)
  BY DEF Stop, StopReplica, PInv, TypeOK, ElectorTypeOK
<1>5. LeaderInv'
  BY <1>1, <1>2, <1>4 DEF PInv, LeaderInv
<1>6. Seen(p)'
  BY <1>2 DEF Seen
<1> QED
  BY <1>1, <1>2, <1>3, <1>5, <1>6, ElectorStep

\* A restart, and the end of a session whose client is gone.
LEMMA ElectorIdleInv ==
    ASSUME PInv, (\E p \in Replica : Start(p)) \/ EndSession
    PROVE  PInv'
<1>1. UNCHANGED schedule /\ UNCHANGED <<conn, isLeader, drops>>
  BY DEF Start, StartReplica, EndSession, SessionEnds
<1>2. /\ up' \in [Replica -> BOOLEAN] /\ \A q \in Replica : up[q] => up'[q]
      /\ lock' = lock \/ (lock = DETACHED /\ lock' = FREE)
  BY DEF Start, StartReplica, EndSession, SessionEnds, PInv, TypeOK, ElectorTypeOK
<1>3. ElectorTypeOK'
  BY <1>1, <1>2 DEF PInv, TypeOK, ElectorTypeOK
<1>4. LeaderInv'
  <2>1. pass' = pass
    BY <1>1 DEF schedule
  <2> QED
    BY <1>1, <1>2, <2>1, LockAssumption DEF PInv, LeaderInv
<1>5. TypeOK' /\ RunsGrow /\ pass' = pass
  BY <1>1, <1>3 DEF schedule, PInv, TypeOK, RunsGrow
<1>6. SeenInv'
  BY <1>5, SeenKept DEF PInv, SeenInv
<1>7. DependenciesFirst'
  BY <1>1 DEF schedule, PInv, DependenciesFirst
<1> QED
  BY <1>4, <1>5, <1>6, <1>7 DEF PInv

-----------------------------------------------------------------------------
(* The API, the workers and time.                                          *)

\* A worker writes to an active run: no succeeded run changes.
LEMMA SetRunInv ==
    ASSUME PInv, NEW j \in Job, NEW i \in ActiveRuns(j), NEW row \in RunRow,
           SetRun(j, i, row),
           UNCHANGED <<elector, jobs, clock, pass, faults, late>>
    PROVE  PInv'
<1>1. i \in 1 .. Len(runs[j]) /\ runs[j][i].status = "active"
  BY DEF ActiveRuns
<1>2. /\ runs' \in [Job -> Seq(RunRow)]
      /\ \A k \in Job \ {j} : runs'[k] = runs[k]
      /\ Len(runs'[j]) = Len(runs[j])
      /\ \A k \in (1 .. Len(runs[j])) \ {i} : runs'[j][k] = runs[j][k]
  BY <1>1, SetRunType DEF PInv
<1>3. ASSUME NEW k \in Job
      PROVE  Len(runs[k]) \in Nat /\ Len(runs'[k]) = Len(runs[k])
  <2>1. Len(runs[k]) \in Nat
    BY DEF PInv, TypeOK
  <2>2. CASE k = j
    BY <1>2, <2>1, <2>2
  <2>3. CASE k # j
    BY <1>2, <2>1, <2>3
  <2> QED
    BY <2>2, <2>3
<1>4. RunsGrow
  BY <1>1, <1>2, <1>3 DEF RunsGrow
<1>5. ASSUME NEW k \in Job, runs'[k] # <<>> PROVE runs[k] # <<>>
  <2>1. Len(runs'[k]) # 0
    BY <1>2, <1>5
  <2> QED
    BY <1>3, <2>1
<1>6. /\ jobs' \in [Job -> JobRow] /\ clock' \in 0 .. MaxTime
      /\ late' \in [Job -> Nat]
  BY DEF PInv, TypeOK
<1> QED
  BY <1>2, <1>4, <1>5, <1>6, OutsideStep

\* CompleteRun, FailRun and MarkDead of a worker.
LEMMA WorkerInv ==
    ASSUME PInv, NEW j \in Job, RunEnds(j) \/ RunRequeued(j)
    PROVE  PInv'
<1>1. UNCHANGED <<elector, jobs, clock, pass, faults, late>>
  BY DEF RunEnds, RunRequeued
<1>2. ASSUME NEW i \in ActiveRuns(j) PROVE runs[j][i] \in RunRow
  BY DEF ActiveRuns, PInv, TypeOK
<1>3. CASE RunEnds(j)
  <2>1. PICK i \in ActiveRuns(j), st \in {"succeeded", "failed"} :
           SetRun(j, i, [status |-> st, scheduled_at |-> runs[j][i].scheduled_at,
                         fired |-> runs[j][i].fired])
    BY <1>3 DEF RunEnds
  <2>2. [status |-> st, scheduled_at |-> runs[j][i].scheduled_at,
         fired |-> runs[j][i].fired] \in RunRow
    BY <1>2 DEF RunRow
  <2> QED
    BY <1>1, <2>1, <2>2, SetRunInv
<1>4. CASE RunRequeued(j)
  <2>1. PICK i \in ActiveRuns(j) :
           SetRun(j, i, [status |-> "active", scheduled_at |-> clock + RetryDelay,
                         fired |-> runs[j][i].fired])
    BY <1>4 DEF RunRequeued
  <2>2. [status |-> "active", scheduled_at |-> clock + RetryDelay,
         fired |-> runs[j][i].fired] \in RunRow
    <3>1. clock + RetryDelay \in 0 .. MaxTime + RetryDelay
      BY ScheduleAssumption DEF PInv, TypeOK
    <3> QED
      BY <1>2, <3>1 DEF RunRow
  <2> QED
    BY <1>1, <2>1, <2>2, SetRunInv
<1> QED
  BY <1>3, <1>4

\* CreateJob, UpdateJobStatus and time leave the runs alone.
LEMMA ClientInv ==
    ASSUME PInv,
           \/ \E j \in Job : CreateJob(j) \/ PauseJob(j) \/ ResumeJob(j)
           \/ Tick
    PROVE  PInv'
<1>1. UNCHANGED <<elector, pass, faults, runs>>
  BY DEF CreateJob, PauseJob, ResumeJob, Tick
<1>2. jobs' \in [Job -> JobRow]
  <2>0. jobs \in [Job -> JobRow] /\ clock \in 0 .. MaxTime
    BY DEF PInv, TypeOK
  <2>1. ASSUME NEW j \in Job, CreateJob(j) PROVE jobs' \in [Job -> JobRow]
    BY <2>0, <2>1 DEF CreateJob, JobRow
  <2>2. ASSUME NEW j \in Job, PauseJob(j) PROVE jobs' \in [Job -> JobRow]
    BY <2>0, <2>2 DEF PauseJob, JobRow
  <2>3. ASSUME NEW j \in Job, ResumeJob(j) PROVE jobs' \in [Job -> JobRow]
    BY <2>0, <2>3 DEF ResumeJob, JobRow
  <2>4. CASE Tick
    BY <2>0, <2>4 DEF Tick
  <2> QED
    BY <2>1, <2>2, <2>3, <2>4
<1>3. clock' \in 0 .. MaxTime
  BY ScheduleAssumption DEF CreateJob, PauseJob, ResumeJob, Tick, PInv, TypeOK
<1>5. late' \in [Job -> Nat]
  <2>0. late \in [Job -> Nat]
    BY DEF PInv, TypeOK
  <2>1. ASSUME NEW j \in Job, ResumeJob(j) PROVE late' \in [Job -> Nat]
    BY <2>0, <2>1 DEF ResumeJob
  <2> QED
    BY <2>0, <2>1 DEF CreateJob, PauseJob, Tick
<1>4. runs' \in [Job -> Seq(RunRow)] /\ RunsGrow
  BY <1>1 DEF PInv, TypeOK, RunsGrow
<1> QED
  BY <1>1, <1>2, <1>3, <1>4, <1>5, OutsideStep

-----------------------------------------------------------------------------
\* No job exists, nobody leads.
LEMMA InitPInv == Init => PInv
<1> SUFFICES ASSUME Init PROVE PInv
  OBVIOUS
<1>1. TypeOK
  BY ScheduleAssumption, DropAssumption
     DEF Init, ElectorInit, TypeOK, ElectorTypeOK, JobRow, PassState, IdlePass
<1>2. LeaderInv
  BY DEF Init, ElectorInit, LeaderInv, IdlePass
<1>3. SeenInv
  BY DEF Init, SeenInv, Seen, IdlePass
<1>4. DependenciesFirst
  BY DEF Init, DependenciesFirst
<1> QED
  BY <1>1, <1>2, <1>3, <1>4 DEF PInv

\* Every step keeps the invariant.
LEMMA NextPInv == PInv /\ [Next]_vars => PInv'
<1> SUFFICES ASSUME PInv, [Next]_vars PROVE PInv'
  OBVIOUS
<1>1. CASE UNCHANGED vars
  <2>1. TypeOK'
    BY <1>1 DEF PInv, vars, elector, schedule, TypeOK, ElectorTypeOK
  <2>2. LeaderInv' /\ DependenciesFirst'
    BY <1>1 DEF PInv, vars, elector, schedule, LeaderInv, DependenciesFirst
  <2>3. RunsGrow /\ pass' = pass
    BY <1>1 DEF PInv, vars, schedule, RunsGrow, TypeOK
  <2>4. SeenInv'
    BY <2>1, <2>3, SeenKept DEF PInv, SeenInv
  <2> QED
    BY <2>1, <2>2, <2>4 DEF PInv
<1>2. CASE Next
  BY <1>2, ElectInv, ElectFailsInv, ListJobsInv, CheckActiveInv, CheckDueInv,
     CheckDependencyInv, CreateRunInv, EndsInv, StopInv, DropInv, ElectorIdleInv,
     WorkerInv, ClientInv DEF Next, PromoteOnce
<1> QED
  BY <1>1, <1>2

\* The inductive invariant of the scheduler replicas.
THEOREM PromoterInvariance == Spec => []PInv
  BY InitPInv, NextPInv, PTL DEF Spec

\* The replicas, their passes and the tables keep their types.
THEOREM PromoterTypeCorrect == Spec => []TypeOK
<1>1. PInv => TypeOK
  BY DEF PInv
<1> QED
  BY <1>1, PromoterInvariance, PTL

\* Whoever remembers to lead over a live connection holds the advisory lock,
\* and until a connection is lost no two replicas promote at the same time.
THEOREM LeadershipExclusiveTheorem == Spec => []LeadershipExclusive
<1>1. PInv => LeadershipExclusive
  BY DEF PInv, LeaderInv, LeadershipExclusive
<1> QED
  BY <1>1, PromoterInvariance, PTL

\* No run is created before every dependency of its job has succeeded, with
\* any number of leaders at the same time.
THEOREM DependenciesFirstTheorem == Spec => []DependenciesFirst
<1>1. PInv => DependenciesFirst
  BY DEF PInv
<1> QED
  BY <1>1, PromoterInvariance, PTL

-----------------------------------------------------------------------------
(* What a step of a replica lets it do next.                               *)

USE SMTT(20), ZenonT(20)

\* What a replica in state s may still do to job j: it found no active run; it
\* found j due; it has j on its page.
Decides(s, j) == s.pc \in {"latest", "deps", "create"} /\ s.job = j
Fires(s, j) == s.pc \in {"deps", "create"} /\ s.job = j
Holds(s, j) == s.pc # "idle" /\ (j \in s.todo \/ s.job = j)

\* The replica that goes on, and the others.
LEMMA GotoRecord ==
    ASSUME TypeOK, NEW p \in Replica, NEW pc, NEW todo, NEW job, NEW deps,
           Goto(p, pc, todo, job, deps)
    PROVE  /\ pass'[p].pc = pc /\ pass'[p].todo = todo /\ pass'[p].job = job
           /\ pass'[p].now = pass[p].now
           /\ \A q \in Replica \ {p} : pass'[q] = pass[q]
  BY DEF TypeOK, Goto

\* The replica whose pass ends, and the others.
LEMMA EndPassRecord ==
    ASSUME TypeOK, NEW p \in Replica, EndPass(p)
    PROVE  /\ pass'[p].pc = "idle" /\ pass'[p].todo = {} /\ pass'[p].job = NoJob
           /\ pass'[p].now = 0
           /\ \A q \in Replica \ {p} : pass'[q] = pass[q]
  BY DEF TypeOK, EndPass, IdlePass

\* Replica q gets nothing new to do.
CalmDecides(q) == \A j \in Job : Decides(pass'[q], j) => Decides(pass[q], j)
CalmFires(q) == \A j \in Job : Fires(pass'[q], j) => Fires(pass[q], j)
CalmHolds(q) == \A j \in Job : Holds(pass'[q], j) => Holds(pass[q], j)

\* A step of a pass moves one replica.
LEMMA OneMoves ==
    ASSUME TypeOK, NEW p \in Replica,
           CheckDependency(p) \/ CallFails(p) \/ Finish(p) \/ Elect(p) \/ ElectFails(p) \/ Stop(p)
    PROVE  \A q \in Replica \ {p} : pass'[q] = pass[q]
<1>1. ASSUME NEW pc, NEW todo, NEW job, NEW deps, Goto(p, pc, todo, job, deps)
      PROVE  \A q \in Replica \ {p} : pass'[q] = pass[q]
  BY <1>1, GotoRecord
<1>2. CASE CheckDependency(p)
  BY <1>1, <1>2 DEF CheckDependency, Continue
<1>3. CASE CallFails(p)
  BY <1>1, <1>3, EndPassRecord DEF CallFails, Continue
<1>4. CASE Finish(p) \/ Stop(p)
  BY <1>4, EndPassRecord DEF Finish, Stop
<1>5. CASE Elect(p)
  BY <1>1, <1>5 DEF Elect
<1>6. CASE ElectFails(p)
  BY <1>6 DEF ElectFails
<1> QED BY <1>2, <1>3, <1>4, <1>5, <1>6

\* Steps that only go on with, or give up, what was at hand.
LEMMA CalmPass ==
    ASSUME TypeOK, NEW p \in Replica,
           CheckDependency(p) \/ CallFails(p) \/ Finish(p) \/ Elect(p) \/ ElectFails(p) \/ Stop(p)
    PROVE  \A q \in Replica : CalmDecides(q) /\ CalmFires(q) /\ CalmHolds(q)
<1>1. \A q \in Replica \ {p} : pass'[q] = pass[q]
  BY OneMoves
<1>2. \/ pass'[p].pc = "idle"
      \/ pass'[p] = pass[p]
      \/ pass'[p].pc = "list" /\ pass'[p].todo = {} /\ pass'[p].job = NoJob
      \/ /\ pass[p].pc # "idle" /\ pass'[p].todo \subseteq pass[p].todo
         /\ pass'[p].pc = "scan" /\ pass'[p].job = NoJob
      \/ /\ pass[p].pc = "deps" /\ pass'[p].todo = pass[p].todo
         /\ pass'[p].pc \in {"deps", "create"} /\ pass'[p].job = pass[p].job
  <2>1. CASE CheckDependency(p)
    <3>1. pass[p].pc = "deps"
      BY <2>1 DEF CheckDependency
    <3>2. CASE Continue(p)
      <4>1. Goto(p, "scan", pass[p].todo, NoJob, {})
        BY <3>2 DEF Continue
      <4> QED BY <3>1, <4>1, GotoRecord
    <3>3. ASSUME NEW pc \in {"deps", "create"}, NEW deps, Goto(p, pc, pass[p].todo, pass[p].job, deps)
          PROVE  /\ pass[p].pc = "deps" /\ pass'[p].todo = pass[p].todo
                 /\ pass'[p].pc \in {"deps", "create"} /\ pass'[p].job = pass[p].job
      BY <3>1, <3>3, GotoRecord
    <3> QED BY <2>1, <3>2, <3>3 DEF CheckDependency
  <2>2. CASE CallFails(p)
    <3>1. CASE EndPass(p)
      BY <3>1, EndPassRecord
    <3>2. ASSUME NEW todo \in SUBSET pass[p].todo, pass[p].pc # "idle", Goto(p, "scan", todo, NoJob, {})
          PROVE  /\ pass[p].pc # "idle" /\ pass'[p].todo \subseteq pass[p].todo
                 /\ pass'[p].pc = "scan" /\ pass'[p].job = NoJob
      <4>1. pass'[p].pc = "scan" /\ pass'[p].todo = todo /\ pass'[p].job = NoJob
        BY <3>2, GotoRecord
      <4> QED BY <3>2, <4>1
    <3> QED BY <2>2, <3>1, <3>2 DEF CallFails, Continue
  <2>3. CASE Finish(p) \/ Stop(p)
    BY <2>3, EndPassRecord DEF Finish, Stop
  <2>4. CASE Elect(p)
    <3>1. PICK leads \in BOOLEAN : Goto(p, IF leads THEN "list" ELSE "idle", {}, NoJob, {})
      BY <2>4 DEF Elect
    <3> QED BY <3>1, GotoRecord
  <2>5. CASE ElectFails(p)
    <3>1. pass' = pass
      BY <2>5 DEF ElectFails
    <3>2. pass'[p] = pass[p]
      BY <3>1
    <3> QED BY <3>2
  <2> QED BY <2>1, <2>2, <2>3, <2>4, <2>5
<1>3. CalmDecides(p) /\ CalmFires(p) /\ CalmHolds(p)
  BY <1>2, ScheduleAssumption DEF CalmDecides, CalmFires, CalmHolds, Decides, Fires, Holds
<1> QED BY <1>1, <1>3 DEF CalmDecides, CalmFires, CalmHolds

\* They leave the tables alone.
LEMMA CalmTables ==
    ASSUME NEW p \in Replica,
           CheckDependency(p) \/ CallFails(p) \/ Finish(p) \/ Elect(p) \/ ElectFails(p) \/ Stop(p)
    PROVE  UNCHANGED <<jobs, runs, late, clock, drops>>
<1>1. CASE CheckDependency(p) \/ CallFails(p) \/ Finish(p)
  BY <1>1 DEF CheckDependency, CallFails, Finish, elector
<1>2. CASE Elect(p)
  BY <1>2 DEF Elect, TryAcquire
<1>3. CASE ElectFails(p)
  BY <1>3 DEF ElectFails, TryAcquireFails
<1>4. CASE Stop(p)
  BY <1>4 DEF Stop, StopReplica
<1> QED BY <1>1, <1>2, <1>3, <1>4

\* The page of ListJobs.
LEMMA ListJobsPass ==
    ASSUME TypeOK, NEW p \in Replica, ListJobs(p)
    PROVE  /\ \A q \in Replica : CalmDecides(q) /\ CalmFires(q)
           /\ \A q \in Replica \ {p} : pass'[q] = pass[q]
           /\ \A j \in Job : j \in pass'[p].todo => jobs[j].status = "active"
           /\ pass[p].pc = "list" /\ pass'[p].pc = "scan" /\ pass'[p].job = NoJob /\ pass'[p].now = clock
<1>1. PICK page \in Pages :
         pass' = [pass EXCEPT ![p] = [pc |-> "scan", todo |-> page, job |-> NoJob,
                                      deps |-> {}, now |-> clock]]
  BY DEF ListJobs
<1>2. /\ \A q \in Replica \ {p} : pass'[q] = pass[q]
      /\ pass'[p].pc = "scan" /\ pass'[p].job = NoJob /\ pass'[p].now = clock /\ pass'[p].todo = page
      /\ pass[p].pc = "list"
  BY <1>1 DEF TypeOK, ListJobs
<1>3. \A j \in page : jobs[j].status = "active"
  BY DEF Pages
<1>4. \A q \in Replica : CalmDecides(q) /\ CalmFires(q)
  BY <1>2 DEF CalmDecides, CalmFires, Decides, Fires
<1> QED BY <1>2, <1>3, <1>4

\* The answer of HasActiveRun: only a job without an active run is gone on
\* with.
LEMMA CheckActivePass ==
    ASSUME TypeOK, NEW p \in Replica, CheckActive(p)
    PROVE  /\ \A q \in Replica : CalmFires(q) /\ CalmHolds(q)
           /\ \A q \in Replica \ {p} : pass'[q] = pass[q]
           /\ \A j \in Job : Decides(pass'[p], j) => ActiveRuns(j) = {}
           /\ pass[p].pc = "scan" /\ pass'[p].now = pass[p].now
           /\ pass'[p].pc \in {"scan", "latest"} /\ pass'[p].job \notin pass'[p].todo
<1>1. PICK j \in pass[p].todo :
         IF HasActiveRun(j) THEN Goto(p, "scan", pass[p].todo \ {j}, NoJob, {})
                            ELSE Goto(p, "latest", pass[p].todo \ {j}, j, {})
  BY DEF CheckActive
<1>2. j \in Job /\ pass[p].todo \in SUBSET Job /\ pass[p].pc = "scan"
  BY DEF TypeOK, PassState, CheckActive
<1>3. /\ \A q \in Replica \ {p} : pass'[q] = pass[q]
      /\ pass'[p].todo = pass[p].todo \ {j} /\ pass'[p].now = pass[p].now
      /\ \/ pass'[p].pc = "scan" /\ pass'[p].job = NoJob
         \/ pass'[p].pc = "latest" /\ pass'[p].job = j /\ ActiveRuns(j) = {}
  BY <1>1, GotoRecord DEF HasActiveRun
<1>4. CalmFires(p) /\ CalmHolds(p) /\ (\A k \in Job : Decides(pass'[p], k) => ActiveRuns(k) = {})
  BY <1>2, <1>3, ScheduleAssumption DEF CalmFires, CalmHolds, Decides, Fires, Holds
<1> QED BY <1>2, <1>3, <1>4, ScheduleAssumption DEF CalmFires, CalmHolds

\* The answer of NextRunDue: only a due job is gone on with.
LEMMA CheckDuePass ==
    ASSUME TypeOK, NEW p \in Replica, CheckDue(p)
    PROVE  /\ \A q \in Replica : CalmDecides(q) /\ CalmHolds(q)
           /\ \A q \in Replica \ {p} : pass'[q] = pass[q]
           /\ \A j \in Job : Fires(pass'[p], j) => NextRunDue(j, pass[p].now)
           /\ pass[p].pc = "latest" /\ pass'[p].now = pass[p].now /\ pass'[p].todo = pass[p].todo
           /\ pass'[p].job \in {NoJob, pass[p].job} /\ pass'[p].pc # "idle"
<1>1. /\ \A q \in Replica \ {p} : pass'[q] = pass[q]
      /\ pass[p].pc = "latest" /\ pass'[p].now = pass[p].now /\ pass'[p].todo = pass[p].todo
      /\ \/ pass'[p].pc = "scan" /\ pass'[p].job = NoJob
         \/ /\ pass'[p].pc \in {"deps", "create"} /\ pass'[p].job = pass[p].job
            /\ NextRunDue(pass[p].job, pass[p].now)
  BY GotoRecord DEF CheckDue, Continue
<1>2. CalmDecides(p) /\ CalmHolds(p) /\ (\A j \in Job : Fires(pass'[p], j) => NextRunDue(j, pass[p].now))
  BY <1>1, ScheduleAssumption DEF CalmDecides, CalmHolds, Decides, Fires, Holds
<1> QED BY <1>1, <1>2 DEF CalmDecides, CalmHolds

\* The row a worker writes.
LEMMA WorkerRow ==
    ASSUME TypeOK, NEW j \in Job, RunEnds(j) \/ RunRequeued(j)
    PROVE  \E i \in ActiveRuns(j), row \in RunRow :
              /\ SetRun(j, i, row) /\ row.fired = runs[j][i].fired
              /\ row.scheduled_at \in {runs[j][i].scheduled_at, clock + RetryDelay}
<1>1. ASSUME NEW i \in ActiveRuns(j) PROVE runs[j][i] \in RunRow
  BY DEF ActiveRuns, TypeOK
<1>2. CASE RunEnds(j)
  <2>1. PICK i \in ActiveRuns(j), st \in {"succeeded", "failed"} :
           SetRun(j, i, [status |-> st, scheduled_at |-> runs[j][i].scheduled_at,
                         fired |-> runs[j][i].fired])
    BY <1>2 DEF RunEnds
  <2>2. [status |-> st, scheduled_at |-> runs[j][i].scheduled_at,
         fired |-> runs[j][i].fired] \in RunRow
    BY <1>1 DEF RunRow
  <2> QED BY <2>1, <2>2
<1>3. CASE RunRequeued(j)
  <2>1. PICK i \in ActiveRuns(j) :
           SetRun(j, i, [status |-> "active", scheduled_at |-> clock + RetryDelay,
                         fired |-> runs[j][i].fired])
    BY <1>3 DEF RunRequeued
  <2>2. clock + RetryDelay \in 0 .. MaxTime + RetryDelay
    BY ScheduleAssumption DEF TypeOK
  <2>3. [status |-> "active", scheduled_at |-> clock + RetryDelay,
         fired |-> runs[j][i].fired] \in RunRow
    BY <1>1, <2>2 DEF RunRow
  <2> QED BY <2>1, <2>3
<1> QED BY <1>2, <1>3


-----------------------------------------------------------------------------
(* Fires of a recurring job.                                               *)

\* No run is scheduled before it fired, and nothing happened in the future.
TimesInv ==
    /\ \A j \in Job : \A i \in 1 .. Len(runs[j]) :
          runs[j][i].fired <= runs[j][i].scheduled_at /\ runs[j][i].fired <= clock
    /\ \A p \in Replica : pass[p].now <= clock

\* While no connection was lost, what a replica found due still is: a period
\* has gone by since the last fire.
DueInv ==
    drops = 0 =>
       \A p \in Replica, j \in Job :
          Fires(pass[p], j) /\ Cron[j] > 0 /\ runs[j] # <<>> =>
             NextFire(Cron[j], Latest(j).fired) <= pass[p].now

ApartInv == PInv /\ TimesInv /\ DueInv /\ FiresApart

\* Multiplication by a period keeps order.
LEMMA MultiplyKeeps ==
    ASSUME NEW a \in Int, NEW b \in Int, NEW n \in Nat, a <= b
    PROVE  a * n <= b * n
  BY Z3

\* A later base never gives an earlier fire: a retry, which moves
\* scheduled_at, only puts the next fire off.
LEMMA NextFireMonotone ==
    ASSUME NEW period \in Nat, period > 0, NEW b \in Nat, NEW c \in Nat, b <= c
    PROVE  NextFire(period, b) <= NextFire(period, c)
<1>1. b \div period \in Int /\ c \div period \in Int
  OBVIOUS
<1>2. b \div period <= c \div period
  OBVIOUS
<1> QED BY <1>1, <1>2, MultiplyKeeps DEF NextFire

\* A step that leaves the runs alone and finds nothing due.
LEMMA ApartKept ==
    ASSUME PInv, PInv', ApartInv, UNCHANGED runs, clock <= clock', drops <= drops',
           \A q \in Replica : pass'[q].now <= clock',
           \A q \in Replica, j \in Job :
              Fires(pass'[q], j) => Fires(pass[q], j) /\ pass'[q].now = pass[q].now
    PROVE  ApartInv'
<1>1. clock \in Nat /\ clock' \in Nat /\ drops \in Nat /\ drops' \in Nat
  BY DropAssumption, ScheduleAssumption DEF PInv, TypeOK, ElectorTypeOK
<1>2. \A j \in Job : \A i \in 1 .. Len(runs[j]) : runs[j][i].fired \in Nat
  <2>1. \A j \in Job : \A i \in 1 .. Len(runs[j]) : runs[j][i] \in RunRow
    BY DEF PInv, TypeOK
  <2> QED BY <2>1, ScheduleAssumption DEF RunRow
<1>3. TimesInv'
  BY <1>1, <1>2 DEF ApartInv, TimesInv
<1>4. DueInv'
  BY <1>1 DEF ApartInv, DueInv, Latest
<1>5. FiresApart'
  BY <1>1 DEF ApartInv, FiresApart
<1> QED BY <1>3, <1>4, <1>5 DEF ApartInv

\* Only a job whose next fire has come is found due.
LEMMA CheckDueApart ==
    ASSUME PInv, PInv', ApartInv, NEW p \in Replica, CheckDue(p)
    PROVE  ApartInv'
<1>0. TypeOK /\ UNCHANGED <<runs, clock, drops>>
  BY DEF PInv, CheckDue, elector
<1>1. TimesInv'
  BY <1>0, CheckDuePass DEF ApartInv, TimesInv
<1>2. FiresApart'
  BY <1>0 DEF ApartInv, FiresApart
<1>3. ASSUME drops = 0, NEW j \in Job, Fires(pass'[p], j), Cron[j] > 0, runs[j] # <<>>
      PROVE  NextFire(Cron[j], Latest(j).fired) <= pass'[p].now
  <2>1. NextFire(Cron[j], Latest(j).scheduled_at) <= pass[p].now
    <3>1. NextRunDue(j, pass[p].now)
      BY <1>0, <1>3, CheckDuePass
    <3>2. Cron[j] # 0
      BY <1>3, ScheduleAssumption
    <3> QED BY <1>3, <3>1, <3>2 DEF NextRunDue
  <2>2. Len(runs[j]) \in 1 .. Len(runs[j]) /\ Latest(j) \in RunRow
    BY <1>0, <1>3 DEF TypeOK, Latest
  <2>3. Latest(j).fired \in Nat /\ Latest(j).scheduled_at \in Nat
    BY <2>2, ScheduleAssumption DEF RunRow
  <2>4. Latest(j).fired <= Latest(j).scheduled_at
    BY <2>2 DEF ApartInv, TimesInv, Latest
  <2>5. NextFire(Cron[j], Latest(j).fired) <= NextFire(Cron[j], Latest(j).scheduled_at)
    BY <1>3, <2>3, <2>4, NextFireMonotone, ScheduleAssumption
  <2>6. /\ NextFire(Cron[j], Latest(j).fired) \in Int
        /\ NextFire(Cron[j], Latest(j).scheduled_at) \in Int
    <3>1. \A b \in Nat, n \in Nat : n > 0 => NextFire(n, b) \in Int
      BY DEF NextFire
    <3> QED BY <1>3, <2>3, <3>1, ScheduleAssumption
  <2>7. pass[p].now \in Int /\ pass'[p].now = pass[p].now
    <3>1. pass[p].now \in Int
      BY <1>0 DEF TypeOK, PassState
    <3> QED BY <1>0, <3>1, CheckDuePass
  <2> QED BY <2>1, <2>5, <2>6, <2>7
<1>4. DueInv'
  <2> SUFFICES ASSUME drops = 0, NEW q \in Replica, NEW j \in Job,
                      Fires(pass'[q], j), Cron[j] > 0, runs[j] # <<>>
               PROVE  NextFire(Cron[j], Latest(j).fired) <= pass'[q].now
    BY <1>0 DEF DueInv, Latest
  <2>1. CASE q = p
    BY <1>3, <2>1
  <2>2. CASE q # p
    BY <1>0, <2>2, CheckDuePass DEF ApartInv, DueInv
  <2> QED BY <2>1, <2>2
<1> QED BY <1>1, <1>2, <1>4 DEF ApartInv

\* The INSERT fires at the time of the pass; nobody else is in one.
LEMMA CreateRunApart ==
    ASSUME PInv, PInv', ApartInv, NEW p \in Replica, CreateRun(p)
    PROVE  ApartInv'
<1>0. TypeOK /\ TypeOK' /\ UNCHANGED <<clock, drops>>
  BY DEF PInv, CreateRun, elector
<1>1. PICK k \in Job : pass[p].job = k /\ pass[p].pc = "create"
  BY DEF CreateRun, PInv, SeenInv, Seen
<1>2. /\ pass'[p].pc = "scan" /\ pass'[p].now = pass[p].now
      /\ \A q \in Replica \ {p} : pass'[q] = pass[q]
  <2>1. Goto(p, "scan", pass[p].todo, NoJob, {})
    BY DEF CreateRun, Continue
  <2> QED BY <1>0, <2>1, GotoRecord
<1>3. PICK row \in RunRow : /\ row.scheduled_at = pass[p].now /\ row.fired = pass[p].now
                            /\ runs' = [runs EXCEPT ![k] = Append(@, row)]
  <2> DEFINE row == [status |-> "active", scheduled_at |-> pass[p].now, fired |-> pass[p].now]
  <2>1. pass[p].now \in 0 .. MaxTime
    BY <1>0 DEF TypeOK, PassState
  <2>2. row \in RunRow
    BY <2>1, ScheduleAssumption DEF RunRow
  <2>3. runs' = [runs EXCEPT ![k] = Append(@, row)]
    BY <1>1 DEF CreateRun
  <2> QED BY <2>2, <2>3
<1>4. /\ \A j \in Job \ {k} : runs'[j] = runs[j]
      /\ Len(runs'[k]) = Len(runs[k]) + 1 /\ Len(runs[k]) \in Nat
      /\ \A i \in 1 .. Len(runs[k]) : runs'[k][i] = runs[k][i]
  <2>1. Len(runs[k]) \in Nat
    BY <1>0 DEF TypeOK
  <2> QED BY <1>0, <1>3, <2>1, AppendRun
<1>5. runs'[k][Len(runs[k]) + 1] = row
  BY <1>0, <1>3 DEF TypeOK
<1>6. pass[p].now \in Nat /\ pass[p].now <= clock
  BY <1>0 DEF TypeOK, PassState, ApartInv, TimesInv
<1>7. TimesInv'
  <2>1. \A j \in Job \ {k} : \A i \in 1 .. Len(runs'[j]) :
           runs'[j][i].fired <= runs'[j][i].scheduled_at /\ runs'[j][i].fired <= clock
    BY <1>4 DEF ApartInv, TimesInv
  <2>2. \A i \in 1 .. Len(runs'[k]) :
           runs'[k][i].fired <= runs'[k][i].scheduled_at /\ runs'[k][i].fired <= clock
    <3> SUFFICES ASSUME NEW i \in 1 .. Len(runs'[k])
                 PROVE  runs'[k][i].fired <= runs'[k][i].scheduled_at /\ runs'[k][i].fired <= clock
      OBVIOUS
    <3>1. CASE i \in 1 .. Len(runs[k])
      BY <1>4, <3>1 DEF ApartInv, TimesInv
    <3>2. CASE i = Len(runs[k]) + 1
      BY <1>3, <1>5, <1>6, <3>2
    <3> QED BY <1>4, <3>1, <3>2
  <2>3. \A q \in Replica : pass'[q].now <= clock
    BY <1>2 DEF ApartInv, TimesInv
  <2> QED BY <1>0, <2>1, <2>2, <2>3 DEF TimesInv
<1>8. DueInv'
  <2> SUFFICES ASSUME drops = 0, NEW q \in Replica, NEW j \in Job, Fires(pass'[q], j) PROVE FALSE
    BY <1>0 DEF DueInv
  <2>1. q # p /\ pass[q].pc # "idle" /\ pass[p].pc # "idle"
    BY <1>1, <1>2 DEF Fires
  <2> QED BY <2>1 DEF PInv, LeaderInv
<1>9. FiresApart'
  <2> SUFFICES ASSUME drops = 0, NEW j \in Job, Cron[j] > 0, NEW i \in 1 .. Len(runs'[j]) - 1
               PROVE  NextFire(Cron[j], runs'[j][i].fired) <= runs'[j][i + 1].fired
    BY <1>0 DEF FiresApart
  <2>1. CASE j # k
    BY <1>4, <2>1 DEF ApartInv, FiresApart
  <2>2. CASE j = k /\ i = Len(runs[k])
    <3>1. Fires(pass[p], k)
      BY <1>1 DEF Fires
    <3>2. runs[k] # <<>> /\ i \in 1 .. Len(runs[k])
      BY <1>4, <2>2
    <3>3. NextFire(Cron[k], Latest(k).fired) <= pass[p].now
      BY <2>2, <3>1, <3>2 DEF ApartInv, DueInv
    <3> QED BY <1>3, <1>4, <1>5, <2>2, <3>2, <3>3 DEF Latest
  <2>3. CASE j = k /\ i # Len(runs[k])
    <3>1. i \in 1 .. Len(runs[k]) - 1 /\ i \in 1 .. Len(runs[k]) /\ i + 1 \in 1 .. Len(runs[k])
      BY <1>4, <2>3
    <3>2. NextFire(Cron[k], runs[k][i].fired) <= runs[k][i + 1].fired
      BY <2>3, <3>1 DEF ApartInv, FiresApart
    <3> QED BY <1>4, <2>3, <3>1, <3>2
  <2> QED BY <2>1, <2>2, <2>3
<1> QED BY <1>7, <1>8, <1>9 DEF ApartInv

\* A worker keeps the time a run fired, and never moves it to before that.
LEMMA WorkerApart ==
    ASSUME PInv, PInv', ApartInv, NEW j \in Job, RunEnds(j) \/ RunRequeued(j)
    PROVE  ApartInv'
<1>0. TypeOK /\ UNCHANGED <<clock, pass, drops>>
  <2>1. UNCHANGED <<clock, pass, elector>>
    BY DEF RunEnds, RunRequeued
  <2> QED BY <2>1 DEF PInv, elector
<1>1. PICK i \in ActiveRuns(j), row \in RunRow :
         /\ SetRun(j, i, row) /\ row.fired = runs[j][i].fired
         /\ row.scheduled_at \in {runs[j][i].scheduled_at, clock + RetryDelay}
  BY <1>0, WorkerRow
<1>2. i \in 1 .. Len(runs[j])
  BY DEF ActiveRuns
<1>3. /\ \A k \in Job \ {j} : runs'[k] = runs[k]
      /\ Len(runs'[j]) = Len(runs[j])
      /\ \A n \in (1 .. Len(runs[j])) \ {i} : runs'[j][n] = runs[j][n]
      /\ runs'[j][i] = row
  BY <1>0, <1>1, <1>2, SetRunType
<1>4. \A k \in Job : /\ Len(runs'[k]) = Len(runs[k]) /\ Len(runs[k]) \in Nat
                     /\ \A n \in 1 .. Len(runs[k]) : runs'[k][n].fired = runs[k][n].fired
  <2>1. \A k \in Job : Len(runs[k]) \in Nat
    BY <1>0 DEF TypeOK
  <2>2. \A n \in 1 .. Len(runs[j]) : runs'[j][n].fired = runs[j][n].fired
    BY <1>1, <1>3
  <2> QED BY <1>3, <2>1, <2>2, Zenon
<1>5. row.fired <= row.scheduled_at
  <2>1. runs[j][i].fired <= runs[j][i].scheduled_at /\ runs[j][i].fired <= clock
    BY <1>2 DEF ApartInv, TimesInv
  <2>2. row.fired \in Nat /\ clock \in Nat
    BY <1>0, ScheduleAssumption DEF RunRow, TypeOK
  <2> QED BY <1>1, <2>1, <2>2, ScheduleAssumption
<1>6. TimesInv'
  <2> SUFFICES ASSUME NEW k \in Job, NEW n \in 1 .. Len(runs[k])
               PROVE  runs'[k][n].fired <= runs'[k][n].scheduled_at /\ runs'[k][n].fired <= clock
    BY <1>0, <1>4 DEF ApartInv, TimesInv
  <2>1. runs[k][n].fired <= runs[k][n].scheduled_at /\ runs[k][n].fired <= clock
    BY DEF ApartInv, TimesInv
  <2>2. runs'[k][n] = runs[k][n] \/ runs'[k][n] = row
    BY <1>3
  <2> QED BY <1>4, <1>5, <2>1, <2>2
<1>7. \A k \in Job : /\ (runs'[k] # <<>> => runs[k] # <<>>)
                     /\ (runs[k] # <<>> => Latest(k)'.fired = Latest(k).fired)
  <2> SUFFICES ASSUME NEW k \in Job
               PROVE  /\ (runs'[k] # <<>> => runs[k] # <<>>)
                      /\ (runs[k] # <<>> => runs'[k][Len(runs'[k])].fired = runs[k][Len(runs[k])].fired)
    BY DEF Latest
  <2>1. runs[k] \in Seq(RunRow) /\ runs'[k] \in Seq(RunRow)
    BY DEF PInv, TypeOK
  <2>2. runs[k] # <<>> => Len(runs[k]) \in 1 .. Len(runs[k])
    BY <2>1
  <2> QED BY <1>4, <2>1, <2>2
<1>8. DueInv'
  BY <1>0, <1>7 DEF ApartInv, DueInv
<1>9. FiresApart'
  <2> SUFFICES ASSUME drops = 0, NEW k \in Job, Cron[k] > 0, NEW n \in 1 .. Len(runs[k]) - 1
               PROVE  NextFire(Cron[k], runs'[k][n].fired) <= runs'[k][n + 1].fired
    BY <1>0, <1>4 DEF FiresApart
  <2>1. n \in 1 .. Len(runs[k]) /\ n + 1 \in 1 .. Len(runs[k])
    BY <1>4
  <2>2. NextFire(Cron[k], runs[k][n].fired) <= runs[k][n + 1].fired
    BY DEF ApartInv, FiresApart
  <2> QED BY <1>4, <2>1, <2>2
<1> QED BY <1>6, <1>8, <1>9 DEF ApartInv

\* It holds at the start.
LEMMA InitApart == Init => ApartInv
<1> SUFFICES ASSUME Init PROVE ApartInv
  OBVIOUS
<1>1. PInv
  BY InitPInv
<1>2. TimesInv
  <2>1. \A j \in Job : Len(runs[j]) = 0
    BY DEF Init
  <2>2. clock = 0 /\ \A p \in Replica : pass[p].now = 0
    BY DEF Init, IdlePass
  <2> QED BY <2>1, <2>2 DEF TimesInv
<1>3. DueInv
  BY DEF Init, IdlePass, DueInv, Fires
<1>4. FiresApart
  <2>1. \A j \in Job : Len(runs[j]) = 0
    BY DEF Init
  <2> QED BY <2>1 DEF FiresApart
<1> QED BY <1>1, <1>2, <1>3, <1>4 DEF ApartInv

\* What the calm steps of a replica do to its time.
LEMMA CalmTimes ==
    ASSUME PInv, ApartInv, NEW p \in Replica,
           CheckDependency(p) \/ CallFails(p) \/ Finish(p) \/ Elect(p) \/ ElectFails(p) \/ Stop(p)
           \/ CheckActive(p)
    PROVE  /\ \A q \in Replica : pass'[q].now <= clock
           /\ \A q \in Replica, j \in Job :
                 Fires(pass'[q], j) => Fires(pass[q], j) /\ pass'[q].now = pass[q].now
<1>0. TypeOK /\ clock \in Nat
  BY ScheduleAssumption DEF PInv, TypeOK
<1>1. \A q \in Replica \ {p} : pass'[q] = pass[q]
  BY <1>0, OneMoves, CheckActivePass
<1>2. \/ pass'[p].now = pass[p].now
      \/ pass'[p].now = 0 /\ pass'[p].pc = "idle"
  <2>0. ASSUME NEW pc, NEW todo, NEW job, NEW deps, Goto(p, pc, todo, job, deps)
        PROVE  pass'[p].now = pass[p].now
    BY <1>0, <2>0, GotoRecord
  <2>1. CASE CheckDependency(p)
    BY <2>0, <2>1 DEF CheckDependency, Continue
  <2>2. CASE CallFails(p)
    BY <1>0, <2>0, <2>2, EndPassRecord DEF CallFails, Continue
  <2>3. CASE Finish(p) \/ Stop(p)
    BY <1>0, <2>3, EndPassRecord DEF Finish, Stop
  <2>4. CASE Elect(p)
    BY <2>0, <2>4 DEF Elect
  <2>5. CASE ElectFails(p)
    <3>1. pass' = pass
      BY <2>5 DEF ElectFails
    <3> QED BY <3>1
  <2>6. CASE CheckActive(p)
    BY <1>0, <2>6, CheckActivePass
  <2> QED BY <2>1, <2>2, <2>3, <2>4, <2>5, <2>6
<1>3. \A q \in Replica : pass'[q].now <= clock
  <2>1. \A q \in Replica : pass[q].now <= clock
    BY DEF ApartInv, TimesInv
  <2>2. pass'[p].now <= clock
    BY <1>0, <1>2, <2>1
  <2> QED BY <1>1, <2>1, <2>2
<1>4. \A q \in Replica : CalmFires(q)
  BY <1>0, CalmPass, CheckActivePass
<1> QED BY <1>1, <1>2, <1>3, <1>4 DEF CalmFires, Fires

\* Every step keeps it.
LEMMA NextApart == ApartInv /\ [Next]_vars => ApartInv'
<1> SUFFICES ASSUME ApartInv, [Next]_vars PROVE ApartInv'
  OBVIOUS
<1>1. PInv /\ PInv' /\ TypeOK
  BY NextPInv DEF ApartInv, PInv
<1>2. clock \in Nat /\ drops \in Nat
  BY <1>1, ScheduleAssumption, DropAssumption DEF TypeOK, ElectorTypeOK
<1>3. ASSUME UNCHANGED <<runs, pass>>, clock <= clock', drops <= drops', clock' \in Nat
      PROVE  ApartInv'
  <2>1. \A q \in Replica : pass'[q].now <= clock'
    <3>1. \A q \in Replica : pass[q].now \in Nat /\ pass[q].now <= clock
      BY <1>1 DEF ApartInv, TimesInv, TypeOK, PassState
    <3> QED BY <1>2, <1>3, <3>1
  <2> QED BY <1>1, <1>3, <2>1, ApartKept
<1>4. ASSUME NEW p \in Replica,
             CheckDependency(p) \/ CallFails(p) \/ Finish(p) \/ Elect(p) \/ ElectFails(p) \/ Stop(p)
             \/ CheckActive(p)
      PROVE  ApartInv'
  <2>1. UNCHANGED <<runs, clock>> /\ drops <= drops'
    <3>1. CASE CheckActive(p)
      BY <1>2, <3>1 DEF CheckActive, elector
    <3>2. CASE ~CheckActive(p)
      BY <1>2, <1>4, <3>2, CalmTables
    <3> QED BY <3>1, <3>2
  <2>2. clock <= clock'
    BY <1>2, <2>1
  <2>3. /\ \A q \in Replica : pass'[q].now <= clock'
        /\ \A q \in Replica, j \in Job :
              Fires(pass'[q], j) => Fires(pass[q], j) /\ pass'[q].now = pass[q].now
    BY <1>1, <1>4, <2>1, CalmTimes
  <2> QED BY <1>1, <2>1, <2>2, <2>3, ApartKept
<1>5. ASSUME NEW p \in Replica, ListJobs(p) PROVE ApartInv'
  <2>1. UNCHANGED <<runs, clock>> /\ clock <= clock' /\ drops <= drops'
    BY <1>2, <1>5 DEF ListJobs, elector
  <2>2. \A q \in Replica : pass'[q].now <= clock'
    BY <1>1, <1>2, <1>5, <2>1, ListJobsPass DEF ApartInv, TimesInv
  <2>3. \A q \in Replica, j \in Job :
           Fires(pass'[q], j) => Fires(pass[q], j) /\ pass'[q].now = pass[q].now
    BY <1>1, <1>5, ListJobsPass DEF Fires
  <2> QED BY <1>1, <2>1, <2>2, <2>3, ApartKept
<1>6. ASSUME NEW p \in Replica, CheckDue(p) \/ CreateRun(p) PROVE ApartInv'
  BY <1>1, <1>6, CheckDueApart, CreateRunApart
<1>7. ASSUME NEW p \in Replica, Start(p) \/ Drop(p) PROVE ApartInv'
  BY <1>2, <1>3, <1>7 DEF Start, Drop, schedule, StartReplica, DropConn
<1>8. ASSUME NEW j \in Job, CreateJob(j) \/ PauseJob(j) \/ ResumeJob(j) PROVE ApartInv'
  BY <1>2, <1>3, <1>8 DEF CreateJob, PauseJob, ResumeJob, elector
<1>9. ASSUME NEW j \in Job, RunEnds(j) \/ RunRequeued(j) PROVE ApartInv'
  BY <1>1, <1>9, WorkerApart
<1>10. CASE EndSession \/ Tick \/ UNCHANGED vars
  BY <1>2, <1>3, <1>10 DEF EndSession, SessionEnds, Tick, vars, elector, schedule
<1> QED BY <1>4, <1>5, <1>6, <1>7, <1>8, <1>9, <1>10 DEF Next, PromoteOnce

\* A recurring job fires at most once per period of its schedule as long as no
\* elector connection is lost, whatever retries do to scheduled_at.
THEOREM FiresApartTheorem == Spec => []FiresApart
<1>1. ApartInv => FiresApart
  BY DEF ApartInv
<1> QED BY <1>1, InitApart, NextApart, PTL DEF Spec
=============================================================================
