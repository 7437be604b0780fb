------------------------------ MODULE Promoter ------------------------------
(***************************************************************************)
(* The scheduler replicas (internal/scheduler): each polls for leadership  *)
(* and, as leader, makes a pass over the active jobs that turns the due    *)
(* ones whose dependencies succeeded into runs (PromoteOnce).  A step is   *)
(* one statement against the database: between any two of them the API,    *)
(* the workers and the other replicas go on, and leadership may be lost.   *)
(*                                                                         *)
(* Workers are seen from the tables only: a run is active (pending, leased *)
(* or running), succeeded, or failed (failed or dead).                     *)
(***************************************************************************)
EXTENDS Elector, Integers, FiniteSets, Sequences

CONSTANTS
    Job,            \* ids of the jobs that may come to exist
    NoJob,          \* no job at hand
    Deps,           \* Deps[j]: depends_on of j
    Cron,           \* Cron[j]: ticks between two fires of j, 0 for a one-shot
    ListLimit,      \* listActiveJobsLimit
    RetryDelay,     \* backoff of a requeued run, in ticks
    MaxTime,        \* bound: the clock stops here
    FaultLimit      \* bound: stops and failed calls in a behaviour

ASSUME ScheduleAssumption ==
    /\ NoJob \notin Job
    /\ Deps \in [Job -> SUBSET Job]
    /\ Cron \in [Job -> Nat]
    /\ ListLimit \in Nat
    /\ RetryDelay \in Nat
    /\ MaxTime \in Nat
    /\ FaultLimit \in Nat

VARIABLES
    jobs,           \* jobs[j]: row j; status "absent" before the INSERT
    runs,           \* runs[j]: the runs of j, oldest first
    clock,          \* now() and time.Now(), in ticks
    pass,           \* pass[p]: where replica p is in PromoteOnce
    faults,         \* stops and failed calls so far
    late            \* history: late[j]: runs created since j was paused

schedule == <<jobs, runs, clock, pass, faults, late>>
vars == <<elector, schedule>>

Min2(a, b) == IF a < b THEN a ELSE b

JobRow == [status: {"absent", "active", "paused"}, created_at: 0 .. MaxTime]

\* fired: history: scheduled_at as CreateRun wrote it
RunRow == [status: {"active", "succeeded", "failed"},
           scheduled_at: 0 .. MaxTime + RetryDelay, fired: 0 .. MaxTime]

(***************************************************************************)
(* Program counters of a replica:                                          *)
(*   idle      waiting for the ticker of Run                               *)
(*   list      leader, about to call ListJobs                              *)
(*   scan      at the top of the loop, before HasActiveRun                 *)
(*   latest    before LatestRunForJob                                      *)
(*   deps      before LatestRunForJob of the dependencies in deps          *)
(*   create    before CreateRun                                            *)
(***************************************************************************)
PassState == [pc: {"idle", "list", "scan", "latest", "deps", "create"},
              todo: SUBSET Job, job: Job \cup {NoJob}, deps: SUBSET Job,
              now: 0 .. MaxTime]

IdlePass == [pc |-> "idle", todo |-> {}, job |-> NoJob, deps |-> {}, now |-> 0]

\* The type of every variable.
TypeOK ==
    /\ ElectorTypeOK
    /\ jobs \in [Job -> JobRow]
    /\ runs \in [Job -> Seq(RunRow)]
    /\ clock \in 0 .. MaxTime
    /\ pass \in [Replica -> PassState]
    /\ faults \in 0 .. FaultLimit
    /\ late \in [Job -> Nat]

Init ==
    /\ ElectorInit
    /\ jobs = [j \in Job |-> [status |-> "absent", created_at |-> 0]]
    /\ runs = [j \in Job |-> <<>>]
    /\ clock = 0
    /\ pass = [p \in Replica |-> IdlePass]
    /\ faults = 0
    /\ late = [j \in Job |-> 0]

-----------------------------------------------------------------------------
(* What the pass reads                                                     *)

Latest(j) == runs[j][Len(runs[j])]

ActiveRuns(j) == {i \in 1 .. Len(runs[j]) : runs[j][i].status = "active"}

HasActiveRun(j) == ActiveRuns(j) # {}

\* The first fire of a schedule of the given period after base.
NextFire(period, base) == (base \div period + 1) * period

\* Mutants of NextRunDue: a one-shot fires again once it is no longer active;
\* a fire is due one tick early.
NextRunDueAgain(j, now) ==
    Cron[j] = 0 => ~HasActiveRun(j)
NextRunDueEarly(j, now) ==
    IF Cron[j] = 0 THEN runs[j] = <<>>
    ELSE LET base == IF runs[j] = <<>> THEN jobs[j].created_at
                                       ELSE Latest(j).scheduled_at
         IN  NextFire(Cron[j], base) <= now + 1

NextRunDue(j, now) ==
    IF Cron[j] = 0 THEN runs[j] = <<>>
    ELSE LET base == IF runs[j] = <<>> THEN jobs[j].created_at
                                       ELSE Latest(j).scheduled_at
         IN  NextFire(Cron[j], base) <= now

Succeeded(j) == runs[j] # <<>> /\ Latest(j).status = "succeeded"

\* Mutants of Pages: the status is not asked for; one row too few.
PagesAnyStatus == {{j \in Job : jobs[j].status # "absent"}}
PagesShort ==
    LET active == {j \in Job : jobs[j].status = "active"}
    IN  {S \in SUBSET active :
           /\ Cardinality(S) = Min2(ListLimit - 1, Cardinality(active))
           /\ \A j \in S, k \in active \ S : jobs[k].created_at <= jobs[j].created_at}

\* The pages SELECT ... WHERE status = 'active' ORDER BY created_at DESC
\* LIMIT may return.
Pages ==
    LET active == {j \in Job : jobs[j].status = "active"}
    IN  {S \in SUBSET active :
           /\ Cardinality(S) = Min2(ListLimit, Cardinality(active))
           /\ \A j \in S, k \in active \ S : jobs[k].created_at <= jobs[j].created_at}

-----------------------------------------------------------------------------
(* Run and PromoteOnce                                                     *)

Fault == faults < FaultLimit /\ faults' = faults + 1

\* Replica p goes on at pc, with these jobs, job and dependencies to look at.
Goto(p, pc, todo, job, deps) ==
    pass' = [pass EXCEPT ![p] = [pc |-> pc, todo |-> todo, job |-> job,
                                 deps |-> deps, now |-> pass[p].now]]

\* The loop goes on with the next job.
Continue(p) == Goto(p, "scan", pass[p].todo, NoJob, {})

EndPass(p) == pass' = [pass EXCEPT ![p] = IdlePass]

\* Mutant of Elect: the answer of TryAcquire is not looked at.
ElectUnchecked(p) ==
    /\ up[p]
    /\ pass[p].pc = "idle"
    /\ \E leads \in BOOLEAN : TryAcquire(p, leads) /\ Goto(p, "list", {}, NoJob, {})
    /\ UNCHANGED <<jobs, runs, clock, faults, late>>

\* The ticker fires.
Elect(p) ==
    /\ up[p]
    /\ pass[p].pc = "idle"
    /\ \E leads \in BOOLEAN :
          /\ TryAcquire(p, leads)
          /\ Goto(p, IF leads THEN "list" ELSE "idle", {}, NoJob, {})
    /\ UNCHANGED <<jobs, runs, clock, faults, late>>

ElectFails(p) ==
    /\ up[p]
    /\ pass[p].pc = "idle"
    /\ Fault
    /\ TryAcquireFails(p)
    /\ UNCHANGED <<jobs, runs, clock, pass, late>>

ListJobs(p) ==
    /\ pass[p].pc = "list"
    /\ \E page \in Pages :
          pass' = [pass EXCEPT ![p] = [pc |-> "scan", todo |-> page, job |-> NoJob,
                                       deps |-> {}, now |-> clock]]
    /\ UNCHANGED <<elector, jobs, runs, clock, faults, late>>

\* Mutant of CheckActive: the answer of HasActiveRun is not looked at.
CheckActiveBlind(p) ==
    /\ pass[p].pc = "scan"
    /\ \E j \in pass[p].todo :
          /\ \A k \in pass[p].todo : jobs[k].created_at <= jobs[j].created_at
          /\ Goto(p, "latest", pass[p].todo \ {j}, j, {})
    /\ UNCHANGED <<elector, jobs, runs, clock, faults, late>>

\* Newest first; a job with an active run is skipped.
CheckActive(p) ==
    /\ pass[p].pc = "scan"
    /\ \E j \in pass[p].todo :
          /\ \A k \in pass[p].todo : jobs[k].created_at <= jobs[j].created_at
          /\ IF HasActiveRun(j)
             THEN Goto(p, "scan", pass[p].todo \ {j}, NoJob, {})
             ELSE Goto(p, "latest", pass[p].todo \ {j}, j, {})
    /\ UNCHANGED <<elector, jobs, runs, clock, faults, late>>

\* job_dependencies of a job are written with the job and never change, so
\* ListDependencies needs no step of its own.
CheckDue(p) ==
    LET j == pass[p].job IN
    /\ pass[p].pc = "latest"
    /\ IF NextRunDue(j, pass[p].now)
       THEN Goto(p, IF Deps[j] = {} THEN "create" ELSE "deps",
                 pass[p].todo, j, Deps[j])
       ELSE Continue(p)
    /\ UNCHANGED <<elector, jobs, runs, clock, faults, late>>

\* Mutant of CheckDependency: a dependency need only have come to an end.
CheckDependencyEnded(p) ==
    /\ pass[p].pc = "deps"
    /\ \E d \in pass[p].deps :
          IF runs[d] # <<>> /\ ~HasActiveRun(d)
          THEN Goto(p, IF pass[p].deps = {d} THEN "create" ELSE "deps",
                    pass[p].todo, pass[p].job, pass[p].deps \ {d})
          ELSE Continue(p)
    /\ UNCHANGED <<elector, jobs, runs, clock, faults, late>>

CheckDependency(p) ==
    /\ pass[p].pc = "deps"
    /\ \E d \in pass[p].deps :
          IF Succeeded(d)
          THEN Goto(p, IF pass[p].deps = {d} THEN "create" ELSE "deps",
                    pass[p].todo, pass[p].job, pass[p].deps \ {d})
          ELSE Continue(p)
    /\ UNCHANGED <<elector, jobs, runs, clock, faults, late>>

\* Mutant of CreateRun: scheduled for the tick after the pass.
CreateRunAhead(p) ==
    LET j == pass[p].job IN
    /\ pass[p].pc = "create"
    /\ runs' = [runs EXCEPT ![j] =
                  Append(@, [status |-> "active", scheduled_at |-> pass[p].now + 1,
                             fired |-> pass[p].now + 1])]
    /\ late' = [late EXCEPT ![j] = IF jobs[j].status = "paused" THEN @ + 1 ELSE @]
    /\ Continue(p)
    /\ UNCHANGED <<elector, jobs, clock, faults>>

\* The INSERT.  Whether its answer arrives makes no difference to the pass.
CreateRun(p) ==
    LET j == pass[p].job IN
    /\ pass[p].pc = "create"
    /\ runs' = [runs EXCEPT ![j] =
                  Append(@, [status |-> "active", scheduled_at |-> pass[p].now,
                             fired |-> pass[p].now])]
    /\ late' = [late EXCEPT ![j] = IF jobs[j].status = "paused" THEN @ + 1 ELSE @]
    /\ Continue(p)
    /\ UNCHANGED <<elector, jobs, clock, faults>>

\* A failed call ends the pass in ListJobs, and gives up one job elsewhere.
CallFails(p) ==
    /\ pass[p].pc # "idle"
    /\ Fault
    /\ \/ pass[p].pc = "list" /\ EndPass(p)
       \/ /\ pass[p].pc = "scan"
          /\ \E j \in pass[p].todo :
               Goto(p, "scan", pass[p].todo \ {j}, NoJob, {})
       \/ pass[p].pc \in {"latest", "deps", "create"} /\ Continue(p)
    /\ UNCHANGED <<elector, jobs, runs, clock, late>>

Finish(p) ==
    /\ pass[p].pc = "scan"
    /\ pass[p].todo = {}
    /\ EndPass(p)
    /\ UNCHANGED <<elector, jobs, runs, clock, faults, late>>

\* The rest of a pass whose context is cancelled changes nothing.
Stop(p) ==
    /\ Fault
    /\ StopReplica(p)
    /\ EndPass(p)
    /\ UNCHANGED <<jobs, runs, clock, late>>

Start(p) ==
    /\ StartReplica(p)
    /\ UNCHANGED schedule

Drop(p) == DropConn(p) /\ UNCHANGED schedule

EndSession == SessionEnds /\ UNCHANGED schedule

-----------------------------------------------------------------------------
(* The API, the workers and time                                           *)

\* depends_on refers to jobs that exist: a foreign key.
CreateJob(j) ==
    /\ jobs[j].status = "absent"
    /\ \A d \in Deps[j] : jobs[d].status # "absent"
    /\ jobs' = [jobs EXCEPT ![j] = [status |-> "active", created_at |-> clock]]
    /\ UNCHANGED <<elector, runs, clock, pass, faults, late>>

PauseJob(j) ==
    /\ jobs[j].status = "active"
    /\ jobs' = [jobs EXCEPT ![j] = [@ EXCEPT !.status = "paused"]]
    /\ UNCHANGED <<elector, runs, clock, pass, faults, late>>

ResumeJob(j) ==
    /\ jobs[j].status = "paused"
    /\ jobs' = [jobs EXCEPT ![j] = [@ EXCEPT !.status = "active"]]
    /\ late' = [late EXCEPT ![j] = 0]
    /\ UNCHANGED <<elector, runs, clock, pass, faults>>

\* A worker writes to run i of j.
SetRun(j, i, row) == runs' = [runs EXCEPT ![j] = [runs[j] EXCEPT ![i] = row]]

\* A worker ends an active run.
RunEnds(j) ==
    /\ \E i \in ActiveRuns(j), st \in {"succeeded", "failed"} :
          SetRun(j, i, [status |-> st, scheduled_at |-> runs[j][i].scheduled_at,
                        fired |-> runs[j][i].fired])
    /\ UNCHANGED <<elector, jobs, clock, pass, faults, late>>

\* A worker requeues an active run: its scheduled_at moves.
RunRequeued(j) ==
    /\ \E i \in ActiveRuns(j) :
          SetRun(j, i, [status |-> "active", scheduled_at |-> clock + RetryDelay,
                        fired |-> runs[j][i].fired])
    /\ UNCHANGED <<elector, jobs, clock, pass, faults, late>>

Tick ==
    /\ clock < MaxTime
    /\ clock' = clock + 1
    /\ UNCHANGED <<elector, jobs, runs, pass, faults, late>>

-----------------------------------------------------------------------------
PromoteOnce(p) ==
    \/ ListJobs(p) \/ CheckActive(p) \/ CheckDue(p) \/ CheckDependency(p)
    \/ CreateRun(p) \/ CallFails(p) \/ Finish(p)

Next ==
    \/ \E p \in Replica :
         \/ Elect(p) \/ ElectFails(p) \/ PromoteOnce(p)
         \/ Stop(p) \/ Start(p) \/ Drop(p)
    \/ EndSession
    \/ \E j \in Job :
         \/ CreateJob(j) \/ PauseJob(j) \/ ResumeJob(j)
         \/ RunEnds(j) \/ RunRequeued(j)
    \/ Tick

Spec == Init /\ [][Next]_vars

(***************************************************************************)
(* Fairness: the ticker of Run fires for ever and a pass runs to its end;  *)
(* a stopped replica is restarted by its deployment; the server ends the   *)
(* sessions of clients that are gone.  Nothing is assumed of clients,      *)
(* workers, time or faults, and faults are finitely many.                  *)
(***************************************************************************)
Fairness ==
    /\ \A p \in Replica :
          WF_vars(Elect(p)) /\ WF_vars(PromoteOnce(p)) /\ WF_vars(Start(p))
    /\ WF_vars(EndSession)

FairSpec == Spec /\ Fairness

-----------------------------------------------------------------------------
\* A replica that remembers its leadership over a live connection has the
\* lock, and until a connection is lost no two replicas are in a pass at the
\* same time, whatever stops, failed calls and restarts do (TryAcquire, Run).
LeadershipExclusive ==
    /\ \A p \in Replica : isLeader[p] /\ conn[p] = "open" => lock = p
    /\ drops = 0 =>
          \A p, q \in Replica :
             pass[p].pc # "idle" /\ pass[q].pc # "idle" => p = q

\* A job has at most one active run, and at most one more for every elector
\* connection that was lost: a replica that lost the lock in the middle of a
\* pass is the only way to promote twice (Run, PromoteOnce, HasActiveRun).
DoubleFireBudget ==
    \A j \in Job : Cardinality(ActiveRuns(j)) <= 1 + drops

\* A one-shot job fires once, with the same allowance (NextRunDue).
OneShotBudget ==
    \A j \in Job : Cron[j] = 0 => Len(runs[j]) <= 1 + drops

\* A recurring job fires at most once per period of its schedule as long as no
\* leader was cut off, whatever retries did to scheduled_at (NextRunDue).
FiresApart ==
    \A j \in Job : drops = 0 /\ Cron[j] > 0 =>
       \A i \in 1 .. Len(runs[j]) - 1 :
          NextFire(Cron[j], runs[j][i].fired) <= runs[j][i + 1].fired

\* No run exists whose job has a dependency that never succeeded, even with
\* several leaders and with reads as old as a pass is long
\* (DependenciesSatisfied).
DependenciesFirst ==
    \A j \in Job : runs[j] # <<>> =>
       \A d \in Deps[j] : \E i \in 1 .. Len(runs[d]) : runs[d][i].status = "succeeded"

\* A paused job gets at most the run of a pass that listed it before, one per
\* leader there can be (ListJobs, UpdateJobStatus).
PauseSlack == \A j \in Job : late[j] <= 1 + drops

\* j is active, due, without an active run, its dependencies succeeded.
Promotable(j) ==
    /\ jobs[j].status = "active"
    /\ ~HasActiveRun(j)
    /\ NextRunDue(j, clock)
    /\ \A d \in Deps[j] : Succeeded(d)

\* No promotable job is forgotten, across failed calls, crashes of the leader
\* and lost connections: leadership passes on (Run, TryAcquire).
PromotableIsPromoted == \A j \in Job : Promotable(j) ~> ~Promotable(j)

-----------------------------------------------------------------------------
\* "promotion must not double-fire" (internal/lock/lock.go:3): no job has two
\* active runs.  See the findings of README.md.
NoDoubleFire == \A j \in Job : Cardinality(ActiveRuns(j)) <= 1
=============================================================================
