------------------------------- MODULE Taskflow -------------------------------
(***************************************************************************)
(* The schedulers and the workers on one database.  The promoter's view of *)
(* a job's runs is a query over job_runs, the INSERT of CreateRun is the   *)
(* only step both sides take part in, and time passes for both.  What      *)
(* Promoter assumes of workers (RunEnds, RunRequeued) is here what         *)
(* WorkerPool does.  A run is its job and its number.                      *)
(***************************************************************************)
EXTENDS WorkerPool, FiniteSets, Sequences

CONSTANTS
    Replica, FREE, DETACHED, DropLimit,                         \* Elector
    Job, NoJob, Deps, Cron, ListLimit, RetryDelay, MaxTime,     \* Promoter
    SchedulerFaults,
    RunLimit,       \* bound: runs of a job
    Disturbances    \* bound: faults of both sides together

\* The workers' runs are the promoter's, a requeued run is due when the promoter
\* thinks it is, and overdue runs are told apart for as long as the clock runs.
ASSUME SystemAssumption ==
    /\ RunLimit \in Nat /\ Run = Job \X (1 .. RunLimit)
    /\ RetryDelay \in Nat /\ \A a \in 1 .. MaxSmallint : Backoff[a] = RetryDelay
    /\ MaxTime \in Nat /\ MaxTime <= MaxAge

VARIABLES
    replicaUp, conn, isLeader, lock, drops,     \* Elector
    jobs, clock, pass, lostCalls, late,         \* Promoter, but for runs
    planned,        \* planned[r]: scheduled_at of r on the promoter's clock
    fired           \* history: fired[r]: planned[r] as CreateRun wrote it

\* job_runs as HasActiveRun and LatestRunForJob see it.
SeenAs(st) ==
    CASE st \in {"pending", "leased", "running"} -> "active"
      [] st \in {"failed", "dead"} -> "failed"
      [] OTHER -> st

Shown(r) ==
    [status |-> SeenAs(job_runs[r].status), scheduled_at |-> planned[r], fired |-> fired[r]]

Count(j) == Cardinality({i \in 1 .. RunLimit : job_runs[<<j, i>>].status # "absent"})

Runs == [j \in Job |-> [i \in 1 .. Count(j) |-> Shown(<<j, i>>)]]

P == INSTANCE Promoter WITH
    up <- replicaUp, runs <- Runs, faults <- lostCalls, FaultLimit <- SchedulerFaults

schedulers == <<replicaUp, conn, isLeader, lock, drops, jobs, pass, lostCalls, late>>
system == <<schedulers, vars, clock, planned, fired>>

SystemInit ==
    /\ Init
    /\ clock = 0
    /\ planned = [r \in Run |-> 0] /\ fired = planned
    /\ P!Init

-----------------------------------------------------------------------------
\* The run the promoter inserts is one the workers find.
InsertRun(p) ==
    LET j == pass[p].job
        r == <<j, Count(j) + 1>>
    IN  /\ pass[p].pc = "create"
        /\ r \in Run
        /\ Promote(r, pass[p].now - clock)
        /\ planned' = [planned EXCEPT ![r] = pass[p].now]
        /\ fired' = [fired EXCEPT ![r] = pass[p].now]
        /\ UNCHANGED clock
        /\ P!CreateRun(p)

\* Steps of the schedulers and of the API leave the workers alone, and steps of
\* the workers leave them alone, but for what Runs shows.
Apart == UNCHANGED <<vars, clock, planned, fired>>
Below ==
    /\ planned' = [r \in Run |->
         IF job_runs'[r].scheduled_at = job_runs[r].scheduled_at THEN planned[r]
         ELSE clock + job_runs'[r].scheduled_at]
    /\ UNCHANGED <<schedulers, clock, fired>>

Elect(p) == Apart /\ P!Elect(p)
StartReplica(p) == Apart /\ P!Start(p)

PromoteOnce(p) ==
    \/ InsertRun(p)
    \/ /\ Apart
       /\ \/ P!ListJobs(p) \/ P!CheckActive(p) \/ P!CheckDue(p) \/ P!CheckDependency(p)
          \/ P!CallFails(p) \/ P!Finish(p)

Disturb(p) == Apart /\ (P!ElectFails(p) \/ P!Stop(p) \/ P!Drop(p))

EndSession == Apart /\ P!EndSession

Api(j) == Apart /\ (P!CreateJob(j) \/ P!PauseJob(j) \/ P!ResumeJob(j))

Work(s) == (LeaseLoop(s) \/ ExecuteOne(s)) /\ Below
Recover(w) == (Janitor(w) \/ Start(w)) /\ Below
StopWorker(w) == Stop(w) /\ Below

\* Time passes for both, workers being as prompt as in TimelySpec of WorkerPool;
\* and for the workers alone once the promoter's clock is at its bound.
SystemTick == PromptTick /\ UNCHANGED <<planned, fired>> /\ P!Tick
LongTick == clock = MaxTime /\ PromptTick /\ UNCHANGED <<schedulers, clock, planned, fired>>

SystemStep ==
    \/ \E p \in Replica : Elect(p) \/ PromoteOnce(p) \/ StartReplica(p) \/ Disturb(p)
    \/ EndSession
    \/ \E j \in Job : Api(j)
    \/ \E s \in Slot : Work(s)
    \/ \E w \in Worker : Recover(w) \/ StopWorker(w)

SystemNext ==
    /\ SystemStep \/ SystemTick \/ LongTick
    /\ drops' + lostCalls' + faults' <= Disturbances

SystemSpec == SystemInit /\ [][SystemNext]_system

\* What WorkerPool and Promoter assume, together.
SystemFairSpec ==
    /\ SystemSpec
    /\ \A p \in Replica : WF_system(Elect(p) \/ StartReplica(p)) /\ WF_system(PromoteOnce(p))
    /\ WF_system(EndSession)
    /\ \A s \in Slot : WF_system(Work(s))
    /\ \A w \in Worker : WF_system(Recover(w))
    /\ WF_system(SystemTick \/ LongTick)

-----------------------------------------------------------------------------
\* With timely workers the system is the one that Promoter describes: what is
\* shown there of fires, pauses and dependencies holds of the real workers.
ImplementsPromoter == P!Spec

Queued(j) == \E i \in 1 .. RunLimit : job_runs[<<j, i>>].status \in {"pending", "leased", "running"}
Ended(j) == \E i \in 1 .. RunLimit : job_runs[<<j, i>>].status \in {"succeeded", "failed", "dead"}

\* Every job that can be promoted is promoted, unless it is paused first, and
\* every run, of a paused job too, comes to an end: across a lost leader, a
\* stopped worker, failed calls and retries.
PromotableIsRun ==
    \A j \in Job :
       P!Promotable(j) \/ Queued(j) ~> ~Queued(j) /\ (jobs[j].status = "paused" \/ Ended(j))
=============================================================================
