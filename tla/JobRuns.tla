------------------------------ MODULE JobRuns ------------------------------
(***************************************************************************)
(* The tables job_runs and dead_letters (migrations/0001_init.sql) and the *)
(* statements internal/store/postgres.go runs against them.  One operator  *)
(* per store method that writes; callers (WorkerPool, the promoter) supply *)
(* the guards their own code has.                                          *)
(*                                                                         *)
(* Times are kept relative to now(): scheduled_at and lease_expires_at are *)
(* "column value minus now()", so that the passing of time is the single   *)
(* operator Aged and there is no clock to bound.                           *)
(*                                                                         *)
(* leased_by and leased_at are written exactly when lease_expires_at is    *)
(* and no statement of a running binary reads them (ExtendLease, the only  *)
(* reader of leased_by, has no caller), so lease_expires_at stands for the *)
(* three.  result, error and payload are data no statement branches on.    *)
(***************************************************************************)
EXTENDS Integers

CONSTANTS
    Run,            \* the ids of the rows that may come to exist
    NULL,           \* SQL NULL
    Priority,       \* Priority[r]: priority CreateRun copied from r's job
    MaxAttempts,    \* MaxAttempts[r]: max_attempts of r's job
    LeaseDuration,  \* LEASE_DURATION in ticks
    MaxSmallint,    \* largest value of the SMALLINT column attempt
    MaxAge          \* bound: runs overdue by MaxAge ticks or more are tied

ASSUME NullAssumption == NULL \notin Int /\ NULL \notin Run

ASSUME LimitAssumption ==
    /\ MaxSmallint \in Nat \ {0}
    /\ LeaseDuration \in Nat
    /\ MaxAge \in Nat

\* createJob refuses max_attempts < 1; the column is a SMALLINT.
ASSUME JobAssumption ==
    /\ Priority \in [Run -> Int]
    /\ MaxAttempts \in [Run -> 1 .. MaxSmallint]

VARIABLES
    job_runs,       \* job_runs[r]: row r; status "absent" before the INSERT
    dead_letters    \* dead_letters[r]: number of dead_letters rows of run r

tables == <<job_runs, dead_letters>>

RunStatus ==
    {"absent", "pending", "leased", "running", "succeeded", "failed", "dead"}

Row == [status: RunStatus, attempt: 0 .. MaxSmallint,
        scheduled_at: Int, lease_expires_at: Int \cup {NULL}]

NoRow == [status |-> "absent", attempt |-> 0,
          scheduled_at |-> 0, lease_expires_at |-> NULL]

TablesTypeOK ==
    /\ job_runs \in [Run -> Row]
    /\ dead_letters \in [Run -> Nat]

TablesInit ==
    /\ job_runs = [r \in Run |-> NoRow]
    /\ dead_letters = [r \in Run |-> 0]

-----------------------------------------------------------------------------
(* Predicates of the WHERE clauses.                                        *)

\* WHERE status = 'pending' AND scheduled_at <= now()
Due(r) == job_runs[r].status = "pending" /\ job_runs[r].scheduled_at <= 0

\* ORDER BY priority DESC, scheduled_at ASC
NotAfter(r, q) ==
    \/ Priority[r] > Priority[q]
    \/ /\ Priority[r] = Priority[q]
       /\ job_runs[r].scheduled_at <= job_runs[q].scheduled_at

\* Mutants of LeaseExpired: the status is not asked for; the time is not;
\* one of the two statuses is forgotten.
LeaseExpiredAnyStatus(r) ==
    job_runs[r].lease_expires_at # NULL /\ job_runs[r].lease_expires_at < 0
LeaseExpiredAnyTime(r) ==
    /\ job_runs[r].status \in {"leased", "running"}
    /\ job_runs[r].lease_expires_at # NULL
LeaseExpiredNotRunning(r) ==
    LeaseExpiredAnyStatus(r) /\ job_runs[r].status = "leased"
LeaseExpiredNotLeased(r) ==
    LeaseExpiredAnyStatus(r) /\ job_runs[r].status = "running"

\* WHERE status IN ('leased', 'running') AND lease_expires_at < now()
\* (the comparison with a NULL lease_expires_at is not true).
LeaseExpired(r) ==
    /\ job_runs[r].status \in {"leased", "running"}
    /\ job_runs[r].lease_expires_at # NULL
    /\ job_runs[r].lease_expires_at < 0

\* status IN ('pending','leased','running'), as HasActiveRun asks
Active(r) == job_runs[r].status \in {"pending", "leased", "running"}

-----------------------------------------------------------------------------
(* The statements that write.                                              *)

CreateRun(r, at) ==
    /\ job_runs[r].status = "absent"
    /\ job_runs' = [job_runs EXCEPT
                      ![r] = [status |-> "pending", attempt |-> 0,
                              scheduled_at |-> at, lease_expires_at |-> NULL]]
    /\ UNCHANGED dead_letters

\* Mutants of TakeLease: attempt is not incremented; the lease gets no end.
TakeLeaseSameAttempt(r) ==
    /\ job_runs' = [job_runs EXCEPT
                      ![r] = [@ EXCEPT !.status = "leased",
                                       !.lease_expires_at = LeaseDuration]]
    /\ UNCHANGED dead_letters
TakeLeaseForEver(r) ==
    /\ job_runs' = [job_runs EXCEPT
                      ![r] = [@ EXCEPT !.status = "leased",
                                       !.attempt = job_runs[r].attempt + 1]]
    /\ UNCHANGED dead_letters

\* The UPDATE of LeaseNextRun.
TakeLease(r) ==
    /\ job_runs' = [job_runs EXCEPT
                      ![r] = [@ EXCEPT !.status = "leased",
                                       !.attempt = job_runs[r].attempt + 1,
                                       !.lease_expires_at = LeaseDuration]]
    /\ UNCHANGED dead_letters

\* Neither this UPDATE nor the next four look at the status, the attempt or
\* the owner the row has when they reach it.
MarkRunning(r) ==
    /\ job_runs' = [job_runs EXCEPT ![r].status = "running"]
    /\ UNCHANGED dead_letters

CompleteRun(r) ==
    /\ job_runs' = [job_runs EXCEPT ![r].status = "succeeded"]
    /\ UNCHANGED dead_letters

\* FailRun with requeue = true
RequeueRun(r, backoff) ==
    /\ job_runs' = [job_runs EXCEPT
                      ![r] = [@ EXCEPT !.status = "pending",
                                       !.scheduled_at = backoff,
                                       !.lease_expires_at = NULL]]
    /\ UNCHANGED dead_letters

\* FailRun with requeue = false
FailRun(r) ==
    /\ job_runs' = [job_runs EXCEPT ![r].status = "failed"]
    /\ UNCHANGED dead_letters

\* One transaction: the letter and the status.
MarkDead(r) ==
    /\ job_runs' = [job_runs EXCEPT ![r].status = "dead"]
    /\ dead_letters' = [dead_letters EXCEPT ![r] = @ + 1]

\* One statement over every expired row; scheduled_at and attempt stay.
ReclaimExpiredLeases ==
    /\ job_runs' = [r \in Run |->
                      IF LeaseExpired(r)
                      THEN [job_runs[r] EXCEPT !.status = "pending",
                                               !.lease_expires_at = NULL]
                      ELSE job_runs[r]]
    /\ UNCHANGED dead_letters

-----------------------------------------------------------------------------
(* now() moves one tick: the distance of a time column to it shrinks by    *)
(* one.  Past distances saturate: an expired lease at -1, since only       *)
(* "< now()" is asked of it, an overdue run at -MaxAge.                    *)

Aged(row) ==
    IF row.status = "absent" THEN row
    ELSE [row EXCEPT
            !.scheduled_at = IF @ > -MaxAge THEN @ - 1 ELSE @,
            !.lease_expires_at = IF @ = NULL \/ @ = -1 THEN @ ELSE @ - 1]

=============================================================================
