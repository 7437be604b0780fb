------------------------------ MODULE Migrations ------------------------------
(***************************************************************************)
(* RunMigrations (internal/store/migrate.go), which every process of every *)
(* service runs before it serves: under a session-level advisory lock it   *)
(* creates schema_migrations and applies, in order, the files that are not *)
(* recorded there.  A step is one statement.  A process whose call fails   *)
(* exits (main) and is started again; a process that dies leaves its       *)
(* session, and perhaps a COMMIT, behind on the server for a while.        *)
(***************************************************************************)
EXTENDS Integers, Sequences

CONSTANTS
    Process,        \* processes that start against one database
    Files,          \* Files[p]: versions in the migrations directory of p
    FREE, DETACHED, \* nobody / a session without its process holds the lock
    FaultLimit      \* bound: crashes and failed calls in a behaviour

ASSUME MigrationsAssumption ==
    /\ Files \in [Process -> SUBSET Nat]
    /\ FREE \notin Process /\ DETACHED \notin Process /\ FREE # DETACHED
    /\ FaultLimit \in Nat

VARIABLES
    pc,             \* pc[p]: the statement p is about to make
    todo,           \* todo[p]: versions its loop has not dealt with
    lock,           \* holder of pg_advisory_lock(migrationLockKey)
    table,          \* schema_migrations exists
    applied,        \* versions recorded in it
    inflight,       \* versions whose COMMIT the detached session has received
    faults,         \* crashes and failed calls so far
    log,            \* history: bodies that took effect, in order
    collided        \* history: a statement failed with a duplicate key

vars == <<pc, todo, lock, table, applied, inflight, faults, log, collided>>

Version == UNION {Files[p] : p \in Process}

Locked == {"table", "create", "check", "apply", "unlock"}

\* The type of every variable: log and inflight hold versions of the directories.
TypeOK ==
    /\ pc \in [Process -> {"down", "lock", "serving"} \cup Locked]
    /\ todo \in [Process -> SUBSET Version]
    /\ lock \in Process \cup {FREE, DETACHED}
    /\ table \in BOOLEAN
    /\ applied \subseteq Version
    /\ inflight \subseteq Version
    /\ faults \in 0 .. FaultLimit
    /\ log \in Seq(Version)
    /\ collided \in BOOLEAN

Init ==
    /\ pc = [p \in Process |-> "down"]
    /\ todo = [p \in Process |-> {}]
    /\ lock = FREE
    /\ table = FALSE
    /\ applied = {}
    /\ inflight = {}
    /\ faults = 0
    /\ log = <<>>
    /\ collided = FALSE

database == <<table, applied, log>>

\* The version the loop is at: the least one left (sort.Strings).
Current(p) == {v \in todo[p] : \A u \in todo[p] : v <= u}

Fault == faults < FaultLimit /\ faults' = faults + 1

\* main: the first thing a process does is RunMigrations.
Start(p) ==
    /\ pc[p] = "down"
    /\ pc' = [pc EXCEPT ![p] = "lock"]
    /\ todo' = [todo EXCEPT ![p] = Files[p]]
    /\ UNCHANGED <<lock, database, inflight, faults, collided>>

\* Mutant of AcquireLock: the code as it was before the lock.
AcquireLockUnguarded(p) ==
    /\ pc[p] = "lock"
    /\ lock' = p
    /\ pc' = [pc EXCEPT ![p] = "table"]
    /\ UNCHANGED <<todo, database, inflight, faults, collided>>

\* SELECT pg_advisory_lock: waits until the lock is free.
AcquireLock(p) ==
    /\ pc[p] = "lock"
    /\ lock = FREE
    /\ lock' = p
    /\ pc' = [pc EXCEPT ![p] = "table"]
    /\ UNCHANGED <<todo, database, inflight, faults, collided>>

\* RunMigrations returns an error: the deferred unlock runs, main exits.
ReturnError(p) ==
    /\ pc' = [pc EXCEPT ![p] = "down"]
    /\ lock' = IF lock = p THEN FREE ELSE lock
    /\ UNCHANGED <<todo, inflight>>

\* CREATE TABLE IF NOT EXISTS looks the name up ...
LookUpTable(p) ==
    /\ pc[p] = "table"
    /\ pc' = [pc EXCEPT ![p] = IF table THEN "check" ELSE "create"]
    /\ UNCHANGED <<todo, lock, database, inflight, faults, collided>>

\* ... and inserts it into the catalogue, unless another session was faster.
CreateTable(p) ==
    /\ pc[p] = "create"
    /\ IF table
         THEN collided' = TRUE /\ ReturnError(p) /\ UNCHANGED database
         ELSE /\ table' = TRUE
              /\ pc' = [pc EXCEPT ![p] = "check"]
              /\ UNCHANGED <<todo, lock, applied, log, inflight, collided>>
    /\ UNCHANGED faults

\* Mutant of Check: the directory is not sorted.
CheckUnsorted(p) ==
    /\ pc[p] = "check"
    /\ IF todo[p] = {}
         THEN pc' = [pc EXCEPT ![p] = "unlock"] /\ UNCHANGED todo
         ELSE \E v \in todo[p] :
                IF v \in applied
                  THEN todo' = [todo EXCEPT ![p] = @ \ {v}] /\ UNCHANGED pc
                  ELSE pc' = [pc EXCEPT ![p] = "apply"] /\ todo' = [todo EXCEPT ![p] = {v}]
    /\ UNCHANGED <<lock, database, inflight, faults, collided>>

\* SELECT EXISTS for the current version: skip it, or go on to apply it.
Check(p) ==
    /\ pc[p] = "check"
    /\ IF todo[p] = {}
         THEN pc' = [pc EXCEPT ![p] = "unlock"] /\ UNCHANGED todo
         ELSE \E v \in Current(p) :
                IF v \in applied
                  THEN todo' = [todo EXCEPT ![p] = @ \ {v}] /\ UNCHANGED pc
                  ELSE pc' = [pc EXCEPT ![p] = "apply"] /\ UNCHANGED todo
    /\ UNCHANGED <<lock, database, inflight, faults, collided>>

\* The transaction of version v takes effect: its body and its row.
Takes(v) ==
    /\ applied' = applied \cup {v}
    /\ log' = Append(log, v)

\* Mutant of Apply: the body runs outside the transaction that records it.
ApplyUnrecorded(p) ==
    /\ pc[p] = "apply"
    /\ \E v \in Current(p) :
         \/ /\ Takes(v)
            /\ pc' = [pc EXCEPT ![p] = "check"]
            /\ todo' = [todo EXCEPT ![p] = @ \ {v}]
            /\ UNCHANGED <<lock, inflight, collided, faults>>
         \/ /\ Fault
            /\ log' = Append(log, v)
            /\ ReturnError(p) /\ UNCHANGED <<applied, collided>>
    /\ UNCHANGED table

\* BEGIN, body, INSERT of the version, COMMIT.
Apply(p) ==
    /\ pc[p] = "apply"
    /\ \E v \in Current(p) :
         IF v \in applied
           THEN collided' = TRUE /\ ReturnError(p) /\ UNCHANGED <<applied, log>>
           ELSE /\ Takes(v)
                /\ pc' = [pc EXCEPT ![p] = "check"]
                /\ todo' = [todo EXCEPT ![p] = @ \ {v}]
                /\ UNCHANGED <<lock, inflight, collided>>
    /\ UNCHANGED <<table, faults>>

\* Mutant of Unlock: the connection goes back to the pool with the lock.
UnlockForgotten(p) ==
    /\ pc[p] = "unlock"
    /\ pc' = [pc EXCEPT ![p] = "serving"]
    /\ UNCHANGED <<todo, lock, database, inflight, faults, collided>>

\* The deferred pg_advisory_unlock, and then main serves.
Unlock(p) ==
    /\ pc[p] = "unlock"
    /\ lock' = FREE
    /\ pc' = [pc EXCEPT ![p] = "serving"]
    /\ UNCHANGED <<todo, database, inflight, faults, collided>>

\* Mutant of Fail: the error is logged and the process serves.
FailLogged(p) ==
    /\ pc[p] \in {"lock", "table", "create", "check", "apply"}
    /\ Fault
    /\ pc' = [pc EXCEPT ![p] = "serving"]
    /\ lock' = IF lock = p THEN FREE ELSE lock
    /\ UNCHANGED <<todo, inflight, database, collided>>

\* A call fails without effect and its connection survives.
Fail(p) ==
    /\ pc[p] \in {"lock", "table", "create", "check", "apply"}
    /\ Fault
    /\ ReturnError(p)
    /\ UNCHANGED <<database, collided>>

\* The connection of p breaks or p is killed: its session stays until the
\* server notices, with the COMMIT it may have received.
Detach(p) ==
    /\ IF lock = p
         THEN /\ lock' = DETACHED
              /\ inflight' = IF pc[p] = "apply" THEN Current(p) ELSE {}
         ELSE UNCHANGED <<lock, inflight>>
    /\ UNCHANGED <<todo, database, collided>>

Crash(p) ==
    /\ pc[p] # "down"
    /\ Fault
    /\ pc' = [pc EXCEPT ![p] = "down"]
    /\ Detach(p)

\* The error of the deferred unlock is ignored: p serves all the same.
UnlockLost(p) ==
    /\ pc[p] = "unlock"
    /\ Fault
    /\ pc' = [pc EXCEPT ![p] = "serving"]
    /\ Detach(p)

\* The server ends the detached session: its COMMIT took effect, or it is
\* rolled back; then its locks are released.
SessionEnds ==
    /\ lock = DETACHED
    /\ lock' = FREE
    /\ inflight' = {}
    /\ \/ UNCHANGED <<applied, log>>
       \/ \E v \in inflight : Takes(v)
    /\ UNCHANGED <<pc, todo, table, faults, collided>>

Step(p) ==
    \/ Start(p) \/ AcquireLock(p) \/ LookUpTable(p) \/ CreateTable(p)
    \/ Check(p) \/ Apply(p) \/ Unlock(p)

Next ==
    \/ \E p \in Process : Step(p) \/ Fail(p) \/ Crash(p) \/ UnlockLost(p)
    \/ SessionEnds

Spec == Init /\ [][Next]_vars

\* Deployments restart processes, calls return and the server ends sessions
\* that lost their client.
FairSpec == Spec /\ WF_vars(SessionEnds) /\ \A p \in Process : WF_vars(Step(p))

-----------------------------------------------------------------------------
\* Body and row of a version come together and once, whatever process dies
\* between whichever statements (RunMigrations).
ExactlyOnce ==
    /\ \A v \in Version : v \in applied <=> \E i \in 1 .. Len(log) : log[i] = v
    /\ \A i, j \in 1 .. Len(log) : log[i] = log[j] => i = j

\* "Safe to call on every process start - including multiple replicas of the
\* same service starting concurrently" (internal/store/migrate.go:21): no
\* statement ever meets another process's row or table.
NoCollision == ~collided

\* A version is applied on top of all earlier ones of the directory it comes
\* from, also when processes with different directories take turns.
InOrder ==
    \A i \in 1 .. Len(log) : \E p \in Process :
       /\ log[i] \in Files[p]
       /\ \A v \in Files[p] : v < log[i] => \E k \in 1 .. i - 1 : log[k] = v

\* A process that serves finds the schema of its own directory in place (main).
ServesMigrated ==
    \A p \in Process : pc[p] = "serving" => Files[p] \subseteq applied

\* Every process gets to serve, however others die holding the lock.
EventuallyServes ==
    \A p \in Process : pc[p] # "serving" ~> pc[p] = "serving"
=============================================================================
