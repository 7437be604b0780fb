------------------------------ MODULE Elector ------------------------------
(***************************************************************************)
(* Leader election of the scheduler replicas (internal/lock): a session-   *)
(* scoped Postgres advisory lock, taken on a dedicated connection that     *)
(* each replica's elector keeps (postgresElector).  What a replica         *)
(* remembers (conn, isLeader) and what the server knows (lock) change at   *)
(* different times: a connection can be lost on either side first.         *)
(***************************************************************************)
EXTENDS Naturals

CONSTANTS
    Replica,        \* scheduler processes
    FREE,           \* value of lock: nobody holds it
    DETACHED,       \* value of lock: a session no elector uses holds it
    DropLimit       \* bound: elector connections lost in a behaviour

ASSUME LockAssumption == {FREE, DETACHED} \cap Replica = {} /\ FREE # DETACHED

ASSUME DropAssumption == DropLimit \in Nat

VARIABLES
    up,             \* up[p]: the process of replica p is running
    conn,           \* e.conn: none, open, or broken and not yet pinged
    isLeader,       \* e.isLeader
    lock,           \* the session holding promotionLockKey: the elector
                    \* connection of a replica, DETACHED or FREE
    drops           \* history: elector connections lost so far

elector == <<up, conn, isLeader, lock, drops>>

ElectorTypeOK ==
    /\ up \in [Replica -> BOOLEAN]
    /\ conn \in [Replica -> {"none", "open", "broken"}]
    /\ isLeader \in [Replica -> BOOLEAN]
    /\ lock \in Replica \cup {FREE, DETACHED}
    /\ drops \in 0 .. DropLimit

ElectorInit ==
    /\ up = [p \in Replica |-> TRUE]
    /\ conn = [p \in Replica |-> "none"]
    /\ isLeader = [p \in Replica |-> FALSE]
    /\ lock = FREE
    /\ drops = 0

\* Mutant of StillLeader: the ping is left out.
StillLeaderUnpinged(p) == isLeader[p]

\* The ping succeeds and the elector remembers its lock.
StillLeader(p) == isLeader[p] /\ conn[p] = "open"

\* TryAcquire returns leads without an error: a missing or broken connection
\* is replaced, its leadership forgotten, and the lock is asked for unless it
\* is remembered.  pg_try_advisory_lock is reentrant.
TryAcquire(p, leads) ==
    /\ leads = (StillLeader(p) \/ lock \in {FREE, p})
    /\ conn' = [conn EXCEPT ![p] = "open"]
    /\ isLeader' = [isLeader EXCEPT ![p] = leads]
    /\ lock' = IF leads /\ ~StillLeader(p) THEN p ELSE lock
    /\ UNCHANGED <<up, drops>>

\* TryAcquire returns an error: no connection is to be had, or the query for
\* the lock fails, possibly after the server granted it.
TryAcquireFails(p) ==
    /\ ~StillLeader(p)
    /\ \/ conn[p] # "open" /\ conn' = [conn EXCEPT ![p] = "none"] /\ UNCHANGED lock
       \/ /\ conn' = [conn EXCEPT ![p] = "broken"]
          /\ lock' \in {lock} \cup (IF lock = FREE THEN {DETACHED} ELSE {})
    /\ isLeader' = [isLeader EXCEPT ![p] = FALSE]
    /\ UNCHANGED <<up, drops>>

\* The elector's connection is lost.  The server ends the session, and with it
\* the lock, at once or later (SessionEnds); the replica learns of it from its
\* next ping.
DropConn(p) ==
    /\ conn[p] = "open"
    /\ drops < DropLimit
    /\ drops' = drops + 1
    /\ conn' = [conn EXCEPT ![p] = "broken"]
    /\ lock' \in IF lock = p THEN {FREE, DETACHED} ELSE {lock}
    /\ UNCHANGED <<up, isLeader>>

\* The server ends a session whose client is gone.
SessionEnds ==
    /\ lock = DETACHED
    /\ lock' = FREE
    /\ UNCHANGED <<up, conn, isLeader, drops>>

\* A crash, or a shutdown.  Run calls Release with the cancelled context, so
\* no unlock is sent: either way the session keeps the lock until it ends.
StopReplica(p) ==
    /\ up[p]
    /\ up' = [up EXCEPT ![p] = FALSE]
    /\ conn' = [conn EXCEPT ![p] = "none"]
    /\ isLeader' = [isLeader EXCEPT ![p] = FALSE]
    /\ lock' = IF lock = p THEN DETACHED ELSE lock
    /\ UNCHANGED drops

StartReplica(p) ==
    /\ ~up[p]
    /\ up' = [up EXCEPT ![p] = TRUE]
    /\ UNCHANGED <<conn, isLeader, lock, drops>>

=============================================================================
