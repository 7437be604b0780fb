------------------------------ MODULE CacheAside ------------------------------
(***************************************************************************)
(* One key of the Redis cache in front of the store (internal/cache), with *)
(* the handlers that use it: GetJob with pause and resume, or GetRun.  The *)
(* n-th commit of wal is version n of the row; version 0 is no row.  Its   *)
(* status tells a job from a run: the two differ in what is SET (Cached)   *)
(* and in who writes, the handlers for a job, the workers, which know of   *)
(* no cache, for a run.  A step is one call to Redis or to the database.   *)
(***************************************************************************)
EXTENDS ReadReplica

CONSTANTS
    Server,         \* API processes, one singleflight group each
    Request,        \* slots for concurrent requests
    Host,           \* Host[r]: the process that serves slot r
    Value,          \* what tells versions apart: the status
    JobStatus,      \* the statuses of jobs; the others are those of runs
    First,          \* statuses of a row as created
    Succ,           \* Succ[x]: statuses a write may change x to
    Cached,         \* statuses that are SET
    TTL,            \* jobTTL or runTTL, in ticks
    Lag,            \* ticks the standby may be behind
    Slow,           \* ticks from a flight's fetch to its SET
    MaxVersion,     \* bound: commits
    FaultLimit      \* bound: failed calls

ASSUME CacheAssumption ==
    /\ Host \in [Request -> Server]
    /\ First \subseteq Value /\ Succ \in [Value -> SUBSET Value]
    /\ JobStatus \subseteq Value /\ Cached \subseteq Value
    /\ TTL \in Nat /\ Lag \in Nat /\ Slow \in Nat /\ MaxVersion \in Nat /\ FaultLimit \in Nat

VARIABLES
    entry,          \* the key in Redis; ttl 0: not there
    flight,         \* flight[s]: the singleflight call of process s
    req,            \* req[r]: where the handler of the request in slot r is
    since,          \* since[n]: ticks since version n was overwritten
    faults,         \* failed calls so far
    answered        \* history: how out of date the latest answer was

vars == <<rows, entry, flight, req, since, faults, answered>>

NoEntry == [version |-> 0, ttl |-> 0]
NoFlight == [state |-> "none", version |-> 0]
Failed == -1        \* the version of a 500 answer

MaxAge == TTL + Lag + Slow + 1     \* ages above this are all alike

\* The type of every variable: whoever holds a version holds a committed one, and
\* no entry outlives TTL.
TypeOK ==
    /\ wal \in Seq(Value) /\ Len(wal) <= MaxVersion
    /\ replayed \in 0 .. Len(wal) /\ replicaPool \in {"nil", "open"}
    /\ entry \in [version: 0 .. Len(wal), ttl: 0 .. TTL]
    /\ flight \in [Server -> [state: {"none", "query", "set"}, version: 0 .. Len(wal)]]
    /\ req \in [Request -> {"idle", "delete", "get", "wait"}]
    /\ since \in [0 .. MaxVersion -> 0 .. MaxAge]
    /\ faults \in 0 .. FaultLimit
    /\ answered \in 0 .. MaxAge

Init ==
    /\ RowsInit
    /\ entry = NoEntry
    /\ flight = [s \in Server |-> NoFlight]
    /\ req = [r \in Request |-> "idle"]
    /\ since = [n \in 0 .. MaxVersion |-> 0]
    /\ faults = 0
    /\ answered = 0

Fault == faults < FaultLimit /\ faults' = faults + 1

\* How long version n has been out of date.
Age(n) == IF n \in 0 .. Len(wal) - 1 THEN since[n] ELSE 0

\* The requests in R are answered with version n.
Answer(R, n) ==
    /\ req' = [r \in Request |-> IF r \in R THEN "idle" ELSE req[r]]
    /\ answered' = Age(n)

-----------------------------------------------------------------------------
(* Writes. *)

\* CreateJob or CreateRun; the cache is not told.
Create ==
    /\ wal = <<>> /\ MaxVersion > 0
    /\ \E x \in First : Commit(x)
    /\ UNCHANGED <<entry, flight, req, since, faults, answered>>

\* A worker or the janitor changes the run.
WorkerWrites ==
    /\ wal # <<>> /\ wal[Len(wal)] \notin JobStatus /\ Len(wal) < MaxVersion
    /\ \E x \in Succ[wal[Len(wal)]] : Commit(x)
    /\ UNCHANGED <<entry, flight, req, since, faults, answered>>

\* updateJobStatus: the UPDATE on the primary; 404 when it finds no row.
Update(r) ==
    /\ req[r] = "idle"
    /\ wal # <<>> => wal[Len(wal)] \in JobStatus
    /\ \/ /\ wal = <<>>
          /\ Answer({r}, 0)
          /\ UNCHANGED <<rows, faults>>
       \/ /\ wal # <<>> /\ Len(wal) < MaxVersion
          /\ \E x \in Succ[wal[Len(wal)]] : Commit(x)
          /\ req' = [req EXCEPT ![r] = "delete"]
          /\ UNCHANGED <<faults, answered>>
       \/ /\ Fault
          /\ Answer({r}, Failed)
          /\ UNCHANGED rows
    /\ UNCHANGED <<entry, flight, since>>

\* DEL; an error is ignored.  The handler goes on to GetJob.
Invalidate(r) ==
    /\ req[r] = "delete"
    /\ req' = [req EXCEPT ![r] = "get"]
    /\ \/ entry' = NoEntry /\ UNCHANGED faults
       \/ Fault /\ UNCHANGED entry
    /\ UNCHANGED <<rows, flight, since, answered>>

-----------------------------------------------------------------------------
(* Reads. *)

\* Mutant of Hit: a hit renews the entry.
HitRenews(r) ==
    /\ entry.ttl > 0
    /\ Answer({r}, entry.version)
    /\ entry' = [entry EXCEPT !.ttl = TTL]
    /\ UNCHANGED <<flight, faults>>

Hit(r) ==
    /\ entry.ttl > 0
    /\ Answer({r}, entry.version)
    /\ UNCHANGED <<entry, flight, faults>>

\* A miss, or a Redis error: start the process's flight or join it.
Miss(r) ==
    /\ \/ entry.ttl = 0 /\ UNCHANGED faults
       \/ entry.ttl > 0 /\ Fault
    /\ req' = [req EXCEPT ![r] = "wait"]
    /\ flight' = IF flight[Host[r]].state # "none" THEN flight
                 ELSE [flight EXCEPT ![Host[r]] = [state |-> "query", version |-> 0]]
    /\ UNCHANGED <<entry, answered>>

\* GetJob or GetRun after an update.
GetAgain(r) ==
    /\ req[r] = "get"
    /\ Hit(r) \/ Miss(r)
    /\ UNCHANGED <<rows, since>>

\* A new GET request.
Get(r) ==
    /\ req[r] = "idle"
    /\ Hit(r) \/ Miss(r)
    /\ UNCHANGED <<rows, since>>

Callers(s) == {r \in Request : Host[r] = s /\ req[r] = "wait"}

\* Mutant of Land: only one of the callers that joined the flight returns.
LandOne(s, n) ==
    /\ flight' = [flight EXCEPT ![s] = NoFlight]
    /\ \E r \in Callers(s) : Answer({r}, n)

\* The flight of s returns n to all callers that joined it.
Land(s, n) ==
    /\ flight' = [flight EXCEPT ![s] = NoFlight]
    /\ Answer(Callers(s), n)

Cacheable(n) == n > 0 /\ wal[n] \in Cached

\* Mutant of Query: what it found is always SET.
QueryCachesAll(s) ==
    /\ flight[s].state = "query"
    /\ \/ /\ Visible = 0
          /\ Land(s, Visible) /\ UNCHANGED faults
       \/ /\ Visible > 0
          /\ flight' = [flight EXCEPT ![s] = [state |-> "set", version |-> Visible]]
          /\ UNCHANGED <<req, faults, answered>>
       \/ Fault /\ Land(s, Failed)
    /\ UNCHANGED <<rows, entry, since>>

\* The fetch of the flight, under the context of the request that started it:
\* no row, or a row that is not to be cached, is returned at once; so is an
\* error.
Query(s) ==
    /\ flight[s].state = "query"
    /\ \/ /\ ~Cacheable(Visible)
          /\ Land(s, Visible) /\ UNCHANGED faults
       \/ /\ Cacheable(Visible)
          /\ flight' = [flight EXCEPT ![s] = [state |-> "set", version |-> Visible]]
          /\ UNCHANGED <<req, faults, answered>>
       \/ Fault /\ Land(s, Failed)
    /\ UNCHANGED <<rows, entry, since>>

\* Mutant of Set: a job is SET with the lifetime of a run.
SetWithRunTTL(s) ==
    /\ flight[s].state = "set"
    /\ entry' = [version |-> flight[s].version, ttl |-> TTL + 1] /\ UNCHANGED faults
    /\ Land(s, flight[s].version)
    /\ UNCHANGED <<rows, since>>

\* SET, its error ignored, and the flight returns.
Set(s) ==
    /\ flight[s].state = "set"
    /\ \/ entry' = [version |-> flight[s].version, ttl |-> TTL] /\ UNCHANGED faults
       \/ Fault /\ UNCHANGED entry
    /\ Land(s, flight[s].version)
    /\ UNCHANGED <<rows, since>>

-----------------------------------------------------------------------------
(* Time and replication. *)

\* Mutant of Tick: entries are SET without an expiry.
TickForever ==
    /\ since' = [n \in 0 .. MaxVersion |->
                   IF n < Len(wal) /\ since[n] < MaxAge THEN since[n] + 1 ELSE since[n]]
    /\ UNCHANGED <<rows, entry, flight, req, faults, answered>>

Tick ==
    /\ entry' = IF entry.ttl > 1 THEN [entry EXCEPT !.ttl = @ - 1] ELSE NoEntry
    /\ since' = [n \in 0 .. MaxVersion |->
                   IF n < Len(wal) /\ since[n] < MaxAge THEN since[n] + 1 ELSE since[n]]
    /\ UNCHANGED <<rows, flight, req, faults, answered>>

\* The standby keeps up, and so do flights: one that has fetched what is no
\* longer the latest version is not held up for longer than Slow.
PromptTick ==
    /\ Replicated /\ replayed < Len(wal) => since[replayed] < Lag
    /\ \A s \in Server :
         flight[s].state = "set" /\ flight[s].version < Len(wal) =>
            since[flight[s].version] < Lag + Slow
    /\ Tick

Catch == Replay /\ UNCHANGED <<entry, flight, req, since, faults, answered>>

Calls ==
    \/ Create \/ WorkerWrites \/ Catch
    \/ \E r \in Request : Update(r) \/ Invalidate(r) \/ Get(r) \/ GetAgain(r)
    \/ \E s \in Server : Query(s) \/ Set(s)

\* Replication and a flight's SET are not late.
Spec == Init /\ [][Calls \/ PromptTick]_vars

\* A handler once entered goes on, Redis expires keys, the standby replays.
FairSpec ==
    /\ Spec
    /\ WF_vars(PromptTick) /\ WF_vars(Catch)
    /\ \A s \in Server : WF_vars(Query(s) \/ Set(s))
    /\ \A r \in Request : WF_vars(Invalidate(r) \/ GetAgain(r))

-----------------------------------------------------------------------------
\* A read is never older than an entry's life, the standby's lag and the time a
\* flight takes to SET together, also when DEL failed, or ran before the SET of
\* a flight that had fetched the row before the UPDATE ("serve a paused job as
\* active for up to the TTL", docs/ARCHITECTURE.md:206).
BoundedStaleness == answered <= TTL + Lag + Slow

\* Once the row is left alone, the cache comes to hold it or nothing.
CacheConverges == <>[](entry.ttl > 0 => entry.version = Len(wal))

\* Whoever joins a flight gets an answer when it lands or fails.
EveryRequestAnswered ==
    \A r \in Request : req[r] # "idle" ~> req[r] = "idle"

\* "A terminal run's fields never change again ... there's nothing to
\* invalidate" (docs/ARCHITECTURE.md:212): what GetRun caches stays true.
FinalEntries ==
    entry.ttl > 0 /\ wal[entry.version] \notin JobStatus => wal[entry.version] = wal[Len(wal)]
=============================================================================
