-------------------------------- MODULE JobApi --------------------------------
(***************************************************************************)
(* POST /v1/jobs (createJob in internal/api/handlers.go, CreateJob in      *)
(* internal/store/postgres.go) as clients that retry see it.  A job is its *)
(* position in wal, and wal[j] its idempotency_key.  A step is the lookup  *)
(* through readPool, the INSERT (which waits for an open transaction with  *)
(* the same key), or the dependencies and COMMIT.  A client that gave up   *)
(* while its handler runs on is two clients with one key.                  *)
(***************************************************************************)
EXTENDS ReadReplica

CONSTANTS
    Client,
    KeyOf,          \* KeyOf[c]: idempotency_key in the body of c
    NoKey,          \* idempotency_key left out: NULL
    EmptyKey,       \* idempotency_key ""
    Invalid,        \* clients whose body fails validation
    Dangling,       \* clients whose depends_on names no job
    FaultLimit      \* bound: failed calls and lost answers

ASSUME ApiAssumption ==
    /\ Invalid \subseteq Client /\ Dangling \subseteq Client
    /\ NoKey # EmptyKey
    /\ FaultLimit \in Nat

VARIABLES
    pc,             \* pc[c]: where the handler of c's request is
    answer,         \* answer[c]: status, and the job it is about, or 0
    faults,         \* failed calls and lost answers so far
    began,          \* history: began[c]: jobs there were when c sent what led to pc[c] or to its 409
    told            \* history: told[k]: jobs that requests with key k were given

vars == <<rows, pc, answer, faults, began, told>>

Key == {KeyOf[c] : c \in Client}
Creatable == {KeyOf[c] : c \in Client \ Dangling}
Status == {"none", "200", "201", "400", "409", "500"}
Settled == {"200", "201", "400"}

\* The type of every variable: a client whose dependency does not exist leaves no
\* job, and no answer is about a job that is not committed.
TypeOK ==
    /\ wal \in Seq(Creatable) /\ replayed \in 0 .. Len(wal) /\ replicaPool \in {"nil", "open"}
    /\ pc \in [Client -> {"idle", "lookup", "insert", "commit"}]
    /\ answer \in [Client -> [status: Status, job: 0 .. Len(wal)]]
    /\ faults \in 0 .. FaultLimit
    /\ began \in [Client -> 0 .. Len(wal)]
    /\ told \in [Key -> SUBSET (1 .. Len(wal))]

Init ==
    /\ RowsInit
    /\ pc = [c \in Client |-> "idle"]
    /\ answer = [c \in Client |-> [status |-> "none", job |-> 0]]
    /\ faults = 0
    /\ began = [c \in Client |-> 0]
    /\ told = [k \in Key |-> {}]

Fault == faults < FaultLimit /\ faults' = faults + 1

\* The handler returns: the client has status s, about job j.
Reply(c, s, j) ==
    /\ pc' = [pc EXCEPT ![c] = "idle"]
    /\ answer' = [answer EXCEPT ![c] = [status |-> s, job |-> j]]
    /\ told' = IF s \in {"200", "201"}
                 THEN [told EXCEPT ![KeyOf[c]] = told[KeyOf[c]] \cup {j}] ELSE told
    /\ began' = [began EXCEPT ![c] = IF s = "409" THEN began[c] ELSE 0]

Proceed(c, where) ==
    /\ pc' = [pc EXCEPT ![c] = where]
    /\ UNCHANGED <<answer, began, told>>

\* Mutant of Send: no key is looked up.
SendUnseen(c) ==
    /\ pc[c] = "idle"
    /\ KeyOf[c] = NoKey => answer[c].status # "201"
    /\ IF c \in Invalid THEN Reply(c, "400", 0)
       ELSE /\ pc' = [pc EXCEPT ![c] = "insert"]
            /\ answer' = [answer EXCEPT ![c] = [status |-> "none", job |-> 0]]
            /\ began' = [began EXCEPT ![c] = Len(wal)]
            /\ UNCHANGED told
    /\ UNCHANGED <<rows, faults>>

\* A request arrives; validation; the lookup is for keys that are not empty.
\* A client without a key has no way to retry a success.
Send(c) ==
    /\ pc[c] = "idle"
    /\ KeyOf[c] = NoKey => answer[c].status # "201"
    /\ IF c \in Invalid THEN Reply(c, "400", 0)
       ELSE /\ pc' = [pc EXCEPT ![c] = IF KeyOf[c] \in {NoKey, EmptyKey} THEN "insert" ELSE "lookup"]
            /\ answer' = [answer EXCEPT ![c] = [status |-> "none", job |-> 0]]
            /\ began' = [began EXCEPT ![c] = Len(wal)]
            /\ UNCHANGED told
    /\ UNCHANGED <<rows, faults>>

\* Mutant of Lookup: it answers with the newest job instead of the key's.
LookupNewest(c) ==
    /\ pc[c] = "lookup"
    /\ IF \E i \in 1 .. Visible : wal[i] = KeyOf[c] THEN Reply(c, "200", Visible)
       ELSE Proceed(c, "insert")
    /\ UNCHANGED <<rows, faults>>

\* GetJobByIdempotencyKey.
Lookup(c) ==
    /\ pc[c] = "lookup"
    /\ \/ /\ \E j \in 1 .. Visible : wal[j] = KeyOf[c] /\ Reply(c, "200", j)
          /\ UNCHANGED faults
       \/ /\ \A j \in 1 .. Visible : wal[j] # KeyOf[c]
          /\ Proceed(c, "insert") /\ UNCHANGED faults
       \/ Fault /\ Reply(c, "500", 0)
    /\ UNCHANGED rows

\* Mutant of Insert: there is no unique constraint on idempotency_key.
InsertUnchecked(c) ==
    /\ pc[c] = "insert"
    /\ Proceed(c, "commit")
    /\ UNCHANGED <<rows, faults>>

\* INSERT INTO jobs: the unique index makes it wait for, and then fail on,
\* another job with its key.
Insert(c) ==
    /\ pc[c] = "insert"
    /\ KeyOf[c] # NoKey => \A d \in Client : pc[d] = "commit" => KeyOf[d] # KeyOf[c]
    /\ \/ /\ KeyOf[c] # NoKey
          /\ \E j \in 1 .. Len(wal) : wal[j] = KeyOf[c] /\ Reply(c, "409", j)
          /\ UNCHANGED faults
       \/ /\ KeyOf[c] # NoKey => \A j \in 1 .. Len(wal) : wal[j] # KeyOf[c]
          /\ Proceed(c, "commit") /\ UNCHANGED faults
       \/ Fault /\ Reply(c, "500", 0)
    /\ UNCHANGED rows

\* Mutant of Finish: the job is committed before its dependencies.
FinishInTwo(c) ==
    /\ pc[c] = "commit"
    /\ Commit(KeyOf[c])
    /\ Reply(c, IF c \in Dangling THEN "500" ELSE "201", IF c \in Dangling THEN 0 ELSE Len(wal'))
    /\ UNCHANGED faults

\* INSERT INTO job_dependencies, COMMIT; the transaction is rolled back when a
\* dependency does not exist or a call fails; a COMMIT that took effect may
\* still look like a failure.
Finish(c) ==
    /\ pc[c] = "commit"
    /\ \/ /\ c \notin Dangling
          /\ Commit(KeyOf[c])
          /\ Reply(c, "201", Len(wal')) /\ UNCHANGED faults
       \/ /\ c \notin Dangling /\ Fault
          /\ Commit(KeyOf[c])
          /\ Reply(c, "500", 0)
       \/ /\ c \in Dangling \/ faults < FaultLimit
          /\ faults' = IF c \in Dangling THEN faults ELSE faults + 1
          /\ Reply(c, "500", 0) /\ UNCHANGED rows

Catch == Replay /\ UNCHANGED <<pc, answer, faults, began, told>>

Next == Catch \/ \E c \in Client : Send(c) \/ Lookup(c) \/ Insert(c) \/ Finish(c)

Spec == Init /\ [][Next]_vars

\* A client sends again until it is told a job or that its body is wrong, and
\* its handler goes on.  Fairness is strong for the sake of Insert: who waits for
\* a key's transaction is woken when it ends, and may have to wait again.
Retry(c) == answer[c].status \notin Settled /\ Send(c)

FairSpec ==
    /\ Spec
    /\ WF_vars(Catch)
    /\ \A c \in Client : SF_vars(Retry(c) \/ Lookup(c) \/ Insert(c) \/ Finish(c))

-----------------------------------------------------------------------------
\* No retry, race or lost answer makes two jobs of one key (CreateJob).
OneJobPerKey ==
    \A i, j \in 1 .. Len(wal) : wal[i] = wal[j] /\ wal[i] # NoKey => i = j

\* Every request with a key that was given a job was given the same one, and
\* that job is committed under that key: the original (createJob).
AnswersAgree ==
    \A k \in Key \ {NoKey} : \A i, j \in told[k] : i = j /\ wal[i] = k

\* "a genuine race (two concurrent creates with the same key)"
\* (docs/ARCHITECTURE.md:172): without a standby, a 409 for a key that is looked
\* up means that its job was committed after this request was sent.
ConflictMeansRace ==
    ~Replicated => \A c \in Client :
       KeyOf[c] # EmptyKey /\ answer[c].status = "409" => answer[c].job > began[c]

\* "lets a client safely retry POST /v1/jobs after a timeout or dropped
\* response" (docs/ARCHITECTURE.md:170): who retries with a key is told the job.
RetrySettles ==
    \A c \in Client \ Dangling : KeyOf[c] \notin {NoKey, EmptyKey} =>
       (answer[c].status \notin Settled ~> answer[c].status \in Settled)
=============================================================================
