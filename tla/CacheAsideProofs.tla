--------------------------- MODULE CacheAsideProofs ---------------------------
(***************************************************************************)
(* BoundedStaleness of the timely cache, for any number of processes,      *)
(* requests, versions and faults and every TTL and lag.  The inductive     *)
(* invariant bounds the age of everything that can still be served: what   *)
(* the standby shows (Lag), what a flight is about to SET (Lag + Slow) and *)
(* what Redis holds, which ages as its time to live runs down.  Ages are   *)
(* monotone in the version, so replaying a commit never makes it worse.    *)
(***************************************************************************)
EXTENDS CacheAside, TLAPS

Bound == TTL + Lag + Slow

\* The latest version is never old, and older versions are older.
Ages ==
    /\ \A n \in Len(wal) .. MaxVersion : since[n] = 0
    /\ \A m, n \in 0 .. MaxVersion : m <= n => since[n] <= since[m]

Young ==
    /\ Replicated => Age(replayed) <= Lag
    /\ \A s \in Server : flight[s].state = "set" => Age(flight[s].version) <= Lag + Slow
    /\ entry.ttl > 0 => entry.ttl + Age(entry.version) <= Bound
    /\ BoundedStaleness

Inv == TypeOK /\ Ages /\ Young

\* The constants are natural numbers, and so are versions and ages.
LEMMA ConstantType ==
    /\ TTL \in Nat /\ Lag \in Nat /\ Slow \in Nat /\ Bound \in Nat /\ MaxAge = Bound + 1
    /\ MaxVersion \in Nat /\ FaultLimit \in Nat
BY CacheAssumption DEF Bound, MaxAge

LEMMA VersionType ==
    ASSUME TypeOK
    PROVE  /\ Len(wal) \in Nat /\ Len(wal) <= MaxVersion
           /\ \A n \in 0 .. MaxVersion : since[n] \in 0 .. MaxAge
           /\ \A n \in Failed .. Len(wal) : n \in Int
           /\ replayed \in 0 .. Len(wal)
           /\ entry.version \in 0 .. Len(wal) /\ entry.ttl \in 0 .. TTL
           /\ \A s \in Server : flight[s].version \in 0 .. Len(wal)
BY ConstantType DEF TypeOK, Failed

\* Under Ages, Age is since for every version, and 0 for a failed answer.
LEMMA AgeIsSince ==
    ASSUME TypeOK, Ages
    PROVE  /\ \A n \in 0 .. Len(wal) : Age(n) = since[n] /\ Age(n) \in 0 .. MaxAge
           /\ Age(Failed) = 0
           /\ Age(Len(wal)) = 0
<1>1. Age(Failed) = 0
  BY VersionType DEF Age, Failed
<1>2. ASSUME NEW n \in 0 .. Len(wal) PROVE Age(n) = since[n] /\ Age(n) \in 0 .. MaxAge
  <2>1. n \in 0 .. MaxVersion /\ (n = Len(wal) \/ n \in 0 .. Len(wal) - 1)
    BY VersionType, ConstantType
  <2>2. CASE n = Len(wal)
    <3>1. n \notin 0 .. Len(wal) - 1
      BY <2>2, VersionType
    <3>2. since[n] = 0
      BY <2>1, <2>2, VersionType, ConstantType DEF Ages
    <3> QED BY <3>1, <3>2, ConstantType DEF Age
  <2>3. CASE n \in 0 .. Len(wal) - 1
    BY <2>1, <2>3, VersionType DEF Age
  <2> QED BY <2>1, <2>2, <2>3
<1>3. Len(wal) \in 0 .. Len(wal) /\ since[Len(wal)] = 0
  BY VersionType, ConstantType DEF Ages
<1> QED BY <1>1, <1>2, <1>3

\* What the read pool shows is no older than the lag.
LEMMA VisibleYoung ==
    ASSUME Inv
    PROVE  Visible \in 0 .. Len(wal) /\ Age(Visible) <= Lag
<1>1. CASE Replicated
  BY <1>1, VersionType DEF Visible, Inv, Young
<1>2. CASE ~Replicated
  BY <1>2, VersionType, AgeIsSince, ConstantType DEF Visible, Inv
<1> QED BY <1>1, <1>2

\* Requests answered with a version that is young enough.
LEMMA AnswerYoung ==
    ASSUME Inv, NEW R \in SUBSET Request, NEW n \in Failed .. Len(wal), Answer(R, n),
           Age(n) <= Bound
    PROVE  /\ req' \in [Request -> {"idle", "delete", "get", "wait"}]
           /\ answered' \in 0 .. MaxAge
           /\ answered' <= Bound
<1>1. 0 \in 0 .. Len(wal) /\ n \in Int /\ Len(wal) \in Nat
  BY VersionType DEF Inv
<1>2. Age(n) \in 0 .. MaxAge
  <2>1. n = Failed \/ n \in 0 .. Len(wal)
    BY <1>1 DEF Failed
  <2> QED BY <2>1, AgeIsSince, ConstantType DEF Inv
<1>3. answered' = Age(n) /\ req' = [r \in Request |-> IF r \in R THEN "idle" ELSE req[r]]
  BY DEF Answer
<1> QED BY <1>2, <1>3 DEF Inv, TypeOK

\* A step that changes neither rows nor ages keeps Ages and the standby's age.
LEMMA ReadFrame ==
    ASSUME Inv, UNCHANGED <<rows, since>>
    PROVE  /\ Ages' /\ (Replicated' => Age(replayed)' <= Lag) /\ replicaPool' \in {"nil", "open"}
           /\ \A n : Age(n)' = Age(n)
           /\ wal' \in Seq(Value) /\ Len(wal') <= MaxVersion /\ replayed' \in 0 .. Len(wal')
           /\ since' \in [0 .. MaxVersion -> 0 .. MaxAge]
           /\ Len(wal') = Len(wal)
BY DEF Inv, TypeOK, Ages, Young, Age, rows, Replicated

\* A commit adds a version of age 0 and changes no age.
LEMMA CommitFrame ==
    ASSUME Inv, NEW x \in Value, Commit(x), Len(wal) < MaxVersion, since' = since
    PROVE  /\ Ages' /\ (Replicated' => Age(replayed)' <= Lag) /\ replicaPool' \in {"nil", "open"}
           /\ \A n \in 0 .. Len(wal) : Age(n)' = Age(n)
           /\ wal' \in Seq(Value) /\ Len(wal') <= MaxVersion /\ replayed' \in 0 .. Len(wal')
           /\ since' \in [0 .. MaxVersion -> 0 .. MaxAge]
           /\ Len(wal') = Len(wal) + 1
<1>1. /\ wal' \in Seq(Value) /\ Len(wal') = Len(wal) + 1 /\ Len(wal) \in Nat
      /\ replayed' = replayed /\ replicaPool' = replicaPool
  BY VersionType DEF Inv, TypeOK, Commit
<1>2. Ages'
  BY <1>1, ConstantType DEF Inv, Ages
<1>3. \A n \in 0 .. Len(wal) : Age(n)' = since[n]
  BY <1>1 DEF Age
<1>4. \A n \in 0 .. Len(wal) : Age(n)' = Age(n)
  BY <1>3, AgeIsSince DEF Inv
<1>5. replayed \in 0 .. Len(wal)
  BY VersionType DEF Inv
<1>6. Replicated' => Age(replayed)' <= Lag
  BY <1>1, <1>3, <1>4, <1>5 DEF Inv, Young, Age, Replicated
<1> QED BY <1>1, <1>2, <1>4, <1>5, <1>6, ConstantType DEF Inv, TypeOK

\* What is fetched, and faults, are counted within bounds.
LEMMA FaultType == ASSUME Inv, Fault \/ UNCHANGED faults PROVE faults' \in 0 .. FaultLimit
BY ConstantType DEF Inv, TypeOK, Fault

LEMMA InitInv == Init => Inv
<1> SUFFICES ASSUME Init PROVE Inv
  OBVIOUS
<1>1. Len(wal) = 0 /\ wal \in Seq(Value)
  BY DEF Init, RowsInit
<1>2. TypeOK
  <2>1. entry \in [version: 0 .. Len(wal), ttl: 0 .. TTL]
    BY <1>1, ConstantType DEF Init, NoEntry
  <2>2. flight \in [Server -> [state: {"none", "query", "set"}, version: 0 .. Len(wal)]]
    BY <1>1 DEF Init, NoFlight
  <2>3. req \in [Request -> {"idle", "delete", "get", "wait"}]
    BY DEF Init
  <2>4. since \in [0 .. MaxVersion -> 0 .. MaxAge]
    BY ConstantType DEF Init
  <2>5. answered \in 0 .. MaxAge
    BY <1>1, ConstantType DEF Init, Failed
  <2>6. /\ faults \in 0 .. FaultLimit /\ replayed \in 0 .. Len(wal) /\ Len(wal) <= MaxVersion
        /\ replicaPool \in {"nil", "open"}
    BY <1>1, ConstantType DEF Init, RowsInit
  <2> QED BY <1>1, <2>1, <2>2, <2>3, <2>4, <2>5, <2>6 DEF TypeOK
<1>3. Ages
  BY <1>1, ConstantType DEF Init, Ages
<1>4. Young
  <2>1. Age(replayed) = 0
    BY <1>1 DEF Init, RowsInit, Age
  <2>2. entry.ttl = 0 /\ \A s \in Server : flight[s].state = "none"
    BY DEF Init, NoEntry, NoFlight
  <2>3. BoundedStaleness
    BY ConstantType DEF Init, BoundedStaleness
  <2> QED BY <2>1, <2>2, <2>3, ConstantType DEF Young
<1> QED BY <1>2, <1>3, <1>4 DEF Inv

ReqType == {"idle", "delete", "get", "wait"}
FlightType == [state: {"none", "query", "set"}, version: 0 .. Len(wal)]

\* A commit by whatever handler keeps the invariant.
LEMMA WriteInv ==
    ASSUME Inv, NEW x \in Value, Commit(x), Len(wal) < MaxVersion,
           UNCHANGED <<entry, flight, since, faults, answered>>,
           req' \in [Request -> ReqType]
    PROVE  Inv'
<1>1. /\ Ages' /\ (Replicated' => Age(replayed)' <= Lag) /\ replicaPool' \in {"nil", "open"}
      /\ \A n \in 0 .. Len(wal) : Age(n)' = Age(n)
      /\ wal' \in Seq(Value) /\ Len(wal') <= MaxVersion /\ replayed' \in 0 .. Len(wal')
      /\ since' \in [0 .. MaxVersion -> 0 .. MaxAge]
      /\ Len(wal') = Len(wal) + 1
  BY CommitFrame
<1>2. 0 .. Len(wal) \subseteq 0 .. Len(wal') /\ Failed .. Len(wal) \subseteq Failed .. Len(wal')
  BY <1>1, VersionType DEF Inv, Failed
<1>3. /\ entry' \in [version: 0 .. Len(wal'), ttl: 0 .. TTL]
      /\ flight' \in [Server -> [state: {"none", "query", "set"}, version: 0 .. Len(wal')]]
  BY <1>2 DEF Inv, TypeOK
<1>4. TypeOK'
  BY <1>1, <1>3 DEF Inv, TypeOK, ReqType, MaxAge
<1>5. Age(entry.version)' = Age(entry.version)
      /\ \A s \in Server : Age(flight[s].version)' = Age(flight[s].version)
  BY <1>1, VersionType DEF Inv, Age
<1>6. Young'
  BY <1>1, <1>5 DEF Inv, Young, Bound, BoundedStaleness
<1> QED BY <1>1, <1>4, <1>6 DEF Inv

\* A step that leaves rows and ages alone keeps the invariant when what it
\* puts into Redis, into flights and into answers is young enough.
LEMMA ReadInv ==
    ASSUME Inv, UNCHANGED <<rows, since>>, faults' \in 0 .. FaultLimit,
           req' \in [Request -> ReqType],
           answered' \in 0 .. MaxAge,
           answered' <= Bound,
           entry' \in [version: 0 .. Len(wal), ttl: 0 .. TTL],
           entry'.ttl > 0 => entry'.ttl + Age(entry'.version) <= Bound,
           flight' \in [Server -> FlightType],
           \A s \in Server : flight'[s].state = "set" => Age(flight'[s].version) <= Lag + Slow
    PROVE  Inv'
<1>1. /\ Ages' /\ (Replicated' => Age(replayed)' <= Lag) /\ replicaPool' \in {"nil", "open"}
      /\ wal' \in Seq(Value) /\ Len(wal') <= MaxVersion /\ replayed' \in 0 .. Len(wal')
      /\ since' \in [0 .. MaxVersion -> 0 .. MaxAge]
      /\ Len(wal') = Len(wal)
  BY ReadFrame
<1>2. TypeOK'
  BY <1>1 DEF TypeOK, ReqType, FlightType, MaxAge
<1>3. wal' = wal /\ since' = since
  BY DEF rows
<1>4. Young'
  BY <1>1, <1>3 DEF Young, Bound, BoundedStaleness, Age
<1> QED BY <1>1, <1>2, <1>4 DEF Inv

LEMMA CreateInv == ASSUME Inv, Create PROVE Inv'
<1>1. Len(wal) = 0
  BY DEF Create
<1>2. PICK x \in First : Commit(x)
  BY DEF Create
<1>3. x \in Value /\ Len(wal) < MaxVersion
  BY <1>1, CacheAssumption DEF Create
<1>4. req' \in [Request -> ReqType]
  BY DEF Create, Inv, TypeOK, ReqType
<1> QED BY <1>2, <1>3, <1>4, WriteInv DEF Create

LEMMA LastType == ASSUME Inv, wal # <<>> PROVE Succ[wal[Len(wal)]] \subseteq Value
<1>1. wal \in Seq(Value) /\ Len(wal) \in 1 .. Len(wal)
  BY DEF Inv, TypeOK
<1>2. wal[Len(wal)] \in Value
  BY <1>1
<1> QED BY <1>2, CacheAssumption

LEMMA WorkerWritesInv == ASSUME Inv, WorkerWrites PROVE Inv'
<1>1. PICK x \in Succ[wal[Len(wal)]] : Commit(x)
  BY DEF WorkerWrites
<1>2. x \in Value
  BY LastType DEF WorkerWrites
<1>3. req' \in [Request -> ReqType]
  BY DEF WorkerWrites, Inv, TypeOK, ReqType
<1> QED BY <1>1, <1>2, <1>3, WriteInv DEF WorkerWrites

\* What is in Redis and in flights now is young.
LEMMA StillYoung ==
    ASSUME Inv
    PROVE  /\ req \in [Request -> ReqType] /\ flight \in [Server -> FlightType]
           /\ entry \in [version: 0 .. Len(wal), ttl: 0 .. TTL]
           /\ answered \in 0 .. MaxAge
           /\ answered <= Bound
           /\ entry.ttl > 0 => entry.ttl + Age(entry.version) <= Bound
           /\ \A s \in Server : flight[s].state = "set" => Age(flight[s].version) <= Lag + Slow
           /\ NoEntry \in [version: 0 .. Len(wal), ttl: 0 .. TTL] /\ ~(NoEntry.ttl > 0)
           /\ NoFlight \in FlightType /\ NoFlight.state # "set"
           /\ 0 \in Failed .. Len(wal) /\ Failed \in Failed .. Len(wal)
           /\ Age(0) <= Bound \/ wal # <<>>
           /\ Age(Failed) <= Bound
<1>1. 0 \in 0 .. Len(wal) /\ 0 \in 0 .. TTL
  BY VersionType, ConstantType DEF Inv
<1>2. 0 \in Failed .. Len(wal) /\ Failed \in Failed .. Len(wal)
  BY VersionType DEF Inv, Failed
<1>3. Age(Failed) <= Bound
  BY AgeIsSince, ConstantType DEF Inv
<1>4. wal = <<>> => Age(0) <= Bound
  <2>1. wal = <<>> => Len(wal) = 0
    OBVIOUS
  <2> QED BY <2>1, AgeIsSince, ConstantType DEF Inv
<1>5. answered <= Bound
  BY DEF Inv, Young, BoundedStaleness, Bound
<1> QED BY <1>1, <1>2, <1>3, <1>4, <1>5
        DEF Inv, TypeOK, Young, ReqType, FlightType, NoEntry, NoFlight

LEMMA UpdateInv == ASSUME Inv, NEW r \in Request, Update(r) PROVE Inv'
<1>1. UNCHANGED <<entry, flight, since>>
  BY DEF Update
<1>2. CASE wal = <<>> /\ Answer({r}, 0) /\ UNCHANGED <<rows, faults>>
  <2>1. {r} \in SUBSET Request /\ 0 \in Failed .. Len(wal) /\ Age(0) <= Bound
    BY <1>2, StillYoung
  <2> HIDE DEF Answer
  <2>2. /\ req' \in [Request -> ReqType] /\ answered' <= Bound
        /\ answered' \in 0 .. MaxAge
    BY <1>2, <2>1, AnswerYoung DEF ReqType
  <2> QED BY <1>1, <1>2, <2>2, StillYoung, FaultType, ReadInv
<1>3. CASE /\ wal # <<>> /\ Len(wal) < MaxVersion
           /\ \E x \in Succ[wal[Len(wal)]] : Commit(x)
           /\ req' = [req EXCEPT ![r] = "delete"]
           /\ UNCHANGED <<faults, answered>>
  <2>1. PICK x \in Succ[wal[Len(wal)]] : Commit(x)
    BY <1>3
  <2>2. x \in Value
    BY <1>3, LastType
  <2>3. req' \in [Request -> ReqType]
    BY <1>3 DEF Inv, TypeOK, ReqType
  <2> QED BY <1>1, <1>3, <2>1, <2>2, <2>3, WriteInv
<1>4. CASE Fault /\ Answer({r}, Failed) /\ UNCHANGED rows
  <2>1. {r} \in SUBSET Request /\ Failed \in Failed .. Len(wal) /\ Age(Failed) <= Bound
    BY StillYoung
  <2>2. /\ req' \in [Request -> ReqType] /\ answered' <= Bound
        /\ answered' \in 0 .. MaxAge
    BY <1>4, <2>1, AnswerYoung DEF ReqType
  <2>3. faults' \in 0 .. FaultLimit
    BY <1>4, FaultType
  <2> QED BY <1>1, <1>4, <2>2, <2>3, StillYoung, ReadInv
<1> QED BY <1>2, <1>3, <1>4 DEF Update

LEMMA InvalidateInv == ASSUME Inv, NEW r \in Request, Invalidate(r) PROVE Inv'
<1>1. /\ req' = [req EXCEPT ![r] = "get"]
      /\ UNCHANGED <<rows, flight, since, answered>>
  BY DEF Invalidate, Inv, TypeOK
<1>2. req' \in [Request -> ReqType]
  BY <1>1 DEF Inv, TypeOK, ReqType
<1>3. faults' \in 0 .. FaultLimit /\ (entry' = NoEntry \/ entry' = entry)
  BY FaultType DEF Invalidate
<1> QED BY <1>1, <1>2, <1>3, StillYoung, ReadInv

LEMMA GetInv == ASSUME Inv, NEW r \in Request, Get(r) \/ GetAgain(r) PROVE Inv'
<1>1. UNCHANGED <<rows, since>> /\ (Hit(r) \/ Miss(r))
  BY DEF Get, GetAgain
<1>2. CASE Hit(r)
  <2>1. entry.version \in 0 .. Len(wal) /\ entry.ttl \in Nat /\ entry.ttl > 0
    BY <1>2, VersionType, ConstantType DEF Inv, Hit
  <2>2. entry.version \in Failed .. Len(wal) /\ Age(entry.version) <= Bound
    <3>1. Age(entry.version) \in Nat
      BY <2>1, AgeIsSince, ConstantType DEF Inv
    <3>2. entry.ttl + Age(entry.version) <= Bound
      BY <2>1, StillYoung
    <3>3. entry.version \in Failed .. Len(wal)
      BY <2>1, VersionType DEF Failed, Inv
    <3> QED BY <3>1, <3>2, <3>3, <2>1, ConstantType
  <2>3. /\ req' \in [Request -> ReqType] /\ answered' <= Bound
        /\ answered' \in 0 .. MaxAge
    BY <1>2, <2>2, AnswerYoung DEF Hit, ReqType
  <2> QED BY <1>1, <1>2, <2>3, StillYoung, FaultType, ReadInv DEF Hit
<1>3. CASE Miss(r)
  <2>1. Host[r] \in Server
    BY CacheAssumption
  <2>2. req' = [req EXCEPT ![r] = "wait"]
    BY <1>3 DEF Miss
  <2>3. req' \in [Request -> ReqType]
    BY <2>2 DEF Inv, TypeOK, ReqType
  <2>4. \/ flight' = flight
        \/ flight' = [flight EXCEPT ![Host[r]] =
                        [state |-> "query", version |-> 0]]
    BY <1>3 DEF Miss
  <2>5. /\ flight' \in [Server -> FlightType]
        /\ \A s \in Server : flight'[s].state = "set" => flight'[s] = flight[s]
    <3>1. [state |-> "query", version |-> 0] \in FlightType
      BY VersionType DEF Inv, FlightType
    <3> QED BY <2>1, <2>4, <3>1, StillYoung
  <2>6. faults' \in 0 .. FaultLimit /\ entry' = entry /\ answered' = answered
    BY <1>3, FaultType DEF Miss
  <2> QED BY <1>1, <2>3, <2>5, <2>6, StillYoung, ReadInv
<1> QED BY <1>1, <1>2, <1>3

\* A flight that lands with a young version.
LEMMA LandYoung ==
    ASSUME Inv, NEW s \in Server, NEW n \in Failed .. Len(wal), Land(s, n), Age(n) <= Bound
    PROVE  /\ req' \in [Request -> ReqType] /\ answered' <= Bound
           /\ answered' \in 0 .. MaxAge
           /\ flight' \in [Server -> FlightType]
           /\ \A q \in Server : flight'[q].state = "set" => Age(flight'[q].version) <= Lag + Slow
<1>1. Callers(s) \in SUBSET Request /\ Answer(Callers(s), n)
  BY DEF Callers, Land
<1>2. /\ req' \in [Request -> ReqType] /\ answered' <= Bound
      /\ answered' \in 0 .. MaxAge
  BY <1>1, AnswerYoung DEF ReqType
<1>3. flight' = [flight EXCEPT ![s] = NoFlight]
  BY DEF Land
<1> QED BY <1>2, <1>3, StillYoung

LEMMA QueryInv == ASSUME Inv, NEW s \in Server, Query(s) PROVE Inv'
<1>1. UNCHANGED <<rows, entry, since>>
  BY DEF Query
<1>2. Visible \in 0 .. Len(wal) /\ Visible \in Failed .. Len(wal) /\ Age(Visible) \in Nat
      /\ Age(Visible) <= Lag /\ Age(Visible) <= Bound
  <2>1. Visible \in 0 .. Len(wal) /\ Age(Visible) <= Lag
    BY VisibleYoung
  <2>2. Age(Visible) \in Nat
    BY <2>1, AgeIsSince, ConstantType DEF Inv
  <2> QED BY <2>1, <2>2, VersionType, CacheAssumption DEF Inv, Failed, Bound
<1>3. faults' \in 0 .. FaultLimit
  BY FaultType DEF Query
<1>4. CASE Land(s, Visible)
  BY <1>1, <1>2, <1>3, <1>4, LandYoung, StillYoung, ReadInv
<1>5. CASE Land(s, Failed)
  BY <1>1, <1>3, <1>5, LandYoung, StillYoung, ReadInv
<1>6. CASE /\ flight' = [flight EXCEPT ![s] = [state |-> "set", version |-> Visible]]
           /\ UNCHANGED <<req, faults, answered>>
  <2>1. flight' \in [Server -> FlightType]
    BY <1>2, <1>6 DEF Inv, TypeOK, FlightType
  <2>2. ASSUME NEW q \in Server, flight'[q].state = "set"
        PROVE  Age(flight'[q].version) <= Lag + Slow
    <3>1. CASE q = s
      BY <3>1, <1>2, <1>6, ConstantType DEF Inv, TypeOK
    <3>2. CASE q # s
      BY <3>2, <2>2, <1>6, StillYoung DEF Inv, TypeOK
    <3> QED BY <3>1, <3>2
  <2> QED BY <1>1, <1>3, <1>6, <2>1, <2>2, StillYoung, ReadInv
<1> QED BY <1>4, <1>5, <1>6 DEF Query

LEMMA SetInv == ASSUME Inv, NEW s \in Server, Set(s) PROVE Inv'
<1> DEFINE n == flight[s].version
<1>1. n \in 0 .. Len(wal) /\ Age(n) <= Lag + Slow /\ Age(n) \in Nat
  <2>1. n \in 0 .. Len(wal)
    BY VersionType DEF Inv
  <2>2. Age(n) <= Lag + Slow
    BY StillYoung DEF Set
  <2>3. Age(n) \in 0 .. MaxAge
    BY <2>1, AgeIsSince DEF Inv
  <2> QED BY <2>1, <2>2, <2>3, ConstantType
<1> HIDE DEF n
<1>2. n \in Failed .. Len(wal) /\ Age(n) <= Bound /\ TTL + Age(n) <= Bound
  BY <1>1, VersionType, CacheAssumption DEF Inv, Failed, Bound
<1>3. Land(s, n)
  BY DEF Set, n
<1>4. faults' \in 0 .. FaultLimit
  BY FaultType DEF Set
<1>5. entry' = [version |-> n, ttl |-> TTL] \/ entry' = entry
  BY DEF Set, n
<1>6. /\ entry' \in [version: 0 .. Len(wal), ttl: 0 .. TTL]
      /\ entry'.ttl > 0 => entry'.ttl + Age(entry'.version) <= Bound
  <2>1. CASE entry' = [version |-> n, ttl |-> TTL]
    BY <2>1, <1>1, <1>2, ConstantType
  <2>2. CASE entry' = entry
    BY <2>2, StillYoung
  <2> QED BY <2>1, <2>2, <1>5
<1>7. UNCHANGED <<rows, since>>
  BY DEF Set
<1> QED BY <1>2, <1>3, <1>4, <1>6, <1>7, LandYoung, ReadInv

\* The standby catches up: what it shows gets younger, or stays as old.
LEMMA CatchInv == ASSUME Inv, Catch PROVE Inv'
<1>1. /\ Replicated /\ replayed < Len(wal) /\ replayed' = replayed + 1 /\ wal' = wal
      /\ replicaPool' = replicaPool
      /\ UNCHANGED <<entry, flight, req, since, faults, answered>>
  BY DEF Catch, Replay
<1>2. replayed \in 0 .. Len(wal) /\ replayed' \in 0 .. Len(wal)
  BY <1>1, VersionType DEF Inv
<1>3. TypeOK'
  BY <1>1, <1>2 DEF Inv, TypeOK, MaxAge
<1>4. Ages'
  BY <1>1 DEF Inv, Ages
<1>5. Age(replayed)' <= Lag
  <2>1. Age(replayed)' = Age(replayed + 1)
    BY <1>1 DEF Age
  <2>2. /\ Age(replayed) = since[replayed] /\ Age(replayed + 1) = since[replayed + 1]
        /\ Age(replayed) <= Lag
    BY <1>1, <1>2, AgeIsSince DEF Inv, Young
  <2>3. /\ replayed \in 0 .. MaxVersion /\ replayed + 1 \in 0 .. MaxVersion
        /\ replayed <= replayed + 1
    BY <1>1, <1>2, VersionType, ConstantType DEF Inv
  <2>4. since[replayed + 1] <= since[replayed]
    BY <2>3 DEF Inv, Ages
  <2>5. since[replayed + 1] \in Int /\ since[replayed] \in Int
    BY <2>3, VersionType, ConstantType DEF Inv
  <2> QED BY <2>1, <2>2, <2>4, <2>5, ConstantType
<1>6. Young'
  BY <1>1, <1>5 DEF Inv, Young, Bound, BoundedStaleness, Age
<1> QED BY <1>3, <1>4, <1>6 DEF Inv

\* A tick ages everything by one, and takes one from the time to live.
LEMMA PromptTickInv == ASSUME Inv, PromptTick PROVE Inv'
<1>1. /\ entry' = IF entry.ttl > 1 THEN [entry EXCEPT !.ttl = @ - 1] ELSE NoEntry
      /\ since' = [n \in 0 .. MaxVersion |->
                     IF n < Len(wal) /\ since[n] < MaxAge THEN since[n] + 1 ELSE since[n]]
      /\ wal' = wal /\ replayed' = replayed /\ replicaPool' = replicaPool
      /\ UNCHANGED <<flight, req, faults, answered>>
  BY DEF PromptTick, Tick, rows
<1>2. ASSUME NEW n \in 0 .. MaxVersion
      PROVE  /\ since[n] \in 0 .. MaxAge /\ since'[n] \in 0 .. MaxAge
             /\ since'[n] = IF n < Len(wal) /\ since[n] < MaxAge THEN since[n] + 1 ELSE since[n]
  BY <1>1, VersionType, ConstantType DEF Inv
<1>3. since' \in [0 .. MaxVersion -> 0 .. MaxAge]
  BY <1>1, <1>2
<1>4. entry \in [version: 0 .. Len(wal), ttl: 0 .. TTL]
  BY StillYoung
<1>5. entry' = NoEntry \/ (entry.ttl > 1 /\ entry' = [version |-> entry.version, ttl |-> entry.ttl - 1])
  BY <1>1, <1>4
<1>6. entry' \in [version: 0 .. Len(wal), ttl: 0 .. TTL]
  BY <1>4, <1>5, StillYoung, ConstantType
<1>7. TypeOK'
  BY <1>1, <1>3, <1>6 DEF Inv, TypeOK, MaxAge
<1>8. Ages'
  <2>1. ASSUME NEW n \in Len(wal) .. MaxVersion PROVE since'[n] = 0
    <3>1. n \in 0 .. MaxVersion /\ ~(n < Len(wal))
      BY VersionType, ConstantType DEF Inv
    <3> QED BY <3>1, <1>2 DEF Inv, Ages
  <2>2. ASSUME NEW m \in 0 .. MaxVersion, NEW n \in 0 .. MaxVersion, m <= n
        PROVE  since'[n] <= since'[m]
    <3>1. since[n] <= since[m]
      BY <2>2 DEF Inv, Ages
    <3>2. /\ since[n] \in Int /\ since[m] \in Int /\ MaxAge \in Int /\ Len(wal) \in Int
          /\ since[n] <= MaxAge
      BY <1>2, VersionType, ConstantType DEF Inv
    <3>3. since'[n] = IF n < Len(wal) /\ since[n] < MaxAge THEN since[n] + 1 ELSE since[n]
      BY <1>2
    <3>4. since'[m] = IF m < Len(wal) /\ since[m] < MaxAge THEN since[m] + 1 ELSE since[m]
      BY <1>2
    <3> QED BY <3>1, <3>2, <3>3, <3>4, <2>2
  <2> QED BY <2>1, <2>2, <1>1 DEF Ages
<1>9. ASSUME NEW n \in 0 .. Len(wal)
      PROVE  /\ Age(n)' = since'[n] /\ Age(n) = since[n] /\ Age(n)' <= Age(n) + 1
             /\ Age(n) \in Nat /\ Age(n)' \in Nat
             /\ ~(n < Len(wal)) => Age(n)' = 0
  <2>1. n \in 0 .. MaxVersion
    BY VersionType, ConstantType DEF Inv
  <2>2. Age(n) = since[n] /\ Age(n) \in 0 .. MaxAge
    BY AgeIsSince DEF Inv
  <2>3. n < Len(wal) => Age(n)' = since'[n]
    BY <1>1, VersionType DEF Inv, Age
  <2>4. ~(n < Len(wal)) => Age(n)' = 0 /\ n \in Len(wal) .. MaxVersion
    BY <1>1, <2>1, VersionType DEF Inv, Age
  <2>5. ~(n < Len(wal)) => since'[n] = 0
    BY <2>4, <1>1, <1>8 DEF Ages
  <2> QED BY <2>1, <2>2, <2>3, <2>4, <2>5, <1>2, ConstantType
<1>10. Replicated => Age(replayed)' <= Lag
  <2> SUFFICES ASSUME Replicated PROVE Age(replayed)' <= Lag
    OBVIOUS
  <2>1. PICK n \in 0 .. Len(wal) : replayed = n /\ replayed' = n
    BY <1>1, VersionType DEF Inv
  <2>2. Age(replayed)' = Age(n)'
    BY <2>1 DEF Age
  <2>3. CASE n < Len(wal)
    <3>1. since[n] < Lag
      BY <2>1, <2>3 DEF PromptTick
    <3> QED BY <3>1, <2>2, <1>9, ConstantType
  <2>4. CASE ~(n < Len(wal))
    BY <2>2, <2>4, <1>9, ConstantType
  <2> QED BY <2>3, <2>4
<1>11. ASSUME NEW s \in Server, flight'[s].state = "set"
       PROVE  Age(flight[s].version)' <= Lag + Slow
  <2> DEFINE n == flight[s].version
  <2>1. n \in 0 .. Len(wal) /\ flight' = flight
    BY <1>1, VersionType DEF Inv
  <2>2. CASE n < Len(wal)
    <3>1. since[n] < Lag + Slow
      BY <2>1, <2>2, <1>11 DEF PromptTick
    <3>2. PICK k \in 0 .. Len(wal) : k = n
      BY <2>1
    <3>3. Age(k)' <= since[k] + 1 /\ since[k] \in Nat /\ Age(k)' \in Nat
      BY <1>9
    <3>4. Age(k)' <= Lag + Slow
      BY <3>1, <3>2, <3>3, ConstantType
    <3>5. Age(n)' = Age(k)'
      BY <3>2, <2>1 DEF Age
    <3> QED BY <3>4, <3>5
  <2>3. CASE ~(n < Len(wal))
    BY <2>1, <2>3, <1>9, ConstantType DEF Age
  <2> QED BY <2>2, <2>3
<1>12. entry'.ttl > 0 => entry'.ttl + Age(entry.version)' <= Bound
  <2> SUFFICES ASSUME entry'.ttl > 0 PROVE entry'.ttl + Age(entry.version)' <= Bound
    OBVIOUS
  <2>1. entry.ttl > 1 /\ entry' = [version |-> entry.version, ttl |-> entry.ttl - 1]
    BY <1>5 DEF NoEntry
  <2>2. entry.version \in 0 .. Len(wal) /\ entry.ttl \in Nat
    BY VersionType, ConstantType DEF Inv
  <2>3. entry.ttl + Age(entry.version) <= Bound
    BY <2>1, <2>2, StillYoung
  <2>4. entry'.version = entry.version /\ entry'.ttl = entry.ttl - 1
    BY <2>1
  <2>5. PICK k \in 0 .. Len(wal) : k = entry.version
    BY <2>2
  <2>6. Age(k)' <= Age(k) + 1 /\ Age(k) \in Nat /\ Age(k)' \in Nat
    BY <1>9
  <2>7. Age(entry.version)' = Age(k)'
    BY <2>4, <2>5 DEF Age
  <2>8. entry.ttl + Age(k) <= Bound
    BY <2>3, <2>5
  <2> QED BY <2>2, <2>4, <2>6, <2>7, <2>8, ConstantType
<1>13. Young'
  BY <1>1, <1>10, <1>11, <1>12, StillYoung DEF Young, Bound, BoundedStaleness, Replicated
<1> QED BY <1>7, <1>8, <1>13 DEF Inv

LEMMA SpecInv == Spec => []Inv
<1>1. Inv /\ UNCHANGED vars => Inv'
  BY DEF Inv, TypeOK, Ages, Young, Age, Bound, BoundedStaleness, MaxAge, Replicated, vars, rows
<1>2. Inv /\ [Calls \/ PromptTick]_vars => Inv'
  BY <1>1, CreateInv, WorkerWritesInv, CatchInv, UpdateInv, InvalidateInv, GetInv, QueryInv,
     SetInv, PromptTickInv DEF Calls
<1> QED BY <1>2, InitInv, PTL DEF Spec

\* No answer of GetJob or GetRun is older than TTL, lag and a slow SET add up
\* to, whatever calls to Redis fail and however requests interleave.
THEOREM CacheBoundedStaleness == Spec => []BoundedStaleness
<1>1. Inv => BoundedStaleness
  BY DEF Inv, Young
<1> QED BY <1>1, SpecInv, PTL

\* The type invariant of CacheAside: no answer or entry of a version to come.
THEOREM CacheTypeCorrect == Spec => []TypeOK
<1>1. Inv => TypeOK
  BY DEF Inv
<1> QED BY <1>1, SpecInv, PTL

-----------------------------------------------------------------------------
(* FinalEntries.  A status of a run that is cached and final can only be   *)
(* the latest version, whatever path (flight, entry) a version has taken.  *)

\* The statuses GetRun caches have no successor in the life of a run.
RunsEnd == \A x \in Cached \ JobStatus : Succ[x] = {}

Settled == \A n \in 1 .. Len(wal) : wal[n] \in Cached \ JobStatus => n = Len(wal)

Held ==
    /\ entry.ttl > 0 => Cacheable(entry.version)
    /\ \A s \in Server : flight[s].state = "set" => Cacheable(flight[s].version)

\* No write follows a final status, and committed versions stay what they are.
LEMMA CommitSettled ==
    ASSUME RunsEnd, TypeOK, Settled, Create \/ WorkerWrites \/ \E r \in Request : Update(r),
           wal' # wal
    PROVE  /\ Settled'
           /\ \A n \in 1 .. Len(wal) : n \in 1 .. Len(wal') /\ wal'[n] = wal[n]
<1>1. /\ \E x : wal' = Append(wal, x)
      /\ wal # <<>> => wal[Len(wal)] \notin Cached \ JobStatus
  <2>1. CASE Create
    BY <2>1 DEF Create, Commit
  <2>2. CASE WorkerWrites
    BY <2>2 DEF WorkerWrites, Commit, RunsEnd
  <2>3. ASSUME NEW r \in Request, Update(r)
        PROVE  (\E x : wal' = Append(wal, x)) /\ wal[Len(wal)] \in JobStatus
    BY <2>3 DEF Update, Commit, rows
  <2> QED BY <2>1, <2>2, <2>3
<1>2. PICK x : wal' = Append(wal, x)
  BY <1>1
<1>3. /\ wal \in Seq(Value) /\ Len(wal) \in Nat /\ (Len(wal) # 0 => wal # <<>>)
      /\ Len(wal') = Len(wal) + 1
  BY <1>2 DEF TypeOK
<1>4. \A n \in 1 .. Len(wal) : n \in 1 .. Len(wal') /\ wal'[n] = wal[n]
  BY <1>2, <1>3
<1>5. ASSUME NEW n \in 1 .. Len(wal'), wal'[n] \in Cached \ JobStatus PROVE n = Len(wal')
  <2>1. CASE n \in 1 .. Len(wal)
    BY <2>1, <1>1, <1>3, <1>4, <1>5 DEF Settled
  <2> QED BY <2>1, <1>3
<1> QED BY <1>4, <1>5 DEF Settled

LEMMA FinalStep ==
    ASSUME RunsEnd, Inv, Settled, Held, [Calls \/ PromptTick]_vars
    PROVE  Settled' /\ Held'
<1>0. /\ Len(wal) \in Nat /\ entry.version \in 0 .. Len(wal)
      /\ \A s \in Server : flight[s].version \in 0 .. Len(wal)
      /\ flight \in [Server -> FlightType]
      /\ entry \in [version: 0 .. Len(wal), ttl: 0 .. TTL]
      /\ Visible \in 0 .. Len(wal)
  BY VersionType, StillYoung, VisibleYoung DEF Inv
<1>1. CASE (Create \/ WorkerWrites \/ \E r \in Request : Update(r)) /\ wal' # wal
  <2>1. UNCHANGED <<entry, flight>>
    BY <1>1 DEF Create, WorkerWrites, Update
  <2>2. Settled' /\ \A n \in 1 .. Len(wal) : wal'[n] = wal[n]
    BY <1>1, CommitSettled DEF Inv
  <2>3. \A n \in 0 .. Len(wal) : Cacheable(n) => n > 0 /\ wal'[n] \in Cached
    BY <2>2, <1>0 DEF Cacheable
  <2> QED BY <2>1, <2>2, <2>3, <1>0 DEF Held, Cacheable
<1>2. ASSUME wal' = wal,
             entry' = entry \/ ~(entry'.ttl > 0) \/ (entry.ttl > 0 /\ entry'.version = entry.version)
               \/ Cacheable(entry'.version),
             \A s \in Server : flight'[s].state = "set" =>
                flight'[s] = flight[s] \/ Cacheable(flight'[s].version)
      PROVE  Settled' /\ Held'
  BY <1>2 DEF Settled, Held, Cacheable
<1>3. CASE UNCHANGED vars
  BY <1>2, <1>3 DEF vars, rows
<1>4. CASE (Create \/ WorkerWrites \/ \E r \in Request : Update(r)) /\ wal' = wal
  BY <1>2, <1>4 DEF Create, WorkerWrites, Update
<1>5. CASE Catch \/ \E r \in Request : Invalidate(r)
  BY <1>2, <1>5 DEF Catch, Replay, Invalidate, NoEntry, rows
<1>6. ASSUME NEW r \in Request, Get(r) \/ GetAgain(r) PROVE Settled' /\ Held'
  <2>1. wal' = wal /\ entry' = entry
    BY <1>6 DEF Get, GetAgain, Hit, Miss, rows
  <2>2. \A s \in Server : flight'[s].state = "set" => flight'[s] = flight[s]
    <3>1. Host[r] \in Server
      BY CacheAssumption
    <3> QED BY <1>0, <1>6, <3>1 DEF Get, GetAgain, Hit, Miss
  <2> QED BY <1>2, <2>1, <2>2
<1>7. ASSUME NEW s \in Server, Query(s) PROVE Settled' /\ Held'
  <2>1. wal' = wal /\ entry' = entry
    BY <1>7 DEF Query, rows
  <2>2. \A q \in Server : flight'[q].state = "set" =>
           flight'[q] = flight[q] \/ Cacheable(flight'[q].version)
    BY <1>0, <1>7 DEF Query, Land, NoFlight
  <2> QED BY <1>2, <2>1, <2>2
<1>8. ASSUME NEW s \in Server, Set(s) PROVE Settled' /\ Held'
  <2>1. wal' = wal /\ Cacheable(flight[s].version)
    BY <1>8 DEF Set, rows, Held
  <2>2. entry' = entry \/ entry' = [version |-> flight[s].version, ttl |-> TTL]
    BY <1>8 DEF Set
  <2>3. \A q \in Server : flight'[q].state = "set" => flight'[q] = flight[q]
    BY <1>0, <1>8 DEF Set, Land, NoFlight
  <2> QED BY <1>2, <2>1, <2>2, <2>3
<1>9. CASE PromptTick
  <2>1. wal' = wal /\ flight' = flight
    BY <1>9 DEF PromptTick, Tick, rows
  <2>2. ~(entry'.ttl > 0) \/ (entry.ttl > 0 /\ entry'.version = entry.version)
    BY <1>0, <1>9, ConstantType DEF PromptTick, Tick, NoEntry
  <2> QED BY <1>2, <2>1, <2>2
<1> QED BY <1>1, <1>3, <1>4, <1>5, <1>6, <1>7, <1>8, <1>9 DEF Calls

\* If the statuses GetRun caches are final in the life of a run, a cached run
\* is what the database has, although nothing ever invalidates it (GetRun).
THEOREM CachedRunsAreFinal == RunsEnd => (Spec => []FinalEntries)
<1>1. Init => Settled /\ Held
  BY DEF Init, RowsInit, Settled, Held, NoEntry, NoFlight
<1>2. RunsEnd /\ Inv /\ Settled /\ Held /\ [Calls \/ PromptTick]_vars => Settled' /\ Held'
  BY FinalStep
<1>3. Inv /\ Settled /\ Held => FinalEntries
  <2> SUFFICES ASSUME Inv, Settled, Held, entry.ttl > 0, wal[entry.version] \notin JobStatus
               PROVE  wal[entry.version] = wal[Len(wal)]
    BY DEF FinalEntries
  <2>1. entry.version \in 1 .. Len(wal) /\ wal[entry.version] \in Cached \ JobStatus
    BY VersionType DEF Held, Cacheable, Inv
  <2> QED BY <2>1 DEF Settled
<1>4. SUFFICES ASSUME RunsEnd PROVE Spec => []FinalEntries
  OBVIOUS
<1>5. Inv /\ Settled /\ Held /\ [Calls \/ PromptTick]_vars => Settled' /\ Held'
  BY <1>2, <1>4
<1> QED BY <1>1, <1>3, <1>5, SpecInv, PTL DEF Spec
=============================================================================
