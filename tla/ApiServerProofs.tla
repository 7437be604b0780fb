--------------------------- MODULE ApiServerProofs ---------------------------
(***************************************************************************)
(* The safety properties of a deployment: of RunMigrations, of the rate    *)
(* limiter, and of the processes that put one behind the other, for any    *)
(* number of processes, directories, clients and faults and for every rate *)
(* and burst.                                                              *)
(***************************************************************************)
EXTENDS ApiServer, FiniteSetTheorems, TLAPS

-----------------------------------------------------------------------------
(* Migrations.  What makes its properties inductive: only the holder of    *)
(* the lock is between its statements, so what it found out (no table,     *)
(* version not applied, everything before it applied) is still true when   *)
(* it acts; and a COMMIT left behind by a dead process is of that kind     *)
(* too, for as long as its session has the lock.                           *)

\* v may be applied: some directory holds it and all before it are in place.
Ready(v) ==
    \E p \in Process : v \in Files[p] /\ \A u \in Files[p] : u < v => u \in applied

Holder(p) ==
    /\ pc[p] \in Locked => lock = p
    /\ pc[p] \in Locked \cup {"lock"} =>
          todo[p] \subseteq Files[p] /\ Files[p] \ todo[p] \subseteq applied
    /\ pc[p] = "create" => ~table
    /\ pc[p] = "unlock" => todo[p] = {}
    /\ pc[p] = "apply" => \A v \in Current(p) : v \notin applied

MigInv ==
    /\ TypeOK
    /\ \A p \in Process : Holder(p)
    /\ \A v \in inflight : lock = DETACHED /\ v \notin applied /\ Ready(v)
    /\ ExactlyOnce /\ NoCollision /\ InOrder /\ ServesMigrated

\* Files are natural numbers, and versions.
LEMMA FileType == \A p \in Process : \A v \in Files[p] : v \in Version /\ v \in Nat
BY MigrationsAssumption DEF Version

\* A transaction that is new and ready leaves the history in order, once each.
LEMMA TakesKeepsHistory ==
    ASSUME TypeOK, ExactlyOnce, InOrder, NEW v \in Version, v \notin applied, Ready(v),
           Takes(v)
    PROVE  /\ ExactlyOnce' /\ InOrder'
           /\ applied' \subseteq Version /\ log' \in Seq(Version)
<1> DEFINE n == Len(log)
<1>1. log \in Seq(Version) /\ n \in Nat /\ log' = Append(log, v) /\ applied' = applied \cup {v}
  BY DEF TypeOK, Takes
<1>2. /\ Len(log') = n + 1 /\ log'[n + 1] = v
      /\ \A i \in 1 .. n : log'[i] = log[i]
      /\ log' \in Seq(Version)
  BY <1>1
<1> HIDE DEF n
<1>3. \A i \in 1 .. n + 1 : i = n + 1 \/ i \in 1 .. n
  BY <1>1
<1>4. /\ \A u \in Version : u \in applied <=> \E i \in 1 .. n : log[i] = u
      /\ \A i, j \in 1 .. n : log[i] = log[j] => i = j
  BY DEF ExactlyOnce, n
<1>5. n + 1 \in 1 .. n + 1 /\ \A i \in 1 .. n : i \in 1 .. n + 1
  BY <1>1
<1>6. \A u \in Version : u \in applied' <=> \E i \in 1 .. n + 1 : log'[i] = u
  <2> TAKE u \in Version
  <2>1. ASSUME u \in applied' PROVE \E i \in 1 .. n + 1 : log'[i] = u
    BY <2>1, <1>1, <1>2, <1>4, <1>5
  <2>2. ASSUME NEW i \in 1 .. n + 1, log'[i] = u PROVE u \in applied'
    BY <2>2, <1>1, <1>2, <1>3, <1>4
  <2> QED BY <2>1, <2>2
<1>7. \A i \in 1 .. n : log[i] # v
  BY <1>4
<1>8. \A i, j \in 1 .. n + 1 : log'[i] = log'[j] => i = j
  BY <1>2, <1>3, <1>4, <1>7
<1>9. ExactlyOnce'
  BY <1>2, <1>6, <1>8 DEF ExactlyOnce, Version
<1>10. InOrder'
  <2> SUFFICES ASSUME NEW i \in 1 .. n + 1
               PROVE  \E p \in Process :
                        /\ log'[i] \in Files[p]
                        /\ \A u \in Files[p] : u < log'[i] => \E k \in 1 .. i - 1 : log'[k] = u
    BY <1>2 DEF InOrder
  <2>1. CASE i = n + 1
    <3>1. PICK p \in Process : v \in Files[p] /\ \A u \in Files[p] : u < v => u \in applied
      BY DEF Ready
    <3>2. ASSUME NEW u \in Files[p], u < v PROVE \E k \in 1 .. i - 1 : log'[k] = u
      <4>1. u \in applied /\ u \in Version
        BY <3>1, <3>2, FileType
      <4>2. PICK k \in 1 .. n : log[k] = u
        BY <4>1, <1>4
      <4>3. k \in 1 .. i - 1
        BY <2>1, <1>1
      <4> QED BY <4>2, <4>3, <1>2
    <3> QED BY <3>1, <3>2, <2>1, <1>2
  <2>2. CASE i \in 1 .. n
    <3>1. PICK p \in Process :
             /\ log[i] \in Files[p]
             /\ \A u \in Files[p] : u < log[i] => \E k \in 1 .. i - 1 : log[k] = u
      BY <2>2 DEF InOrder, n
    <3>2. \A k \in 1 .. i - 1 : log'[k] = log[k]
      BY <2>2, <1>1, <1>2
    <3> QED BY <3>1, <3>2, <2>2, <1>2
  <2> QED BY <2>1, <2>2, <1>3
<1> QED BY <1>1, <1>2, <1>9, <1>10 DEF TypeOK

\* The current version of the lock's holder is ready.
LEMMA CurrentReady ==
    ASSUME TypeOK, NEW p \in Process, Holder(p), pc[p] = "apply", NEW v \in Current(p)
    PROVE  v \in Version /\ v \in Files[p] /\ v \notin applied /\ Ready(v)
<1>1. v \in todo[p] /\ v \in Files[p] /\ v \notin applied
  BY DEF Holder, Current, Locked
<1>2. ASSUME NEW u \in Files[p], u < v PROVE u \in applied
  <2>1. u \notin todo[p]
    <3> SUFFICES ASSUME u \in todo[p] PROVE FALSE
      OBVIOUS
    <3>1. v <= u
      BY DEF Current
    <3> QED BY <3>1, <1>1, <1>2, FileType
  <2> QED BY <2>1 DEF Holder, Locked
<1> QED BY <1>1, <1>2, FileType DEF Ready

LEMMA MigInitInv == Init => MigInv
<1> SUFFICES ASSUME Init PROVE MigInv
  OBVIOUS
<1>1. TypeOK
  <2>1. log \in Seq(Version)
    BY DEF Init
  <2>2. faults \in 0 .. FaultLimit
    BY MigrationsAssumption DEF Init
  <2>3. /\ pc \in [Process -> {"down", "lock", "serving"} \cup Locked]
        /\ todo \in [Process -> SUBSET Version]
    BY DEF Init
  <2> QED BY <2>1, <2>2, <2>3 DEF Init, TypeOK
<1>2. Len(log) = 0
  BY DEF Init
<1>3. 1 .. Len(log) = {}
  BY <1>2
<1>4. \A p \in Process : Holder(p)
  BY DEF Init, Holder, Locked
<1> QED BY <1>1, <1>3, <1>4 DEF Init, MigInv, ExactlyOnce, NoCollision, InOrder, ServesMigrated

\* A step that leaves the database alone leaves its history and Ready alone.
LEMMA DatabaseFrame ==
    ASSUME MigInv, UNCHANGED database
    PROVE  /\ ExactlyOnce' /\ InOrder'
           /\ \A v : Ready(v) => Ready(v)'
BY DEF MigInv, ExactlyOnce, InOrder, Ready, database, Version

\* A process that is not between its statements has nothing to lose.
LEMMA OutsiderHolder ==
    ASSUME NEW q \in Process, Holder(q), pc[q] \notin Locked,
           pc'[q] = pc[q], todo'[q] = todo[q], applied \subseteq applied'
    PROVE  Holder(q)'
<1>1. pc'[q] \notin Locked /\ pc'[q] # "create" /\ pc'[q] # "unlock" /\ pc'[q] # "apply"
  BY DEF Locked
<1> QED BY <1>1 DEF Holder

\* While p or nobody has the lock, the others are outside.
LEMMA Outsiders ==
    ASSUME MigInv, NEW p \in Process, lock \in {p, FREE, DETACHED}, NEW q \in Process, q # p
    PROVE  Holder(q) /\ pc[q] \notin Locked
BY MigrationsAssumption DEF MigInv, Holder

\* Only a process that has the lock, or nobody, is between its statements.
LEMMA Insider ==
    ASSUME MigInv, NEW p \in Process, pc[p] \in Locked
    PROVE  lock = p /\ inflight = {}
BY MigrationsAssumption DEF MigInv, Holder

LEMMA StartInv == ASSUME MigInv, NEW p \in Process, Start(p) PROVE MigInv'
<1>1. TypeOK'
  BY FileType DEF MigInv, TypeOK, Start, database
<1>2. ASSUME NEW q \in Process PROVE Holder(q)'
  <2>1. CASE q = p
    BY <2>1 DEF MigInv, TypeOK, Start, Holder, Locked
  <2>2. CASE q # p
    <3>1. pc'[q] = pc[q] /\ todo'[q] = todo[q] /\ lock' = lock /\ table' = table /\ applied' = applied
      BY <2>2 DEF MigInv, TypeOK, Start, database
    <3> QED BY <3>1 DEF MigInv, Holder, Current
  <2> QED BY <2>1, <2>2
<1>3. UNCHANGED database /\ inflight' = inflight /\ lock' = lock /\ collided' = collided
  BY DEF Start
<1>4. ServesMigrated'
  BY <1>3 DEF MigInv, TypeOK, Start, ServesMigrated, database
<1>5. \A v \in inflight' : lock' = DETACHED /\ v \notin applied' /\ Ready(v)'
  BY <1>3, DatabaseFrame DEF MigInv, database
<1> QED BY <1>1, <1>2, <1>3, <1>4, <1>5, DatabaseFrame DEF MigInv, NoCollision

LEMMA AcquireLockInv == ASSUME MigInv, NEW p \in Process, AcquireLock(p) PROVE MigInv'
<1>1. TypeOK'
  BY DEF MigInv, TypeOK, AcquireLock, database, Locked
<1>2. UNCHANGED database /\ inflight' = inflight /\ lock = FREE /\ lock' = p
      /\ collided' = collided /\ todo' = todo
  BY DEF AcquireLock
<1>3. ASSUME NEW q \in Process PROVE Holder(q)'
  <2>1. CASE q = p
    <3>1. pc'[p] = "table" /\ pc[p] = "lock"
      BY DEF MigInv, TypeOK, AcquireLock
    <3> QED BY <2>1, <3>1, <1>2 DEF MigInv, Holder, Locked, database
  <2>2. CASE q # p
    <3>1. pc'[q] = pc[q]
      BY <2>2 DEF MigInv, TypeOK, AcquireLock
    <3> QED BY <3>1, <2>2, <1>2, Outsiders, OutsiderHolder DEF database
  <2> QED BY <2>1, <2>2
<1>4. inflight = {}
  BY <1>2, MigrationsAssumption DEF MigInv
<1>5. ServesMigrated'
  BY <1>2 DEF MigInv, TypeOK, AcquireLock, ServesMigrated, database
<1> QED BY <1>1, <1>2, <1>3, <1>4, <1>5, DatabaseFrame DEF MigInv, NoCollision

LEMMA LookUpTableInv == ASSUME MigInv, NEW p \in Process, LookUpTable(p) PROVE MigInv'
<1>1. TypeOK'
  BY DEF MigInv, TypeOK, LookUpTable, database, Locked
<1>2. UNCHANGED database /\ inflight' = inflight /\ lock' = lock
      /\ collided' = collided /\ todo' = todo
  BY DEF LookUpTable
<1>3. pc[p] = "table" /\ lock = p /\ inflight = {}
  BY Insider DEF LookUpTable, Locked
<1>4. ASSUME NEW q \in Process PROVE Holder(q)'
  <2>1. CASE q = p
    <3>1. pc'[p] = IF table THEN "check" ELSE "create"
      BY DEF MigInv, TypeOK, LookUpTable
    <3> QED BY <2>1, <3>1, <1>2, <1>3 DEF MigInv, Holder, Locked, database
  <2>2. CASE q # p
    <3>1. pc'[q] = pc[q]
      BY <2>2 DEF MigInv, TypeOK, LookUpTable
    <3> QED BY <3>1, <2>2, <1>2, <1>3, Outsiders, OutsiderHolder DEF database
  <2> QED BY <2>1, <2>2
<1>5. ServesMigrated'
  BY <1>2 DEF MigInv, TypeOK, LookUpTable, ServesMigrated, database
<1> QED BY <1>1, <1>2, <1>3, <1>4, <1>5, DatabaseFrame DEF MigInv, NoCollision

LEMMA CreateTableInv == ASSUME MigInv, NEW p \in Process, CreateTable(p) PROVE MigInv'
<1>1. pc[p] = "create" /\ lock = p /\ inflight = {} /\ ~table
  <2>1. pc[p] = "create"
    BY DEF CreateTable
  <2>2. ~table
    BY <2>1 DEF MigInv, Holder
  <2> QED BY <2>1, <2>2, Insider DEF Locked
<1>2. /\ table' = TRUE /\ pc' = [pc EXCEPT ![p] = "check"]
      /\ UNCHANGED <<todo, lock, applied, log, inflight, collided, faults>>
  BY <1>1 DEF CreateTable
<1>3. TypeOK'
  BY <1>2 DEF MigInv, TypeOK, Locked
<1>4. ASSUME NEW q \in Process PROVE Holder(q)'
  <2>1. CASE q = p
    <3>1. pc'[p] = "check"
      BY <1>2 DEF MigInv, TypeOK
    <3> QED BY <2>1, <3>1, <1>1, <1>2 DEF MigInv, Holder, Locked
  <2>2. CASE q # p
    <3>1. pc'[q] = pc[q]
      BY <2>2, <1>2 DEF MigInv, TypeOK
    <3> QED BY <3>1, <2>2, <1>1, <1>2, Outsiders, OutsiderHolder
  <2> QED BY <2>1, <2>2
<1>5. ServesMigrated'
  BY <1>2 DEF MigInv, TypeOK, ServesMigrated
<1>6. ExactlyOnce' /\ InOrder'
  BY <1>2 DEF MigInv, ExactlyOnce, InOrder, Version
<1> QED BY <1>1, <1>2, <1>3, <1>4, <1>5, <1>6 DEF MigInv, NoCollision

LEMMA CheckInv == ASSUME MigInv, NEW p \in Process, Check(p) PROVE MigInv'
<1>1. pc[p] = "check" /\ lock = p /\ inflight = {}
  BY Insider DEF Check, Locked
<1>2. UNCHANGED database /\ inflight' = inflight /\ lock' = lock /\ collided' = collided /\ faults' = faults
  BY DEF Check
<1>3. /\ todo[p] \subseteq Files[p] /\ Files[p] \ todo[p] \subseteq applied
  BY <1>1 DEF MigInv, Holder, Locked
<1>4. /\ pc' \in [Process -> {"down", "lock", "serving"} \cup Locked]
      /\ todo' \in [Process -> SUBSET Version]
      /\ \A q \in Process \ {p} : pc'[q] = pc[q] /\ todo'[q] = todo[q]
      /\ pc'[p] \in Locked
      /\ Holder(p)'
  <2>1. CASE todo[p] = {}
    <3>1. pc' = [pc EXCEPT ![p] = "unlock"] /\ todo' = todo
      BY <2>1 DEF Check
    <3> QED BY <3>1, <2>1, <1>1, <1>2, <1>3 DEF MigInv, TypeOK, Holder, Locked, database
  <2>2. CASE todo[p] # {}
    <3>1. PICK v \in Current(p) :
             IF v \in applied
               THEN todo' = [todo EXCEPT ![p] = @ \ {v}] /\ UNCHANGED pc
               ELSE pc' = [pc EXCEPT ![p] = "apply"] /\ UNCHANGED todo
      BY <2>2 DEF Check
    <3>2. CASE v \in applied
      <4>1. todo' = [todo EXCEPT ![p] = todo[p] \ {v}] /\ pc' = pc
        BY <3>1, <3>2 DEF MigInv, TypeOK
      <4>2. todo'[p] = todo[p] \ {v} /\ pc'[p] = "check"
        BY <4>1, <1>1 DEF MigInv, TypeOK
      <4> QED BY <4>1, <4>2, <3>2, <1>1, <1>2, <1>3 DEF MigInv, TypeOK, Holder, Locked, database
    <3>3. CASE v \notin applied
      <4>1. pc' = [pc EXCEPT ![p] = "apply"] /\ todo' = todo
        BY <3>1, <3>3
      <4>2. \A u \in Current(p) : u = v
        <5> TAKE u \in Current(p)
        <5>1. u <= v /\ v <= u
          BY DEF Current
        <5>2. u \in Nat /\ v \in Nat
          BY <1>3, FileType DEF Current
        <5> QED BY <5>1, <5>2
      <4>3. Current(p)' = Current(p)
        BY <4>1 DEF Current
      <4>4. pc'[p] = "apply"
        BY <4>1 DEF MigInv, TypeOK
      <4> QED BY <4>1, <4>2, <4>3, <4>4, <3>3, <1>1, <1>2, <1>3
              DEF MigInv, TypeOK, Holder, Locked, database
    <3> QED BY <3>2, <3>3
  <2> QED BY <2>1, <2>2
<1>5. TypeOK'
  BY <1>2, <1>4 DEF MigInv, TypeOK, database
<1>6. \A q \in Process : Holder(q)'
  BY <1>1, <1>2, <1>4, Outsiders, OutsiderHolder DEF database
<1>7. ServesMigrated'
  BY <1>2, <1>4 DEF MigInv, ServesMigrated, Locked, database
<1> QED BY <1>1, <1>2, <1>5, <1>6, <1>7, DatabaseFrame DEF MigInv, NoCollision

LEMMA ApplyInv == ASSUME MigInv, NEW p \in Process, Apply(p) PROVE MigInv'
<1>1. pc[p] = "apply" /\ lock = p /\ inflight = {} /\ Holder(p)
  BY Insider DEF MigInv, Apply, Locked
<1>2. PICK v \in Current(p) :
         IF v \in applied
           THEN collided' = TRUE /\ ReturnError(p) /\ UNCHANGED <<applied, log>>
           ELSE /\ Takes(v)
                /\ pc' = [pc EXCEPT ![p] = "check"]
                /\ todo' = [todo EXCEPT ![p] = @ \ {v}]
                /\ UNCHANGED <<lock, inflight, collided>>
  BY DEF Apply
<1>3. v \in Version /\ v \in Files[p] /\ v \notin applied /\ Ready(v)
  BY <1>1, CurrentReady DEF MigInv
<1>4. /\ Takes(v) /\ pc' = [pc EXCEPT ![p] = "check"]
      /\ todo' = [todo EXCEPT ![p] = todo[p] \ {v}]
      /\ UNCHANGED <<lock, inflight, collided, table, faults>>
  BY <1>2, <1>3 DEF Apply
<1>5. /\ ExactlyOnce' /\ InOrder'
      /\ applied' \subseteq Version /\ log' \in Seq(Version)
  BY <1>3, <1>4, TakesKeepsHistory DEF MigInv
<1>6. applied' = applied \cup {v}
  BY <1>4 DEF Takes
<1>7. TypeOK'
  BY <1>4, <1>5 DEF MigInv, TypeOK, Locked
<1>8. ASSUME NEW q \in Process PROVE Holder(q)'
  <2>1. CASE q = p
    <3>1. pc'[p] = "check" /\ todo'[p] = todo[p] \ {v}
      BY <1>4 DEF MigInv, TypeOK
    <3> QED BY <2>1, <3>1, <1>1, <1>4, <1>6 DEF Holder, Locked
  <2>2. CASE q # p
    <3>1. pc'[q] = pc[q] /\ todo'[q] = todo[q]
      BY <2>2, <1>4 DEF MigInv, TypeOK
    <3> QED BY <3>1, <2>2, <1>1, <1>6, Outsiders, OutsiderHolder
  <2> QED BY <2>1, <2>2
<1>9. ServesMigrated'
  BY <1>4, <1>6 DEF MigInv, TypeOK, ServesMigrated
<1> QED BY <1>1, <1>4, <1>5, <1>7, <1>8, <1>9 DEF MigInv, NoCollision

\* p leaves the locked region and gives the lock to l, with the database alone
\* and no COMMIT left behind but the one of a version that is ready.
LEMMA LeaveInv ==
    ASSUME MigInv, NEW p \in Process, NEW s \in {"down", "serving"},
           s = "serving" => pc[p] = "unlock",
           pc' = [pc EXCEPT ![p] = s], UNCHANGED <<todo, database, collided>>,
           faults' \in 0 .. FaultLimit,
           lock' = lock \/ (lock = p /\ lock' \in {FREE, DETACHED}),
           lock = p => lock' # p,
           inflight' = inflight \/ (inflight' = {} /\ lock = p)
             \/ (inflight' = Current(p) /\ pc[p] = "apply" /\ lock = p /\ lock' = DETACHED)
    PROVE  MigInv'
<1>1. inflight' \subseteq Version /\ \A v \in inflight' : v \notin applied /\ Ready(v)
  <2>1. CASE inflight' = inflight
    BY <2>1 DEF MigInv, TypeOK
  <2>2. CASE inflight' = {}
    BY <2>2
  <2>3. CASE inflight' = Current(p) /\ pc[p] = "apply"
    BY <2>3, CurrentReady DEF MigInv
  <2> QED BY <2>1, <2>2, <2>3
<1>2. TypeOK'
  BY <1>1, MigrationsAssumption DEF MigInv, TypeOK, database
<1>3. ASSUME NEW q \in Process PROVE Holder(q)'
  <2>1. CASE q = p
    <3>1. pc'[p] = s
      BY DEF MigInv, TypeOK
    <3> QED BY <2>1, <3>1 DEF Holder, Locked
  <2>2. CASE q # p
    <3>1. pc'[q] = pc[q] /\ todo'[q] = todo[q] /\ table' = table /\ applied' = applied
      BY <2>2 DEF MigInv, TypeOK, database
    <3>2. CASE lock = p
      BY <3>1, <3>2, <2>2, Outsiders, OutsiderHolder
    <3>3. CASE lock # p
      BY <3>1, <3>3 DEF MigInv, Holder, Current
    <3> QED BY <3>2, <3>3
  <2> QED BY <2>1, <2>2
<1>4. ServesMigrated'
  <2>1. s = "serving" => Files[p] \subseteq applied
    BY DEF MigInv, Holder, Locked
  <2> QED BY <2>1 DEF MigInv, TypeOK, ServesMigrated, database
<1>5. \A v \in inflight' : lock' = DETACHED
  <2>1. CASE inflight' = inflight
    BY <2>1, MigrationsAssumption DEF MigInv
  <2> QED BY <2>1
<1> QED BY <1>1, <1>2, <1>3, <1>4, <1>5, DatabaseFrame DEF MigInv, NoCollision, database

LEMMA UnlockInv == ASSUME MigInv, NEW p \in Process, Unlock(p) PROVE MigInv'
<1>1. pc[p] = "unlock" /\ lock = p /\ inflight = {}
  BY Insider DEF Unlock, Locked
<1> QED BY <1>1, LeaveInv, MigrationsAssumption DEF Unlock, MigInv, TypeOK

LEMMA FailInv == ASSUME MigInv, NEW p \in Process, Fail(p) PROVE MigInv'
<1>1. faults' \in 0 .. FaultLimit
  BY MigrationsAssumption DEF Fail, Fault, MigInv, TypeOK
<1> QED BY <1>1, LeaveInv, MigrationsAssumption DEF Fail, ReturnError

LEMMA DetachInv ==
    ASSUME MigInv, NEW p \in Process, Crash(p) \/ UnlockLost(p)
    PROVE  MigInv'
<1>1. faults' \in 0 .. FaultLimit
  BY MigrationsAssumption DEF Crash, UnlockLost, Fault, MigInv, TypeOK
<1>2. PICK s \in {"down", "serving"} :
         pc' = [pc EXCEPT ![p] = s] /\ (s = "serving" => pc[p] = "unlock")
  BY DEF Crash, UnlockLost
<1>3. Detach(p)
  BY DEF Crash, UnlockLost
<1> QED BY <1>1, <1>2, <1>3, LeaveInv, MigrationsAssumption DEF Detach

LEMMA SessionEndsInv == MigInv /\ SessionEnds => MigInv'
<1> SUFFICES ASSUME MigInv, SessionEnds PROVE MigInv'
  OBVIOUS
<1>1. /\ lock = DETACHED /\ lock' = FREE /\ inflight' = {}
      /\ UNCHANGED <<pc, todo, table, faults, collided>>
  BY DEF SessionEnds
<1>2. /\ ExactlyOnce' /\ InOrder' /\ applied \subseteq applied'
      /\ applied' \subseteq Version /\ log' \in Seq(Version)
  <2>1. CASE UNCHANGED <<applied, log>>
    BY <2>1 DEF MigInv, TypeOK, ExactlyOnce, InOrder, Version
  <2>2. CASE \E v \in inflight : Takes(v)
    <3>1. PICK v \in inflight : Takes(v)
      BY <2>2
    <3>2. v \in Version /\ v \notin applied /\ Ready(v)
      BY DEF MigInv, TypeOK
    <3>3. applied \subseteq applied'
      BY <3>1 DEF Takes
    <3> QED BY <3>1, <3>2, <3>3, TakesKeepsHistory DEF MigInv
  <2> QED BY <2>1, <2>2 DEF SessionEnds
<1>3. TypeOK'
  BY <1>1, <1>2 DEF MigInv, TypeOK
<1>4. ASSUME NEW q \in Process PROVE Holder(q)'
  <2>1. Holder(q) /\ pc[q] \notin Locked
    BY <1>1, MigrationsAssumption DEF MigInv, Holder
  <2> QED BY <2>1, <1>1, <1>2, OutsiderHolder
<1>5. ServesMigrated'
  BY <1>1, <1>2 DEF MigInv, ServesMigrated
<1> QED BY <1>1, <1>2, <1>3, <1>4, <1>5 DEF MigInv, NoCollision

LEMMA MigSpecInv == Spec => []MigInv
<1>1. MigInv /\ UNCHANGED vars => MigInv'
  BY DEF MigInv, TypeOK, Holder, Ready, Current, ExactlyOnce, NoCollision, InOrder,
         ServesMigrated, Version, vars
<1>2. MigInv /\ [Next]_vars => MigInv'
  BY <1>1, StartInv, AcquireLockInv, LookUpTableInv, CreateTableInv, CheckInv, ApplyInv,
     UnlockInv, FailInv, DetachInv, SessionEndsInv DEF Next, Step
<1> QED BY <1>2, MigInitInv, PTL DEF Spec

\* No version's body takes effect twice, or without its row, or a row without
\* its body, however many processes start, fail and die (RunMigrations).
THEOREM MigrationsExactlyOnce == Spec => []ExactlyOnce
<1>1. MigInv => ExactlyOnce
  BY DEF MigInv
<1> QED BY <1>1, MigSpecInv, PTL

\* Concurrent starts never fail on each other's DDL (RunMigrations).
THEOREM MigrationsNeverCollide == Spec => []NoCollision
<1>1. MigInv => NoCollision
  BY DEF MigInv
<1> QED BY <1>1, MigSpecInv, PTL

\* Versions are applied in the order of a directory that holds them.
THEOREM MigrationsInOrder == Spec => []InOrder
<1>1. MigInv => InOrder
  BY DEF MigInv
<1> QED BY <1>1, MigSpecInv, PTL

\* A process serves only on a schema that has all of its files (main).
THEOREM MigratedBeforeServing == Spec => []ServesMigrated
<1>1. MigInv => ServesMigrated
  BY DEF MigInv
<1> QED BY <1>1, MigSpecInv, PTL

\* The type invariant of Migrations.
THEOREM MigrationsTypeCorrect == Spec => []TypeOK
<1>1. MigInv => TypeOK
  BY DEF MigInv
<1> QED BY <1>1, MigSpecInv, PTL

-----------------------------------------------------------------------------
(* RateLimiter.  WindowBound and RefusedAtTheBound speak of all windows at *)
(* once; the inductive invariant ties every window to what is left in the  *)
(* bucket: the requests since i and the tokens left never exceed a full    *)
(* bucket and the refill since i (Budget), with equality for the window    *)
(* that started when the bucket was last full (Tight).                     *)

USE SMTT(20), ZenonT(20)

\* What the window from i, with n requests admitted, has spent and may spend.
Spent(n, i) == (n - i + 1) * Unit
Earned(t, s) == Full + Rate * (t - s)

Budget(c) ==
    \A i \in 1 .. Len(admitted[c]) :
       /\ admitted[c][i] <= buckets[c].lastRefill
       /\ Spent(Len(admitted[c]), i) + buckets[c].tokens
             <= Earned(buckets[c].lastRefill, admitted[c][i])

Tight(c) ==
    \E i \in 1 .. Len(admitted[c]) :
       Spent(Len(admitted[c]), i) + buckets[c].tokens
          = Earned(buckets[c].lastRefill, admitted[c][i])

LimiterInv ==
    /\ LimiterTypeOK
    /\ \A c \in Client :
          /\ buckets[c].lastRefill <= now
          /\ buckets[c].lastRefill = -1 => admitted[c] = <<>>
          /\ buckets[c].lastRefill # -1 => Tight(c)
          /\ Budget(c)
    /\ WindowBound
    /\ RefusedAtTheBound

\* A full bucket is a natural number of fractions, and at least one token.
LEMMA FullType == Full \in Nat /\ Unit <= Full /\ Unit \in Nat \ {0} /\ Rate \in Nat
<1>1. Unit \in Nat \ {0} /\ Burst \in Nat \ {0} /\ Rate \in Nat
  BY LimiterAssumption
<1>2. \A u, b \in Nat \ {0} : b * u \in Nat /\ u <= b * u
  BY SMT
<1> QED BY <1>1, <1>2 DEF Full

\* One more request costs the window one token.
LEMMA SpentStep ==
    ASSUME NEW n \in Nat, NEW i \in Nat
    PROVE  /\ Spent(n, i) \in Int
           /\ Spent(n + 1, i) = Spent(n, i) + Unit
           /\ Spent(n, n) = Unit
           /\ (n - i + 2) * Unit = Spent(n, i) + Unit
BY FullType DEF Spent

\* A refill is a natural number of fractions.
LEMMA RefillType ==
    ASSUME NEW t \in Int, NEW r \in Int, r <= t
    PROVE  (t - r) * Rate \in Nat
BY FullType

\* Time earns a window Rate for each tick.
LEMMA EarnedStep ==
    ASSUME NEW t \in Int, NEW s \in Int, NEW r \in Int
    PROVE  /\ Earned(t, s) \in Int
           /\ Earned(t, s) = Earned(r, s) + (t - r) * Rate
           /\ Earned(s, s) = Full
BY FullType DEF Earned

\* What Refilled returns: no more than a full bucket and no more than the old
\* tokens and the refill; exactly that when it is not capped.
LEMMA RefilledFacts ==
    ASSUME LimiterTypeOK, NEW c \in Client, buckets[c].lastRefill <= now
    PROVE  /\ Refilled(buckets[c]) \in 0 .. Full
           /\ buckets[c].lastRefill = -1 => Refilled(buckets[c]) = Full
           /\ buckets[c].lastRefill # -1 =>
                /\ Refilled(buckets[c])
                     <= buckets[c].tokens + (now - buckets[c].lastRefill) * Rate
                /\ Refilled(buckets[c]) # Full =>
                     Refilled(buckets[c])
                       = buckets[c].tokens + (now - buckets[c].lastRefill) * Rate
<1> DEFINE b == buckets[c]
<1>1. /\ b.tokens \in 0 .. Full /\ b.lastRefill \in Int /\ now \in Int
      /\ b.lastRefill <= now
  BY LimiterAssumption DEF LimiterTypeOK
<1>2. (now - b.lastRefill) * Rate \in Nat
  BY <1>1, RefillType
<1> HIDE DEF b
<1> DEFINE g == (now - b.lastRefill) * Rate
<1>3. /\ Refilled(b) = IF b.lastRefill = -1 THEN Full
                       ELSE IF b.tokens + g > Full THEN Full ELSE b.tokens + g
  BY DEF Refilled
<1>4. g \in Nat
  BY <1>2
<1> HIDE DEF g
<1>5. /\ Refilled(b) \in 0 .. Full
      /\ b.lastRefill = -1 => Refilled(b) = Full
      /\ b.lastRefill # -1 =>
           /\ Refilled(b) <= b.tokens + g
           /\ Refilled(b) # Full => Refilled(b) = b.tokens + g
  BY <1>1, <1>3, <1>4, FullType
<1> QED BY <1>5 DEF b, g

\* The windows of c after one of its requests: the budget holds for the old
\* windows and the new one, some window is tight, and a 429 is at the bound.
LEMMA AllowKeepsWindows ==
    ASSUME LimiterInv, NEW c \in Client, Allow(c)
    PROVE  /\ Budget(c)' /\ Tight(c)'
           /\ \A i \in 1 .. Len(admitted'[c]) :
                 Spent(Len(admitted'[c]), i)
                    <= Earned(admitted'[c][Len(admitted'[c])], admitted'[c][i])
                 \/ admitted'[c] = admitted[c]
           /\ refused'[c] =>
                 \E i \in 1 .. Len(admitted'[c]) :
                    (Len(admitted'[c]) - i + 2) * Unit
                       > Full + Rate * (now' - admitted'[c][i])
<1> DEFINE b == buckets[c]
           t == Refilled(b)
           a == admitted[c]
           n == Len(a)
           g == (now - b.lastRefill) * Rate
<1>1. /\ b.tokens \in Nat /\ b.lastRefill \in Int /\ now \in Nat
      /\ a \in Seq(0 .. MaxTime) /\ b.lastRefill <= now /\ now' = now
      /\ refused \in [Client -> BOOLEAN]
  BY LimiterAssumption, FullType DEF LimiterInv, LimiterTypeOK, Allow
<1>2. n \in Nat /\ \A i \in 1 .. n : a[i] \in Int
  <2>1. \A s \in Seq(0 .. MaxTime) : Len(s) \in Nat /\ \A i \in 1 .. Len(s) : s[i] \in Int
    BY LimiterAssumption
  <2> QED BY <1>1, <2>1
<1>3. /\ t \in Nat /\ t <= Full
      /\ b.lastRefill = -1 => t = Full
      /\ b.lastRefill # -1 => t <= b.tokens + g /\ (t # Full => t = b.tokens + g)
  BY RefilledFacts, FullType DEF LimiterInv
<1>4. /\ buckets'[c] = [tokens |-> IF t < Unit THEN t ELSE t - Unit, lastRefill |-> now]
      /\ admitted'[c] = IF t < Unit THEN a ELSE Append(a, now)
      /\ refused'[c] = (t < Unit)
  BY DEF Allow, LimiterInv, LimiterTypeOK
<1>5. /\ b.lastRefill = -1 => a = <<>>
      /\ b.lastRefill # -1 => \E i \in 1 .. n : Spent(n, i) + b.tokens = Earned(b.lastRefill, a[i])
      /\ \A i \in 1 .. n : a[i] <= b.lastRefill /\ Spent(n, i) + b.tokens <= Earned(b.lastRefill, a[i])
  BY DEF LimiterInv, Budget, Tight
<1>6. g \in Nat /\ \A i \in 1 .. n : /\ Earned(now, a[i]) = Earned(b.lastRefill, a[i]) + g
                                   /\ Earned(now, a[i]) \in Int
                                   /\ Earned(b.lastRefill, a[i]) \in Int
  <2>1. (now - b.lastRefill) * Rate \in Nat
    BY <1>1, RefillType
  <2> HIDE DEF b, a, n
  <2>2. ASSUME NEW i \in 1 .. n
        PROVE  /\ Earned(now, a[i]) = Earned(b.lastRefill, a[i]) + g
               /\ Earned(now, a[i]) \in Int
               /\ Earned(b.lastRefill, a[i]) \in Int
    BY <1>1, <1>2, EarnedStep
  <2> QED BY <2>1, <2>2
<1>7. \A i \in 1 .. n + 1 : /\ Spent(n, i) \in Int
                           /\ Spent(n + 1, i) = Spent(n, i) + Unit
                           /\ (n - i + 2) * Unit = Spent(n, i) + Unit
  <2> HIDE DEF n
  <2> TAKE i \in 1 .. n + 1
  <2>1. i \in Nat
    BY <1>2
  <2> QED BY <2>1, <1>2, SpentStep
<1>8. \A m \in Nat : Spent(m, m) = Unit
  BY SpentStep
<1>9. Earned(now, now) = Full
  BY <1>1, EarnedStep
<1> HIDE DEF b, t, a, n, g
\* The windows at the old number of requests, once the refill is in.
<1>10. b.lastRefill = -1 => n = 0
  BY <1>5 DEF n
<1>11. \A i \in 1 .. n : Spent(n, i) + t <= Earned(now, a[i]) /\ a[i] <= now
  <2> TAKE i \in 1 .. n
  <2>1. b.lastRefill # -1
    BY <1>2, <1>10
  <2>2. Spent(n, i) + b.tokens <= Earned(b.lastRefill, a[i]) /\ a[i] <= b.lastRefill
    BY <1>5
  <2>3. Spent(n, i) \in Int /\ a[i] \in Int
    BY <1>7, <1>2
  <2>4. /\ Earned(now, a[i]) = Earned(b.lastRefill, a[i]) + g /\ g \in Nat
        /\ Earned(b.lastRefill, a[i]) \in Int
    BY <1>6
  <2>5. t \in Nat /\ t <= b.tokens + g /\ b.tokens \in Nat
    BY <2>1, <1>1, <1>3
  <2>6. a[i] <= now
    BY <1>1, <2>2, <2>3
  <2> DEFINE spent == Spent(n, i)
             old == Earned(b.lastRefill, a[i])
             new == Earned(now, a[i])
             left == b.tokens
  <2>7. /\ spent \in Int /\ old \in Int /\ g \in Nat /\ t \in Nat /\ left \in Nat
        /\ spent + left <= old /\ new = old + g /\ t <= left + g
    BY <2>2, <2>3, <2>4, <2>5
  <2> HIDE DEF spent, old, new, left
  <2>8. spent + t <= new
    BY <2>7
  <2> QED BY <2>6, <2>8 DEF spent, new
<1>12. CASE t < Unit
  <2>1. t # Full
    BY <1>12, <1>3, FullType
  <2>2. b.lastRefill # -1 /\ t = b.tokens + g
    BY <2>1, <1>3
  <2>3. PICK i \in 1 .. n : Spent(n, i) + b.tokens = Earned(b.lastRefill, a[i])
    BY <2>2, <1>5
  <2>4. Spent(n, i) \in Int /\ (n - i + 2) * Unit = Spent(n, i) + Unit
    BY <1>7, <1>2
  <2>5. Spent(n, i) + t = Earned(now, a[i])
    <3>1. Earned(now, a[i]) = Earned(b.lastRefill, a[i]) + g /\ g \in Nat
      BY <1>6
    <3> QED BY <3>1, <2>2, <2>3, <2>4, <1>1
  <2>6. (n - i + 2) * Unit > Full + Rate * (now - a[i])
    BY <2>4, <2>5, <1>12, <1>3, <1>6, FullType DEF Earned
  <2>7. admitted'[c] = a /\ buckets'[c].tokens = t /\ buckets'[c].lastRefill = now
    BY <1>4, <1>12
  <2>8. Len(admitted'[c]) = n
    BY <2>7 DEF n
  <2>9. Budget(c)' /\ Tight(c)'
    BY <2>5, <2>7, <2>8, <1>11 DEF Budget, Tight
  <2> QED BY <2>6, <2>7, <2>8, <2>9, <1>1 DEF a
<1>13. CASE ~(t < Unit)
  <2>1. /\ admitted'[c] = Append(a, now) /\ buckets'[c].tokens = t - Unit
        /\ buckets'[c].lastRefill = now /\ ~refused'[c]
    <3>1. buckets'[c] = [tokens |-> t - Unit, lastRefill |-> now]
      BY <1>4, <1>13
    <3>2. ~refused'[c]
      BY <1>4, <1>13, Zenon
    <3> QED BY <3>1, <3>2, <1>4, <1>13
  <2>2. Len(admitted'[c]) = n + 1 /\ admitted'[c][n + 1] = now
    BY <2>1, <1>1 DEF n, a
  <2>3. \A i \in 1 .. n : admitted'[c][i] = a[i]
    BY <2>1, <1>1, <1>2 DEF n
  <2>4. \A i \in 1 .. n + 1 : i = n + 1 \/ i \in 1 .. n
    BY <1>2
  <2>5. Spent(n + 1, n + 1) = Unit
    BY <1>8, <1>2
  <2>6. \A i \in 1 .. n + 1 : /\ admitted'[c][i] <= now
                             /\ Spent(n + 1, i) + (t - Unit) <= Earned(now, admitted'[c][i])
    <3> TAKE i \in 1 .. n + 1
    <3>1. CASE i = n + 1
      BY <3>1, <2>2, <2>5, <1>1, <1>3, <1>9, FullType
    <3>2. CASE i \in 1 .. n
      BY <3>2, <2>3, <1>3, <1>6, <1>7, <1>11, FullType
    <3> QED BY <3>1, <3>2, <2>4
  <2>7. \E i \in 1 .. n + 1 : Spent(n + 1, i) + (t - Unit) = Earned(now, admitted'[c][i])
    <3>1. CASE t = Full
      <4>1. Spent(n + 1, n + 1) + (t - Unit) = Earned(now, admitted'[c][n + 1])
        BY <3>1, <2>2, <2>5, <1>9, FullType
      <4> QED BY <4>1, <1>2
    <3>2. CASE t # Full
      <4>1. b.lastRefill # -1 /\ t = b.tokens + g
        BY <3>2, <1>3
      <4>2. PICK i \in 1 .. n : Spent(n, i) + b.tokens = Earned(b.lastRefill, a[i])
        BY <4>1, <1>5
      <4>3. i \in 1 .. n + 1 /\ Spent(n, i) \in Int /\ Spent(n + 1, i) = Spent(n, i) + Unit
        BY <1>7, <1>2
      <4>4. Spent(n + 1, i) + (t - Unit) = Earned(now, admitted'[c][i])
        <5>1. Earned(now, a[i]) = Earned(b.lastRefill, a[i]) + g /\ g \in Nat
          BY <1>6
        <5>2. admitted'[c][i] = a[i]
          BY <2>3
        <5> QED BY <5>1, <5>2, <4>1, <4>2, <4>3, <1>1, FullType
      <4> QED BY <4>3, <4>4
    <3> QED BY <3>1, <3>2
  <2>8. Budget(c)' /\ Tight(c)'
    BY <2>1, <2>2, <2>6, <2>7 DEF Budget, Tight
  <2>9. \A i \in 1 .. n + 1 : Spent(n + 1, i) <= Earned(now, admitted'[c][i])
    <3> TAKE i \in 1 .. n + 1
    <3>1. Spent(n + 1, i) \in Int
      BY <1>7, FullType
    <3>2. Earned(now, admitted'[c][i]) \in Int
      BY <2>2, <2>3, <2>4, <1>6, <1>9, FullType
    <3> QED BY <3>1, <3>2, <2>6, <1>3, <1>13, FullType
  <2> QED BY <2>1, <2>2, <2>8, <2>9
<1> QED BY <1>12, <1>13

\* A request keeps the types.
LEMMA AllowType ==
    ASSUME LimiterInv, NEW c \in Client, Allow(c)
    PROVE  LimiterTypeOK'
<1> DEFINE t == Refilled(buckets[c])
<1>1. t \in 0 .. Full
  BY RefilledFacts DEF LimiterInv
<1>2. now \in 0 .. MaxTime /\ MaxTime \in Nat
  BY LimiterAssumption DEF LimiterInv, LimiterTypeOK
<1>3. admitted[c] \in Seq(0 .. MaxTime)
  BY DEF LimiterInv, LimiterTypeOK
<1>4. Append(admitted[c], now) \in Seq(0 .. MaxTime)
  BY <1>2, <1>3
<1> HIDE DEF t
<1>5. [tokens |-> IF t < Unit THEN t ELSE t - Unit, lastRefill |-> now]
         \in [tokens: 0 .. Full, lastRefill: -1 .. MaxTime]
  BY <1>1, <1>2, FullType
<1>6. buckets' \in [Client -> [tokens: 0 .. Full, lastRefill: -1 .. MaxTime]]
  BY <1>5 DEF LimiterInv, LimiterTypeOK, Allow, t
<1>7. admitted' \in [Client -> Seq(0 .. MaxTime)]
  BY <1>3, <1>4 DEF LimiterInv, LimiterTypeOK, Allow
<1>8. refused' \in [Client -> BOOLEAN]
  BY DEF LimiterInv, LimiterTypeOK, Allow
<1> QED BY <1>2, <1>6, <1>7, <1>8 DEF LimiterTypeOK, Allow

LEMMA LimiterInitInv == LimiterInit => LimiterInv
<1> SUFFICES ASSUME LimiterInit PROVE LimiterInv
  OBVIOUS
<1>1. LimiterTypeOK
  BY LimiterAssumption, FullType DEF LimiterInit, NoBucket, LimiterTypeOK
<1>2. \A c \in Client : Len(admitted[c]) = 0 /\ admitted[c] = <<>>
  BY DEF LimiterInit
<1>3. \A c \in Client : 1 .. Len(admitted[c]) = {}
  <2> TAKE c \in Client
  <2>1. Len(admitted[c]) = 0
    BY <1>2
  <2> QED BY <2>1
<1> QED BY <1>1, <1>2, <1>3 DEF LimiterInit, NoBucket, LimiterInv, Budget, WindowBound, RefusedAtTheBound

LEMMA TickInv == LimiterInv /\ Tick => LimiterInv'
<1> SUFFICES ASSUME LimiterInv, Tick PROVE LimiterInv'
  OBVIOUS
<1>1. now \in Nat /\ now' = now + 1 /\ buckets' = buckets /\ admitted' = admitted
  BY LimiterAssumption DEF LimiterInv, LimiterTypeOK, Tick
<1>2. LimiterTypeOK'
  BY LimiterAssumption DEF LimiterInv, LimiterTypeOK, Tick
<1>3. \A c \in Client : ~refused'[c]
  BY DEF Tick
<1>4. \A c \in Client : buckets[c].lastRefill \in Int
  <2> TAKE c \in Client
  <2>1. buckets[c] \in [tokens: 0 .. Full, lastRefill: -1 .. MaxTime]
    BY DEF LimiterInv, LimiterTypeOK
  <2>2. buckets[c].lastRefill \in -1 .. MaxTime
    BY <2>1
  <2> QED BY <2>2, LimiterAssumption
<1>5. WindowBound'
  BY <1>1 DEF LimiterInv, WindowBound
<1>6. RefusedAtTheBound'
  BY <1>3 DEF RefusedAtTheBound
<1> QED BY <1>1, <1>2, <1>4, <1>5, <1>6 DEF LimiterInv, Budget, Tight

LEMMA AllowInv == ASSUME LimiterInv, NEW c \in Client, Allow(c) PROVE LimiterInv'
<1>1. LimiterTypeOK'
  BY AllowType
<1>2. \A d \in Client \ {c} : /\ buckets'[d] = buckets[d] /\ admitted'[d] = admitted[d]
                             /\ refused'[d] = refused[d]
  BY DEF LimiterInv, LimiterTypeOK, Allow
<1>3. now' = now /\ buckets'[c].lastRefill = now /\ now # -1
  BY DEF LimiterInv, LimiterTypeOK, Allow
<1>4. Budget(c)' /\ Tight(c)'
  BY AllowKeepsWindows
<1>5. ASSUME NEW d \in Client
      PROVE  /\ buckets'[d].lastRefill <= now'
             /\ buckets'[d].lastRefill = -1 => admitted'[d] = <<>>
             /\ buckets'[d].lastRefill # -1 => Tight(d)'
             /\ Budget(d)'
  <2>1. CASE d = c
    BY <2>1, <1>3, <1>4 DEF LimiterInv, LimiterTypeOK
  <2>2. CASE d # c
    BY <2>2, <1>2, <1>3 DEF LimiterInv, Budget, Tight
  <2> QED BY <2>1, <2>2
<1>6. WindowBound'
  <2> SUFFICES ASSUME NEW d \in Client, NEW j \in 1 .. Len(admitted'[d]), NEW i \in 1 .. j
               PROVE  (j - i + 1) * Unit <= Full + Rate * (admitted'[d][j] - admitted'[d][i])
    BY DEF WindowBound, Full
  <2>1. CASE admitted'[d] = admitted[d]
    BY <2>1 DEF LimiterInv, WindowBound
  <2>2. CASE admitted'[d] # admitted[d]
    <3> DEFINE n == Len(admitted[c])
    <3>1. d = c /\ admitted'[c] = Append(admitted[c], now) /\ admitted[c] \in Seq(0 .. MaxTime)
      BY <2>2, <1>2 DEF Allow, LimiterInv, LimiterTypeOK
    <3>2. /\ n \in Nat /\ Len(admitted'[c]) = n + 1
          /\ \A k \in 1 .. n : admitted'[c][k] = admitted[c][k]
      BY <3>1
    <3>3. CASE j = n + 1
      <4>1. i \in 1 .. Len(admitted'[c])
        BY <3>1, <3>2
      <4>2. Spent(Len(admitted'[c]), i)
              <= Earned(admitted'[c][Len(admitted'[c])], admitted'[c][i])
        BY <4>1, <3>1, <2>2, AllowKeepsWindows
      <4> QED BY <4>2, <3>1, <3>2, <3>3 DEF Spent, Earned
    <3>4. CASE j # n + 1
      <4>1. j \in 1 .. n /\ i \in 1 .. n
        BY <3>1, <3>2, <3>4
      <4> QED BY <4>1, <3>1, <3>2 DEF LimiterInv, WindowBound
    <3> QED BY <3>3, <3>4
  <2> QED BY <2>1, <2>2
<1>7. RefusedAtTheBound'
  <2> SUFFICES ASSUME NEW d \in Client, refused'[d]
               PROVE  \E i \in 1 .. Len(admitted'[d]) :
                        (Len(admitted'[d]) - i + 2) * Unit
                           > Full + Rate * (now' - admitted'[d][i])
    BY DEF RefusedAtTheBound, Full
  <2>1. CASE d = c
    BY <2>1, AllowKeepsWindows
  <2>2. CASE d # c
    BY <2>2, <1>2, <1>3 DEF LimiterInv, RefusedAtTheBound
  <2> QED BY <2>1, <2>2
<1> QED BY <1>1, <1>5, <1>6, <1>7 DEF LimiterInv

\* Forgetting buckets together with their windows keeps the invariant.
LEMMA ForgetInv == ASSUME LimiterInv, NEW D \in SUBSET Client, Forget(D) PROVE LimiterInv'
<1>1. /\ now' = now
      /\ \A c \in Client \ D : /\ buckets'[c] = buckets[c] /\ admitted'[c] = admitted[c]
                               /\ refused'[c] = refused[c]
      /\ \A c \in D : buckets'[c] = NoBucket /\ admitted'[c] = <<>> /\ ~refused'[c]
  BY DEF Forget
<1>2. LimiterTypeOK'
  <2>1. NoBucket \in [tokens: 0 .. Full, lastRefill: -1 .. MaxTime]
    BY LimiterAssumption, FullType DEF NoBucket
  <2>2. buckets' \in [Client -> [tokens: 0 .. Full, lastRefill: -1 .. MaxTime]]
    BY <2>1 DEF Forget, LimiterInv, LimiterTypeOK
  <2>3. <<>> \in Seq(0 .. MaxTime)
    OBVIOUS
  <2>4. admitted' \in [Client -> Seq(0 .. MaxTime)]
    BY <2>3 DEF Forget, LimiterInv, LimiterTypeOK
  <2>5. refused' \in [Client -> BOOLEAN]
    BY DEF Forget, LimiterInv, LimiterTypeOK
  <2> QED BY <1>1, <2>2, <2>4, <2>5 DEF LimiterInv, LimiterTypeOK
<1>3. \A c \in D : 1 .. Len(admitted'[c]) = {}
  <2> TAKE c \in D
  <2>1. admitted'[c] = <<>> /\ Len(<<>>) = 0
    BY <1>1
  <2> QED BY <2>1
<1>4. ASSUME NEW c \in Client
      PROVE  /\ buckets'[c].lastRefill <= now'
             /\ buckets'[c].lastRefill = -1 => admitted'[c] = <<>>
             /\ buckets'[c].lastRefill # -1 => Tight(c)'
             /\ Budget(c)'
  <2>1. CASE c \in D
    BY <2>1, <1>1, <1>3 DEF LimiterInv, LimiterTypeOK, Budget, NoBucket
  <2>2. CASE c \notin D
    BY <2>2, <1>1 DEF LimiterInv, Budget, Tight
  <2> QED BY <2>1, <2>2
<1>5. WindowBound'
  <2> SUFFICES ASSUME NEW c \in Client, NEW j \in 1 .. Len(admitted'[c]), NEW i \in 1 .. j
               PROVE  (j - i + 1) * Unit <= Full + Rate * (admitted'[c][j] - admitted'[c][i])
    BY DEF WindowBound, Full
  <2>1. c \notin D
    BY <1>3
  <2> QED BY <2>1, <1>1 DEF LimiterInv, WindowBound
<1>6. RefusedAtTheBound'
  <2> SUFFICES ASSUME NEW c \in Client, refused'[c]
               PROVE  \E i \in 1 .. Len(admitted'[c]) :
                        (Len(admitted'[c]) - i + 2) * Unit
                           > Full + Rate * (now' - admitted'[c][i])
    BY DEF RefusedAtTheBound, Full
  <2>1. c \notin D
    BY <1>1
  <2> QED BY <2>1, <1>1 DEF LimiterInv, RefusedAtTheBound
<1> QED BY <1>2, <1>4, <1>5, <1>6 DEF LimiterInv

LEMMA LimiterSpecInv == LimiterSpec => []LimiterInv
<1>1. LimiterInv /\ UNCHANGED limiter => LimiterInv'
  BY DEF LimiterInv, LimiterTypeOK, Budget, Tight, WindowBound, RefusedAtTheBound, limiter
<1>2. LimiterInv /\ [LimiterNext]_limiter => LimiterInv'
  BY <1>1, TickInv, AllowInv, ForgetInv DEF LimiterNext
<1> QED BY <1>2, LimiterInitInv, PTL DEF LimiterSpec

\* No window admits more than a full bucket and its refill, for every rate and
\* burst and any interleaving of any number of clients (allow).
THEOREM LimiterBounds == LimiterSpec => []WindowBound
<1>1. LimiterInv => WindowBound
  BY DEF LimiterInv
<1> QED BY <1>1, LimiterSpecInv, PTL

\* A 429 is only ever given at that bound (allow).
THEOREM LimiterIsExact == LimiterSpec => []RefusedAtTheBound
<1>1. LimiterInv => RefusedAtTheBound
  BY DEF LimiterInv
<1> QED BY <1>1, LimiterSpecInv, PTL

\* Buckets are never overdrawn or overfull (allow).
THEOREM LimiterTypeCorrect == LimiterSpec => []LimiterTypeOK
<1>1. LimiterInv => LimiterTypeOK
  BY DEF LimiterInv
<1> QED BY <1>1, LimiterSpecInv, PTL

-----------------------------------------------------------------------------
(* ApiServer.  Its steps are steps of Migrations and of RateLimiter, so    *)
(* all of the above holds of it.  FleetBound needs an account over all     *)
(* servers at once: what a client was let through and the tokens it has    *)
(* left anywhere together stay within the bound.  The tokens left are      *)
(* counted as the elements of a set (Pile), one pair per fraction.         *)

\* A server migrates like any process, and its buckets are those of one limiter.
LEMMA ServerSteps ==
    [ServerNext]_<<vars, serving>> => [Next]_vars /\ [LimiterNext]_limiter
<1> SUFFICES ASSUME [ServerNext]_<<vars, serving>> PROVE [Next]_vars /\ [LimiterNext]_limiter
  OBVIOUS
<1>1. CASE UNCHANGED <<vars, serving>>
  BY <1>1 DEF serving
<1>2. ASSUME NEW p \in Process, Startup(p) \/ Stumble(p) PROVE Next /\ UNCHANGED limiter
  BY <1>2 DEF Startup, Stumble, Router, Next, limiter
<1>3. ASSUME NEW p \in Process, Kill(p) PROVE Next /\ LimiterNext
  <2> DEFINE D == ({p} \X IP) \cap Client
  <2>1. D \in SUBSET Client /\ \A c \in Client : c \in D <=> c \in {p} \X IP
    OBVIOUS
  <2> HIDE DEF D
  <2>2. Forget(D)
    BY <1>3, <2>1 DEF Kill, Forget
  <2> QED BY <1>3, <2>1, <2>2 DEF Kill, Next, LimiterNext
<1>4. ASSUME NEW p \in Process, NEW i \in IP, Request(p, i) PROVE UNCHANGED vars /\ LimiterNext
  <2>1. <<p, i>> \in Client
    BY <1>4, ServerAssumption DEF Request
  <2> QED BY <1>4, <2>1 DEF Request, LimiterNext
<1>5. CASE EndSession
  BY <1>5 DEF EndSession, Next, serving
<1>6. CASE Pass
  BY <1>6 DEF Pass, LimiterNext
<1> QED BY <1>1, <1>2, <1>3, <1>4, <1>5, <1>6 DEF ServerNext

\* The composition implements both of its parts (main, NewRouter).
THEOREM ServerImplements == ServerSpec => Spec /\ LimiterSpec
<1>1. ServerInit => Init /\ LimiterInit
  BY DEF ServerInit
<1> QED BY <1>1, ServerSteps, PTL DEF ServerSpec, Spec, LimiterSpec

\* The types of the composition's own variables.
ServerInv == MigInv /\ LimiterInv /\ passed \in [IP -> Nat] /\ starts \in Nat

LEMMA ServerSpecInv == ServerSpec => []ServerInv
<1>1. ServerInit => passed \in [IP -> Nat] /\ starts \in Nat
  BY DEF ServerInit
<1>2. passed \in [IP -> Nat] /\ starts \in Nat /\ [ServerNext]_<<vars, serving>>
        => (passed \in [IP -> Nat] /\ starts \in Nat)'
  <2> SUFFICES ASSUME passed \in [IP -> Nat], starts \in Nat, [ServerNext]_<<vars, serving>>
               PROVE  passed' \in [IP -> Nat] /\ starts' \in Nat
    OBVIOUS
  <2>1. CASE UNCHANGED <<vars, serving>>
    BY <2>1 DEF serving
  <2>2. ASSUME NEW p \in Process, Startup(p) \/ Stumble(p)
        PROVE  passed' = passed /\ starts' \in {starts, starts + 1}
    BY <2>2 DEF Startup, Stumble, Router
  <2>3. ASSUME NEW p \in Process, NEW i \in IP, Request(p, i)
        PROVE  passed' \in [IP -> Nat] /\ starts' = starts
    BY <2>3 DEF Request
  <2>4. ASSUME (\E p \in Process : Kill(p)) \/ EndSession \/ Pass
        PROVE  passed' = passed /\ starts' = starts
    BY <2>4 DEF Kill, EndSession, Pass, serving
  <2> QED BY <2>1, <2>2, <2>3, <2>4 DEF ServerNext
<1> QED BY <1>1, <1>2, ServerImplements, MigSpecInv, LimiterSpecInv, PTL DEF ServerSpec, ServerInv

\* What holds of migrations and of limiters holds of servers that run one and then
\* the other: versions are applied once, in order, without collisions and before
\* requests are taken, and every bucket of every server keeps its bound exactly.
THEOREM ServerKeepsPromises ==
    ServerSpec => [](/\ ExactlyOnce /\ NoCollision /\ InOrder /\ ServesMigrated
                     /\ WindowBound /\ RefusedAtTheBound)
<1>1. ServerInv => /\ ExactlyOnce /\ NoCollision /\ InOrder /\ ServesMigrated
                   /\ WindowBound /\ RefusedAtTheBound
  BY DEF ServerInv, MigInv, LimiterInv
<1> QED BY <1>1, ServerSpecInv, PTL

\* Every variable of the composition keeps its type.
THEOREM ServerTypeCorrect == ServerSpec => []ServerTypeOK
<1>1. ServerInv => ServerTypeOK
  BY DEF ServerInv, ServerTypeOK, MigInv, LimiterInv
<1> QED BY <1>1, ServerSpecInv, PTL

-----------------------------------------------------------------------------
(* Counting the tokens of a client on all servers: h[p] of them on p.      *)

Heights == [Api -> 0 .. Full]
Pile(h) == {x \in Api \X (1 .. Full) : x[2] <= h[x[1]]}

LEMMA PileFinite ==
    ASSUME NEW h \in Heights
    PROVE  IsFiniteSet(Pile(h)) /\ Cardinality(Pile(h)) \in Nat
<1>1. IsFiniteSet(1 .. Full)
  BY FS_Interval, FullType
<1>2. IsFiniteSet(Api \X (1 .. Full))
  BY <1>1, FS_Product, ServerAssumption
<1>3. Pile(h) \subseteq Api \X (1 .. Full)
  BY DEF Pile
<1> QED BY <1>2, <1>3, FS_Subset, FS_CardinalityType

\* Fewer tokens everywhere are fewer tokens.
LEMMA PileMonotone ==
    ASSUME NEW g \in Heights, NEW h \in Heights, \A p \in Api : g[p] <= h[p]
    PROVE  Cardinality(Pile(g)) <= Cardinality(Pile(h))
<1>1. Pile(g) \subseteq Pile(h)
  <2> SUFFICES ASSUME NEW x \in Pile(g) PROVE x \in Pile(h)
    OBVIOUS
  <2>1. x \in Api \X (1 .. Full) /\ x[2] <= g[x[1]] /\ x[1] \in Api /\ x[2] \in Int
    BY DEF Pile
  <2>2. g[x[1]] \in Int /\ h[x[1]] \in Int /\ g[x[1]] <= h[x[1]]
    BY <2>1 DEF Heights
  <2> QED BY <2>1, <2>2 DEF Pile
<1> QED BY <1>1, PileFinite, FS_Subset

\* The tokens m+1 to m+n of one server.
LEMMA SlabCount ==
    ASSUME NEW p \in Api, NEW m \in Nat, NEW n \in Nat
    PROVE  IsFiniteSet({p} \X (m + 1 .. m + n)) /\ Cardinality({p} \X (m + 1 .. m + n)) = n
<1>1. IsFiniteSet(m + 1 .. m + n) /\ Cardinality(m + 1 .. m + n) = n
  BY FS_Interval
<1>2. IsFiniteSet({p}) /\ Cardinality({p}) = 1
  BY FS_Singleton
<1> QED BY <1>1, <1>2, FS_Product

\* Taking n tokens on p takes n of the total.
LEMMA PileTake ==
    ASSUME NEW g \in Heights, NEW h \in Heights, NEW p \in Api, NEW n \in Nat,
           g[p] + n <= h[p], \A q \in Api \ {p} : g[q] <= h[q]
    PROVE  Cardinality(Pile(g)) + n <= Cardinality(Pile(h))
<1> DEFINE S == {p} \X (g[p] + 1 .. g[p] + n)
<1>0. g[p] \in Nat /\ h[p] \in Nat /\ h[p] <= Full /\ Full \in Nat
  BY FullType DEF Heights
<1>1. IsFiniteSet(S) /\ Cardinality(S) = n
  <2> DEFINE m == g[p]
  <2>1. m \in Nat
    BY <1>0
  <2> HIDE DEF m
  <2>2. IsFiniteSet({p} \X (m + 1 .. m + n)) /\ Cardinality({p} \X (m + 1 .. m + n)) = n
    BY ONLY <2>1, SlabCount, p \in Api, n \in Nat, Zenon
  <2> QED BY <2>2 DEF m
<1>2. Pile(g) \cap S = {}
  <2> SUFFICES ASSUME NEW x \in Pile(g), x \in S PROVE FALSE
    OBVIOUS
  <2>1. x[1] = p /\ x[2] \in g[p] + 1 .. g[p] + n /\ x[2] <= g[x[1]]
    BY DEF Pile
  <2> QED BY <2>1, <1>0
<1>3. Pile(g) \cup S \subseteq Pile(h)
  <2>1. ASSUME NEW x \in Pile(g) PROVE x \in Pile(h)
    <3>1. x \in Api \X (1 .. Full) /\ x[2] <= g[x[1]] /\ x[1] \in Api /\ x[2] \in Int
      BY DEF Pile
    <3>2. g[x[1]] \in Int /\ h[x[1]] \in Int /\ g[x[1]] <= h[x[1]]
      BY <3>1, <1>0 DEF Heights
    <3> QED BY <3>1, <3>2 DEF Pile
  <2>2. ASSUME NEW k \in g[p] + 1 .. g[p] + n PROVE <<p, k>> \in Pile(h)
    <3>1. k \in 1 .. Full /\ k <= h[p]
      BY <1>0
    <3> QED BY <3>1 DEF Pile
  <2> QED BY <2>1, <2>2
<1>4. Cardinality(Pile(g) \cup S) = Cardinality(Pile(g)) + n
  <2>1. Cardinality(Pile(g) \cap S) = 0
    BY <1>2, FS_EmptySet
  <2>2. IsFiniteSet(Pile(g)) /\ Cardinality(Pile(g)) \in Nat
    BY PileFinite
  <2> HIDE DEF S
  <2>3. Cardinality(Pile(g) \cup S)
          = Cardinality(Pile(g)) + Cardinality(S) - Cardinality(Pile(g) \cap S)
    BY <1>1, <2>2, FS_Union
  <2> QED BY <1>1, <2>1, <2>2, <2>3
<1>5. IsFiniteSet(Pile(h))
  BY PileFinite
<1> QED BY <1>3, <1>4, <1>5, FS_Subset

\* A union is no larger than its parts together.
LEMMA UnionBound ==
    ASSUME NEW S, NEW T, IsFiniteSet(S), IsFiniteSet(T), NEW U, U \subseteq S \cup T
    PROVE  Cardinality(U) <= Cardinality(S) + Cardinality(T)
<1>1. /\ IsFiniteSet(S \cup T)
      /\ Cardinality(S \cup T) = Cardinality(S) + Cardinality(T) - Cardinality(S \cap T)
  BY FS_Union
<1>2. Cardinality(U) <= Cardinality(S \cup T)
  BY <1>1, FS_Subset
<1>3. IsFiniteSet(S \cap T)
  BY FS_Subset, S \cap T \subseteq S
<1>4. IsFiniteSet(U)
  BY <1>1, FS_Subset
<1> QED BY <1>1, <1>2, <1>3, <1>4, FS_CardinalityType

\* A server that begins to serve adds no more than a full bucket.
LEMMA PileStart ==
    ASSUME NEW g \in Heights, NEW h \in Heights, NEW p \in Api,
           \A q \in Api \ {p} : g[q] <= h[q]
    PROVE  Cardinality(Pile(g)) <= Cardinality(Pile(h)) + Full
<1> DEFINE S == {p} \X (1 .. Full)
<1>1. IsFiniteSet(S) /\ Cardinality(S) = Full
  <2>1. IsFiniteSet(1 .. Full) /\ Cardinality(1 .. Full) = Full
    BY FS_Interval, FullType
  <2>2. IsFiniteSet({p}) /\ Cardinality({p}) = 1
    BY FS_Singleton
  <2> QED BY <2>1, <2>2, FS_Product, FullType
<1>2. Pile(g) \subseteq Pile(h) \cup S
  <2> SUFFICES ASSUME NEW x \in Pile(g), x[1] # p PROVE x \in Pile(h)
    BY DEF Pile
  <2>1. x \in Api \X (1 .. Full) /\ x[2] <= g[x[1]] /\ x[1] \in Api \ {p} /\ x[2] \in Int
    BY DEF Pile
  <2>2. g[x[1]] \in Int /\ h[x[1]] \in Int /\ g[x[1]] <= h[x[1]]
    BY <2>1 DEF Heights
  <2> QED BY <2>1, <2>2 DEF Pile
<1> HIDE DEF S
<1>3. IsFiniteSet(Pile(h))
  BY PileFinite
<1>4. Cardinality(Pile(g)) <= Cardinality(Pile(h)) + Cardinality(S)
  BY <1>1, <1>2, <1>3, UnionBound
<1> QED BY <1>1, <1>4

\* A tick adds no more than Rate on each server.
LEMMA PileTick ==
    ASSUME NEW g \in Heights, NEW h \in Heights, \A p \in Api : g[p] <= h[p] + Rate
    PROVE  Cardinality(Pile(g)) <= Cardinality(Pile(h)) + Cardinality(Api) * Rate
<1> DEFINE D == Api \X (1 .. Rate)
           f == [x \in D |-> <<x[1], h[x[1]] + x[2]>>]
           E == {f[x] : x \in D}
<1>1. IsFiniteSet(D) /\ Cardinality(D) = Cardinality(Api) * Rate
  <2>1. IsFiniteSet(1 .. Rate) /\ Cardinality(1 .. Rate) = Rate
    BY FS_Interval, FullType
  <2> QED BY <2>1, FS_Product, ServerAssumption, FullType
<1>2. Pile(g) \subseteq Pile(h) \cup E
  <2> SUFFICES ASSUME NEW x \in Pile(g), x \notin Pile(h) PROVE x \in E
    OBVIOUS
  <2> DEFINE k == x[2] - h[x[1]]
  <2>1. x = <<x[1], x[2]>> /\ x[2] <= g[x[1]] /\ x[1] \in Api /\ x[2] \in 1 .. Full
    BY DEF Pile
  <2>2. g[x[1]] \in Int /\ h[x[1]] \in Int /\ g[x[1]] <= h[x[1]] + Rate
    BY <2>1 DEF Heights
  <2>3. ~(x[2] <= h[x[1]])
    BY <2>1 DEF Pile
  <2>4. k \in 1 .. Rate /\ h[x[1]] + k = x[2]
    BY <2>1, <2>2, <2>3, FullType
  <2>5. <<x[1], k>> \in D
    BY <2>1, <2>4
  <2>6. f[<<x[1], k>>] = <<x[1], h[x[1]] + k>>
    BY <2>5
  <2> QED BY <2>1, <2>4, <2>5, <2>6
<1>3. f \in Surjection(D, E)
  BY DEF Surjection
<1> HIDE DEF D, f, E
<1>4. IsFiniteSet(E) /\ Cardinality(E) <= Cardinality(D)
  BY <1>1, <1>3, FS_Surjection
<1>5. IsFiniteSet(Pile(h))
  BY PileFinite
<1>6. Cardinality(Pile(g)) <= Cardinality(Pile(h)) + Cardinality(E)
  BY <1>2, <1>4, <1>5, UnionBound
<1>7. /\ Cardinality(Pile(g)) \in Nat /\ Cardinality(Pile(h)) \in Nat
      /\ Cardinality(E) \in Nat /\ Cardinality(D) \in Nat
  BY <1>1, <1>4, PileFinite, FS_CardinalityType
<1> QED BY <1>1, <1>4, <1>6, <1>7

-----------------------------------------------------------------------------
\* The tokens client i could use now: none where nobody serves.
Left(i) == [p \in Api |-> IF pc[p] = "serving" THEN Refilled(buckets[<<p, i>>]) ELSE 0]

Account(i) ==
    passed[i] * Unit + Cardinality(Pile(Left(i))) <= starts * Full + Cardinality(Api) * Rate * now

LEMMA LeftType == ServerInv => \A i \in IP : Left(i) \in Heights
<1> SUFFICES ASSUME ServerInv, NEW i \in IP PROVE Left(i) \in Heights
  OBVIOUS
<1>1. ASSUME NEW p \in Api PROVE Refilled(buckets[<<p, i>>]) \in 0 .. Full /\ 0 \in 0 .. Full
  <2>1. <<p, i>> \in Client
    BY ServerAssumption
  <2>2. LimiterTypeOK /\ buckets[<<p, i>>].lastRefill <= now
    BY <2>1 DEF ServerInv, LimiterInv
  <2> QED BY <2>1, <2>2, RefilledFacts, FullType
<1> QED BY <1>1 DEF Left, Heights

LEMMA LeftTypeNext == ServerInv' => (\A i \in IP : Left(i) \in Heights)'
BY LeftType, PTL

\* The numbers in an account, and what may happen to them.
LEMMA AccountTypes ==
    ASSUME ServerInv, NEW i \in IP
    PROVE  /\ passed[i] \in Nat /\ passed[i] * Unit \in Nat
           /\ (passed[i] + 1) * Unit = passed[i] * Unit + Unit
           /\ Cardinality(Pile(Left(i))) \in Nat
           /\ starts * Full \in Nat /\ (starts + 1) * Full = starts * Full + Full
           /\ Cardinality(Api) * Rate \in Nat /\ Cardinality(Api) * Rate * now \in Nat
           /\ Cardinality(Api) * Rate * (now + 1)
                = Cardinality(Api) * Rate * now + Cardinality(Api) * Rate
<1>1. /\ passed[i] \in Nat /\ starts \in Nat /\ now \in Nat /\ Cardinality(Api) \in Nat
      /\ Unit \in Nat /\ Full \in Nat /\ Rate \in Nat
  BY FullType, ServerAssumption, FS_CardinalityType, LimiterAssumption
     DEF ServerInv, LimiterInv, LimiterTypeOK
<1>2. Cardinality(Pile(Left(i))) \in Nat
  BY LeftType, PileFinite
<1>3. \A a, b \in Nat : a * b \in Nat /\ (a + 1) * b = a * b + b /\ a * (b + 1) = a * b + a
  OBVIOUS
<1>4. Cardinality(Api) * Rate \in Nat
  BY <1>1, <1>3
<1> QED BY <1>1, <1>2, <1>3, <1>4

\* main of p is about p only.
LEMMA StartupFrame ==
    ASSUME ServerInv, NEW p \in Process, Startup(p) \/ Stumble(p)
    PROVE  /\ \A q \in Process \ {p} : pc'[q] = pc[q]
           /\ limiter' = limiter /\ passed' = passed
           /\ starts' = IF p \in Api /\ pc'[p] = "serving" THEN starts + 1 ELSE starts
<1>1. pc \in [Process -> {"down", "lock", "serving"} \cup Locked]
  BY DEF ServerInv, MigInv, TypeOK
<1>2. Step(p) \/ Fail(p) \/ UnlockLost(p)
  BY DEF Startup, Stumble
<1>3. \A q \in Process \ {p} : pc'[q] = pc[q]
  BY <1>1, <1>2 DEF Step, Fail, UnlockLost, Start, AcquireLock, LookUpTable, CreateTable, Check,
       Apply, Unlock, ReturnError
<1> QED BY <1>3 DEF Startup, Stumble, Router, limiter

LEMMA StartupAccount ==
    ASSUME ServerInv, ServerInv', NEW i \in IP, Account(i),
           NEW p \in Process, Startup(p) \/ Stumble(p)
    PROVE  Account(i)'
<1>1. /\ \A q \in Process \ {p} : pc'[q] = pc[q]
      /\ now' = now /\ buckets' = buckets /\ passed' = passed
      /\ starts' = IF p \in Api /\ pc'[p] = "serving" THEN starts + 1 ELSE starts
  BY StartupFrame DEF limiter
<1> DEFINE g == Left(i)'
           h == Left(i)
<1>2. g \in Heights /\ h \in Heights
  BY LeftType, LeftTypeNext
<1>3. \A q \in Api \ {p} : g[q] <= h[q]
  <2>1. \A q \in Api \ {p} : g[q] = h[q]
    BY <1>1, ServerAssumption DEF Left, Refilled
  <2> HIDE DEF g, h
  <2>2. \A q \in Api : h[q] \in Int
    BY <1>2, FullType DEF Heights
  <2>3. ASSUME NEW q \in Api \ {p} PROVE g[q] <= h[q]
    <3>1. g[q] = h[q] /\ h[q] \in Int
      BY <2>1, <2>2
    <3> QED BY <3>1
  <2> QED BY <2>3
<1>4. ASSUME p \in Api, pc'[p] # "serving" PROVE g[p] <= h[p]
  <2>1. g[p] = 0
    BY <1>4 DEF Left
  <2> QED BY <1>2, <1>4, <2>1, FullType DEF Heights
<1>5. Cardinality(Pile(g)) <=
        IF p \in Api /\ pc'[p] = "serving" THEN Cardinality(Pile(h)) + Full ELSE Cardinality(Pile(h))
  <2> HIDE DEF g, h
  <2>1. CASE p \in Api /\ pc'[p] = "serving"
    BY <2>1, <1>2, <1>3, PileStart
  <2>2. CASE ~(p \in Api /\ pc'[p] = "serving")
    BY <2>2, <1>2, <1>3, <1>4, PileMonotone
  <2> QED BY <2>1, <2>2
<1>6. Cardinality(Pile(g)) \in Nat
  BY <1>2, PileFinite
<1>7. Account(i)' <=> passed[i] * Unit + Cardinality(Pile(g))
                        <= starts' * Full + Cardinality(Api) * Rate * now
  BY <1>1 DEF Account
<1> DEFINE A == passed[i] * Unit
           S == starts * Full
           R == Cardinality(Api) * Rate * now
           G == Cardinality(Pile(g))
           H == Cardinality(Pile(h))
<1>8. /\ A \in Nat /\ S \in Nat /\ R \in Nat /\ H \in Nat /\ Full \in Nat
      /\ A + H <= S + R /\ (starts + 1) * Full = S + Full
  BY AccountTypes, FullType DEF Account
<1>9. G \in Nat /\ G <= IF p \in Api /\ pc'[p] = "serving" THEN H + Full ELSE H
  BY <1>5, <1>6
<1>10. Account(i)' <=> A + G <= (IF p \in Api /\ pc'[p] = "serving" THEN S + Full ELSE S) + R
  <2> HIDE DEF g
  <2> QED BY <1>1, <1>7, <1>8
<1> HIDE DEF A, S, R, G, H
<1> QED BY <1>8, <1>9, <1>10

LEMMA KillAccount ==
    ASSUME ServerInv, ServerInv', NEW i \in IP, Account(i), NEW p \in Process, Kill(p)
    PROVE  Account(i)'
<1> DEFINE g == Left(i)'
           h == Left(i)
<1>1. g \in Heights /\ h \in Heights
  BY LeftType, LeftTypeNext
<1>2. /\ pc' = [pc EXCEPT ![p] = "down"] /\ now' = now /\ passed' = passed /\ starts' = starts
      /\ \A c \in Client : c \notin {p} \X IP => buckets'[c] = buckets[c]
      /\ pc \in [Process -> {"down", "lock", "serving"} \cup Locked]
  BY DEF Kill, Crash, Forget, ServerInv, MigInv, TypeOK
<1>3. ASSUME NEW q \in Api PROVE g[q] <= h[q]
  <2>0. q \in Process /\ <<q, i>> \in Client /\ h[q] \in 0 .. Full
    BY <1>1, ServerAssumption DEF Heights
  <2>1. CASE q = p
    <3>1. g[q] = 0
      BY <1>2, <2>0, <2>1 DEF Left
    <3> QED BY <2>0, <3>1, FullType
  <2>2. CASE q # p
    <3>1. pc'[q] = pc[q] /\ buckets'[<<q, i>>] = buckets[<<q, i>>]
      BY <1>2, <2>0, <2>2
    <3>2. g[q] = h[q]
      BY <1>2, <3>1 DEF Left, Refilled
    <3> QED BY <2>0, <3>2, FullType
  <2> QED BY <2>1, <2>2
<1>4. Account(i)' <=> passed[i] * Unit + Cardinality(Pile(g))
                        <= starts * Full + Cardinality(Api) * Rate * now
  BY <1>2 DEF Account
<1>5. Cardinality(Pile(g)) <= Cardinality(Pile(h)) /\ Cardinality(Pile(g)) \in Nat
  <2> HIDE DEF g, h
  <2> QED BY <1>1, <1>3, PileMonotone, PileFinite
<1> DEFINE A == passed[i] * Unit
           L == starts * Full + Cardinality(Api) * Rate * now
           G == Cardinality(Pile(g))
           H == Cardinality(Pile(h))
<1>6. A \in Nat /\ L \in Nat /\ H \in Nat /\ A + H <= L
  BY AccountTypes DEF Account
<1>7. G \in Nat /\ G <= H /\ (Account(i)' <=> A + G <= L)
  BY <1>4, <1>5
<1> HIDE DEF A, L, G, H
<1> QED BY <1>6, <1>7

\* A request that passes takes the token it passes for.
LEMMA RequestAccount ==
    ASSUME ServerInv, ServerInv', NEW i \in IP, Account(i),
           NEW p \in Process, NEW j \in IP, Request(p, j)
    PROVE  Account(i)'
<1> DEFINE g == Left(i)'
           h == Left(i)
           c == <<p, j>>
           t == Refilled(buckets[c])
           n == IF t < Unit THEN t ELSE t - Unit
<1>1. g \in Heights /\ h \in Heights
  BY LeftType, LeftTypeNext
<1>2. /\ p \in Api /\ pc[p] = "serving" /\ pc' = pc /\ now' = now /\ starts' = starts
      /\ c \in Client /\ LimiterTypeOK /\ buckets[c].lastRefill <= now
  BY ServerAssumption DEF Request, Allow, vars, ServerInv, LimiterInv
<1>3. /\ buckets' = [buckets EXCEPT ![c] = [tokens |-> n, lastRefill |-> now]]
      /\ refused'[c] <=> t < Unit
      /\ passed' = [passed EXCEPT ![j] = IF refused'[c] THEN @ ELSE @ + 1]
  BY <1>2 DEF Request, Allow, LimiterTypeOK
<1>4. t \in 0 .. Full /\ n \in 0 .. Full /\ Full \in Nat /\ Unit \in Nat
  <2>1. t \in 0 .. Full
    BY <1>2, RefilledFacts
  <2> HIDE DEF t
  <2> QED BY <2>1, FullType
<1>5. \A q \in Api : <<q, i>> # c => g[q] = h[q]
  <2> SUFFICES ASSUME NEW q \in Api, <<q, i>> # c PROVE g[q] = h[q]
    OBVIOUS
  <2>1. buckets'[<<q, i>>] = buckets[<<q, i>>]
    BY <1>2, <1>3, ServerAssumption DEF LimiterTypeOK
  <2> QED BY <1>2, <2>1 DEF Left, Refilled
<1>6. i = j => g[p] = n /\ h[p] = t
  <2> SUFFICES ASSUME i = j PROVE g[p] = n /\ h[p] = t
    OBVIOUS
  <2>1. buckets'[c] = [tokens |-> n, lastRefill |-> now]
    BY <1>2, <1>3 DEF LimiterTypeOK
  <2>2. g[p] = Refilled(buckets[c])' /\ h[p] = t
    BY <1>2 DEF Left
  <2> HIDE DEF n
  <2>3. now \in Nat /\ (now - now) * Rate = 0
    BY <1>2, LimiterAssumption DEF LimiterTypeOK
  <2> HIDE DEF t, c
  <2>4. buckets'[c].tokens = n /\ buckets'[c].lastRefill = now
    BY <2>1
  <2>5. Refilled(buckets[c])' = IF now = -1 THEN Full
                                ELSE IF n + (now - now) * Rate > Full THEN Full
                                ELSE n + (now - now) * Rate
    BY <1>2, <2>4 DEF Refilled
  <2>6. now # -1 /\ n + 0 = n /\ ~(n > Full)
    BY <1>4, <2>3
  <2>7. Refilled(buckets[c])' = n
    BY <2>3, <2>5, <2>6
  <2> QED BY <2>2, <2>7
<1>7. \A q \in Api \ {p} : g[q] <= h[q]
  <2> HIDE DEF g, h, t
  <2>1. \A q \in Api \ {p} : g[q] = h[q]
    BY <1>5
  <2>2. \A q \in Api : h[q] \in Int
    BY <1>1, FullType DEF Heights
  <2>3. ASSUME NEW q \in Api \ {p} PROVE g[q] <= h[q]
    <3>1. g[q] = h[q] /\ h[q] \in Int
      BY <2>1, <2>2
    <3> QED BY <3>1
  <2> QED BY <2>3
<1>8. Account(i)' <=> passed'[i] * Unit + Cardinality(Pile(g))
                        <= starts * Full + Cardinality(Api) * Rate * now
  BY <1>2 DEF Account
<1>9. Cardinality(Pile(g)) \in Nat
  <2> HIDE DEF g, h
  <2> QED BY <1>1, PileFinite
<1> DEFINE A == passed[i] * Unit
           L == starts * Full + Cardinality(Api) * Rate * now
           G == Cardinality(Pile(g))
           H == Cardinality(Pile(h))
<1>10. /\ A \in Nat /\ L \in Nat /\ H \in Nat /\ A + H <= L
       /\ (passed[i] + 1) * Unit = A + Unit
  BY AccountTypes DEF Account
<1>11. CASE i = j /\ ~(t < Unit)
  <2>1. g[p] + Unit <= h[p]
    <3>1. n = t - Unit
      BY <1>11
    <3> HIDE DEF t, n, g, h
    <3> QED BY <1>4, <1>6, <1>11, <3>1
  <2>2. Cardinality(Pile(g)) + Unit <= Cardinality(Pile(h))
    <3> HIDE DEF g, h
    <3> QED BY <1>1, <1>2, <1>4, <1>7, <2>1, PileTake
  <2>3. passed'[i] = passed[i] + 1
    BY <1>3, <1>11 DEF ServerInv
  <2>4. G \in Nat /\ G + Unit <= H /\ (Account(i)' <=> (A + Unit) + G <= L)
    BY <1>8, <1>9, <1>10, <2>2, <2>3
  <2>5. Unit \in Nat
    BY <1>4
  <2> HIDE DEF A, L, G, H
  <2> QED BY <1>10, <2>4, <2>5
<1>12. CASE ~(i = j /\ ~(t < Unit))
  <2>1. g[p] <= h[p]
    <3>1. h[p] \in 0 .. Full
      BY <1>1, <1>2 DEF Heights
    <3>2. g[p] = h[p]
      <4>1. CASE i = j
        BY <1>6, <1>12, <4>1
      <4>2. CASE i # j
        BY <1>2, <1>5, <4>2
      <4> QED BY <4>1, <4>2
    <3> HIDE DEF g, h, t, n
    <3> QED BY <1>4, <3>1, <3>2
  <2>2. Cardinality(Pile(g)) <= Cardinality(Pile(h))
    <3> HIDE DEF g, h
    <3> QED BY <1>1, <1>7, <2>1, PileMonotone
  <2>3. passed'[i] = passed[i]
    BY <1>3, <1>12 DEF ServerInv
  <2>4. G \in Nat /\ G <= H /\ (Account(i)' <=> A + G <= L)
    BY <1>8, <1>9, <2>2, <2>3
  <2> HIDE DEF A, L, G, H
  <2> QED BY <1>10, <2>4
<1> QED BY <1>11, <1>12

\* A tick refills every bucket of the client by no more than Rate.
LEMMA PassAccount ==
    ASSUME ServerInv, ServerInv', NEW i \in IP, Account(i), Pass
    PROVE  Account(i)'
<1> DEFINE g == Left(i)'
           h == Left(i)
<1>1. g \in Heights /\ h \in Heights
  BY LeftType, LeftTypeNext
<1>2. /\ pc' = pc /\ now' = now + 1 /\ starts' = starts /\ passed' = passed
      /\ buckets' = buckets /\ LimiterTypeOK
  BY DEF Pass, Tick, vars, ServerInv, LimiterInv
<1>3. ASSUME NEW p \in Api PROVE g[p] <= h[p] + Rate
  <2> DEFINE b == buckets[<<p, i>>]
             m == (now - b.lastRefill) * Rate
  <2>1. b.tokens \in Int /\ b.lastRefill \in Int /\ now \in Int
    BY <1>2, ServerAssumption, FullType, LimiterAssumption DEF LimiterTypeOK
  <2>2. ((now + 1) - b.lastRefill) * Rate = m + Rate /\ m \in Int /\ Rate \in Nat /\ Full \in Nat
    BY <2>1, FullType
  <2>3. /\ Refilled(b) = IF b.lastRefill = -1 THEN Full
                         ELSE IF b.tokens + m > Full THEN Full ELSE b.tokens + m
        /\ Refilled(b)' = IF b.lastRefill = -1 THEN Full
                          ELSE IF b.tokens + (m + Rate) > Full THEN Full ELSE b.tokens + (m + Rate)
    BY <1>2, <2>2 DEF Refilled
  <2>4. g[p] = (IF pc[p] = "serving" THEN Refilled(b)' ELSE 0)
        /\ h[p] = (IF pc[p] = "serving" THEN Refilled(b) ELSE 0)
    BY <1>2 DEF Left
  <2> HIDE DEF g, h, b, m
  <2> QED BY <2>1, <2>2, <2>3, <2>4
<1>4. Account(i)' <=> passed[i] * Unit + Cardinality(Pile(g))
                        <= starts * Full + Cardinality(Api) * Rate * (now + 1)
  BY <1>2 DEF Account
<1>5. Cardinality(Pile(g)) <= Cardinality(Pile(h)) + Cardinality(Api) * Rate
      /\ Cardinality(Pile(g)) \in Nat
  <2> HIDE DEF g, h
  <2> QED BY <1>1, <1>3, PileTick, PileFinite
<1> DEFINE A == passed[i] * Unit
           L == starts * Full + Cardinality(Api) * Rate * now
           R == Cardinality(Api) * Rate
           G == Cardinality(Pile(g))
           H == Cardinality(Pile(h))
<1>6. /\ A \in Nat /\ L \in Nat /\ R \in Nat /\ H \in Nat /\ A + H <= L
      /\ starts * Full + R * (now + 1) = L + R
  BY AccountTypes DEF Account
<1>7. G \in Nat /\ G <= H + R /\ (Account(i)' <=> A + G <= L + R)
  BY <1>4, <1>5, <1>6
<1> HIDE DEF A, L, R, G, H
<1> QED BY <1>6, <1>7

LEMMA AccountStep ==
    ServerInv /\ ServerInv' /\ (\A i \in IP : Account(i)) /\ [ServerNext]_<<vars, serving>>
      => (\A i \in IP : Account(i))'
<1> SUFFICES ASSUME ServerInv, ServerInv', \A i \in IP : Account(i),
                    [ServerNext]_<<vars, serving>>, NEW i \in IP
             PROVE  Account(i)'
  OBVIOUS
<1>1. CASE UNCHANGED <<vars, serving>>
  BY <1>1 DEF vars, serving, limiter, Account, Left, Refilled, Pile
<1>2. CASE EndSession
  BY <1>2 DEF EndSession, SessionEnds, serving, limiter, Account, Left, Refilled, Pile
<1> QED BY <1>1, <1>2, StartupAccount, KillAccount, RequestAccount, PassAccount DEF ServerNext

\* A client of all servers is let through no more often than their starts and
\* their rates allow, for any number of servers, clients, failures and restarts
\* (newRateLimiter, allow).
THEOREM FleetKeepsBound == ServerSpec => []FleetBound
<1>1. ServerInit => \A i \in IP : Account(i)
  <2> SUFFICES ASSUME ServerInit, NEW i \in IP PROVE Account(i)
    OBVIOUS
  <2>1. passed[i] = 0 /\ starts = 0 /\ now = 0 /\ \A p \in Api : pc[p] = "down"
    BY ServerAssumption DEF ServerInit, Init, LimiterInit
  <2>2. \A p \in Api : Left(i)[p] = 0
    BY <2>1 DEF Left
  <2>3. Pile(Left(i)) = {}
    BY <2>2 DEF Pile
  <2>4. Cardinality(Pile(Left(i))) = 0 /\ Cardinality(Api) \in Nat
    BY <2>3, FS_EmptySet, ServerAssumption, FS_CardinalityType
  <2> QED BY <2>1, <2>4, FullType DEF Account
<1>2. ServerInv /\ (\A i \in IP : Account(i)) => FleetBound
  BY AccountTypes DEF Account, FleetBound
<1> QED BY <1>1, <1>2, ServerSpecInv, AccountStep, PTL DEF ServerSpec

=============================================================================
