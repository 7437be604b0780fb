----------------------------- MODULE JobApiProofs -----------------------------
(***************************************************************************)
(* What idempotency keys guarantee, for any number of clients, keys and    *)
(* faults, with and without a standby: one job per key and one answer per  *)
(* key.  Both need that an open transaction owns its key (Owns).  Without  *)
(* a standby, a 409 for a key that is looked up is a race (Fresh: what the *)
(* lookup missed was not there when the request was sent).                 *)
(***************************************************************************)
EXTENDS JobApi, TLAPS

\* An open transaction with a key is the only one and there is no job with it.
Owns ==
    \A c \in Client : pc[c] = "commit" /\ KeyOf[c] # NoKey =>
       /\ \A j \in 1 .. Len(wal) : wal[j] # KeyOf[c]
       /\ \A d \in Client : pc[d] = "commit" /\ KeyOf[d] = KeyOf[c] => d = c

\* Jobs told under a key are jobs with that key.
Told == \A k \in Key : \A j \in told[k] : j \in 1 .. Len(wal) /\ wal[j] = k

Fresh ==
    ~Replicated => \A c \in Client : KeyOf[c] # EmptyKey =>
       /\ pc[c] \in {"insert", "commit"} /\ KeyOf[c] # NoKey =>
             \A j \in 1 .. began[c] : wal[j] # KeyOf[c]
       /\ answer[c].status = "409" => answer[c].job > began[c]

Inv == TypeOK /\ Owns /\ Told /\ OneJobPerKey /\ Fresh

\* The record of an answer has its type, also after a commit.
LEMMA ReplyType ==
    ASSUME TypeOK, NEW c \in Client, NEW s \in Status, NEW j, NEW L \in Nat,
           j \in 0 .. L, Len(wal) <= L, s \in {"200", "201"} => j > 0, Reply(c, s, j)
    PROVE  /\ pc' \in [Client -> {"idle", "lookup", "insert", "commit"}]
           /\ answer' \in [Client -> [status: Status, job: 0 .. L]]
           /\ told' \in [Key -> SUBSET (1 .. L)]
           /\ began' \in [Client -> 0 .. L]
<1>1. KeyOf[c] \in Key /\ Len(wal) \in Nat
  BY DEF Key, TypeOK
<1>2. 0 .. Len(wal) \subseteq 0 .. L /\ 1 .. Len(wal) \subseteq 1 .. L
  BY <1>1
<1>3. answer' \in [Client -> [status: Status, job: 0 .. L]]
  BY <1>2 DEF Reply, TypeOK
<1>4. s \in {"200", "201"} => j \in 1 .. L
  OBVIOUS
<1>5. told' \in [Key -> SUBSET (1 .. L)]
  BY <1>1, <1>2, <1>4 DEF Reply, TypeOK
<1> QED BY <1>2, <1>3, <1>5 DEF Reply, TypeOK

\* A handler that returns with no commit keeps the invariant when the job it
\* names has the key, and a 409 came after the request.
LEMMA ReplyInv ==
    ASSUME Inv, NEW c \in Client, NEW s \in Status, NEW j \in 0 .. Len(wal),
           UNCHANGED rows, faults' \in 0 .. FaultLimit, Reply(c, s, j),
           s \in {"200", "201"} => j > 0 /\ wal[j] = KeyOf[c],
           s = "409" /\ ~Replicated /\ KeyOf[c] # EmptyKey => j > began[c]
    PROVE  Inv'
<1>1. Len(wal) \in Nat /\ wal' = wal /\ replayed' = replayed /\ replicaPool' = replicaPool
  BY DEF Inv, TypeOK, rows
<1>2. TypeOK'
  <2>1. wal' \in Seq(Creatable) /\ replayed' \in 0 .. Len(wal') /\ replicaPool' \in {"nil", "open"}
    BY <1>1 DEF Inv, TypeOK
  <2>2. TypeOK /\ Len(wal) <= Len(wal) /\ (s \in {"200", "201"} => j > 0)
    BY <1>1 DEF Inv
  <2> QED BY <2>1, <2>2, <1>1, ReplyType DEF TypeOK
<1>3. /\ pc' = [pc EXCEPT ![c] = "idle"]
      /\ \A d \in Client : d # c \/ s = "409" => began'[d] = began[d]
  BY DEF Reply, Inv, TypeOK
<1>4. \A d \in Client : pc'[d] # "idle" => pc'[d] = pc[d] /\ d # c
  BY <1>3 DEF Inv, TypeOK
<1>5. Owns'
  BY <1>1, <1>4 DEF Inv, Owns
<1>6. Told'
  <2> SUFFICES ASSUME NEW k \in Key, NEW i \in told'[k] PROVE i \in 1 .. Len(wal) /\ wal[i] = k
    BY <1>1 DEF Told, Key
  <2>1. CASE i \in told[k]
    BY <2>1 DEF Inv, Told
  <2>2. CASE i \notin told[k]
    <3>1. s \in {"200", "201"} /\ k = KeyOf[c] /\ i = j
      BY <2>2 DEF Reply, Inv, TypeOK
    <3> QED BY <3>1, <1>1
  <2> QED BY <2>1, <2>2
<1>7. OneJobPerKey'
  BY <1>1 DEF Inv, OneJobPerKey
<1>8. Fresh'
  <2> SUFFICES ASSUME ~Replicated, NEW d \in Client, KeyOf[d] # EmptyKey
               PROVE  /\ pc'[d] \in {"insert", "commit"} /\ KeyOf[d] # NoKey =>
                            \A i \in 1 .. began'[d] : wal'[i] # KeyOf[d]
                      /\ answer'[d].status = "409" => answer'[d].job > began'[d]
    BY <1>1 DEF Fresh, Replicated
  <2>1. pc'[d] \in {"insert", "commit"} => pc[d] = pc'[d] /\ began'[d] = began[d]
    BY <1>3, <1>4
  <2>2. answer'[d].status = "409" => answer'[d].job > began'[d]
    <3> SUFFICES ASSUME answer'[d].status = "409" PROVE answer'[d].job > began'[d]
      OBVIOUS
    <3>1. CASE d = c
      <4>1. answer'[d] = [status |-> s, job |-> j]
        BY <3>1 DEF Reply, Inv, TypeOK
      <4> QED BY <4>1, <3>1, <1>3
    <3>2. CASE d # c
      <4>1. answer'[d] = answer[d]
        BY <3>2 DEF Reply, Inv, TypeOK
      <4> QED BY <4>1, <3>2, <1>3 DEF Inv, Fresh
    <3> QED BY <3>1, <3>2
  <2> QED BY <2>1, <2>2, <1>1 DEF Inv, Fresh
<1> QED BY <1>2, <1>5, <1>6, <1>7, <1>8 DEF Inv

\* A handler that goes on to another statement, with no commit.
LEMMA ProceedInv ==
    ASSUME Inv, NEW c \in Client, NEW w \in {"lookup", "insert", "commit"},
           UNCHANGED <<rows, answer, began, told>>, faults' \in 0 .. FaultLimit,
           pc' = [pc EXCEPT ![c] = w],
           w = "commit" /\ KeyOf[c] # NoKey =>
             /\ \A j \in 1 .. Len(wal) : wal[j] # KeyOf[c]
             /\ \A d \in Client : pc[d] = "commit" => KeyOf[d] # KeyOf[c],
           w \in {"insert", "commit"} /\ ~Replicated /\ KeyOf[c] \notin {NoKey, EmptyKey} =>
             \A j \in 1 .. began[c] : wal[j] # KeyOf[c]
    PROVE  Inv'
<1>1. /\ wal' = wal /\ replayed' = replayed /\ replicaPool' = replicaPool
      /\ answer' = answer /\ began' = began /\ told' = told
  BY DEF rows
<1>2. TypeOK'
  BY <1>1 DEF Inv, TypeOK
<1>3. pc'[c] = w /\ \A d \in Client : d # c => pc'[d] = pc[d]
  BY DEF Inv, TypeOK
<1>4. Owns'
  BY <1>1, <1>3 DEF Inv, Owns
<1>5. Told' /\ OneJobPerKey'
  BY <1>1 DEF Inv, Told, OneJobPerKey, Key
<1>6. Fresh'
  BY <1>1, <1>3 DEF Inv, Fresh, Replicated
<1> QED BY <1>2, <1>4, <1>5, <1>6 DEF Inv

LEMMA FaultType == ASSUME Inv, Fault \/ UNCHANGED faults PROVE faults' \in 0 .. FaultLimit
BY ApiAssumption DEF Inv, TypeOK, Fault

LEMMA SendInv == ASSUME Inv, NEW c \in Client, Send(c) PROVE Inv'
<1>1. Len(wal) \in Nat /\ 0 \in 0 .. Len(wal) /\ UNCHANGED rows /\ faults' \in 0 .. FaultLimit
  BY FaultType DEF Inv, TypeOK, Send
<1>2. CASE c \in Invalid
  BY <1>1, <1>2, ReplyInv DEF Send, Status
<1>3. CASE c \notin Invalid
  <2> DEFINE w == IF KeyOf[c] \in {NoKey, EmptyKey} THEN "insert" ELSE "lookup"
  <2>1. /\ pc' = [pc EXCEPT ![c] = w]
        /\ answer' = [answer EXCEPT ![c] = [status |-> "none", job |-> 0]]
        /\ began' = [began EXCEPT ![c] = Len(wal)]
        /\ told' = told /\ wal' = wal /\ replayed' = replayed /\ replicaPool' = replicaPool
    BY <1>3 DEF Send, rows
  <2>2. w \in {"insert", "lookup"} /\ (KeyOf[c] \notin {NoKey, EmptyKey} => w = "lookup")
    BY DEF Key
  <2> HIDE DEF w
  <2>3. TypeOK'
    <3>1. answer' \in [Client -> [status: Status, job: 0 .. Len(wal)]]
      BY <2>1, <1>1 DEF Inv, TypeOK, Status
    <3>2. began' \in [Client -> 0 .. Len(wal)]
      BY <2>1, <1>1 DEF Inv, TypeOK
    <3>3. pc' \in [Client -> {"idle", "lookup", "insert", "commit"}]
      BY <2>1, <2>2 DEF Inv, TypeOK
    <3> QED BY <3>1, <3>2, <3>3, <2>1, <1>1 DEF Inv, TypeOK
  <2>4. pc'[c] = w /\ \A d \in Client : d # c => pc'[d] = pc[d]
    BY <2>1 DEF Inv, TypeOK
  <2>5. \A d \in Client : d # c => answer'[d] = answer[d] /\ began'[d] = began[d]
    BY <2>1 DEF Inv, TypeOK
  <2>6. answer'[c].status = "none"
    BY <2>1 DEF Inv, TypeOK
  <2>7. Owns'
    BY <2>1, <2>2, <2>4 DEF Inv, Owns
  <2>8. Told' /\ OneJobPerKey'
    BY <2>1 DEF Inv, Told, OneJobPerKey, Key
  <2>9. Fresh'
    <3> SUFFICES ASSUME ~Replicated, NEW d \in Client, KeyOf[d] # EmptyKey
                 PROVE  /\ pc'[d] \in {"insert", "commit"} /\ KeyOf[d] # NoKey =>
                              \A j \in 1 .. began'[d] : wal'[j] # KeyOf[d]
                        /\ answer'[d].status = "409" => answer'[d].job > began'[d]
      BY <2>1 DEF Fresh, Replicated
    <3>1. CASE d = c
      BY <3>1, <2>2, <2>4, <2>6
    <3>2. CASE d # c
      BY <3>2, <2>1, <2>4, <2>5 DEF Inv, Fresh
    <3> QED BY <3>1, <3>2
  <2> QED BY <2>3, <2>7, <2>8, <2>9 DEF Inv
<1> QED BY <1>2, <1>3

LEMMA LookupInv == ASSUME Inv, NEW c \in Client, Lookup(c) PROVE Inv'
<1>1. Len(wal) \in Nat /\ 0 \in 0 .. Len(wal) /\ UNCHANGED rows /\ faults' \in 0 .. FaultLimit
  BY FaultType DEF Inv, TypeOK, Lookup
<1>2. Visible \in 0 .. Len(wal) /\ (~Replicated => Visible = Len(wal))
  BY <1>1 DEF Visible, Inv, TypeOK
<1>3. CASE \E j \in 1 .. Visible : wal[j] = KeyOf[c] /\ Reply(c, "200", j)
  <2>1. PICK j \in 1 .. Visible : wal[j] = KeyOf[c] /\ Reply(c, "200", j)
    BY <1>3
  <2>2. j \in 0 .. Len(wal) /\ j > 0
    BY <1>1, <1>2
  <2> QED BY <2>1, <2>2, <1>1, ReplyInv DEF Status
<1>4. CASE (\A j \in 1 .. Visible : wal[j] # KeyOf[c]) /\ Proceed(c, "insert")
  <2>1. began[c] \in 0 .. Len(wal)
    BY DEF Inv, TypeOK
  <2>2. ~Replicated => \A j \in 1 .. began[c] : wal[j] # KeyOf[c]
    <3>1. ~Replicated => \A j \in 1 .. began[c] : j \in 1 .. Visible
      BY <2>1, <1>1, <1>2
    <3> QED BY <3>1, <1>4
  <2> QED BY <2>2, <1>1, <1>4, ProceedInv DEF Proceed
<1>5. CASE Reply(c, "500", 0)
  BY <1>1, <1>5, ReplyInv DEF Status
<1> QED BY <1>3, <1>4, <1>5 DEF Lookup

LEMMA InsertInv == ASSUME Inv, NEW c \in Client, Insert(c) PROVE Inv'
<1>1. Len(wal) \in Nat /\ 0 \in 0 .. Len(wal) /\ UNCHANGED rows /\ faults' \in 0 .. FaultLimit
  BY FaultType DEF Inv, TypeOK, Insert
<1>2. pc[c] = "insert" /\ (KeyOf[c] # NoKey => \A d \in Client : pc[d] = "commit" => KeyOf[d] # KeyOf[c])
  BY DEF Insert
<1>3. ~Replicated /\ KeyOf[c] \notin {NoKey, EmptyKey} =>
         \A j \in 1 .. began[c] : wal[j] # KeyOf[c]
  BY <1>2 DEF Inv, Fresh
<1>4. CASE KeyOf[c] # NoKey /\ \E j \in 1 .. Len(wal) : wal[j] = KeyOf[c] /\ Reply(c, "409", j)
  <2>1. PICK j \in 1 .. Len(wal) : wal[j] = KeyOf[c] /\ Reply(c, "409", j)
    BY <1>4
  <2>2. j \in 0 .. Len(wal) /\ began[c] \in Nat
    BY <1>1 DEF Inv, TypeOK
  <2>3. ~Replicated /\ KeyOf[c] # EmptyKey => j > began[c]
    BY <2>1, <2>2, <1>1, <1>3, <1>4
  <2> QED BY <2>1, <2>2, <2>3, <1>1, ReplyInv DEF Status
<1>5. CASE (KeyOf[c] # NoKey => \A j \in 1 .. Len(wal) : wal[j] # KeyOf[c]) /\ Proceed(c, "commit")
  BY <1>1, <1>2, <1>3, <1>5, ProceedInv DEF Proceed
<1>6. CASE Reply(c, "500", 0)
  BY <1>1, <1>6, ReplyInv DEF Status
<1> QED BY <1>4, <1>5, <1>6 DEF Insert

\* COMMIT with either answer: the key was free and is now the job's.
LEMMA CommitInv ==
    ASSUME Inv, NEW c \in Client \ Dangling, pc[c] = "commit", Commit(KeyOf[c]), NEW s \in {"201", "500"},
           NEW j, j = (IF s = "201" THEN Len(wal') ELSE 0), Reply(c, s, j),
           faults' \in 0 .. FaultLimit
    PROVE  Inv'
<1> DEFINE n == Len(wal)
<1>1. /\ n \in Nat /\ wal \in Seq(Creatable) /\ KeyOf[c] \in Creatable
      /\ wal' = Append(wal, KeyOf[c]) /\ replayed' = replayed /\ replicaPool' = replicaPool
  BY DEF Inv, TypeOK, Commit, Creatable
<1>2. /\ Len(wal') = n + 1 /\ wal'[n + 1] = KeyOf[c] /\ wal' \in Seq(Creatable)
      /\ \A i \in 1 .. n : wal'[i] = wal[i]
  BY <1>1
<1>3. \A i \in 1 .. n + 1 : i \in 1 .. n \/ i = n + 1
  BY <1>1
<1>4. replayed' \in 0 .. n + 1 /\ replicaPool' \in {"nil", "open"}
  BY <1>1 DEF Inv, TypeOK
<1> HIDE DEF n
<1>5. j \in 0 .. n + 1 /\ (s = "201" => j = n + 1 /\ j > 0) /\ n + 1 \in Nat
  BY <1>1, <1>2
<1>6. TypeOK'
  <2>1. Len(wal) <= n + 1 /\ s \in Status /\ (s \in {"200", "201"} => j > 0)
    BY <1>1, <1>5 DEF n, Status
  <2> QED BY <2>1, <1>2, <1>4, <1>5, ReplyType DEF Inv, TypeOK
<1>7. /\ pc' = [pc EXCEPT ![c] = "idle"]
      /\ \A d \in Client : d # c => began'[d] = began[d]
      /\ \A d \in Client : pc'[d] # "idle" => pc'[d] = pc[d] /\ d # c
  BY DEF Reply, Inv, TypeOK
<1>8. KeyOf[c] # NoKey => \A i \in 1 .. n : wal[i] # KeyOf[c]
  BY DEF Inv, Owns, n
<1>9. Owns'
  <2> SUFFICES ASSUME NEW d \in Client, pc'[d] = "commit", KeyOf[d] # NoKey
               PROVE  /\ \A i \in 1 .. n + 1 : wal'[i] # KeyOf[d]
                      /\ \A e \in Client : pc'[e] = "commit" /\ KeyOf[e] = KeyOf[d] => e = d
    BY <1>2 DEF Owns
  <2>1. pc[d] = "commit" /\ d # c
    BY <1>7
  <2>2. KeyOf[c] # KeyOf[d]
    BY <2>1 DEF Inv, Owns
  <2>3. \A i \in 1 .. n : wal[i] # KeyOf[d]
    BY <2>1 DEF Inv, Owns, n
  <2>4. \A e \in Client : pc'[e] = "commit" /\ KeyOf[e] = KeyOf[d] => e = d
    BY <2>1, <1>7 DEF Inv, Owns
  <2> QED BY <2>2, <2>3, <2>4, <1>2, <1>3
<1>10. Told'
  <2> SUFFICES ASSUME NEW k \in Key, NEW i \in told'[k] PROVE i \in 1 .. n + 1 /\ wal'[i] = k
    BY <1>2 DEF Told, Key
  <2>1. CASE i \in told[k]
    <3>1. i \in 1 .. n /\ wal[i] = k
      BY <2>1 DEF Inv, Told, n
    <3> QED BY <3>1, <1>1, <1>2
  <2>2. CASE i \notin told[k]
    <3>1. s = "201" /\ k = KeyOf[c] /\ i = j
      BY <2>2 DEF Reply, Inv, TypeOK
    <3> QED BY <3>1, <1>1, <1>2, <1>5
  <2> QED BY <2>1, <2>2
<1>11. OneJobPerKey'
  <2> SUFFICES ASSUME NEW i \in 1 .. n + 1, NEW m \in 1 .. n + 1, wal'[i] = wal'[m], wal'[i] # NoKey
               PROVE  i = m
    BY <1>2 DEF OneJobPerKey
  <2>1. CASE i \in 1 .. n /\ m \in 1 .. n
    BY <2>1, <1>2 DEF Inv, OneJobPerKey, n
  <2> QED BY <2>1, <1>2, <1>3, <1>8
<1>12. Fresh'
  <2> SUFFICES ASSUME ~Replicated, NEW d \in Client, KeyOf[d] # EmptyKey
               PROVE  /\ pc'[d] \in {"insert", "commit"} /\ KeyOf[d] # NoKey =>
                            \A i \in 1 .. began'[d] : wal'[i] # KeyOf[d]
                      /\ answer'[d].status = "409" => answer'[d].job > began'[d]
    BY <1>1 DEF Fresh, Replicated
  <2>1. \A i \in 1 .. began[d] : i \in 1 .. n
    BY <1>1 DEF Inv, TypeOK, n
  <2>2. pc'[d] \in {"insert", "commit"} /\ KeyOf[d] # NoKey =>
           began'[d] = began[d] /\ \A i \in 1 .. began[d] : wal[i] # KeyOf[d]
    BY <1>7 DEF Inv, Fresh
  <2>3. answer'[d].status = "409" => answer'[d] = answer[d] /\ began'[d] = began[d]
    BY DEF Reply, Inv, TypeOK
  <2> QED BY <2>1, <2>2, <2>3, <1>2 DEF Inv, Fresh
<1> QED BY <1>6, <1>9, <1>10, <1>11, <1>12 DEF Inv

LEMMA FinishInv == ASSUME Inv, NEW c \in Client, Finish(c) PROVE Inv'
<1>1. Len(wal) \in Nat /\ 0 \in 0 .. Len(wal) /\ pc[c] = "commit"
  BY DEF Inv, TypeOK, Finish
<1>2. CASE c \notin Dangling /\ Commit(KeyOf[c]) /\ Reply(c, "201", Len(wal')) /\ UNCHANGED faults
  BY <1>1, <1>2, FaultType, CommitInv
<1>3. CASE c \notin Dangling /\ Fault /\ Commit(KeyOf[c]) /\ Reply(c, "500", 0)
  BY <1>1, <1>3, FaultType, CommitInv
<1>4. CASE /\ c \in Dangling \/ faults < FaultLimit
           /\ faults' = IF c \in Dangling THEN faults ELSE faults + 1
           /\ Reply(c, "500", 0) /\ UNCHANGED rows
  <2>1. faults' \in 0 .. FaultLimit
    BY <1>4, ApiAssumption DEF Inv, TypeOK
  <2> QED BY <1>1, <1>4, <2>1, ReplyInv DEF Status
<1> QED BY <1>2, <1>3, <1>4 DEF Finish

LEMMA CatchInv == ASSUME Inv, Catch PROVE Inv'
<1>1. /\ wal' = wal /\ replayed' \in 0 .. Len(wal) /\ replicaPool' = replicaPool
      /\ UNCHANGED <<pc, answer, faults, began, told>>
  BY DEF Catch, Replay, Inv, TypeOK
<1> QED BY <1>1 DEF Inv, TypeOK, Owns, Told, OneJobPerKey, Fresh, Replicated, Key

LEMMA InitInv == Init => Inv
<1> SUFFICES ASSUME Init PROVE Inv
  OBVIOUS
<1>1. Len(wal) = 0 /\ wal \in Seq(Creatable)
  BY DEF Init, RowsInit
<1>2. TypeOK
  BY <1>1, ApiAssumption DEF Init, RowsInit, TypeOK, Status
<1> QED BY <1>1, <1>2 DEF Init, Inv, Owns, Told, OneJobPerKey, Fresh

LEMMA SpecInv == Spec => []Inv
<1>1. Inv /\ UNCHANGED vars => Inv'
  BY DEF Inv, TypeOK, Owns, Told, OneJobPerKey, Fresh, Replicated, Key, vars, rows
<1>2. Inv /\ [Next]_vars => Inv'
  BY <1>1, SendInv, LookupInv, InsertInv, FinishInv, CatchInv DEF Next
<1> QED BY <1>2, InitInv, PTL DEF Spec

\* A key never has two jobs (CreateJob), with or without a standby.
THEOREM ApiOneJobPerKey == Spec => []OneJobPerKey
<1>1. Inv => OneJobPerKey
  BY DEF Inv
<1> QED BY <1>1, SpecInv, PTL

\* All answers that name a job for a key name the same, committed one
\* (createJob), with or without a standby.
THEOREM ApiAnswersAgree == Spec => []AnswersAgree
<1>1. Inv => AnswersAgree
  BY DEF Inv, Told, OneJobPerKey, AnswersAgree
<1> QED BY <1>1, SpecInv, PTL

\* Where reads go to the primary, a 409 for a key that is looked up is always
\* a race (createJob, GetJobByIdempotencyKey).
THEOREM ApiConflictMeansRace == Spec => []ConflictMeansRace
<1>1. Inv => ConflictMeansRace
  BY DEF Inv, Fresh, ConflictMeansRace
<1> QED BY <1>1, SpecInv, PTL

\* The type invariant of JobApi: a transaction with a dangling dependency leaves
\* no job (CreateJob), and no answer names a job that does not exist.
THEOREM ApiTypeCorrect == Spec => []TypeOK
<1>1. Inv => TypeOK
  BY DEF Inv
<1> QED BY <1>1, SpecInv, PTL
=============================================================================
