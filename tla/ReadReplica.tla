----------------------------- MODULE ReadReplica -----------------------------
(***************************************************************************)
(* The rows the API server writes to the primary and reads back through    *)
(* readPool (internal/store/postgres.go).  Only commits matter: wal[n] is  *)
(* what the n-th commit wrote, the primary has all of wal and a streaming  *)
(* standby a prefix of it.                                                 *)
(***************************************************************************)
EXTENDS Integers, Sequences

VARIABLES
    wal,            \* commits on the primary, oldest first
    replayed,       \* how many of them the standby shows
    replicaPool     \* s.replicaPool, "nil" unless EnableReadReplica was called

rows == <<wal, replayed, replicaPool>>

RowsInit ==
    /\ wal = <<>> /\ replayed = 0
    /\ replicaPool \in {"nil", "open"}

Replicated == replicaPool # "nil"

\* readPool: how much of wal a read sees.
Visible == IF Replicated THEN replayed ELSE Len(wal)

Commit(x) ==
    /\ wal' = Append(wal, x)
    /\ UNCHANGED <<replayed, replicaPool>>

\* The standby replays one more commit.
Replay ==
    /\ Replicated /\ replayed < Len(wal)
    /\ replayed' = replayed + 1
    /\ UNCHANGED <<wal, replicaPool>>
=============================================================================
