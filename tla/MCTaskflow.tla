----------------------------- MODULE MCTaskflow -----------------------------
(* Instances of Taskflow for TLC. *)
EXTENDS Taskflow, TLC

CONSTANTS p1, a, b, w1, w2, s1, s2

\* An hourly job, and one that runs once, after it.
Chain == a :> {} @@ b :> {a}
MixedCron == a :> 1 @@ b :> 0

AllRuns == Job \X (1 .. RunLimit)
FlatBackoff == [n \in 1 .. MaxSmallint |-> RetryDelay]
TwoHosts == s1 :> w1 @@ s2 :> w2
SamePriority == [r \in Run |-> 0]
TwoAttempts == [r \in Run |-> 2]

\* No worker has a handler for the runs of b.
HandledA == {<<a, 1>>}
=============================================================================
