---------------------------- MODULE MCWorkerPool ----------------------------
(* Values of the constants for TLC.  One tick stands for two seconds.      *)
EXTENDS WorkerPool, TLC

CONSTANTS w1, w2, s1, s2, s3, r1

\* The workers and goroutines of the instances.
TwoHosts == s1 :> w1 @@ s2 :> w2
SharedHost == s1 :> w1 @@ s2 :> w1 @@ s3 :> w2

\* 2^a seconds, capped.
MaxBackoff == 2
CappedBackoff ==
    [a \in 1 .. MaxSmallint |->
       IF 2^(a - 1) > MaxBackoff THEN MaxBackoff ELSE 2^(a - 1)]

SamePriority == [r \in Run |-> 0]
TwoAttempts == [r \in Run |-> 2]
=============================================================================
