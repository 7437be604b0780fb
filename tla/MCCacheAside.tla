---------------------------- MODULE MCCacheAside ----------------------------
(* Instances of CacheAside for TLC. *)
EXTENDS CacheAside, TLC

CONSTANTS s1, s2, r1, r2, r3

\* r1 and r2 meet in one process, r3 is served by another.
TwoServers == r1 :> s1 @@ r2 :> s1 @@ r3 :> s2

\* All statuses of a job are SET and may follow each other, so one will do.
\* A run has the transitions of RunLifecycle, leases left out.
Statuses == {"job", "pending", "running", "succeeded", "failed", "dead"}
Moves == "job" :> {"job"} @@ "pending" :> {"running"}
         @@ "running" :> {"succeeded", "failed", "pending"}
         @@ "failed" :> {"dead"} @@ "succeeded" :> {} @@ "dead" :> {}
=============================================================================
