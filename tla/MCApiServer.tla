----------------------------- MODULE MCApiServer -----------------------------
(* Instance of ApiServer for TLC: a rolling deployment. *)
EXTENDS ApiServer, TLC

CONSTANTS p1, p2, p3

\* p1 still has the previous release; p2 and the worker p3 bring new versions.
Rolling == p1 :> {1, 2} @@ p2 :> {1, 2, 3} @@ p3 :> {1, 2, 3}
Buckets == Api \X IP
=============================================================================
