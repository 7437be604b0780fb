------------------------------ MODULE MCJobApi ------------------------------
(* Instances of JobApi for TLC. *)
EXTENDS JobApi, TLC

CONSTANTS a, b, c, d, e, K, L

\* a and b share K; c, whose dependency does not exist, uses L; d, whose body
\* is invalid, and e send no key.
Mixed == a :> K @@ b :> K @@ c :> L @@ d :> NoKey @@ e :> NoKey
=============================================================================
