----------------------------- MODULE MCPromoter -----------------------------
(* Instances of Promoter for TLC. *)
EXTENDS Promoter, TLC

CONSTANTS p1, p2, a, b

Replicas == Permutations(Replica)

\* One recurring job, due at every instant of the clock.
Single == a :> {}
Hourly == a :> 1

\* One-shots: b waits for a.
Chain == a :> {} @@ b :> {a}
TwoShots == a :> 0 @@ b :> 0
=============================================================================
