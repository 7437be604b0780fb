----------------------------- MODULE RateLimiter -----------------------------
(***************************************************************************)
(* The token bucket in front of /v1 (internal/api/ratelimit.go).  allow    *)
(* holds the mutex from before it reads the clock to its return, so a      *)
(* request is one step.  Tokens are counted in fractions: Unit of them are *)
(* one token and a tick refills Rate of them, so that refills of less than *)
(* a token, which the code keeps in a float64, happen.                     *)
(***************************************************************************)
EXTENDS Integers, Sequences

CONSTANTS
    Client,         \* client IPs, per process
    Rate, Unit,     \* rps is Rate/Unit tokens per tick
    Burst,          \* tokens of a full bucket
    MaxTime         \* bound: the clock stops here

ASSUME LimiterAssumption ==
    Rate \in Nat /\ Unit \in Nat \ {0} /\ Burst \in Nat \ {0} /\ MaxTime \in Nat

VARIABLES
    now,            \* time.Now()
    buckets,        \* buckets[c]; lastRefill -1: not in the map yet
    admitted,       \* history: admitted[c]: when requests of c were let through
    refused         \* history: refused[c]: c's latest request got a 429

limiter == <<now, buckets, admitted, refused>>

Full == Burst * Unit
NoBucket == [tokens |-> 0, lastRefill |-> -1]

\* The type of every variable: a bucket is neither overdrawn nor overfull.
LimiterTypeOK ==
    /\ now \in 0 .. MaxTime
    /\ buckets \in [Client -> [tokens: 0 .. Full, lastRefill: -1 .. MaxTime]]
    /\ admitted \in [Client -> Seq(0 .. MaxTime)]
    /\ refused \in [Client -> BOOLEAN]

LimiterInit ==
    /\ now = 0
    /\ buckets = [c \in Client |-> NoBucket]
    /\ admitted = [c \in Client |-> <<>>]
    /\ refused = [c \in Client |-> FALSE]

\* Mutants of Refilled: no cap; the fraction of a token is lost.
RefilledUncapped(b) ==
    IF b.lastRefill = -1 THEN Full ELSE b.tokens + (now - b.lastRefill) * Rate
RefilledWhole(b) ==
    IF b.lastRefill = -1 THEN Full
    ELSE LET n == b.tokens + (((now - b.lastRefill) * Rate) \div Unit) * Unit
         IN  IF n > Full THEN Full ELSE n

\* Tokens of bucket b after the lazy refill; a new bucket is full.
Refilled(b) ==
    IF b.lastRefill = -1 THEN Full
    ELSE LET n == b.tokens + (now - b.lastRefill) * Rate
         IN  IF n > Full THEN Full ELSE n

\* Mutant of Allow: lastRefill is not moved, so a refill is counted again.
AllowStaleRefill(c) ==
    LET t == Refilled(buckets[c])
        since == IF buckets[c].lastRefill = -1 THEN now ELSE buckets[c].lastRefill
    IN
    /\ buckets' = [buckets EXCEPT ![c] =
                     [tokens |-> IF t < Unit THEN t ELSE t - Unit, lastRefill |-> since]]
    /\ admitted' = [admitted EXCEPT ![c] = IF t < Unit THEN @ ELSE Append(@, now)]
    /\ refused' = [refused EXCEPT ![c] = t < Unit]
    /\ UNCHANGED now

\* Mutant of Allow: a token is taken whether there is one or not.
AllowOverdraft(c) ==
    LET t == Refilled(buckets[c]) IN
    /\ buckets' = [buckets EXCEPT ![c] = [tokens |-> t - Unit, lastRefill |-> now]]
    /\ admitted' = [admitted EXCEPT ![c] = IF t < Unit THEN @ ELSE Append(@, now)]
    /\ refused' = [refused EXCEPT ![c] = t < Unit]
    /\ UNCHANGED now

\* A request of c passes the middleware, or is answered 429.
Allow(c) ==
    LET t == Refilled(buckets[c]) IN
    /\ buckets' = [buckets EXCEPT ![c] =
                     [tokens |-> IF t < Unit THEN t ELSE t - Unit, lastRefill |-> now]]
    /\ admitted' = [admitted EXCEPT ![c] = IF t < Unit THEN @ ELSE Append(@, now)]
    /\ refused' = [refused EXCEPT ![c] = t < Unit]
    /\ UNCHANGED now

Tick ==
    /\ now < MaxTime
    /\ now' = now + 1
    /\ refused' = [c \in Client |-> FALSE]
    /\ UNCHANGED <<buckets, admitted>>

\* The process that holds the buckets of D ends; the next one starts with an
\* empty map (newRateLimiter).
Forget(D) ==
    /\ buckets' = [c \in Client |-> IF c \in D THEN NoBucket ELSE buckets[c]]
    /\ admitted' = [c \in Client |-> IF c \in D THEN <<>> ELSE admitted[c]]
    /\ refused' = [c \in Client |-> IF c \in D THEN FALSE ELSE refused[c]]
    /\ UNCHANGED now

LimiterNext == Tick \/ (\E c \in Client : Allow(c)) \/ (\E D \in SUBSET Client : Forget(D))

LimiterSpec == LimiterInit /\ [][LimiterNext]_limiter

-----------------------------------------------------------------------------
\* docs/VERIFICATION.md:51 measures "burst(40) + rps(20) x 5s" on one window; this
\* is that bound on every window: the requests i to j of a client are no more
\* than a full bucket and the refill of the time between them, in whatever
\* portions allow computed that refill and however idle the client was before.
WindowBound ==
    \A c \in Client : \A j \in 1 .. Len(admitted[c]) : \A i \in 1 .. j :
       (j - i + 1) * Unit <= Full + Rate * (admitted[c][j] - admitted[c][i])

\* The bound is the only reason for a 429: one more request of c would have
\* exceeded it in the window that starts at some admitted request, so refills
\* of less than a token are not lost and clients do not use up each other's
\* tokens (allow).
RefusedAtTheBound ==
    \A c \in Client : refused[c] =>
       \E i \in 1 .. Len(admitted[c]) :
          (Len(admitted[c]) - i + 2) * Unit > Full + Rate * (now - admitted[c][i])
=============================================================================
