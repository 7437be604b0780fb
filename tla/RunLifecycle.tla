---------------------------- MODULE RunLifecycle ----------------------------
(***************************************************************************)
(* What the workers promise about a run, without leases, time or tables:   *)
(* the life cycle of docs/ARCHITECTURE.md with an owner.  A run has at     *)
(* most one owner, only its owner moves it towards an end, it is taken     *)
(* back only once it has no owner, succeeded and dead are ends, and a run  *)
(* is buried with exactly one letter.                                      *)
(***************************************************************************)
EXTENDS Naturals

CONSTANTS Run, Owner

VARIABLES
    status, letters,
    owner           \* owner[r]: the set of owners of r

lifecycle == <<status, owner, letters>>

LifecycleInit ==
    /\ status = [r \in Run |-> "absent"]
    /\ owner = [r \in Run |-> {}]
    /\ letters = [r \in Run |-> 0]

Owned(r) == owner[r] # {} /\ status[r] \in {"leased", "running"}

Become(r, st, O) ==
    /\ status' = [status EXCEPT ![r] = st]
    /\ owner' = [owner EXCEPT ![r] = O]

Create(r) ==
    status[r] = "absent" /\ Become(r, "pending", {}) /\ UNCHANGED letters

\* The claim may get no owner: its answer is lost.
Claim(r) ==
    /\ status[r] = "pending"
    /\ \E O \in {{}} \cup {{o} : o \in Owner} : Become(r, "leased", O)
    /\ UNCHANGED letters

Begin(r) == Owned(r) /\ Become(r, "running", owner[r]) /\ UNCHANGED letters

Succeed(r) == Owned(r) /\ Become(r, "succeeded", {}) /\ UNCHANGED letters

Requeue(r) == Owned(r) /\ Become(r, "pending", {}) /\ UNCHANGED letters

GiveUp(r) == Owned(r) /\ Become(r, "failed", owner[r]) /\ UNCHANGED letters

\* From failed, or directly when recording the failure itself failed.
BuryRun(r) ==
    /\ owner[r] # {}
    /\ status[r] \in {"leased", "running", "failed"}
    /\ Become(r, "dead", {})
    /\ letters' = [letters EXCEPT ![r] = @ + 1]

\* Owners of the runs S die or lose their store calls.
Abandon(S) ==
    /\ owner' = [r \in Run |-> IF r \in S THEN {} ELSE owner[r]]
    /\ UNCHANGED <<status, letters>>

TakeBack(S) ==
    /\ \A r \in S : status[r] \in {"leased", "running"} /\ owner[r] = {}
    /\ status' = [r \in Run |-> IF r \in S THEN "pending" ELSE status[r]]
    /\ UNCHANGED <<owner, letters>>

LifecycleNext ==
    \/ \E r \in Run :
         \/ Create(r) \/ Claim(r) \/ Begin(r) \/ Succeed(r)
         \/ Requeue(r) \/ GiveUp(r) \/ BuryRun(r)
    \/ \E S \in SUBSET Run : Abandon(S) \/ TakeBack(S)

LifecycleSpec == LifecycleInit /\ [][LifecycleNext]_lifecycle
=============================================================================
