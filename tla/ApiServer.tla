------------------------------ MODULE ApiServer ------------------------------
(***************************************************************************)
(* The processes of a deployment from start to serving (cmd/api/main.go):  *)
(* RunMigrations, then NewRouter with a rate limiter of its own, then      *)
(* requests.  Migrations has the first part and RateLimiter the second; a  *)
(* bucket belongs to a client IP in a process and dies with the process.   *)
(***************************************************************************)
EXTENDS Migrations, RateLimiter, FiniteSets

CONSTANTS
    Api,            \* the processes that are API servers
    IP              \* client IPs

ASSUME ServerAssumption ==
    Api \subseteq Process /\ IsFiniteSet(Api) /\ Client = Api \X IP

VARIABLES
    passed,         \* history: passed[i]: requests of i let through, anywhere
    starts          \* history: how often an API server began to serve

serving == <<limiter, passed, starts>>

\* The types of all variables; in particular, no bucket is overdrawn or overfull
\* and the deployment records only versions of its directories.
ServerTypeOK ==
    /\ TypeOK /\ LimiterTypeOK
    /\ passed \in [IP -> Nat] /\ starts \in Nat

ServerInit ==
    /\ Init /\ LimiterInit
    /\ passed = [i \in IP |-> 0]
    /\ starts = 0

\* What a statement of RunMigrations means to the router of p: NewRouter is next
\* when it returned without an error.
Router(p) ==
    /\ starts' = IF p \in Api /\ pc'[p] = "serving" THEN starts + 1 ELSE starts
    /\ UNCHANGED <<limiter, passed>>

\* main up to the point where the server listens.
Startup(p) == Step(p) /\ Router(p)

\* A failure on the way there.
Stumble(p) == (Fail(p) \/ UnlockLost(p)) /\ Router(p)

\* p is killed; with it go the buckets it had.
Kill(p) ==
    /\ Crash(p)
    /\ Forget({p} \X IP)
    /\ UNCHANGED <<passed, starts>>

EndSession == SessionEnds /\ UNCHANGED serving

\* A request of i reaches the middleware of p.
Request(p, i) ==
    /\ p \in Api /\ pc[p] = "serving"
    /\ Allow(<<p, i>>)
    /\ passed' = [passed EXCEPT ![i] = IF refused'[<<p, i>>] THEN @ ELSE @ + 1]
    /\ UNCHANGED <<vars, starts>>

Pass == Tick /\ UNCHANGED <<vars, passed, starts>>

ServerNext ==
    \/ \E p \in Process : Startup(p) \/ Stumble(p) \/ Kill(p) \/ \E i \in IP : Request(p, i)
    \/ EndSession
    \/ Pass

\* Deployments restart processes, calls return and the server ends sessions
\* that lost their client.
ServerSpec ==
    /\ ServerInit /\ [][ServerNext]_<<vars, serving>>
    /\ WF_<<vars, serving>>(EndSession)
    /\ \A p \in Process : WF_<<vars, serving>>(Startup(p))

-----------------------------------------------------------------------------
\* "each replica policing its own traffic independently" (internal/api/
\* ratelimit.go:21) comes to this for a client of all of them: a burst for
\* every time a server began to serve, and the refill of as many buckets as
\* there are servers.
FleetBound ==
    \A i \in IP :
       passed[i] * Unit <= starts * Full + Cardinality(Api) * Rate * now
=============================================================================
