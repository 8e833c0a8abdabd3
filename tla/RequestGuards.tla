---------------------------- MODULE RequestGuards ---------------------------
(***************************************************************************)
(* The way of an HTTP request with an API key: the global guards of        *)
(* app.module.ts (AuthGuard, then TenantGuard), ApiKeyGuard, and           *)
(* RateLimitInterceptor, which counts the requests of a key and a day in   *)
(* Redis. The source binds the last two to no route; a request here goes   *)
(* to a route that has both, as api-key.service.ts:80-83 intends.          *)
(*                                                                         *)
(* Each await whose outcome others can see is a step. Beside the requests  *)
(* run the calls that change what they read: revokeApiKey and              *)
(* revokeTenantKeys, and the plan changes of TenantBilling. A day ends at  *)
(* midnight UTC. A counter ends 24 hours after its EXPIRE, so some time in *)
(* the day after that EXPIRE, even while a request that read the date of   *)
(* the counter still waits for its INCR, which then starts a new counter   *)
(* of that name (redisServer.ts:10: a command waits for as long as Redis   *)
(* is not connected).                                                      *)
(*                                                                         *)
(* GuardEnv: "dbError", "redisError" (a command fails and has no effect),  *)
(* "resend" (the connection breaks after an INCR took effect: ioredis      *)
(* sends it again), "crash" (the process that runs a request dies).        *)
(***************************************************************************)
EXTENDS Integers, FiniteSets

CONSTANTS
    Requests,
    Keys,
    Tenants,
    KeyOf,      \* the API key in a request's header, NoKey for a JWT instead
    NoKey,
    RouteOf,    \* the decorator of a request's route
    TenantOf,   \* the tenant of each key
    PlanLimit,  \* PLAN_LIMITS: free 4, pro 5000, enterprise -1, for unlimited
    Days,       \* 0 .. the last day
    GuardEnv

Plan == {"free", "pro", "enterprise"}

ASSUME LimitAssumption == PlanLimit \in [Plan -> Nat \cup {-1}]
ASSUME KeyOfAssumption == KeyOf \in [Requests -> Keys \cup {NoKey}]
ASSUME RouteAssumption == RouteOf \in [Requests -> {"public", "skipTenant", "none"}]
ASSUME TenantAssumption == TenantOf \in [Keys -> Tenants]
ASSUME DaysAssumption == 0 \in Days /\ Days \subseteq Nat
ASSUME GuardEnvAssumption == GuardEnv \subseteq {"dbError", "redisError", "resend", "crash"}

VARIABLES
    plan,      \* the column plan of each tenant
    active,    \* the keys whose column active is true
    today,
    counter,   \* ratelimit:<day>:<key>, 0 when Redis has no such key
    expiry,    \* the day of each counter's EXPIRE, -1 without a lifetime
    resent,    \* the counters some request counted twice
    late,      \* the requests counted on a later day than they were named for
    pc,        \* where each request is; "failed" when a guard refused it, Redis
               \* failed it or its process died
    limit,     \* the limit of the plan ApiKeyGuard put into the context
    date,      \* the day check() read
    usage      \* the count the request got back

redisVars == <<counter, expiry, resent, late>>
localVars == <<limit, date, usage>>
vars == <<plan, active, today, redisVars, pc, localVars>>

Counters == Keys \X Days
Fault(kind) == kind \in GuardEnv
Goto(q, location) == pc' = [pc EXCEPT ![q] = location]

Init ==
    /\ plan \in [Tenants -> Plan]
    /\ active = Keys
    /\ today = 0
    /\ counter = [c \in Counters |-> 0]
    /\ expiry = [c \in Counters |-> -1]
    /\ resent = {}
    /\ late = {}
    /\ pc = [q \in Requests |-> "arrived"]
    /\ limit = [q \in Requests |-> 0]
    /\ date = [q \in Requests |-> 0]
    /\ usage = [q \in Requests |-> 0]

-----------------------------------------------------------------------------
(* The guards.                                                             *)

\* AuthGuard wants a JWT, TenantGuard a request.tenant, which nobody sets;
\* @Public() skips both, @SkipTenant() the second.
GlobalGuards(q) ==
    RouteOf[q] = "public" \/ (RouteOf[q] = "skipTenant" /\ KeyOf[q] = NoKey)

\* ApiKeyGuard finds the key with its tenant in one query. Then intercept()
\* looks up the limit and names the counter, before its first await.
Admit(q) ==
    /\ pc[q] = "arrived"
    /\ \/ /\ GlobalGuards(q) /\ KeyOf[q] \in active
          /\ limit' = [limit EXCEPT ![q] = PlanLimit[plan[TenantOf[KeyOf[q]]]]]
          /\ date' = [date EXCEPT ![q] = today]
          /\ Goto(q, IF limit'[q] = -1 THEN "handled" ELSE "incr")
       \/ /\ ~GlobalGuards(q) \/ KeyOf[q] \notin active \/ Fault("dbError")
          /\ Goto(q, "failed")
          /\ UNCHANGED <<limit, date>>
    /\ UNCHANGED <<plan, active, today, redisVars, usage>>

-----------------------------------------------------------------------------
(* RateLimitInterceptor.check                                              *)

CounterOf(q) == <<KeyOf[q], date[q]>>

\* Seeded fault of Verdict: the limit itself is taken for an excess.
VerdictEarly(n, max) == IF n >= max THEN "exceeded" ELSE "handled"

Verdict(n, max) == IF n > max THEN "exceeded" ELSE "handled"

\* Seeded faults of Incr: GET and then SET; no EXPIRE.
IncrReadsFirst(q) ==
    /\ pc[q] = "incr"
    /\ \/ /\ usage[q] = 0
          /\ usage' = [usage EXCEPT ![q] = counter[CounterOf(q)] + 1]
          /\ UNCHANGED <<counter, pc>>
       \/ /\ usage[q] # 0
          /\ counter' = [counter EXCEPT ![CounterOf(q)] = usage[q]]
          /\ Goto(q, IF usage[q] = 1 THEN "expire" ELSE Verdict(usage[q], limit[q]))
          /\ UNCHANGED usage
    /\ UNCHANGED <<plan, active, today, expiry, resent, late, limit, date>>
IncrForever(q) ==
    /\ pc[q] = "incr"
    /\ counter' = [counter EXCEPT ![CounterOf(q)] = @ + 1]
    /\ usage' = [usage EXCEPT ![q] = counter'[CounterOf(q)]]
    /\ Goto(q, Verdict(usage'[q], limit[q]))
    /\ UNCHANGED <<plan, active, today, expiry, resent, late, limit, date>>

Incr(q) ==
    /\ pc[q] = "incr"
    /\ \/ /\ \/ /\ counter' = [counter EXCEPT ![CounterOf(q)] = @ + 1]
                /\ UNCHANGED resent
             \/ /\ Fault("resend")
                /\ counter' = [counter EXCEPT ![CounterOf(q)] = @ + 2]
                /\ resent' = resent \cup {CounterOf(q)}
          /\ usage' = [usage EXCEPT ![q] = counter'[CounterOf(q)]]
          /\ late' = IF date[q] < today THEN late \cup {q} ELSE late
          /\ Goto(q, IF usage'[q] = 1 THEN "expire" ELSE Verdict(usage'[q], limit[q]))
       \/ /\ Fault("redisError")
          /\ Goto(q, "failed")
          /\ UNCHANGED <<counter, usage, resent, late>>
    /\ UNCHANGED <<plan, active, today, expiry, limit, date>>

Expire(q) ==
    /\ pc[q] = "expire"
    /\ \/ /\ expiry' = [expiry EXCEPT ![CounterOf(q)] = today]
          /\ Goto(q, Verdict(usage[q], limit[q]))
       \/ /\ Fault("redisError")
          /\ Goto(q, "failed")
          /\ UNCHANGED expiry
    /\ UNCHANGED <<plan, active, today, counter, resent, late, localVars>>

-----------------------------------------------------------------------------
(* What runs beside the requests.                                          *)

\* revokeApiKey for one key; revokeTenantKeys for those of a tenant
Revoke(K) ==
    /\ K \subseteq active /\ K # {}
    /\ active' = active \ K
    /\ UNCHANGED <<plan, today, redisVars, pc, localVars>>

ChangePlan(t, p) ==
    /\ plan[t] # p
    /\ plan' = [plan EXCEPT ![t] = p]
    /\ UNCHANGED <<active, today, redisVars, pc, localVars>>

Midnight ==
    /\ today + 1 \in Days
    /\ today' = today + 1
    /\ UNCHANGED <<plan, active, redisVars, pc, localVars>>

\* A lifetime is over.
EndCounter(c) ==
    /\ expiry[c] # -1 /\ expiry[c] < today
    /\ counter' = [counter EXCEPT ![c] = 0]
    /\ expiry' = [expiry EXCEPT ![c] = -1]
    /\ UNCHANGED <<plan, active, today, resent, late, pc, localVars>>

Crash(q) ==
    /\ Fault("crash")
    /\ pc[q] \in {"incr", "expire"}
    /\ Goto(q, "failed")
    /\ UNCHANGED <<plan, active, today, redisVars, localVars>>

RequestStep(q) == Admit(q) \/ Incr(q) \/ Expire(q)

Next ==
    \/ \E q \in Requests : RequestStep(q) \/ Crash(q)
    \/ \E k \in Keys : Revoke({k})
    \/ \E t \in Tenants : Revoke({k \in active : TenantOf[k] = t})
    \/ \E t \in Tenants, p \in Plan : ChangePlan(t, p)
    \/ Midnight
    \/ \E c \in Counters : EndCounter(c)

Spec == Init /\ [][Next]_vars

-----------------------------------------------------------------------------
(* Properties.                                                             *)

\* Every variable stays in its type, and only counters that exist end.
TypeOK ==
    /\ plan \in [Tenants -> Plan]
    /\ active \subseteq Keys
    /\ today \in Days
    /\ counter \in [Counters -> Nat]
    /\ expiry \in [Counters -> Days \cup {-1}]
    /\ \A c \in Counters : expiry[c] # -1 => counter[c] > 0
    /\ resent \subseteq Counters
    /\ late \subseteq Requests
    /\ pc \in [Requests -> {"arrived", "incr", "expire", "handled",
                            "exceeded", "failed"}]
    /\ limit \in [Requests -> {PlanLimit[p] : p \in Plan}  \cup {0}]
    /\ date \in [Requests -> Days]
    /\ usage \in [Requests -> Nat]

\* The requests that were counted on c, or whose count is lost.
CountedOn(c) == {q \in Requests : usage[q] > 0 /\ <<KeyOf[q], date[q]>> = c}

Handled(c, p) ==
    {q \in CountedOn(c) : pc[q] = "handled" /\ limit[q] = PlanLimit[p]}

\* Of the requests that were counted on the day they arrived, no key gets more
\* handled under a plan than the plan allows, however requests, plan changes,
\* midnights and ending counters interleave. Those whose INCR took effect after
\* midnight are excepted: by then their counter may have ended, and with them
\* more than the plan allows are handled for the day.
DailyLimit ==
    \A c \in Counters, p \in Plan :
      PlanLimit[p] # -1 => Cardinality(Handled(c, p) \ late) <= PlanLimit[p]

\* A request is told "Rate limit exceeded" only when as many other requests of
\* its own key as its plan allows were counted for the same day, unless Redis
\* counted one of them twice; also when the counter ended and began again.
RefusalEarned ==
    \A q \in Requests : pc[q] = "exceeded" =>
      LET c == <<KeyOf[q], date[q]>> IN
        c \in resent \/ Cardinality(CountedOn(c) \ {q}) >= limit[q]

\* A counter that stays for good is the work of a fault: the request that saw
\* 1 failed or died before its EXPIRE, or nobody saw 1.
CountersEnd ==
    \A c \in Counters : counter[c] > 0 /\ expiry[c] = -1 =>
      c \in resent \/ \E q \in CountedOn(c) :
                        usage[q] = 1 /\ pc[q] \in {"expire", "failed"}
=============================================================================
