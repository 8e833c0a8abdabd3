------------------------- MODULE RequestGuardsProofs ------------------------
(***************************************************************************)
(* What RequestGuards promises about the daily counters, for any requests, *)
(* keys, tenants and plan limits, any number of days and any faults.       *)
(***************************************************************************)
EXTENDS RequestGuards, FiniteSetTheorems, TLAPS

USE LimitAssumption, KeyOfAssumption, TenantAssumption, DaysAssumption

-----------------------------------------------------------------------------
(* Types.                                                                  *)

\* A request at its EXPIRE got 1 back, its counter is still there without a
\* lifetime, and no other request is going to give it one.
AtExpire(q) ==
    /\ usage[q] = 1 /\ counter[CounterOf(q)] > 0 /\ expiry[CounterOf(q)] = -1
    /\ \A x \in Requests : pc[x] = "expire" /\ CounterOf(x) = CounterOf(q) => x = q

\* A request that is going to count has a counter and a limit, and has not
\* counted before its INCR; its date is not ahead.
PlaceInv ==
    \A q \in Requests :
      /\ pc[q] \in {"incr", "expire", "exceeded"} =>
           CounterOf(q) \in Counters /\ limit[q] \in Nat
      /\ pc[q] \in {"arrived", "incr"} => usage[q] = 0
      /\ date[q] <= today
      /\ pc[q] = "expire" => AtExpire(q)

Typed == TypeOK /\ PlaceInv

LEMMA InitTyped == Init => Typed
  BY DEF Init, Typed, TypeOK, PlaceInv, AtExpire, Counters, Plan

LEMMA AdmitTyped ==
  ASSUME Typed, NEW q \in Requests, Admit(q)
  PROVE  Typed'
<1>1. CASE pc'[q] = "failed" /\ UNCHANGED <<limit, date>>
  BY <1>1 DEF Typed, TypeOK, PlaceInv, AtExpire, Admit, Goto, redisVars, CounterOf, Counters
<1>2. CASE /\ KeyOf[q] \in active
           /\ limit' = [limit EXCEPT ![q] = PlanLimit[plan[TenantOf[KeyOf[q]]]]]
           /\ date' = [date EXCEPT ![q] = today]
           /\ Goto(q, IF limit'[q] = -1 THEN "handled" ELSE "incr")
  <2>1. plan[TenantOf[KeyOf[q]]] \in Plan
    BY <1>2 DEF Typed, TypeOK
  <2>2. /\ limit'[q] \in Nat \cup {-1}
        /\ limit' \in [Requests -> {PlanLimit[p] : p \in Plan} \cup {0}]
    BY <1>2, <2>1 DEF Typed, TypeOK
  <2>3. date' \in [Requests -> Days] /\ date'[q] = today
    BY <1>2 DEF Typed, TypeOK
  <2>4. pc'[q] \in {"handled", "incr"} /\ (pc'[q] = "incr" => limit'[q] \in Nat)
    BY <1>2, <2>2 DEF Typed, TypeOK, Goto
  <2>5. /\ pc[q] = "arrived" /\ pc' = [pc EXCEPT ![q] = pc'[q]]
        /\ UNCHANGED <<plan, active, today, redisVars, usage>>
    BY DEF Admit, Goto, Typed, TypeOK
  <2>6. TypeOK'
    BY <2>2, <2>3, <2>4, <2>5 DEF Typed, TypeOK, redisVars
  <2>7. /\ \A x \in Requests : x # q => /\ pc'[x] = pc[x] /\ date'[x] = date[x]
                                        /\ limit'[x] = limit[x] /\ CounterOf(x)' = CounterOf(x)
        /\ CounterOf(q)' \in Counters /\ date'[q] <= today'
    BY <1>2, <2>3, <2>5 DEF Typed, TypeOK, CounterOf, Counters
  <2>8. \A x \in Requests : pc'[x] = "expire" => AtExpire(x)'
    BY <2>4, <2>5, <2>7 DEF Typed, PlaceInv, AtExpire, redisVars
  <2>9. PlaceInv'
    BY <2>4, <2>5, <2>7, <2>8 DEF Typed, PlaceInv, Counters
  <2> QED
    BY <2>6, <2>9 DEF Typed
<1> QED
  BY <1>1, <1>2 DEF Admit, Goto, Typed, TypeOK

LEMMA IncrTyped ==
  ASSUME Typed, NEW q \in Requests, Incr(q)
  PROVE  Typed'
<1>1. CASE pc'[q] = "failed" /\ UNCHANGED <<counter, usage, resent, late>>
  BY <1>1 DEF Typed, TypeOK, PlaceInv, AtExpire, Incr, Goto, CounterOf, Counters
<1>2. CASE \E n \in {1, 2} :
             /\ counter' = [counter EXCEPT ![CounterOf(q)] = @ + n]
             /\ usage' = [usage EXCEPT ![q] = counter'[CounterOf(q)]]
             /\ Goto(q, IF usage'[q] = 1 THEN "expire" ELSE Verdict(usage'[q], limit[q]))
  <2>1. CounterOf(q) \in Counters /\ limit[q] \in Nat /\ pc[q] = "incr"
    BY DEF Typed, PlaceInv, Incr
  <2>2. /\ counter' \in [Counters -> Nat]
        /\ \A c \in Counters : counter[c] <= counter'[c]
        /\ counter'[CounterOf(q)] > 0
    BY <1>2, <2>1 DEF Typed, TypeOK
  <2>3. usage' \in [Requests -> Nat] /\ usage'[q] = counter'[CounterOf(q)]
    BY <1>2, <2>1, <2>2 DEF Typed, TypeOK
  <2>4. pc'[q] \in {"expire", "exceeded", "handled"} /\ (pc'[q] = "expire" => usage'[q] = 1)
    BY <1>2 DEF Verdict, Goto, Typed, TypeOK
  <2>5. resent' \subseteq Counters /\ late' \subseteq Requests
        /\ pc' = [pc EXCEPT ![q] = pc'[q]]
        /\ UNCHANGED <<plan, active, today, expiry, limit, date>>
    BY <2>1 DEF Incr, Goto, Typed, TypeOK
  <2>6. TypeOK'
    BY <2>2, <2>3, <2>4, <2>5 DEF Typed, TypeOK
  <2>7. ASSUME pc'[q] = "expire"
        PROVE  /\ expiry[CounterOf(q)] = -1
               /\ \A x \in Requests : pc[x] = "expire" => CounterOf(x) # CounterOf(q)
    <3>1. counter[CounterOf(q)] = 0
      BY <1>2, <2>1, <2>3, <2>4, <2>7 DEF Typed, TypeOK
    <3> QED
      BY <2>1, <3>1 DEF Typed, TypeOK, PlaceInv, AtExpire
  <2>8. \A x \in Requests : pc'[x] = "expire" => AtExpire(x)'
    <3> SUFFICES ASSUME NEW x \in Requests, pc'[x] = "expire" PROVE AtExpire(x)'
      OBVIOUS
    <3>1. \A y \in Requests : y # q => pc'[y] = pc[y] /\ usage'[y] = usage[y]
      BY <1>2, <2>5 DEF Typed, TypeOK
    <3>2. \A y \in Requests : CounterOf(y)' = CounterOf(y)
      BY <2>5 DEF CounterOf
    <3>3. CASE x = q
      BY <2>2, <2>4, <2>5, <2>7, <3>1, <3>2, <3>3 DEF AtExpire
    <3>4. CASE x # q
      <4>1. AtExpire(x) /\ CounterOf(x) \in Counters
        BY <3>1, <3>4 DEF Typed, PlaceInv
      <4>2. counter'[CounterOf(x)] > 0
        BY <2>2, <4>1 DEF AtExpire, Typed, TypeOK
      <4>3. pc'[q] = "expire" => CounterOf(q) # CounterOf(x)
        BY <2>7, <3>1, <3>4
      <4> QED
        BY <2>5, <3>1, <3>2, <3>4, <4>1, <4>2, <4>3 DEF AtExpire
    <3> QED
      BY <3>3, <3>4
  <2>9. PlaceInv'
    BY <1>2, <2>1, <2>2, <2>3, <2>4, <2>5, <2>8 DEF Typed, TypeOK, PlaceInv, CounterOf
  <2> QED
    BY <2>6, <2>9 DEF Typed
<1> QED
  BY <1>1, <1>2 DEF Incr, Goto, Typed, TypeOK

LEMMA ExpireTyped ==
  ASSUME Typed, NEW q \in Requests, Expire(q)
  PROVE  Typed'
<1>1. /\ pc[q] = "expire" /\ limit[q] \in Nat
      /\ CounterOf(q) \in Counters /\ AtExpire(q)
  BY DEF Typed, PlaceInv, Expire
<1>2. pc'[q] \in {"exceeded", "handled", "failed"} /\ pc' = [pc EXCEPT ![q] = pc'[q]]
  BY DEF Expire, Goto, Verdict, Typed, TypeOK
<1>3. /\ expiry' \in {expiry, [expiry EXCEPT ![CounterOf(q)] = today]}
      /\ UNCHANGED <<plan, active, today, counter, resent, late, limit, date, usage>>
  BY DEF Expire, localVars
<1>4. TypeOK'
  <2>1. expiry' \in [Counters -> Days \cup {-1}]
    BY <1>1, <1>3 DEF Typed, TypeOK
  <2>2. \A c \in Counters : expiry'[c] # -1 => counter'[c] > 0
    BY <1>1, <1>3 DEF Typed, TypeOK, AtExpire
  <2> QED
    BY <1>2, <1>3, <2>1, <2>2 DEF Typed, TypeOK
<1>5. PlaceInv'
  <2>1. \A x \in Requests : pc'[x] = "expire" => AtExpire(x)'
    <3> SUFFICES ASSUME NEW x \in Requests, pc'[x] = "expire" PROVE AtExpire(x)'
      OBVIOUS
    <3>1. x # q /\ pc[x] = "expire" /\ \A y \in Requests : pc'[y] = "expire" => pc[y] = "expire"
      BY <1>2 DEF Typed, TypeOK
    <3>2. AtExpire(x) /\ CounterOf(x) \in Counters /\ CounterOf(x) # CounterOf(q)
      BY <1>1, <3>1 DEF Typed, PlaceInv, AtExpire
    <3>3. expiry'[CounterOf(x)] = expiry[CounterOf(x)]
      BY <1>1, <1>3, <3>2 DEF Typed, TypeOK
    <3> QED
      BY <1>3, <3>1, <3>2, <3>3 DEF AtExpire, CounterOf
  <2> QED
    BY <1>1, <1>2, <1>3, <2>1 DEF Typed, TypeOK, PlaceInv, CounterOf
<1> QED
  BY <1>4, <1>5 DEF Typed

LEMMA OtherTyped ==
  ASSUME Typed,
         \/ \E q \in Requests : Crash(q)
         \/ \E K \in SUBSET Keys : Revoke(K)
         \/ \E t \in Tenants, p \in Plan : ChangePlan(t, p)
         \/ Midnight
         \/ \E c \in Counters : EndCounter(c)
  PROVE  Typed'
<1> USE DEF Typed, TypeOK, PlaceInv, AtExpire, CounterOf, redisVars, localVars
<1>1. ASSUME NEW q \in Requests, Crash(q) PROVE Typed'
  BY <1>1 DEF Crash, Goto, Counters
<1>2. ASSUME NEW K \in SUBSET Keys, Revoke(K) PROVE Typed'
  BY <1>2 DEF Revoke, Counters
<1>3. ASSUME NEW t \in Tenants, NEW p \in Plan, ChangePlan(t, p) PROVE Typed'
  BY <1>3 DEF ChangePlan, Counters
<1>4. CASE Midnight
  <2>1. today \in Nat /\ \A q \in Requests : date[q] \in Nat
    OBVIOUS
  <2> QED
    BY <1>4, <2>1 DEF Midnight
<1>5. ASSUME NEW c \in Counters, EndCounter(c) PROVE Typed'
  BY <1>5 DEF EndCounter, Counters
<1> QED
  BY <1>1, <1>2, <1>3, <1>4, <1>5

LEMMA NextSplits ==
  Typed /\ Next => \/ \E q \in Requests : Admit(q) \/ Incr(q) \/ Expire(q)
                   \/ \E q \in Requests : Crash(q)
                   \/ \E K \in SUBSET Keys : Revoke(K)
                   \/ \E t \in Tenants, p \in Plan : ChangePlan(t, p)
                   \/ Midnight
                   \/ \E c \in Counters : EndCounter(c)
  BY DEF Next, RequestStep, Typed, TypeOK

LEMMA StepTyped == Typed /\ [Next]_vars => Typed'
<1> SUFFICES ASSUME Typed, [Next]_vars PROVE Typed'
  OBVIOUS
<1>1. CASE Next
  BY <1>1, NextSplits, AdmitTyped, IncrTyped, ExpireTyped, OtherTyped
<1>2. CASE UNCHANGED vars
  BY <1>2 DEF vars, redisVars, localVars, Typed, TypeOK, PlaceInv, AtExpire, CounterOf
<1> QED
  BY <1>1, <1>2

LEMMA AlwaysTyped == Spec => []Typed
  BY InitTyped, StepTyped, PTL DEF Spec

\* Every variable of RequestGuards keeps its type, and only counters that
\* exist have a lifetime.
THEOREM TypeCorrect == Spec => []TypeOK
<1>1. Typed => TypeOK
  BY DEF Typed
<1> QED
  BY <1>1, AlwaysTyped, PTL

-----------------------------------------------------------------------------
(* What the requests of one key and day got back.                          *)

\* A lifetime begins no earlier than the day of its counter, so that a counter
\* does not end on that day. No two requests counted on that day got one number
\* back, and none a number the counter has not reached by then. Where Redis
\* counted each request once, every number up to the counter's was given to
\* somebody, and so was every number below one that was given.
CountInv(c) ==
    /\ IsFiniteSet(CountedOn(c))
    /\ expiry[c] # -1 => c[2] <= expiry[c]
    /\ \A x, y \in CountedOn(c) \ late : usage[x] = usage[y] => x = y
    /\ today <= c[2] => \A x \in CountedOn(c) : usage[x] <= counter[c]
    /\ c \notin resent =>
         /\ \A x \in CountedOn(c) : \A n \in 1 .. usage[x] :
              \E y \in CountedOn(c) : usage[y] = n
         /\ counter[c] > 0 => \E y \in CountedOn(c) : usage[y] = counter[c]

AllCounts == \A c \in Counters : CountInv(c)

LEMMA CountsStart == Init => AllCounts
<1> SUFFICES ASSUME Init, NEW c \in Counters PROVE CountInv(c)
  BY DEF AllCounts
<1>1. CountedOn(c) = {}
  BY DEF Init, CountedOn
<1> QED
  BY <1>1, FS_EmptySet DEF Init, CountInv

\* A step in which nobody counts keeps CountInv, also when it gives c a lifetime
\* or ends c on a later day.
LEMMA QuietStep ==
  ASSUME Typed, NEW c \in Counters, CountInv(c),
         UNCHANGED <<usage, resent, late>>, today <= today', today' \in Nat,
         \A x \in Requests : usage[x] > 0 => date'[x] = date[x],
         counter'[c] = counter[c] \/ (counter'[c] = 0 /\ c[2] < today'),
         expiry'[c] \in {-1, expiry[c]} \/ c[2] <= expiry'[c]
  PROVE  CountInv(c)'
<1>1. CountedOn(c)' = CountedOn(c)
  BY DEF CountedOn
<1>2. c[2] \in Nat /\ today \in Nat
  BY DEF Counters, Typed, TypeOK
<1> QED
  BY <1>1, <1>2 DEF CountInv

LEMMA IncrCounts ==
  ASSUME Typed, NEW q \in Requests, Incr(q), NEW c \in Counters, CountInv(c)
  PROVE  CountInv(c)'
<1>1. /\ pc[q] = "incr" /\ CounterOf(q) \in Counters /\ usage[q] = 0
      /\ UNCHANGED <<date, today, expiry>> /\ today \in Nat
      /\ \A x \in Requests \ {q} : usage'[x] = usage[x]
  BY DEF Typed, TypeOK, PlaceInv, Incr
<1>2. CASE UNCHANGED <<counter, usage, resent, late>>
  BY <1>1, <1>2, QuietStep
<1>3. ASSUME NEW n \in {1, 2},
             counter' = [counter EXCEPT ![CounterOf(q)] = @ + n],
             usage' = [usage EXCEPT ![q] = counter'[CounterOf(q)]],
             resent' = IF n = 1 THEN resent ELSE resent \cup {CounterOf(q)},
             late' = IF date[q] < today THEN late \cup {q} ELSE late
      PROVE  CountInv(c)'
  <2>1. CASE c # CounterOf(q)
    <3>1. CountedOn(c)' = CountedOn(c) /\ q \notin CountedOn(c)
      BY <1>1, <1>3, <2>1 DEF CountedOn, CounterOf, Typed, TypeOK
    <3>2. counter'[c] = counter[c] /\ (c \in resent' <=> c \in resent)
      BY <1>3, <2>1 DEF Typed, TypeOK
    <3>3. \A x \in CountedOn(c) : usage'[x] = usage[x] /\ (x \in late' <=> x \in late)
      BY <1>1, <1>3, <3>1 DEF CountedOn
    <3> QED
      BY <1>1, <3>1, <3>2, <3>3 DEF CountInv
  <2>2. CASE c = CounterOf(q)
    <3>1. /\ counter[c] \in Nat /\ counter'[c] = counter[c] + n
          /\ usage'[q] = counter[c] + n
      BY <1>3, <2>2 DEF Typed, TypeOK
    <3>2. CountedOn(c)' = CountedOn(c) \cup {q} /\ q \notin CountedOn(c)
      BY <1>1, <2>2, <3>1 DEF CountedOn, CounterOf
    <3>3. \A x \in CountedOn(c) : /\ usage'[x] = usage[x] /\ usage[x] \in Nat
                                  /\ x \in late' <=> x \in late
      BY <1>1, <1>3, <3>2 DEF CountedOn, Typed, TypeOK
    <3>4. IsFiniteSet(CountedOn(c)')
      BY <3>2, FS_AddElement DEF CountInv
    <3>5. today <= c[2] => \A x \in CountedOn(c) : usage[x] <= counter[c]
      BY DEF CountInv
    <3>6. q \notin late' => today <= c[2]
      <4>1. c[2] = date[q] /\ date[q] \in Nat
        BY <2>2 DEF CounterOf, Typed, TypeOK
      <4> QED
        BY <1>1, <1>3, <4>1
    <3>7. \A x, y \in CountedOn(c)' \ late' : usage'[x] = usage'[y] => x = y
      BY <3>1, <3>2, <3>3, <3>5, <3>6 DEF CountInv
    <3>8. today <= c[2] => \A x \in CountedOn(c)' : usage'[x] <= counter'[c]
      BY <3>1, <3>2, <3>3, <3>5
    <3>9. ASSUME c \notin resent'
          PROVE  /\ \A x \in CountedOn(c)' : \A m \in 1 .. usage'[x] :
                      \E y \in CountedOn(c)' : usage'[y] = m
                 /\ \E y \in CountedOn(c)' : usage'[y] = counter'[c]
      <4>1. n = 1 /\ c \notin resent
        BY <1>3, <2>2, <3>9
      <4>2. ASSUME NEW m \in 1 .. counter[c]
            PROVE  \E y \in CountedOn(c) : usage[y] = m
        BY <4>1, <4>2, <3>1 DEF CountInv
      <4>3. ASSUME NEW x \in CountedOn(c), NEW m \in 1 .. usage[x]
            PROVE  \E y \in CountedOn(c) : usage[y] = m
        BY <4>1 DEF CountInv
      <4>4. ASSUME NEW m \in 1 .. usage'[q]
            PROVE  \E y \in CountedOn(c)' : usage'[y] = m
        <5>1. CASE m = usage'[q]
          BY <3>2, <5>1
        <5>2. CASE m # usage'[q]
          <6>1. m \in 1 .. counter[c]
            BY <3>1, <4>1, <5>2
          <6> QED
            BY <3>2, <3>3, <4>2, <6>1
        <5> QED
          BY <5>1, <5>2
      <4> QED
        BY <3>1, <3>2, <3>3, <4>3, <4>4
    <3> QED
      BY <1>1, <3>4, <3>7, <3>8, <3>9 DEF CountInv
  <2> QED
    BY <2>1, <2>2
<1>4. \/ UNCHANGED <<counter, usage, resent, late>>
      \/ \E n \in {1, 2} :
           /\ counter' = [counter EXCEPT ![CounterOf(q)] = @ + n]
           /\ usage' = [usage EXCEPT ![q] = counter'[CounterOf(q)]]
           /\ resent' = IF n = 1 THEN resent ELSE resent \cup {CounterOf(q)}
           /\ late' = IF date[q] < today THEN late \cup {q} ELSE late
  BY DEF Incr
<1> QED
  BY <1>2, <1>3, <1>4

LEMMA CountsStep == Typed /\ AllCounts /\ [Next]_vars => AllCounts'
<1> SUFFICES ASSUME Typed, AllCounts, [Next]_vars, NEW c \in Counters PROVE CountInv(c)'
  BY DEF AllCounts, Counters
<1> USE DEF redisVars, localVars
<1>1. /\ CountInv(c) /\ today \in Nat
      /\ \A q \in Requests : pc[q] = "arrived" => usage[q] = 0
  BY DEF AllCounts, Typed, TypeOK, PlaceInv
<1>2. ASSUME NEW q \in Requests, Admit(q) PROVE CountInv(c)'
  <2>1. /\ pc[q] = "arrived" /\ UNCHANGED <<today, redisVars, usage>>
        /\ \A x \in Requests \ {q} : date'[x] = date[x]
    BY <1>2 DEF Admit, Typed, TypeOK
  <2> QED
    BY <1>1, <2>1, QuietStep
<1>3. ASSUME NEW q \in Requests, Incr(q) PROVE CountInv(c)'
  BY <1>1, <1>3, IncrCounts
<1>4. ASSUME NEW q \in Requests, Expire(q) PROVE CountInv(c)'
  <2>1. /\ UNCHANGED <<usage, resent, late, date, counter, today>>
        /\ date[q] <= today /\ CounterOf(q) \in Counters
        /\ expiry' \in {expiry, [expiry EXCEPT ![CounterOf(q)] = today]}
    BY <1>4 DEF Expire, Typed, PlaceInv
  <2>2. expiry'[c] = expiry[c] \/ c[2] <= expiry'[c]
    BY <2>1 DEF CounterOf, Typed, TypeOK
  <2> QED
    BY <1>1, <2>1, <2>2, QuietStep
<1>5. ASSUME NEW q \in Requests, Crash(q) PROVE CountInv(c)'
  BY <1>1, <1>5, QuietStep DEF Crash
<1>6. ASSUME \/ \E K \in SUBSET Keys : Revoke(K)
             \/ \E t \in Tenants, p \in Plan : ChangePlan(t, p)
      PROVE  CountInv(c)'
  BY <1>1, <1>6, QuietStep DEF Revoke, ChangePlan
<1>7. CASE Midnight
  BY <1>1, <1>7, QuietStep DEF Midnight
<1>8. ASSUME NEW d \in Counters, EndCounter(d) PROVE CountInv(c)'
  <2>1. expiry'[c] \in {-1, expiry[c]}
    BY <1>8 DEF EndCounter, Typed, TypeOK
  <2>2. counter'[c] = counter[c] \/ (counter'[c] = 0 /\ c[2] < today')
    <3>1. CASE c = d
      <4>1. counter'[c] = 0 /\ expiry[c] # -1 /\ expiry[c] < today /\ today' = today
        BY <1>8, <3>1 DEF EndCounter, Typed, TypeOK
      <4>2. c[2] <= expiry[c] /\ expiry[c] \in Days
        BY <1>1, <4>1 DEF CountInv, Typed, TypeOK
      <4>3. c[2] \in Nat /\ expiry[c] \in Nat
        BY <4>2 DEF Counters
      <4> QED
        BY <1>1, <4>1, <4>2, <4>3
    <3>2. CASE c # d
      BY <1>8, <3>2 DEF EndCounter, Typed, TypeOK
    <3> QED
      BY <3>1, <3>2
  <2> QED
    BY <1>1, <1>8, <2>1, <2>2, QuietStep DEF EndCounter
<1>9. CASE UNCHANGED vars
  BY <1>1, <1>9, QuietStep DEF vars
<1> QED
  BY <1>2, <1>3, <1>4, <1>5, <1>6, <1>7, <1>8, <1>9, NextSplits

-----------------------------------------------------------------------------
(* Verdicts follow the number and the limit of their request.              *)

VerdictInv ==
    \A q \in Requests :
      /\ pc[q] = "handled" /\ usage[q] > 0 => usage[q] <= limit[q]
      /\ pc[q] = "exceeded" => usage[q] > limit[q]

LEMMA VerdictStep == Typed /\ VerdictInv /\ [Next]_vars => VerdictInv'
<1> SUFFICES ASSUME Typed, VerdictInv, [Next]_vars PROVE VerdictInv'
  OBVIOUS
<1> USE DEF redisVars, localVars, VerdictInv
<1>1. Typed'
  BY StepTyped
<1>2. ASSUME NEW q \in Requests, Admit(q) PROVE VerdictInv'
  <2>1. /\ pc'[q] # "exceeded" /\ usage[q] = 0 /\ usage' = usage
        /\ \A x \in Requests \ {q} : pc'[x] = pc[x] /\ limit'[x] = limit[x]
    BY <1>2 DEF Admit, Goto, Typed, TypeOK, PlaceInv
  <2> QED
    BY <2>1
<1>3. ASSUME NEW q \in Requests, Incr(q) PROVE VerdictInv'
  <2>1. /\ \A x \in Requests \ {q} : pc'[x] = pc[x] /\ usage'[x] = usage[x]
        /\ limit' = limit
        /\ \/ pc'[q] \in {"failed", "expire"}
           \/ pc'[q] = Verdict(usage'[q], limit[q])
    BY <1>3 DEF Incr, Goto, Typed, TypeOK
  <2>2. usage'[q] \in Nat /\ limit[q] \in Nat
    BY <1>1, <1>3 DEF Incr, Typed, TypeOK, PlaceInv
  <2> QED
    BY <2>1, <2>2 DEF Verdict
<1>4. ASSUME NEW q \in Requests, Expire(q) PROVE VerdictInv'
  <2>1. /\ \A x \in Requests \ {q} : pc'[x] = pc[x]
        /\ limit' = limit /\ usage' = usage
        /\ pc'[q] = "failed" \/ pc'[q] = Verdict(usage[q], limit[q])
    BY <1>4 DEF Expire, Goto, Typed, TypeOK
  <2>2. usage[q] \in Nat /\ limit[q] \in Nat
    BY <1>4 DEF Expire, Typed, TypeOK, PlaceInv
  <2> QED
    BY <2>1, <2>2 DEF Verdict
<1>5. ASSUME NEW q \in Requests, Crash(q) PROVE VerdictInv'
  BY <1>5 DEF Crash, Goto, Typed, TypeOK
<1>6. ASSUME \/ \E K \in SUBSET Keys : Revoke(K)
             \/ \E t \in Tenants, p \in Plan : ChangePlan(t, p)
             \/ Midnight
             \/ \E c \in Counters : EndCounter(c)
             \/ UNCHANGED vars
      PROVE  VerdictInv'
  BY <1>6 DEF Revoke, ChangePlan, Midnight, EndCounter, vars
<1> QED
  BY <1>2, <1>3, <1>4, <1>5, <1>6, NextSplits

LEMMA CountsHold == Spec => [](Typed /\ AllCounts /\ VerdictInv)
<1>1. Init => VerdictInv
  BY DEF Init, VerdictInv
<1>2. Typed /\ AllCounts /\ VerdictInv /\ [Next]_vars => (AllCounts /\ VerdictInv)'
  BY CountsStep, VerdictStep
<1> QED
  BY <1>1, <1>2, CountsStart, AlwaysTyped, PTL DEF Spec

-----------------------------------------------------------------------------
(* The limits.                                                             *)

\* Of the requests counted on the day they arrived, no key gets more handled
\* under a plan than the plan allows: the handled ones got different numbers
\* from 1 to the limit.
THEOREM LimitsHold == Spec => []DailyLimit
<1>1. Typed /\ AllCounts /\ VerdictInv => DailyLimit
  <2> SUFFICES ASSUME Typed, AllCounts, VerdictInv,
                      NEW c \in Counters, NEW p \in Plan, PlanLimit[p] # -1
               PROVE  Cardinality(Handled(c, p) \ late) <= PlanLimit[p]
    BY DEF DailyLimit
  <2> DEFINE punctual == Handled(c, p) \ late
             number == [q \in punctual |-> usage[q]]
  <2>1. PlanLimit[p] \in Nat
    OBVIOUS
  <2>2. \A q \in punctual : usage[q] \in 1 .. PlanLimit[p]
    BY <2>1 DEF Handled, CountedOn, VerdictInv, Typed, TypeOK
  <2>3. \A x, y \in punctual : usage[x] = usage[y] => x = y
    BY DEF Handled, AllCounts, CountInv
  <2>4. number \in Injection(punctual, 1 .. PlanLimit[p])
    BY <2>2, <2>3 DEF Injection, IsInjective
  <2>5. IsFiniteSet(1 .. PlanLimit[p]) /\ Cardinality(1 .. PlanLimit[p]) = PlanLimit[p]
    BY <2>1, FS_Interval
  <2>6. Cardinality(punctual) <= Cardinality(1 .. PlanLimit[p])
    BY <2>4, <2>5, FS_Injection
  <2> QED
    BY <2>5, <2>6
<1> QED
  BY <1>1, CountsHold, PTL

\* A request is told "Rate limit exceeded" only when as many other requests of
\* its own key as its plan allows were counted for the same day, unless Redis
\* counted one of them twice: somebody got each smaller number.
THEOREM RefusalsEarned == Spec => []RefusalEarned
<1>1. Typed /\ AllCounts /\ VerdictInv => RefusalEarned
  <2> SUFFICES ASSUME Typed, AllCounts, VerdictInv, NEW q \in Requests,
                      pc[q] = "exceeded", CounterOf(q) \notin resent
               PROVE  Cardinality(CountedOn(CounterOf(q)) \ {q}) >= limit[q]
    BY DEF RefusalEarned, CounterOf
  <2> DEFINE others == CountedOn(CounterOf(q)) \ {q}
             holder == [n \in 1 .. limit[q] |-> CHOOSE x \in others : usage[x] = n]
  <2>1. limit[q] \in Nat /\ usage[q] \in Nat /\ usage[q] > limit[q]
    BY DEF VerdictInv, Typed, TypeOK, PlaceInv
  <2>2. q \in CountedOn(CounterOf(q)) /\ CounterOf(q) \in Counters
    BY <2>1 DEF CountedOn, CounterOf, Typed, PlaceInv
  <2>3. CountInv(CounterOf(q))
    BY <2>2 DEF AllCounts
  <2>4. \A n \in 1 .. limit[q] : \E x \in others : usage[x] = n
    <3> TAKE n \in 1 .. limit[q]
    <3>1. n \in 1 .. usage[q] /\ n # usage[q]
      BY <2>1
    <3>2. PICK x \in CountedOn(CounterOf(q)) : usage[x] = n
      BY <2>2, <2>3, <3>1 DEF CountInv
    <3> QED
      BY <3>1, <3>2
  <2>5. holder \in [1 .. limit[q] -> others] /\ \A n \in 1 .. limit[q] : usage[holder[n]] = n
    BY <2>4
  <2> HIDE DEF holder
  <2>6. holder \in Injection(1 .. limit[q], others)
    <3>1. \A m, n \in 1 .. limit[q] : holder[m] = holder[n] => m = n
      BY <2>5
    <3> QED
      BY <2>5, <3>1 DEF Injection, IsInjective
  <2>7. IsFiniteSet(others)
    BY <2>3, FS_RemoveElement DEF CountInv
  <2>8. Cardinality(1 .. limit[q]) = limit[q]
    BY <2>1, FS_Interval
  <2>9. Cardinality(1 .. limit[q]) <= Cardinality(others) /\ Cardinality(others) \in Nat
    BY <2>6, <2>7, FS_Injection, FS_CardinalityType
  <2> QED
    BY <2>1, <2>8, <2>9
<1> QED
  BY <1>1, CountsHold, PTL

-----------------------------------------------------------------------------
(* Counters without a lifetime.                                            *)

\* Some request saw 1 on c and has not brought its EXPIRE to an end.
Owed(c) ==
    \E q \in CountedOn(c) : usage[q] = 1 /\ pc[q] \in {"expire", "failed"}

LEMMA CountersEndStep == Typed /\ CountersEnd /\ [Next]_vars => CountersEnd'
<1> SUFFICES ASSUME Typed, CountersEnd, [Next]_vars, NEW c \in Counters,
                    counter'[c] > 0, expiry'[c] = -1, c \notin resent'
             PROVE  Owed(c)'
  BY DEF CountersEnd, Owed, Counters
<1> USE DEF redisVars, localVars
<1>1. counter[c] > 0 /\ expiry[c] = -1 /\ c \notin resent => Owed(c)
  BY DEF CountersEnd, Owed
<1>2. ASSUME UNCHANGED <<counter, usage, resent>>, expiry[c] = -1,
             \A q \in CountedOn(c) :
               /\ date'[q] = date[q]
               /\ pc[q] \in {"expire", "failed"}
                    => pc'[q] \in {"expire", "failed"}
      PROVE  Owed(c)'
  <2>1. PICK q \in CountedOn(c) :
          usage[q] = 1 /\ pc[q] \in {"expire", "failed"}
    BY <1>1, <1>2 DEF Owed
  <2>2. q \in CountedOn(c)'
    BY <1>2 DEF CountedOn
  <2> QED
    BY <1>2, <2>1, <2>2 DEF Owed
<1>3. ASSUME NEW q \in Requests, Admit(q) PROVE Owed(c)'
  <2>1. /\ q \notin CountedOn(c) /\ UNCHANGED <<redisVars, usage>>
        /\ \A x \in Requests \ {q} : pc'[x] = pc[x] /\ date'[x] = date[x]
    BY <1>3 DEF Admit, Goto, CountedOn, Typed, TypeOK, PlaceInv
  <2> QED
    BY <1>2, <2>1 DEF CountedOn
<1>4. ASSUME NEW q \in Requests, Incr(q) PROVE Owed(c)'
  <2>1. /\ pc[q] = "incr" /\ usage[q] = 0 /\ CounterOf(q) \in Counters
        /\ UNCHANGED <<expiry, date>> /\ q \notin CountedOn(c)
        /\ \A x \in Requests \ {q} : pc'[x] = pc[x]
    BY <1>4 DEF Incr, Goto, CountedOn, Typed, TypeOK, PlaceInv
  <2>2. CASE UNCHANGED <<counter, usage, resent>>
    BY <1>2, <2>1, <2>2 DEF CountedOn
  <2>3. ASSUME NEW n \in {1, 2},
               counter' = [counter EXCEPT ![CounterOf(q)] = @ + n],
               usage' = [usage EXCEPT ![q] = counter'[CounterOf(q)]],
               resent' = IF n = 1 THEN resent ELSE resent \cup {CounterOf(q)},
               Goto(q, IF usage'[q] = 1 THEN "expire" ELSE Verdict(usage'[q], limit[q]))
        PROVE  Owed(c)'
    <3>1. CASE counter[c] > 0
      <4>1. PICK x \in CountedOn(c) : usage[x] = 1 /\ pc[x] \in {"expire", "failed"}
        BY <1>1, <2>1, <2>3, <3>1 DEF Owed
      <4>2. x # q /\ usage'[x] = usage[x] /\ pc'[x] = pc[x] /\ date'[x] = date[x]
        BY <2>1, <2>3, <4>1 DEF CountedOn, Typed, TypeOK
      <4> QED
        BY <4>1, <4>2 DEF Owed, CountedOn
    <3>2. CASE counter[c] = 0
      <4>1. c = CounterOf(q) /\ n = 1 /\ counter'[c] = 1
        BY <2>1, <2>3, <3>2 DEF Typed, TypeOK
      <4>2. usage'[q] = 1 /\ pc'[q] = "expire"
        BY <2>3, <4>1 DEF Goto, Typed, TypeOK
      <4>3. <<KeyOf[q], date'[q]>> = c
        BY <2>1, <4>1 DEF CounterOf
      <4> QED
        BY <4>2, <4>3 DEF Owed, CountedOn
    <3> QED
      BY <3>1, <3>2 DEF Typed, TypeOK
  <2>4. \/ UNCHANGED <<counter, usage, resent>>
        \/ \E n \in {1, 2} :
             /\ counter' = [counter EXCEPT ![CounterOf(q)] = @ + n]
             /\ usage' = [usage EXCEPT ![q] = counter'[CounterOf(q)]]
             /\ resent' = IF n = 1 THEN resent ELSE resent \cup {CounterOf(q)}
             /\ Goto(q, IF usage'[q] = 1 THEN "expire" ELSE Verdict(usage'[q], limit[q]))
    BY <1>4 DEF Incr
  <2> QED
    BY <2>2, <2>3, <2>4
<1>5. ASSUME NEW q \in Requests, Expire(q) PROVE Owed(c)'
  <2>1. CASE CounterOf(q) = c
    <3>1. pc'[q] = "failed"
      BY <1>5, <2>1 DEF Expire, Goto, CounterOf, Typed, TypeOK, PlaceInv
    <3>2. usage'[q] = 1 /\ date' = date
      BY <1>5 DEF Expire, Typed, PlaceInv, AtExpire
    <3> QED
      BY <2>1, <3>1, <3>2 DEF Owed, CountedOn, CounterOf
  <2>2. CASE CounterOf(q) # c
    <3>1. /\ q \notin CountedOn(c) /\ UNCHANGED <<counter, usage, resent, date>>
          /\ expiry[c] = -1 /\ \A x \in Requests \ {q} : pc'[x] = pc[x]
      BY <1>5, <2>2 DEF Expire, Goto, CountedOn, CounterOf, Typed, TypeOK
    <3> QED
      BY <1>2, <3>1 DEF CountedOn
  <2> QED
    BY <2>1, <2>2
<1>6. ASSUME NEW q \in Requests, Crash(q) PROVE Owed(c)'
  BY <1>2, <1>6 DEF Crash, Goto, CountedOn, Typed, TypeOK
<1>7. ASSUME \/ \E K \in SUBSET Keys : Revoke(K)
             \/ \E t \in Tenants, p \in Plan : ChangePlan(t, p)
             \/ Midnight
             \/ UNCHANGED vars
      PROVE  Owed(c)'
  BY <1>2, <1>7 DEF Revoke, ChangePlan, Midnight, vars
<1>8. ASSUME NEW d \in Counters, EndCounter(d) PROVE Owed(c)'
  <2>1. /\ d # c /\ counter'[c] = counter[c] /\ expiry[c] = -1
        /\ UNCHANGED <<usage, resent, pc, date>>
    BY <1>8 DEF EndCounter, Typed, TypeOK
  <2> QED
    BY <1>1, <2>1 DEF Owed, CountedOn
<1> QED
  BY <1>3, <1>4, <1>5, <1>6, <1>7, <1>8, NextSplits

\* A counter that stays for good is the work of a fault: the request that saw
\* 1 failed or died before its EXPIRE, or Redis counted it twice.
THEOREM CountersDoEnd == Spec => []CountersEnd
<1>1. Init => CountersEnd
  BY DEF Init, CountersEnd
<1> QED
  BY <1>1, CountersEndStep, AlwaysTyped, PTL DEF Spec
=============================================================================
