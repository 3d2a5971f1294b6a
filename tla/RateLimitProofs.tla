-------------------------- MODULE RateLimitProofs ---------------------------
(***************************************************************************)
(* The GCRA script is a leaky bucket, for every rate, burst and period,    *)
(* provided the burst is at most twice the rate: then the TTL of a key     *)
(* outlives what is in its bucket.                                         *)
(***************************************************************************)
EXTENDS RateLimit, TLAPS

\* math.ceil does not lose time.
LEMMA CeilDivCovers ==
    ASSUME NEW a \in Nat, NEW b \in Nat \ {0}
    PROVE  CeilDiv(a, b) \in Nat /\ a <= CeilDiv(a, b) * b
  <1> DEFINE q == (a + b - 1) \div b
  <1>1. q \in Nat
    BY SMT
  <1>2. a + b - 1 < b * q + b
    BY SMT
  <1>3. b * q = q * b
    BY <1>1, SMT
  <1> QED
    BY <1>1, <1>2, <1>3, SMT DEF CeilDiv

\* The TTL covers a full bucket.
LEMMA TTLCovers ==
    ASSUME Burst <= 2 * Rate
    PROVE  TTL \in Nat /\ Burst * T \in Nat /\ Burst * T <= TTL
  <1> USE RateLimitAssumption
  <1>1. Period \in Nat /\ Burst * T \in Nat
    BY SMT DEF Period
  <1>2. Burst * T <= 2 * Period
    BY SMT DEF Period
  <1>3. CeilDiv(2 * Period, Second) \in Nat
        /\ 2 * Period <= CeilDiv(2 * Period, Second) * Second
    BY <1>1, CeilDivCovers
  <1>4. TTL \in Nat
    BY <1>3, SMT DEF TTL
  <1> QED
    BY <1>1, <1>2, <1>3, <1>4, SMT DEF TTL

\* Before the first call there is no limiter and nothing is charged.
LEMMA InvInit == Init => IInv
  BY RateLimitAssumption, SMT DEF Init, IInv, BucketInv, PromiseCovers, LimiterIsFirst,
     FallbackBudget, NoLimiter, TypeOK, BucketIsTat, PouredBound, max

\* What the script reads is the present plus the bucket.
LEMMA BaseIsLevel ==
    ASSUME BucketInv, NEW k \in Keys
    PROVE  Base(k) = now + level[k]
  BY SMT DEF BucketInv, TypeOK, BucketIsTat, Base, max

\* The three conjuncts a charge disturbs, for the key it charges.
LEMMA ChargeKey ==
    ASSUME BucketInv, Burst <= 2 * Rate, NEW k \in Keys, Charge(k), now' = now
    PROVE  /\ tat' = [tat EXCEPT ![k] = now + level[k] + T]
           /\ level[k] + T <= Burst * T
           /\ level[k] + T <= TTL
  <1>1. Base(k) = now + level[k]
    BY BaseIsLevel
  <1>2. TTL \in Nat /\ Burst * T \in Nat /\ Burst * T <= TTL
    BY TTLCovers
  <1>3. now \in Nat /\ level[k] \in Nat /\ T \in Nat
    BY RateLimitAssumption DEF BucketInv, TypeOK
  <1>4. now + level[k] + T - Burst * T <= now
    BY <1>1 DEF Charge, Allowed, AllowAt
  <1> QED
    BY <1>1, <1>2, <1>3, <1>4, SMT DEF Charge

\* A charge preserves the invariant, whatever happens to the fallback.
LEMMA ChargeStep ==
    ASSUME BucketInv, Burst <= 2 * Rate, NEW k \in Keys, Charge(k),
           UNCHANGED <<now, setup, elapsed>>,
           tokens' \in 0 .. 2 * limiter.burst * Second, fallbacks' \in Nat
    PROVE  BucketInv'
  <1> DEFINE full == Burst * T
             ttl == TTL
  <1>1. ttl \in Nat /\ full \in Nat /\ full <= ttl
    BY TTLCovers
  <1>2. /\ tat' = [tat EXCEPT ![k] = now + level[k] + T]
        /\ level[k] + T <= full
        /\ level[k] + T <= ttl
    BY ChargeKey
  <1>3. /\ expires' = [expires EXCEPT ![k] = now + ttl]
        /\ level' = [level EXCEPT ![k] = level[k] + T]
        /\ poured' = [poured EXCEPT ![k] = poured[k] + T]
        /\ promise' = [promise EXCEPT ![k] = 0]
    BY DEF Charge
  <1>4. T \in Nat \ {0}
    BY RateLimitAssumption
  <1>5. TypeOK'
    BY <1>1, <1>2, <1>3, <1>4, SMT DEF BucketInv, TypeOK, setup
  <1>6. BucketIsTat /\ BucketIsTat'
    <2> SUFFICES ASSUME NEW j \in Keys
                 PROVE  /\ level'[j] = (IF now < expires'[j] THEN max(0, tat'[j] - now) ELSE 0)
                        /\ tat'[j] <= expires'[j]
                        /\ level'[j] <= full
      BY DEF BucketInv, BucketIsTat
    <2>1. /\ level[j] = (IF now < expires[j] THEN max(0, tat[j] - now) ELSE 0)
          /\ tat[j] <= expires[j]
          /\ level[j] <= full
      BY DEF BucketInv, BucketIsTat
    <2> HIDE DEF full, ttl
    <2> QED
      BY <1>1, <1>2, <1>3, <1>4, <2>1, SMT DEF BucketInv, TypeOK, max
  <1>7. PouredBound'
    BY <1>3, <1>4, SMT DEF BucketInv, TypeOK, PouredBound
  <1> QED
    BY <1>5, <1>6, <1>7 DEF BucketInv

\* A step that leaves time, Redis and the buckets alone.
LEMMA QuietStep ==
    ASSUME BucketInv, UNCHANGED <<now, redis, level, poured, elapsed>>,
           called' \subseteq Routes, limiter' \in [rate : Nat, burst : Nat],
           first' \in [rate : Nat, burst : Nat],
           tokens' \in 0 .. 2 * limiter'.burst * Second, fallbacks' \in Nat,
           promise' \in [Keys -> Nat]
    PROVE  BucketInv'
  BY DEF BucketInv, TypeOK, BucketIsTat, PouredBound, redis

\* Every action preserves the invariant of the buckets.
LEMMA BucketStep ==
    ASSUME BucketInv, Burst <= 2 * Rate, [Next]_vars
    PROVE  BucketInv'
  <1> USE RateLimitAssumption
  <1>0. /\ tokens \in 0 .. 2 * limiter.burst * Second /\ fallbacks \in Nat
        /\ fallbacks + 1 \in Nat /\ promise \in [Keys -> Nat] /\ called \subseteq Routes
        /\ limiter \in [rate : Nat, burst : Nat] /\ first \in [rate : Nat, burst : Nat]
    BY SMT DEF BucketInv, TypeOK
  <1>1. ASSUME NEW k \in Keys, Admit(k) PROVE BucketInv'
    BY <1>0, <1>1, ChargeStep DEF Admit
  <1>2. ASSUME NEW k \in Keys, Deny(k) PROVE BucketInv'
    <2>1. now + RetryAfter(k) * Second \in Nat
      <3>1. Base(k) = now + level[k]
        BY BaseIsLevel
      <3>2. AllowAt(k) - now \in Nat
        <4>1. Burst * T \in Nat /\ now \in Nat /\ level[k] \in Nat /\ T \in Nat
          BY SMT DEF BucketInv, TypeOK
        <4> QED
          BY <1>2, <3>1, <4>1, SMT DEF Deny, Allowed, AllowAt
      <3>3. RetryAfter(k) \in Nat
        BY <3>2, CeilDivCovers DEF RetryAfter
      <3> QED
        BY <3>3, SMT DEF BucketInv, TypeOK
    <2>2. promise' \in [Keys -> Nat]
      BY <1>0, <1>2, <2>1, SMT DEF Deny, min
    <2> QED
      BY <1>0, <1>2, <2>2, QuietStep DEF Deny, setup
  <1>3. ASSUME NEW k \in HTTPKeys, FallbackAdmit(k) PROVE BucketInv'
    <2>1. tokens' \in 0 .. 2 * limiter.burst * Second /\ fallbacks' \in Nat
      <3> DEFINE cap == 2 * limiter.burst * Second
      <3>1. cap \in Nat
        BY <1>0, SMT
      <3> HIDE DEF cap
      <3>2. tokens \in 0 .. cap /\ Second \in Nat
        BY <1>0 DEF cap
      <3>3. tokens >= Second /\ tokens' = tokens - Second /\ fallbacks' = fallbacks + 1
        BY <1>3 DEF FallbackAdmit
      <3>4. tokens' \in 0 .. cap /\ fallbacks' \in Nat
        BY <1>0, <3>1, <3>2, <3>3, SMT
      <3> QED
        BY <3>4 DEF cap
    <2>2. CASE Charge(k)
      BY <1>3, <2>1, <2>2, ChargeStep DEF FallbackAdmit, Keys
    <2>3. CASE UNCHANGED <<redis, level, poured, promise>>
      BY <1>0, <1>3, <2>1, <2>3, QuietStep DEF FallbackAdmit, setup
    <2> QED
      BY <1>3, <2>2, <2>3 DEF FallbackAdmit, ScriptErr
  <1>4. ASSUME NEW k \in Keys, ScriptErr(k), UNCHANGED <<now, setup, tokens, fallbacks, elapsed>>
        PROVE  BucketInv'
    <2>1. CASE Charge(k)
      BY <1>0, <1>4, <2>1, ChargeStep
    <2>2. CASE UNCHANGED <<redis, level, poured, promise>>
      BY <1>0, <1>4, <2>2, QuietStep DEF setup
    <2> QED
      BY <1>4, <2>1, <2>2 DEF ScriptErr
  <1>5. CASE Tick
    <2> DEFINE full == Burst * T
               cap == 2 * limiter.burst * Second
    <2>1. full \in Nat /\ cap \in Nat
      BY <1>0, SMT
    <2> HIDE DEF full, cap
    <2>2. tokens' \in 0 .. cap
      BY <1>0, <1>5, <2>1, SMT DEF Tick, min, cap
    <2>3. TypeOK'
      BY <1>5, <2>2, SMT DEF Tick, BucketInv, TypeOK, max, redis, setup, cap
    <2>4. BucketIsTat'
      <3> SUFFICES ASSUME NEW j \in Keys
                   PROVE  /\ level'[j] = (IF now' < expires[j] THEN max(0, tat[j] - now') ELSE 0)
                          /\ tat[j] <= expires[j]
                          /\ level'[j] <= full
        BY <1>5 DEF BucketIsTat, Tick, redis, full
      <3>1. /\ level[j] = (IF now < expires[j] THEN max(0, tat[j] - now) ELSE 0)
            /\ tat[j] <= expires[j]
            /\ level[j] <= full
        BY DEF BucketInv, BucketIsTat, full
      <3>2. level'[j] = max(0, level[j] - 1) /\ now' = now + 1
        BY <1>5 DEF Tick
      <3> QED
        BY <2>1, <3>1, <3>2, SMT DEF BucketInv, TypeOK, max
    <2>5. PouredBound'
      BY <1>5, SMT DEF Tick, BucketInv, TypeOK, PouredBound, max
    <2> QED
      BY <2>3, <2>4, <2>5 DEF BucketInv
  <1>6. CASE StartWindow
    BY <1>6, SMT DEF StartWindow, BucketInv, TypeOK, BucketIsTat, PouredBound, redis, setup
  <1>7. CASE UNCHANGED vars
    BY <1>7, <1>0, QuietStep DEF vars, setup
  <1>8. ASSUME NEW c \in Routes, RateLimitMiddleware(c) PROVE BucketInv'
    <2>1. c \in [rate : Nat, burst : Nat] /\ 2 * c.burst * Second \in Nat
      BY SMT
    <2>2. called' \subseteq Routes /\ fallbacks' \in Nat /\ promise' \in [Keys -> Nat]
      BY <1>0, <1>8 DEF RateLimitMiddleware
    <2>3. /\ limiter' \in [rate : Nat, burst : Nat] /\ first' \in [rate : Nat, burst : Nat]
          /\ tokens' \in 0 .. 2 * limiter'.burst * Second
      BY <1>0, <1>8, <2>1 DEF RateLimitMiddleware
    <2> QED
      BY <1>8, <2>2, <2>3, QuietStep DEF RateLimitMiddleware
  <1> QED
    BY <1>1, <1>2, <1>3, <1>4, <1>5, <1>6, <1>7, <1>8
    DEF Next, FallbackReject, FailOpen, Keys

\* A charge makes the key's promise obsolete and leaves the others covered.
LEMMA PromiseCharge ==
    ASSUME BucketInv, PromiseCovers, NEW k \in Keys, Charge(k), now' = now
    PROVE  PromiseCovers'
  <1> SUFFICES ASSUME Burst > 0, NEW j \in Keys, promise'[j] # 0
               PROVE  now + level'[j] + T - Burst * T <= max(now, promise'[j])
    BY DEF PromiseCovers
  <1>1. j # k /\ promise'[j] = promise[j] /\ level'[j] = level[j]
    BY DEF Charge, BucketInv, TypeOK
  <1> QED
    BY <1>1 DEF PromiseCovers

\* Every action keeps the promises covered.
LEMMA PromiseStep ==
    ASSUME BucketInv, PromiseCovers, [Next]_vars
    PROVE  PromiseCovers'
  <1> DEFINE full == Burst * T
  <1> USE RateLimitAssumption
  <1>0. full \in Nat /\ T \in Nat /\ now \in Nat
    BY SMT DEF BucketInv, TypeOK
  <1>a. ASSUME UNCHANGED <<now, level, promise>> PROVE PromiseCovers'
    BY <1>a DEF PromiseCovers
  <1>1. ASSUME NEW k \in Keys, Deny(k) PROVE PromiseCovers'
    <2> SUFFICES ASSUME Burst > 0, NEW j \in Keys, promise'[j] # 0
                 PROVE  now + level[j] + T - full <= max(now, promise'[j])
      BY <1>1 DEF PromiseCovers, Deny
    <2>1. CASE j # k
      BY <1>1, <2>1 DEF PromiseCovers, Deny, BucketInv, TypeOK
    <2>2. CASE j = k
      <3> DEFINE comeBack == now + RetryAfter(k) * Second
                 due == now + level[k] + T - full
      <3>1. AllowAt(k) = due
        BY BaseIsLevel DEF AllowAt
      <3>2. level[k] \in Nat /\ due \in Int /\ due > now
        BY <1>0, <1>1, <3>1, SMT DEF Deny, Allowed, BucketInv, TypeOK
      <3>3. due - now <= RetryAfter(k) * Second /\ RetryAfter(k) * Second \in Nat
        <4>1. due - now \in Nat
          BY <1>0, <3>2, SMT
        <4> HIDE DEF due
        <4>2. RetryAfter(k) \in Nat /\ due - now <= RetryAfter(k) * Second
          BY <3>1, <4>1, CeilDivCovers DEF RetryAfter
        <4> QED
          BY <4>2, SMT
      <3>4. due <= comeBack /\ comeBack \in Nat
        BY <1>0, <3>2, <3>3, SMT
      <3>5. promise[k] \in Nat /\ (promise[k] # 0 => due <= max(now, promise[k]))
        BY DEF PromiseCovers, BucketInv, TypeOK
      <3>6. promise'[k] = IF promise[k] = 0 THEN comeBack ELSE min(promise[k], comeBack)
        BY <1>1 DEF Deny, BucketInv, TypeOK
      <3> HIDE DEF due, comeBack
      <3>7. due <= max(now, promise'[k])
        BY <1>0, <3>2, <3>4, <3>5, <3>6, SMT DEF max, min
      <3> QED
        BY <2>2, <3>7 DEF due
    <2> QED
      BY <2>1, <2>2
  <1>2. CASE Tick
    <2> SUFFICES ASSUME Burst > 0, NEW j \in Keys, promise[j] # 0
                 PROVE  now' + level'[j] + T - full <= max(now', promise[j])
      BY <1>2 DEF PromiseCovers, Tick
    <2>1. now + level[j] + T - full <= max(now, promise[j])
      BY DEF PromiseCovers
    <2>2. now' = now + 1 /\ level'[j] = max(0, level[j] - 1)
      BY <1>2 DEF Tick
    <2>3. T <= full
      BY SMT
    <2> HIDE DEF full
    <2> QED
      BY <1>0, <2>1, <2>2, <2>3, SMT DEF BucketInv, TypeOK, max
  <1>3. CASE StartWindow
    BY <1>3, <1>a DEF StartWindow
  <1>4. CASE UNCHANGED vars
    BY <1>4, <1>a DEF vars
  <1>5. ASSUME NEW k \in Keys, ScriptErr(k), now' = now PROVE PromiseCovers'
    BY <1>5, <1>a, PromiseCharge DEF ScriptErr
  <1>6. ASSUME NEW k \in Keys, Admit(k) PROVE PromiseCovers'
    BY <1>6, PromiseCharge DEF Admit
  <1>7. ASSUME NEW c \in Routes, RateLimitMiddleware(c) PROVE PromiseCovers'
    BY <1>7, <1>a DEF RateLimitMiddleware
  <1> QED
    BY <1>1, <1>2, <1>3, <1>4, <1>5, <1>6, <1>7
    DEF Next, FallbackAdmit, FallbackReject, FailOpen, Keys

\* The types of what the fallback's budget is about.
Counters ==
    /\ limiter \in [rate : Nat, burst : Nat]
    /\ tokens \in 0 .. 2 * limiter.burst * Second
    /\ fallbacks \in Nat /\ elapsed \in Nat

\* What the budget of the fallback needs to be inductive.
FallbackInv == Counters /\ LimiterIsFirst /\ FallbackBudget

\* The first call fills the bucket of the limiter it makes; nothing was admitted
\* before it.  A later call changes nothing (limiterOnce).
LEMMA CallStep ==
    ASSUME FallbackInv, NEW c \in Routes, RateLimitMiddleware(c)
    PROVE  FallbackInv'
  <1> USE RateLimitAssumption
  <1>1. CASE called # {}
    BY <1>1 DEF FallbackInv, Counters, LimiterIsFirst, FallbackBudget, RateLimitMiddleware
  <1>2. CASE called = {}
    <2>1. /\ c \in [rate : Nat, burst : Nat] /\ limiter' = c /\ first' = c
          /\ tokens' = 2 * c.burst * Second /\ called' # {}
          /\ fallbacks' = fallbacks /\ elapsed' = elapsed
      BY <1>2 DEF RateLimitMiddleware
    <2>2. /\ fallbacks \in Nat /\ elapsed \in Nat /\ tokens \in Nat
          /\ fallbacks * Second + tokens <= 2 * 0 * Second + 2 * 0 * elapsed
      BY <1>2 DEF FallbackInv, Counters, LimiterIsFirst, FallbackBudget, NoLimiter
    <2>3. fallbacks * Second = 0
      <3>1. fallbacks * Second \in Nat /\ 2 * 0 * Second + 2 * 0 * elapsed = 0
        BY <2>2, SMT
      <3> QED
        BY <2>2, <3>1, SMT
    <2> DEFINE cap == 2 * c.burst * Second
               inflow == 2 * c.rate * elapsed
    <2>4. cap \in Nat /\ inflow \in Nat
      BY <2>1, <2>2, SMT
    <2>5. Counters' /\ LimiterIsFirst'
      BY <2>1, <2>2, <2>4 DEF Counters, LimiterIsFirst
    <2>6. FallbackBudget'
      <3> HIDE DEF cap, inflow
      <3>1. 0 + cap <= cap + inflow
        BY <2>4, SMT
      <3> QED
        BY <2>1, <2>3, <3>1 DEF FallbackBudget, cap, inflow
    <2> QED
      BY <2>5, <2>6 DEF FallbackInv
  <1> QED
    BY <1>1, <1>2

\* Every action stays within the fallback's budget.
LEMMA FallbackStep ==
    ASSUME FallbackInv, [Next]_vars
    PROVE  FallbackInv'
  <1> USE RateLimitAssumption
  <1> DEFINE cap == 2 * limiter.burst * Second
             spent == fallbacks * Second
             gain == 2 * limiter.rate
             inflow == gain * elapsed
  <1>0. /\ limiter \in [rate : Nat, burst : Nat] /\ limiter = first
        /\ tokens \in 0 .. cap /\ fallbacks \in Nat /\ elapsed \in Nat
        /\ spent + tokens <= cap + inflow
    BY DEF FallbackInv, Counters, LimiterIsFirst, FallbackBudget
  <1>b. cap \in Nat /\ spent \in Nat /\ gain \in Nat /\ inflow \in Nat
    BY <1>0, SMT
  <1>a. ASSUME UNCHANGED <<setup, tokens, fallbacks, elapsed>> PROVE FallbackInv'
    BY <1>a DEF FallbackInv, Counters, LimiterIsFirst, FallbackBudget, setup
  <1>c. ASSUME UNCHANGED setup, tokens' \in 0 .. cap, fallbacks' \in Nat, elapsed' \in Nat,
               fallbacks' * Second + tokens' <= cap + gain * elapsed'
        PROVE  FallbackInv'
    BY <1>0, <1>c DEF FallbackInv, Counters, LimiterIsFirst, FallbackBudget, setup
  <1>1. ASSUME NEW k \in HTTPKeys, FallbackAdmit(k) PROVE FallbackInv'
    <2>1. /\ UNCHANGED setup /\ tokens >= Second
          /\ tokens' = tokens - Second /\ fallbacks' = fallbacks + 1 /\ elapsed' = elapsed
      BY <1>1 DEF FallbackAdmit
    <2>2. (fallbacks + 1) * Second = spent + Second
      BY <1>0, SMT
    <2> HIDE DEF cap, spent, gain, inflow
    <2>3. tokens' \in 0 .. cap /\ fallbacks' \in Nat /\ spent + Second + tokens' <= cap + inflow
      BY <1>0, <1>b, <2>1, SMT
    <2> QED
      BY <1>0, <1>c, <2>1, <2>2, <2>3 DEF inflow
  <1>2. CASE Tick
    <2>1. /\ UNCHANGED setup /\ tokens' = min(cap, tokens + gain)
          /\ fallbacks' = fallbacks /\ elapsed' = elapsed + 1
      BY <1>2 DEF Tick
    <2>2. gain * (elapsed + 1) = inflow + gain
      BY <1>0, SMT
    <2> HIDE DEF cap, spent, gain, inflow
    <2>3. tokens' \in 0 .. cap /\ elapsed' \in Nat /\ spent + tokens' <= cap + (inflow + gain)
      BY <1>0, <1>b, <2>1, SMT DEF min
    <2> QED
      BY <1>0, <1>c, <2>1, <2>2, <2>3 DEF spent
  <1>3. CASE StartWindow
    <2>1. UNCHANGED setup /\ tokens' = tokens /\ fallbacks' = 0 /\ elapsed' = 0
      BY <1>3 DEF StartWindow
    <2>2. 0 * Second + tokens <= cap + gain * 0
      BY <1>0, <1>b, SMT
    <2> QED
      BY <1>0, <1>c, <2>1, <2>2
  <1>4. CASE UNCHANGED vars
    BY <1>4, <1>a DEF vars
  <1> QED
    BY <1>a, <1>1, <1>2, <1>3, <1>4, CallStep DEF Next, Admit, Deny, FallbackReject, FailOpen

\* The budget of the fallback holds of every behaviour, whatever the limits.
LEMMA FallbackInvariance == Spec => []FallbackInv
  <1>1. Init => FallbackInv
    BY InvInit DEF IInv, BucketInv, TypeOK, Counters, FallbackInv
  <1> QED
    BY <1>1, FallbackStep, PTL DEF Spec

\* The inductive invariant holds of every behaviour when the burst is at most
\* twice the rate (TTL = 2 * period, ratelimit.go:45).
THEOREM Invariance ==
    ASSUME Burst <= 2 * Rate
    PROVE  Spec => []IInv
  <1>1. Init => IInv
    BY InvInit
  <1>2. IInv /\ [Next]_vars => IInv'
    BY BucketStep, PromiseStep, FallbackStep DEF IInv, BucketInv, TypeOK, Counters, FallbackInv
  <1> QED
    BY <1>1, <1>2, PTL DEF Spec

\* The script (ratelimit.go:19-50) admits exactly when the leaky bucket has room.
THEOREM IsGCRA ==
    ASSUME Burst <= 2 * Rate
    PROVE  Spec => []MatchesLeakyBucket
  <1>1. IInv => MatchesLeakyBucket
    <2> SUFFICES ASSUME IInv, NEW k \in Keys
                 PROVE  Allowed(k) <=> level[k] + T <= Burst * T
      BY DEF MatchesLeakyBucket
    <2>1. Base(k) = now + level[k]
      BY BaseIsLevel DEF IInv
    <2>2. now \in Nat /\ level[k] \in Nat /\ T \in Nat /\ Burst * T \in Nat
      BY RateLimitAssumption, SMT DEF IInv, BucketInv, TypeOK
    <2> QED
      BY <2>1, <2>2, SMT DEF Allowed, AllowAt
  <1> QED
    BY <1>1, Invariance, PTL

\* No key is admitted by Redis more than Burst + w / T times in any w ticks.
THEOREM Bounded ==
    ASSUME Burst <= 2 * Rate
    PROVE  Spec => []WindowBound
  <1>1. IInv => WindowBound
    <2> SUFFICES ASSUME IInv, NEW k \in Keys
                 PROVE  poured[k] <= Burst * T + elapsed
      BY DEF WindowBound
    <2>1. poured[k] <= level[k] + elapsed /\ level[k] <= Burst * T
      BY DEF IInv, BucketInv, BucketIsTat, PouredBound
    <2>2. /\ poured[k] \in Nat /\ level[k] \in Nat
          /\ elapsed \in Nat /\ Burst * T \in Nat
      BY RateLimitAssumption, SMT DEF IInv, BucketInv, TypeOK
    <2> QED
      BY <2>1, <2>2, SMT
  <1> QED
    BY <1>1, Invariance, PTL

\* Waiting for Retry-After (ratelimit.go:49, :108) is enough.
THEOREM WaitingSuffices ==
    ASSUME Burst <= 2 * Rate
    PROVE  Spec => []RetryAfterSuffices
  <1>1. IInv => RetryAfterSuffices
    <2> SUFFICES ASSUME IInv, Burst > 0, NEW k \in Keys, promise[k] # 0, promise[k] <= now
                 PROVE  Allowed(k)
      BY DEF RetryAfterSuffices
    <2>1. now + level[k] + T - Burst * T <= max(now, promise[k])
      BY DEF IInv, PromiseCovers
    <2>2. Base(k) = now + level[k]
      BY BaseIsLevel DEF IInv
    <2>3. now \in Nat /\ promise[k] \in Nat
      BY DEF IInv, BucketInv, TypeOK
    <2>4. max(now, promise[k]) = now
      BY <2>3, SMT DEF max
    <2> QED
      BY <2>1, <2>2, <2>4 DEF Allowed, AllowAt
  <1> QED
    BY <1>1, Invariance, PTL

\* Whichever routes are mounted and when, all of them together pass while Redis fails
\* no more than the limiter made by the first call of RateLimitMiddleware allows:
\* 2 * burst, and 2 * rps in a second, of that call's arguments.
THEOREM FallbackBoundedByFirstCall == Spec => []FallbackKeepsFirstLimit
  <1>1. FallbackInv => FallbackKeepsFirstLimit
    <2> DEFINE spent == fallbacks * Second
               budget == 2 * first.burst * Second + 2 * first.rate * elapsed
    <2> SUFFICES ASSUME FallbackInv PROVE spent <= budget
      BY DEF FallbackKeepsFirstLimit
    <2>1. /\ first \in [rate : Nat, burst : Nat] /\ fallbacks \in Nat /\ elapsed \in Nat
          /\ tokens \in Nat
      BY RateLimitAssumption DEF FallbackInv, Counters, LimiterIsFirst
    <2>2. spent \in Int /\ budget \in Int
      BY <2>1, RateLimitAssumption, SMT
    <2>3. spent + tokens <= budget
      BY DEF FallbackInv, FallbackBudget
    <2> HIDE DEF spent, budget
    <2> QED
      BY <2>1, <2>2, <2>3, SMT
  <1> QED
    BY <1>1, FallbackInvariance, PTL

\* Where this call of RateLimitMiddleware is the first and its period is at most a
\* second, the fallback passes at most twice what one key may have.
THEOREM FallbackBounded ==
    ASSUME Period <= Second
    PROVE  Spec => []FallbackIsTwiceNormal
  <1> USE RateLimitAssumption
  <1>1. FallbackInv => FallbackIsTwiceNormal
    <2> SUFFICES ASSUME FallbackInv, first = Own, fallbacks * T > 2 * (Burst * T + elapsed)
                 PROVE  FALSE
      BY SMT DEF FallbackIsTwiceNormal, FallbackInv, Counters
    <2> DEFINE extra == fallbacks - 2 * Burst
    <2>1. fallbacks \in Nat /\ elapsed \in Nat /\ tokens \in Nat /\ extra \in Int
      BY DEF FallbackInv, Counters
    <2>2. extra * T > 2 * elapsed
      BY <2>1, SMT
    <2>a. fallbacks * Second + tokens <= 2 * Burst * Second + 2 * Rate * elapsed
      BY DEF FallbackInv, FallbackBudget, Own
    <2>3. extra * Second <= 2 * Rate * elapsed
      BY <2>1, <2>a, SMT
    <2> HIDE DEF extra
    <2>4. extra > 0
      BY <2>1, <2>2, SMT
    <2>5. extra * (Rate * T) <= extra * Second
      BY <2>1, <2>4, SMT DEF Period
    <2>6. Rate * (extra * T) > Rate * (2 * elapsed)
      <3> DEFINE e == extra * T
                 w == 2 * elapsed
      <3>1. e \in Int /\ w \in Int /\ e > w
        BY <2>1, <2>2, SMT
      <3> HIDE DEF e, w
      <3>2. Rate * e > Rate * w
        BY <3>1, SMT
      <3> QED
        BY <3>2 DEF e, w
    <2> QED
      BY <2>1, <2>3, <2>5, <2>6, SMT
  <1> QED
    BY <1>1, FallbackInvariance, PTL
=============================================================================
