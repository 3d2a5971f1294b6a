----------------------------- MODULE RateLimit ------------------------------
(***************************************************************************)
(* server/middleware/ratelimit.go and grpc_ratelimit.go: the GCRA script   *)
(* in Redis, the HTTP middleware with its in-memory fallback, and the gRPC *)
(* interceptor, which fails open.  Time is in ticks; T ticks are one       *)
(* emission interval, period / rate.                                       *)
(*                                                                         *)
(* A reference leaky bucket per key runs beside the script: it drains one  *)
(* unit per tick and every admission pours T units into it.                *)
(***************************************************************************)
EXTENDS Integers

CONSTANTS
    HTTPKeys, GRPCKeys, \* identities seen by either side; the prefixes differ
    Rate, Burst, T,     \* rps, burst; period = Rate * T ticks
    Second,             \* ticks in a second
    Routes,             \* the limits RateLimitMiddleware is called with, this one included
    MaxTime             \* bound: the clock

Keys == HTTPKeys \cup GRPCKeys
Own == [rate |-> Rate, burst |-> Burst]
NoLimiter == [rate |-> 0, burst |-> 0]

ASSUME RateLimitAssumption ==
    /\ Rate \in Nat \ {0} /\ T \in Nat \ {0} /\ Second \in Nat \ {0}
    /\ Burst \in Nat /\ MaxTime \in Nat
    /\ Routes \subseteq [rate : Nat, burst : Nat] /\ Own \in Routes

VARIABLES
    now,
    tat, expires,   \* per key: the value in Redis and when its TTL ends
    called,         \* the calls of RateLimitMiddleware made so far
    limiter,        \* emergencyLimiter: the limits it doubles, NoLimiter while nil
    tokens,         \* what it holds, in 1/Second of a token
    \* reference and history
    first,          \* the limits of the first call
    level,          \* per key: the leaky bucket
    poured,         \* per key: T for each admission charged in the window
    fallbacks,      \* admissions by emergencyLimiter in the window
    elapsed,        \* ticks since the window began
    promise         \* per key: when the last 429 said to come back, 0 if obsolete

redis == <<tat, expires>>
setup == <<called, limiter, first>>
vars == <<now, redis, setup, tokens, level, poured, fallbacks, elapsed, promise>>

max(a, b) == IF a >= b THEN a ELSE b
min(a, b) == IF a <= b THEN a ELSE b
CeilDiv(a, b) == (a + b - 1) \div b

-----------------------------------------------------------------------------
(* luaGCRA *)

Period == Rate * T
\* Mutant: the TTL is one period.
TTLShort == CeilDiv(Period, Second) * Second
\* "EX", math.ceil(period * 2), in ticks.
TTL == CeilDiv(2 * Period, Second) * Second

\* Mutant: the stored value is not raised to the present.
BaseStored(k) == IF now < expires[k] THEN tat[k] ELSE now
\* tat after GET and math.max.
Base(k) == IF now < expires[k] THEN max(now, tat[k]) ELSE now

\* Mutant: the new arrival is not counted in.
AllowAtOld(k) == Base(k) - Burst * T
AllowAt(k) == Base(k) + T - Burst * T
Allowed(k) == AllowAt(k) <= now

\* Mutant: math.floor.
RetryAfterFloor(k) == (AllowAt(k) - now) \div Second
\* Seconds to wait, math.ceil(allow_at - now_ts).
RetryAfter(k) == CeilDiv(AllowAt(k) - now, Second)

\* An HTTP request meets this limit once its RateLimitMiddleware has been made.
Mounted(k) == k \in HTTPKeys => Own \in called

\* The SET branch of the script.
Charge(k) ==
    /\ Mounted(k) /\ Allowed(k)
    /\ tat' = [tat EXCEPT ![k] = Base(k) + T]
    /\ expires' = [expires EXCEPT ![k] = now + TTL]
    /\ level' = [level EXCEPT ![k] = @ + T]
    /\ poured' = [poured EXCEPT ![k] = @ + T]
    /\ promise' = [promise EXCEPT ![k] = 0]

-----------------------------------------------------------------------------
Init ==
    /\ now = 1
    /\ tat = [k \in Keys |-> 0] /\ expires = [k \in Keys |-> 0]
    /\ called = {} /\ limiter = NoLimiter /\ first = NoLimiter /\ tokens = 0
    /\ level = [k \in Keys |-> 0] /\ poured = [k \in Keys |-> 0]
    /\ fallbacks = 0 /\ elapsed = 0
    /\ promise = [k \in Keys |-> 0]

\* Mutant: every call makes the limiter anew.
MiddlewareWithoutOnce(c) ==
    /\ c \notin called
    /\ called' = called \cup {c}
    /\ limiter' = c /\ tokens' = 2 * c.burst * Second
    /\ first' = IF called = {} THEN c ELSE first
    /\ UNCHANGED <<now, redis, level, poured, fallbacks, elapsed, promise>>

\* The middleware is made for a route; limiterOnce.Do makes the limiter on the first
\* call of the process, with a full bucket.
RateLimitMiddleware(c) ==
    /\ c \notin called
    /\ called' = called \cup {c}
    /\ \/ called = {} /\ limiter' = c /\ first' = c /\ tokens' = 2 * c.burst * Second
       \/ called # {} /\ UNCHANGED <<limiter, first, tokens>>
    /\ UNCHANGED <<now, redis, level, poured, fallbacks, elapsed, promise>>

\* Redis answers -1: the request goes to the handler.  The same step stands for
\* a script whose reply was lost and that the Redis client then repeats.
Admit(k) == Charge(k) /\ UNCHANGED <<now, setup, tokens, fallbacks, elapsed>>

\* 429, or ResourceExhausted: the client is told how many seconds to wait, and
\* we keep the earliest time it was told.
Deny(k) ==
    LET comeBack == now + RetryAfter(k) * Second
    IN  /\ Mounted(k) /\ ~Allowed(k)
        /\ promise' = [promise EXCEPT
               ![k] = IF @ = 0 THEN comeBack ELSE min(@, comeBack)]
        /\ UNCHANGED <<now, redis, setup, tokens, level, poured, fallbacks, elapsed>>

\* An error from Redis: the script ran, or it did not.  The second also stands for a
\* request of another route, whose key is not this limit's.
ScriptErr(k) == Charge(k) \/ UNCHANGED <<redis, level, poured, promise>>

\* HTTP, err # nil and emergencyLimiter.Allow(): the request proceeds.
FallbackAdmit(k) ==
    /\ called # {} /\ ScriptErr(k)
    /\ tokens >= Second
    /\ tokens' = tokens - Second
    /\ fallbacks' = fallbacks + 1
    /\ UNCHANGED <<now, setup, elapsed>>

\* HTTP, err # nil and no token: 503.
FallbackReject(k) ==
    /\ called # {} /\ ScriptErr(k)
    /\ tokens < Second
    /\ UNCHANGED <<now, setup, tokens, fallbacks, elapsed>>

\* gRPC, err # nil: the handler runs.
FailOpen(k) == ScriptErr(k) /\ UNCHANGED <<now, setup, tokens, fallbacks, elapsed>>

\* Time passes: keys reach their TTL, emergencyLimiter gains 2 * rps tokens a
\* second up to its burst.
Tick ==
    /\ now < MaxTime
    /\ now' = now + 1
    /\ tokens' = min(2 * limiter.burst * Second, tokens + 2 * limiter.rate)
    /\ level' = [k \in Keys |-> max(0, level[k] - 1)]
    /\ elapsed' = elapsed + 1
    /\ UNCHANGED <<redis, setup, poured, fallbacks, promise>>

\* The observer begins a window at any time.
StartWindow ==
    /\ elapsed # 0
    /\ poured' = [k \in Keys |-> 0] /\ fallbacks' = 0 /\ elapsed' = 0
    /\ UNCHANGED <<now, redis, setup, tokens, level, promise>>

Next ==
    \/ \E c \in Routes : RateLimitMiddleware(c)
    \/ \E k \in Keys : Admit(k) \/ Deny(k)
    \/ \E k \in HTTPKeys : FallbackAdmit(k) \/ FallbackReject(k)
    \/ \E k \in GRPCKeys : FailOpen(k)
    \/ Tick
    \/ StartWindow

Spec == Init /\ [][Next]_vars

-----------------------------------------------------------------------------
(* Properties *)

TypeOK ==
    /\ now \in Nat \ {0}
    /\ tat \in [Keys -> Nat] /\ expires \in [Keys -> Nat]
    /\ called \subseteq Routes
    /\ limiter \in [rate : Nat, burst : Nat] /\ first \in [rate : Nat, burst : Nat]
    /\ tokens \in 0 .. 2 * limiter.burst * Second
    /\ level \in [Keys -> Nat] /\ poured \in [Keys -> Nat]
    /\ fallbacks \in Nat /\ elapsed \in Nat
    /\ promise \in [Keys -> Nat]

\* "implements Generic Cell Rate Algorithm" (ratelimit.go:18): for every key the
\* script admits the next request exactly when the leaky bucket has room for it.
MatchesLeakyBucket == \A k \in Keys : Allowed(k) <=> level[k] + T <= Burst * T

\* In every window of w ticks the script admits a key at most Burst + w / T times,
\* executions whose reply is lost included.  What passes while Redis fails, through
\* the fallback (ratelimit.go:95-102) or past the interceptor (grpc_ratelimit.go:44-46),
\* is not counted.
WindowBound == \A k \in Keys : poured[k] <= Burst * T + elapsed

\* A client that waits as long as Retry-After said is admitted, if nobody used
\* its key meanwhile.
RetryAfterSuffices ==
    Burst > 0 => \A k \in Keys : promise[k] # 0 /\ promise[k] <= now => Allowed(k)

\* The limiter of the fallback is made once, by the first call of RateLimitMiddleware
\* (ratelimit.go:65): however many routes are mounted later, and at whatever moment,
\* all of them together pass at most 2 * burst requests and 2 * rps more per second of
\* that first call in every window.  The rate is per second, whatever the period.
FallbackKeepsFirstLimit ==
    fallbacks * Second <= 2 * first.burst * Second + 2 * first.rate * elapsed

\* "Allow 2x normal traffic globally as fallback" (ratelimit.go:64): at most twice
\* what one key may have, which needs the first call to have been this one.
FallbackIsTwiceNormal == first = Own => fallbacks * T <= 2 * (Burst * T + elapsed)

\* The bucket is what is left of tat, and Redis does not forget it while there is
\* something left.
BucketIsTat ==
    \A k \in Keys :
        /\ level[k] = (IF now < expires[k] THEN max(0, tat[k] - now) ELSE 0)
        /\ tat[k] <= expires[k]
        /\ level[k] <= Burst * T
PouredBound == \A k \in Keys : poured[k] <= level[k] + elapsed
BucketInv == TypeOK /\ BucketIsTat /\ PouredBound

\* The time a 429 names is not before the time the script would admit.
PromiseCovers ==
    Burst > 0 =>
        \A k \in Keys : promise[k] # 0 => now + level[k] + T - Burst * T <= max(now, promise[k])

\* The limiter is the first call's; tokens spent in the window, and those left, were
\* there or came since.
LimiterIsFirst == limiter = first /\ (called = {} => first = NoLimiter)
FallbackBudget ==
    fallbacks * Second + tokens <= 2 * first.burst * Second + 2 * first.rate * elapsed

\* The inductive invariant: what Redis holds for a key (tat and its TTL) is the
\* leaky bucket, and the promises and the fallback's tokens are covered.
IInv == BucketInv /\ PromiseCovers /\ LimiterIsFirst /\ FallbackBudget
=============================================================================
