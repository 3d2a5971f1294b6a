---------------------------- MODULE Idempotency -----------------------------
(***************************************************************************)
(* server/middleware/idempotency.go: requests that carry an idempotency    *)
(* key, on any number of servers, and the SetNX lock in Redis they share.  *)
(* The lock is never released; it expires.                                 *)
(***************************************************************************)
EXTENDS Integers

CONSTANTS
    Requests,       \* requests, retries by the client included
    KeyOf,          \* the Idempotency-Key header of each, or NoKey
    NoKey,
    Modes,          \* the settings of FailOpen of interest: "open" and "closed"
    Expiry,         \* cfg.Expiry; 0 sets a lock that does not expire
    MaxTime         \* bound: the clock

Keys == {KeyOf[r] : r \in Requests} \ {NoKey}

ASSUME IdempotencyAssumption ==
    /\ Modes \subseteq {"open", "closed"}
    /\ Expiry \in Nat /\ MaxTime \in Nat

VARIABLES
    mode,           \* cfg.FailOpen: "open" or "closed"
    lockedAt,       \* per key: when Redis last set the lock, 0 if it never did
    pc,             \* per request: "new", "handler", "done"
    grant,          \* per request: when Redis gave it the lock, 0 if it did not
    answer,         \* per request: the response, "none" before there is one
    now

vars == <<mode, lockedAt, pc, grant, answer, now>>

\* Mutant: the lock has expired as soon as it is set.
LockedForNoTime(k) == lockedAt[k] # 0 /\ now < lockedAt[k]
\* The key exists in Redis.
Locked(k) == lockedAt[k] # 0 /\ (Expiry = 0 \/ now < lockedAt[k] + Expiry)

Init ==
    /\ mode \in Modes
    /\ lockedAt = [k \in Keys |-> 0]
    /\ pc = [r \in Requests |-> "new"]
    /\ grant = [r \in Requests |-> 0]
    /\ answer = [r \in Requests |-> "none"]
    /\ now = 1

Answer(r, status) ==
    /\ pc' = [pc EXCEPT ![r] = "done"]
    /\ answer' = [answer EXCEPT ![r] = status]

\* next.ServeHTTP is called.
Process(r) == pc' = [pc EXCEPT ![r] = "handler"] /\ UNCHANGED answer

PassWithoutKey(r) ==
    /\ pc[r] = "new" /\ KeyOf[r] = NoKey
    /\ Process(r)
    /\ UNCHANGED <<mode, lockedAt, grant, now>>

\* SetNX returns true.
LockGranted(r) ==
    /\ pc[r] = "new" /\ KeyOf[r] # NoKey /\ ~Locked(KeyOf[r])
    /\ lockedAt' = [lockedAt EXCEPT ![KeyOf[r]] = now]
    /\ grant' = [grant EXCEPT ![r] = now]
    /\ Process(r)
    /\ UNCHANGED <<mode, now>>

\* Mutant: a conflict is only logged.
ConflictIgnored(r) ==
    /\ pc[r] = "new" /\ KeyOf[r] # NoKey /\ Locked(KeyOf[r])
    /\ grant' = [grant EXCEPT ![r] = now]
    /\ Process(r)
    /\ UNCHANGED <<mode, lockedAt, now>>

\* SetNX returns false.
Conflict(r) ==
    /\ pc[r] = "new" /\ KeyOf[r] # NoKey /\ Locked(KeyOf[r])
    /\ Answer(r, "409")
    /\ UNCHANGED <<mode, lockedAt, grant, now>>

\* The reply that granted the lock is lost, the Redis client repeats the command
\* and meets the request's own lock.
ConflictWithItself(r) ==
    /\ pc[r] = "new" /\ KeyOf[r] # NoKey /\ ~Locked(KeyOf[r])
    /\ lockedAt' = [lockedAt EXCEPT ![KeyOf[r]] = now]
    /\ Answer(r, "409")
    /\ UNCHANGED <<mode, grant, now>>

\* Mutant: the middleware always lets the request pass when Redis fails.
RedisErrorPasses(r) ==
    /\ pc[r] = "new" /\ KeyOf[r] # NoKey
    /\ UNCHANGED lockedAt
    /\ Process(r)
    /\ UNCHANGED <<mode, grant, now>>

\* SetNX returns an error; Redis may have set the lock all the same.
RedisError(r) ==
    /\ pc[r] = "new" /\ KeyOf[r] # NoKey
    /\ \/ UNCHANGED lockedAt
       \/ ~Locked(KeyOf[r]) /\ lockedAt' = [lockedAt EXCEPT ![KeyOf[r]] = now]
    /\ \/ mode = "open" /\ Process(r)
       \/ mode = "closed" /\ Answer(r, "503")
    /\ UNCHANGED <<mode, grant, now>>

\* The handler returns; "failed" stands for an error status, a panic or the
\* loss of the server.
HandlerReturns(r) ==
    /\ pc[r] = "handler"
    /\ \E status \in {"ok", "failed"} : Answer(r, status)
    /\ UNCHANGED <<mode, lockedAt, grant, now>>

\* Time passes, whatever the handlers do: nothing ends a handler when the lock
\* expires, and nothing renews the lock while the handler runs.
Tick ==
    /\ now < MaxTime
    /\ now' = now + 1
    /\ UNCHANGED <<mode, lockedAt, pc, grant, answer>>

Next ==
    \/ \E r \in Requests :
        \/ PassWithoutKey(r) \/ LockGranted(r) \/ Conflict(r) \/ ConflictWithItself(r)
        \/ RedisError(r) \/ HandlerReturns(r)
    \/ Tick

Spec == Init /\ [][Next]_vars

-----------------------------------------------------------------------------
(* Properties *)

TypeOK ==
    /\ mode \in {"open", "closed"}
    /\ lockedAt \in [Keys -> 0 .. now]
    /\ pc \in [Requests -> {"new", "handler", "done"}]
    /\ grant \in [Requests -> 0 .. now]
    /\ answer \in [Requests -> {"none", "ok", "failed", "409", "503"}]
    /\ now \in Nat \ {0}

SameKey(r, s) == r # s /\ KeyOf[r] = KeyOf[s] /\ KeyOf[r] # NoKey
Holds(r) == grant[r] # 0

\* Two grants of one key's lock are at least Expiry apart (and there is only one
\* when the lock does not expire), whatever replies are lost.
AtMostOnePerWindow ==
    \A r, s \in Requests :
        SameKey(r, s) /\ Holds(r) /\ Holds(s) /\ grant[r] <= grant[s] =>
            Expiry # 0 /\ grant[r] + Expiry <= grant[s]

\* Two requests of one key are processed at the same time only when the one that was
\* granted the lock first has outlived it, or when a middleware that fails open let
\* one pass without a lock.
OverlapOnlyPastExpiry ==
    \A r, s \in Requests :
        SameKey(r, s) /\ pc[r] = "handler" /\ pc[s] = "handler" /\ grant[r] <= grant[s] =>
            \/ mode = "open" /\ ~Holds(r)
            \/ Expiry # 0 /\ grant[r] + Expiry <= now

\* "requests with the same Idempotency-Key are not processed concurrently"
\* (idempotency.go:23-24). Even a middleware that fails closed does not keep this:
\* the lock is set for Expiry and the handler may run for longer.
NoConcurrentProcessing ==
    mode = "closed" =>
        \A r, s \in Requests : SameKey(r, s) => ~(pc[r] = "handler" /\ pc[s] = "handler")

\* The inductive invariant: the lock remembers the last grant of its key, and a
\* closed middleware runs the handler for a keyed request only with a grant.
LockRemembers ==
    \A r \in Requests : Holds(r) =>
        /\ KeyOf[r] # NoKey /\ pc[r] # "new"
        /\ \/ grant[r] = lockedAt[KeyOf[r]]
           \/ Expiry # 0 /\ grant[r] + Expiry <= lockedAt[KeyOf[r]]
ClosedNeedsGrant ==
    \A r \in Requests :
        mode = "closed" /\ pc[r] = "handler" /\ KeyOf[r] # NoKey => Holds(r)
IInv == TypeOK /\ AtMostOnePerWindow /\ LockRemembers /\ ClosedNeedsGrant
=============================================================================
