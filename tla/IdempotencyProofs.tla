------------------------- MODULE IdempotencyProofs --------------------------
(* Proofs about Idempotency, for every set of requests, expiry and bound. *)
EXTENDS Idempotency, TLAPS

\* A fresh Redis and requests not yet seen satisfy the invariant.
LEMMA InvInit == Init => IInv
  BY IdempotencyAssumption
  DEF Init, IInv, TypeOK, AtMostOnePerWindow, LockRemembers, ClosedNeedsGrant, Holds

\* A grant comes at least Expiry after every earlier grant of the same key.
LEMMA GrantIsFresh ==
  ASSUME IInv, NEW r \in Requests, LockGranted(r),
         NEW s \in Requests, KeyOf[s] = KeyOf[r], Holds(s)
  PROVE  Expiry # 0 /\ grant[s] + Expiry <= now
<1>1. KeyOf[r] \in Keys /\ lockedAt[KeyOf[r]] \in Nat /\ grant[s] \in Nat \ {0} /\ now \in Nat
  BY DEF LockGranted, Keys, IInv, TypeOK, Holds
<1>2. \/ grant[s] = lockedAt[KeyOf[r]]
      \/ Expiry # 0 /\ grant[s] + Expiry <= lockedAt[KeyOf[r]]
  BY DEF IInv, LockRemembers
<1>3. lockedAt[KeyOf[r]] = 0 \/ (Expiry # 0 /\ now >= lockedAt[KeyOf[r]] + Expiry)
  BY <1>1, IdempotencyAssumption DEF LockGranted, Locked
<1> QED
  BY <1>1, <1>2, <1>3, IdempotencyAssumption

\* Redis sets a lock only when the last one has expired, so what LockRemembers says
\* of the earlier grants stays true, whether or not the reply arrives.
LEMMA LockSet ==
  ASSUME IInv, NEW k \in Keys, ~Locked(k), lockedAt' = [lockedAt EXCEPT ![k] = now],
         NEW s \in Requests, Holds(s)
  PROVE  \/ grant[s] = lockedAt'[KeyOf[s]]
         \/ Expiry # 0 /\ grant[s] + Expiry <= lockedAt'[KeyOf[s]]
<1>1. /\ KeyOf[s] \in Keys /\ lockedAt \in [Keys -> 0 .. now] /\ now \in Nat
      /\ grant[s] \in Nat \ {0}
      /\ \/ grant[s] = lockedAt[KeyOf[s]]
         \/ Expiry # 0 /\ grant[s] + Expiry <= lockedAt[KeyOf[s]]
  BY DEF IInv, TypeOK, LockRemembers, Keys, Holds
<1>2. CASE KeyOf[s] # k
  BY <1>1, <1>2
<1>3. CASE KeyOf[s] = k
  <2>1. lockedAt[k] = 0 \/ (Expiry # 0 /\ now >= lockedAt[k] + Expiry)
    BY <1>1, IdempotencyAssumption DEF Locked
  <2> QED
    BY <1>1, <1>3, <2>1, IdempotencyAssumption
<1> QED
  BY <1>2, <1>3

\* Every step of a request, of Redis and of the clock keeps the invariant.
LEMMA InvStep == ASSUME IInv, [Next]_vars PROVE IInv'
<1> USE IdempotencyAssumption DEF IInv
<1>1. ASSUME NEW r \in Requests, LockGranted(r) PROVE IInv'
  <2>1. KeyOf[r] \in Keys
    BY <1>1 DEF LockGranted, Keys
  <2>2. TypeOK'
    BY <1>1, <2>1 DEF LockGranted, Process, TypeOK
  <2>3. AtMostOnePerWindow'
    <3> SUFFICES ASSUME NEW a \in Requests, NEW b \in Requests, SameKey(a, b),
                        grant'[a] # 0, grant'[b] # 0, grant'[a] <= grant'[b]
                 PROVE  Expiry # 0 /\ grant'[a] + Expiry <= grant'[b]
      BY DEF AtMostOnePerWindow, Holds, SameKey
    <3>0. /\ grant'[r] = now /\ \A q \in Requests \ {r} : grant'[q] = grant[q]
          /\ now \in Nat /\ \A q \in Requests : grant[q] \in 0 .. now
      BY <1>1 DEF LockGranted, TypeOK
    <3>1. CASE a # r /\ b # r
      BY <3>0, <3>1 DEF AtMostOnePerWindow, Holds
    <3>2. CASE b = r
      BY <1>1, <3>0, <3>2, GrantIsFresh DEF SameKey, Holds
    <3>3. CASE a = r
      <4>1. Expiry # 0 /\ grant[b] + Expiry <= now
        BY <1>1, <3>0, <3>3, GrantIsFresh DEF SameKey, Holds
      <4> QED
        BY <3>0, <3>3, <4>1 DEF SameKey
    <3> QED
      BY <3>1, <3>2, <3>3
  <2>4. LockRemembers'
    BY <1>1, <2>1, LockSet DEF LockGranted, Process, LockRemembers, Holds, TypeOK
  <2>5. ClosedNeedsGrant'
    BY <1>1 DEF LockGranted, Process, ClosedNeedsGrant, Holds, TypeOK
  <2> QED
    BY <2>2, <2>3, <2>4, <2>5
<1>2. ASSUME NEW r \in Requests, ConflictWithItself(r) PROVE IInv'
  <2>1. KeyOf[r] \in Keys
    BY <1>2 DEF ConflictWithItself, Keys
  <2>2. TypeOK'
    BY <1>2, <2>1 DEF ConflictWithItself, Answer, TypeOK
  <2>3. LockRemembers'
    BY <1>2, <2>1, LockSet DEF ConflictWithItself, Answer, LockRemembers, Holds, TypeOK
  <2>4. AtMostOnePerWindow' /\ ClosedNeedsGrant'
    BY <1>2 DEF ConflictWithItself, Answer, AtMostOnePerWindow, SameKey,
       ClosedNeedsGrant, Holds, TypeOK
  <2> QED
    BY <2>2, <2>3, <2>4
<1>3. ASSUME NEW r \in Requests, RedisError(r) PROVE IInv'
  <2>1. KeyOf[r] \in Keys
    BY <1>3 DEF RedisError, Keys
  <2>2. TypeOK'
    BY <1>3, <2>1 DEF RedisError, Answer, Process, TypeOK
  <2>3. LockRemembers'
    BY <1>3, <2>1, LockSet DEF RedisError, Answer, Process, LockRemembers, Holds, TypeOK
  <2>4. AtMostOnePerWindow'
    BY <1>3 DEF RedisError, AtMostOnePerWindow, SameKey, Holds
  <2>5. ClosedNeedsGrant'
    BY <1>3 DEF RedisError, Answer, Process, ClosedNeedsGrant, Holds,
       TypeOK, LockRemembers
  <2> QED
    BY <2>2, <2>3, <2>4, <2>5
<1>4. ASSUME NEW r \in Requests, PassWithoutKey(r) \/ Conflict(r) \/ HandlerReturns(r)
      PROVE IInv'
  BY <1>4 DEF PassWithoutKey, Conflict, HandlerReturns, Answer, Process, TypeOK,
     AtMostOnePerWindow, LockRemembers, ClosedNeedsGrant, SameKey, Holds
<1>5. CASE Tick
  BY <1>5 DEF Tick, TypeOK, AtMostOnePerWindow, LockRemembers, ClosedNeedsGrant,
     SameKey, Holds
<1>6. CASE UNCHANGED vars
  BY <1>6 DEF vars, TypeOK, AtMostOnePerWindow, LockRemembers, ClosedNeedsGrant,
     SameKey, Holds
<1> QED
  BY <1>1, <1>2, <1>3, <1>4, <1>5, <1>6 DEF Next

\* Along every behaviour the lock remembers the grants of its key.
THEOREM Invariance == Spec => []IInv
  BY InvInit, InvStep, PTL DEF Spec

\* However replies are lost and commands repeated, one key's lock is granted at
\* most once in every window of length Expiry.
THEOREM OneGrantPerWindow == Spec => []AtMostOnePerWindow
  BY Invariance, PTL DEF IInv

\* Two requests of one key overlap only past the expiry of the first one's lock, or
\* in a middleware that fails open: for every expiry and any length of handlers.
THEOREM OverlapBounded == Spec => []OverlapOnlyPastExpiry
<1>1. IInv => OverlapOnlyPastExpiry
  <2> SUFFICES ASSUME IInv, NEW r \in Requests, NEW s \in Requests, SameKey(r, s),
                      pc[r] = "handler", pc[s] = "handler", grant[r] <= grant[s],
                      ~(mode = "open" /\ ~Holds(r))
               PROVE  Expiry # 0 /\ grant[r] + Expiry <= now
    BY DEF OverlapOnlyPastExpiry
  <2>0. grant[r] \in 0 .. now /\ grant[s] \in 0 .. now /\ now \in Nat
    BY DEF IInv, TypeOK
  <2>1. Holds(r)
    BY DEF IInv, TypeOK, ClosedNeedsGrant, SameKey
  <2>2. Holds(s)
    BY <2>0, <2>1 DEF Holds
  <2>3. Expiry # 0 /\ grant[r] + Expiry <= grant[s]
    BY <2>1, <2>2 DEF IInv, AtMostOnePerWindow
  <2> QED
    BY <2>0, <2>3, IdempotencyAssumption
<1> QED
  BY <1>1, Invariance, PTL
=============================================================================
