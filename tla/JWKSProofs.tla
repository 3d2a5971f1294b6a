----------------------------- MODULE JWKSProofs -----------------------------
(***************************************************************************)
(* The cache of signing keys never goes back, is never emptied, and a      *)
(* verifier that fetched itself refuses only what was not published, for   *)
(* any number of verifiers and versions.                                   *)
(***************************************************************************)
EXTENDS JWKS, TLAPS

\* The initial state satisfies the invariant.
LEMMA InvInit == Init => IInv
  BY JWKSAssumption, SMT
  DEF Init, IInv, FlightInv, CallInv, TypeOK, CacheNeverEmpty, AcceptsFromCurrent, RejectsRightly,
      Versions, Procs, None

\* The types are preserved.
LEMMA TypeStep == TypeOK /\ [Next]_vars => TypeOK'
  <1> SUFFICES ASSUME TypeOK, [Next]_vars PROVE TypeOK'
    OBVIOUS
  <1> USE JWKSAssumption DEF TypeOK, Versions, Procs, history, None
  <1>1. CASE Rotate \/ Cancel \/ NewClient \/ NewClientErr
    BY <1>1, SMT DEF Rotate, Cancel, NewClient, NewClientErr
  <1>2. CASE TickerFires \/ RefresherStops
    BY <1>2, SMT DEF TickerFires, RefresherStops
  <1>3. ASSUME NEW p \in Procs, Do(p) PROVE TypeOK'
    <2>1. CASE Lead(p)
      BY <2>1, SMT DEF Lead
    <2>2. CASE Join(p)
      BY <2>2, SMT DEF Join
    <2> QED
      BY <1>3, <2>1, <2>2 DEF Do
  <1>4. ASSUME NEW p \in Procs, Respond(p) PROVE TypeOK'
    BY <1>4, SMT DEF Respond
  <1>5. ASSUME NEW p \in Procs, Apply(p) PROVE TypeOK'
    BY <1>5, SMT DEF Apply
  <1>6. ASSUME NEW p \in Procs, FetchOk(p) PROVE TypeOK'
    BY <1>6, SMTT(60) DEF FetchOk, End, After
  <1>7. ASSUME NEW p \in Procs, FetchErr(p) PROVE TypeOK'
    BY <1>7, SMTT(60) DEF FetchErr, End, After
  <1>8. ASSUME NEW p \in Verifiers, Verify(p) PROVE TypeOK'
    BY <1>8, SMT DEF Verify
  <1>9. ASSUME NEW p \in Verifiers, VerifyStep(p) PROVE TypeOK'
    <2>1. CASE Lookup(p)
      BY <2>1, SMT DEF Lookup, LookupKey
    <2>2. CASE Relookup(p)
      BY <2>2, SMT DEF Relookup, LookupKey
    <2>3. CASE Return(p)
      BY <2>3, SMT DEF Return
    <2> QED
      BY <1>9, <2>1, <2>2, <2>3 DEF VerifyStep
  <1>10. CASE UNCHANGED vars
    BY <1>10, SMT DEF vars
  <1> QED
    BY <1>1, <1>2, <1>3, <1>4, <1>5, <1>6, <1>7, <1>8, <1>9, <1>10
    DEF Next, FetchStep

\* Every action preserves the invariant.
LEMMA InvStep == IInv /\ [Next]_vars => IInv'
  <1> SUFFICES ASSUME IInv, [Next]_vars PROVE IInv'
    OBVIOUS
  <1>0. TypeOK /\ TypeOK'
    BY TypeStep DEF IInv
  <1> DEFINE Rest ==
        /\ cached <= version
        /\ client # "ready" => \A p \in Procs : pc[p] = "idle"
        /\ CacheNeverEmpty
        /\ \A p \in Procs : FlightInv(p) /\ CallInv(p)
        /\ AcceptsFromCurrent
        /\ RejectsRightly
  <1> SUFFICES Rest'
    BY <1>0 DEF IInv
  <1>a. Rest
    BY DEF IInv
  <1> USE JWKSAssumption, <1>0, <1>a
      DEF Rest, TypeOK, Versions, Procs, history, None, FlightInv, CallInv, CacheNeverEmpty,
          AcceptsFromCurrent, RejectsRightly
  <1>1. CASE Rotate
    BY <1>1, SMT DEF Rotate
  <1>2. CASE Cancel \/ NewClientErr
    <2>1. CASE Cancel
      BY <2>1, SMT DEF Cancel
    <2>2. CASE NewClientErr
      BY <2>2, SMT DEF NewClientErr
    <2> QED
      BY <1>2, <2>1, <2>2
  <1>3. CASE NewClient
    BY <1>3, SMT DEF NewClient
  <1>4. CASE TickerFires \/ RefresherStops
    <2>1. CASE TickerFires
      BY <2>1, SMT DEF TickerFires
    <2>2. CASE RefresherStops
      BY <2>2, SMT DEF RefresherStops
    <2> QED
      BY <1>4, <2>1, <2>2
  <1>5. ASSUME NEW p \in Procs, Lead(p) PROVE Rest'
    BY <1>5, SMTT(60) DEF Lead
  <1>6. ASSUME NEW p \in Procs, Join(p) PROVE Rest'
    BY <1>6, SMTT(60) DEF Join
  <1>7. ASSUME NEW p \in Procs, Respond(p) PROVE Rest'
    BY <1>7, SMT DEF Respond
  <1>8. ASSUME NEW p \in Procs, Apply(p) PROVE Rest'
    BY <1>8, SMT DEF Apply
  <1>9. ASSUME NEW p \in Procs, FetchOk(p) PROVE Rest'
    BY <1>9, SMT DEF FetchOk, End, After
  <1>10. ASSUME NEW p \in Procs, FetchErr(p) PROVE Rest'
    <2>1. /\ cached' <= version'
          /\ (client' # "ready" => \A q \in Procs : pc'[q] = "idle")
      BY <1>10, SMT DEF FetchErr, End, After
    <2>2. CacheNeverEmpty'
      BY <1>10, SMT DEF FetchErr, End, After
    <2>3. ASSUME NEW q \in Procs PROVE FlightInv(q)'
      BY <1>10, <2>3, SMT DEF FetchErr, End, After
    <2>4. ASSUME NEW q \in Procs PROVE CallInv(q)'
      BY <1>10, <2>4, SMT DEF FetchErr, End, After
    <2>5. ASSUME NEW q \in Verifiers, pc'[q] = "accepted"
          PROVE  \E v \in floor'[q] .. version' : kid'[q] \in KeysAt[v]
      BY <1>10, <2>5, SMT DEF FetchErr, End, After
    <2>6. ASSUME NEW q \in Verifiers, pc'[q] = "rejected"
          PROVE  \E v \in since'[q] .. version' : kid'[q] \notin KeysAt[v]
      BY <1>10, <2>6, SMT DEF FetchErr, End, After
    <2> QED
      BY <2>1, <2>2, <2>3, <2>4, <2>5, <2>6, Zenon
  <1>11. ASSUME NEW p \in Verifiers, Verify(p) PROVE Rest'
    <2>1. /\ cached' <= version'
          /\ (client' # "ready" => \A q \in Procs : pc'[q] = "idle")
      BY <1>11, SMT DEF Verify
    <2>2. CacheNeverEmpty'
      BY <1>11, SMT DEF Verify
    <2>3. ASSUME NEW q \in Procs PROVE FlightInv(q)'
      BY <1>11, <2>3, SMT DEF Verify
    <2>4. ASSUME NEW q \in Procs PROVE CallInv(q)'
      BY <1>11, <2>4, SMT DEF Verify
    <2>5. ASSUME NEW q \in Verifiers, pc'[q] = "accepted"
          PROVE  \E v \in floor'[q] .. version' : kid'[q] \in KeysAt[v]
      BY <1>11, <2>5, SMTT(60) DEF Verify
    <2>6. ASSUME NEW q \in Verifiers, pc'[q] = "rejected"
          PROVE  \E v \in since'[q] .. version' : kid'[q] \notin KeysAt[v]
      BY <1>11, <2>6, SMT DEF Verify
    <2> QED
      BY <2>1, <2>2, <2>3, <2>4, <2>5, <2>6, Zenon
  <1>12. ASSUME NEW p \in Verifiers, Lookup(p) PROVE Rest'
    BY <1>12, SMT DEF Lookup, LookupKey
  <1>13. ASSUME NEW p \in Verifiers, Relookup(p) PROVE Rest'
    BY <1>13, SMT DEF Relookup, LookupKey
  <1>14. ASSUME NEW p \in Verifiers, Return(p) PROVE Rest'
    <2>1. /\ cached' <= version'
          /\ (client' # "ready" => \A q \in Procs : pc'[q] = "idle")
      BY <1>14, SMT DEF Return
    <2>2. CacheNeverEmpty'
      BY <1>14, SMT DEF Return
    <2>b. group # p /\ p # Refresher
      BY <1>14 DEF Return
    <2>c. pc'[p] = "idle" /\ \A q \in Procs \ {p} : pc'[q] = pc[q] /\ since'[q] = since[q]
      BY <1>14 DEF Return
    <2>3. ASSUME NEW q \in Procs PROVE FlightInv(q)'
      <3>1. CASE q = p
        BY <1>14, <2>b, <2>c, <3>1, SMT DEF Return
      <3>2. CASE q # p
        BY <1>14, <2>b, <2>c, <2>3, <3>2, SMTT(60) DEF Return
      <3> QED
        BY <3>1, <3>2
    <2>4. ASSUME NEW q \in Procs PROVE CallInv(q)'
      BY <1>14, <2>4, SMT DEF Return
    <2>a. pc'[p] = "idle" /\ \A q \in Verifiers \ {p} :
            /\ pc'[q] = pc[q] /\ kid'[q] = kid[q]
            /\ since'[q] = since[q] /\ floor'[q] = floor[q]
      BY <1>14 DEF Return
    <2>5. ASSUME NEW q \in Verifiers, pc'[q] = "accepted"
          PROVE  \E v \in floor'[q] .. version' : kid'[q] \in KeysAt[v]
      BY <1>14, <2>a, <2>5, SMTT(60) DEF Return
    <2>6. ASSUME NEW q \in Verifiers, pc'[q] = "rejected"
          PROVE  \E v \in since'[q] .. version' : kid'[q] \notin KeysAt[v]
      BY <1>14, <2>a, <2>6, SMTT(60) DEF Return
    <2> QED
      BY <2>1, <2>2, <2>3, <2>4, <2>5, <2>6, Zenon
  <1>15. CASE UNCHANGED vars
    BY <1>15 DEF vars
  <1> QED
    BY <1>1, <1>2, <1>3, <1>4, <1>5, <1>6, <1>7, <1>8, <1>9, <1>10, <1>11, <1>12, <1>13,
       <1>14, <1>15
    DEF Next, FetchStep, VerifyStep, Do

\* The inductive invariant holds of every behaviour.
THEOREM Invariance == Spec => []IInv
  BY InvInit, InvStep, PTL DEF Spec

\* Overlapping refreshes never put an older key set over a newer one.
THEOREM NeverGoesBack == Spec => CacheNeverGoesBack
  <1>1. IInv /\ [Next]_vars => [client = "ready" => cached' >= cached]_vars
    <2> SUFFICES ASSUME IInv, [Next]_vars, client = "ready" PROVE cached' >= cached
      OBVIOUS
    <2>0. cached \in Int /\ cached >= cached
      BY JWKSAssumption, SMT DEF IInv, TypeOK, Versions
    <2>1. ASSUME NEW p \in Procs, Apply(p) PROVE cached' >= cached
      BY <2>1, JWKSAssumption, SMT DEF Apply, IInv, FlightInv, TypeOK, Versions, None
    <2>2. CASE cached' = cached
      BY <2>0, <2>2
    <2> QED
      BY <2>1, <2>2
      DEF Next, Rotate, Cancel, NewClient, NewClientErr, TickerFires, RefresherStops, Do, Lead,
          Join, Respond, FetchStep, FetchOk, FetchErr, Verify, VerifyStep, Lookup, Relookup,
          LookupKey, Return, vars
  <1> QED
    BY <1>1, Invariance, PTL DEF Spec, CacheNeverGoesBack

\* A bad answer never empties the cache.
THEOREM NeverEmpty == Spec => []CacheNeverEmpty
  <1>1. IInv => CacheNeverEmpty
    BY DEF IInv
  <1> QED
    BY <1>1, Invariance, PTL

\* Keys are accepted from a set as new as the cache was at the call.
THEOREM AcceptsCurrent == Spec => []AcceptsFromCurrent
  <1>1. IInv => AcceptsFromCurrent
    BY DEF IInv
  <1> QED
    BY <1>1, Invariance, PTL

\* A verifier refuses only a kid that was not published at some moment since the
\* refresh it led or joined began.
THEOREM RefusesRightly == Spec => []RejectsRightly
  <1>1. IInv => RejectsRightly
    BY DEF IInv
  <1> QED
    BY <1>1, Invariance, PTL

-----------------------------------------------------------------------------
(* What the end of a verification rests on *)

\* Whoever waits in c.sf.Do waits for a call that is in flight.
WaitersHaveLeader ==
    \A q \in Procs : pc[q] = "waiting" => \E p \in Procs : group = p /\ fetch[p] # None

\* No goroutine misses the end of the call it has joined: joining and the end of a call
\* cannot cross.
THEOREM NobodyLeftWaiting == Spec => []WaitersHaveLeader
<1>1. IInv => WaitersHaveLeader
  <2> SUFFICES ASSUME IInv, NEW q \in Procs, pc[q] = "waiting"
               PROVE  \E p \in Procs : group = p /\ fetch[p] # None
    BY DEF WaitersHaveLeader
  <2>1. group \in Procs
    BY DEF IInv, TypeOK, FlightInv
  <2> QED
    BY <2>1 DEF IInv, FlightInv
<1> QED
  BY <1>1, Invariance, PTL

\* How far a verification is from its end.
VerifyRank(where) ==
    CASE where = "lookup" -> 5 [] where = "refresh" -> 4
      [] where \in {"leading", "waiting"} -> 3 [] where = "relookup" -> 2
      [] where \in {"accepted", "rejected", "failed"} -> 1 [] OTHER -> 0

\* A verification only moves towards its end, whoever moves it.
VerifyShortens ==
    \A p \in Verifiers :
        pc[p] # "idle" /\ pc'[p] # pc[p] => VerifyRank(pc'[p]) < VerifyRank(pc[p])

\* The decreasing measure behind VerifyReturns: VerifyToken looks a kid up at most twice
\* and takes part in at most one refresh, so no stream of unknown kids makes it loop.
THEOREM VerifyProgress == Spec => [][VerifyShortens]_vars
<1>1. IInv /\ [Next]_vars => [VerifyShortens]_vars
  <2> SUFFICES ASSUME IInv, Next, NEW q \in Verifiers, pc[q] # "idle", pc'[q] # pc[q]
               PROVE  VerifyRank(pc'[q]) < VerifyRank(pc[q])
    BY DEF VerifyShortens
  <2>0. q \in Procs /\ q # Refresher /\ DOMAIN pc = Procs
    BY JWKSAssumption DEF IInv, TypeOK, Procs
  <2>1. ASSUME NEW p \in Procs, NEW where, pc' = [pc EXCEPT ![p] = where]
        PROVE  p = q /\ pc'[q] = where
    BY <2>0, <2>1
  <2>2. ASSUME NEW p \in Procs, Do(p) PROVE pc[q] = "refresh" /\ pc'[q] \in {"leading", "waiting"}
    BY <2>1, <2>2 DEF Do, Lead, Join
  <2>3. ASSUME NEW p \in Procs, FetchOk(p) \/ FetchErr(p)
        PROVE  pc[q] \in {"leading", "waiting"} /\ pc'[q] \in {"relookup", "failed"}
    <3>1. pc[p] = "leading"
      BY <2>3 DEF FetchOk, FetchErr, IInv, FlightInv, None
    <3>2. \E outcome \in {"ok", "error"} :
              pc' = [r \in Procs |-> IF r = p \/ pc[r] = "waiting" THEN After(r, outcome) ELSE pc[r]]
      BY <2>3 DEF FetchOk, FetchErr, End
    <3> QED
      BY <2>0, <3>1, <3>2 DEF After
  <2>4. ASSUME NEW p \in Verifiers, Verify(p) \/ VerifyStep(p)
        PROVE  \/ pc[q] = "lookup" /\ pc'[q] \in {"accepted", "refresh"}
               \/ pc[q] = "relookup" /\ pc'[q] \in {"accepted", "rejected"}
               \/ pc[q] \in {"accepted", "rejected", "failed"} /\ pc'[q] = "idle"
    <3>1. p \in Procs
      BY DEF Procs
    <3> QED
      BY <2>1, <2>4, <3>1 DEF Verify, VerifyStep, Lookup, Relookup, LookupKey, Return
  <2>5. CASE TickerFires \/ RefresherStops
    <3>1. Refresher \in Procs
      BY DEF Procs
    <3> QED
      BY <2>0, <2>1, <2>5, <3>1 DEF TickerFires, RefresherStops
  <2>6. \/ \E p \in Procs : Do(p) \/ FetchOk(p) \/ FetchErr(p)
        \/ \E p \in Verifiers : Verify(p) \/ VerifyStep(p)
        \/ TickerFires \/ RefresherStops
    BY DEF Next, FetchStep, Rotate, Cancel, NewClient, NewClientErr, Respond, Apply
  <2> QED
    BY <2>2, <2>3, <2>4, <2>5, <2>6 DEF VerifyRank
<1> QED
  BY <1>1, Invariance, PTL DEF Spec

=============================================================================
