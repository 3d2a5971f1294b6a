-------------------------------- MODULE JWKS --------------------------------
(***************************************************************************)
(* crypto/jwks_client.go: a cache of the identity provider's signing keys, *)
(* refreshed by a ticker and by verifications that miss a key, all through *)
(* one singleflight group.  The provider's key sets are numbered versions; *)
(* the cache, replaced as a whole, is the version it was filled from.      *)
(***************************************************************************)
EXTENDS Integers, FiniteSets

CONSTANTS
    Verifiers,      \* goroutines that call VerifyToken
    Refresher,      \* the goroutine of startKeyRefresher
    KeysAt,         \* version -> the valid RSA signing keys published then
    MaxVersion      \* bound: how many versions there are

Procs == Verifiers \cup {Refresher}
Versions == 1 .. MaxVersion
Kids == UNION {KeysAt[v] : v \in Versions}

None == "none"

ASSUME JWKSAssumption ==
    /\ MaxVersion \in Nat \ {0}
    /\ DOMAIN KeysAt = Versions
    /\ \A v \in Versions : IsFiniteSet(KeysAt[v])
    /\ Refresher \notin Verifiers /\ None \notin Procs

VARIABLES
    version,    \* what the provider publishes now
    client,     \* "new", "ready", or "failed" (FATAL on the initial fetch)
    ctx,        \* the context given to NewJWKSCachingClient
    cached,     \* the version in c.cache
    pc,         \* per goroutine
    kid,        \* per verifier: the kid of its token
    group,      \* c.sf: who leads the call in flight
    fetch,      \* per goroutine: the stage of its fetchKeys
    got,        \* per goroutine: the version in its response
    \* history
    floor,      \* per goroutine: cached when VerifyToken was called
    since       \* per goroutine: version when the refresh it leads or joined began

vars == <<version, client, ctx, cached, pc, kid, group, fetch, got, floor, since>>
history == <<floor, since>>

Init ==
    /\ version = 1 /\ client = "new" /\ ctx = "live" /\ cached = 1
    /\ pc = [p \in Procs |-> "idle"]
    /\ kid = [p \in Verifiers |-> None]
    /\ group = None
    /\ fetch = [p \in Procs |-> None] /\ got = [p \in Procs |-> 1]
    /\ floor = [p \in Procs |-> 1] /\ since = [p \in Procs |-> 1]

\* The provider publishes its next key set.
Rotate ==
    /\ version < MaxVersion
    /\ version' = version + 1
    /\ UNCHANGED <<client, ctx, cached, pc, kid, group, fetch, got, history>>

Cancel ==
    /\ ctx = "live"
    /\ ctx' = "canceled"
    /\ UNCHANGED <<version, client, cached, pc, kid, group, fetch, got, history>>

\* NewJWKSCachingClient: the first fetch does not go through the group.
NewClient ==
    /\ client = "new" /\ KeysAt[version] # {}
    /\ client' = "ready"
    /\ cached' = version
    /\ UNCHANGED <<version, ctx, pc, kid, group, fetch, got, history>>

NewClientErr ==
    /\ client = "new"
    /\ client' = "failed"
    /\ UNCHANGED <<version, ctx, cached, pc, kid, group, fetch, got, history>>

-----------------------------------------------------------------------------
(* startKeyRefresher *)

TickerFires ==
    /\ client = "ready" /\ pc[Refresher] = "idle"
    /\ pc' = [pc EXCEPT ![Refresher] = "refresh"]
    /\ UNCHANGED <<version, client, ctx, cached, kid, group, fetch, got, history>>

RefresherStops ==
    /\ client = "ready" /\ pc[Refresher] = "idle" /\ ctx = "canceled"
    /\ pc' = [pc EXCEPT ![Refresher] = "stopped"]
    /\ UNCHANGED <<version, client, ctx, cached, kid, group, fetch, got, history>>

(* doRefresh *)

\* Mutant: no singleflight, every caller fetches.
DoAlone(p) ==
    /\ pc[p] = "refresh"
    /\ group' = p
    /\ fetch' = [fetch EXCEPT ![p] = "request"]
    /\ pc' = [pc EXCEPT ![p] = "leading"]
    /\ since' = [since EXCEPT ![p] = version]
    /\ UNCHANGED <<version, client, ctx, cached, kid, got, floor>>

\* c.sf.Do: lead the call, or wait for the one in flight.
Lead(p) ==
    /\ pc[p] = "refresh" /\ group = None
    /\ group' = p
    /\ fetch' = [fetch EXCEPT ![p] = "request"]
    /\ pc' = [pc EXCEPT ![p] = "leading"]
    /\ since' = [since EXCEPT ![p] = version]
    /\ UNCHANGED <<version, client, ctx, cached, kid, got, floor>>

Join(p) ==
    /\ pc[p] = "refresh" /\ group # None
    /\ pc' = [pc EXCEPT ![p] = "waiting"]
    /\ since' = [since EXCEPT ![p] = since[group]]
    /\ UNCHANGED <<version, client, ctx, cached, kid, group, fetch, got, floor>>

Do(p) == Lead(p) \/ Join(p)

\* Mutant: the refresher gives up when a refresh fails.
AfterErrStops(p, outcome) ==
    CASE p = Refresher /\ outcome = "ok" -> "idle"
      [] p = Refresher -> "stopped"
      [] outcome = "ok" -> "relookup"
      [] OTHER -> "failed"

\* Where doRefresh leaves a goroutine.
After(p, outcome) ==
    CASE p = Refresher -> "idle"
      [] outcome = "ok" -> "relookup"
      [] OTHER -> "failed"

\* Mutant: only the leader learns that the call is over.
EndAlone(p, outcome) ==
    /\ group' = None
    /\ fetch' = [fetch EXCEPT ![p] = None]
    /\ got' = [got EXCEPT ![p] = 1]
    /\ pc' = [pc EXCEPT ![p] = After(p, outcome)]

\* The call of p ends: p and those who wait for it get its outcome.
End(p, outcome) ==
    /\ group' = None
    /\ fetch' = [fetch EXCEPT ![p] = None]
    /\ got' = [got EXCEPT ![p] = 1]
    /\ pc' = [q \in Procs |->
           IF q = p \/ pc[q] = "waiting" THEN After(q, outcome) ELSE pc[q]]

-----------------------------------------------------------------------------
(* fetchKeys *)

\* The provider answers 200 with what it publishes at that moment.
Respond(p) ==
    /\ fetch[p] = "request"
    /\ fetch' = [fetch EXCEPT ![p] = "response"]
    /\ got' = [got EXCEPT ![p] = version]
    /\ UNCHANGED <<version, client, ctx, cached, pc, kid, group, history>>

\* A timeout, a network error, another status, a body that does not decode, or
\* no valid key in it: the cache stays.
FetchErr(p) ==
    /\ fetch[p] \in {"request", "response"}
    /\ End(p, "error")
    /\ UNCHANGED <<version, client, ctx, cached, kid, history>>

\* Mutant: an empty key set replaces the cache.
ApplyAny(p) ==
    /\ fetch[p] = "response"
    /\ cached' = got[p]
    /\ fetch' = [fetch EXCEPT ![p] = "applied"]
    /\ UNCHANGED <<version, client, ctx, pc, kid, group, got, history>>

\* Under c.mu.
Apply(p) ==
    /\ fetch[p] = "response" /\ KeysAt[got[p]] # {}
    /\ cached' = got[p]
    /\ fetch' = [fetch EXCEPT ![p] = "applied"]
    /\ UNCHANGED <<version, client, ctx, pc, kid, group, got, history>>

FetchOk(p) ==
    /\ fetch[p] = "applied"
    /\ End(p, "ok")
    /\ UNCHANGED <<version, client, ctx, cached, kid, history>>

-----------------------------------------------------------------------------
(* VerifyToken: the key function.  A token with a wrong method or no kid is  *)
(* refused before it, and the signature, issuer and times are checked after  *)
(* it, on the token alone.                                                   *)

Verify(p) ==
    /\ client = "ready" /\ pc[p] = "idle"
    /\ \E k \in Kids : kid' = [kid EXCEPT ![p] = k]
    /\ pc' = [pc EXCEPT ![p] = "lookup"]
    /\ floor' = [floor EXCEPT ![p] = cached]
    /\ UNCHANGED <<version, client, ctx, cached, group, fetch, got, since>>

LookupKey(p, miss) ==
    /\ pc' = [pc EXCEPT ![p] = IF kid[p] \in KeysAt[cached] THEN "accepted" ELSE miss]
    /\ UNCHANGED <<version, client, ctx, cached, kid, group, fetch, got, history>>

Lookup(p) == pc[p] = "lookup" /\ LookupKey(p, "refresh")

\* Mutant: the second lookup reads the map that the first one read.
RelookupOldMap(p) ==
    /\ pc[p] = "relookup"
    /\ pc' = [pc EXCEPT ![p] = IF kid[p] \in KeysAt[floor[p]] THEN "accepted" ELSE "rejected"]
    /\ UNCHANGED <<version, client, ctx, cached, kid, group, fetch, got, history>>

Relookup(p) == pc[p] = "relookup" /\ LookupKey(p, "rejected")

Return(p) ==
    /\ pc[p] \in {"accepted", "rejected", "failed"}
    /\ pc' = [pc EXCEPT ![p] = "idle"]
    /\ kid' = [kid EXCEPT ![p] = None]
    /\ floor' = [floor EXCEPT ![p] = 1]
    /\ since' = [since EXCEPT ![p] = 1]
    /\ UNCHANGED <<version, client, ctx, cached, group, fetch, got>>

-----------------------------------------------------------------------------
FetchStep(p) == Apply(p) \/ FetchOk(p) \/ FetchErr(p)
VerifyStep(p) == Lookup(p) \/ Relookup(p) \/ Return(p)

Next ==
    \/ Rotate \/ Cancel \/ NewClient \/ NewClientErr
    \/ TickerFires \/ RefresherStops
    \/ \E p \in Procs : Do(p) \/ Respond(p) \/ FetchStep(p)
    \/ \E p \in Verifiers : Verify(p) \/ VerifyStep(p)

Spec == Init /\ [][Next]_vars

\* Goroutines that can move do, a fetch ends (its client has a timeout), and a
\* provider that is asked again and again answers at last.
FairSpec ==
    /\ Spec
    /\ WF_vars(TickerFires)
    /\ \A p \in Procs : WF_vars(Do(p))
    /\ WF_vars(\E p \in Procs : FetchStep(p))
    /\ SF_vars(\E p \in Procs : Respond(p)) /\ SF_vars(\E p \in Procs : Apply(p))
    /\ \A p \in Verifiers : WF_vars(VerifyStep(p))

-----------------------------------------------------------------------------
(* Properties *)

TypeOK ==
    /\ version \in Versions /\ cached \in Versions
    /\ client \in {"new", "ready", "failed"} /\ ctx \in {"live", "canceled"}
    /\ pc \in [Procs -> {"idle", "stopped", "lookup", "refresh", "leading", "waiting",
                         "relookup", "accepted", "rejected", "failed"}]
    /\ kid \in [Verifiers -> Kids \cup {None}]
    /\ group \in Procs \cup {None}
    /\ fetch \in [Procs -> {None, "request", "response", "applied"}]
    /\ got \in [Procs -> Versions]
    /\ floor \in [Procs -> Versions] /\ since \in [Procs -> Versions]

\* Refreshes that overlap (the ticker's and those of misses) never put an older
\* key set over a newer one: doRefresh (jwks_client.go:108-113) lets one fetch run
\* at a time.
CacheNeverGoesBack == [][client = "ready" => cached' >= cached]_vars

\* A bad or empty answer never replaces a good cache (jwks_client.go:149-156).
CacheNeverEmpty == client = "ready" => KeysAt[cached] # {}

\* A verifier accepts a kid only from a key set at least as new as the cache was
\* when it was called.
AcceptsFromCurrent ==
    \A p \in Verifiers :
        pc[p] = "accepted" => \E v \in floor[p] .. version : kid[p] \in KeysAt[v]

\* A verifier refuses a kid only if the provider did not publish it at some moment
\* since the refresh behind the refusal began (jwks_client.go:216-230).  A refresh it
\* leads begins within its call; one it joins may have begun before, so that a key
\* published in between can be refused, but never on an answer older than that.
RejectsRightly ==
    \A p \in Verifiers :
        pc[p] = "rejected" => \E v \in since[p] .. version : kid[p] \notin KeysAt[v]

\* Every verification returns, its own fetch or the one it waits for included.
VerifyReturns == \A p \in Verifiers : (pc[p] = "lookup") ~> (pc[p] = "idle")

\* While its context lives the refresher brings the cache up to the version the
\* provider settles on.
CacheCatchesUp ==
    (client = "ready" /\ version = MaxVersion) ~> (cached = MaxVersion \/ ctx = "canceled")

\* The inductive invariant: at most one fetch is in flight ("singleflight
\* protection", README.md:71); the cache is never newer than a response on its
\* way to it; nobody waits without a flight, and what a flight brings is not older
\* than the flight.
FlightInv(p) ==
    /\ fetch[p] # None <=> group = p
    /\ fetch[p] # None <=> pc[p] = "leading"
    /\ pc[p] = "waiting" => group # None /\ since[p] = since[group]
    /\ fetch[p] = "response" => cached <= got[p] /\ since[p] <= got[p]
    /\ fetch[p] = "applied" => since[p] <= cached
CallInv(p) ==
    /\ got[p] <= version /\ since[p] <= version /\ floor[p] <= cached
    /\ pc[p] = "relookup" => since[p] <= cached
IInv ==
    /\ TypeOK
    /\ cached <= version
    /\ client # "ready" => \A p \in Procs : pc[p] = "idle"
    /\ CacheNeverEmpty
    /\ \A p \in Procs : FlightInv(p) /\ CallInv(p)
    /\ AcceptsFromCurrent
    /\ RejectsRightly
=============================================================================
