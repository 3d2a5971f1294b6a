# helix-fnd: a TLA+ verification development

helix-fnd is a Go foundation library: a Kafka consumer and producer, an audit
logger, HTTP and gRPC middleware on top of Redis, a JWKS client, and the
lifecycle of a server process. It has no tests. This directory models the parts
that hold state or run concurrently, model-checks them with TLC on small
instances, and proves their main invariants with TLAPS for every value of the
constants. `PROJECT.json` lists components, runs, the definition-to-source map,
hazards, findings, mutants and theorems.

    tlc -workers 2 -config consumer_safety.cfg MCConsumer
    tlapm ConsumerProofs.tla

## 1. Inventory

| Component | State | Operations | What makes it hard | What should hold |
|---|---|---|---|---|
| Consumer (`messaging/consumer.go`) | group offsets, client's batch, attempt and backoff, context | poll, iterate, handle, retry, dead-letter, commit, cancel, close | crash between any two steps, failed and late commits, cancel in mid-record, errors of one partition | no unresolved record is passed by a commit; order; cancel stops; a poison pill does not block |
| Manager (`messaging/manager.go`) | WaitGroup, one loop per consumer | Start, Close | Close races with loops that end, fail or panic, and waits for clients that hold up rebalances | Close waits for all; the counter matches the loops |
| Producer (`messaging/producer.go`) | client's buffer | Publish, Close | a failed publish that reached the broker | nil means stored |
| Audit logger (`audit/async_writer.go`) | channel, drop counter, time of last warning | Log, handleDrop, worker, Close | callers, worker and closers interleave; full buffer; send on a closed channel | nothing accepted is lost inside; Close drains; drops are accounted for |
| Kafka audit logger (`audit/kafka_logger.go`) | client's buffer | Log, Close | records buffered at Close, events logged after it | an orderly exit has settled every event logged before Close |
| Idempotency (`server/middleware/idempotency.go`) | lock per key in Redis with expiry | request | lost replies, expiry while a handler runs, Redis down | one grant per window; requests of one key overlap only past the expiry |
| Rate limit (`server/middleware/ratelimit.go`, `grpc_ratelimit.go`) | `tat` per key with TTL, in-memory token bucket of the whole process | set-up of a route, request | TTL against the bucket, rounding, lost replies, Redis down, routes with different limits | GCRA is a leaky bucket; bounded admissions; Retry-After is enough |
| JWKS (`crypto/jwks_client.go`) | key cache, singleflight group | refresh by ticker, refresh by miss, verify | overlapping fetches, rotation, failed fetches | the cache never goes back or empties; keys published are found |
| Lifecycle (`server/server.go`, `app/app.go`, the constructors of the clients) | dependencies, two server goroutines, errChan, context | connect, Start, shutdown, Run | a dependency that fails half-way, signal against failure, shutdown before Serve, drain timeout | no server without its dependencies; drained on return; a process asked to end does |
| Request pipeline (`server/middleware`, health checks, responses, database errors, tracing of queries and commands, log handler) | a frame per middleware, each with a context; the response; the request's span | in, out, unwound by a panic | any order of frames; a panic after an answer; wrappers that see different statuses | what is counted, logged, traced and limited is what was sent and who asked |
| Configuration, redaction, hashing | none | pure functions and I/O | few | see section 7 |

How they interact: `Runner.Run` gives one context, canceled by a signal, to a
function of the application. It connects to the dependencies, starts the
consumers (`ConsumerManager.Start`), runs the servers (`Server.Start`), and
closes what it opened when they return. Handlers log audit events and publish
messages; a consumer publishes its dead letters. A request goes through a chain
of middlewares that pass each other contexts and response writers: the rate
limit counts for the caller that auth (which calls `VerifyToken`) has put in the
context.

## 2. Plan

Order of importance: data must not be lost (Consumer, AsyncLogger,
KafkaClients), limits and locks must hold (Idempotency, RateLimit), keys must be
right (JWKS), processes must end (Process), and what is recorded about a request
must be true (Pipeline). All of these are in place; section 7 says what is left out.

## 3. Modules

| Module | Role |
|---|---|
| `Consumer` | one action per step of `Start` and `processWithRetry`; broker, crash and restart |
| `OffsetLog` | abstract: records are resolved in order and only resolved prefixes are committed. `Consumer` implements it (`ImplementsOffsetLog`) |
| `ConsumerLoop` | abstract: what a caller of `Start` may rely on. `Consumer` implements it with its fairness (`ImplementsConsumerLoop`) |
| `ConsumerManager` | the manager; its loops end by the actions of `ConsumerLoop` |
| `KafkaClients` | `KafkaLogger` and `Producer`: the fate of each record, what the caller was told |
| `ServerLifecycle` | start-up with its pings, `Server.Start`, `shutdown`, `Run` |
| `Process` | composition of the three above: they share the context, the clients and the life of the process |
| `Pipeline` | one request through a chain of middlewares |
| `AsyncLogger` | callers, worker, closers, channel, drop counter |
| `AuditTrail` | abstract: an append-only trail that is drained before it ends. `AsyncLogger` implements it |
| `Idempotency`, `RateLimit`, `JWKS` | one component each |
| `MCConsumer`, `MCIdempotency`, `MCRateLimit`, `MCJWKS`, `MCPipeline` | constants for TLC |
| `ConsumerProofs`, `AsyncLoggerProofs`, `IdempotencyProofs`, `RateLimitProofs`, `JWKSProofs`, `ProcessProofs`, `PipelineProofs` | theorems |

An operator whose comment begins with *Mutant* is a plausible bug in the
definition that follows it. It is part of no specification: put in the place of
that definition it makes a property fail, which shows the property depends on
the code.

### Correspondence with the code

**Consumer.** `pc` is the point `Start` or `processWithRetry` is at: `poll`
(PollFetches), `iter` (iter.Done), `check` (the ctx check at the head of the
retry loop), `handler`, `dlq` (Publish), `backoff` (the select), `commit`
(CommitRecords); `nil` and `error` are what `Start` returned, `dead` a panic or
a crash. A record is a partition and an offset; the batch is `next .. position-1`
per partition. A failed commit may still be applied later (`lateCommits`), until
a new process joins the group. `dropped` holds what the permissive policy gave
up while the context was live: a record given up after the cancellation is
returned as success too, and it is the commit on the canceled context that
keeps it from being lost. `ErrorsCarryRecords` says whether a
poll may return the records of healthy partitions next to another's error.
`held` says that records were polled, after which `Close` waits
(see ConsumerManager). Modelled from use (external): a poll on a canceled
context answers with the context's error, one on a closed client with
ErrClientClosed; a publish or commit called on a context that is done sends
nothing, on which `AtLeastOnce` rests for what is given up after a
cancellation (a commit that was under way may still be applied). The context is
`canceled` (a signal) or `expired` (a deadline): a poll returns nil only for the
first, so an expired context ends the loop in a record and not in a poll.

**AsyncLogger.** Every access to shared state in `handleDrop` is an action of
its own (`CountDrop`, `ReadClock`, `LoadLastLog`, `StoreLastLog`,
`SwapAndReport`). The two `select` statements are `Send`, `SendOnClosed` and
`GiveUp`; a send on a closed channel panics, also for a caller blocked in it.

**Idempotency.** SetNX is atomic in Redis; its reply may be lost, after which the
Redis client repeats the command (`ConflictWithItself`) or reports an error
(`RedisError`, with or without the lock set). A handler runs for any time:
nothing in the middleware ends it before its lock expires.

**RateLimit.** The Lua script is atomic. Time is in ticks, `T` ticks being one
emission interval, so that the script's arithmetic is exact; the TTL and
Retry-After are rounded up to seconds as in the script. `level` is the reference
leaky bucket; `poured`, `fallbacks` and `elapsed` observe an arbitrary window.
Each route of `Routes` is set up by a call of `RateLimitMiddleware`, at any time
and in any order; the first makes the token bucket (`limiter`, under
`limiterOnce`) that all HTTP routes fall back to, and `first` remembers its
arguments. `Own` is the route whose keys are modelled: it takes requests once it
is set up. The gRPC side fails open. `poured` counts what the script charged;
what the fallback and fail-open let through is not in it.

**JWKS.** Key sets are numbered; since the cache is replaced as a whole it is
the number of the set it came from. `group` is the singleflight call in flight.
A fetch is a request, a response and the assignment under the lock; any stage
before the assignment may fail. `since` is the version at which the refresh a
verifier leads or joined began.

**ServerLifecycle.** `main` is where `Run`, its function, `Start` and `shutdown`
are, `serve` where each server goroutine is, `dep` how far the client of each
dependency is: a constructor opens it (`Open`), pings it, and closes it again
when the ping fails. They may be called in any order. Both ready cases of the
select may be taken; `Shutdown` may come before `ListenAndServe`, and
`GracefulStop` before `Serve`.

**ConsumerManager.** The goroutine and the WaitGroup are the manager's
(`StartOne`, `Return`); whether and how a loop ends is a step of `Loop(c)`, an
instance of `ConsumerLoop`, which `Consumer` implements. A poll that returns records puts the consumer in `held`:
the client was made with `BlockRebalanceOnPoll` and nothing calls
`AllowRebalance`. Leaving the group in `Close` is a rebalance, so `CloseOne`
waits for a client that is held. That the library does so is modelled from its
documentation of these two options (external).

**KafkaClients.** A record is buffered, stored or failed (`fate`); `told` is what
`Log` or `Publish` returned, `topic` what the broker has, `reported` what the
callback or the error path logged. A failed record may be in the topic all the
same. `Log` on a closed client returns nil as well (`late`); the client then fails
the record. That the client's `Close` settles what is buffered, callbacks
included, before it returns is an assumption: `kafka_logger.go:75` says so, and
the code neither flushes nor waits itself.

**Process.** The function given to `Run` belongs to the application; the order is
that of the repository's quick start, with the `Close` calls deferred: consumers
before the Kafka clients. A consumer that panics, or a gRPC handler outside a
recovery interceptor, takes the process away.

**Pipeline.** A frame is a middleware or interceptor; `pos` is the frame in
control, `ctx` the context each frame was given, `mode` the way in, out, or a
panic that unwinds. `seen` is what each response wrapper has recorded:
`LoggerMiddleware`'s keeps the last status, the metrics' (chi's) passes on and
keeps the first. `wire` is what was sent, with the headers set by then. The
verdicts of the rate limit, the idempotency lock and the token are any: their
state is the subject of `RateLimit`, `Idempotency` and `JWKS`. The span a query
or command opens is `child`; `query` is the span of the context that
`TraceQueryEnd` will be given. `marked` is what the log handler does to the
request's span; otelchi's own status from the response is not in it.

## 4. Runs

Passing runs:

| Run | Instance | Shows |
|---|---|---|
| `consumer_safety` | 2 partitions, 2 records each, symmetric, 1 crash; both policies with and without dead-letter topic, endless retry | IInv, at-least-once, order, refinement of OffsetLog |
| `consumer_liveness` | 1 partition, 2 records, all policies, up to 5 attempts, 18 backoff settings, partial fetches | cancel stops the loop; a poison pill does not block; refinement of ConsumerLoop; the waits against their closed form |
| `process` | 1 consumer, 1 event, 1 message, 1 request per server, every choice of servers | IInv, drained on return, nil from Publish means stored, audit events settled at exit, Close of the manager waits for its goroutines, a process asked to end does |
| `pipeline` | 242 chains of up to 4 middlewares, 14 kinds of request | statuses counted and logged, panics contained, span, headers and ids, identity of the limit |
| `async` | 2 callers, 2 calls each, buffer of 1, both strategies | nothing lost, Close drains, drops accounted for, refinement of AuditTrail; Close and Log return |
| `idempotency` | 3 requests with one key, 1 without; expiry 3 | one grant per window; two handlers of one key overlap only past the expiry or when failing open |
| `rate_limit` | burst = 2 * rate, one HTTP and one gRPC key, a second route with half the burst set up before or after | the script is a leaky bucket; bounds; Retry-After; the fallback keeps the limit of the first call |
| `jwks` | 2 verifiers and the refresher; 3 versions, the second one empty | cache properties; who is refused, leading or joining; verifications return; the cache catches up |

The manager and the server lifecycle have no runs of their own: `process` runs
them together, where a server's failure, a signal and the closes meet.

Runs in which the code departs from one of its own statements (`findings` in
`PROJECT.json` has the quotes):

| Run | The statement | What happens |
|---|---|---|
| `consumer_partial_fetch` | commit after success, no data loss | records fetched next to a partition error are skipped and later committed |
| `idempotency_overrun` | requests with one key are not processed concurrently | a handler outlives its lock and a second request is let in |
| `pipeline_metrics` | metrics for every request | a panic passes the metrics frame, and the 500 of the recovery outside it is not counted |
| `rate_ttl` | GCRA | with burst > 2 * rate the TTL forgets a bucket that is not empty |

Other statements the models contradict, without a run of their own. The model's
actions show each of them:

- `manager.go:45`, "Closing the client triggers the loop in Start() to exit": a
  closed client's error is not context.Canceled, so the loop polls again
  (`PollError`) until the context is canceled; `ConsumerLoop` lets `Close` end
  nothing.
- `manager.go:41`, "Close gracefully stops all consumers": since closing a client
  does not end its loop, Close returns only after a cancellation, and when a
  server fails without a signal nothing cancels. A client that has polled records
  cannot be closed at all while nothing calls `AllowRebalance`. `EndsWhenAsked`
  has both as its exceptions (`StuckClose`).
- `README.md:150`, "the application panics instantly": a constructor returns an
  error, and `Run` exits with 1; `NewConsumer` does not ping.
- `recovery.go` answers 500 after the handler's own answer was sent: the client
  has the first, `LoggerMiddleware` logs the second (`LoggedAsSent` says when).
- `config/loader.go`, "Env Vars > YAML > Defaults": envconfig's `default` tag
  replaces a value from the file when the variable is unset. Not modelled.
- `consumer.go:193`, "STRICT: Die. Pod restart.": the manager logs the error of a
  strict consumer and goes on without it (`LoopFail`).
- `README.md:49`, "Guarantees *no-audit-loss*": a failed `Encode` is logged and
  the event is gone; `NothingLostInside` goes up to the encoder only.
- `async_writer.go:87`, "Rate-limited warning": `LoadLastLog` and `StoreLastLog`
  are two steps, so two callers may warn for the same minute.
- `idempotency.go:31`, "already in progress or was recently processed": after a
  lost reply a request may meet its own lock (`ConflictWithItself`).
- `ratelimit.go:64`, "Allow 2x normal traffic": the fallback's rate is per second
  whatever the period, hence `Period <= Second` in `FallbackBounded`.
- `jwks_client.go:229`, "not found in JWKS even after emergency refresh": a
  verifier that joined a refresh already in flight may be refused a key that was
  published before its call, hence `since` in `RejectsRightly`.
- `README.md:67`, "Context tracing is automatically injected into and extracted from
  Kafka Record Headers": `consumer.go:112` assigns the extracted context to `Start`'s
  own variable, so a record without trace headers gets an earlier record's. Not
  modelled.

**Bounds.** Every bound is a constant with the comment *bound*. After the one
crash of `consumer_safety` the new process resumes from its predecessor's
commits; panics come on top of it. A buffer of one with two callers meets full,
empty and blocked; three requests for a key are a holder, its retry and a retry
after the expiry, and the clock goes past two expiries; in `rate_limit` it goes
past the TTL of a full bucket.
One consumer, event, message and request per server are enough in `process` for
each pair of parts to meet; the theorems of `ProcessProofs` have any number, and
two consumers pass as well but take ten minutes. In `pipeline` every property relates
at most four kinds of frames, and each group of four is arranged in every order,
left out ones included.
`CHECK_DEADLOCK FALSE` is set because calls, crashes or time run out, or the
process has ended, in every instance but `pipeline`, where a request that
neither moves nor has ended would be a deadlock.

**Fairness.** Goroutines that can move are scheduled (weak fairness); handlers
and the Kafka client return and timers fire (`Consumer`); a blocked channel
sender is served first come first served by the Go runtime, hence strong
fairness of `LogStep` (`AsyncLogger`); the JWKS HTTP client has a timeout, so
each fetch ends, and `CacheCatchesUp` further supposes that a provider asked
again and again answers at last; records are acknowledged or given up (the
client's retry timeout) and the shutdown timeout fires (`Process`). No handler
has to end: `EndsWhenAsked` names what the process can wait for instead. Nothing
has to crash, cancel, close, call or signal. A deadline that passes need not end
a consumer loop (`StopOnExpiry` has no fairness in `ConsumerLoop`).

## 5. Proofs

Each proof module shows `Init => IInv` and `IInv /\ [Next]_vars => IInv'`, one
step per action, and derives the properties.

- **ConsumerProofs.** `AtLeastOnce` is not inductive: a commit covers all records
  before its own, so the invariant says that, while the context is live, all
  the iterator has passed is resolved (`BatchSettled`), that the record being
  attempted has only resolved ones before it (`AttemptSettled`), that a record
  at its commit is resolved (`CommitResolved`) and that late commits are harmless
  (`LateSettled`). After a cancellation the first may fail, which is safe
  because no commit succeeds then. `NoRecordLost`, `InOrder` and `Refinement`
  assume `~ErrorsCarryRecords`; `consumer_partial_fetch` shows the need. The
  others do not. `WaitsDouble` is `BackoffSchedule` for every configuration: the
  wait before attempt n + 1 follows from the one before attempt n (`Waits`), and
  the powers of two are characterised by tables (`Doubles`), whose existence for
  every n is shown with the least-number principle. `RetriesBounded` bounds the
  attempts on a record. `LifecycleRefined` is the safety part of
  `ImplementsConsumerLoop`. `RetriesProgress` and `CancelProgress` are the
  decreasing measures behind `PoisonPillDoesNotBlock` and `CancelStops`.
- **AsyncLoggerProofs.** `NothingLost`, `CloseDrainsAll`, `DropsAccounted`, and
  `Refinement` of AuditTrail. The invariant adds that a finished worker leaves
  nothing behind and that Close returns only after it. `NobodyStranded`: whoever
  waits in Log or Close waits for a worker that can go on. `DrainProgress`: after
  Close its work only shrinks, whoever still calls Log.
- **IdempotencyProofs.** `OneGrantPerWindow` without a condition;
  `OverlapBounded`: whatever handlers take, two of one key overlap only when the
  first to be granted got its lock at least `Expiry` ago, or failing open let one
  pass. The lock remembers the last grant or a later one (`LockRemembers`), and
  failing closed nobody is in the handler without one (`ClosedNeedsGrant`).
  `idempotency_overrun` shows that the exception happens.
- **RateLimitProofs.** Under `Burst <= 2 * Rate` the stored `tat` is the bucket
  and outlives it (`BucketIsTat`): `IsGCRA`, `Bounded`, `WaitingSuffices`;
  `rate_ttl` shows the need. `Bounded` is about what the script charges, not about
  requests that pass while Redis fails; `WaitingSuffices` needs a burst of at least
  one. `FallbackBoundedByFirstCall` bounds the fallback by the first call's
  arguments, for any routes set up at any time; it needs that the limiter stays the
  first call's (`LimiterIsFirst`) and that its tokens pay for what passed
  (`FallbackBudget`). `FallbackBounded`, the code's "2x normal traffic", assumes
  further that the first call was this route's and `Period <= Second`.
- **JWKSProofs.** One fetch in flight, and a response is not older than the cache
  (`FlightInv`): `NeverGoesBack`, `NeverEmpty`, `AcceptsCurrent`, `RefusesRightly`.
  `NobodyLeftWaiting`: who has joined a refresh has a leader that still fetches,
  so no wake-up is lost. `VerifyProgress`: a verification takes part in at most
  one refresh and only moves towards its end.
- **ProcessProofs.** For any finite set of consumers. The invariant of the servers
  (`ServerInv`) adds to the properties that start-up goes forward
  (`StartsInOrder`), that at most one error per finished goroutine is in errChan
  (`ErrRoom`, from which it follows that there is room for the next), and what
  `shutdown` has done at each point (`ShutInOrder`); that of the consumers
  (`ManagerInv`) that the WaitGroup's counter is the number of running
  goroutines; that of the records (`Fates`, `NothingAfterClose`) that after an
  orderly stop only a request past the timeout is left to log to the closed client,
  and that nothing handed over before is still buffered. From these: `Drained`,
  `NeverBlocked`, `PublishedStored`, `AuditSettled`, `ConsumersWaited`.
  `NobodyStranded` is the safety core of `EndsWhenAsked`: in a
  process that was asked to end, one of the goroutines fairness is about can go
  on, or the process waits for one of the three things `EndsWhenAsked` names. It
  needs that the manager is as far as main is (`Stages`) and that until `Start`
  leaves its select the failure of a server is in errChan or about to be sent
  (`FailureHeard`).
- **PipelineProofs.** For every set of chains, in any order and of any selection of
  the nine middlewares, and every set of requests. The only assumption about an
  application is that it mounts a middleware at most once (`IsChain`); with
  two metrics frames a request would be counted twice. The twenty-two actions are
  first reduced to nine kinds of steps (`StepKinds`): a frame enters, rejects,
  returns, is unwound or recovers; the handler works, panics or returns; the
  server ends the request. The invariant speaks of frames on the stack and frames
  that were left: what the context given to each holds (`Contexts`), that the
  metrics' wrapper knows the first status and the logger's the last (`Wrapped`),
  that a panic on its way has no recovery frame behind it (`Panics`), that the
  span is open while its frame is on the stack and no query holds it
  (`SpanOpen`), that a record's trace flag says where it was written (`Marks`),
  and what was logged and counted by the time a frame is left (`Logged`,
  `Counted`). `RequestsCountedAsSent` is about the requests that return to the
  metrics frame; `pipeline_metrics` shows that others exist. `Correlated` and `LimitedAsPrincipal` are parts of it, the other four
  properties follow when the request has ended.

The constants' assumptions are typing facts and the named bounds
(`ConsumerAssumption` and so on); no proof uses a small instance.

Most inductive invariants are invariants of the runs. The others were model-checked
on the instances of the runs before they were proved: `PipelineProofs!IInv` on that
of `pipeline`, `Waits` and `RetriesLeft` on that of `consumer_liveness`, `Stages` and
`FailureHeard` on that of `process`, and so were the measures and what the theorems
`NobodyStranded` and `NobodyLeftWaiting` state. For `process` TLC also showed that the
conditions in `NeverStranded` (`MainReady` and so on) imply that the actions they
stand for are enabled, which the prover cannot.

**Only model-checked:** liveness, since fairness and ENABLED are beyond the prover:
`CancelStops`, `PoisonPillDoesNotBlock`, `CloseTerminates`, `LogReturns`,
`VerifyReturns`, `CacheCatchesUp`, `EndsWhenAsked`, and the fairness that
`ImplementsConsumerLoop` adds to `LifecycleRefined`. For all but `CacheCatchesUp`,
which rests on a provider that answers at last, a theorem above gives a part of
the argument: that a measure shrinks, or that nobody waits for something that
cannot move. Every other property of a passing run is a theorem.

## 6. Hazards

`PROJECT.json` lists them at their lines, each with the properties that would
catch it going wrong, or a note on what of it falls outside them. Some are waits or
losses that are the code's own behaviour: they are the named exceptions of
`EndsWhenAsked` and `AuditSettledAtExit`, which say that there are no others.

## 7. Not modelled

- Consumer groups with several members: a rebalance that takes partitions away
  in mid-batch. The repository has no code for it (no callbacks, no
  `AllowRebalance`); what the library does then is not this code's.
- Several routes with different limits that charge one Redis key (`rl:` and the
  caller, without the route); `getRealIP`.
- The span of a consumed record and the trace headers; the age of the key cache
  (`maxStaleDuration`), which only a warning depends on.
- Pure functions whose content is a library's: `toRSAPublicKey`, the checks on a
  token's times, the redactor's list of keys, the precedence of configuration
  sources, bcrypt. There is no state or order in them for a model to explore.
- The pipeline hook of the Redis client, the session id in the context, the path
  label of the metrics, response metadata: data that no property tells apart.
- Construction options of the clients, formatting of logs and responses: I/O.
