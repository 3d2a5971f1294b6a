------------------------------ MODULE Pipeline ------------------------------
(***************************************************************************)
(* One request through a chain of the middlewares and interceptors of      *)
(* server/middleware, in any order, around a handler that queries the      *)
(* database, answers, panics or just returns.  Each middleware is a frame: *)
(* it calls inward with a context of its own, and is returned to or        *)
(* unwound by a panic.  Contexts hold what contextx, the tracer and the    *)
(* authenticator put there; log records go through telemetry.OTelHandler.  *)
(* net/http, grpc-go, chi's response wrapper and otelchi are modelled from *)
(* how the middlewares rely on them.                                       *)
(***************************************************************************)
EXTENDS Integers, Sequences

CONSTANTS Chains,       \* sequences of middlewares, outermost first
          Requests      \* records [proto, path, token, traceID, requestID, key]

VARIABLES
    chain, req,
    pos,        \* the frame in control: 0 is the server, Len(chain) + 1 the handler
    mode,       \* "in", "out" or "panic" on the way, then "done", "aborted" or "crashed"
    ctx,        \* the contexts of the frames entered so far
    header,     \* response headers set so far
    wire,       \* the response, once its header is written
    seen,       \* per frame: the status its response wrapper has recorded
    span,       \* the request's span: "none", "recording" or "ended"
    marked,     \* "yes" once a log record has given the span the status Error
    query,      \* the span a running query will end, or "idle"
    child,      \* the span of the last query or command: "none", "open", "ok", "error"
    result,     \* what the handler's query returned
    logs,       \* log records [by, level, status, traced]
    counted,    \* statuses counted in http_requests_total
    limited,    \* the identity the rate limit was applied to
    panicked    \* "no", or whether the response was "unsent" or "sent" at the panic

output == <<header, wire, seen>>
spans == <<span, query, child>>
observed == <<logs, marked>>
rest == <<result, counted, limited, panicked>>
vars == <<chain, req, pos, mode, ctx, output, spans, observed, rest>>

Unset == "unset"        \* a key a context does not hold
Empty == "empty"        \* the empty string

Middlewares == {"recovery", "logger", "metrics", "security", "otel", "trace", "auth",
                "ratelimit", "idempotency"}
RequestType == [proto : {"http", "grpc"}, path : {"health", "ready", "api"},
                token : {Empty, "malformed", "invalid", "no_subject", "subject"},
                traceID : STRING, requestID : STRING, key : STRING]

\* An application mounts a middleware at most once.
IsChain(c) == c \in Seq(Middlewares) /\ \A i, j \in DOMAIN c : c[i] = c[j] => i = j
IsRequest(r) == r \in RequestType /\ r.requestID # Unset
ASSUME PipelineAssumption == (\A c \in Chains : IsChain(c)) /\ (\A r \in Requests : IsRequest(r))

Nothing == [status |-> "none", header |-> {}, id |-> Unset]
Handler == Len(chain) + 1
Positions(m) == {i \in DOMAIN chain : chain[i] = m}
http == req.proto = "http"

Init ==
    /\ chain \in Chains /\ req \in Requests
    /\ req.proto = "grpc" =>
           \A i \in DOMAIN chain :
               \/ chain[i] \in {"recovery", "trace", "auth", "ratelimit"}
               \/ i = 1 /\ chain[i] = "otel"      \* a stats handler, outside the interceptors
    /\ pos = 1 /\ mode = "in"
    /\ ctx = << [span |-> Unset, trace |-> Unset, request |-> Unset,
                 principal |-> Unset, entry |-> Unset] >>
    /\ header = {} /\ wire = Nothing
    /\ seen = [i \in DOMAIN chain |-> IF chain[i] = "logger" THEN "200" ELSE "0"]
    /\ span = "none" /\ marked = "no" /\ query = "idle" /\ child = "none"
    /\ result = "nil" /\ logs = {} /\ counted = <<>>
    /\ limited = Unset /\ panicked = "no"

-----------------------------------------------------------------------------
(* contextx, telemetry and response *)

With(c, key, v) == [c EXCEPT ![key] = v]
getString(c, key, fallback) == IF c[key] = Unset THEN fallback ELSE c[key]
GetRequestID(c) == getString(c, "request", Empty)
Background == With(ctx[1], "span", Unset)

Recording(c) == c.span = "request" /\ span = "recording"

\* OTelHandler.Handle: the trace id is added and an ERROR marks the span while it records.
Handle(by, level, status, c) ==
    /\ logs' = logs \cup {[by |-> by, level |-> level, status |-> status, traced |-> Recording(c)]}
    /\ marked' = IF level = "ERROR" /\ Recording(c) THEN "yes" ELSE marked

\* Mutant: the metrics use the logger's wrapper.
HearsAll(j, i) == j < i
\* WriteHeader called in frame i comes through the wrapper of frame j: chi's passes on
\* only the first, the logger's passes on all.
Hears(j, i) == j < i /\ \A k \in j .. i - 1 : chain[k] = "metrics" => seen[k] = "0"

\* Frame i answers: the first header written is the response's.
Answer(i, status, id) ==
    /\ seen' = [j \in DOMAIN seen |->
                   IF chain[j] \in {"metrics", "logger"} /\ Hears(j, i) THEN status ELSE seen[j]]
    /\ wire' = IF wire = Nothing THEN [status |-> status, header |-> header', id |-> id] ELSE wire

\* A gRPC interceptor returns an error, which the outer ones pass on.
Reply(i, http_, grpc_) == Answer(i, IF http THEN http_ ELSE grpc_, Unset)

\* Frame i writes ErrorJSON: the request id comes from its own context.
ErrorJSON(i, status) == Answer(i, status, GetRequestID(ctx[i]))

MapError(e) ==
    CASE e = "nil" -> "nil"
      [] e = "no_rows" -> "RES_NOT_FOUND"
      [] e = "23505" -> "RES_ALREADY_EXISTS"
      [] e = "23503" -> "RES_CONFLICT"
      [] e = "23514" -> "VAL_INVALID_INPUT"
      [] e = "40001" -> "RES_VERSION_MISMATCH"
      [] e = "57014" -> "SYS_GATEWAY_TIMEOUT"
      [] OTHER -> "SYS_INTERNAL_ERROR"

MapStatus(code) ==
    CASE code \in {"SYS_BAD_REQUEST", "VAL_INVALID_INPUT", "VAL_MISSING_FIELD", "VAL_INVALID_FORMAT"} -> "400"
      [] code \in {"AUTH_MISSING_TOKEN", "AUTH_INVALID_TOKEN"} -> "401"
      [] code \in {"AUTH_FORBIDDEN", "AUTH_ACCOUNT_LOCKED"} -> "403"
      [] code = "RES_NOT_FOUND" -> "404"
      [] code \in {"RES_ALREADY_EXISTS", "RES_CONFLICT", "RES_VERSION_MISMATCH"} -> "409"
      [] code = "BIZ_RATE_LIMIT_EXCEEDED" -> "429"
      [] code = "BIZ_RULE_VIOLATION" -> "422"
      [] code \in {"SYS_SERVICE_UNAVAILABLE", "SYS_GATEWAY_TIMEOUT"} -> "503"
      [] OTHER -> "500"

-----------------------------------------------------------------------------
(* The way in *)

At(m) == mode = "in" /\ pos < Handler /\ chain[pos] = m
Fixed == UNCHANGED <<chain, req>>

Inward(c) == Fixed /\ pos' = pos + 1 /\ ctx' = Append(ctx, c) /\ UNCHANGED mode
Outward == Fixed /\ pos' = pos - 1 /\ mode' = "out" /\ UNCHANGED ctx

EnterWrapper ==
    /\ \E m \in {"recovery", "logger", "metrics"} : At(m)
    /\ Inward(ctx[pos])
    /\ UNCHANGED <<output, spans, observed, rest>>

SecurityHeaders ==
    /\ At("security")
    /\ header' = header \cup {"security"}
    /\ Inward(ctx[pos])
    /\ UNCHANGED <<wire, seen, spans, observed, rest>>

OTelMiddleware ==
    /\ At("otel")
    /\ span' = "recording"
    /\ Inward(With(ctx[pos], "span", "request"))
    /\ UNCHANGED <<query, child, output, observed, rest>>

\* The trace id: the span's, over HTTP the header's, or a new one.
TraceID(c) ==
    IF c.span # Unset THEN "span"
    ELSE IF http /\ req.traceID # Empty THEN req.traceID ELSE "new"
RequestID == IF req.requestID # Empty THEN req.requestID ELSE "new"

\* Mutant: the ids are put in the headers of the response but not in the context.
TraceKeepsContext ==
    /\ At("trace")
    /\ header' = header \cup {"ids"}
    /\ Inward(ctx[pos])
    /\ UNCHANGED <<wire, seen, spans, observed, rest>>
TraceIDMiddleware ==
    /\ At("trace")
    /\ header' = IF http THEN header \cup {"ids"} ELSE header
    /\ Inward(With(With(ctx[pos], "trace", TraceID(ctx[pos])), "request", RequestID))
    /\ UNCHANGED <<wire, seen, spans, observed, rest>>

Reject(http_, grpc_, h) ==
    /\ header' = header \cup h
    /\ Reply(pos, http_, grpc_)
    /\ Outward

\* JWTStrategy.Authenticate: a token without a subject leaves the principal unset.
Authenticate(c) ==
    IF req.token = "subject" THEN With(c, "principal", "user") ELSE c

\* Mutant: the request goes on with the context it came with.
AuthDropsContext ==
    /\ At("auth")
    /\ \/ /\ req.token \in {"subject", "no_subject"}
          /\ Inward(ctx[pos])
          /\ UNCHANGED <<output, observed>>
       \/ /\ req.token \notin {"subject", "no_subject"}
          /\ Reject("401", "Unauthenticated", {})
          /\ UNCHANGED observed
    /\ UNCHANGED <<spans, rest>>
AuthMiddleware ==
    LET c == With(ctx[pos], "entry", req.proto) IN
    /\ At("auth")
    /\ \/ /\ req.token \in {"subject", "no_subject"}
          /\ Inward(Authenticate(c))
          /\ UNCHANGED <<output, observed>>
       \/ /\ req.token \in {Empty, "malformed"}
          /\ Reject("401", "Unauthenticated", {})
          /\ UNCHANGED observed
       \/ /\ req.token = "invalid"
          /\ Handle("auth", "WARN", Empty, c)
          /\ Reject("401", "Unauthenticated", {})
    /\ UNCHANGED <<spans, rest>>

\* A Redis command under the tracing hooks: a span of its own while the request's
\* records; redis.Nil is no error.
Command(outcome) ==
    child' = IF ~Recording(ctx[pos]) THEN child ELSE IF outcome = "error" THEN "error" ELSE "ok"

\* The limiter's verdict is RateLimit's subject; here each one may come.
RateLimitMiddleware ==
    /\ At("ratelimit")
    /\ \/ /\ Inward(ctx[pos]) /\ UNCHANGED <<output, limited, child>>   \* rate 0
       \/ /\ limited' = getString(ctx[pos], "principal", "ip")
          /\ \/ /\ Command("ok") /\ Inward(ctx[pos])
                /\ header' = IF http THEN header \cup {"limit"} ELSE header
                /\ UNCHANGED <<wire, seen>>
             \/ Command("ok") /\ Reject("429", "ResourceExhausted", {"retry", "limit"})
             \/ Command("error") /\ Inward(ctx[pos]) /\ UNCHANGED output
             \/ http /\ Command("error") /\ Reject("503", Empty, {"fallback"})
    /\ UNCHANGED <<span, query, observed, result, counted, panicked>>

\* So is the key's state Idempotency's.  Its records carry no context.
IdempotencyMiddleware ==
    /\ At("idempotency")
    /\ \/ req.key = Empty /\ Inward(ctx[pos]) /\ UNCHANGED <<output, child, observed>>
       \/ /\ req.key # Empty
          /\ \/ Command("ok") /\ Inward(ctx[pos]) /\ UNCHANGED <<output, observed>>
             \/ /\ Command("ok") /\ Handle("idempotency", "WARN", Empty, Background)
                /\ Reject("409", Empty, {"retry"})
             \/ /\ Command("error") /\ Handle("idempotency", "ERROR", Empty, Background)
                /\ \/ Inward(ctx[pos]) /\ UNCHANGED output
                   \/ Reject("503", Empty, {})
    /\ UNCHANGED <<span, query, rest>>

-----------------------------------------------------------------------------
(* The handler *)

InHandler == mode = "in" /\ pos = Handler /\ UNCHANGED <<chain, req, ctx>>

\* Mutant: no span is started and the request's is handed to TraceQueryEnd.
TraceQueryStartNone ==
    /\ InHandler /\ query = "idle" /\ req.path = "api"
    /\ query' = ctx[pos].span
    /\ UNCHANGED <<pos, mode, output, span, child, observed, rest>>
TraceQueryStart ==
    /\ InHandler /\ query = "idle" /\ req.path = "api"
    /\ IF Recording(ctx[pos])
       THEN query' = "query" /\ child' = "open"
       ELSE query' = ctx[pos].span /\ UNCHANGED child
    /\ UNCHANGED <<pos, mode, output, span, observed, rest>>

\* The span of the context given back by TraceQueryStart is ended if it records.
TraceQueryEnd(e) ==
    /\ InHandler /\ query # "idle"
    /\ query' = "idle" /\ result' = MapError(e)
    /\ child' = IF query # "query" THEN child ELSE IF e = "nil" THEN "ok" ELSE "error"
    /\ span' = IF query = "request" /\ span = "recording" THEN "ended" ELSE span
    /\ UNCHANGED <<pos, mode, output, observed, counted, limited, panicked>>

\* response.JSON or ErrorJSON; writing the body may fail, which is logged.
Respond ==
    /\ InHandler /\ http /\ req.path = "api" /\ query = "idle" /\ wire = Nothing
    /\ UNCHANGED header
    /\ IF result = "nil" THEN Answer(pos, "200", Unset) ELSE ErrorJSON(pos, MapStatus(result))
    /\ UNCHANGED observed \/ Handle("response", "ERROR", Empty, ctx[pos])
    /\ UNCHANGED <<pos, mode, spans, rest>>

HandleHealth ==
    /\ InHandler /\ http /\ req.path = "health" /\ wire = Nothing
    /\ UNCHANGED header
    /\ Answer(pos, "200", Unset)
    /\ UNCHANGED <<pos, mode, spans, observed, rest>>

\* HandleReadiness: a database that does not answer within a second is down; a failure
\* to write the body is logged as well.
HandleReadiness ==
    /\ InHandler /\ http /\ req.path = "ready" /\ wire = Nothing
    /\ UNCHANGED header
    /\ \/ Answer(pos, "200", Unset) /\ UNCHANGED observed
       \/ /\ \E status \in {"200", "503"} : Answer(pos, status, Unset)
          /\ Handle("health", "ERROR", Empty, Background)
    /\ UNCHANGED <<pos, mode, spans, rest>>

HandlerPanics ==
    /\ InHandler /\ req.path = "api"
    /\ mode' = "panic" /\ pos' = pos - 1
    /\ panicked' = IF wire = Nothing THEN "unsent" ELSE "sent"
    /\ UNCHANGED <<output, spans, observed, result, counted, limited>>

\* A gRPC handler returns nil or a status; an HTTP handler may have written nothing.
HandlerReturns ==
    /\ InHandler /\ query = "idle" /\ (req.path = "api" \/ wire # Nothing)
    /\ mode' = "out" /\ pos' = pos - 1
    /\ UNCHANGED header
    /\ \/ UNCHANGED <<wire, seen>>
       \/ ~http /\ result # "nil" /\ Answer(pos, "Unknown", Unset)
    /\ UNCHANGED <<spans, observed, rest>>

-----------------------------------------------------------------------------
(* The way out *)

Back(m) == mode = "out" /\ pos > 0 /\ chain[pos] = m /\ Outward
Unwind == mode = "panic" /\ pos > 0 /\ Fixed /\ pos' = pos - 1 /\ UNCHANGED <<mode, ctx>>

\* Mutant: the status is taken before the call.
LogRequestEarly ==
    /\ Back("logger")
    /\ Handle("logger", "INFO", "200", ctx[pos])
    /\ UNCHANGED <<output, spans, rest>>
LogRequest ==
    /\ Back("logger")
    /\ Handle("logger", "INFO", seen[pos], ctx[pos])
    /\ UNCHANGED <<output, spans, rest>>

CountRequest ==
    /\ Back("metrics")
    /\ counted' = Append(counted, seen[pos])
    /\ UNCHANGED <<output, spans, observed, result, limited, panicked>>

\* The span's End is deferred; what the other frames do after the call is not.
EndSpan ==
    /\ Back("otel") \/ (Unwind /\ chain[pos] = "otel")
    /\ span' = "ended"
    /\ UNCHANGED <<output, query, child, observed, rest>>

ReturnThrough ==
    /\ \E m \in {"recovery", "security", "trace", "auth", "ratelimit", "idempotency"} : Back(m)
    /\ UNCHANGED <<output, spans, observed, rest>>

UnwindThrough ==
    /\ Unwind /\ chain[pos] \notin {"recovery", "otel"}
    /\ UNCHANGED <<output, spans, observed, rest>>

\* Mutant: the panic is logged and raised again.
GRPCRecoveryRepanics ==
    /\ ~http /\ Unwind /\ chain[pos] = "recovery"
    /\ Handle("recovery", "ERROR", Empty, ctx[pos])
    /\ UNCHANGED <<output, spans, rest>>

\* recover() in the deferred function, and the log record.
Caught ==
    /\ mode = "panic" /\ pos > 0 /\ chain[pos] = "recovery"
    /\ Handle("recovery", "ERROR", Empty, ctx[pos])
    /\ UNCHANGED <<header, spans, rest>>

PanicRecovery == http /\ Caught /\ ErrorJSON(pos, "500") /\ Outward
GRPCRecoveryInterceptor == ~http /\ Caught /\ Answer(pos, "Internal", Unset) /\ Outward

\* The server: an unwritten response is 200 or OK; net/http drops the connection of a
\* handler that panicked, grpc-go lets the process die.
ServerEnds ==
    /\ pos = 0 /\ mode \in {"out", "panic"}
    /\ mode' = IF mode = "out" THEN "done" ELSE IF http THEN "aborted" ELSE "crashed"
    /\ wire' = IF mode = "out" /\ wire = Nothing
               THEN [status |-> IF http THEN "200" ELSE "OK", header |-> header, id |-> Unset]
               ELSE wire
    /\ Fixed /\ UNCHANGED <<pos, ctx, header, seen, spans, observed, rest>>

Ended == mode \in {"done", "aborted", "crashed"}

Next ==
    \/ EnterWrapper \/ SecurityHeaders \/ OTelMiddleware \/ TraceIDMiddleware
    \/ AuthMiddleware \/ RateLimitMiddleware \/ IdempotencyMiddleware
    \/ TraceQueryStart \/ Respond \/ HandleHealth \/ HandleReadiness
    \/ HandlerPanics \/ HandlerReturns
    \/ \E e \in {"nil", "no_rows", "23505", "57014", "other"} : TraceQueryEnd(e)
    \/ LogRequest \/ CountRequest \/ EndSpan \/ ReturnThrough \/ UnwindThrough
    \/ PanicRecovery \/ GRPCRecoveryInterceptor \/ ServerEnds
    \/ Ended /\ UNCHANGED vars

Spec == Init /\ [][Next]_vars

-----------------------------------------------------------------------------
(* Properties *)

Entered(i) == Len(ctx) > i
RecoveredInside(i) == \E j \in Positions("recovery") : j > i /\ Entered(j)

\* MetricsMiddleware (metrics.go:40-57) counts each request that returns to it, whether
\* from the handler, from a frame that refused it or from a recovery inside it, exactly
\* once, with the status that was sent, 0 when nothing was written.
CountedAsSent ==
    mode = "done" => \A i \in Positions("metrics") :
        Entered(i) /\ (panicked = "no" \/ RecoveredInside(i)) =>
            counted = <<wire.status>> \/ (counted = <<"0">> /\ wire.status = "200")

\* "records RED metrics (Rate, Errors, Duration) for every request" (metrics.go:33).
\* The recording follows next.ServeHTTP without a defer: a panic that is recovered
\* outside MetricsMiddleware is answered and passes it uncounted.
EveryRequestCounted ==
    mode = "done" => \A i \in Positions("metrics") : Entered(i) => Len(counted) = 1

\* The status LoggerMiddleware logs (base.go:27) is the one that was sent, unless a
\* handler panicked after it had answered: then PanicRecovery's 500 is logged.
LoggedAsSent ==
    mode = "done" => \A r \in logs : r.by = "logger" =>
        r.status = wire.status \/ (panicked = "sent" /\ r.status = "500")

\* "ensures the process does not exit on handler panics" (grpc_recovery.go:15): behind
\* a recovery frame every panic becomes a response, an internal error unless the
\* handler had answered, and is logged as an ERROR.
PanicContained ==
    Positions("recovery") # {} =>
        /\ mode \notin {"aborted", "crashed"}
        /\ mode = "done" /\ panicked = "unsent" => wire.status \in {"500", "Internal"}
        /\ mode = "done" => ((panicked # "no") <=> \E r \in logs : r.by = "recovery")

\* The request's span is open exactly from its frame's entry to its exit: no query or
\* command ends it (postgres.go:90, redis.go:54) and no panic leaves it open.  The logs
\* set its status to Error exactly when an ERROR was logged in it (otel_handler.go:85),
\* which a panic recovered inside it always is.
SpanFaithful ==
    /\ \A i \in Positions("otel") :
           (span = "recording") <=> Entered(i) /\ (mode = "in" \/ (~Ended /\ pos >= i))
    /\ (marked = "yes") <=> \E r \in logs : r.level = "ERROR" /\ r.traced
    /\ \A r \in logs : r.by = "recovery" =>
           (r.traced <=> \E i \in Positions("otel"), j \in Positions("recovery") : i < j)

\* Whoever writes the answer, its headers have what the frames on the way in put there
\* (base.go:13, trace.go:43); an error body has the same request id, or none if its
\* writer is outside the trace frame.
Correlated ==
    http /\ wire # Nothing =>
        /\ \A i \in Positions("security") : Entered(i) => "security" \in wire.header
        /\ \A i \in Positions("trace") : Entered(i) =>
               /\ "ids" \in wire.header
               /\ wire.id \in {Unset, Empty, RequestID}
               /\ wire.id = Empty => \E j \in Positions("recovery") : j < i

\* A caller the authenticator knows is limited as that caller, wherever the limit
\* stands inside it (ratelimit.go:80).
LimitedAsPrincipal ==
    \A i \in Positions("auth"), j \in Positions("ratelimit") :
        i < j /\ req.token = "subject" => limited \in {Unset, "user"}
=============================================================================
