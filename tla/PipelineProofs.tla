--------------------------- MODULE PipelineProofs ---------------------------
(***************************************************************************)
(* Proofs about Pipeline, for a chain of any length and in any order and   *)
(* for every request.  The inductive invariant follows the frames on the   *)
(* stack: what each one was given, what its response wrapper has heard,    *)
(* and what those that were left have recorded.                            *)
(***************************************************************************)
EXTENDS Pipeline, TLAPS

Values == {Unset, "request", "user", "http", "grpc", "span", "new"}
          \cup UNION {{r.traceID, r.requestID} : r \in Requests}
Context == [span : Values, trace : Values, request : Values, principal : Values,
            entry : Values]

TypeOK ==
    /\ IsChain(chain) /\ req \in Requests
    /\ pos \in 0 .. Handler
    /\ mode \in {"in", "out", "panic", "done", "aborted", "crashed"}
    /\ ctx \in Seq(Context)
    /\ DOMAIN seen = DOMAIN chain
    /\ wire # Nothing => wire.status \notin {"none", "0"}
    /\ panicked \in {"no", "unsent", "sent"}

\* On the way in the frame in control is the last one entered.  Only the handler panics,
\* and by then every frame has been entered.
Shape ==
    /\ Len(ctx) \in 1 .. Handler
    /\ IF mode = "in" THEN pos = Len(ctx) /\ panicked = "no" ELSE pos < Len(ctx)
    /\ Ended => pos = 0
    /\ mode \in {"panic", "aborted", "crashed"} => panicked # "no"
    /\ panicked # "no" => Len(ctx) = Handler
    /\ \A i \in DOMAIN chain : chain[i] \in {"logger", "metrics"} => http

\* A frame's context holds what the frames outside it have put there.
Contexts ==
    \A j \in 1 .. Len(ctx) :
        /\ ctx[j].span = IF \E i \in Positions("otel") : i < j THEN "request" ELSE Unset
        /\ ctx[j].request = IF \E i \in Positions("trace") : i < j THEN RequestID ELSE Unset
        /\ req.token = "subject" /\ (\E i \in Positions("auth") : i < j) =>
               ctx[j].principal = "user"

\* Frames that are on the stack, and those that were and are no more.
OnStack(i) == Entered(i) /\ (mode = "in" \/ pos >= i)
Left(i) == Entered(i) /\ mode # "in" /\ pos < i

\* A frame that rejects the request is the last one entered.
Unsent == mode = "in" /\ pos < Handler => wire = Nothing

\* The metrics' wrapper knows the first status written, the logger's the last.
Wrapped ==
    \A i \in DOMAIN chain :
        /\ chain[i] = "metrics" =>
               /\ ~Entered(i) => seen[i] = "0"
               /\ OnStack(i) => seen[i] = IF wire = Nothing THEN "0" ELSE wire.status
        /\ chain[i] = "logger" =>
               /\ ~Entered(i) => seen[i] = "200"
               /\ OnStack(i) =>
                      IF wire = Nothing THEN seen[i] = "200"
                      ELSE seen[i] = wire.status \/ (panicked = "sent" /\ seen[i] = "500")

\* A panic has not passed a recovery frame; a request that goes out after a panic has.
Panics ==
    /\ mode = "panic" =>
           /\ \A k \in Positions("recovery") : k <= pos
           /\ (panicked = "unsent") <=> (wire = Nothing)
    /\ mode \in {"aborted", "crashed"} => Positions("recovery") = {}
    /\ mode \in {"out", "done"} /\ panicked # "no" => \E k \in Positions("recovery") : k > pos
    /\ mode \in {"out", "done"} /\ panicked = "unsent" => wire.status \in {"500", "Internal"}
    /\ (mode \in {"out", "done"} /\ panicked # "no") <=> \E r \in logs : r.by = "recovery"

\* The request's span is open while its frame is on the stack, and no query holds it.
SpanOpen ==
    /\ \A i \in Positions("otel") : (span = "recording") <=> OnStack(i)
    /\ query # "request"

Marks ==
    /\ marked \in {"yes", "no"}
    /\ (marked = "yes") <=> \E r \in logs : r.level = "ERROR" /\ r.traced
    /\ \A r \in logs : r.by = "recovery" =>
           (r.traced <=> \E i \in Positions("otel"), j \in Positions("recovery") : i < j)

\* Headers set on the way in stay set.
HeadersSet ==
    /\ \A i \in Positions("security") : Entered(i) => "security" \in header
    /\ http => \A i \in Positions("trace") : Entered(i) => "ids" \in header

\* What was logged was the status sent so far.
Logged ==
    \A r \in logs : r.by = "logger" =>
        /\ mode \in {"out", "done"} /\ http
        /\ \/ wire # Nothing /\ r.status = wire.status
           \/ panicked = "sent" /\ r.status = "500"
           \/ mode = "out" /\ wire = Nothing /\ r.status = "200"

\* The metrics' frame counts when it is left, unless a panic passes it.
Counted ==
    \A i \in Positions("metrics") :
        IF Left(i) /\ ~(panicked # "no" /\ ~RecoveredInside(i))
        THEN /\ mode \in {"out", "done"}
             /\ \/ wire # Nothing /\ counted = <<wire.status>>
                \/ /\ counted = <<"0">>
                   /\ wire = Nothing \/ (mode = "done" /\ wire.status = "200")
        ELSE counted = <<>>

IInv ==
    /\ TypeOK /\ Shape /\ Contexts /\ Unsent /\ Wrapped /\ Panics
    /\ SpanOpen /\ Marks /\ HeadersSet /\ Correlated /\ Logged /\ Counted
    /\ LimitedAsPrincipal /\ (mode = "done" => wire # Nothing)

-----------------------------------------------------------------------------
(* Chains and contexts *)

\* A chain as the provers see it.
LEMMA ChainFacts ==
  ASSUME TypeOK
  PROVE  /\ Len(chain) \in Nat /\ DOMAIN chain = 1 .. Len(chain) /\ Handler \in Nat
         /\ \A i \in 1 .. Len(chain) : chain[i] \in Middlewares
         /\ \A i, j \in 1 .. Len(chain) : chain[i] = chain[j] => i = j
  BY DEF TypeOK, IsChain, Handler

\* A frame's position, from its name.
LEMMA PositionFacts ==
  ASSUME TypeOK, NEW m
  PROVE  Positions(m) = {i \in 1 .. Len(chain) : chain[i] = m}
  BY ChainFacts DEF Positions

\* Going inward appends a context and leaves the others alone.
LEMMA InwardFacts ==
  ASSUME TypeOK, NEW c \in Context, Inward(c)
  PROVE  /\ chain' = chain /\ req' = req /\ mode' = mode /\ pos' = pos + 1
         /\ ctx' \in Seq(Context) /\ Len(ctx') = Len(ctx) + 1 /\ Len(ctx) \in Nat
         /\ ctx'[Len(ctx) + 1] = c
         /\ \A j \in 1 .. Len(ctx) : ctx'[j] = ctx[j]
  BY DEF TypeOK, Inward, Fixed

\* What the frames put into a context, and what they leave as it was.
LEMMA WithFacts ==
  ASSUME NEW c \in Context, NEW v \in Values
  PROVE  /\ With(c, "span", v) \in Context /\ With(c, "trace", v) \in Context
         /\ With(c, "request", v) \in Context /\ With(c, "principal", v) \in Context
         /\ With(c, "entry", v) \in Context
         /\ With(c, "span", v).span = v /\ With(c, "span", v).request = c.request
         /\ With(c, "span", v).principal = c.principal
         /\ With(c, "trace", v).span = c.span /\ With(c, "trace", v).principal = c.principal
         /\ With(c, "request", v).request = v /\ With(c, "request", v).span = c.span
         /\ With(c, "request", v).principal = c.principal
         /\ With(c, "principal", v).principal = v /\ With(c, "principal", v).span = c.span
         /\ With(c, "principal", v).request = c.request
         /\ With(c, "entry", v).span = c.span /\ With(c, "entry", v).request = c.request
         /\ With(c, "entry", v).principal = c.principal
  BY DEF With, Context

\* The ids of a request; its request id is set.
LEMMA IDs ==
  ASSUME TypeOK, NEW c
  PROVE  /\ RequestID \in Values /\ RequestID \notin {Unset, Empty}
         /\ TraceID(c) \in Values
<1>1. req \in Requests /\ req.requestID # Unset
  BY PipelineAssumption DEF TypeOK, IsRequest
<1> QED
  BY <1>1 DEF RequestID, TraceID, Unset, Empty, Values

-----------------------------------------------------------------------------
(* The kinds of steps *)

\* A record that is neither the logger's nor a recovery's.
OtherRecord ==
    \/ UNCHANGED observed
    \/ \E by \in {"auth", "idempotency", "response", "health"} : \E level, status, c :
           Handle(by, level, status, c)

Limits == chain[pos] = "ratelimit" /\ limited' = getString(ctx[pos], "principal", "ip")

\* A frame passes the request on with the context c.
Enters(c) ==
    /\ mode = "in" /\ pos < Handler /\ Inward(c)
    /\ c \in Context
    /\ c.span = IF chain[pos] = "otel" THEN "request" ELSE ctx[pos].span
    /\ c.request = IF chain[pos] = "trace" THEN RequestID ELSE ctx[pos].request
    /\ c.principal = IF chain[pos] = "auth" /\ req.token = "subject" THEN "user"
                     ELSE ctx[pos].principal
    /\ header \subseteq header'
    /\ chain[pos] = "security" => "security" \in header'
    /\ chain[pos] = "trace" /\ http => "ids" \in header'
    /\ span' = IF chain[pos] = "otel" THEN "recording" ELSE span
    /\ OtherRecord /\ (UNCHANGED limited \/ Limits)
    /\ UNCHANGED <<wire, seen, query, counted, panicked>>

\* A frame answers in place of the handler.
Rejects(status) ==
    /\ mode = "in" /\ pos < Handler /\ Outward
    /\ status \notin {"none", "0"} /\ Answer(pos, status, Unset)
    /\ header \subseteq header'
    /\ OtherRecord /\ (UNCHANGED limited \/ Limits)
    /\ UNCHANGED <<span, query, counted, panicked>>

\* The handler works, and may answer.
Handles ==
    /\ InHandler
    /\ \/ UNCHANGED <<wire, seen>>
       \/ \E status, id : /\ wire = Nothing /\ status \notin {"none", "0"}
                          /\ id \in {Unset, GetRequestID(ctx[pos])}
                          /\ Answer(pos, status, id)
    /\ query' # "request" /\ OtherRecord
    /\ UNCHANGED <<pos, mode, header, span, counted, limited, panicked>>

\* A frame returns.
Returns ==
    /\ mode = "out" /\ pos > 0 /\ Outward
    /\ span' = IF chain[pos] = "otel" THEN "ended" ELSE span
    /\ counted' = IF chain[pos] = "metrics" THEN Append(counted, seen[pos]) ELSE counted
    /\ IF chain[pos] = "logger" THEN Handle("logger", "INFO", seen[pos], ctx[pos])
       ELSE UNCHANGED observed
    /\ UNCHANGED <<output, query, limited, panicked>>

\* A panic passes a frame.
Unwinds ==
    /\ Unwind /\ chain[pos] # "recovery"
    /\ span' = IF chain[pos] = "otel" THEN "ended" ELSE span
    /\ UNCHANGED <<output, query, observed, counted, limited, panicked>>

\* A panic is recovered.
Recovers ==
    /\ mode = "panic" /\ pos > 0 /\ chain[pos] = "recovery"
    /\ Handle("recovery", "ERROR", Empty, ctx[pos])
    /\ UNCHANGED header
    /\ IF http THEN ErrorJSON(pos, "500") ELSE Answer(pos, "Internal", Unset)
    /\ Outward
    /\ UNCHANGED <<spans, rest>>

\* The ways into the handler.
LEMMA EntersOrRejects ==
  ASSUME TypeOK, Shape,
         EnterWrapper \/ SecurityHeaders \/ OTelMiddleware \/ TraceIDMiddleware
         \/ AuthMiddleware \/ RateLimitMiddleware \/ IdempotencyMiddleware
  PROVE  (\E c : Enters(c)) \/ (\E status : Rejects(status))
<1> USE DEF output, spans, observed, rest, At
<1>0. ctx[pos] \in Context /\ pos \in 1 .. Len(chain) /\ chain[pos] \in Middlewares
  BY ChainFacts DEF TypeOK, Shape, Handler, EnterWrapper, SecurityHeaders, OTelMiddleware,
     TraceIDMiddleware, AuthMiddleware, RateLimitMiddleware, IdempotencyMiddleware
<1>1. CASE EnterWrapper
  <2>1. Enters(ctx[pos])
    BY <1>0, <1>1 DEF EnterWrapper, Enters, OtherRecord
  <2> QED
    BY <2>1
<1>2. CASE SecurityHeaders
  <2>1. Enters(ctx[pos])
    BY <1>0, <1>2 DEF SecurityHeaders, Enters, OtherRecord
  <2> QED
    BY <2>1
<1>3. CASE OTelMiddleware
  <2> DEFINE c == With(ctx[pos], "span", "request")
  <2>1. "request" \in Values
    BY DEF Values
  <2>2. /\ c \in Context /\ c.span = "request" /\ c.request = ctx[pos].request
        /\ c.principal = ctx[pos].principal
    BY <1>0, <2>1, WithFacts
  <2> HIDE DEF c
  <2>3. Enters(c)
    BY <1>3, <2>2 DEF OTelMiddleware, Enters, OtherRecord, c
  <2> QED
    BY <2>3
<1>4. CASE TraceIDMiddleware
  <2> DEFINE t == With(ctx[pos], "trace", TraceID(ctx[pos]))
             c == With(t, "request", RequestID)
  <2>1. t \in Context /\ t.span = ctx[pos].span /\ t.principal = ctx[pos].principal
    BY <1>0, IDs, WithFacts
  <2> HIDE DEF t
  <2>2. /\ c \in Context /\ c.span = ctx[pos].span /\ c.request = RequestID
        /\ c.principal = ctx[pos].principal
    BY <2>1, IDs, WithFacts
  <2> HIDE DEF c
  <2>3. Enters(c)
    BY <1>4, <2>2 DEF TraceIDMiddleware, Enters, OtherRecord, c, t
  <2> QED
    BY <2>3
<1>5. CASE AuthMiddleware
  <2> DEFINE e == With(ctx[pos], "entry", req.proto)
             c == Authenticate(e)
  <2>0. chain[pos] = "auth" /\ mode = "in" /\ pos < Handler
    BY <1>5 DEF AuthMiddleware
  <2>1. req.proto \in Values /\ "user" \in Values
    BY PipelineAssumption DEF TypeOK, IsRequest, RequestType, Values
  <2>2. /\ e \in Context /\ e.span = ctx[pos].span /\ e.request = ctx[pos].request
        /\ e.principal = ctx[pos].principal
    BY <1>0, <2>1, WithFacts
  <2> HIDE DEF e
  <2>3. /\ c \in Context /\ c.span = ctx[pos].span /\ c.request = ctx[pos].request
        /\ c.principal = IF req.token = "subject" THEN "user" ELSE ctx[pos].principal
    BY <2>1, <2>2, WithFacts DEF Authenticate
  <2> HIDE DEF c
  <2>4. CASE Inward(c) /\ UNCHANGED <<output, observed>>
    <3>1. Enters(c)
      BY <1>5, <2>0, <2>3, <2>4 DEF AuthMiddleware, Enters, OtherRecord
    <3> QED
      BY <3>1
  <2>5. CASE OtherRecord /\ Reject("401", "Unauthenticated", {})
    <3>1. UNCHANGED <<span, query, counted, panicked, limited>>
      BY <1>5 DEF AuthMiddleware
    <3> QED
      BY <2>0, <2>5, <3>1 DEF Reject, Reply, Rejects
  <2> QED
    BY <1>5, <2>4, <2>5 DEF AuthMiddleware, OtherRecord, c, e
<1>6. CASE RateLimitMiddleware
  <2>1. /\ chain[pos] = "ratelimit" /\ mode = "in" /\ pos < Handler
        /\ UNCHANGED <<span, query, observed, counted, panicked>>
        /\ UNCHANGED limited \/ Limits
    BY <1>6 DEF RateLimitMiddleware, Limits
  <2>2. CASE Inward(ctx[pos]) /\ header \subseteq header' /\ UNCHANGED <<wire, seen>>
    <3>1. Enters(ctx[pos])
      BY <1>0, <2>1, <2>2 DEF Enters, OtherRecord
    <3> QED
      BY <3>1
  <2>3. CASE Reject("429", "ResourceExhausted", {"retry", "limit"})
    BY <2>1, <2>3 DEF Reject, Reply, Rejects, OtherRecord
  <2>4. CASE Reject("503", Empty, {"fallback"})
    BY <2>1, <2>4 DEF Reject, Reply, Rejects, OtherRecord, Empty
  <2> QED
    BY <1>6, <2>2, <2>3, <2>4 DEF RateLimitMiddleware
<1>7. CASE IdempotencyMiddleware
  <2>1. /\ chain[pos] = "idempotency" /\ mode = "in" /\ pos < Handler
        /\ UNCHANGED <<span, query, counted, limited, panicked>> /\ OtherRecord
    BY <1>7 DEF IdempotencyMiddleware, OtherRecord
  <2>2. CASE Inward(ctx[pos]) /\ UNCHANGED output
    <3>1. Enters(ctx[pos])
      BY <1>0, <2>1, <2>2 DEF Enters
    <3> QED
      BY <3>1
  <2>3. CASE Reject("409", Empty, {"retry"})
    BY <2>1, <2>3 DEF Reject, Reply, Rejects, Empty
  <2>4. CASE Reject("503", Empty, {})
    BY <2>1, <2>4 DEF Reject, Reply, Rejects, Empty
  <2> QED
    BY <1>7, <2>2, <2>3, <2>4 DEF IdempotencyMiddleware
<1> QED
  BY <1>1, <1>2, <1>3, <1>4, <1>5, <1>6, <1>7

\* The steps of the handler that do not leave it.
LEMMA HandlerHandles ==
  ASSUME TypeOK, SpanOpen, Shape, Contexts,
         TraceQueryStart \/ Respond \/ HandleHealth \/ HandleReadiness
         \/ \E e \in {"nil", "no_rows", "23505", "57014", "other"} : TraceQueryEnd(e)
  PROVE  Handles
<1> USE DEF output, spans, observed, rest
<1>1. CASE TraceQueryStart
  <2>1. query' # "request"
    <3>1. mode = "in" /\ pos = Handler /\ pos \in 1 .. Len(ctx) /\ pos = Len(ctx)
      BY <1>1, ChainFacts DEF TraceQueryStart, InHandler, Shape, TypeOK
    <3>2. CASE \E i \in Positions("otel") : i < pos
      <4>1. Recording(ctx[pos])
        BY <3>1, <3>2 DEF Recording, Contexts, SpanOpen, OnStack, Entered
      <4> QED
        BY <1>1, <4>1 DEF TraceQueryStart
    <3>3. CASE ~\E i \in Positions("otel") : i < pos
      <4>1. ctx[pos].span = Unset
        BY <3>1, <3>3 DEF Contexts
      <4> QED
        BY <1>1, <4>1 DEF TraceQueryStart, Unset
    <3> QED
      BY <3>2, <3>3
  <2> QED
    BY <1>1, <2>1 DEF TraceQueryStart, Handles, OtherRecord
<1>2. CASE Respond
  <2>1. /\ InHandler /\ wire = Nothing /\ OtherRecord
        /\ UNCHANGED <<pos, mode, header, span, query, counted, limited, panicked>>
    BY <1>2 DEF Respond, OtherRecord
  <2>2. \E status, id : /\ status \notin {"none", "0"}
                        /\ id \in {Unset, GetRequestID(ctx[pos])}
                        /\ Answer(pos, status, id)
    <3>1. MapStatus(result) \notin {"none", "0"}
      BY DEF MapStatus
    <3> QED
      BY <1>2, <3>1 DEF Respond, ErrorJSON
  <2> QED
    BY <2>1, <2>2 DEF Handles, SpanOpen
<1>3. CASE HandleHealth \/ HandleReadiness
  <2>1. /\ InHandler /\ wire = Nothing /\ OtherRecord
        /\ UNCHANGED <<pos, mode, header, span, query, counted, limited, panicked>>
    BY <1>3 DEF HandleHealth, HandleReadiness, OtherRecord
  <2>2. \E status : status \notin {"none", "0"} /\ Answer(pos, status, Unset)
    BY <1>3 DEF HandleHealth, HandleReadiness
  <2> QED
    BY <2>1, <2>2 DEF Handles, SpanOpen
<1>4. ASSUME NEW e, TraceQueryEnd(e) PROVE Handles
  BY <1>4 DEF TraceQueryEnd, Handles, SpanOpen, OtherRecord
<1> QED
  BY <1>1, <1>2, <1>3, <1>4

\* The steps of the frames on the way out.
LEMMA ReturnsOrUnwinds ==
  ASSUME LogRequest \/ CountRequest \/ EndSpan \/ ReturnThrough \/ UnwindThrough
  PROVE  Returns \/ Unwinds
<1> USE DEF output, spans, observed, rest, Back, Unwind, Returns, Unwinds
<1>1. CASE LogRequest
  BY <1>1 DEF LogRequest
<1>2. CASE CountRequest
  BY <1>2 DEF CountRequest
<1>3. CASE EndSpan
  BY <1>3 DEF EndSpan
<1>4. CASE ReturnThrough
  BY <1>4 DEF ReturnThrough
<1>5. CASE UnwindThrough
  BY <1>5 DEF UnwindThrough
<1> QED
  BY <1>1, <1>2, <1>3, <1>4, <1>5

\* Either side's recovery is one step of this kind.
LEMMA RecoveryRecovers == ASSUME PanicRecovery \/ GRPCRecoveryInterceptor PROVE Recovers
  BY DEF PanicRecovery, GRPCRecoveryInterceptor, Caught, Recovers

\* Every step is of one of these kinds.
Step ==
    \/ \E c : Enters(c)
    \/ \E status : Rejects(status)
    \/ Handles \/ HandlerPanics \/ HandlerReturns
    \/ Returns \/ Unwinds \/ Recovers \/ ServerEnds
    \/ UNCHANGED vars

\* The kinds cover the specification.
LEMMA StepKinds ==
  ASSUME TypeOK, Shape, Contexts, SpanOpen, [Next]_vars
  PROVE  Step
  BY EntersOrRejects, HandlerHandles, ReturnsOrUnwinds, RecoveryRecovers DEF Next, Step

-----------------------------------------------------------------------------
(* Types and control *)

\* What Answer does to the response and to the wrappers.
LEMMA AnswerFacts ==
  ASSUME TypeOK, NEW i, NEW status, status \notin {"none", "0"}, NEW id, Answer(i, status, id)
  PROVE  /\ wire' # Nothing /\ wire'.status \notin {"none", "0"}
         /\ wire = Nothing => wire'.status = status /\ wire'.header = header' /\ wire'.id = id
         /\ wire # Nothing => wire' = wire
         /\ DOMAIN seen' = DOMAIN seen
         /\ \A j \in DOMAIN chain :
               seen'[j] = IF chain[j] \in {"metrics", "logger"} /\ Hears(j, i) THEN status
                          ELSE seen[j]
  BY DEF TypeOK, Answer, Nothing

\* Types and control are kept by every step.
LEMMA ControlKept ==
  ASSUME TypeOK, Shape, Step
  PROVE  TypeOK' /\ Shape'
<1> USE ChainFacts DEF Ended, Handler, output, spans, observed, rest, http
<1> DEFINE SentOrNot == /\ DOMAIN seen' = DOMAIN chain
                        /\ wire' # Nothing => wire'.status \notin {"none", "0"}
<1>1. ASSUME NEW c, Enters(c) PROVE TypeOK' /\ Shape'
  <2>1. /\ Inward(c) /\ c \in Context /\ mode = "in" /\ pos < Handler
        /\ UNCHANGED <<wire, seen, panicked>>
    BY <1>1 DEF Enters
  <2>2. /\ chain' = chain /\ req' = req /\ mode' = mode /\ pos' = pos + 1
        /\ ctx' \in Seq(Context) /\ Len(ctx') = Len(ctx) + 1
    BY <2>1, InwardFacts
  <2>3. TypeOK'
    BY <2>1, <2>2 DEF TypeOK
  <2>4. Shape'
    BY <2>1, <2>2 DEF TypeOK, Shape
  <2> QED
    BY <2>3, <2>4
<1>2. ASSUME NEW status, Rejects(status) PROVE TypeOK' /\ Shape'
  <2>1. SentOrNot
    BY <1>2, AnswerFacts DEF Rejects, TypeOK
  <2> QED
    BY <1>2, <2>1 DEF Rejects, Outward, Fixed, TypeOK, Shape
<1>3. CASE Handles
  <2>1. SentOrNot
    BY <1>3, AnswerFacts DEF Handles, TypeOK
  <2> QED
    BY <1>3, <2>1 DEF Handles, InHandler, TypeOK, Shape
<1>4. CASE HandlerPanics
  BY <1>4 DEF HandlerPanics, InHandler, TypeOK, Shape
<1>5. CASE HandlerReturns
  <2>1. SentOrNot
    BY <1>5, AnswerFacts DEF HandlerReturns, TypeOK
  <2> QED
    BY <1>5, <2>1 DEF HandlerReturns, InHandler, TypeOK, Shape
<1>6. CASE Returns
  BY <1>6 DEF Returns, Outward, Fixed, TypeOK, Shape
<1>7. CASE Unwinds
  BY <1>7 DEF Unwinds, Unwind, Fixed, TypeOK, Shape
<1>8. CASE Recovers
  <2>1. SentOrNot
    BY <1>8, AnswerFacts DEF Recovers, ErrorJSON, TypeOK
  <2> QED
    BY <1>8, <2>1 DEF Recovers, Outward, Fixed, TypeOK, Shape
<1>9. CASE ServerEnds
  BY <1>9 DEF ServerEnds, Fixed, TypeOK, Shape, Nothing
<1>10. CASE UNCHANGED vars
  BY <1>10 DEF vars, TypeOK, Shape
<1> QED
  BY <1>1, <1>2, <1>3, <1>4, <1>5, <1>6, <1>7, <1>8, <1>9, <1>10 DEF Step

\* Only going inward touches the contexts; the request and its chain stay.
LEMMA Stays ==
  ASSUME Step, \A c : ~Enters(c)
  PROVE  ctx' = ctx /\ chain' = chain /\ req' = req
  BY DEF Step, Rejects, Handles, HandlerPanics, HandlerReturns, InHandler, Returns, Unwinds,
     Unwind, Recovers, ServerEnds, Outward, Fixed, vars

-----------------------------------------------------------------------------
(* Contexts, headers and the rate limit *)

\* Each frame is given what the frames outside it have put into the context.
LEMMA ContextsKept == ASSUME TypeOK, Shape, Contexts, Step PROVE Contexts'
<1>1. ASSUME NEW c, Enters(c) PROVE Contexts'
  <2>1. /\ c \in Context /\ Inward(c) /\ mode = "in" /\ pos = Len(ctx)
        /\ pos \in 1 .. Len(chain) /\ RequestID' = RequestID
        /\ \A m : Positions(m)' = Positions(m)
    BY <1>1, ChainFacts, InwardFacts
    DEF Enters, Shape, TypeOK, Handler, Inward, Fixed, RequestID, Positions
  <2>2. /\ req' = req /\ Len(ctx') = Len(ctx) + 1 /\ ctx'[Len(ctx) + 1] = c
        /\ \A j \in 1 .. Len(ctx) : ctx'[j] = ctx[j]
    BY <2>1, InwardFacts
  <2>3. ASSUME NEW m, NEW j \in 1 .. Len(chain)
        PROVE  (\E i \in Positions(m) : i < j + 1) <=>
                   (chain[j] = m \/ \E i \in Positions(m) : i < j)
    <3>1. Positions(m) = {i \in 1 .. Len(chain) : chain[i] = m} /\ Len(chain) \in Nat
      BY ChainFacts, PositionFacts
    <3> QED
      BY <3>1
  <2> SUFFICES ASSUME NEW j \in 1 .. Len(ctx) + 1
      PROVE  /\ ctx'[j].span = IF \E i \in Positions("otel") : i < j THEN "request" ELSE Unset
             /\ ctx'[j].request = IF \E i \in Positions("trace") : i < j THEN RequestID ELSE Unset
             /\ req.token = "subject" /\ (\E i \in Positions("auth") : i < j) =>
                    ctx'[j].principal = "user"
    BY <2>1, <2>2 DEF Contexts
  <2>4. CASE j \in 1 .. Len(ctx)
    BY <2>2, <2>4 DEF Contexts
  <2>5. CASE j = Len(ctx) + 1
    <3>1. c.span = IF \E i \in Positions("otel") : i < pos + 1 THEN "request" ELSE Unset
      BY <1>1, <2>1, <2>3 DEF Enters, Contexts
    <3>2. c.request = IF \E i \in Positions("trace") : i < pos + 1 THEN RequestID ELSE Unset
      BY <1>1, <2>1, <2>3 DEF Enters, Contexts
    <3>3. req.token = "subject" /\ (\E i \in Positions("auth") : i < pos + 1) =>
              c.principal = "user"
      BY <1>1, <2>1, <2>3 DEF Enters, Contexts
    <3> QED
      BY <2>1, <2>2, <2>5, <3>1, <3>2, <3>3
  <2> QED
    BY <2>4, <2>5, <2>1
<1>2. CASE \A c : ~Enters(c)
  BY <1>2, Stays DEF Contexts, Positions, RequestID
<1> QED
  BY <1>1, <1>2

\* The headers only grow, and a frame has set its own when the next is entered.
LEMMA HeadersKept == ASSUME TypeOK, Shape, HeadersSet, Step PROVE HeadersSet'
<1>1. ASSUME NEW c, Enters(c) PROVE HeadersSet'
  <2>1. /\ c \in Context /\ Inward(c) /\ mode = "in" /\ pos = Len(ctx) /\ pos \in Nat
        /\ header \subseteq header'
        /\ chain[pos] = "security" => "security" \in header'
        /\ chain[pos] = "trace" /\ http => "ids" \in header'
    BY <1>1, ChainFacts DEF Enters, Shape, TypeOK
  <2>2. chain' = chain /\ req' = req /\ Len(ctx') = Len(ctx) + 1 /\ Len(ctx) \in Nat
    BY <2>1, InwardFacts
  <2>3. \A m : Positions(m)' = Positions(m)
    BY <2>2 DEF Positions
  <2>4. \A m, i : i \in Positions(m) /\ Entered(i)' => Entered(i) \/ (i = pos /\ chain[pos] = m)
    BY <2>1, <2>2, ChainFacts, PositionFacts DEF Entered
  <2> QED
    BY <2>1, <2>2, <2>3, <2>4 DEF HeadersSet, http
<1>2. CASE \A c : ~Enters(c)
  <2>1. header \subseteq header'
    BY <1>2 DEF Step, Rejects, Handles, HandlerPanics, HandlerReturns, Returns, Unwinds,
       Recovers, ServerEnds, vars, output
  <2> QED
    BY <1>2, <2>1, Stays DEF HeadersSet, Positions, Entered, http
<1> QED
  BY <1>1, <1>2

\* The rate limit stands in one place, and reads the principal there.
LEMMA LimitKept ==
  ASSUME TypeOK, Shape, Contexts, LimitedAsPrincipal, Step
  PROVE  LimitedAsPrincipal'
<1>1. chain' = chain /\ req' = req
  BY Stays DEF Enters, Inward, Fixed
<1>2. CASE UNCHANGED limited
  BY <1>1, <1>2 DEF LimitedAsPrincipal, Positions
<1>3. CASE Limits /\ mode = "in" /\ pos < Handler
  <2>1. pos \in 1 .. Len(ctx)
    BY <1>3 DEF Shape, TypeOK
  <2>2. ASSUME NEW i \in Positions("auth"), NEW j \in Positions("ratelimit"), i < j,
               req.token = "subject"
        PROVE  limited' = "user"
    <3>1. j = pos
      BY <1>3, <2>1, ChainFacts, PositionFacts DEF Limits, Shape, TypeOK, Handler, Middlewares
    <3>2. ctx[pos].principal = "user"
      BY <2>1, <2>2, <3>1 DEF Contexts
    <3>3. ctx[pos] \in Context
      BY <2>1 DEF TypeOK
    <3> QED
      BY <1>3, <3>2, <3>3 DEF Limits, getString, Unset, Context
  <2> QED
    BY <1>1, <2>2 DEF LimitedAsPrincipal, Positions
<1> QED
  BY <1>2, <1>3 DEF Step, Enters, Rejects, Handles, HandlerPanics, HandlerReturns, Returns,
     Unwinds, Recovers, ServerEnds, vars, rest

-----------------------------------------------------------------------------
(* What the response wrappers know *)

\* An answer from frame i reaches the wrappers outside it: the metrics' if it is the
\* first, the logger's if the metrics' let it pass.
LEMMA WrappersHear ==
  ASSUME TypeOK, Wrapped, NEW i \in 1 .. Handler, NEW status, status \notin {"none", "0"},
         NEW id, Answer(i, status, id), \A k \in 1 .. i - 1 : OnStack(k)
  PROVE  \A k \in 1 .. Len(chain) :
            /\ k >= i => seen'[k] = seen[k]
            /\ k < i /\ chain[k] = "metrics" => seen'[k] = wire'.status
            /\ k < i /\ chain[k] = "logger" =>
                   IF wire = Nothing THEN seen'[k] = wire'.status
                   ELSE seen'[k] \in {seen[k], status}
<1>1. /\ Len(chain) \in Nat /\ DOMAIN chain = 1 .. Len(chain) /\ Handler = Len(chain) + 1
      /\ \A j \in 1 .. Len(chain) :
            seen'[j] = IF chain[j] \in {"metrics", "logger"} /\ Hears(j, i) THEN status
                       ELSE seen[j]
      /\ wire = Nothing => wire'.status = status
      /\ wire # Nothing => wire' = wire /\ wire.status # "0"
  BY ChainFacts, AnswerFacts DEF Handler, TypeOK
<1>2. \A k \in 1 .. Len(chain) : k < i /\ chain[k] = "metrics" =>
          seen[k] = IF wire = Nothing THEN "0" ELSE wire.status
  BY <1>1 DEF Wrapped
<1>3. CASE wire = Nothing
  <2>1. \A k \in 1 .. Len(chain) : k < i => Hears(k, i)
    BY <1>1, <1>2, <1>3 DEF Hears
  <2> QED
    BY <1>1, <1>3, <2>1 DEF Hears
<1>4. CASE wire # Nothing
  <2>1. \A k \in 1 .. Len(chain) : k < i /\ chain[k] = "metrics" => ~Hears(k, i)
    BY <1>1, <1>2, <1>4 DEF Hears
  <2> QED
    BY <1>1, <1>2, <1>4, <2>1 DEF Hears
<1> QED
  BY <1>3, <1>4

\* Nothing is sent before the handler or a rejecting frame has been reached.
LEMMA UnsentKept == ASSUME TypeOK, Shape, Unsent, Step PROVE Unsent'
<1> USE DEF Unsent, Handler
<1>1. ASSUME NEW c, Enters(c) PROVE Unsent'
  BY <1>1 DEF Enters, Inward, Fixed, Shape, TypeOK
<1>2. ASSUME NEW status, Rejects(status) PROVE mode' # "in"
  BY <1>2 DEF Rejects, Outward
<1>3. CASE Handles
  BY <1>3 DEF Handles, InHandler, Fixed
<1>4. CASE HandlerPanics \/ HandlerReturns
  BY <1>4 DEF HandlerPanics, HandlerReturns, Outward
<1>5. CASE Returns \/ Unwinds
  BY <1>5 DEF Returns, Unwinds, Unwind, Outward
<1>6. CASE Recovers \/ ServerEnds
  BY <1>6 DEF Recovers, ServerEnds, Outward
<1>7. CASE UNCHANGED vars
  BY <1>7 DEF vars, output
<1> QED
  BY <1>1, <1>2, <1>3, <1>4, <1>5, <1>6, <1>7 DEF Step

\* The wrapper of a frame on the stack knows what was sent; a second answer, a
\* recovery's after the handler's own, reaches the logger's only.
LEMMA WrappedKept ==
  ASSUME TypeOK, Shape, Unsent, Wrapped, Panics, Step
  PROVE  Wrapped'
<1> USE DEF Handler
<1>0. /\ Len(chain) \in Nat /\ DOMAIN chain = 1 .. Len(chain)
      /\ pos \in 0 .. Handler /\ Len(ctx) \in 1 .. Handler
  BY ChainFacts DEF TypeOK, Shape
<1>1. ASSUME NEW c, Enters(c) PROVE Wrapped'
  <2>1. /\ chain' = chain /\ mode = "in" /\ mode' = "in" /\ pos = Len(ctx)
        /\ Len(ctx') = Len(ctx) + 1
        /\ wire = Nothing /\ UNCHANGED <<wire, seen, panicked>>
    BY <1>1, InwardFacts DEF Enters, Shape, Unsent
  <2> QED
    BY <1>0, <2>1 DEF Wrapped, OnStack, Entered
<1>2. CASE /\ UNCHANGED <<chain, ctx, wire, seen, panicked>>
           /\ \A i \in DOMAIN chain : OnStack(i)' => OnStack(i)
  BY <1>2 DEF Wrapped, Entered
<1>3. ASSUME NEW i \in 1 .. Handler, NEW status, status \notin {"none", "0"}, NEW id,
             Answer(i, status, id), \A k \in 1 .. i - 1 : OnStack(k),
             UNCHANGED <<chain, ctx, panicked>>,
             wire # Nothing => panicked = "sent" /\ status = "500",
             \A k \in 1 .. Len(chain) : OnStack(k)' => k < i,
             \A k \in 1 .. Len(chain) : ~Entered(k) => k >= i
      PROVE  Wrapped'
  <2>1. /\ wire' # Nothing
        /\ wire # Nothing => wire' = wire
    BY <1>3, AnswerFacts
  <2> QED
    BY <1>0, <1>3, <2>1, WrappersHear DEF Wrapped, Entered
<1>4. ASSUME NEW status, Rejects(status) PROVE Wrapped'
  <2>1. /\ pos = Len(ctx) /\ pos \in 1 .. Handler /\ mode = "in" /\ mode' = "out"
        /\ pos' = pos - 1 /\ UNCHANGED <<chain, ctx, panicked>> /\ wire = Nothing
    BY <1>4, <1>0 DEF Rejects, Outward, Fixed, Shape, Unsent
  <2> QED
    BY <1>0, <1>3, <1>4, <2>1 DEF Rejects, OnStack, Entered
<1>5. CASE Handles \/ HandlerReturns
  <2>1. /\ pos = Handler /\ Len(ctx) = Handler /\ mode = "in"
        /\ UNCHANGED <<chain, ctx, panicked>>
        /\ \A k \in 1 .. Len(chain) : OnStack(k)
    BY <1>5, <1>0 DEF Handles, HandlerReturns, InHandler, Shape, OnStack, Entered, rest
  <2>2. CASE UNCHANGED <<wire, seen>>
    BY <1>2, <2>1, <2>2, <1>0
  <2>3. ASSUME NEW status, NEW id, status \notin {"none", "0"}, Answer(pos, status, id),
               wire = Nothing
        PROVE  Wrapped'
    BY <1>0, <1>3, <2>1, <2>3 DEF Entered
  <2>4. CASE HandlerReturns /\ ~http
    \* No HTTP wrapper is in a gRPC chain.
    BY <1>0, <2>1, <2>4 DEF Wrapped, Shape
  <2> QED
    BY <1>5, <2>2, <2>3, <2>4 DEF Handles, HandlerReturns
<1>6. CASE HandlerPanics
  <2>1. /\ pos = Handler /\ Len(ctx) = Handler /\ mode = "in" /\ panicked = "no"
        /\ UNCHANGED <<chain, ctx, wire, seen>>
        /\ \A k \in 1 .. Len(chain) : OnStack(k)
    BY <1>6, <1>0 DEF HandlerPanics, InHandler, Shape, OnStack, Entered, output
  <2> QED
    BY <1>0, <2>1 DEF Wrapped, Entered
<1>7. CASE Returns \/ Unwinds
  BY <1>0, <1>2, <1>7 DEF Returns, Unwinds, Unwind, Outward, Fixed, output, OnStack, Entered
<1>8. CASE Recovers
  <2>1. /\ mode = "panic" /\ mode' = "out" /\ pos \in 1 .. Len(chain) /\ pos' = pos - 1
        /\ UNCHANGED <<chain, ctx, panicked>> /\ Len(ctx) = Handler
        /\ wire # Nothing => panicked = "sent"
    BY <1>8, <1>0 DEF Recovers, Outward, Fixed, rest, Shape, Panics, TypeOK
  <2>2. CASE http
    <3>1. Answer(pos, "500", GetRequestID(ctx[pos]))
      BY <1>8, <2>2 DEF Recovers, ErrorJSON
    <3> QED
      BY <1>0, <1>3, <2>1, <3>1 DEF OnStack, Entered
  <2>3. CASE ~http
    BY <1>0, <2>1, <2>3 DEF Wrapped, Shape
  <2> QED
    BY <2>2, <2>3
<1>9. CASE ServerEnds
  BY <1>0, <1>9 DEF ServerEnds, Fixed, Wrapped, OnStack, Entered
<1>10. CASE UNCHANGED vars
  BY <1>10 DEF vars, output, rest, Wrapped, OnStack, Entered
<1> QED
  BY <1>1, <1>4, <1>5, <1>6, <1>7, <1>8, <1>9, <1>10 DEF Step

-----------------------------------------------------------------------------
(* Panics *)

Record(by, level, status, traced) ==
    [by |-> by, level |-> level, status |-> status, traced |-> traced]

\* OTelHandler.Handle adds one record.
LEMMA HandleFacts ==
  ASSUME NEW by, NEW level, NEW status, NEW c, Handle(by, level, status, c)
  PROVE  \E new : /\ logs' = logs \cup {new}
                  /\ new.by = by /\ new.level = level /\ new.status = status
                  /\ new.traced <=> Recording(c)
<1>1. logs' = logs \cup {Record(by, level, status, Recording(c))}
  BY Zenon DEF Handle, Record
<1>2. \A t : /\ Record(by, level, status, t).by = by
             /\ Record(by, level, status, t).level = level
             /\ Record(by, level, status, t).status = status
  BY DEF Record
<1>3. Record(by, level, status, Recording(c)).traced <=> Recording(c)
  BY Zenon DEF Record
<1> QED
  BY Zenon, <1>1, <1>2, <1>3

SameRecords(m) == {r \in logs' : r.by = m} = {r \in logs : r.by = m}

\* The records of a frame are its own.
LEMMA RecordsBy ==
  ASSUME NEW by, NEW level, NEW status, NEW c, Handle(by, level, status, c)
  PROVE  /\ \E r \in logs' : r.by = by
         /\ \A m : by # m => SameRecords(m)
<1>1. PICK new : logs' = logs \cup {new} /\ new.by = by
  BY HandleFacts
<1> QED
  BY <1>1 DEF SameRecords

\* So the logger's and a recovery's come from nowhere else.
LEMMA OtherRecordsBy ==
  ASSUME OtherRecord \/ UNCHANGED observed
  PROVE  SameRecords("logger") /\ SameRecords("recovery")
<1>1. CASE UNCHANGED observed
  BY <1>1 DEF observed, SameRecords
<1>2. CASE \E by \in {"auth", "idempotency", "response", "health"} : \E level, status, c :
               Handle(by, level, status, c)
  BY <1>2, RecordsBy
<1> QED
  BY <1>1, <1>2 DEF OtherRecord

\* A panic is stopped by the innermost recovery frame, which answers and logs; without
\* one it reaches the server.
LEMMA PanicsKept ==
  ASSUME TypeOK, Shape, Panics, Step
  PROVE  Panics'
<1> USE DEF Handler
<1> DEFINE Recovered == \E r \in logs : r.by = "recovery"
<1>0. /\ Len(chain) \in Nat /\ pos \in 0 .. Handler
      /\ Positions("recovery") = {k \in 1 .. Len(chain) : chain[k] = "recovery"}
  BY ChainFacts, PositionFacts DEF TypeOK
<1>c. chain' = chain /\ Positions("recovery")' = Positions("recovery")
  BY Stays DEF Enters, Inward, Fixed, Positions
<1>r. SameRecords("recovery") => (Recovered' <=> Recovered)
  BY DEF SameRecords
<1>p. panicked = "no" /\ panicked' = "no" /\ SameRecords("recovery")
      /\ mode \in {"in", "out"} /\ mode' \in {"in", "out"} => Panics'
  BY <1>r DEF Panics
<1>1. ASSUME NEW c, Enters(c) PROVE Panics'
  BY <1>1, <1>p, OtherRecordsBy DEF Enters, Inward, Shape
<1>2. ASSUME NEW status, Rejects(status) PROVE Panics'
  BY <1>2, <1>p, OtherRecordsBy DEF Rejects, Outward, Shape
<1>3. CASE Handles
  BY <1>3, <1>p, OtherRecordsBy DEF Handles, InHandler, Shape
<1>4. CASE HandlerPanics
  <2>1. /\ mode = "in" /\ mode' = "panic" /\ pos = Handler /\ pos' = pos - 1
        /\ SameRecords("recovery") /\ panicked = "no" /\ wire' = wire
        /\ panicked' = IF wire = Nothing THEN "unsent" ELSE "sent"
    BY <1>4, OtherRecordsBy DEF HandlerPanics, InHandler, Shape, output
  <2> QED
    BY <1>0, <1>c, <1>r, <2>1 DEF Panics
<1>5. CASE HandlerReturns
  <2>1. SameRecords("recovery")
    BY <1>5, OtherRecordsBy DEF HandlerReturns
  <2> QED
    BY <1>5, <1>p, <2>1 DEF HandlerReturns, InHandler, Shape, rest
<1>6. CASE Returns
  <2>1. /\ mode = "out" /\ mode' = "out" /\ pos' = pos - 1 /\ wire' = wire
        /\ panicked' = panicked /\ SameRecords("recovery")
    BY <1>6, RecordsBy, OtherRecordsBy DEF Returns, Outward, output
  <2> QED
    BY <1>0, <1>c, <1>r, <2>1 DEF Panics
<1>7. CASE Unwinds
  <2>1. /\ mode = "panic" /\ mode' = "panic" /\ pos' = pos - 1 /\ pos > 0 /\ wire' = wire
        /\ panicked' = panicked /\ SameRecords("recovery") /\ chain[pos] # "recovery"
    BY <1>7, OtherRecordsBy DEF Unwinds, Unwind, output
  <2> QED
    BY <1>0, <1>c, <1>r, <2>1 DEF Panics
<1>8. CASE Recovers
  <2>1. /\ mode = "panic" /\ mode' = "out" /\ pos > 0 /\ chain[pos] = "recovery"
        /\ pos' = pos - 1 /\ panicked' = panicked
        /\ \E r \in logs' : r.by = "recovery"
    BY <1>8, RecordsBy DEF Recovers, Outward, rest
  <2>2. \E status \in {"500", "Internal"} : \E id : Answer(pos, status, id)
    BY <1>8 DEF Recovers, ErrorJSON
  <2>3. panicked = "unsent" => wire'.status \in {"500", "Internal"}
    BY <2>1, <2>2, AnswerFacts DEF Panics
  <2>4. pos \in Positions("recovery") /\ panicked # "no" /\ pos < Len(ctx)
    BY <1>0, <2>1 DEF Shape, TypeOK
  <2> QED
    BY <1>0, <1>c, <2>1, <2>3, <2>4 DEF Panics
<1>9. CASE ServerEnds
  <2>1. /\ pos = 0 /\ pos' = 0 /\ SameRecords("recovery") /\ panicked' = panicked
        /\ \/ mode = "out" /\ mode' = "done"
           \/ mode = "panic" /\ mode' \in {"aborted", "crashed"}
        /\ panicked = "unsent" /\ mode = "out" => wire' = wire
    BY <1>9, OtherRecordsBy DEF ServerEnds, rest, Panics, Nothing
  <2> QED
    BY <1>0, <1>c, <1>r, <2>1 DEF Panics
<1>10. CASE UNCHANGED vars
  BY <1>10 DEF vars, output, observed, rest, Panics, Positions
<1> QED
  BY <1>1, <1>2, <1>3, <1>4, <1>5, <1>6, <1>7, <1>8, <1>9, <1>10 DEF Step

-----------------------------------------------------------------------------
(* The request's span *)

\* A step puts a frame on the stack, takes one off it, or leaves the stack alone.
LEMMA StackSteps ==
  ASSUME TypeOK, Shape, Step, NEW i \in 1 .. Len(chain)
  PROVE  /\ Entered(i) => Entered(i)'
         /\ IF \E c : Enters(c) THEN OnStack(i)' <=> OnStack(i) \/ i = pos
            ELSE IF mode \in {"out", "panic"} /\ ~UNCHANGED vars
                 THEN OnStack(i)' <=> OnStack(i) /\ i # pos
                 ELSE OnStack(i)' <=> OnStack(i)
         /\ (\E c : Enters(c)) => mode = "in" /\ pos \in 1 .. Len(chain)
<1> USE DEF Handler, OnStack, Entered
<1>0. /\ Len(chain) \in Nat /\ pos \in 0 .. Handler /\ Len(ctx) \in 1 .. Handler
      /\ mode = "in" => pos = Len(ctx)
      /\ mode # "in" => pos < Len(ctx)
  BY ChainFacts DEF TypeOK, Shape
<1>1. ASSUME NEW c, Enters(c)
      PROVE  /\ mode = "in" /\ mode' = "in" /\ pos \in 1 .. Len(chain)
             /\ Len(ctx') = Len(ctx) + 1
  <2>1. Inward(c) /\ c \in Context /\ mode = "in" /\ pos < Handler
    BY <1>1 DEF Enters
  <2>2. mode' = mode /\ Len(ctx') = Len(ctx) + 1
    BY <2>1, InwardFacts
  <2> QED
    BY <1>0, <2>1, <2>2
<1>2. CASE \E c : Enters(c)
  BY <1>0, <1>1, <1>2
<1>3. CASE \A c : ~Enters(c)
  <2>1. ctx' = ctx
    BY <1>3, Stays
  <2>2. CASE UNCHANGED vars
    BY <1>3, <2>1, <2>2 DEF vars
  <2>3. CASE mode = "in" /\ ~UNCHANGED vars
    <3>1. \/ mode' = "in" /\ pos' = pos
          \/ mode' \in {"out", "panic"} /\ pos' = pos - 1
      BY <1>3, <2>3 DEF Step, Rejects, Handles, HandlerPanics, HandlerReturns, Returns,
         Unwinds, Unwind, Recovers, ServerEnds, Outward
    <3> QED
      BY <1>0, <1>3, <2>1, <2>3, <3>1
  <2>4. CASE mode # "in" /\ ~UNCHANGED vars
    <3>1. /\ mode \in {"out", "panic"} /\ mode' # "in"
          /\ (pos > 0 /\ pos' = pos - 1) \/ (pos = 0 /\ pos' = 0)
      BY <1>0, <1>3, <2>4 DEF Step, Rejects, Handles, HandlerPanics, HandlerReturns, InHandler,
         Returns, Unwinds, Unwind, Recovers, ServerEnds, Outward
    <3> QED
      BY <1>0, <1>3, <2>1, <2>4, <3>1
  <2> QED
    BY <2>2, <2>3, <2>4
<1> QED
  BY <1>2, <1>3

\* The span's frame opens it, and closes it whether it returns or is unwound.
LEMMA SpanKept == ASSUME TypeOK, Shape, SpanOpen, Step PROVE SpanOpen'
<1>0. /\ Positions("otel") = {i \in 1 .. Len(chain) : chain[i] = "otel"}
      /\ Len(chain) \in Nat
      /\ \A i, j \in 1 .. Len(chain) : chain[i] = chain[j] => i = j
  BY ChainFacts, PositionFacts
<1>1. chain' = chain /\ Positions("otel")' = Positions("otel")
  BY Stays DEF Enters, Inward, Fixed, Positions
<1>2. query' # "request"
  BY DEF SpanOpen, Step, Enters, Rejects, Handles, HandlerPanics, HandlerReturns, Returns,
     Unwinds, Recovers, ServerEnds, vars, spans
<1>3. ASSUME NEW i \in 1 .. Len(chain), chain[i] = "otel"
      PROVE  (span' = "recording") <=> OnStack(i)'
  <2>1. (span = "recording") <=> OnStack(i)
    BY <1>0, <1>3 DEF SpanOpen
  <2>2. CASE \E c : Enters(c)
    <3>1. span' = IF i = pos THEN "recording" ELSE span
      BY <1>0, <1>3, <2>2, StackSteps DEF Enters
    <3> QED
      BY <2>1, <2>2, <3>1, StackSteps
  <2>3. CASE (\A c : ~Enters(c)) /\ mode \in {"out", "panic"} /\ ~UNCHANGED vars
    <3>1. span' = IF i = pos THEN "ended" ELSE span
      <4>1. pos \in 0 .. Len(chain)
        BY <2>3, <1>0 DEF Shape, TypeOK, Handler
      <4>2. CASE Returns \/ Unwinds
        BY <1>0, <1>3, <4>1, <4>2 DEF Returns, Unwinds, Unwind
      <4>3. CASE Recovers
        BY <1>3, <4>3 DEF Recovers, spans
      <4>4. CASE ServerEnds
        BY <4>4 DEF ServerEnds, spans
      <4> QED
        BY <2>3, <4>2, <4>3, <4>4 DEF Step, Rejects, Handles, HandlerPanics, HandlerReturns,
           InHandler
    <3> QED
      BY <2>1, <2>3, <3>1, StackSteps
  <2>4. CASE (\A c : ~Enters(c)) /\ ~(mode \in {"out", "panic"} /\ ~UNCHANGED vars)
    <3>1. span' = span
      BY <2>4 DEF Step, Rejects, Handles, HandlerPanics, HandlerReturns, Returns, Unwinds,
         Unwind, Recovers, ServerEnds, vars, spans
    <3> QED
      BY <2>1, <2>4, <3>1, StackSteps
  <2> QED
    BY <2>2, <2>3, <2>4
<1> QED
  BY <1>0, <1>1, <1>2, <1>3 DEF SpanOpen

TracedError == \E r \in logs : r.level = "ERROR" /\ r.traced

\* An ERROR logged while the span records marks it, and nothing else does.
LEMMA MarkedByErrors ==
  ASSUME marked \in {"yes", "no"}, (marked = "yes") <=> TracedError,
         UNCHANGED observed \/ \E by, level, status, c : Handle(by, level, status, c)
  PROVE  marked' \in {"yes", "no"} /\ ((marked' = "yes") <=> TracedError')
<1>1. CASE UNCHANGED observed
  BY <1>1 DEF observed, TracedError
<1>2. ASSUME NEW by, NEW level, NEW status, NEW c, Handle(by, level, status, c)
      PROVE  marked' \in {"yes", "no"} /\ ((marked' = "yes") <=> TracedError')
  <2>1. PICK new : logs' = logs \cup {new} /\ new.level = level /\ (new.traced <=> Recording(c))
    BY <1>2, HandleFacts
  <2>2. marked' = IF level = "ERROR" /\ Recording(c) THEN "yes" ELSE marked
    BY <1>2 DEF Handle
  <2>3. TracedError' <=> TracedError \/ (level = "ERROR" /\ Recording(c))
    BY <2>1 DEF TracedError
  <2> QED
    BY <2>2, <2>3
<1> QED
  BY <1>1, <1>2

\* A recovery inside the span's frame logs while the span records.
LEMMA MarksKept ==
  ASSUME TypeOK, Shape, Contexts, SpanOpen, Marks, Step
  PROVE  Marks'
<1> DEFINE Inside == \E i \in Positions("otel"), j \in Positions("recovery") : i < j
           SoFar == \A r \in logs : r.by = "recovery" => (r.traced <=> Inside)
<1>0. \A m : Positions(m) = {i \in 1 .. Len(chain) : chain[i] = m}
  BY PositionFacts
<1>1. Inside' <=> Inside
  BY Stays DEF Enters, Inward, Fixed, Positions
<1>2. marked' \in {"yes", "no"} /\ ((marked' = "yes") <=> TracedError')
  <2>1. UNCHANGED observed \/ \E by, level, status, c : Handle(by, level, status, c)
    BY DEF Step, Enters, Rejects, Handles, HandlerPanics, HandlerReturns, Returns, Unwinds,
       Recovers, ServerEnds, vars, OtherRecord
  <2>2. marked \in {"yes", "no"} /\ ((marked = "yes") <=> TracedError)
    BY DEF Marks, TracedError
  <2> QED
    BY <2>1, <2>2, MarkedByErrors
<1>3. SoFar'
  <2>1. SoFar
    BY DEF Marks
  <2>2. CASE SameRecords("recovery")
    BY <1>1, <2>1, <2>2 DEF SameRecords
  <2>3. CASE Recovers
    <3>1. pos \in 1 .. Len(chain) /\ chain[pos] = "recovery" /\ mode = "panic" /\ pos < Len(ctx)
      BY <2>3, ChainFacts DEF Recovers, Shape, TypeOK, Handler
    <3>2. Recording(ctx[pos]) <=> \E i \in Positions("otel") : i < pos
      <4>1. (ctx[pos].span = "request") <=> \E i \in Positions("otel") : i < pos
        BY <3>1, ChainFacts DEF Contexts, Unset, TypeOK
      <4>2. \A i \in Positions("otel") : i < pos => span = "recording"
        BY <1>0, <3>1, ChainFacts DEF SpanOpen, OnStack, Entered, TypeOK
      <4> QED
        BY <4>1, <4>2 DEF Recording
    <3>3. Positions("recovery") = {pos}
      BY <1>0, <3>1, ChainFacts
    <3>4. Recording(ctx[pos]) <=> Inside
      BY <3>2, <3>3
    <3>5. PICK new : logs' = logs \cup {new} /\ (new.traced <=> Recording(ctx[pos]))
      BY <2>3, HandleFacts DEF Recovers
    <3> QED
      BY <1>1, <2>1, <3>4, <3>5
  <2>4. SameRecords("recovery") \/ Recovers
    <3>1. OtherRecord \/ UNCHANGED observed => SameRecords("recovery")
      BY OtherRecordsBy
    <3>2. Returns => SameRecords("recovery")
      BY RecordsBy, OtherRecordsBy DEF Returns
    <3> QED
      BY <3>1, <3>2 DEF Step, Enters, Rejects, Handles, HandlerPanics, HandlerReturns,
         Unwinds, ServerEnds, vars
  <2> QED
    BY <2>2, <2>3, <2>4
<1> QED
  BY <1>2, <1>3 DEF Marks, TracedError

-----------------------------------------------------------------------------
(* The response *)

\* The request id a frame would put into an error body.
LEMMA IDAt ==
  ASSUME TypeOK, Contexts, NEW j \in 1 .. Len(ctx)
  PROVE  /\ GetRequestID(ctx[j]) = IF \E i \in Positions("trace") : i < j THEN RequestID ELSE Empty
         /\ RequestID # Empty
<1>1. ctx[j].request = IF \E i \in Positions("trace") : i < j THEN RequestID ELSE Unset
  BY DEF Contexts
<1>2. RequestID \notin {Unset, Empty}
  BY IDs
<1>3. GetRequestID(ctx[j]) = IF ctx[j].request = Unset THEN Empty ELSE ctx[j].request
  BY DEF GetRequestID, getString
<1> QED
  BY <1>1, <1>2, <1>3

\* Who writes the response knows the headers and the request id.
LEMMA CorrelatedKept ==
  ASSUME TypeOK, Shape, Contexts, Unsent, HeadersSet, HeadersSet', Correlated, Step
  PROVE  Correlated'
<1> DEFINE IDFits(id) == \A i \in Positions("trace") : Entered(i) =>
                             /\ id \in {Unset, Empty, RequestID}
                             /\ id = Empty => \E j \in Positions("recovery") : j < i
<1>0. /\ \A m : Positions(m) = {i \in 1 .. Len(chain) : chain[i] = m}
      /\ Len(chain) \in Nat
  BY PositionFacts, ChainFacts
<1>1. /\ chain' = chain /\ req' = req /\ (http' <=> http) /\ RequestID' = RequestID
      /\ \A m : Positions(m)' = Positions(m)
  BY Stays DEF Enters, Inward, Fixed, Positions, http, RequestID
<1>2. ASSUME NEW c, Enters(c) PROVE Correlated'
  BY <1>2 DEF Enters, Unsent, Correlated
<1>3. CASE (\A c : ~Enters(c)) /\ wire' = wire
  <2>1. \A i : Entered(i)' <=> Entered(i)
    BY <1>3, Stays DEF Entered
  <2> QED
    BY <1>1, <1>3, <2>1 DEF Correlated
<1>4. ASSUME \A c : ~Enters(c), wire'.header = header', http => IDFits(wire'.id)
      PROVE  Correlated'
  <2>1. \A i : Entered(i)' <=> Entered(i)
    BY <1>4, Stays DEF Entered
  <2> QED
    BY <1>1, <1>4, <2>1 DEF Correlated, HeadersSet
<1>5. IDFits(Unset)
  BY DEF Unset, Empty
<1> HIDE DEF IDFits
<1>6. ASSUME NEW i \in 1 .. Handler, NEW status, status \notin {"none", "0"}, NEW id,
             Answer(i, status, id), \A c : ~Enters(c), http => IDFits(id)
      PROVE  Correlated'
  <2>1. /\ wire = Nothing => wire'.header = header' /\ wire'.id = id
        /\ wire # Nothing => wire' = wire
    BY <1>6, AnswerFacts
  <2> QED
    BY <1>3, <1>4, <1>6, <2>1
<1>7. ASSUME NEW status, Rejects(status), \A c : ~Enters(c) PROVE Correlated'
  <2>1. pos \in 1 .. Handler
    BY <1>7, <1>0 DEF Rejects, Shape, TypeOK
  <2> QED
    BY <1>5, <1>6, <1>7, <2>1 DEF Rejects
<1>8. CASE Handles /\ \A c : ~Enters(c)
  <2>1. pos \in 1 .. Len(ctx) /\ pos = Handler
    BY <1>8, <1>0 DEF Handles, InHandler, Shape, TypeOK
  <2>2. IDFits(GetRequestID(ctx[pos]))
    BY <1>0, <2>1, IDAt DEF Handler, IDFits
  <2>3. CASE wire' = wire
    BY <1>3, <1>8, <2>3
  <2>4. ASSUME NEW status, status \notin {"none", "0"}, NEW id,
               id \in {Unset, GetRequestID(ctx[pos])}, Answer(pos, status, id)
        PROVE  Correlated'
    <3>1. IDFits(id) /\ pos \in 1 .. Handler
      BY <1>0, <1>5, <2>1, <2>2, <2>4 DEF Handler
    <3> QED
      BY <1>6, <1>8, <2>4, <3>1
  <2> QED
    BY <1>8, <2>3, <2>4 DEF Handles
<1>9. CASE HandlerReturns /\ \A c : ~Enters(c)
  <2>1. CASE wire' = wire
    BY <1>3, <1>9, <2>1
  <2>2. CASE ~http
    BY <1>1, <2>2 DEF Correlated
  <2> QED
    BY <1>9, <2>1, <2>2 DEF HandlerReturns
<1>10. CASE Recovers /\ \A c : ~Enters(c)
  <2>1. pos \in 1 .. Len(ctx) /\ pos \in 1 .. Len(chain) /\ chain[pos] = "recovery"
    BY <1>10, <1>0 DEF Recovers, Shape, TypeOK, Handler
  <2>2. IDFits(GetRequestID(ctx[pos]))
    <3>1. CASE \E i \in Positions("trace") : i < pos
      BY <2>1, <3>1, IDAt DEF IDFits
    <3>2. CASE ~\E i \in Positions("trace") : i < pos
      <4>1. GetRequestID(ctx[pos]) = Empty
        BY <2>1, <3>2, IDAt
      <4>2. \A i \in Positions("trace") : pos < i
        BY <1>0, <2>1, <3>2
      <4>3. pos \in Positions("recovery")
        BY <1>0, <2>1
      <4> QED
        BY <4>1, <4>2, <4>3 DEF IDFits
    <3> QED
      BY <3>1, <3>2
  <2>3. CASE http
    <3>1. pos \in 1 .. Handler /\ Answer(pos, "500", GetRequestID(ctx[pos]))
      BY <1>0, <1>10, <2>1, <2>3 DEF Recovers, ErrorJSON, Handler
    <3> QED
      BY <1>6, <1>10, <2>2, <3>1
  <2>4. CASE ~http
    BY <1>1, <2>4 DEF Correlated
  <2> QED
    BY <2>3, <2>4
<1>11. CASE ServerEnds /\ \A c : ~Enters(c)
  <2>1. wire' = wire \/ (wire'.header = header' /\ wire'.id = Unset)
    BY <1>11 DEF ServerEnds
  <2> QED
    BY <1>3, <1>4, <1>5, <1>11, <2>1
<1>12. CASE (HandlerPanics \/ Returns \/ Unwinds \/ UNCHANGED vars) /\ \A c : ~Enters(c)
  BY <1>3, <1>12 DEF HandlerPanics, Returns, Unwinds, vars, output
<1> QED
  BY <1>2, <1>7, <1>8, <1>9, <1>10, <1>11, <1>12 DEF Step

\* The logger logs what its wrapper knows.
LEMMA LoggedKept ==
  ASSUME TypeOK, Shape, Wrapped, Panics, Logged, Step
  PROVE  Logged'
<1> DEFINE Fits(status) == \/ wire # Nothing /\ status = wire.status
                           \/ panicked = "sent" /\ status = "500"
                           \/ mode = "out" /\ wire = Nothing /\ status = "200"
<1>0. /\ Len(chain) \in Nat /\ DOMAIN chain = 1 .. Len(chain)
      /\ pos \in 0 .. Handler /\ Handler = Len(chain) + 1
  BY ChainFacts DEF TypeOK, Handler
<1>1. http' <=> http
  BY Stays DEF Enters, Inward, Fixed, http
<1>2. CASE SameRecords("logger") /\ mode \notin {"out", "done"}
  BY <1>2 DEF SameRecords, Logged
<1>3. CASE Returns
  <2>1. /\ mode = "out" /\ mode' = "out" /\ UNCHANGED <<wire, seen, panicked>>
        /\ pos \in 1 .. Len(chain) /\ OnStack(pos)
    BY <1>3, <1>0 DEF Returns, Outward, output, Shape, OnStack, Entered, TypeOK
  <2>2. CASE chain[pos] # "logger"
    <3>1. logs' = logs
      BY <1>3, <2>2 DEF Returns, observed
    <3> QED
      BY <1>1, <2>1, <3>1 DEF Logged
  <2>3. CASE chain[pos] = "logger"
    <3>0. Handle("logger", "INFO", seen[pos], ctx[pos])
      BY <1>3, <2>3 DEF Returns
    <3>1. PICK new : logs' = logs \cup {new} /\ new.status = seen[pos]
      BY <3>0, HandleFacts
    <3>2. Fits(seen[pos]) /\ http
      BY <1>0, <2>1, <2>3 DEF Wrapped, Shape
    <3>3. SUFFICES ASSUME NEW r \in logs', r.by = "logger"
                   PROVE  Fits(r.status)
      BY <1>1, <2>1, <3>2 DEF Logged
    <3>4. CASE r \in logs
      BY <2>1, <3>3, <3>4 DEF Logged
    <3>5. CASE r = new
      BY <3>1, <3>2, <3>5
    <3> QED
      BY <3>1, <3>3, <3>4, <3>5
  <2> QED
    BY <2>2, <2>3
<1>4. CASE ServerEnds
  <2>1. /\ logs' = logs /\ panicked' = panicked /\ mode \in {"out", "panic"}
        /\ mode = "out" => /\ mode' = "done"
                           /\ wire' # Nothing
                           /\ wire # Nothing => wire' = wire
                           /\ wire = Nothing /\ http => wire'.status = "200"
    BY <1>4 DEF ServerEnds, observed, rest, Nothing
  <2> QED
    BY <1>1, <2>1 DEF Logged
<1>5. CASE UNCHANGED vars
  BY <1>1, <1>5 DEF vars, Logged, observed, output, rest
<1>6. \/ SameRecords("logger") /\ mode \notin {"out", "done"}
      \/ Returns \/ ServerEnds \/ UNCHANGED vars
  <2>1. OtherRecord \/ UNCHANGED observed => SameRecords("logger")
    BY OtherRecordsBy
  <2>2. Recovers => SameRecords("logger")
    BY RecordsBy DEF Recovers
  <2> QED
    BY <2>1, <2>2 DEF Step, Enters, Rejects, Handles, HandlerPanics, HandlerReturns, InHandler,
       Unwinds, Unwind, Recovers
<1> QED
  BY <1>2, <1>3, <1>4, <1>5, <1>6

\* The metrics count a request once, when it returns through their frame, and a panic
\* that passes them has no recovery frame inside theirs.
LEMMA CountedKept ==
  ASSUME TypeOK, Shape, Wrapped, Panics, Counted, Step
  PROVE  Counted'
<1> DEFINE Lost(i) == panicked # "no" /\ ~RecoveredInside(i)
           Sent == \/ wire # Nothing /\ counted = <<wire.status>>
                   \/ /\ counted = <<"0">>
                      /\ wire = Nothing \/ (mode = "done" /\ wire.status = "200")
<1>0. /\ \A m : Positions(m) = {i \in 1 .. Len(chain) : chain[i] = m}
      /\ Len(chain) \in Nat /\ pos \in 0 .. Handler /\ Handler = Len(chain) + 1
      /\ DOMAIN chain = 1 .. Len(chain)
      /\ \A i, j \in 1 .. Len(chain) : chain[i] = chain[j] => i = j
  BY PositionFacts, ChainFacts DEF TypeOK, Handler
<1>1. /\ chain' = chain /\ (http' <=> http) /\ \A m : Positions(m)' = Positions(m)
  BY Stays DEF Enters, Inward, Fixed, Positions, http
<1> SUFFICES ASSUME NEW i \in 1 .. Len(chain), chain[i] = "metrics"
             PROVE  IF Left(i)' /\ ~Lost(i)' THEN mode' \in {"out", "done"} /\ Sent'
                    ELSE counted' = <<>>
  BY <1>0, <1>1 DEF Counted
<1>2. /\ IF Left(i) /\ ~Lost(i) THEN mode \in {"out", "done"} /\ Sent ELSE counted = <<>>
      /\ http
  BY <1>0 DEF Counted, Shape
<1>3. ASSUME ~Left(i), ~Left(i)', counted' = counted
      PROVE  IF Left(i)' /\ ~Lost(i)' THEN mode' \in {"out", "done"} /\ Sent'
             ELSE counted' = <<>>
  BY <1>2, <1>3
<1>4. CASE mode = "in" /\ ~UNCHANGED vars
  <2>1. ~Left(i) /\ counted' = counted
    BY <1>4 DEF Left, Step, Enters, Rejects, Handles, HandlerPanics, HandlerReturns, Returns,
       Unwinds, Unwind, Recovers, ServerEnds, rest
  <2>2. CASE mode' = "in"
    BY <1>3, <2>1, <2>2 DEF Left
  <2>3. CASE mode' # "in"
    <3>1. ctx' = ctx /\ pos' = pos - 1 /\ pos = Len(ctx)
      BY <1>4, <2>3 DEF Step, Enters, Inward, Rejects, Handles, HandlerPanics, HandlerReturns,
         InHandler, Returns, Unwinds, Unwind, Recovers, ServerEnds, Outward, Shape
    <3>2. ~Left(i)'
      BY <1>0, <3>1 DEF Left, Entered
    <3> QED
      BY <1>3, <2>1, <3>2
  <2> QED
    BY <2>2, <2>3
<1>5. CASE UNCHANGED vars
  BY <1>2, <1>5 DEF vars, Left, Entered, RecoveredInside, Positions, output, rest
<1>6. ASSUME mode # "in", ctx' = ctx, panicked' = panicked
      PROVE  /\ RecoveredInside(i)' <=> RecoveredInside(i)
             /\ Lost(i)' <=> Lost(i)
             /\ panicked # "no" =>
                    (RecoveredInside(i) <=> \E j \in Positions("recovery") : j > i)
  BY <1>0, <1>1, <1>6 DEF RecoveredInside, Entered, Shape
<1>7. CASE Returns
  <2>1. /\ mode = "out" /\ mode' = "out" /\ pos \in 1 .. Len(chain) /\ pos' = pos - 1
        /\ UNCHANGED <<ctx, wire, seen, panicked>> /\ pos < Len(ctx)
        /\ counted' = IF chain[pos] = "metrics" THEN Append(counted, seen[pos]) ELSE counted
    BY <1>0, <1>7 DEF Returns, Outward, output, Shape
  <2>2. CASE i = pos
    <3>1. counted = <<>> /\ Left(i)'
      BY <1>2, <2>1, <2>2 DEF Left, Entered
    <3>2. ~Lost(i)
      BY <1>6, <2>1, <2>2 DEF Panics
    <3>3. seen[i] = IF wire = Nothing THEN "0" ELSE wire.status
      BY <1>0, <2>1, <2>2 DEF Wrapped, OnStack, Entered
    <3>4. counted' = <<seen[i]>>
      BY <2>1, <2>2, <3>1
    <3> QED
      BY <1>6, <2>1, <3>1, <3>2, <3>3, <3>4
  <2>3. CASE i # pos
    <3>1. counted' = counted /\ (Left(i)' <=> Left(i))
      BY <1>0, <2>1, <2>3 DEF Left, Entered
    <3> QED
      BY <1>2, <1>6, <2>1, <3>1
  <2> QED
    BY <2>2, <2>3
<1>8. CASE Unwinds \/ Recovers
  <2>1. /\ mode = "panic" /\ pos \in 1 .. Len(chain) /\ pos' = pos - 1
        /\ UNCHANGED <<ctx, panicked, counted>> /\ panicked # "no"
    BY <1>0, <1>8 DEF Unwinds, Unwind, Recovers, Outward, rest, Shape
  <2>2. counted = <<>>
    BY <1>2, <2>1
  <2>3. Left(i)' => pos <= i
    BY <1>0, <2>1 DEF Left
  <2>4. pos <= i => Lost(i)
    BY <1>0, <1>6, <2>1 DEF Panics
  <2> QED
    BY <1>6, <2>1, <2>2, <2>3, <2>4
<1>9. CASE ServerEnds
  <2>1. /\ mode \in {"out", "panic"} /\ pos = 0 /\ pos' = 0
        /\ UNCHANGED <<ctx, panicked, counted>> /\ mode' # "in"
        /\ mode = "out" => /\ mode' = "done" /\ wire' # Nothing
                           /\ wire # Nothing => wire' = wire
                           /\ wire = Nothing => wire'.status = "200"
    BY <1>2, <1>9 DEF ServerEnds, rest, Nothing
  <2>2. Left(i)' <=> Left(i)
    BY <2>1 DEF Left, Entered
  <2>3. CASE mode = "out"
    BY <1>2, <1>6, <2>1, <2>2, <2>3
  <2>4. CASE mode = "panic"
    <3>1. panicked # "no" /\ \A k \in Positions("recovery") : k <= pos
      BY <2>4 DEF Panics, Shape
    <3>2. ~RecoveredInside(i)
      BY <1>0, <2>1, <3>1 DEF RecoveredInside
    <3>3. Lost(i)
      BY <3>1, <3>2
    <3> QED
      BY <1>2, <1>6, <2>1, <2>4, <3>3
  <2> QED
    BY <2>1, <2>3, <2>4
<1> QED
  BY <1>4, <1>5, <1>7, <1>8, <1>9 DEF Step, Enters, Rejects, Handles, HandlerPanics,
     HandlerReturns, InHandler

-----------------------------------------------------------------------------
(* The invariant and the properties *)

\* A request starts in the outermost frame with an empty context.
LEMMA InitInv == Init => IInv
<1> SUFFICES ASSUME Init PROVE IInv
  OBVIOUS
<1>0. /\ chain \in Chains /\ req \in Requests
      /\ pos = 1 /\ mode = "in" /\ wire = Nothing /\ span = "none" /\ marked = "no"
      /\ query = "idle" /\ logs = {} /\ counted = <<>> /\ limited = Unset /\ panicked = "no"
      /\ ctx = << [span |-> Unset, trace |-> Unset, request |-> Unset,
                   principal |-> Unset, entry |-> Unset] >>
      /\ seen = [i \in DOMAIN chain |-> IF chain[i] = "logger" THEN "200" ELSE "0"]
  BY DEF Init
<1>1. IsChain(chain) /\ req \in Requests /\ Len(chain) \in Nat /\ DOMAIN chain = 1 .. Len(chain)
  <2>1. IsChain(chain)
    BY <1>0, PipelineAssumption
  <2> QED
    BY <1>0, <2>1 DEF IsChain
<1>2. Len(ctx) = 1 /\ ctx \in Seq(Context) /\ ctx[1].span = Unset /\ ctx[1].request = Unset
  <2>1. [span |-> Unset, trace |-> Unset, request |-> Unset, principal |-> Unset,
         entry |-> Unset] \in Context
    BY DEF Context, Values
  <2> QED
    BY <1>0, <2>1
<1>3. TypeOK
  BY <1>0, <1>1, <1>2 DEF TypeOK, Handler
<1>4. \A m : Positions(m) = {i \in 1 .. Len(chain) : chain[i] = m}
  BY <1>3, PositionFacts
<1>5. Shape
  <2>1. ASSUME NEW i \in DOMAIN chain, chain[i] \in {"logger", "metrics"} PROVE http
    <3>1. req.proto \in {"http", "grpc"}
      BY <1>1, PipelineAssumption DEF IsRequest, RequestType
    <3>2. req.proto # "grpc"
      BY <2>1 DEF Init
    <3> QED
      BY <3>1, <3>2 DEF http
  <2> QED
    BY <1>0, <1>1, <1>2, <2>1 DEF Shape, Handler, Ended
<1>6. Contexts
  BY <1>2, <1>4 DEF Contexts
<1>7. \A i \in 1 .. Len(chain) : ~Entered(i)
  BY <1>1, <1>2 DEF Entered
<1>8. \A m : \A i \in Positions(m) : ~Entered(i)
  BY <1>4, <1>7
<1>9. Unsent /\ Wrapped /\ SpanOpen
  <2>1. Wrapped
    BY <1>0, <1>1, <1>7 DEF Wrapped, OnStack
  <2> QED
    BY <1>0, <1>8, <2>1 DEF Unsent, SpanOpen, OnStack
<1>10. Panics /\ Marks /\ Logged
  BY <1>0 DEF Panics, Marks, Logged
<1>11. HeadersSet
  BY <1>8 DEF HeadersSet
<1>12. Correlated /\ Counted /\ LimitedAsPrincipal
  <2>1. Counted
    BY <1>0, <1>8 DEF Counted, Left
  <2> QED
    BY <1>0, <2>1 DEF Correlated, LimitedAsPrincipal
<1> QED
  BY <1>0, <1>3, <1>5, <1>6, <1>9, <1>10, <1>11, <1>12 DEF IInv

\* The request, its frames and what they have recorded stay consistent at every step.
THEOREM Invariance == Spec => []IInv
<1>1. IInv /\ [Next]_vars => IInv'
  <2> SUFFICES ASSUME IInv, [Next]_vars PROVE IInv'
    OBVIOUS
  <2> USE DEF IInv
  <2>1. Step
    BY StepKinds
  <2>2. TypeOK' /\ Shape' /\ Contexts' /\ HeadersSet' /\ LimitedAsPrincipal'
    BY <2>1, ControlKept, ContextsKept, HeadersKept, LimitKept
  <2>3. Unsent' /\ Wrapped' /\ Panics' /\ SpanOpen' /\ Marks'
    BY <2>1, UnsentKept, WrappedKept, PanicsKept, SpanKept, MarksKept
  <2>4. Correlated' /\ Logged' /\ Counted'
    BY <2>1, <2>2, CorrelatedKept, LoggedKept, CountedKept
  <2>5. mode' = "done" => wire' # Nothing
    <3>1. CASE ServerEnds
      BY <3>1 DEF ServerEnds, Nothing
    <3>2. CASE Recovers
      BY <3>2 DEF Recovers, Outward
    <3>3. CASE UNCHANGED vars
      BY <3>3 DEF vars, output
    <3>4. CASE Returns \/ Unwinds
      BY <3>4 DEF Returns, Unwinds, Unwind, Outward
    <3>5. CASE Handles \/ HandlerPanics \/ HandlerReturns
      BY <3>5 DEF Handles, HandlerPanics, HandlerReturns, InHandler
    <3>6. ASSUME NEW c, Enters(c) PROVE mode' # "done"
      BY <3>6 DEF Enters, Inward
    <3>7. ASSUME NEW status, Rejects(status) PROVE mode' # "done"
      BY <3>7 DEF Rejects, Outward
    <3> QED
      BY <2>1, <3>1, <3>2, <3>3, <3>4, <3>5, <3>6, <3>7 DEF Step
  <2> QED
    BY <2>2, <2>3, <2>4, <2>5
<1> QED
  BY <1>1, InitInv, PTL DEF Spec


\* MetricsMiddleware counts each request that returns to it once, with the status sent,
\* in every chain.
THEOREM RequestsCountedAsSent == Spec => []CountedAsSent
<1>1. IInv => CountedAsSent
  <2> SUFFICES ASSUME IInv, mode = "done", NEW i \in Positions("metrics"), Entered(i),
                      panicked = "no" \/ RecoveredInside(i)
               PROVE  counted = <<wire.status>> \/ (counted = <<"0">> /\ wire.status = "200")
    BY DEF CountedAsSent
  <2>1. pos = 0 /\ i \in 1 .. Len(chain)
    BY PositionFacts DEF IInv, Shape, Ended
  <2>2. Left(i)
    BY <2>1 DEF Left
  <2> QED
    BY <2>2 DEF IInv, Counted
<1> QED
  BY <1>1, Invariance, PTL

\* LoggerMiddleware logs the status that was sent, or PanicRecovery's 500.
THEOREM RequestsLoggedAsSent == Spec => []LoggedAsSent
<1>1. IInv => LoggedAsSent
  BY DEF IInv, Logged, LoggedAsSent
<1> QED
  BY <1>1, Invariance, PTL

\* Behind a recovery frame, wherever it stands, a handler's panic becomes a response and
\* a record, and the process lives.
THEOREM PanicsContained == Spec => []PanicContained
<1>1. IInv => PanicContained
  BY DEF IInv, Panics, PanicContained
<1> QED
  BY <1>1, Invariance, PTL

\* The request's span is open exactly while its frame is on the stack, and is marked
\* exactly by the errors logged in it.
THEOREM SpansFaithful == Spec => []SpanFaithful
<1>1. IInv => SpanFaithful
  <2> SUFFICES ASSUME IInv PROVE SpanFaithful
    OBVIOUS
  <2>1. ASSUME NEW i \in Positions("otel")
        PROVE  (span = "recording") <=> Entered(i) /\ (mode = "in" \/ (~Ended /\ pos >= i))
    <3>1. (span = "recording") <=> OnStack(i)
      BY DEF IInv, SpanOpen
    <3>2. i \in 1 .. Len(chain) /\ (Ended => pos = 0)
      BY PositionFacts DEF IInv, Shape
    <3> QED
      BY <3>1, <3>2 DEF OnStack, Ended
  <2> QED
    BY <2>1 DEF IInv, Marks, SpanFaithful
<1> QED
  BY <1>1, Invariance, PTL

\* The response carries the headers and the request id of the frames the request went
\* through, whoever writes it.
THEOREM ResponsesCorrelated == Spec => []Correlated
<1>1. IInv => Correlated
  BY DEF IInv
<1> QED
  BY <1>1, Invariance, PTL

\* Inside the authenticator the rate limit is the caller's own.
THEOREM LimitsByPrincipal == Spec => []LimitedAsPrincipal
<1>1. IInv => LimitedAsPrincipal
  BY DEF IInv
<1> QED
  BY <1>1, Invariance, PTL

=============================================================================
