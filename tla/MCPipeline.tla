----------------------------- MODULE MCPipeline -----------------------------
(* Every arrangement of any choice from four groups of middlewares. *)
EXTENDS Pipeline, SequencesExt

Orders(S) == UNION {SetToSeqs(T) : T \in SUBSET S}

MCChains ==
    Orders({"recovery", "logger", "metrics", "otel"})
    \cup Orders({"recovery", "trace", "otel", "idempotency"})
    \cup Orders({"recovery", "otel", "auth", "ratelimit"})
    \cup Orders({"recovery", "metrics", "trace", "security"})

MCRequests ==
    [proto : {"http"}, path : {"health", "ready"}, token : {Empty}, traceID : {Empty},
     requestID : {Empty}, key : {Empty}]
    \cup [proto : {"http"}, path : {"api"}, token : {Empty, "subject"}, traceID : {Empty, "t"},
          requestID : {"r"}, key : {"k"}]
    \cup [proto : {"http", "grpc"}, path : {"api"}, token : {"malformed", "invalid", "no_subject", "subject"},
          traceID : {Empty}, requestID : {Empty}, key : {Empty}]
=============================================================================
