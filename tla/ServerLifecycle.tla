--------------------------- MODULE ServerLifecycle --------------------------
(***************************************************************************)
(* server/server.go under app/app.go: Runner.Run of a function that loads  *)
(* its configuration, connects to its dependencies (each constructor pings *)
(* what it connects to) and calls Server.Start.  The HTTP and gRPC servers *)
(* run in goroutines that report through errChan; a signal cancels the     *)
(* context, and shutdown drains HTTP until a timeout and then gRPC without *)
(* one.  What net/http and grpc-go do on Shutdown, GracefulStop and Serve  *)
(* is modelled from how this code relies on it.                            *)
(***************************************************************************)
EXTENDS Integers

CONSTANT MaxRequests    \* bound: requests in progress in one server

ASSUME ServerAssumption == MaxRequests \in Nat

Servers == {"http", "grpc"}
Deps == {"postgres", "redis", "producer", "audit"}

VARIABLES
    enabled,    \* EnableHTTP, EnableGRPC
    signal,     \* "none" or "received": SIGINT or SIGTERM cancels ctx
    main,       \* where Run, its function, Start and shutdown are
    dep,        \* per dependency: "none", "ping", "open" or "closed"
    serve,      \* per server: where its goroutine is
    shut,       \* per server: "no", or "yes" once Shutdown or GracefulStop is called
    active,     \* per server: requests in progress
    errs,       \* messages in errChan
    timedOut,   \* "no", or "yes" when shutdownCtx ended HTTP's Shutdown
    failed      \* history: the servers that ended with an error

requests == <<shut, active, timedOut>>
goroutines == <<serve, errs, failed>>
vars == <<enabled, signal, main, dep, requests, goroutines>>

Alive == main \notin {"exit_0", "exit_1", "dead"}

\* Mutant: room for one error.
ErrChanCapOne == 1
\* make(chan error, 2)
ErrChanCap == 2

Init ==
    /\ enabled \in SUBSET Servers
    /\ signal = "none" /\ main = "load"
    /\ dep = [d \in Deps |-> "none"]
    /\ serve = [s \in Servers |-> "none"]
    /\ shut = [s \in Servers |-> "no"]
    /\ active = [s \in Servers |-> 0]
    /\ errs = 0 /\ timedOut = "no" /\ failed = {}

Signal ==
    /\ Alive /\ signal = "none"
    /\ signal' = "received"
    /\ UNCHANGED <<enabled, main, dep, requests, goroutines>>

\* The main goroutine goes on; nothing else changes unless said so.
Goto(here, there) ==
    /\ main = here /\ main' = there
    /\ UNCHANGED <<enabled, signal>>

\* A goroutine of the process panics and nothing recovers.
Panic ==
    /\ Alive /\ main \notin {"load", "connect"}
    /\ main' = "dead"
    /\ UNCHANGED <<enabled, signal, dep, requests, goroutines>>

-----------------------------------------------------------------------------
(* Start-up *)

\* envconfig and the validator accept the environment, or one of them does not.
Load ==
    /\ Goto("load", "connect") \/ Goto("load", "error")
    /\ UNCHANGED <<dep, requests, goroutines>>

\* A client is built, or cannot be; its constructor goes on to ping.
Open(d) ==
    /\ Goto("connect", "connect")
    /\ dep[d] = "none" /\ \A e \in Deps : dep[e] # "ping"
    /\ dep' = [dep EXCEPT ![d] = "ping"]
    /\ UNCHANGED <<requests, goroutines>>
OpenErr(d) ==
    /\ Goto("connect", "error")
    /\ dep[d] = "none" /\ \A e \in Deps : dep[e] # "ping"
    /\ UNCHANGED <<dep, requests, goroutines>>

NewPostgres == Open("postgres") \/ OpenErr("postgres")
NewRedis == Open("redis")
NewProducer == Open("producer") \/ OpenErr("producer")
NewKafkaLogger == Open("audit") \/ OpenErr("audit")

PingOk(d) ==
    /\ Goto("connect", "connect") /\ dep[d] = "ping"
    /\ dep' = [dep EXCEPT ![d] = "open"]
    /\ UNCHANGED <<requests, goroutines>>

\* No answer within the timeout: the client is closed and the error returned.
PingErr(d) ==
    /\ Goto("connect", "error") /\ dep[d] = "ping"
    /\ dep' = [dep EXCEPT ![d] = "closed"]
    /\ UNCHANGED <<requests, goroutines>>

Connected ==
    /\ Goto("connect", "start_http") /\ \A d \in Deps : dep[d] \notin {"none", "ping"}
    /\ UNCHANGED <<dep, requests, goroutines>>

StartUp ==
    \/ Load \/ NewPostgres \/ NewRedis \/ NewProducer \/ NewKafkaLogger \/ Connected
    \/ \E d \in Deps : PingOk(d) \/ PingErr(d)

-----------------------------------------------------------------------------
(* Start *)

\* loadMTLSConfig fails before anything runs.
MTLSConfigErr ==
    /\ Goto("start_http", "error") /\ "http" \in enabled
    /\ UNCHANGED <<dep, requests, goroutines>>

Spawn(s) == serve' = [serve EXCEPT ![s] = IF s \in enabled THEN "spawned" ELSE "none"]

SpawnHTTP ==
    /\ Goto("start_http", "start_grpc") /\ Spawn("http")
    /\ UNCHANGED <<dep, requests, errs, failed>>
SpawnGRPC ==
    /\ Goto("start_grpc", "select") /\ Spawn("grpc")
    /\ UNCHANGED <<dep, requests, errs, failed>>

\* The two ready cases of a select are picked from at random.
SelectDone ==
    /\ Goto("select", "http_shutdown") /\ signal = "received"
    /\ shut' = [shut EXCEPT !["http"] = "yes"]
    /\ UNCHANGED <<dep, active, timedOut, goroutines>>

SelectErr ==
    /\ Goto("select", "error") /\ errs > 0
    /\ errs' = errs - 1
    /\ UNCHANGED <<dep, requests, serve, failed>>

-----------------------------------------------------------------------------
(* shutdown *)

ToGRPC ==
    /\ Goto("http_shutdown", "grpc_stop")
    /\ shut' = [shut EXCEPT !["grpc"] = "yes"]
    /\ UNCHANGED <<dep, active, goroutines>>

HTTPDrained == active["http"] = 0 /\ ToGRPC /\ UNCHANGED timedOut

\* shutdownCtx is done: the error is logged.
HTTPTimeout == active["http"] # 0 /\ ToGRPC /\ timedOut' = "yes"

\* Mutant: Stop instead of GracefulStop.
GRPCStopped ==
    /\ Goto("grpc_stop", "nil") /\ serve["grpc"] # "serving"
    /\ UNCHANGED <<dep, requests, goroutines>>
\* GracefulStop waits for Serve and for every call.
GRPCDrained ==
    /\ Goto("grpc_stop", "nil") /\ serve["grpc"] # "serving" /\ active["grpc"] = 0
    /\ UNCHANGED <<dep, requests, goroutines>>

\* Run: os.Exit(1) on an error; otherwise it waits for the context.
Exit ==
    /\ \/ Goto("error", "exit_1")
       \/ Goto("nil", "exit_0") /\ signal = "received"
    /\ UNCHANGED <<dep, requests, goroutines>>

-----------------------------------------------------------------------------
(* The goroutines *)

Goes(s, there) ==
    /\ Alive
    /\ serve' = [serve EXCEPT ![s] = there]
    /\ UNCHANGED <<enabled, signal, main, dep, requests>>

Serve(s) ==
    /\ serve[s] = "spawned" /\ shut[s] = "no"
    /\ Goes(s, "serving")
    /\ UNCHANGED <<errs, failed>>

\* Mutant: a server that ends with an error is only logged.
ServeErrLogged(s) ==
    /\ \/ serve[s] = "spawned"
       \/ serve[s] = "serving" /\ shut[s] = "no"
    /\ Goes(s, "done")
    /\ failed' = failed \cup {s}
    /\ UNCHANGED errs
\* The port is taken, a certificate is missing, or Accept fails.
ServeErr(s) ==
    /\ \/ serve[s] = "spawned"
       \/ serve[s] = "serving" /\ shut[s] = "no"
    /\ Goes(s, "send")
    /\ failed' = failed \cup {s}
    /\ UNCHANGED errs

\* http.ErrServerClosed, also when Shutdown came before ListenAndServe, and nil
\* from a gRPC server that was serving, are not errors.
ServeClosed(s) ==
    /\ shut[s] = "yes"
    /\ serve[s] = "serving" \/ (s = "http" /\ serve[s] = "spawned")
    /\ Goes(s, "done")
    /\ UNCHANGED <<errs, failed>>

\* grpc.ErrServerStopped: Serve after GracefulStop.
ServeAfterStop ==
    /\ serve["grpc"] = "spawned" /\ shut["grpc"] = "yes"
    /\ Goes("grpc", "send")
    /\ UNCHANGED <<errs, failed>>

\* errChan <- err
Send(s) ==
    /\ serve[s] = "send" /\ errs < ErrChanCap
    /\ errs' = errs + 1
    /\ Goes(s, "done")
    /\ UNCHANGED failed

\* Requests come while the server serves, and end.
Request(s, n) ==
    /\ Alive
    /\ active' = [active EXCEPT ![s] = @ + n]
    /\ UNCHANGED <<enabled, signal, main, dep, shut, timedOut, goroutines>>
Arrive(s) ==
    serve[s] = "serving" /\ shut[s] = "no" /\ active[s] < MaxRequests /\ Request(s, 1)
Finish(s) == active[s] > 0 /\ Request(s, -1)

-----------------------------------------------------------------------------
MainStep ==
    \/ StartUp
    \/ SpawnHTTP \/ SpawnGRPC \/ MTLSConfigErr
    \/ SelectDone \/ SelectErr
    \/ HTTPDrained \/ HTTPTimeout \/ GRPCDrained \/ Exit
ServeStep(s) == Serve(s) \/ ServeClosed(s) \/ Send(s)

Next ==
    \/ Signal \/ Panic \/ MainStep \/ ServeAfterStop
    \/ \E s \in Servers : ServeStep(s) \/ ServeErr(s) \/ Arrive(s) \/ Finish(s)

Spec == Init /\ [][Next]_vars

-----------------------------------------------------------------------------
(* Properties *)

TypeOK ==
    /\ enabled \subseteq Servers /\ failed \subseteq Servers
    /\ signal \in {"none", "received"}
    /\ main \in {"load", "connect", "start_http", "start_grpc", "select", "http_shutdown",
                 "grpc_stop", "error", "nil", "exit_0", "exit_1", "dead"}
    /\ dep \in [Deps -> {"none", "ping", "open", "closed"}]
    /\ serve \in [Servers -> {"none", "spawned", "serving", "send", "done"}]
    /\ shut \in [Servers -> {"no", "yes"}]
    /\ active \in [Servers -> 0 .. MaxRequests]
    /\ errs \in 0 .. ErrChanCap
    /\ timedOut \in {"no", "yes"}

\* errChan (server.go:52) has room for every error ever sent, so a goroutine never
\* hangs on it, also when Start has gone on to shutdown and nobody reads.
SendersNeverBlock == \A s \in Servers : serve[s] = "send" => errs < ErrChanCap

\* When Start returns nil (server.go:107) no server takes requests and none is in
\* progress, except HTTP requests that outlived the timeout.
ReturnsDrained ==
    main \in {"nil", "exit_0"} =>
        \A s \in Servers :
            /\ ~(serve[s] \in {"spawned", "serving"} /\ shut[s] = "no")
            /\ active[s] = 0 \/ (s = "http" /\ timedOut = "yes")

\* "All critical dependencies (Redis, Postgres, Kafka) are pinged immediately upon
\* startup [...] We do not allow zombie states" (README.md:150): Start runs only with
\* every dependency reached, and no constructor leaves a client behind unpinged.
FailFast ==
    /\ main \in {"start_http", "start_grpc", "select", "http_shutdown", "grpc_stop"} =>
           \A d \in Deps : dep[d] = "open"
    /\ main \notin {"load", "connect"} => \A d \in Deps : dep[d] # "ping"
=============================================================================
