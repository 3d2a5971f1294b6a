------------------------------- MODULE Process ------------------------------
(***************************************************************************)
(* One process: Runner.Run of a function that connects to its              *)
(* dependencies, starts the consumers, runs the servers and, when          *)
(* Server.Start has returned, closes the consumers and then the Kafka      *)
(* clients.  ServerLifecycle, ConsumerManager and KafkaClients share the   *)
(* context a signal cancels, the clients and the life of the process.  The *)
(* function belongs to the application; its order is that of the README's  *)
(* quick start with the Close calls deferred.                              *)
(***************************************************************************)
EXTENDS ServerLifecycle, FiniteSets

CONSTANTS Consumers, Events, Messages

ASSUME ProcessAssumption ==
    IsFiniteSet(Consumers) /\ IsFiniteSet(Events) /\ Events \cap Messages = {}

VARIABLES loop, client, held, wg, mgr,      \* ConsumerManager
          fate, told, topic, reported, late \* KafkaClients

Manager == INSTANCE ConsumerManager WITH
    main <- mgr,
    ctx <- IF signal = "none" THEN "live" ELSE "canceled",
    process <- IF Alive THEN "up" ELSE "dead"
Kafka == INSTANCE KafkaClients

consumers == <<loop, client, held, wg, mgr>>
written == <<fate, told, topic, reported, late>>
processVars == <<vars, consumers, written>>

ProcessInit == Init /\ Manager!Init /\ Kafka!Init

Returned == main \in {"error", "nil"}

-----------------------------------------------------------------------------
\* The function goes on: the consumers are started before the servers, and Run gets
\* its result after the deferred calls.
Cleaned == mgr \in {"starting", "closed"} /\ \A c \in {"audit", "producer"} : dep[c] # "open"
Main ==
    /\ main = "start_http" => mgr = "serving"
    /\ Returned => Cleaned
    /\ MainStep
    /\ UNCHANGED <<consumers, written>>

Around ==
    /\ \/ Signal \/ ServeAfterStop
       \/ \E s \in Servers : ServeErr(s) \/ Arrive(s) \/ Finish(s)
    /\ UNCHANGED <<consumers, written>>
Goroutine(s) == ServeStep(s) /\ UNCHANGED <<consumers, written>>

\* A panic of a gRPC handler whose chain has no GRPCRecoveryInterceptor.
HandlerPanic ==
    /\ active["grpc"] > 0 /\ Panic
    /\ UNCHANGED <<consumers, written>>

ManagerMain ==
    /\ mgr = "starting" => main = "start_http"
    /\ mgr = "serving" => Returned
    /\ UNCHANGED <<vars, written>>
    /\ Manager!MainStep \/ Manager!CloseCalled

LoopStops(c) == UNCHANGED <<vars, written>> /\ Manager!LoopStopOnCancel(c)
LoopStep(c) ==
    /\ UNCHANGED <<vars, written>>
    /\ Manager!Poll(c) \/ Manager!LoopFail(c)
LoopPanic(c) == Panic /\ Manager!LoopPanic(c) /\ UNCHANGED written

\* Handlers log and publish; a consumer publishes dead letters.
Handling == \E s \in Servers : active[s] > 0
Write ==
    /\ Alive /\ UNCHANGED <<vars, consumers>>
    /\ \/ Handling /\ \E e \in Events : Kafka!Log(e)
       \/ /\ Handling \/ \E c \in Consumers : loop[c] = "running"
          /\ \E m \in Messages : Kafka!Publish(m)
Settle ==
    /\ Alive /\ UNCHANGED <<vars, consumers>>
    /\ \E r \in Events \cup Messages : Kafka!Ack(r) \/ Kafka!Fail(r)

CloseClient(c) ==
    /\ Returned /\ mgr \in {"starting", "closed"}
    /\ Kafka!Close(c)
    /\ UNCHANGED <<enabled, signal, main, requests, goroutines, consumers, written>>
CloseClients == \E c \in {"audit", "producer"} : CloseClient(c)

ProcessNext ==
    \/ Main \/ Around \/ HandlerPanic \/ ManagerMain
    \/ \E s \in Servers : Goroutine(s)
    \/ \E c \in Consumers : LoopStops(c) \/ LoopStep(c) \/ LoopPanic(c)
    \/ Write \/ Settle \/ CloseClients

ProcessSpec == ProcessInit /\ [][ProcessNext]_processVars

\* Goroutines that can move do, timeouts included; records are stored or given up.
\* Nothing is said of handlers: a request may never end.
FairSpec ==
    /\ ProcessSpec
    /\ WF_processVars(Main)
    /\ \A s \in Servers : WF_processVars(Goroutine(s))
    /\ WF_processVars(ManagerMain)
    /\ \A c \in Consumers : WF_processVars(LoopStops(c))
    /\ WF_processVars(Settle) /\ WF_processVars(CloseClients)

-----------------------------------------------------------------------------
(* Properties *)

\* When Close of the manager returns no consumer goroutine is left (manager.go:41).
CloseWaitsForAll == Manager!CloseWaitsForAll

\* A message whose Publish returned nil is in its topic (producer.go:51).
PublishedIsStored == Kafka!PublishedIsStored

\* An orderly stop loses no audit event silently (kafka_logger.go:74): at exit 0 each
\* event Log accepted is in the topic or its loss was logged.  The one exception is an
\* event logged to the closed client by an HTTP request that outlived the shutdown
\* timeout; what was logged before Close is settled, timeout or not.
AuditSettledAtExit ==
    main = "exit_0" =>
        \A e \in Events : Kafka!Settled(e) \/ (timedOut = "yes" /\ e \in late)

\* What the process can wait for without end: a gRPC call (server.go:124), a client
\* that has polled records (consumer.go:66), or a loop that only a canceled context
\* stops (manager.go:45).
StuckRPC == main = "grpc_stop" /\ active["grpc"] > 0
StuckClose ==
    /\ mgr = "closing"
    /\ \/ held \cap {c \in Consumers : client[c] = "open"} # {}
       \/ signal = "none" /\ Manager!Running # {}

\* After a signal or the failure of a server the process ends, or it waits for one
\* of those for ever; nothing else holds it up.
EndsWhenAsked ==
    (signal = "received" \/ failed # {}) ~> (~Alive \/ []StuckRPC \/ []StuckClose)

-----------------------------------------------------------------------------
(* The inductive invariant *)

\* Start-up goes forward: nothing is spawned before its turn, and until Start runs a
\* client that was closed is an error on its way out.
StartsInOrder ==
    /\ main \in {"load", "connect", "start_http"} => serve["http"] = "none"
    /\ main \in {"load", "connect", "start_http", "start_grpc"} => serve["grpc"] = "none"
    /\ main = "load" => \A d \in Deps : dep[d] = "none"
    /\ main = "connect" => \A d \in Deps : dep[d] # "closed"
    /\ \A d, e \in Deps : dep[d] = "ping" /\ dep[e] = "ping" => d = e

\* A goroutine sends at most once, and is done then.
One(s) == IF serve[s] = "done" THEN 1 ELSE 0
ErrRoom == errs <= One("http") + One("grpc")

\* shutdown works through the servers in order.
ShutInOrder ==
    /\ main = "http_shutdown" => shut["http"] = "yes"
    /\ main \in {"grpc_stop", "nil", "exit_0"} =>
           /\ \A s \in Servers : shut[s] = "yes"
           /\ active["http"] = 0 \/ timedOut = "yes"
    /\ main \in {"nil", "exit_0"} => active["grpc"] = 0

\* What became of a record.
Fates ==
    \A r \in Events \cup Messages :
        /\ fate[r] = "none" => told[r] # "nil"
        /\ fate[r] = "stored" => r \in topic
        /\ fate[r] = "failed" => r \in reported
        /\ r \in Messages => (told[r] = "nil" => fate[r] = "stored")

\* After an orderly stop only a request past the timeout writes to the closed logger.
NothingAfterClose ==
    /\ main \in {"nil", "exit_0"} => dep["audit"] \in {"open", "closed"}
    /\ main = "exit_0" => dep["audit"] = "closed"
    /\ main \in {"nil", "exit_0"} /\ dep["audit"] = "closed" =>
           \A e \in Events : fate[e] = "buffered" => timedOut = "yes" /\ e \in late

\* The WaitGroup counts the goroutines that run.
ManagerInv ==
    /\ Manager!TypeOK /\ CloseWaitsForAll
    /\ wg = Cardinality(Manager!Running)

ServerInv ==
    TypeOK /\ StartsInOrder /\ FailFast /\ ErrRoom /\ SendersNeverBlock /\ ShutInOrder
IInv ==
    /\ ServerInv /\ ManagerInv
    /\ Kafka!TypeOK /\ Fates
    /\ NothingAfterClose
=============================================================================
