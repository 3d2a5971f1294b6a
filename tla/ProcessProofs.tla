---------------------------- MODULE ProcessProofs ---------------------------
(***************************************************************************)
(* Proofs about Process: the servers, the consumers and the Kafka clients  *)
(* of one process, for every set of consumers and records and every number *)
(* of requests.                                                            *)
(***************************************************************************)
EXTENDS Process, FiniteSetTheorems, TLAPS

-----------------------------------------------------------------------------
(* The servers *)

\* Start-up and Start's own steps.
LEMMA StartUpStep == ASSUME ServerInv, StartUp PROVE ServerInv'
<1> USE ServerAssumption DEF ServerInv, TypeOK, StartsInOrder, FailFast, ErrRoom, One,
        SendersNeverBlock, ShutInOrder, ErrChanCap, Servers, Deps, Goto, requests, goroutines
<1>1. CASE Load
  BY <1>1 DEF Load
<1>2. ASSUME NEW d \in Deps, Open(d) PROVE ServerInv'
  BY <1>2 DEF Open
<1>3. ASSUME NEW d \in Deps, OpenErr(d) PROVE ServerInv'
  BY <1>3 DEF OpenErr
<1>4. ASSUME NEW d \in Deps, PingOk(d) PROVE ServerInv'
  BY <1>4 DEF PingOk
<1>5. ASSUME NEW d \in Deps, PingErr(d) PROVE ServerInv'
  BY <1>5 DEF PingErr
<1>6. CASE Connected
  BY <1>6 DEF Connected
<1> QED
  BY <1>1, <1>2, <1>3, <1>4, <1>5, <1>6
  DEF StartUp, NewPostgres, NewRedis, NewProducer, NewKafkaLogger

\* The steps of main.
LEMMA MainKeeps == ASSUME ServerInv, MainStep PROVE ServerInv'
<1> USE ServerAssumption DEF ServerInv, TypeOK, StartsInOrder, FailFast, ErrRoom, One,
        SendersNeverBlock, ShutInOrder, ErrChanCap, Servers, Deps, Goto, requests, goroutines
<1>1. CASE StartUp
  BY <1>1, StartUpStep
<1>2. CASE SpawnHTTP
  BY <1>2 DEF SpawnHTTP, Spawn
<1>3. CASE SpawnGRPC
  BY <1>3 DEF SpawnGRPC, Spawn
<1>4. CASE MTLSConfigErr
  BY <1>4 DEF MTLSConfigErr
<1>5. CASE SelectDone
  BY <1>5 DEF SelectDone
<1>6. CASE SelectErr
  BY <1>6 DEF SelectErr
<1>7. CASE HTTPDrained
  BY <1>7 DEF HTTPDrained, ToGRPC
<1>8. CASE HTTPTimeout
  BY <1>8 DEF HTTPTimeout, ToGRPC
<1>9. CASE GRPCDrained
  BY <1>9 DEF GRPCDrained
<1>10. CASE Goto("error", "exit_1") /\ UNCHANGED <<dep, requests, goroutines>>
  BY <1>10
<1>11. CASE Goto("nil", "exit_0") /\ UNCHANGED <<dep, requests, goroutines>>
  BY <1>11
<1>12. CASE Exit
  BY <1>10, <1>11, <1>12 DEF Exit
<1> QED
  BY <1>1, <1>2, <1>3, <1>4, <1>5, <1>6, <1>7, <1>8, <1>9, <1>12 DEF MainStep

\* A goroutine that goes on, with the errors it leaves in errChan.
LEMMA GoesKeeps ==
  ASSUME ServerInv, NEW s \in Servers, NEW there \in {"serving", "send", "done"},
         serve[s] \notin {"none", "done"}, Goes(s, there),
         errs' = IF serve[s] = "send" THEN errs + 1 ELSE errs,
         serve[s] = "send" => there = "done" /\ errs < ErrChanCap,
         failed' \subseteq Servers
  PROVE  ServerInv'
<1> USE ServerAssumption DEF ServerInv, Goes, requests
<1>1. TypeOK'
  BY DEF TypeOK, ErrChanCap
<1>2. StartsInOrder' /\ FailFast' /\ ShutInOrder'
  BY DEF StartsInOrder, FailFast, ShutInOrder, TypeOK, Servers, Deps
<1>3. /\ errs \in Nat /\ errs <= One("http") + One("grpc")
      /\ "http" \in DOMAIN serve /\ "grpc" \in DOMAIN serve
  BY DEF ErrRoom, TypeOK, Servers, ErrChanCap
<1>4. ErrRoom' /\ SendersNeverBlock'
  <2>1. CASE s = "http"
    BY <1>3, <2>1 DEF ErrRoom, One, ErrChanCap, SendersNeverBlock, Servers
  <2>2. CASE s = "grpc"
    BY <1>3, <2>2 DEF ErrRoom, One, ErrChanCap, SendersNeverBlock, Servers
  <2> QED
    BY <2>1, <2>2 DEF Servers
<1> QED
  BY <1>1, <1>2, <1>3, <1>4

\* A request that arrives at a server not shut down, or ends.
LEMMA RequestKeeps ==
  ASSUME ServerInv, NEW s \in Servers, Arrive(s) \/ Finish(s)
  PROVE  ServerInv'
<1> USE ServerAssumption DEF ServerInv, Arrive, Finish, Request, requests, goroutines
<1>1. active \in [Servers -> 0 .. MaxRequests] /\ active[s] \in 0 .. MaxRequests
  BY DEF TypeOK
<1>2. active' \in [Servers -> 0 .. MaxRequests]
  <2>1. CASE Arrive(s)
    BY <1>1, <2>1
  <2>2. CASE Finish(s)
    BY <1>1, <2>2
  <2> QED
    BY <2>1, <2>2
<1>3. TypeOK'
  BY <1>2 DEF TypeOK, ErrChanCap, Deps
<1>4. StartsInOrder' /\ FailFast' /\ ErrRoom' /\ SendersNeverBlock'
  BY DEF StartsInOrder, FailFast, ErrRoom, One, SendersNeverBlock
<1>5. ShutInOrder'
  BY <1>1 DEF ShutInOrder, Servers
<1> QED
  BY <1>3, <1>4, <1>5

\* The steps of the server goroutines.
LEMMA GoroutineKeeps ==
  ASSUME ServerInv, NEW s \in Servers, ServeStep(s) \/ ServeErr(s) \/ ServeAfterStop
  PROVE  ServerInv'
<1> USE DEF ServerInv, TypeOK
<1>1. CASE Serve(s)
  BY <1>1, GoesKeeps DEF Serve
<1>2. CASE ServeClosed(s)
  BY <1>2, GoesKeeps DEF ServeClosed
<1>3. CASE Send(s)
  BY <1>3, GoesKeeps DEF Send
<1>4. CASE ServeErr(s)
  BY <1>4, GoesKeeps DEF ServeErr
<1>5. CASE ServeAfterStop
  BY <1>5, GoesKeeps DEF ServeAfterStop, Servers
<1> QED
  BY <1>1, <1>2, <1>3, <1>4, <1>5 DEF ServeStep

\* A signal, or the death of the process.
LEMMA EventKeeps == ASSUME ServerInv, Signal \/ Panic PROVE ServerInv'
<1> USE DEF ServerInv, Signal, Panic, requests, goroutines
<1>1. TypeOK' /\ StartsInOrder' /\ FailFast'
  BY DEF TypeOK, StartsInOrder, FailFast
<1>2. ErrRoom' /\ SendersNeverBlock' /\ ShutInOrder'
  BY DEF ErrRoom, One, SendersNeverBlock, ShutInOrder
<1> QED
  BY <1>1, <1>2

\* Every step of server.go and app.go keeps its invariant.
LEMMA ServerKeeps == ASSUME ServerInv, [Next]_vars PROVE ServerInv'
<1>1. CASE UNCHANGED vars
  BY <1>1 DEF vars, requests, goroutines, ServerInv, TypeOK, StartsInOrder, FailFast,
     ErrRoom, One, SendersNeverBlock, ShutInOrder
<1>2. CASE ServeAfterStop
  BY <1>2, GoroutineKeeps DEF Servers
<1> QED
  BY <1>1, <1>2, MainKeeps, GoroutineKeeps, RequestKeeps, EventKeeps DEF Next

\* So does closing a Kafka client after Start has returned.
LEMMA CloseKeeps == ASSUME ServerInv, NEW c \in Deps, CloseClient(c) PROVE ServerInv'
  BY DEF CloseClient, Returned, Kafka!Close, ServerInv, TypeOK, StartsInOrder, FailFast,
         ErrRoom, One, SendersNeverBlock, ShutInOrder, requests, goroutines

-----------------------------------------------------------------------------
(* The consumers *)

\* The goroutines can be counted.
LEMMA RunningFinite ==
  IsFiniteSet(Manager!Running) /\ Cardinality(Manager!Running) \in Nat
<1>1. IsFiniteSet(Manager!Running)
  BY ProcessAssumption, FS_Subset DEF Manager!Running
<1> QED
  BY <1>1, FS_CardinalityType

\* wg.Add and a new goroutine.
LEMMA StartOneKeeps ==
  ASSUME ManagerInv, NEW c \in Consumers, Manager!StartOne(c) PROVE ManagerInv'
<1> USE DEF ManagerInv, Manager!StartOne, Manager!TypeOK
<1>1. Manager!Running' = Manager!Running \cup {c} /\ c \notin Manager!Running
  BY DEF Manager!Running
<1>2. Cardinality(Manager!Running') = Cardinality(Manager!Running) + 1
  BY <1>1, RunningFinite, FS_AddElement
<1> QED
  BY <1>2, RunningFinite DEF CloseWaitsForAll, Manager!CloseWaitsForAll

\* A goroutine that returns, and its deferred wg.Done.
LEMMA ReturnKeeps ==
  ASSUME ManagerInv, NEW c \in Consumers, NEW how \in {"nil", "error"},
         Manager!Return(c, how)
  PROVE  ManagerInv'
<1> USE DEF ManagerInv, Manager!Return, Manager!TypeOK
<1>1. Manager!Running' = Manager!Running \ {c} /\ c \in Manager!Running
  BY DEF Manager!Running
<1>2. /\ Cardinality(Manager!Running') = Cardinality(Manager!Running) - 1
      /\ Cardinality(Manager!Running') \in Nat
  BY <1>1, RunningFinite, FS_RemoveElement, FS_CardinalityType
<1> QED
  BY <1>1, <1>2 DEF CloseWaitsForAll, Manager!CloseWaitsForAll

\* Close returns when the counter is zero: nothing runs then.
LEMMA CloseReturnsKeeps == ASSUME ManagerInv, Manager!CloseReturns PROVE ManagerInv'
<1> USE DEF ManagerInv, Manager!CloseReturns, Manager!TypeOK
<1>1. Manager!Running = {}
  BY RunningFinite, FS_EmptySet
<1>2. Manager!Running' = Manager!Running
  BY DEF Manager!Running
<1> QED
  BY <1>1, <1>2 DEF CloseWaitsForAll, Manager!CloseWaitsForAll

\* The steps that start and stop no goroutine.
LEMMA OthersKeep ==
  ASSUME ManagerInv,
         \/ Manager!StartReturns \/ Manager!CloseCalled \/ UNCHANGED consumers
         \/ \E c \in Consumers :
                Manager!Poll(c) \/ Manager!CloseOne(c) \/ Manager!LoopPanic(c)
  PROVE  ManagerInv'
<1>1. loop' = loop /\ wg' = wg
  BY DEF Manager!StartReturns, Manager!CloseCalled, Manager!Poll, Manager!CloseOne,
         Manager!LoopPanic, consumers
<1>2. Manager!Running' = Manager!Running
  BY <1>1 DEF Manager!Running
<1>3. client' \in [Consumers -> {"open", "closed"}] /\ held' \subseteq Consumers
  BY DEF ManagerInv, Manager!TypeOK, Manager!StartReturns, Manager!CloseCalled,
         Manager!Poll, Manager!CloseOne, Manager!LoopPanic, consumers
<1>4. mgr' \in {"starting", "serving", "closing", "closed"} /\ (mgr' = "closed" => mgr = "closed")
  BY DEF ManagerInv, Manager!TypeOK, Manager!StartReturns, Manager!CloseCalled,
         Manager!Poll, Manager!CloseOne, Manager!LoopPanic, consumers
<1> QED
  BY <1>1, <1>2, <1>3, <1>4
  DEF ManagerInv, Manager!TypeOK, CloseWaitsForAll, Manager!CloseWaitsForAll

-----------------------------------------------------------------------------
(* The records *)

\* What Log, Publish, an acknowledgement and a failure do to a record.
LEMMA RecordsKeep ==
  ASSUME Kafka!TypeOK, Fates, Write \/ Settle
  PROVE  Kafka!TypeOK' /\ Fates'
<1> USE DEF Kafka!TypeOK, Kafka!Records, Fates
<1>1. ASSUME NEW e \in Events, Kafka!Log(e) PROVE Kafka!TypeOK' /\ Fates'
  BY <1>1, ProcessAssumption DEF Kafka!Log
<1>2. ASSUME NEW m \in Messages, Kafka!Publish(m) PROVE Kafka!TypeOK' /\ Fates'
  BY <1>2 DEF Kafka!Publish
<1>3. ASSUME NEW r \in Events \cup Messages, Kafka!Ack(r) PROVE Kafka!TypeOK' /\ Fates'
  BY <1>3 DEF Kafka!Ack
<1>4. ASSUME NEW r \in Events \cup Messages, Kafka!Fail(r) PROVE Kafka!TypeOK' /\ Fates'
  BY <1>4 DEF Kafka!Fail
<1> QED
  BY <1>1, <1>2, <1>3, <1>4 DEF Write, Settle

\* After Start has returned nil only an HTTP request past the timeout is left to log an
\* event, and the logger it is handed to is closed.
LEMMA WriteAfterClose ==
  ASSUME IInv, Write \/ Settle
  PROVE  NothingAfterClose'
<1> USE DEF IInv, NothingAfterClose, vars, Kafka!TypeOK, Kafka!Records
<1>1. main' = main /\ timedOut' = timedOut /\ dep' = dep
  BY DEF Write, Settle, requests
<1>2. SUFFICES ASSUME main \in {"nil", "exit_0"}, dep["audit"] = "closed", NEW e \in Events,
                      fate'[e] = "buffered"
               PROVE  timedOut = "yes" /\ e \in late'
  BY <1>1
<1>3. fate[e] = "buffered" => timedOut = "yes" /\ e \in late
  BY <1>2
<1>4. Handling => timedOut = "yes"
  BY <1>2 DEF ServerInv, TypeOK, ShutInOrder, Handling, Servers
<1>5. ASSUME NEW f \in Events, Handling, Kafka!Log(f) PROVE timedOut = "yes" /\ e \in late'
  BY <1>2, <1>3, <1>4, <1>5 DEF Kafka!Log
<1>6. ASSUME NEW m \in Messages, Kafka!Publish(m) PROVE timedOut = "yes" /\ e \in late'
  BY <1>2, <1>3, <1>6, ProcessAssumption DEF Kafka!Publish
<1>7. ASSUME NEW r \in Events \cup Messages, Kafka!Ack(r) \/ Kafka!Fail(r)
      PROVE  timedOut = "yes" /\ e \in late'
  BY <1>2, <1>3, <1>7 DEF Kafka!Ack, Kafka!Fail
<1> QED
  BY <1>5, <1>6, <1>7 DEF Write, Settle

\* main returns nil with every client open and exits with the logger closed.
LEMMA MainAfterClose == ASSUME IInv, Main PROVE NothingAfterClose'
<1> USE DEF IInv, NothingAfterClose, Goto, requests, goroutines
<1>1. fate' = fate /\ late' = late
  BY DEF Main, written
<1>2. CASE main' \notin {"nil", "exit_0"}
  BY <1>2
<1>3. CASE Exit /\ main = "nil"
  BY <1>1, <1>3 DEF Exit, Main, Returned, Cleaned
<1>4. CASE GRPCDrained
  BY <1>4 DEF GRPCDrained, ServerInv, FailFast, Deps
<1>5. main' \in {"nil", "exit_0"} => GRPCDrained \/ (Exit /\ main = "nil")
  BY DEF Main, MainStep, StartUp, Load, NewPostgres, NewRedis, NewProducer, NewKafkaLogger,
     Open, OpenErr, PingOk, PingErr, Connected, MTLSConfigErr, SpawnHTTP, SpawnGRPC,
     SelectDone, SelectErr, HTTPDrained, HTTPTimeout, ToGRPC, GRPCDrained, Exit
<1> QED
  BY <1>2, <1>3, <1>4, <1>5

\* The other steps of the servers leave the clients and the records alone.
LEMMA AroundAfterClose ==
  ASSUME IInv, Around \/ HandlerPanic \/ \E s \in Servers : Goroutine(s)
  PROVE  NothingAfterClose'
<1>1. /\ main' \in {main, "dead"} /\ dep' = dep /\ timedOut' = timedOut
      /\ fate' = fate /\ late' = late
  BY DEF Around, HandlerPanic, Goroutine, Signal, Panic, ServeAfterStop, ServeStep, Serve,
     ServeClosed, Send, ServeErr, Goes, Arrive, Finish, Request, requests, goroutines, written
<1> QED
  BY <1>1 DEF IInv, NothingAfterClose

\* Closing the logger settles its buffer.
LEMMA CloseAfterClose == ASSUME IInv, CloseClients PROVE NothingAfterClose'
<1>1. PICK c \in {"audit", "producer"} : CloseClient(c)
  BY DEF CloseClients
<1>2. main' = main /\ fate' = fate /\ late' = late /\ main \in {"error", "nil"}
  BY <1>1 DEF CloseClient, Returned, written
<1>3. CASE c = "audit"
  BY <1>1, <1>2, <1>3 DEF CloseClient, Kafka!Close, Kafka!Buffered, Kafka!ClientOf,
     Kafka!Records, IInv, NothingAfterClose, ServerInv, TypeOK, Deps
<1>4. CASE c = "producer"
  BY <1>1, <1>2, <1>4 DEF CloseClient, Kafka!Close, requests,
     IInv, NothingAfterClose, ServerInv, TypeOK, Deps
<1> QED
  BY <1>3, <1>4

-----------------------------------------------------------------------------
(* The invariant *)

\* The records are those of a step that writes and settles none.
LEMMA RecordsSame ==
  ASSUME Kafka!TypeOK, Fates, UNCHANGED written PROVE Kafka!TypeOK' /\ Fates'
  BY DEF Kafka!TypeOK, Kafka!Records, Fates, written

\* The servers and the clients are those of a step of the consumers.
LEMMA ServersSame ==
  ASSUME IInv, UNCHANGED <<vars, written>>
  PROVE  ServerInv' /\ NothingAfterClose'
<1>1. ServerInv'
  BY ServerKeeps DEF IInv, vars
<1>2. /\ main' = main /\ dep' = dep /\ timedOut' = timedOut
      /\ fate' = fate /\ late' = late
  BY DEF vars, requests, written
<1> QED
  BY <1>1, <1>2 DEF IInv, NothingAfterClose

\* It holds before main.
LEMMA InitInv == ProcessInit => IInv
<1> SUFFICES ASSUME ProcessInit PROVE IInv
  OBVIOUS
<1>1. ServerInv
  BY ServerAssumption DEF ProcessInit, Init, ServerInv, TypeOK, StartsInOrder, FailFast, ErrRoom,
     One, SendersNeverBlock, ShutInOrder, ErrChanCap, Servers, Deps
<1>2. Manager!Running = {}
  BY DEF ProcessInit, Manager!Init, Manager!Running
<1>3. ManagerInv
  BY <1>2, FS_EmptySet DEF ProcessInit, Manager!Init, ManagerInv, Manager!TypeOK,
     CloseWaitsForAll, Manager!CloseWaitsForAll
<1>4. Kafka!TypeOK /\ Fates
  BY DEF ProcessInit, Kafka!Init, Kafka!TypeOK, Kafka!Records, Fates
<1>5. NothingAfterClose
  BY DEF ProcessInit, Init, NothingAfterClose
<1> QED
  BY <1>1, <1>3, <1>4, <1>5 DEF IInv

\* Every step of the process keeps the invariant.
LEMMA IInvStep == IInv /\ [ProcessNext]_processVars => IInv'
<1> SUFFICES ASSUME IInv, [ProcessNext]_processVars PROVE IInv'
  OBVIOUS
<1> USE DEF IInv
<1>1. CASE Main
  <2>1. ServerInv'
    BY <1>1, ServerKeeps DEF Main, Next
  <2> QED
    BY <1>1, <2>1, OthersKeep, RecordsSame, MainAfterClose DEF Main
<1>2. CASE Around \/ HandlerPanic \/ \E s \in Servers : Goroutine(s)
  <2>1. ServerInv'
    BY <1>2, ServerKeeps DEF Around, HandlerPanic, Goroutine, Next
  <2>2. UNCHANGED consumers /\ UNCHANGED written
    BY <1>2 DEF Around, HandlerPanic, Goroutine
  <2> QED
    BY <1>2, <2>1, <2>2, OthersKeep, RecordsSame, AroundAfterClose
<1>3. CASE ManagerMain
  <2>1. ManagerInv'
    BY <1>3, StartOneKeeps, CloseReturnsKeeps, OthersKeep DEF ManagerMain, Manager!MainStep
  <2> QED
    BY <1>3, <2>1, ServersSame, RecordsSame DEF ManagerMain
<1>4. ASSUME NEW c \in Consumers, LoopStops(c) \/ LoopStep(c) PROVE IInv'
  <2>1. ManagerInv'
    BY <1>4, ReturnKeeps, OthersKeep
    DEF LoopStops, LoopStep, Manager!LoopStopOnCancel, Manager!LoopFail
  <2> QED
    BY <1>4, <2>1, ServersSame, RecordsSame DEF LoopStops, LoopStep
<1>5. ASSUME NEW c \in Consumers, LoopPanic(c) PROVE IInv'
  <2>1. ManagerInv' /\ ServerInv'
    BY <1>5, OthersKeep, EventKeeps DEF LoopPanic
  <2>2. NothingAfterClose'
    BY <1>5 DEF LoopPanic, Panic, NothingAfterClose
  <2> QED
    BY <1>5, <2>1, <2>2, RecordsSame DEF LoopPanic
<1>6. CASE Write \/ Settle
  <2>1. ServerInv' /\ ManagerInv'
    BY <1>6, ServerKeeps, OthersKeep DEF Write, Settle
  <2> QED
    BY <1>6, <2>1, RecordsKeep, WriteAfterClose
<1>7. CASE CloseClients
  <2>1. PICK c \in {"audit", "producer"} : CloseClient(c)
    BY <1>7 DEF CloseClients
  <2>2. ServerInv'
    BY <2>1, CloseKeeps DEF Deps
  <2>3. UNCHANGED consumers /\ UNCHANGED written
    BY <2>1 DEF CloseClient
  <2> QED
    BY <1>7, <2>2, <2>3, OthersKeep, RecordsSame, CloseAfterClose
<1>8. CASE UNCHANGED processVars
  BY <1>8, ServersSame, OthersKeep, RecordsSame DEF processVars
<1> QED
  BY <1>1, <1>2, <1>3, <1>4, <1>5, <1>6, <1>7, <1>8 DEF ProcessNext

-----------------------------------------------------------------------------
(* Theorems *)

\* The invariant of the whole process, for any consumers, records and requests.
THEOREM Invariance == ProcessSpec => []IInv
<1> QED
  BY InitInv, IInvStep, PTL DEF ProcessSpec

\* When Start has returned nil (server.go:107) no server takes requests, and only HTTP
\* requests that outlived the timeout are in progress, however many there were.
THEOREM Drained == ProcessSpec => []ReturnsDrained
<1>1. IInv => ReturnsDrained
  BY DEF IInv, ServerInv, TypeOK, ShutInOrder, ReturnsDrained, Servers
<1> QED
  BY <1>1, Invariance, PTL

\* errChan (server.go:52) has room for each error: no goroutine hangs on it, and no
\* server runs with a dependency that was not reached (README.md:150).
THEOREM NeverBlocked == ProcessSpec => [](SendersNeverBlock /\ FailFast)
<1>1. IInv => SendersNeverBlock /\ FailFast
  BY DEF IInv, ServerInv
<1> QED
  BY <1>1, Invariance, PTL

\* Publish returns nil only for a message in its topic (producer.go:51).
THEOREM PublishedStored == ProcessSpec => []PublishedIsStored
<1>1. IInv => PublishedIsStored
  BY DEF IInv, Fates, PublishedIsStored, Kafka!PublishedIsStored
<1> QED
  BY <1>1, Invariance, PTL

\* At exit 0 every audit event is in the topic or its loss was logged (kafka_logger.go:74),
\* except those an HTTP request past the timeout handed to the closed client.
THEOREM AuditSettled == ProcessSpec => []AuditSettledAtExit
<1>1. IInv => AuditSettledAtExit
  <2> SUFFICES ASSUME IInv, main = "exit_0", NEW e \in Events
               PROVE  Kafka!Settled(e) \/ (timedOut = "yes" /\ e \in late)
    BY DEF AuditSettledAtExit
  <2>1. fate[e] = "buffered" => timedOut = "yes" /\ e \in late
    BY DEF IInv, NothingAfterClose
  <2>2. fate[e] \in {"none", "buffered", "stored", "failed"}
    BY DEF IInv, Kafka!TypeOK, Kafka!Records
  <2> QED
    BY <2>1, <2>2 DEF IInv, Fates, Kafka!Settled
<1> QED
  BY <1>1, Invariance, PTL

\* When Close of the manager returns every consumer goroutine has (manager.go:41).
THEOREM ConsumersWaited == ProcessSpec => []CloseWaitsForAll
<1>1. IInv => CloseWaitsForAll
  BY DEF IInv, ManagerInv
<1> QED
  BY <1>1, Invariance, PTL

-----------------------------------------------------------------------------
(* What the process can wait for *)

\* How far main is decides how far the manager is, shutdown runs only after a signal, and
\* until Start leaves its select the failure of a server is in errChan or about to be sent.
Stages ==
    /\ main \in {"load", "connect"} => mgr = "starting"
    /\ main = "start_http" => mgr \in {"starting", "serving"}
    /\ main \in {"start_grpc", "select", "http_shutdown", "grpc_stop"} => mgr = "serving"
    /\ main \in {"http_shutdown", "grpc_stop", "nil"} => signal = "received"
FailureHeard ==
    main \in {"load", "connect", "start_http", "start_grpc", "select"} /\ failed # {} =>
        errs > 0 \/ \E s \in Servers : serve[s] = "send"

\* The conditions under which the goroutines that fairness is about can go on: main,
\* the manager's calls, the end of a server, a canceled loop, a record on its way to
\* Kafka, and the close of a Kafka client.
MainReady ==
    \/ main \in {"load", "connect", "start_grpc", "http_shutdown"}
    \/ main = "start_http" /\ mgr = "serving"
    \/ main = "select" /\ (signal = "received" \/ errs > 0)
    \/ main = "grpc_stop" /\ serve["grpc"] # "serving" /\ active["grpc"] = 0
    \/ Returned /\ Cleaned /\ (main = "nil" => signal = "received")
ManagerReady ==
    \/ mgr = "starting" /\ main = "start_http"
    \/ mgr = "serving" /\ Returned
    \/ mgr = "closing" /\ \E c \in Consumers : client[c] = "open" /\ c \notin held
    \/ mgr = "closing" /\ wg = 0 /\ \A c \in Consumers : client[c] = "closed"
ServerReady(s) ==
    \/ serve[s] = "send" /\ errs < ErrChanCap
    \/ serve[s] = "serving" /\ shut[s] = "yes"
LoopReady(c) == signal = "received" /\ loop[c] = "running"
SettleReady == \E r \in Events \cup Messages : fate[r] = "buffered"
ClientReady(c) ==
    /\ Returned /\ mgr \in {"starting", "closed"}
    /\ dep[c] = "open" /\ Kafka!Buffered(c) = {}

\* The process never waits for itself: asked to end by a signal (app.go:25) or by the
\* failure of a server (server.go:107) it can go on, or it waits for a gRPC call, a client
\* that has polled records or a loop nobody canceled, as EndsWhenAsked says.
NeverStranded ==
    signal = "received" \/ failed # {} =>
        \/ ~Alive \/ StuckRPC \/ StuckClose
        \/ MainReady \/ ManagerReady \/ SettleReady
        \/ \E s \in Servers : ServerReady(s)
        \/ \E c \in Consumers : LoopReady(c)
        \/ \E c \in {"audit", "producer"} : ClientReady(c)

\* The servers' steps keep the order of main and manager.
LEMMA StagesKept ==
  ASSUME IInv, Stages, [ProcessNext]_processVars PROVE Stages'
<1> USE DEF Stages
<1>1. CASE Main
  <2>1. mgr' = mgr /\ (main = "start_http" => mgr = "serving") /\ MainStep
    BY <1>1 DEF Main, consumers
  <2>2. CASE StartUp \/ SpawnHTTP \/ SpawnGRPC \/ MTLSConfigErr
    BY <2>1, <2>2 DEF StartUp, Load, NewPostgres, NewRedis, NewProducer, NewKafkaLogger, Open,
       OpenErr, PingOk, PingErr, Connected, SpawnHTTP, SpawnGRPC, MTLSConfigErr, Goto
  <2>3. CASE SelectDone \/ SelectErr \/ HTTPDrained \/ HTTPTimeout \/ GRPCDrained \/ Exit
    BY <2>1, <2>3 DEF SelectDone, SelectErr, HTTPDrained, HTTPTimeout, ToGRPC, GRPCDrained,
       Exit, Goto
  <2> QED
    BY <2>1, <2>2, <2>3 DEF MainStep
<1>2. CASE Around \/ HandlerPanic \/ \E s \in Servers : Goroutine(s)
  <2>1. /\ main' \in {main, "dead"} /\ mgr' = mgr
        /\ signal' = signal \/ signal' = "received"
    BY <1>2 DEF Around, HandlerPanic, Goroutine, Signal, Panic, ServeAfterStop, ServeStep, Serve,
       ServeClosed, Send, ServeErr, Goes, Arrive, Finish, Request, consumers
  <2> QED
    BY <2>1
<1>3. CASE ManagerMain
  <2>1. main' = main /\ signal' = signal
    BY <1>3 DEF ManagerMain, vars
  <2>2. \/ mgr' = mgr
        \/ mgr = "starting" /\ mgr' = "serving"
        \/ mgr = "serving" /\ mgr' = "closing"
        \/ mgr = "closing" /\ mgr' = "closed"
    BY <1>3 DEF ManagerMain, Manager!MainStep, Manager!CloseCalled, Manager!StartOne,
       Manager!CloseOne, Manager!StartReturns, Manager!CloseReturns
  <2>3. (mgr = "starting" => main = "start_http") /\ (mgr = "serving" => main \in {"error", "nil"})
    BY <1>3 DEF ManagerMain, Returned
  <2> QED
    BY <2>1, <2>2, <2>3
<1>4. ASSUME NEW c \in Consumers, LoopStops(c) \/ LoopStep(c) \/ LoopPanic(c) PROVE Stages'
  <2>1. main' \in {main, "dead"} /\ signal' = signal /\ mgr' = mgr
    BY <1>4 DEF LoopStops, LoopStep, LoopPanic, Panic, Manager!LoopStopOnCancel, Manager!Poll,
       Manager!LoopFail, Manager!Return, Manager!LoopPanic, vars
  <2> QED
    BY <2>1
<1>5. CASE Write \/ Settle \/ CloseClients \/ UNCHANGED processVars
  <2>1. main' = main /\ signal' = signal /\ mgr' = mgr
    BY <1>5 DEF Write, Settle, CloseClients, CloseClient, processVars, vars, consumers
  <2> QED
    BY <2>1
<1> QED
  BY <1>1, <1>2, <1>3, <1>4, <1>5 DEF ProcessNext

\* A failure stays in errChan, or with the goroutine about to send it, while Start waits.
LEMMA FailureKept ==
  ASSUME IInv, FailureHeard, [ProcessNext]_processVars PROVE FailureHeard'
<1>1. /\ serve \in [Servers -> {"none", "spawned", "serving", "send", "done"}]
      /\ errs \in Nat /\ StartsInOrder /\ ErrRoom
  BY DEF IInv, ServerInv, TypeOK, ErrChanCap
<1> USE <1>1 DEF FailureHeard
<1>2. CASE UNCHANGED goroutines /\ main' \in {main, "dead"}
  BY <1>2 DEF goroutines
<1>3. CASE Main
  <2>1. MainStep
    BY <1>3 DEF Main
  <2>2. CASE StartUp \/ MTLSConfigErr \/ Exit
    BY <2>2 DEF StartUp, Load, NewPostgres, NewRedis, NewProducer, NewKafkaLogger, Open,
       OpenErr, PingOk, PingErr, Connected, MTLSConfigErr, Exit, Goto, goroutines
  <2>3. CASE SpawnHTTP
    <3>1. failed' = failed /\ errs' = errs /\ main = "start_http"
      BY <2>3 DEF SpawnHTTP, Goto
    <3>2. errs <= 0 /\ \A s \in Servers : serve[s] # "send"
      BY <3>1 DEF StartsInOrder, ErrRoom, One, Servers
    <3> QED
      BY <3>1, <3>2
  <2>4. CASE SpawnGRPC
    <3>1. failed' = failed /\ errs' = errs /\ main = "start_grpc" /\ serve["grpc"] = "none"
      BY <2>4 DEF SpawnGRPC, Goto, StartsInOrder
    <3>2. \A s \in Servers : serve[s] = "send" => serve'[s] = "send"
      BY <2>4, <3>1 DEF SpawnGRPC, Spawn
    <3> QED
      BY <3>1, <3>2
  <2>5. CASE SelectDone \/ SelectErr \/ HTTPDrained \/ HTTPTimeout \/ GRPCDrained
    BY <2>5 DEF SelectDone, SelectErr, HTTPDrained, HTTPTimeout, ToGRPC, GRPCDrained, Goto
  <2> QED
    BY <2>1, <2>2, <2>3, <2>4, <2>5 DEF MainStep
<1>4. ASSUME NEW s \in Servers, ServeErr(s) PROVE FailureHeard'
  BY <1>4 DEF ServeErr, Goes
<1>5. ASSUME NEW s \in Servers, Send(s) PROVE FailureHeard'
  BY <1>5 DEF Send, Goes
<1>6. ASSUME NEW s \in Servers, Serve(s) \/ ServeClosed(s) PROVE FailureHeard'
  BY <1>6 DEF Serve, ServeClosed, Goes
<1>7. CASE ServeAfterStop
  BY <1>7 DEF ServeAfterStop, Goes, Servers
<1>8. CASE HandlerPanic \/ Signal \/ \E s \in Servers : Arrive(s) \/ Finish(s)
  BY <1>2, <1>8 DEF HandlerPanic, Panic, Signal, Arrive, Finish, Request
<1>9. CASE \/ ManagerMain \/ Write \/ Settle \/ CloseClients \/ UNCHANGED processVars
           \/ \E c \in Consumers : LoopStops(c) \/ LoopStep(c) \/ LoopPanic(c)
  BY <1>2, <1>9 DEF ManagerMain, Write, Settle, CloseClients, CloseClient, LoopStops, LoopStep,
     LoopPanic, Panic, processVars, vars
<1> QED
  BY <1>3, <1>4, <1>5, <1>6, <1>7, <1>8, <1>9 DEF ProcessNext, Around, Goroutine, ServeStep

\* Where Close of the manager can be.
LEMMA ClosingReady ==
  ASSUME IInv, mgr = "closing", ~StuckClose
  PROVE  ManagerReady \/ \E c \in Consumers : LoopReady(c)
<1>1. CASE \E c \in Consumers : client[c] = "open"
  BY <1>1 DEF StuckClose, ManagerReady
<1>2. CASE \A c \in Consumers : client[c] # "open"
  <2>1. \A c \in Consumers : client[c] = "closed"
    BY <1>2 DEF IInv, ManagerInv, Manager!TypeOK
  <2>2. CASE Manager!Running = {}
    BY <2>1, <2>2, FS_EmptySet DEF IInv, ManagerInv, ManagerReady
  <2>3. CASE Manager!Running # {}
    BY <2>3 DEF StuckClose, Manager!Running, LoopReady, IInv, ServerInv, TypeOK
  <2> QED
    BY <2>2, <2>3
<1> QED
  BY <1>1, <1>2

\* Where the function is once Start has returned.
LEMMA ReturnedReady ==
  ASSUME IInv, Stages, Returned, ~StuckClose
  PROVE  \/ MainReady \/ ManagerReady \/ SettleReady
         \/ \E c \in Consumers : LoopReady(c)
         \/ \E c \in {"audit", "producer"} : ClientReady(c)
<1>1. mgr \in {"starting", "serving", "closing", "closed"}
  BY DEF IInv, ManagerInv, Manager!TypeOK
<1>2. CASE mgr = "serving"
  BY <1>2 DEF ManagerReady
<1>3. CASE mgr = "closing"
  BY <1>3, ClosingReady
<1>4. CASE mgr \in {"starting", "closed"}
  <2>1. CASE \E c \in {"audit", "producer"} : dep[c] = "open"
    BY <1>4, <2>1 DEF ClientReady, SettleReady, Kafka!Buffered, Kafka!Records
  <2>2. CASE \A c \in {"audit", "producer"} : dep[c] # "open"
    BY <1>4, <2>2 DEF MainReady, Cleaned, Stages
  <2> QED
    BY <2>1, <2>2
<1> QED
  BY <1>1, <1>2, <1>3, <1>4

\* For any number of consumers, records and requests: a process that was asked to end is
\* never left with all its goroutines waiting for each other.
THEOREM NobodyStranded == ProcessSpec => []NeverStranded
<1>1. ProcessInit => Stages /\ FailureHeard
  BY DEF ProcessInit, Init, Manager!Init, Stages, FailureHeard
<1>2. IInv /\ Stages /\ FailureHeard => NeverStranded
  <2> SUFFICES ASSUME IInv, Stages, FailureHeard, signal = "received" \/ failed # {},
                      Alive, ~StuckRPC, ~StuckClose
               PROVE  \/ MainReady \/ ManagerReady \/ SettleReady
                      \/ \E s \in Servers : ServerReady(s)
                      \/ \E c \in Consumers : LoopReady(c)
                      \/ \E c \in {"audit", "producer"} : ClientReady(c)
    BY DEF NeverStranded
  <2>1. main \in {"load", "connect", "start_http", "start_grpc", "select", "http_shutdown",
                  "grpc_stop", "error", "nil"}
    BY DEF IInv, ServerInv, TypeOK, Alive
  <2>2. CASE main \in {"load", "connect", "start_http", "start_grpc", "http_shutdown"}
    BY <2>2 DEF MainReady, ManagerReady, Stages
  <2>3. CASE main = "select"
    BY <2>3 DEF MainReady, ServerReady, FailureHeard, IInv, ServerInv, SendersNeverBlock
  <2>4. CASE main = "grpc_stop"
    <3>1. active["grpc"] = 0 /\ shut["grpc"] = "yes"
      BY <2>4, ServerAssumption
      DEF StuckRPC, IInv, ServerInv, TypeOK, ShutInOrder, Servers
    <3> QED
      BY <2>4, <3>1 DEF MainReady, ServerReady, Servers
  <2>5. CASE main \in {"error", "nil"}
    BY <2>5, ReturnedReady DEF Returned
  <2> QED
    BY <2>1, <2>2, <2>3, <2>4, <2>5
<1>3. IInv /\ Stages /\ FailureHeard /\ [ProcessNext]_processVars => Stages' /\ FailureHeard'
  BY StagesKept, FailureKept
<1> QED
  BY <1>1, <1>2, <1>3, Invariance, PTL DEF ProcessSpec

=============================================================================
