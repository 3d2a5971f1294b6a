---------------------------- MODULE AsyncLogger -----------------------------
(***************************************************************************)
(* audit/async_writer.go: callers of Log, one worker, callers of Close and *)
(* the buffered Go channel between them; and the drop counter with its     *)
(* rate-limited warning, which the callers share without a lock.           *)
(***************************************************************************)
EXTENDS Integers, Sequences, FiniteSets

CONSTANTS
    Callers,        \* goroutines that call Log
    Closers,        \* goroutines that call Close
    BufferSize,     \* the bufferSize argument of NewAsyncLogger
    Strategies,     \* the strategies of interest: "block" and "drop"
    WriterFails,    \* may the encoder return an error?
    MaxCalls,       \* bound: calls of Log per caller
    MaxTime         \* bound: the clock

Minute == 1                             \* one model unit of time is a minute
DefaultBufferSize == 1024

Event == Callers \X (1 .. MaxCalls)     \* a caller's n-th event

ASSUME AsyncLoggerAssumption ==
    /\ BufferSize \in Int
    /\ Strategies \subseteq {"block", "drop"} /\ WriterFails \in BOOLEAN
    /\ MaxCalls \in Nat /\ MaxTime \in Nat

VARIABLES
    strategy,       \* l.blockOnFull: "block" or "drop"
    events,         \* the buffer of the channel
    channel,        \* "open" or "closed"
    worker,         \* "receive", "encode" or "done"
    inHand,         \* the event the worker is encoding, as a sequence
    pc,             \* per caller: where Log / handleDrop is
    calls,          \* per caller: calls of Log so far
    ctx,            \* per caller: the context of the call, "live" or "done"
    clock,          \* per caller: handleDrop's local variable now
    closer,         \* per closer: "idle", "waiting" (in wg.Wait) or "returned"
    dropCount, lastLogTime, now,
    \* history
    accepted,       \* events sent on the channel, in order
    offered,        \* events handed to the encoder, in order
    written,        \* the ones the encoder wrote
    drops,          \* calls that ended in handleDrop's counter
    reported        \* sum of the dropped_count values logged

chanVars == <<events, channel>>
workerVars == <<worker, inHand, offered, written>>
dropVars == <<dropCount, lastLogTime, reported, drops>>
vars == <<strategy, chanVars, workerVars, pc, calls, ctx, clock, closer, dropVars, now, accepted>>

\* make(chan Event, bufferSize), after the default.
Capacity == IF BufferSize <= 0 THEN DefaultBufferSize ELSE BufferSize

EventOf(g) == <<g, calls[g]>>

Init ==
    /\ strategy \in Strategies
    /\ events = <<>> /\ channel = "open"
    /\ worker = "receive" /\ inHand = <<>>
    /\ pc = [g \in Callers |-> "idle"]
    /\ calls = [g \in Callers |-> 0]
    /\ ctx = [g \in Callers |-> "live"]
    /\ clock = [g \in Callers |-> 0]
    /\ closer = [c \in Closers |-> "idle"]
    /\ dropCount = 0 /\ lastLogTime = 0 /\ now = Minute + 1
    /\ accepted = <<>> /\ offered = <<>> /\ written = {}
    /\ drops = 0 /\ reported = 0

-----------------------------------------------------------------------------
(* Log *)

Goto(g, where) == pc' = [pc EXCEPT ![g] = where]

\* A caller that has panicked is gone; the others call again and again.
Log(g) ==
    /\ pc[g] = "idle" /\ calls[g] < MaxCalls
    /\ calls' = [calls EXCEPT ![g] = @ + 1]
    /\ ctx' = [ctx EXCEPT ![g] = "live"]
    /\ Goto(g, "select")
    /\ UNCHANGED <<strategy, chanVars, workerVars, clock, closer, dropVars, now, accepted>>

ContextDone(g) ==
    /\ pc[g] = "select" /\ ctx[g] = "live"
    /\ ctx' = [ctx EXCEPT ![g] = "done"]
    /\ UNCHANGED <<strategy, chanVars, workerVars, pc, calls, clock, closer, dropVars, now, accepted>>

\* Mutant: the oldest event makes room.
SendOverwrites(g) ==
    /\ pc[g] = "select" /\ channel = "open"
    /\ events' = Append(IF Len(events) < Capacity THEN events ELSE Tail(events), EventOf(g))
    /\ accepted' = Append(accepted, EventOf(g))
    /\ Goto(g, "idle")
    /\ UNCHANGED <<strategy, channel, workerVars, calls, ctx, clock, closer, dropVars, now>>

\* case l.events <- event: with room in the buffer.
Send(g) ==
    /\ pc[g] = "select"
    /\ channel = "open" /\ Len(events) < Capacity
    /\ events' = Append(events, EventOf(g))
    /\ accepted' = Append(accepted, EventOf(g))
    /\ Goto(g, "idle")
    /\ UNCHANGED <<strategy, channel, workerVars, calls, ctx, clock, closer, dropVars, now>>

\* The same case on a closed channel, also for a caller blocked in the select
\* when the channel is closed: the runtime panics.
SendOnClosed(g) ==
    /\ pc[g] = "select" /\ channel = "closed"
    /\ Goto(g, "panicked")
    /\ UNCHANGED <<strategy, chanVars, workerVars, calls, ctx, clock, closer, dropVars, now, accepted>>

\* The other case: ctx.Done in blocking mode (chosen at random when the send is
\* ready too), default in the other mode (only when the send is not ready).
GiveUp(g) ==
    /\ pc[g] = "select"
    /\ IF strategy = "block" THEN ctx[g] = "done"
                             ELSE channel = "open" /\ Len(events) >= Capacity
    /\ Goto(g, "count")
    /\ UNCHANGED <<strategy, chanVars, workerVars, calls, ctx, clock, closer, dropVars, now, accepted>>

-----------------------------------------------------------------------------
(* handleDrop: each access to shared state is a step. *)

CountDrop(g) ==
    /\ pc[g] = "count"
    /\ dropCount' = dropCount + 1 /\ drops' = drops + 1
    /\ Goto(g, "clock")
    /\ UNCHANGED <<strategy, chanVars, workerVars, calls, ctx, clock, closer, lastLogTime,
                   reported, now, accepted>>

ReadClock(g) ==
    /\ pc[g] = "clock"
    /\ clock' = [clock EXCEPT ![g] = now]
    /\ Goto(g, "load")
    /\ UNCHANGED <<strategy, chanVars, workerVars, calls, ctx, closer, dropVars, now, accepted>>

LoadLastLog(g) ==
    /\ pc[g] = "load"
    /\ Goto(g, IF clock[g] - lastLogTime > Minute THEN "store" ELSE "idle")
    /\ UNCHANGED <<strategy, chanVars, workerVars, calls, ctx, clock, closer, dropVars, now, accepted>>

\* Mutant: the counter is reset before it is read for the report.
StoreLastLogResets(g) ==
    /\ pc[g] = "store"
    /\ lastLogTime' = clock[g] /\ dropCount' = 0
    /\ Goto(g, "swap")
    /\ UNCHANGED <<strategy, chanVars, workerVars, calls, ctx, clock, closer, drops,
                   reported, now, accepted>>

StoreLastLog(g) ==
    /\ pc[g] = "store"
    /\ lastLogTime' = clock[g]
    /\ Goto(g, "swap")
    /\ UNCHANGED <<strategy, chanVars, workerVars, calls, ctx, clock, closer, dropCount, drops,
                   reported, now, accepted>>

\* SwapUint64(&l.dropCount, 0), and the warning with the old value.
SwapAndReport(g) ==
    /\ pc[g] = "swap"
    /\ reported' = reported + dropCount /\ dropCount' = 0
    /\ Goto(g, "idle")
    /\ UNCHANGED <<strategy, chanVars, workerVars, calls, ctx, clock, closer, lastLogTime,
                   drops, now, accepted>>

-----------------------------------------------------------------------------
(* worker, Close, the clock *)

Receive ==
    /\ worker = "receive" /\ events # <<>>
    /\ inHand' = <<Head(events)>> /\ events' = Tail(events)
    /\ worker' = "encode"
    /\ UNCHANGED <<strategy, channel, offered, written, pc, calls, ctx, clock, closer, dropVars,
                   now, accepted>>

\* Mutant: a write error ends the worker.
EncodeStopsOnError ==
    /\ worker = "encode"
    /\ offered' = offered \o inHand
    /\ \/ written' = written \cup {inHand[1]} /\ worker' = "receive"
       \/ WriterFails /\ UNCHANGED written /\ worker' = "done"
    /\ inHand' = <<>>
    /\ UNCHANGED <<strategy, chanVars, pc, calls, ctx, clock, closer, dropVars, now, accepted>>

\* A failed Encode is logged and the event is gone.
Encode ==
    /\ worker = "encode"
    /\ offered' = offered \o inHand
    /\ \/ written' = written \cup {inHand[1]}
       \/ WriterFails /\ UNCHANGED written
    /\ inHand' = <<>> /\ worker' = "receive"
    /\ UNCHANGED <<strategy, chanVars, pc, calls, ctx, clock, closer, dropVars, now, accepted>>

\* Mutant: the worker stops at the close, not at the end of the buffer.
WorkerDoneAtOnce ==
    /\ worker = "receive" /\ channel = "closed"
    /\ worker' = "done"
    /\ UNCHANGED <<strategy, chanVars, inHand, offered, written, pc, calls, ctx, clock,
                   closer, dropVars, now, accepted>>

\* range over a closed channel ends when the buffer is empty.
WorkerDone ==
    /\ worker = "receive" /\ channel = "closed" /\ events = <<>>
    /\ worker' = "done"
    /\ UNCHANGED <<strategy, chanVars, inHand, offered, written, pc, calls, ctx, clock, closer,
                   dropVars, now, accepted>>

\* Mutants: Close throws the buffer away; Close waits and closes nothing.
CloseDiscards(c) ==
    /\ closer[c] = "idle"
    /\ channel' = "closed" /\ events' = <<>>
    /\ closer' = [closer EXCEPT ![c] = "waiting"]
    /\ UNCHANGED <<strategy, workerVars, pc, calls, ctx, clock, dropVars, now, accepted>>
CloseOnlyWaits(c) ==
    /\ closer[c] = "idle"
    /\ closer' = [closer EXCEPT ![c] = "waiting"]
    /\ UNCHANGED <<strategy, chanVars, workerVars, pc, calls, ctx, clock, dropVars, now, accepted>>

\* closeOnce.Do(close), then wg.Wait.
Close(c) ==
    /\ closer[c] = "idle"
    /\ channel' = "closed"
    /\ closer' = [closer EXCEPT ![c] = "waiting"]
    /\ UNCHANGED <<strategy, events, workerVars, pc, calls, ctx, clock, dropVars, now, accepted>>

CloseReturns(c) ==
    /\ closer[c] = "waiting" /\ worker = "done"
    /\ closer' = [closer EXCEPT ![c] = "returned"]
    /\ UNCHANGED <<strategy, chanVars, workerVars, pc, calls, ctx, clock, dropVars, now, accepted>>

Tick ==
    /\ now < MaxTime
    /\ now' = now + 1
    /\ UNCHANGED <<strategy, chanVars, workerVars, pc, calls, ctx, clock, closer, dropVars, accepted>>

LogStep(g) ==
    \/ Send(g) \/ SendOnClosed(g) \/ GiveUp(g)
    \/ CountDrop(g) \/ ReadClock(g) \/ LoadLastLog(g) \/ StoreLastLog(g) \/ SwapAndReport(g)

WorkerStep == Receive \/ Encode \/ WorkerDone

Next ==
    \/ \E g \in Callers : Log(g) \/ ContextDone(g) \/ LogStep(g)
    \/ WorkerStep
    \/ \E c \in Closers : Close(c) \/ CloseReturns(c)
    \/ Tick

Spec == Init /\ [][Next]_vars

\* Goroutines are scheduled and writes return.  A sender that is blocked on a
\* full channel is queued first come first served by the runtime, hence strong
\* fairness of its send; nobody has to call Log or Close, and no context has to
\* be done.
FairSpec ==
    /\ Spec
    /\ WF_vars(WorkerStep)
    /\ \A g \in Callers : SF_vars(LogStep(g))
    /\ \A c \in Closers : WF_vars(CloseReturns(c))

-----------------------------------------------------------------------------
(* Properties *)

TypeOK ==
    /\ strategy \in {"block", "drop"}
    /\ events \in Seq(Event) /\ accepted \in Seq(Event) /\ offered \in Seq(Event)
    /\ inHand \in Seq(Event) /\ Len(inHand) = (IF worker = "encode" THEN 1 ELSE 0)
    /\ Len(events) <= Capacity
    /\ channel \in {"open", "closed"}
    /\ worker \in {"receive", "encode", "done"}
    /\ pc \in [Callers -> {"idle", "select", "count", "clock", "load", "store", "swap",
                           "panicked"}]
    /\ calls \in [Callers -> 0 .. MaxCalls]
    /\ \A g \in Callers : pc[g] = "select" => calls[g] > 0
    /\ ctx \in [Callers -> {"live", "done"}]
    /\ closer \in [Closers -> {"idle", "waiting", "returned"}]
    /\ clock \in [Callers -> Nat] /\ lastLogTime \in Nat /\ now \in Nat
    /\ dropCount \in Nat /\ drops \in Nat /\ reported \in Nat
    /\ written \subseteq Event

\* Nothing the channel took is lost, duplicated or reordered on its way to the
\* writer.
NothingLostInside == accepted = offered \o inHand \o events

\* Close returns only after every accepted event was handed to the writer, and
\* nothing is accepted afterwards, even when Log races with Close.
CloseDrains ==
    (\E c \in Closers : closer[c] = "returned") => channel = "closed" /\ offered = accepted

\* The drop counter and the reports account for every drop, whatever callers of
\* handleDrop interleave.
DropAccounting == drops = dropCount + reported

\* What the worker and the callers of Close know of each other.
DoneIsDrained ==
    worker = "done" => channel = "closed" /\ events = <<>> /\ inHand = <<>>
ReturnedIsDone == (\E c \in Closers : closer[c] = "returned") => worker = "done"
IInv == TypeOK /\ NothingLostInside /\ DoneIsDrained /\ ReturnedIsDone

\* The implementation of the abstract audit trail.
Trail == INSTANCE AuditTrail WITH
    state <- IF worker = "done" THEN "drained" ELSE channel
ImplementsAuditTrail == Trail!Spec

\* Close returns, whoever is blocked in Log.
CloseTerminates == \A c \in Closers : (closer[c] = "waiting") ~> (closer[c] = "returned")

\* Log returns (or panics on a closed channel): in blocking mode a full buffer
\* delays a caller and never blocks it forever, even if its context has no end.
LogReturns == \A g \in Callers : (pc[g] = "select") ~> (pc[g] \in {"idle", "panicked"})
=============================================================================
