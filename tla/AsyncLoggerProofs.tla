------------------------- MODULE AsyncLoggerProofs --------------------------
(* Proofs about AsyncLogger, for every number of callers, closers and every   *)
(* buffer size.                                                               *)
EXTENDS AsyncLogger, SequenceTheorems, TLAPS

\* The channel of NewAsyncLogger always has room for an event.
LEMMA CapacityPositive == Capacity \in Nat \ {0}
  BY AsyncLoggerAssumption DEF Capacity, DefaultBufferSize

\* The event of a call is an event.
LEMMA EventOfType ==
  ASSUME TypeOK, NEW g \in Callers, pc[g] = "select"
  PROVE  EventOf(g) \in Event
  BY AsyncLoggerAssumption DEF TypeOK, EventOf, Event

\* Every step keeps the state of the logger well formed.
LEMMA TypeStep == ASSUME TypeOK, [Next]_vars PROVE TypeOK'
<1> USE AsyncLoggerAssumption DEF TypeOK, chanVars, workerVars, dropVars, Goto
<1>1. ASSUME NEW g \in Callers, Log(g) \/ ContextDone(g) PROVE TypeOK'
  <2>1. CASE Log(g)
    BY <2>1 DEF Log
  <2>2. CASE ContextDone(g)
    BY <2>2 DEF ContextDone
  <2> QED
    BY <1>1, <2>1, <2>2
<1>2. ASSUME NEW g \in Callers, Send(g) PROVE TypeOK'
  <2>1. EventOf(g) \in Event
    BY <1>2, EventOfType DEF Send
  <2> QED
    BY <1>2, <2>1, CapacityPositive DEF Send
<1>3. ASSUME NEW g \in Callers, SendOnClosed(g) \/ GiveUp(g) PROVE TypeOK'
  BY <1>3 DEF SendOnClosed, GiveUp
<1>4. ASSUME NEW g \in Callers, CountDrop(g) \/ ReadClock(g) \/ LoadLastLog(g)
      PROVE TypeOK'
  <2>1. CASE CountDrop(g)
    BY <2>1 DEF CountDrop
  <2>2. CASE ReadClock(g)
    BY <2>2 DEF ReadClock
  <2>3. CASE LoadLastLog(g)
    BY <2>3 DEF LoadLastLog
  <2> QED
    BY <1>4, <2>1, <2>2, <2>3
<1>5. ASSUME NEW g \in Callers, StoreLastLog(g) \/ SwapAndReport(g) PROVE TypeOK'
  <2>1. CASE StoreLastLog(g)
    BY <2>1 DEF StoreLastLog
  <2>2. CASE SwapAndReport(g)
    BY <2>2 DEF SwapAndReport
  <2> QED
    BY <1>5, <2>1, <2>2
<1>6. CASE Receive
  <2>1. /\ Head(events) \in Event /\ Tail(events) \in Seq(Event)
        /\ Len(Tail(events)) <= Len(events)
    BY <1>6, HeadTailProperties DEF Receive
  <2> QED
    BY <1>6, <2>1, CapacityPositive DEF Receive
<1>7. CASE Encode
  <2>1. inHand[1] \in Event
    <3>1. inHand \in Seq(Event) /\ 1 \in 1 .. Len(inHand)
      BY <1>7 DEF Encode
    <3> HIDE DEF TypeOK
    <3> QED
      BY <3>1, ElementOfSeq
  <2>2. offered \o inHand \in Seq(Event)
    BY ConcatProperties
  <2> QED
    BY <1>7, <2>1, <2>2 DEF Encode
<1>8. CASE WorkerDone
  BY <1>8 DEF WorkerDone
<1>9. ASSUME NEW c \in Closers, Close(c) \/ CloseReturns(c) PROVE TypeOK'
  BY <1>9 DEF Close, CloseReturns
<1>10. CASE Tick
  BY <1>10 DEF Tick
<1>11. CASE UNCHANGED vars
  BY <1>11 DEF vars
<1> QED
  BY <1>1, <1>2, <1>3, <1>4, <1>5, <1>6, <1>7, <1>8, <1>9, <1>10, <1>11
  DEF Next, LogStep, WorkerStep

\* The logger NewAsyncLogger returns satisfies the invariant.
LEMMA InvInit == Init => IInv
  BY AsyncLoggerAssumption, CapacityPositive
  DEF Init, IInv, TypeOK, NothingLostInside, DoneIsDrained, ReturnedIsDone, Minute

\* Appending to the last of three places appends to the whole.
LEMMA AppendLast ==
  \A o, h, b \in Seq(Event) : \A e \in Event :
    Append(o \o h \o b, e) = o \o h \o Append(b, e)
<1> TAKE o, h, b \in Seq(Event)
<1> TAKE e \in Event
<1>1. o \o h \in Seq(Event) /\ o \o h \o b \in Seq(Event) /\ <<e>> \in Seq(Event)
  BY ConcatProperties
<1>2. Append(o \o h \o b, e) = (o \o h \o b) \o <<e>> /\ Append(b, e) = b \o <<e>>
  BY <1>1, AppendIsConcat
<1>3. (o \o h \o b) \o <<e>> = (o \o h) \o (b \o <<e>>)
  BY <1>1, ConcatAssociative, SMTT(60)
<1> QED
  BY <1>2, <1>3

\* Taking the head of the last place into the middle one changes nothing.
LEMMA MoveHead ==
  ASSUME NEW S, NEW o \in Seq(S), NEW b \in Seq(S), b # <<>>
  PROVE  o \o b = o \o <<Head(b)>> \o Tail(b)
<1>1. Head(b) \in S /\ Tail(b) \in Seq(S) /\ <<Head(b)>> \in Seq(S)
  BY HeadTailProperties
<1>2. b = <<Head(b)>> \o Tail(b)
  BY <1>1, HeadTailProperties, ConcatProperties, SeqEqual
<1>3. o \o (<<Head(b)>> \o Tail(b)) = o \o <<Head(b)>> \o Tail(b)
  BY <1>1, ConcatAssociative, SMTT(60)
<1> QED
  BY <1>2, <1>3

\* Every step keeps the invariant: events only move from one place to the next.
LEMMA InvStep == ASSUME IInv, [Next]_vars PROVE IInv'
<1>1. TypeOK /\ TypeOK'
  BY TypeStep DEF IInv
<1>2. NothingLostInside /\ DoneIsDrained /\ ReturnedIsDone
  BY DEF IInv
<1>0. offered \in Seq(Event) /\ inHand \in Seq(Event) /\ events \in Seq(Event)
  BY <1>1 DEF TypeOK
<1> SUFFICES NothingLostInside' /\ DoneIsDrained' /\ ReturnedIsDone'
  BY <1>1 DEF IInv
<1> USE <1>2 DEF NothingLostInside, DoneIsDrained, ReturnedIsDone, chanVars, workerVars
<1>3. ASSUME NEW g \in Callers, Send(g)
      PROVE  NothingLostInside' /\ DoneIsDrained' /\ ReturnedIsDone'
  <2>1. EventOf(g) \in Event
    BY <1>1, <1>3, EventOfType DEF Send
  <2>2. Append(offered \o inHand \o events, EventOf(g))
          = offered \o inHand \o Append(events, EventOf(g))
    BY ONLY <1>0, <2>1, AppendLast, ZenonT(60)
  <2> QED
    BY <1>3, <2>2 DEF Send
<1>4. CASE Receive
  <2>1. inHand = <<>>
    BY <1>1, <1>4, EmptySeq DEF Receive, TypeOK
  <2>2. accepted = offered \o <<Head(events)>> \o Tail(events)
    <3>1. accepted = offered \o events
      BY <1>0, <2>1, ConcatEmptySeq
    <3>2. events # <<>>
      BY <1>4 DEF Receive
    <3>3. offered \o events = offered \o <<Head(events)>> \o Tail(events)
      BY <1>0, <3>2, MoveHead
    <3> QED
      BY <3>1, <3>3
  <2> QED
    BY <1>4, <2>2 DEF Receive
<1>5. CASE Encode
  <2>1. offered' \o <<>> \o events = offered' \o events
    BY <1>1, ConcatEmptySeq DEF TypeOK
  <2> QED
    BY <1>5, <2>1 DEF Encode
<1>6. CASE WorkerDone
  <2>1. inHand = <<>>
    BY <1>1, <1>6, EmptySeq DEF WorkerDone, TypeOK
  <2> QED
    BY <1>6, <2>1 DEF WorkerDone
<1>7. ASSUME NEW c \in Closers, Close(c) \/ CloseReturns(c)
      PROVE  NothingLostInside' /\ DoneIsDrained' /\ ReturnedIsDone'
  <2>1. CASE Close(c)
    <3>1. (\E d \in Closers : closer'[d] = "returned") => \E d \in Closers : closer[d] = "returned"
      BY <1>1, <2>1 DEF Close, TypeOK
    <3> QED
      BY <2>1, <3>1 DEF Close
  <2>2. CASE CloseReturns(c)
    BY <2>2 DEF CloseReturns
  <2> QED
    BY <1>7, <2>1, <2>2
<1>8. CASE UNCHANGED <<chanVars, workerVars, closer, accepted>>
  BY <1>8
<1> QED
  BY <1>3, <1>4, <1>5, <1>6, <1>7, <1>8
  DEF Next, LogStep, WorkerStep, vars, Log, ContextDone, SendOnClosed, GiveUp, CountDrop,
      ReadClock, LoadLastLog, StoreLastLog, SwapAndReport, Tick

\* The logger keeps its invariant.
THEOREM Invariance == Spec => []IInv
  BY InvInit, InvStep, PTL DEF Spec

\* Events the channel took are never lost, duplicated or reordered inside the
\* logger.
THEOREM NothingLost == Spec => []NothingLostInside
  BY Invariance, PTL DEF IInv

\* When Close returns, everything accepted has been handed to the writer.
THEOREM CloseDrainsAll == Spec => []CloseDrains
<1>1. IInv => CloseDrains
  <2> SUFFICES ASSUME IInv, worker = "done" PROVE offered = accepted
    BY DEF IInv, ReturnedIsDone, DoneIsDrained, CloseDrains
  <2>1. offered \in Seq(Event) /\ inHand = <<>> /\ events = <<>>
    BY DEF IInv, TypeOK, DoneIsDrained
  <2>2. offered \o <<>> \o <<>> = offered
    BY <2>1, ConcatEmptySeq
  <2> QED
    BY <2>1, <2>2 DEF IInv, NothingLostInside
<1> QED
  BY <1>1, Invariance, PTL

\* However callers of handleDrop interleave, the counter and the reports account
\* for every drop.
THEOREM DropsAccounted == Spec => []DropAccounting
<1>1. Init => DropAccounting
  BY DEF Init, DropAccounting
<1>2. IInv /\ DropAccounting /\ [Next]_vars => DropAccounting'
  <2> SUFFICES ASSUME TypeOK, DropAccounting, [Next]_vars PROVE DropAccounting'
    BY DEF IInv
  <2> USE DEF TypeOK, DropAccounting
  <2>1. ASSUME NEW g \in Callers, CountDrop(g) PROVE DropAccounting'
    BY <2>1 DEF CountDrop
  <2>2. ASSUME NEW g \in Callers, SwapAndReport(g) PROVE DropAccounting'
    BY <2>2 DEF SwapAndReport
  <2>3. CASE UNCHANGED <<drops, dropCount, reported>>
    BY <2>3
  <2> QED
    BY <2>1, <2>2, <2>3
    DEF Next, LogStep, WorkerStep, vars, dropVars, Log, ContextDone, Send, SendOnClosed,
        GiveUp, ReadClock, LoadLastLog, StoreLastLog, Receive, Encode, WorkerDone, Close,
        CloseReturns, Tick
<1> QED
  BY <1>1, <1>2, Invariance, PTL DEF Spec

-----------------------------------------------------------------------------
\* The event in the worker's hand is the first one accepted and not yet offered.
LEMMA HandIsNext ==
  ASSUME IInv, worker = "encode"
  PROVE  /\ Len(offered) < Len(accepted)
         /\ offered \o inHand = Append(offered, accepted[Len(offered) + 1])
<1>1. /\ offered \in Seq(Event) /\ inHand \in Seq(Event) /\ events \in Seq(Event)
      /\ Len(inHand) = 1 /\ accepted = offered \o inHand \o events
  BY DEF IInv, TypeOK, NothingLostInside
<1>2. inHand[1] \in Event /\ inHand = <<inHand[1]>>
  <2>1. 1 \in 1 .. Len(inHand)
    BY <1>1
  <2>2. inHand[1] \in Event
    BY <1>1, <2>1, ElementOfSeq
  <2>3. <<inHand[1]>> \in Seq(Event) /\ Len(<<inHand[1]>>) = 1
    BY <2>2
  <2>4. \A i \in 1 .. Len(inHand) : inHand[i] = <<inHand[1]>>[i]
    BY <1>1
  <2>5. inHand = <<inHand[1]>>
    BY <1>1, <2>3, <2>4, SeqEqual
  <2> QED
    BY <2>2, <2>5
<1>3. /\ offered \o inHand \in Seq(Event)
      /\ Len(offered \o inHand) = Len(offered) + 1
      /\ (offered \o inHand)[Len(offered) + 1] = inHand[1]
  <2>1. Len(offered) \in Nat
    BY <1>1, LenProperties
  <2>2. /\ offered \o inHand \in Seq(Event)
        /\ Len(offered \o inHand) = Len(offered) + Len(inHand)
        /\ \A i \in 1 .. Len(offered) + Len(inHand) :
             (offered \o inHand)[i] = IF i <= Len(offered) THEN offered[i]
                                                          ELSE inHand[i - Len(offered)]
    BY <1>1, ConcatProperties
  <2>3. Len(offered) + 1 \in 1 .. Len(offered) + Len(inHand)
    BY <1>1, <2>1
  <2> QED
    BY <1>1, <2>1, <2>2, <2>3
<1>4. /\ Len(accepted) = Len(offered) + 1 + Len(events)
      /\ accepted[Len(offered) + 1] = inHand[1]
  <2> DEFINE s == offered \o inHand
  <2>1. s \in Seq(Event) /\ Len(s) = Len(offered) + 1 /\ s[Len(offered) + 1] = inHand[1]
    BY <1>3
  <2>2. Len(offered) \in Nat /\ Len(events) \in Nat
    BY <1>1, LenProperties
  <2>3. accepted = s \o events
    BY <1>1
  <2> HIDE DEF s
  <2>4. /\ Len(s \o events) = Len(s) + Len(events)
        /\ \A i \in 1 .. Len(s) + Len(events) :
             (s \o events)[i] = IF i <= Len(s) THEN s[i] ELSE events[i - Len(s)]
    BY <1>1, <2>1, ConcatProperties
  <2>5. Len(s) \in 1 .. Len(s) + Len(events)
    BY <2>1, <2>2
  <2> QED
    BY <2>1, <2>2, <2>3, <2>4, <2>5
<1>5. offered \o inHand = Append(offered, inHand[1])
  BY <1>1, <1>2, AppendIsConcat
<1> QED
  BY <1>1, <1>4, <1>5, LenProperties

\* Every step of the callers, the worker and the closers is a step of the abstract
\* audit trail or leaves it alone.
LEMMA TrailStep ==
  ASSUME IInv, [Next]_vars
  PROVE  [Trail!Next]_<<accepted, offered, IF worker = "done" THEN "drained" ELSE channel>>
<1> USE DEF chanVars, workerVars
<1>1. TypeOK /\ DoneIsDrained /\ NothingLostInside
  BY DEF IInv
<1>2. ASSUME NEW g \in Callers, Send(g) PROVE Trail!Next
  <2>1. EventOf(g) \in Event
    BY <1>1, <1>2, EventOfType DEF Send
  <2>2. Trail!Accept(EventOf(g))
    BY <1>1, <1>2 DEF Send, Trail!Accept, DoneIsDrained
  <2> QED
    BY <2>1, <2>2 DEF Trail!Next
<1>3. CASE Encode
  <2>1. Trail!Offer
    BY <1>3, HandIsNext DEF Encode, Trail!Offer
  <2> QED
    BY <2>1 DEF Trail!Next
<1>4. CASE WorkerDone
  <2>1. offered \in Seq(Event) /\ inHand = <<>> /\ events = <<>>
    BY <1>1, <1>4, EmptySeq DEF WorkerDone, TypeOK
  <2>2. offered = accepted
    BY <1>1, <2>1, ConcatEmptySeq DEF NothingLostInside
  <2>3. Trail!Drained
    BY <1>4, <2>2 DEF WorkerDone, Trail!Drained
  <2> QED
    BY <2>3 DEF Trail!Next
<1>5. ASSUME NEW c \in Closers, Close(c), channel = "open" PROVE Trail!Next
  BY <1>1, <1>5 DEF Close, DoneIsDrained, Trail!Close, Trail!Next
<1>6. CASE UNCHANGED <<accepted, offered, worker, channel>>
  BY <1>6
<1>7. CASE Receive
  BY <1>7 DEF Receive
<1> QED
  BY <1>1, <1>2, <1>3, <1>4, <1>5, <1>6, <1>7
  DEF Next, LogStep, WorkerStep, vars, Log, ContextDone, SendOnClosed, GiveUp, CountDrop,
      ReadClock, LoadLastLog, StoreLastLog, SwapAndReport, Close, CloseReturns, Tick, TypeOK

\* The asynchronous logger implements the abstract audit trail: accepted events
\* reach the writer in order, and it is drained before it is done.
THEOREM Refinement == Spec => ImplementsAuditTrail
<1>1. Init => Trail!Init
  BY DEF Init, Trail!Init
<1>2. IInv /\ [Next]_vars
      => [Trail!Next]_<<accepted, offered, IF worker = "done" THEN "drained" ELSE channel>>
  BY TrailStep
<1> QED
  BY <1>1, <1>2, Invariance, PTL DEF Spec, Trail!Spec, ImplementsAuditTrail

-----------------------------------------------------------------------------
(* What the end of Close rests on *)

\* What the worker still has to do.
Work ==
    2 * Len(events) +
        CASE worker = "encode" -> 2 [] worker = "receive" -> 1 [] worker = "done" -> 0

\* Once the channel is closed nobody adds to the worker's work, and each of its steps
\* takes some away.
DrainShortens ==
    channel = "closed" =>
        /\ channel' = "closed"
        /\ Work' <= Work
        /\ WorkerStep => Work' < Work

\* The decreasing measure behind CloseTerminates: callers of Log that race with Close
\* cannot keep the worker busy.
THEOREM DrainProgress == Spec => [][DrainShortens]_vars
<1>1. TypeOK /\ [Next]_vars => [DrainShortens]_vars
  <2> SUFFICES ASSUME TypeOK, Next, channel = "closed" PROVE DrainShortens
    BY DEF DrainShortens
  <2>0. Len(events) \in Nat /\ worker \in {"receive", "encode", "done"}
    BY DEF TypeOK
  <2> USE DEF chanVars, workerVars
  <2>1. CASE Receive
    <3>1. Len(events') = Len(events) - 1
      BY <2>1, HeadTailProperties DEF Receive, TypeOK
    <3> QED
      BY <2>0, <2>1, <3>1 DEF Receive, DrainShortens, Work
  <2>2. CASE Encode
    BY <2>0, <2>2 DEF Encode, DrainShortens, Work
  <2>3. CASE WorkerDone
    BY <2>0, <2>3 DEF WorkerDone, DrainShortens, Work
  <2>4. CASE UNCHANGED <<events, worker>> /\ channel' = "closed" /\ ~WorkerStep
    BY <2>0, <2>4 DEF DrainShortens, Work
  <2>5. CASE WorkerStep
    BY <2>1, <2>2, <2>3, <2>5 DEF WorkerStep
  <2>6. ASSUME NEW g \in Callers, Log(g) \/ ContextDone(g) \/ LogStep(g)
        PROVE  UNCHANGED <<events, worker>> /\ channel' = "closed"
    BY <2>6 DEF Log, ContextDone, LogStep, Send, SendOnClosed, GiveUp, CountDrop, ReadClock,
       LoadLastLog, StoreLastLog, SwapAndReport
  <2>7. ASSUME NEW c \in Closers, Close(c) \/ CloseReturns(c)
        PROVE  UNCHANGED <<events, worker>> /\ channel' = "closed"
    BY <2>7 DEF Close, CloseReturns
  <2>8. CASE Tick
    BY <2>8, <2>4, <2>5 DEF Tick
  <2> QED
    BY <2>4, <2>5, <2>6, <2>7, <2>8 DEF Next
<1> QED
  BY <1>1, Invariance, PTL DEF Spec, IInv

\* Whoever waits waits for the worker, and the worker can go on: a caller of Log that can
\* neither send nor give up has an event in front of it that the worker will take or has
\* taken (async_writer.go:60), and a caller in wg.Wait has closed the channel, without
\* which the worker's range would not end (async_writer.go:105).
WorkerServes ==
    /\ \A g \in Callers : pc[g] = "select" =>
           \/ channel = "closed" \/ Len(events) < Capacity
           \/ worker = "encode" \/ (worker = "receive" /\ events # <<>>)
    /\ \A c \in Closers : closer[c] # "idle" => channel = "closed"

\* No caller of Log or Close waits for a worker that waits too, for any buffer size.
THEOREM NobodyStranded == Spec => []WorkerServes
<1> DEFINE Closed == \A c \in Closers : closer[c] # "idle" => channel = "closed"
<1>1. Init => Closed
  BY DEF Init
<1>2. IInv /\ Closed /\ [Next]_vars => Closed'
  <2> SUFFICES ASSUME IInv, Closed, [Next]_vars PROVE Closed'
    OBVIOUS
  <2> USE DEF chanVars
  <2>1. CASE UNCHANGED <<closer, channel>>
    BY <2>1
  <2>2. ASSUME NEW c \in Closers, Close(c) PROVE Closed'
    BY <2>2 DEF Close
  <2>3. ASSUME NEW c \in Closers, CloseReturns(c) PROVE Closed'
    BY <2>3 DEF CloseReturns, IInv, TypeOK
  <2>4. ASSUME NEW g \in Callers, Log(g) \/ ContextDone(g) \/ LogStep(g)
        PROVE  UNCHANGED <<closer, channel>>
    BY <2>4 DEF Log, ContextDone, LogStep, Send, SendOnClosed, GiveUp, CountDrop, ReadClock,
       LoadLastLog, StoreLastLog, SwapAndReport
  <2>5. CASE WorkerStep \/ Tick \/ UNCHANGED vars
    BY <2>1, <2>5 DEF WorkerStep, Receive, Encode, WorkerDone, Tick, vars
  <2> QED
    BY <2>1, <2>2, <2>3, <2>4, <2>5 DEF Next
<1>3. IInv /\ Closed => WorkerServes
  <2>1. Capacity \in Nat /\ Capacity > 0
    BY AsyncLoggerAssumption DEF Capacity, DefaultBufferSize
  <2>2. Len(<<>>) = 0
    OBVIOUS
  <2> QED
    BY <2>1, <2>2 DEF IInv, TypeOK, DoneIsDrained, WorkerServes
<1> QED
  BY <1>1, <1>2, <1>3, Invariance, PTL DEF Spec

=============================================================================
