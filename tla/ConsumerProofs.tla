--------------------------- MODULE ConsumerProofs ---------------------------
(* Proofs about Consumer, for every topic, configuration and bound. *)
EXTENDS Consumer, WellFoundedInduction, TLAPS

\* NewConsumer keeps a configuration a configuration.
LEMMA NewConsumerType == \A c \in ConfigType : NewConsumer(c) \in ConfigType
<1> SUFFICES ASSUME NEW c \in ConfigType PROVE NewConsumer(c) \in ConfigType
  OBVIOUS
<1> DEFINE i == IF c.initialBackoff = 0 THEN DefaultInitialBackoff ELSE c.initialBackoff
           m == IF c.maxBackoff = 0 THEN DefaultMaxBackoff ELSE c.maxBackoff
<1>1. i \in Nat /\ m \in Nat
  BY DEF ConfigType, DefaultInitialBackoff, DefaultMaxBackoff
<1>2. NewConsumer(c) = [c EXCEPT !.initialBackoff = i, !.maxBackoff = m]
  BY DEF NewConsumer
<1> HIDE DEF i, m
<1> QED
  BY <1>1, <1>2 DEF ConfigType

\* The state Start begins in is well formed.
LEMMA TypeInit == Init => TypeOK
<1> SUFFICES ASSUME Init PROVE TypeOK
  OBVIOUS
<1>1. cfg \in ConfigType
  BY NewConsumerType, ConsumerAssumption DEF Init
<1> QED
  BY <1>1, ConsumerAssumption
  DEF Init, TypeOK, Running, Stopped, InRecord, HasNext

\* Every step keeps the bookkeeping of the loop well formed.
LEMMA TypeStep == TypeOK /\ [Next]_vars => TypeOK'
<1> SUFFICES ASSUME TypeOK, [Next]_vars PROVE TypeOK'
  OBVIOUS
<1> USE ConsumerAssumption DEF TypeOK, Running, Stopped, InRecord, HasNext,
        broker, batch, retry, process, history
<1>1. CASE PollCanceled \/ PollRecords \/ PollError
  BY <1>1 DEF PollCanceled, PollRecords, PollError, Fetched
<1>2. CASE NextRecord
  BY <1>2 DEF NextRecord, ConfigType
<1>3. CASE IterDone \/ CheckCtx
  BY <1>3 DEF IterDone, CheckCtx
<1>4. CASE HandlerOk
  BY <1>4 DEF HandlerOk, Rec, Records, Offsets
<1>5. CASE HandlerErr
  BY <1>5 DEF HandlerErr, Drop, Rec, Records, Offsets
<1>6. CASE PublishOk \/ PublishErr
  BY <1>6 DEF PublishOk, PublishErr, Drop, Rec, Records, Offsets
<1>7. CASE BackoffCanceled \/ BackoffElapsed
  BY <1>7 DEF BackoffCanceled, BackoffElapsed, ConfigType
<1>8. CASE CommitOk
  BY <1>8 DEF CommitOk, Advance
<1>9. CASE CommitErr
  <2>1. <<cur, next[cur] + 1>> \in Partitions \X (0 .. LogEnd)
    BY <1>9 DEF CommitErr
  <2> QED
    BY <1>9, <2>1 DEF CommitErr, Advance
<1>10. CASE LateCommit
  <2>1. PICK c \in lateCommits :
          /\ committed' = [committed EXCEPT ![c[1]] = c[2]]
          /\ lateCommits' = lateCommits \ {c}
    BY <1>10 DEF LateCommit
  <2>2. c[1] \in Partitions /\ c[2] \in 0 .. LogEnd
    BY <2>1
  <2> QED
    BY <1>10, <2>1, <2>2 DEF LateCommit
<1>11. CASE Cancel \/ Close \/ Crash
  BY <1>11 DEF Cancel, Close, Crash
<1>12. CASE Restart
  BY <1>12 DEF Restart
<1>13. CASE UNCHANGED vars
  BY <1>13 DEF vars
<1> QED
  BY <1>1, <1>2, <1>3, <1>4, <1>5, <1>6, <1>7, <1>8, <1>9, <1>10, <1>11,
     <1>12, <1>13 DEF Next, LoopStep

\* The bookkeeping of the loop is well formed; in particular the iterator never
\* runs past the batch it was given.
THEOREM TypeCorrect == Spec => []TypeOK
  BY TypeInit, TypeStep, PTL DEF Spec

-----------------------------------------------------------------------------
\* No step takes the resolution of a record back.
LEMMA ResolvedGrows == [Next]_vars => Resolved \subseteq Resolved'
<1> SUFFICES ASSUME [Next]_vars PROVE Resolved \subseteq Resolved'
  OBVIOUS
<1>1. /\ handled \subseteq handled' /\ dlq \subseteq dlq'
      /\ dropped \subseteq dropped' /\ cfg' = cfg
  BY DEF Next, vars, LoopStep, PollCanceled, PollRecords, PollError, NextRecord,
         IterDone, CheckCtx, HandlerOk, HandlerErr, Drop, PublishOk, PublishErr,
         BackoffCanceled, BackoffElapsed, CommitOk, CommitErr, Advance, LateCommit,
         Cancel, Close, Crash, Restart, broker, history
<1> QED
  BY <1>1 DEF Resolved

\* The step of the main invariant.  Resolved is left unexpanded in most cases:
\* all they need is that it grows.
LEMMA IInvStep ==
  ASSUME ~ErrorsCarryRecords, IInv, [Next]_vars
  PROVE  IInv'
<1>1. TypeOK'
  BY TypeStep DEF IInv
<1>2. Resolved \subseteq Resolved'
  BY ResolvedGrows
<1>3. TypeOK /\ AtLeastOnce /\ LateSettled /\ BatchSettled /\ AttemptSettled /\ CommitResolved
  BY DEF IInv
<1> DEFINE Rest == AtLeastOnce /\ LateSettled /\ BatchSettled /\ AttemptSettled /\ CommitResolved
<1> SUFFICES Rest'
  BY <1>1 DEF IInv
<1> USE <1>2, <1>3 DEF AtLeastOnce, LateSettled, BatchSettled, AttemptSettled,
        CommitResolved, Settled, Rec, Running, InRecord, Stopped,
        broker, batch, retry, process, history
<1>a. CASE PollCanceled \/ PollRecords \/ PollError
  BY <1>a DEF PollCanceled, PollRecords, PollError
<1>b. CASE NextRecord
  BY <1>b DEF NextRecord
<1>c. CASE IterDone \/ CheckCtx
  BY <1>c DEF IterDone, CheckCtx, TypeOK
<1>d. CASE HandlerOk
  BY <1>d DEF HandlerOk, Resolved
<1>e. CASE HandlerErr
  BY <1>e DEF HandlerErr, Drop, Resolved
<1>f. CASE PublishOk \/ PublishErr
  BY <1>f DEF PublishOk, PublishErr, Drop, Resolved
<1>g. CASE BackoffCanceled \/ BackoffElapsed
  BY <1>g DEF BackoffCanceled, BackoffElapsed
<1>h. ASSUME CommitOk \/ CommitErr PROVE Rest'
  <2>1. /\ pc = "commit" /\ pc' = "iter" /\ ctx' = ctx /\ cur \in Partitions
        /\ next \in [Partitions -> 0 .. LogEnd]
        /\ next' = [next EXCEPT ![cur] = @ + 1]
    BY <1>h DEF CommitOk, CommitErr, Advance, TypeOK
  <2>2. ASSUME ctx = "live", NEW p \in Partitions PROVE Settled(p, next[p])'
    <3> SUFFICES ASSUME NEW o \in 0 .. next'[p] - 1 PROVE <<p, o>> \in Resolved
      OBVIOUS
    <3>1. CASE p = cur /\ o = next[cur]
      BY <2>1, <2>2, <3>1
    <3>2. CASE ~(p = cur /\ o = next[cur])
      <4>1. o \in 0 .. next[p] - 1
        BY <2>1, <3>2
      <4> QED
        BY <2>1, <2>2, <4>1
    <3> QED
      BY <3>1, <3>2
  <2>3. BatchSettled' /\ AttemptSettled' /\ CommitResolved'
    <3> HIDE <1>2, <1>3
    <3> HIDE DEF Settled
    <3> QED
      BY <2>1, <2>2
  <2>4. CASE CommitOk
    <3>1. /\ ctx = "live" /\ lateCommits' = lateCommits
          /\ committed \in [Partitions -> 0 .. LogEnd]
          /\ committed' = [committed EXCEPT ![cur] = next[cur] + 1]
      BY <2>4 DEF CommitOk, TypeOK
    <3>2. AtLeastOnce'
      BY <2>1, <2>2, <3>1
    <3>3. LateSettled'
      BY <3>1
    <3> QED
      BY <2>3, <3>2, <3>3
  <2>5. CASE CommitErr
    <3>1. /\ committed' = committed
          /\ \A c \in lateCommits' :
                c \in lateCommits \/ (ctx = "live" /\ c = <<cur, next[cur] + 1>>)
      BY <2>5 DEF CommitErr
    <3>2. AtLeastOnce'
      BY <3>1
    <3>3. ASSUME NEW c \in lateCommits' PROVE Settled(c[1], c[2])'
      <4>1. CASE c \in lateCommits
        BY <4>1
      <4>2. CASE ctx = "live" /\ c = <<cur, next[cur] + 1>>
        <5>1. c[1] = cur /\ c[2] = next'[cur]
          BY <2>1, <4>2
        <5> QED
          BY <2>1, <2>2, <4>2, <5>1
      <4> QED
        BY <3>1, <4>1, <4>2
    <3>4. LateSettled'
      BY <3>3
    <3> QED
      BY <2>3, <3>2, <3>4
  <2> QED
    BY <1>h, <2>4, <2>5
<1>i. CASE LateCommit
  BY <1>i DEF LateCommit, TypeOK
<1>j. CASE Cancel \/ Close \/ Crash
  BY <1>j DEF Cancel, Close, Crash, TypeOK
<1>k. CASE Restart
  BY <1>k DEF Restart, TypeOK
<1>l. CASE UNCHANGED vars
  BY <1>l DEF vars
<1> QED
  BY <1>a, <1>b, <1>c, <1>d, <1>e, <1>f, <1>g, <1>h, <1>i, <1>j, <1>k, <1>l
  DEF Next, LoopStep

\* Along every behaviour of a consumer whose polls never return records next to
\* an error, the loop keeps the inductive invariant.
THEOREM Invariance == ASSUME ~ErrorsCarryRecords PROVE Spec => []IInv
<1>1. Init => IInv
  BY TypeInit, ConsumerAssumption
  DEF Init, IInv, AtLeastOnce, LateSettled, BatchSettled, AttemptSettled,
      CommitResolved, Settled
<1>2. IInv /\ [Next]_vars => IInv'
  BY IInvStep
<1> QED
  BY <1>1, <1>2, PTL DEF Spec

\* No crash, cancellation, failed commit or late commit lets the committed offset
\* pass a record that was neither handled, dead-lettered nor dropped by policy.
THEOREM NoRecordLost == ASSUME ~ErrorsCarryRecords PROVE Spec => []AtLeastOnce
  BY Invariance, PTL DEF IInv

\* The handler runs on a record only when its predecessors are resolved.
THEOREM InOrder == ASSUME ~ErrorsCarryRecords PROVE Spec => []StrictOrdering
<1>1. IInv => StrictOrdering
  BY DEF IInv, AttemptSettled, StrictOrdering
<1> QED
  BY <1>1, Invariance, PTL

-----------------------------------------------------------------------------
\* A step that resolves the record in hand, and only that, is a Resolve of the
\* abstract log.
LEMMA ResolveStep ==
  ASSUME TypeOK, HasNext(cur), Settled(cur, next[cur]), committed' = committed,
         Resolved' \in {Resolved, Resolved \cup {Rec}}
  PROVE  [Log!Next]_<<committed, Resolved>>
<1>1. CASE Resolved' = Resolved
  BY <1>1
<1>2. CASE Resolved' = Resolved \cup {Rec}
  <2>1. cur \in Partitions /\ next[cur] \in 0 .. LogEnd - 1
    BY ConsumerAssumption DEF TypeOK, HasNext
  <2>2. Log!Resolve(cur, next[cur])
    BY <1>2 DEF Log!Resolve, Log!Prefix, Settled, Rec
  <2> QED
    BY <2>1, <2>2 DEF Log!Next
<1> QED
  BY <1>1, <1>2

\* Every step of the loop, of the broker and of the process is a step of the
\* abstract log or leaves it alone.
LEMMA LogStep ==
  ASSUME ~ErrorsCarryRecords, IInv, [Next]_vars
  PROVE  [Log!Next]_<<committed, Resolved>>
<1> USE DEF broker, batch, retry, process, history
<1>0. TypeOK
  BY DEF IInv
<1>1. CASE HandlerOk \/ HandlerErr \/ PublishOk \/ PublishErr
  <2>1. HasNext(cur) /\ Settled(cur, next[cur]) /\ committed' = committed
    BY <1>1, <1>0 DEF HandlerOk, HandlerErr, PublishOk, PublishErr, IInv,
       AttemptSettled, TypeOK, InRecord
  <2>2. Resolved' \in {Resolved, Resolved \cup {Rec}}
    BY <1>1 DEF HandlerOk, HandlerErr, PublishOk, PublishErr, Resolved, Drop
  <2> QED
    BY <1>0, <2>1, <2>2, ResolveStep
<1>2. CASE CommitOk
  <2>1. cur \in Partitions /\ next[cur] \in Nat /\ next[cur] + 1 \in 0 .. LogEnd
    BY <1>2, <1>0, ConsumerAssumption DEF CommitOk, TypeOK, InRecord, HasNext
  <2>2. Settled(cur, next[cur] + 1)
    BY <1>2, <2>1 DEF CommitOk, IInv, BatchSettled, CommitResolved, Settled,
       Running, InRecord, Rec
  <2>3. Log!Commit(cur, next[cur] + 1)
    BY <1>2, <2>2 DEF CommitOk, Advance, Log!Commit, Log!Prefix, Settled, Resolved
  <2> QED
    BY <2>1, <2>3 DEF Log!Next
<1>3. CASE LateCommit
  <2>1. PICK c \in lateCommits : committed' = [committed EXCEPT ![c[1]] = c[2]]
    BY <1>3 DEF LateCommit
  <2>2. c[1] \in Partitions /\ c[2] \in 0 .. LogEnd /\ Settled(c[1], c[2])
    BY <1>0 DEF TypeOK, IInv, LateSettled
  <2>3. Log!Commit(c[1], c[2])
    BY <1>3, <2>1, <2>2 DEF LateCommit, Log!Commit, Log!Prefix, Settled, Resolved
  <2> QED
    BY <2>2, <2>3 DEF Log!Next
<1>4. CASE UNCHANGED <<committed, dlq, handled, dropped, cfg>>
  BY <1>4 DEF Resolved
<1> QED
  BY <1>1, <1>2, <1>3, <1>4 DEF Next, LoopStep, vars, PollCanceled, PollRecords,
     PollError, NextRecord, IterDone, CheckCtx, BackoffCanceled, BackoffElapsed,
     CommitErr, Advance, Cancel, Close, Crash, Restart

\* The consumer implements the abstract log: records are resolved in order and
\* only resolved prefixes are committed.
THEOREM Refinement == ASSUME ~ErrorsCarryRecords PROVE Spec => ImplementsOffsetLog
<1>1. Init => Log!Init
  BY DEF Init, Log!Init, Resolved
<1>2. IInv /\ [Next]_vars => [Log!Next]_<<committed, Resolved>>
  BY LogStep
<1> QED
  BY <1>1, <1>2, Invariance, PTL DEF Spec, Log!Spec, ImplementsOffsetLog

-----------------------------------------------------------------------------
(* The powers of two *)

\* A set of numbers with a member has a least one.
LEMMA LeastNumber ==
  ASSUME NEW T, T \subseteq Nat, T # {}
  PROVE  \E x \in T : \A y \in T : x <= y
<1> DEFINE R == {ss \in Nat \X Nat : ss[1] < ss[2]}
<1>1. IsWellFoundedOn(R, Nat)
  BY NatLessThanWellFounded DEF OpToRel
<1> HIDE DEF R
<1>2. PICK x \in T : \A y \in T : ~ (<<y, x>> \in R)
  BY <1>1, WFMin
<1>3. \A y \in T : ~(y < x)
  BY <1>2 DEF R
<1> QED
  BY <1>3

\* The powers of two up to the n-th.
Doubles(f, n) == f \in [0 .. n -> Nat] /\ f[0] = 1 /\ \A i \in 1 .. n : f[i] = 2 * f[i - 1]

\* There are some for every n: a least n without would have a predecessor with some.
LEMMA DoublesExist == \A n \in Nat : \E f : Doubles(f, n)
<1> DEFINE T == {n \in Nat : ~\E f : Doubles(f, n)}
<1> SUFFICES ASSUME T # {} PROVE FALSE
  OBVIOUS
<1>1. PICK n \in T : \A m \in T : n <= m
  BY LeastNumber
<1>2. n # 0
  <2>1. Doubles([i \in 0 .. 0 |-> 1], 0)
    BY DEF Doubles
  <2> QED
    BY <2>1
<1>3. PICK f : Doubles(f, n - 1)
  BY <1>1, <1>2
<1> DEFINE g == [i \in 0 .. n |-> IF i = n THEN 2 * f[n - 1] ELSE f[i]]
<1>4. n \in Nat /\ n - 1 \in Nat /\ f[n - 1] \in Nat
  BY <1>2, <1>3 DEF Doubles
<1>5. g \in [0 .. n -> Nat] /\ g[0] = 1 /\ g[n] = 2 * g[n - 1]
  BY <1>2, <1>3, <1>4 DEF Doubles
<1>6. \A i \in 1 .. n - 1 : g[i] = 2 * g[i - 1]
  BY <1>3, <1>4 DEF Doubles
<1> HIDE DEF g
<1>7. ASSUME NEW i \in 1 .. n PROVE g[i] = 2 * g[i - 1]
  <2>1. i = n \/ i \in 1 .. n - 1
    BY <1>4
  <2> QED
    BY <1>5, <1>6, <2>1
<1>8. Doubles(g, n)
  BY <1>5, <1>7 DEF Doubles
<1> QED
  BY <1>1, <1>8

\* And no two ways of doubling: a least difference would come from an earlier one.
LEMMA DoublesAgree ==
  ASSUME NEW n \in Nat, NEW m \in Nat, NEW f, NEW g, Doubles(f, n), Doubles(g, m),
         NEW i \in Nat, i <= n, i <= m
  PROVE  f[i] = g[i]
<1> DEFINE T == {j \in Nat : j <= n /\ j <= m /\ f[j] # g[j]}
<1> SUFFICES ASSUME T # {} PROVE FALSE
  OBVIOUS
<1>1. PICK j \in T : \A k \in T : j <= k
  BY LeastNumber
<1>2. j # 0
  BY <1>1 DEF Doubles
<1>3. f[j - 1] = g[j - 1]
  BY <1>1, <1>2
<1> QED
  BY <1>1, <1>2, <1>3 DEF Doubles

\* So the recursive definition of Pow2 defines a function, and the one it says.
LEMMA Pow2Def ==
  /\ Pow2 \in [Nat -> Nat]
  /\ \A n \in Nat : Pow2[n] = IF n = 0 THEN 1 ELSE 2 * Pow2[n - 1]
<1> DEFINE D(n) == CHOOSE f : Doubles(f, n)
           P == [n \in Nat |-> D(n)[n]]
<1>1. \A n \in Nat : Doubles(D(n), n)
  BY DoublesExist
<1> HIDE DEF D
<1>2. P \in [Nat -> Nat]
  BY <1>1 DEF Doubles
<1>3. \A n \in Nat : P[n] = IF n = 0 THEN 1 ELSE 2 * P[n - 1]
  <2>1. P[0] = 1
    BY <1>1 DEF Doubles
  <2>2. ASSUME NEW n \in Nat, n # 0 PROVE P[n] = 2 * P[n - 1]
    <3>1. n - 1 \in Nat /\ n - 1 <= n
      BY <2>2
    <3>2. D(n)[n - 1] = D(n - 1)[n - 1]
      BY <1>1, <3>1, DoublesAgree
    <3>3. D(n)[n] = 2 * D(n)[n - 1]
      BY <1>1, <2>2 DEF Doubles
    <3> QED
      BY <3>1, <3>2, <3>3
  <2> QED
    BY <2>1, <2>2
<1>4. P = [n \in Nat |-> IF n = 0 THEN 1 ELSE 2 * P[n - 1]]
  BY <1>2, <1>3
<1> HIDE DEF P
<1>5. Pow2 = [n \in Nat |-> IF n = 0 THEN 1 ELSE 2 * Pow2[n - 1]]
  BY <1>4, Zenon DEF Pow2
<1>6. \A n \in Nat : Pow2[n] = IF n = 0 THEN 1 ELSE 2 * Pow2[n - 1]
  BY <1>5
<1>7. Pow2 \in [Nat -> Nat]
  <2> DEFINE T == {n \in Nat : Pow2[n] \notin Nat}
  <2> SUFFICES ASSUME T # {} PROVE FALSE
    BY <1>5
  <2>1. PICK n \in T : \A m \in T : n <= m
    BY LeastNumber
  <2> QED
    BY <1>6, <2>1
<1> QED
  BY <1>6, <1>7

-----------------------------------------------------------------------------
(* The waits and the attempts of processWithRetry *)

\* The wait before the attempt after the n-th.
Wait(n) ==
    LET doubled == cfg.initialBackoff * Pow2[n - 1]
    IN  IF n > 1 /\ doubled > cfg.maxBackoff THEN cfg.maxBackoff ELSE doubled

\* Doubling and capping one wait gives the next.
LEMMA NextWait ==
  ASSUME TypeOK, NEW n \in Nat \ {0}
  PROVE  /\ Wait(1) = cfg.initialBackoff
         /\ Wait(n + 1) = IF Wait(n) * 2 > cfg.maxBackoff THEN cfg.maxBackoff ELSE Wait(n) * 2
<1> DEFINE first == cfg.initialBackoff
           p == Pow2[n - 1]
<1>1. first \in Nat /\ cfg.maxBackoff \in Nat
  BY DEF TypeOK, ConfigType
<1>2. p \in Nat /\ Pow2[0] = 1 /\ Pow2[n] = 2 * p
  BY Pow2Def
<1>3. Wait(1) = cfg.initialBackoff
  BY <1>1, <1>2 DEF Wait
<1>4. (n + 1) - 1 = n
  OBVIOUS
<1>5. Wait(n + 1) = IF first * (2 * p) > cfg.maxBackoff THEN cfg.maxBackoff ELSE first * (2 * p)
  BY <1>2, <1>4 DEF Wait
<1>6. Wait(n) = IF n > 1 /\ first * p > cfg.maxBackoff THEN cfg.maxBackoff ELSE first * p
  BY DEF Wait
<1> HIDE DEF first, p
<1>7. first * (2 * p) = 2 * (first * p) /\ first * p \in Nat
  BY <1>1, <1>2
<1>8. CASE n = 1
  BY <1>1, <1>3, <1>5, <1>6, <1>7, <1>8
<1>9. CASE n > 1
  BY <1>1, <1>3, <1>5, <1>6, <1>7, <1>9
<1> QED
  BY <1>8, <1>9

\* While a record is tried, backoff is the wait after the attempt under way; while the
\* loop waits, it is the wait after the last one.
Waits ==
    attempt < MaxAttempts =>
        /\ pc \in {"check", "handler"} => backoff = Wait(attempt + 1)
        /\ pc = "backoff" => attempt > 0 /\ backoff = Wait(attempt)

\* Nothing changes the configuration of a consumer.
LEMMA ConfigFixed == ASSUME [Next]_vars PROVE cfg' = cfg
<1> USE DEF broker, batch, retry, process, history
<1>1. CASE LoopStep
  BY <1>1 DEF LoopStep, PollCanceled, PollRecords, PollError, NextRecord, IterDone, CheckCtx,
     HandlerOk, HandlerErr, PublishOk, PublishErr, BackoffCanceled, BackoffElapsed, CommitOk,
     CommitErr, Advance
<1>2. CASE LateCommit \/ Cancel \/ Close \/ Crash \/ Restart \/ UNCHANGED vars
  BY <1>2 DEF LateCommit, Cancel, Close, Crash, Restart, vars
<1> QED
  BY <1>1, <1>2 DEF Next

\* The schedule of the waits is kept by every step.
LEMMA WaitsKept == ASSUME TypeOK, Waits, [Next]_vars PROVE Waits'
<1> USE DEF broker, batch, retry, process, history
<1>0. attempt \in Nat /\ MaxAttempts \in Nat
  BY ConsumerAssumption DEF TypeOK
<1>1. cfg' = cfg /\ \A n : Wait(n)' = Wait(n)
  BY ConfigFixed DEF Wait
<1>2. CASE NextRecord
  <2>1. Wait(1) = cfg.initialBackoff
    BY NextWait
  <2>2. attempt' = 0 /\ backoff' = cfg.initialBackoff /\ pc' = "check"
    BY <1>2 DEF NextRecord
  <2> QED
    BY <1>1, <2>1, <2>2 DEF Waits
<1>3. CASE CheckCtx
  BY <1>1, <1>3 DEF CheckCtx, Waits
<1>4. CASE HandlerErr
  BY <1>0, <1>1, <1>4 DEF HandlerErr, Waits
<1>5. CASE BackoffElapsed
  <2>1. CASE attempt < MaxAttempts
    <3>1. attempt \in Nat \ {0} /\ backoff = Wait(attempt)
      BY <1>0, <1>5, <2>1 DEF BackoffElapsed, Waits
    <3>2. backoff' = Wait(attempt + 1)
      BY <1>5, <3>1, NextWait DEF BackoffElapsed
    <3> QED
      BY <1>1, <1>5, <3>2 DEF BackoffElapsed, Waits
  <2>2. CASE ~(attempt < MaxAttempts)
    BY <1>5, <2>2 DEF BackoffElapsed, Waits
  <2> QED
    BY <2>1, <2>2
<1>6. CASE \/ pc' \notin {"check", "handler", "backoff"}
           \/ UNCHANGED <<pc, attempt, backoff>>
  BY <1>1, <1>6 DEF Waits
<1> QED
  BY <1>2, <1>3, <1>4, <1>5, <1>6 DEF Next, vars, LoopStep, PollCanceled, PollRecords,
     PollError, IterDone, HandlerOk, PublishOk, PublishErr, BackoffCanceled, CommitOk,
     CommitErr, Advance, LateCommit, Cancel, Close, Crash, Restart

\* The n-th wait of processWithRetry is InitialBackoff doubled n - 1 times, capped by
\* MaxBackoff from the second on, for every configuration and however long the retries
\* go on.
THEOREM WaitsDouble == Spec => []BackoffSchedule
<1>1. Init => Waits
  BY DEF Init, Waits
<1>2. Waits => BackoffSchedule
  BY DEF Waits, BackoffSchedule, Wait
<1> QED
  BY <1>1, <1>2, WaitsKept, TypeCorrect, PTL DEF Spec

\* With MaxRetries set, a record is tried only while it has attempts left.
RetriesLeft ==
    /\ cfg.maxRetries <= MaxAttempts
    /\ cfg.maxRetries > 0 =>
           /\ pc \in InRecord => attempt <= cfg.maxRetries
           /\ pc \in {"check", "handler", "backoff"} => attempt < cfg.maxRetries

\* The handler is called at most MaxRetries times for a delivery of a record.
THEOREM RetriesBounded == Spec => []RetriesLeft
<1> USE DEF broker, batch, retry, process, history, InRecord
<1>1. Init => RetriesLeft
  <2>1. \A c \in Configs : NewConsumer(c).maxRetries = c.maxRetries
    BY ConsumerAssumption DEF ConfigType, NewConsumer
  <2> QED
    BY <2>1, ConsumerAssumption DEF Init, RetriesLeft
<1>2. TypeOK /\ RetriesLeft /\ [Next]_vars => RetriesLeft'
  <2> SUFFICES ASSUME TypeOK, RetriesLeft, [Next]_vars PROVE RetriesLeft'
    OBVIOUS
  <2>0. attempt \in Nat /\ cfg.maxRetries \in Nat /\ MaxAttempts \in Nat
    BY ConsumerAssumption DEF TypeOK, ConfigType
  <2>1. attempt \in Nat /\ cfg.maxRetries \in Nat /\ cfg' = cfg /\ MaxAttempts \in Nat
    BY <2>0, ConfigFixed
  <2>2. CASE HandlerErr
    BY <2>1, <2>2 DEF HandlerErr, RetriesExceeded, RetriesLeft
  <2>3. CASE NextRecord
    BY <2>1, <2>3 DEF NextRecord, RetriesLeft
  <2>4. CASE \/ pc' \notin InRecord
             \/ UNCHANGED <<pc, attempt>>
             \/ attempt' = attempt /\ pc \in {"check", "handler", "backoff"}
             \/ attempt' = attempt /\ pc = "dlq" /\ pc' = "commit"
    BY <2>1, <2>4 DEF RetriesLeft
  <2> QED
    BY <2>2, <2>3, <2>4 DEF Next, vars, LoopStep, PollCanceled, PollRecords, PollError,
       IterDone, CheckCtx, HandlerOk, PublishOk, PublishErr, BackoffCanceled, BackoffElapsed,
       CommitOk, CommitErr, Advance, LateCommit, Cancel, Close, Crash, Restart
<1> QED
  BY <1>1, <1>2, TypeCorrect, PTL DEF Spec

-----------------------------------------------------------------------------
(* What the loop's progress rests on *)

\* How much a record may still cost.
Effort ==
    4 * (cfg.maxRetries - attempt) +
        CASE pc = "backoff" -> 4 [] pc = "check" -> 3 [] pc = "handler" -> 2
          [] pc = "dlq" -> 1 [] OTHER -> 0

\* Each step of the loop on a record leaves it or brings its end nearer.
EffortSpent ==
    cfg.maxRetries > 0 /\ pc \in InRecord /\ LoopStep =>
        /\ Effort \in Nat
        /\ pc' \in InRecord => Rec' = Rec /\ Effort' < Effort

\* The decreasing measure behind PoisonPillDoesNotBlock: with MaxRetries set,
\* processWithRetry and the commit after it take a bounded number of steps on a record.
THEOREM RetriesProgress == Spec => [][EffortSpent]_vars
<1> USE DEF broker, batch, retry, process, history, InRecord
<1>1. TypeOK /\ RetriesLeft /\ [Next]_vars => [EffortSpent]_vars
  <2> SUFFICES ASSUME TypeOK, RetriesLeft, cfg.maxRetries > 0, pc \in InRecord, LoopStep
               PROVE  Effort \in Nat /\ (pc' \in InRecord => Rec' = Rec /\ Effort' < Effort)
    BY DEF EffortSpent
  <2>1. attempt \in Nat /\ cfg.maxRetries \in Nat /\ attempt <= cfg.maxRetries
    BY DEF TypeOK, ConfigType, RetriesLeft
  <2>2. Effort \in Nat
    BY <2>1 DEF Effort
  <2>3. CASE HandlerErr
    <3>1. attempt' = attempt + 1 /\ cfg' = cfg /\ cur' = cur /\ next' = next
      BY <2>1, <2>3, ConsumerAssumption DEF HandlerErr, RetriesLeft, TypeOK
    <3> QED
      BY <2>1, <2>2, <2>3, <3>1 DEF HandlerErr, Effort, Rec
  <2>4. CASE CheckCtx \/ HandlerOk \/ PublishOk \/ PublishErr \/ BackoffCanceled \/ BackoffElapsed
    <3>1. attempt' = attempt /\ cfg' = cfg /\ cur' = cur /\ next' = next
      BY <2>4 DEF CheckCtx, HandlerOk, PublishOk, PublishErr, BackoffCanceled, BackoffElapsed
    <3>2. \/ pc = "check" /\ pc' \in {"handler", "error"}
          \/ pc = "handler" /\ pc' = "commit"
          \/ pc = "dlq" /\ pc' \in {"commit", "error"}
          \/ pc = "backoff" /\ pc' \in {"check", "error"}
      BY <2>4 DEF CheckCtx, HandlerOk, PublishOk, PublishErr, BackoffCanceled, BackoffElapsed
    <3> QED
      BY <2>1, <2>2, <3>1, <3>2 DEF Effort, Rec
  <2>5. CASE CommitOk \/ CommitErr
    BY <2>2, <2>5 DEF CommitOk, CommitErr, Advance
  <2> QED
    BY <2>3, <2>4, <2>5 DEF LoopStep, PollCanceled, PollRecords, PollError, NextRecord, IterDone
<1> QED
  BY <1>1, TypeCorrect, RetriesBounded, PTL DEF Spec

\* How far a canceled loop is from its end within one record of the batch.
CancelRank(where) ==
    CASE where = "iter" -> 5 [] where = "handler" -> 4 [] where \in {"backoff", "dlq"} -> 3
      [] where \in {"check", "commit"} -> 2 [] where = "poll" -> 1 [] OTHER -> 0

\* A canceled loop fetches nothing more; each of its steps is one towards its end, or
\* takes it past one record of the batch it has.
CancelShortens ==
    ctx = "canceled" /\ LoopStep =>
        /\ position' = position
        /\ \/ next' = next /\ CancelRank(pc') < CancelRank(pc)
           \/ next' = [next EXCEPT ![cur] = @ + 1] /\ next'[cur] <= position[cur]

\* The decreasing measure behind CancelStops: what is left of the batch, and then the
\* rank of the program point.
THEOREM CancelProgress == Spec => [][CancelShortens]_vars
<1> USE DEF broker, batch, retry, process, history
<1>1. TypeOK /\ [Next]_vars => [CancelShortens]_vars
  <2> SUFFICES ASSUME TypeOK, ctx = "canceled", LoopStep PROVE CancelShortens
    BY DEF CancelShortens
  <2>1. CASE CommitOk \/ CommitErr
    <3>1. /\ next' = [next EXCEPT ![cur] = @ + 1] /\ position' = position
          /\ next \in [Partitions -> 0 .. LogEnd] /\ position \in [Partitions -> 0 .. LogEnd]
          /\ cur \in Partitions /\ next[cur] < position[cur]
      BY <2>1 DEF CommitOk, CommitErr, Advance, TypeOK, InRecord, HasNext
    <3> QED
      BY <3>1, ConsumerAssumption DEF CancelShortens
  <2>2. CASE PollCanceled \/ IterDone \/ NextRecord \/ CheckCtx \/ HandlerOk \/ HandlerErr
    BY <2>2 DEF PollCanceled, IterDone, NextRecord, CheckCtx, HandlerOk, HandlerErr,
       CancelShortens, CancelRank
  <2>3. CASE PublishOk \/ PublishErr \/ BackoffCanceled \/ BackoffElapsed
    BY <2>3 DEF PublishOk, PublishErr, BackoffCanceled, BackoffElapsed, CancelShortens, CancelRank
  <2> QED
    BY <2>1, <2>2, <2>3 DEF LoopStep, PollRecords, PollError
<1> QED
  BY <1>1, TypeCorrect, PTL DEF Spec

-----------------------------------------------------------------------------
(* The lifecycle *)

\* A step of the consumer is a step of ConsumerLoop, or one its caller does not see.
LEMMA LifecycleStep ==
  ASSUME TypeOK, [Next]_vars
  PROVE  [Lifecycle!Next]_(Lifecycle!vars)
<1> USE DEF broker, batch, retry, process, history, Running, InRecord,
        Lifecycle!Next, Lifecycle!vars
<1>1. CASE PollCanceled
  BY <1>1 DEF PollCanceled, Lifecycle!StopOnCancel
<1>2. CASE CheckCtx \/ BackoffCanceled
  BY <1>2 DEF CheckCtx, BackoffCanceled, TypeOK, Lifecycle!StopOnCancel, Lifecycle!StopOnExpiry
<1>3. CASE HandlerErr \/ Crash
  BY <1>3 DEF HandlerErr, Crash, Lifecycle!Die
<1>4. CASE PublishErr
  BY <1>4 DEF PublishErr, Lifecycle!Fail
<1>5. CASE Restart
  BY <1>5 DEF Restart, Lifecycle!Restart
<1>6. CASE Cancel
  BY <1>6 DEF Cancel, Lifecycle!Cancel
<1>7. CASE Close
  BY <1>7 DEF Close, Lifecycle!Close
<1>8. CASE PollRecords \/ PollError \/ NextRecord \/ IterDone \/ HandlerOk \/ PublishOk
           \/ BackoffElapsed \/ CommitOk \/ CommitErr \/ LateCommit \/ UNCHANGED vars
  BY <1>8 DEF PollRecords, PollError, NextRecord, IterDone, HandlerOk, PublishOk,
     BackoffElapsed, CommitOk, CommitErr, Advance, LateCommit, vars
<1> QED
  BY <1>1, <1>2, <1>3, <1>4, <1>5, <1>6, <1>7, <1>8 DEF Next, LoopStep

\* To its caller the consumer is a ConsumerLoop: it ends with nil only when its context
\* was canceled, it does not start again by itself, and Close alone changes nothing.
THEOREM LifecycleRefined == Spec => Lifecycle!Spec
<1>1. Init => Lifecycle!Init
  BY DEF Init, Lifecycle!Init, Running
<1>2. TypeOK /\ [Next]_vars => [Lifecycle!Next]_(Lifecycle!vars)
  BY LifecycleStep
<1> QED
  BY <1>1, <1>2, TypeCorrect, PTL DEF Spec, Lifecycle!Spec

=============================================================================
