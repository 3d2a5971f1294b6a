------------------------------ MODULE Consumer ------------------------------
(***************************************************************************)
(* messaging/consumer.go: the poll loop of one Kafka consumer, its retry   *)
(* and dead-letter policy, and the offsets it commits.                     *)
(*                                                                         *)
(* The broker keeps a log of LogEnd records per partition and the group's  *)
(* committed offsets.  A record is the pair <<partition, offset>>.  The    *)
(* client's batch for partition p is next[p] .. position[p] - 1, and the   *)
(* record being processed is <<cur, next[cur]>>.                           *)
(***************************************************************************)
EXTENDS Integers, FiniteSets

CONSTANTS
    Partitions,         \* partitions of the topic assigned to the consumer
    LogEnd,             \* records per partition
    Configs,            \* the ConsumerConfig values (and dlq arguments) of interest
    ErrorsCarryRecords, \* may a poll return records next to a partition error?
    MaxAttempts,        \* bound: the attempt counter stops here
    MaxCrashes          \* bound: crashes of the process

\* One model unit of time is 100 ms.
DefaultInitialBackoff == 1
DefaultMaxBackoff == 300

Offsets == 0 .. LogEnd - 1
Records == Partitions \X Offsets

ConfigType == [maxRetries : Nat, initialBackoff : Nat, maxBackoff : Nat,
               strict : BOOLEAN, hasDLQ : BOOLEAN]

ASSUME ConsumerAssumption ==
    /\ Partitions # {}
    /\ LogEnd \in Nat
    /\ Configs \subseteq ConfigType
    /\ ErrorsCarryRecords \in BOOLEAN
    /\ MaxAttempts \in Nat /\ \A c \in Configs : c.maxRetries <= MaxAttempts
    /\ MaxCrashes \in Nat

VARIABLES
    \* the broker
    committed,     \* offset committed by the group, per partition
    lateCommits,   \* commit requests the client gave up on, still on their way
    dlq,           \* records in the dead-letter topic
    \* the client and the loop
    cfg,           \* c.cfg, after NewConsumer
    position,      \* fetch position per partition
    next,          \* first record of the batch not yet processed, per partition
    cur,           \* partition the record iterator is in
    pc,            \* where Start / processWithRetry is
    attempt, backoff,
    ctx,           \* context given to Start: "live", "canceled", or "expired" (a deadline)
    client,        \* c.client: "open", or "closed" by Consumer.Close
    held,          \* "yes" once a poll of this client has returned records
    \* what happened to the records, and the crashes so far
    handled,       \* the handler returned nil
    dropped,       \* given up by the permissive policy while ctx was live
    crashes

broker == <<committed, lateCommits, dlq>>
batch == <<position, next, cur>>
retry == <<attempt, backoff>>
history == <<handled, dropped>>
process == <<ctx, client, held>>
vars == <<broker, cfg, batch, pc, retry, process, history, crashes>>

Rec == <<cur, next[cur]>>

\* Program points: in PollFetches, at iter.Done, at the ctx check, in the
\* handler, in Publish, in the backoff select, in CommitRecords; the last three
\* are Start returned nil, Start returned an error, and the process is gone.
InRecord == {"check", "handler", "dlq", "backoff", "commit"}
Running == {"poll", "iter"} \cup InRecord
Stopped == {"nil", "error", "dead"}

-----------------------------------------------------------------------------
\* NewConsumer: zero durations are replaced by the defaults.
NewConsumer(c) ==
    [c EXCEPT !.initialBackoff = IF @ = 0 THEN DefaultInitialBackoff ELSE @,
              !.maxBackoff = IF @ = 0 THEN DefaultMaxBackoff ELSE @]

Init ==
    /\ cfg \in {NewConsumer(c) : c \in Configs}
    /\ committed = [p \in Partitions |-> 0]
    /\ lateCommits = {} /\ dlq = {}
    /\ position = committed /\ next = committed
    /\ cur \in Partitions
    /\ pc = "poll" /\ attempt = 0 /\ backoff = 0
    /\ ctx = "live" /\ client = "open" /\ held = "no"
    /\ handled = {} /\ dropped = {}
    /\ crashes = 0

\* Fetch positions a poll that returns some record may leave.
Fetched == {pos \in [Partitions -> 0 .. LogEnd] :
              pos # position /\ \A p \in Partitions : pos[p] >= position[p]}

\* Mutant: a canceled poll is retried like any other poll error.
PollCanceledContinues == pc = "poll" /\ ctx = "canceled" /\ UNCHANGED vars

\* PollFetches on a canceled context: the error is context.Canceled, Start
\* returns nil.
PollCanceled ==
    /\ pc = "poll" /\ ctx = "canceled"
    /\ pc' = "nil"
    /\ UNCHANGED <<broker, cfg, batch, retry, process, history, crashes>>

\* PollFetches with another error: logged, and the loop polls again.  A closed
\* client (ErrClientClosed) and a context whose deadline has passed
\* (DeadlineExceeded) always answer this way.  When the error is that of one
\* partition and the same fetch holds records of others, these are discarded.
PollError ==
    /\ pc = "poll" /\ ctx # "canceled"
    /\ \/ UNCHANGED <<position, next, held>>
       \/ /\ ErrorsCarryRecords /\ client = "open" /\ ctx = "live"
          /\ position' \in Fetched
          /\ next' = position' /\ held' = "yes"
    /\ UNCHANGED <<broker, cfg, cur, pc, retry, ctx, client, history, crashes>>

PollRecords ==
    /\ pc = "poll" /\ ctx = "live" /\ client = "open"
    /\ position' \in Fetched
    /\ pc' = "iter" /\ held' = "yes"
    /\ UNCHANGED <<broker, cfg, next, cur, retry, ctx, client, history, crashes>>

HasNext(p) == next[p] < position[p]

\* iter.Next: partitions one after the other.  The span is left out.
NextRecord ==
    /\ pc = "iter"
    /\ \E p \in Partitions :
         /\ HasNext(p)
         /\ HasNext(cur) => p = cur
         /\ cur' = p
    /\ attempt' = 0 /\ backoff' = cfg.initialBackoff
    /\ pc' = "check"
    /\ UNCHANGED <<broker, cfg, position, next, process, history, crashes>>

IterDone ==
    /\ pc = "iter" /\ \A p \in Partitions : ~HasNext(p)
    /\ pc' = "poll"
    /\ UNCHANGED <<broker, cfg, batch, retry, process, history, crashes>>

-----------------------------------------------------------------------------
(* processWithRetry *)

\* Mutant: the loop does not look at ctx between attempts.
CheckCtxIgnored ==
    /\ pc = "check"
    /\ pc' = "handler"
    /\ UNCHANGED <<broker, cfg, batch, retry, process, history, crashes>>

CheckCtx ==
    /\ pc = "check"
    /\ pc' = IF ctx = "live" THEN "handler" ELSE "error"
    /\ UNCHANGED <<broker, cfg, batch, retry, process, history, crashes>>

HandlerOk ==
    /\ pc = "handler"
    /\ handled' = handled \cup {Rec}
    /\ pc' = "commit"
    /\ UNCHANGED <<broker, cfg, batch, retry, process, dropped, crashes>>

\* The permissive policy gives the record up and lets the loop acknowledge it.
\* Only what is given up while ctx is live is a decision of the policy.
Drop == dropped' = IF ctx = "live" THEN dropped \cup {Rec} ELSE dropped

RetriesExceeded(n) == cfg.maxRetries > 0 /\ n >= cfg.maxRetries

HandlerErr ==
    /\ pc = "handler"
    /\ attempt' = IF attempt < MaxAttempts THEN attempt + 1 ELSE attempt
    /\ \/ /\ ~RetriesExceeded(attempt')
          /\ pc' = "backoff" /\ UNCHANGED dropped
       \/ /\ RetriesExceeded(attempt') /\ cfg.hasDLQ
          /\ pc' = "dlq" /\ UNCHANGED dropped
       \/ /\ RetriesExceeded(attempt') /\ ~cfg.hasDLQ /\ cfg.strict
          /\ pc' = "dead" /\ UNCHANGED dropped       \* panic
       \/ /\ RetriesExceeded(attempt') /\ ~cfg.hasDLQ /\ ~cfg.strict
          /\ pc' = "commit" /\ Drop
    /\ UNCHANGED <<broker, cfg, batch, backoff, process, handled, crashes>>

\* Producer.Publish blocks until the broker acknowledges the record.
PublishOk ==
    /\ pc = "dlq"
    /\ dlq' = dlq \cup {Rec}
    /\ pc' = "commit"
    /\ UNCHANGED <<committed, lateCommits, cfg, batch, retry, process,
                   history, crashes>>

\* Mutant: the strict policy is forgotten when the dead-letter topic fails.
PublishErrIgnored ==
    /\ pc = "dlq"
    /\ dlq' \in {dlq, dlq \cup {Rec}}
    /\ pc' = "commit" /\ Drop
    /\ UNCHANGED <<committed, lateCommits, cfg, batch, retry, process,
                   handled, crashes>>

\* A failed Publish may still have reached the dead-letter topic.
PublishErr ==
    /\ pc = "dlq"
    /\ dlq' \in {dlq, dlq \cup {Rec}}
    /\ \/ cfg.strict /\ pc' = "error" /\ UNCHANGED dropped
       \/ ~cfg.strict /\ pc' = "commit" /\ Drop
    /\ UNCHANGED <<committed, lateCommits, cfg, batch, retry, process,
                   handled, crashes>>

\* The select between ctx.Done and the timer; both may be ready.
BackoffCanceled ==
    /\ pc = "backoff" /\ ctx # "live"
    /\ pc' = "error"
    /\ UNCHANGED <<broker, cfg, batch, retry, process, history, crashes>>

\* Mutants: the record is not retried after the wait; the attempt counter starts
\* again; the cap is tested before the wait is doubled.
BackoffElapsedSkips ==
    /\ pc = "backoff" /\ pc' = "commit"
    /\ UNCHANGED <<broker, cfg, batch, retry, process, history, crashes>>
BackoffElapsedResets ==
    /\ pc = "backoff" /\ pc' = "check"
    /\ attempt' = 0
    /\ UNCHANGED <<broker, cfg, batch, backoff, process, history, crashes>>
BackoffElapsedCapFirst ==
    /\ pc = "backoff" /\ pc' = "check"
    /\ backoff' = IF backoff > cfg.maxBackoff THEN cfg.maxBackoff ELSE backoff * 2
    /\ UNCHANGED <<broker, cfg, batch, attempt, process, history, crashes>>

BackoffElapsed ==
    /\ pc = "backoff"
    /\ backoff' = IF backoff * 2 > cfg.maxBackoff THEN cfg.maxBackoff
                                                  ELSE backoff * 2
    /\ pc' = "check"
    /\ UNCHANGED <<broker, cfg, batch, attempt, process, history, crashes>>

-----------------------------------------------------------------------------
(* CommitRecords, and what follows it in the loop: on to the next record. *)

Advance ==
    /\ next' = [next EXCEPT ![cur] = @ + 1]
    /\ pc' = "iter"
    /\ UNCHANGED <<dlq, cfg, position, cur, retry, process, history, crashes>>

\* Mutants: commit on a context that outlives the cancellation; commit the end
\* of the batch.
CommitOkDetached ==
    /\ pc = "commit" /\ client = "open"
    /\ committed' = [committed EXCEPT ![cur] = next[cur] + 1]
    /\ UNCHANGED lateCommits
    /\ Advance
CommitOkBatchEnd ==
    /\ pc = "commit" /\ ctx = "live" /\ client = "open"
    /\ committed' = [committed EXCEPT ![cur] = position[cur]]
    /\ UNCHANGED lateCommits
    /\ Advance

CommitOk ==
    /\ pc = "commit" /\ ctx = "live" /\ client = "open"
    /\ committed' = [committed EXCEPT ![cur] = next[cur] + 1]
    /\ UNCHANGED lateCommits
    /\ Advance

\* A commit on a live client may fail with its request on the wire; on a
\* context that is done or a closed client nothing is sent.  The error is logged and
\* the loop goes on.
CommitErr ==
    /\ pc = "commit"
    /\ lateCommits' = IF ctx = "live" /\ client = "open"
                      THEN lateCommits \cup {<<cur, next[cur] + 1>>}
                      ELSE lateCommits
    /\ UNCHANGED committed
    /\ Advance

\* The broker applies a commit the client has given up on.
LateCommit ==
    /\ \E c \in lateCommits :
         /\ committed' = [committed EXCEPT ![c[1]] = c[2]]
         /\ lateCommits' = lateCommits \ {c}
    /\ UNCHANGED <<dlq, cfg, batch, pc, retry, process, history, crashes>>

-----------------------------------------------------------------------------
(* The environment of the loop *)

\* The context is canceled, or its deadline passes.
Cancel ==
    /\ ctx = "live" /\ pc # "dead"
    /\ ctx' \in {"canceled", "expired"}
    /\ UNCHANGED <<broker, cfg, batch, pc, retry, client, held, history, crashes>>

\* Consumer.Close.  The client leaves the group, which is a rebalance, and with
\* BlockRebalanceOnPoll that waits once records were polled: nothing here calls
\* AllowRebalance, so such a Close never gets to close the client.
Close ==
    /\ client = "open" /\ held = "no" /\ pc # "dead"
    /\ client' = "closed"
    /\ UNCHANGED <<broker, cfg, batch, pc, retry, ctx, held, history, crashes>>

Crash ==
    /\ pc # "dead" /\ crashes < MaxCrashes
    /\ pc' = "dead"
    /\ crashes' = crashes + 1
    /\ UNCHANGED <<broker, cfg, batch, retry, process, history>>

\* A new process joins the group: it resumes from the committed offsets, and
\* the requests of its predecessor are fenced off by the new generation.
Restart ==
    /\ pc = "dead"
    /\ pc' = "poll"
    /\ position' = committed /\ next' = committed
    /\ lateCommits' = {}
    /\ attempt' = 0 /\ backoff' = 0
    /\ ctx' = "live" /\ client' = "open" /\ held' = "no"
    /\ UNCHANGED <<committed, dlq, cfg, cur, history, crashes>>

LoopStep ==
    \/ PollCanceled \/ PollRecords \/ PollError
    \/ NextRecord \/ IterDone
    \/ CheckCtx \/ HandlerOk \/ HandlerErr
    \/ PublishOk \/ PublishErr
    \/ BackoffCanceled \/ BackoffElapsed
    \/ CommitOk \/ CommitErr

Next == LoopStep \/ LateCommit \/ Cancel \/ Close \/ Crash \/ Restart

Spec == Init /\ [][Next]_vars

\* The goroutine of Start is scheduled as long as it can move, the handler and
\* the Kafka client return, and timers fire.
FairSpec == Spec /\ WF_vars(LoopStep)

-----------------------------------------------------------------------------
(* Properties *)

TypeOK ==
    /\ cfg \in ConfigType
    /\ committed \in [Partitions -> 0 .. LogEnd]
    /\ lateCommits \subseteq Partitions \X (0 .. LogEnd)
    /\ dlq \subseteq Records /\ handled \subseteq Records /\ dropped \subseteq Records
    /\ position \in [Partitions -> 0 .. LogEnd]
    /\ next \in [Partitions -> 0 .. LogEnd]
    /\ \A p \in Partitions : next[p] <= position[p]
    /\ cur \in Partitions
    /\ pc \in Running \cup Stopped
    /\ pc \in InRecord => HasNext(cur)
    /\ attempt \in 0 .. MaxAttempts
    /\ backoff \in Nat
    /\ ctx \in {"live", "canceled", "expired"} /\ client \in {"open", "closed"}
    /\ held \in {"no", "yes"}
    /\ crashes \in 0 .. MaxCrashes

\* A record is resolved when its handler succeeded, when it is in the
\* dead-letter topic, or when a permissive consumer decided to drop it.
Resolved == handled \cup dlq \cup (IF cfg.strict THEN {} ELSE dropped)

\* Every record of p below offset n is resolved.
Settled(p, n) == \A o \in 0 .. n - 1 : <<p, o>> \in Resolved

\* "We commit manually after success" (consumer.go:65): whatever crashes,
\* cancellations and failed or late commits occur, no committed offset is past a
\* record that is not resolved, so a restart never skips one.
AtLeastOnce == \A p \in Partitions : Settled(p, committed[p])

\* Records of a partition are processed in order: the handler runs on a record
\* only when all records before it in its partition are resolved.
StrictOrdering == pc = "handler" => Settled(cur, next[cur])

\* Seen through committed and Resolved, every step of the consumer is a step of
\* OffsetLog: records are resolved in order, and only resolved prefixes are
\* committed.
Log == INSTANCE OffsetLog WITH resolved <- Resolved
ImplementsOffsetLog == Log!Spec

\* The inductive invariant behind these.  While the context is live, everything
\* the iterator has passed is resolved; a record given up after a cancellation
\* is the exception, and its commit cannot succeed.
LateSettled == \A c \in lateCommits : Settled(c[1], c[2])
BatchSettled == pc \in Running /\ ctx = "live" =>
                    \A p \in Partitions : Settled(p, next[p])
AttemptSettled == pc \in {"handler", "dlq", "backoff"} => Settled(cur, next[cur])
CommitResolved == pc = "commit" /\ ctx = "live" => Rec \in Resolved
IInv == /\ TypeOK /\ AtLeastOnce /\ LateSettled
        /\ BatchSettled /\ AttemptSettled /\ CommitResolved

Pow2[n \in Nat] == IF n = 0 THEN 1 ELSE 2 * Pow2[n - 1]

\* The waits between attempts double from InitialBackoff and are capped by
\* MaxBackoff from the second one on; the first wait is InitialBackoff even when
\* that is larger (consumer.go:151, 216-219).
BackoffSchedule ==
    pc = "backoff" /\ attempt < MaxAttempts =>
        LET doubled == cfg.initialBackoff * Pow2[attempt - 1]
        IN  backoff = IF attempt > 1 /\ doubled > cfg.maxBackoff
                      THEN cfg.maxBackoff ELSE doubled

\* Canceling the context given to Start stops the loop, wherever it is: in a
\* poll, in a batch, in a backoff, or after a drop whose commit fails.
CancelStops == (ctx = "canceled") ~> (pc \in Stopped)

\* A record whose handler keeps failing does not hold its partition up forever:
\* with MaxRetries set, the loop gets past it or stops.
PoisonPillDoesNotBlock ==
    \A r \in Records :
        (cfg.maxRetries > 0 /\ pc = "handler" /\ Rec = r) ~> ~(pc \in InRecord /\ Rec = r)

\* To its caller the consumer is a ConsumerLoop, fairness included.
Lifecycle == INSTANCE ConsumerLoop WITH state <- IF pc \in Running THEN "running" ELSE pc
ImplementsConsumerLoop == Lifecycle!FairSpec
=============================================================================
