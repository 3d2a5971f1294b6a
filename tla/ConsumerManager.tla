--------------------------- MODULE ConsumerManager --------------------------
(***************************************************************************)
(* messaging/manager.go: several consumer loops in background goroutines,  *)
(* counted by a WaitGroup.  When and how a loop ends is not decided here:  *)
(* it takes the steps of ConsumerLoop, which Consumer implements.          *)
(***************************************************************************)
EXTENDS Integers

CONSTANT Consumers      \* the registered consumers

VARIABLES
    loop,       \* per consumer: "idle", "running", or how Start returned
    client,     \* per consumer: "open" or "closed"
    held,       \* the consumers whose client keeps rebalances waiting
    wg,         \* the counter of m.wg
    ctx,        \* the context given to Start
    main,       \* where the goroutine that calls Start and Close is
    process     \* "up" or "dead"

vars == <<loop, client, held, wg, ctx, main, process>>

Up == process = "up"
Running == {c \in Consumers : loop[c] = "running"}

Loop(c) == INSTANCE ConsumerLoop WITH
    state <- IF Up THEN loop[c] ELSE "dead", client <- client[c]

Init ==
    /\ loop = [c \in Consumers |-> "idle"]
    /\ client = [c \in Consumers |-> "open"]
    /\ held = {}
    /\ wg = 0 /\ ctx = "live" /\ main = "starting" /\ process = "up"

\* Start: wg.Add, then the goroutine.
StartOne(c) ==
    /\ Up /\ main = "starting" /\ loop[c] = "idle"
    /\ wg' = wg + 1
    /\ loop' = [loop EXCEPT ![c] = "running"]
    /\ UNCHANGED <<client, held, ctx, main, process>>

StartReturns ==
    /\ Up /\ main = "starting" /\ \A c \in Consumers : loop[c] # "idle"
    /\ main' = "serving"
    /\ UNCHANGED <<loop, client, held, wg, ctx, process>>

\* A poll returns records.  BlockRebalanceOnPoll keeps rebalances waiting until
\* AllowRebalance, which nothing calls.
Poll(c) ==
    /\ Up /\ loop[c] = "running" /\ client[c] = "open"
    /\ held' = held \cup {c}
    /\ UNCHANGED <<loop, client, wg, ctx, main, process>>

\* A loop returns; an error is only logged.  The deferred wg.Done runs.
Return(c, how) ==
    /\ Up /\ loop[c] = "running"
    /\ loop' = [loop EXCEPT ![c] = how]
    /\ wg' = wg - 1
    /\ UNCHANGED <<client, held, ctx, main, process>>

LoopStopOnCancel(c) ==
    \E how \in {"nil", "error"} : Return(c, how) /\ Loop(c)!StopOnCancel
LoopFail(c) == Return(c, "error") /\ Loop(c)!Fail

\* A strict consumer without a dead-letter producer panics: nothing recovers.
LoopPanic(c) ==
    /\ Up /\ loop[c] = "running"
    /\ process' = "dead"
    /\ UNCHANGED <<loop, client, held, wg, ctx, main>>
    /\ Loop(c)!Die

Cancel ==
    /\ Up /\ ctx = "live"
    /\ ctx' = "canceled"
    /\ UNCHANGED <<loop, client, held, wg, main, process>>

CloseCalled ==
    /\ Up /\ main = "serving"
    /\ main' = "closing"
    /\ UNCHANGED <<loop, client, held, wg, ctx, process>>

\* client.Close leaves the group, which is a rebalance: it waits while held.
CloseOne(c) ==
    /\ Up /\ main = "closing" /\ client[c] = "open" /\ c \notin held
    /\ client' = [client EXCEPT ![c] = "closed"]
    /\ UNCHANGED <<loop, held, wg, ctx, main, process>>

\* Mutant: Close does not wait for the goroutines.
CloseReturnsAtOnce ==
    /\ Up /\ main = "closing" /\ \A c \in Consumers : client[c] = "closed"
    /\ main' = "closed"
    /\ UNCHANGED <<loop, client, held, wg, ctx, process>>
\* wg.Wait lets Close return when the counter is zero.
CloseReturns ==
    /\ Up /\ main = "closing" /\ \A c \in Consumers : client[c] = "closed"
    /\ wg = 0
    /\ main' = "closed"
    /\ UNCHANGED <<loop, client, held, wg, ctx, process>>

MainStep ==
    \/ \E c \in Consumers : StartOne(c) \/ CloseOne(c)
    \/ StartReturns \/ CloseReturns

Next ==
    \/ MainStep \/ CloseCalled \/ Cancel
    \/ \E c \in Consumers :
           Poll(c) \/ LoopStopOnCancel(c) \/ LoopFail(c) \/ LoopPanic(c)

-----------------------------------------------------------------------------
TypeOK ==
    /\ loop \in [Consumers -> {"idle", "running", "nil", "error"}]
    /\ client \in [Consumers -> {"open", "closed"}]
    /\ held \subseteq Consumers
    /\ main \in {"starting", "serving", "closing", "closed"}
    /\ wg \in Nat

\* "waits for them to finish processing" (manager.go:41): when Close returns, no
\* consumer goroutine is left.
CloseWaitsForAll == main = "closed" => Running = {}
=============================================================================
