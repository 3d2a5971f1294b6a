---------------------------- MODULE ConsumerLoop ----------------------------
(***************************************************************************)
(* The lifecycle of Consumer.Start as its caller sees it: the loop runs    *)
(* until the context is canceled, a strict failure ends it with an error,  *)
(* or the process dies.  Closing the client is visible but ends nothing.   *)
(***************************************************************************)
VARIABLES state, ctx, client

Init ==
    /\ state \in {"idle", "running"}
    /\ ctx = "live" /\ client = "open"

Start == state = "idle" /\ state' = "running" /\ UNCHANGED <<ctx, client>>

\* The loop notices the cancellation: nil from a poll, an error from a record.
StopOnCancel ==
    /\ state = "running" /\ ctx = "canceled"
    /\ state' \in {"nil", "error"}
    /\ UNCHANGED <<ctx, client>>

\* A passed deadline ends the loop in a record and not in a poll, so it may never.
StopOnExpiry ==
    /\ state = "running" /\ ctx = "expired"
    /\ state' = "error"
    /\ UNCHANGED <<ctx, client>>

\* The dead-letter topic failed a strict consumer.
Fail == state = "running" /\ state' = "error" /\ UNCHANGED <<ctx, client>>

\* A panic or a crash takes the process away.
Die == state # "dead" /\ state' = "dead" /\ UNCHANGED <<ctx, client>>

Restart == state = "dead" /\ state' = "running" /\ ctx' = "live" /\ client' = "open"

Cancel ==
    /\ ctx = "live" /\ ctx' \in {"canceled", "expired"}
    /\ UNCHANGED <<state, client>>

Close == client = "open" /\ client' = "closed" /\ UNCHANGED <<state, ctx>>

Next == Start \/ StopOnCancel \/ StopOnExpiry \/ Fail \/ Die \/ Restart \/ Cancel \/ Close

vars == <<state, ctx, client>>
Spec == Init /\ [][Next]_vars
FairSpec == Spec /\ WF_vars(StopOnCancel)
=============================================================================
