----------------------------- MODULE AuditTrail -----------------------------
(***************************************************************************)
(* What an asynchronous audit logger promises: accepted events reach the   *)
(* writer one by one, in the order they were accepted, and Close returns   *)
(* only when none is left and none can be accepted any more.               *)
(***************************************************************************)
EXTENDS Naturals, Sequences

CONSTANT Event
VARIABLES accepted, offered, state
    \* offered: what was handed to the writer; state: "open", "closed", "drained"

Init == accepted = <<>> /\ offered = <<>> /\ state = "open"

Accept(e) ==
    /\ state = "open"
    /\ accepted' = Append(accepted, e)
    /\ UNCHANGED <<offered, state>>

Offer ==
    /\ Len(offered) < Len(accepted)
    /\ offered' = Append(offered, accepted[Len(offered) + 1])
    /\ UNCHANGED <<accepted, state>>

Close == state = "open" /\ state' = "closed" /\ UNCHANGED <<accepted, offered>>

Drained ==
    /\ state = "closed" /\ offered = accepted
    /\ state' = "drained"
    /\ UNCHANGED <<accepted, offered>>

Next == (\E e \in Event : Accept(e)) \/ Offer \/ Close \/ Drained

Spec == Init /\ [][Next]_<<accepted, offered, state>>
=============================================================================
