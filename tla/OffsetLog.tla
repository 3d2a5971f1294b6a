----------------------------- MODULE OffsetLog ------------------------------
(***************************************************************************)
(* What a consumer of a partitioned log promises: records are resolved in  *)
(* the order of their partition, and the committed offset only ever names  *)
(* a prefix of resolved records.  It may move back (a late or repeated     *)
(* commit), which costs duplicate deliveries and never a record.           *)
(***************************************************************************)
EXTENDS Integers

CONSTANTS Partitions, LogEnd
VARIABLES committed, resolved

\* The first n records of p are resolved.
Prefix(p, n) == \A o \in 0 .. n - 1 : <<p, o>> \in resolved

Init ==
    /\ committed = [p \in Partitions |-> 0]
    /\ resolved = {}

Resolve(p, o) ==
    /\ Prefix(p, o)
    /\ resolved' = resolved \cup {<<p, o>>}
    /\ UNCHANGED committed

Commit(p, n) ==
    /\ Prefix(p, n)
    /\ committed' = [committed EXCEPT ![p] = n]
    /\ UNCHANGED resolved

Next ==
    \E p \in Partitions :
        \/ \E o \in 0 .. LogEnd - 1 : Resolve(p, o)
        \/ \E n \in 0 .. LogEnd : Commit(p, n)

Spec == Init /\ [][Next]_<<committed, resolved>>
=============================================================================
