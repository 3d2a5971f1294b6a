--------------------------- MODULE MCIdempotency ----------------------------
(* Instances of Idempotency for TLC. *)
EXTENDS Idempotency

CONSTANTS r1, r2, r3, r4

\* Three requests for one operation and one without a key.
MCKeyOf == [r \in Requests |-> IF r = r4 THEN NoKey ELSE "k1"]
=============================================================================
