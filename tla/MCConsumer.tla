----------------------------- MODULE MCConsumer -----------------------------
(* Instances of Consumer for TLC. *)
EXTENDS Consumer, TLC

\* Partitions are interchangeable.
MCSymmetry == Permutations(Partitions)

\* Both policies, with and without a dead-letter producer, after n failures; and
\* retry forever (MaxRetries = 0), where the policy does not matter.  The
\* backoff settings are the defaults.
Policies(n) == [maxRetries : {n}, initialBackoff : {0}, maxBackoff : {0},
                strict : BOOLEAN, hasDLQ : BOOLEAN]
RetryForever == [maxRetries |-> 0, initialBackoff |-> 0, maxBackoff |-> 0,
                 strict |-> TRUE, hasDLQ |-> TRUE]
MCPolicies == Policies(1) \cup {RetryForever}

\* A longer retry cycle, and backoff settings on both sides of the cap: zero (the
\* default), a first wait beyond the cap, a cap that is a power of two away and
\* one that is not.
MCRetries == Policies(2) \cup {RetryForever}
MCBackoffs == [maxRetries : {0, 4}, initialBackoff : {0, 1, 5}, maxBackoff : {0, 3, 8},
               strict : {TRUE}, hasDLQ : {TRUE}]
MCRetriesAndBackoffs == MCRetries \cup MCBackoffs
=============================================================================
