---------------------------- MODULE MCRateLimit -----------------------------
(* Instances of RateLimit for TLC. *)
EXTENDS RateLimit

\* Another route, with a smaller limit, mounted before or after this one.
MCRoutes == {Own, [rate |-> 1, burst |-> 1]}
MCOnlyRoute == {Own}
=============================================================================
