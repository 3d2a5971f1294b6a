------------------------------- MODULE MCJWKS -------------------------------
(* An instance of JWKS for TLC. *)
EXTENDS JWKS

CONSTANTS k1, k2

\* k2 replaces k1; in between the provider publishes nothing usable.
MCKeysAt == <<{k1}, {}, {k2}>>
=============================================================================
