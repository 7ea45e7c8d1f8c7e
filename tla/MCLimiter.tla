-------------------------------- MODULE MCLimiter --------------------------------
(***************************************************************************)
(* An instance of the rate limiter for TLC: two keys, so that one may eat up *)
(* the budget of the other if the lists were not kept apart.                 *)
(***************************************************************************)
EXTENDS RateLimiter

CONSTANTS k1, k2

TwoKeys == {k1, k2}
================================================================================
