---------------------------- MODULE MCRateLimit ----------------------------
(* The rate limiter with a generous path and a strict one.                 *)
EXTENDS RateLimitInduction, TLC

CONSTANTS free, strict

BurstOf == (free :> 2) @@ (strict :> 1)
PeriodOf == (free :> 1) @@ (strict :> 2)

(* Requests are interchangeable: used in the safety run only.              *)
Symmetry == Permutations(Request)

=============================================================================
