---------------------------- MODULE MCRateLimiter ----------------------------
(* Instances of RateLimiter.                                               *)
EXTENDS RateLimiter, TLC

CONSTANTS r1, r2, r3, a, b

Symmetric == Permutations(Requests) \cup Permutations(Clients)
=============================================================================
