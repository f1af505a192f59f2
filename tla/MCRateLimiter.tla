---------------------------- MODULE MCRateLimiter ----------------------------
(* Instances of the rate limiter for TLC. *)
EXTENDS RateLimiter, TLC

CONSTANTS c1, c2, c3

ThreeClients == {c1, c2, c3}

Symmetry == Permutations(Client)
=============================================================================
