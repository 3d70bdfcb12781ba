---------------------------- MODULE MCRateLimiter ----------------------------
(* RateLimiter on a small instance: clients and checkers are interchangeable. *)
EXTENDS RateLimiter, TLC

Symmetric == Permutations(Checkers) \cup Permutations(Ips)
==============================================================================
