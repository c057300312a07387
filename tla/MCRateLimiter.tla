--------------------------- MODULE MCRateLimiter ---------------------------
(* The rate limiter for TLC: the threads are alike. *)
EXTENDS RateLimiter, TLC

Threads == Permutations(Thread)
=============================================================================
