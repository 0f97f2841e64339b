--------------------------- MODULE MCRateLimiter ---------------------------
(* Two clients, and a clock with two ticks to the second. *)
EXTENDS RateLimiter, TLC

ClientSymmetry == Permutations(Clients)
=============================================================================
