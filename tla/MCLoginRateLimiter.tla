------------------------ MODULE MCLoginRateLimiter ------------------------
(* LoginRateLimiter with few requests and a low limit.                     *)
EXTENDS LoginRateLimiter, TLC

Symmetry == Permutations(Requests)
=============================================================================
