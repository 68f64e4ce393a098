-------------------------- MODULE MCRefreshTokens --------------------------
(* RefreshTokens on small sets of users, tokens and requests.              *)
EXTENDS RefreshTokens, TLC

Symmetry ==
  Permutations(Users) \cup Permutations(Tokens) \cup Permutations(Requests)
=============================================================================
