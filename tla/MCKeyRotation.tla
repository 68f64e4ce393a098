--------------------------- MODULE MCKeyRotation ---------------------------
(* KeyRotation with few workers and rotations.                             *)
EXTENDS KeyRotation, TLC

Symmetry == Permutations(Workers)
=============================================================================
