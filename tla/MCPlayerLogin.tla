----------------------------- MODULE MCPlayerLogin -----------------------------
(* Instances of PlayerLogin for TLC. *)
EXTENDS PlayerLogin, TLC

CONSTANTS c1, c2, s1, s2

Symmetry == Permutations(Slots) \cup Permutations(Chars)
=============================================================================
