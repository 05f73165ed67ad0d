------------------------------ MODULE MCLoginQueue ------------------------------
(* Instances of LoginQueue for TLC. *)
EXTENDS LoginQueue, TLC

CONSTANTS a1, a2, a3, s1, s2, s3

MaxPopValue == 0 :> 2 @@ 1 :> 1
Symmetry == Permutations(Slots) \cup Permutations({a1, a2})
=============================================================================
