------------------------------ MODULE MCLFTQueue ------------------------------
(* Small instances of LFTQueue for TLC: groups of three.                   *)
EXTENDS LFTQueue

\* Everybody may group with everybody.
All3 == (1 .. 3) \X (1 .. 3)
All4 == (1 .. 4) \X (1 .. 4)

Classes3 == <<{"tank"}, {"healer"}, {"damage"}>>
PartyClasses == <<{"tank"}, {"healer"}, {"damage"}, {"tank", "damage"}>>

\* 3 is too far from 1 and 2 in level, and 4 is between them: 4 as the seed
\* makes a group of the other three.
FarApart == All4 \ ({1, 2} \X {3} \cup {3} \X {1, 2})

PairInvites == {<<2, 1>>}
=============================================================================
