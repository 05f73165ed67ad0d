---------------------------- MODULE MCLFTQueueLive ----------------------------
(* LFTQueue under the fairness of the world loop. A bit that every Update  *)
(* flips makes the fairness cheap to check: Update is always enabled, so   *)
(* weak fairness of it says that the bit changes again and again.          *)
EXTENDS MCLFTQueue

VARIABLE tick

LiveNext ==
    \/ (\E p \in Players : Message(p)) /\ UNCHANGED tick
    \/ Surroundings /\ UNCHANGED tick
    \/ Update /\ tick' = ~tick

(* World::Update calls LFTManager::Update on every tick.                   *)
FairSpec ==
    /\ Init /\ tick = FALSE
    /\ [][LiveNext]_<<vars, tick>>
    /\ WF_tick(tick' = ~tick)
=============================================================================
