--------------------------- MODULE MCLayerStrategy ---------------------------
(* The first chunks of a base layer and of an enhancement layer, two         *)
(* neighbours that may change places, and so may the two uplinks.           *)
EXTENDS LayerStrategy, TLC

CONSTANTS c1, c2, u1, u2, base, enhanced

MCLevelOf == [n \in Names |-> IF n = base THEN 0 ELSE 1]
MCSymmetry == Permutations(Consumers) \cup Permutations(Uplinks)
MCBitrate == [l \in Levels |-> l + 2]
=============================================================================
