--------------------------- MODULE MCSegmentPlayer ---------------------------
(* Three representations, the middle one of a rate between those measured.  *)
EXTENDS SegmentPlayer

MCBandwidth == [l \in 0 .. 2 |-> 2 ^ l]
=============================================================================
