------------------------- MODULE MCDownloadManager -------------------------
(* Instances of DownloadManager for TLC.                                   *)
EXTENDS DownloadManager

CONSTANTS a0, a1, a2, b0, b1, b2

MCSegments == {a0, a1, a2, b0, b1, b2}
MCLevel == [s \in MCSegments |-> IF s \in {a0, b0} THEN 0 ELSE IF s \in {a1, b1} THEN 1 ELSE 2]
MCBatches == << <<a0, a1, a2>>, <<b0, b1, b2>> >>
=============================================================================
