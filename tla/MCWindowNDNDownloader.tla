----------------------- MODULE MCWindowNDNDownloader -----------------------
(* Instances of WindowNDNDownloader for TLC.                               *)
EXTENDS WindowNDNDownloader

CONSTANTS small, large

\* A base layer of one chunk, shorter than assumed at first and full to the
\* last byte; and an enhancement layer of three, longer than assumed.
MCLevel == [s \in Segments |-> IF s = small THEN 0 ELSE 1]
MCSize == [s \in Segments |-> IF s = small THEN 1 ELSE 3]
MCEmptyTail == {small} \cap Segments
=============================================================================
