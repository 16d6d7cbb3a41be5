------------------------- MODULE RepresentationLogic -------------------------
(***************************************************************************)
(* Which levels of the next segment the SVC and the DASH players ask for.  *)
(* The SVC player's extractor goes by the levels it got lately, the DASH   *)
(* player's logic by the rates it measured lately, both by the buffer.     *)
(*                                                                         *)
(* Representations are numbered by quality from 0; their bandwidths, and   *)
(* rates, are small numbers of some unit.                                  *)
(***************************************************************************)
EXTENDS PlayoutBuffer, Sequences, FiniteSets, FiniteSetsExt

CONSTANTS
    Bandwidth,              \* of each representation, in order
    Feasible,               \* those within the resolution and the link's speed
    Stacked,                \* the video is layered: a level needs those below
    CONSIDERD_HISTORY_SIZE, \* 10 in the code
    SEGMENT_HISTORY         \* 10 in the code

Levels == DOMAIN Bandwidth

ASSUME RepresentationAssumption ==
    /\ IsFiniteSet(Levels) /\ Levels = 0 .. Cardinality(Levels) - 1
    /\ Bandwidth \in [Levels -> Nat]
    /\ 0 \in Feasible /\ Feasible \subseteq Levels
    /\ CONSIDERD_HISTORY_SIZE \in Nat \ {0} /\ SEGMENT_HISTORY \in Nat \ {0}
    /\ Stacked \in BOOLEAN
-----------------------------------------------------------------------------
(* SVCSegmentExtractor.  The histories hold the highest level of a segment. *)

\* The loop's bound wraps around as long as all the history is considered, so
\* that until then nothing is summed up.
Considered(received) ==
    IF Len(received) > CONSIDERD_HISTORY_SIZE
    THEN Len(received) - CONSIDERD_HISTORY_SIZE + 1 .. Len(received) ELSE {}

SumOfLevels(history, I) == MapThenSumSet(LAMBDA i : history[i].level, I)

\* The averages are compared as sums over size entries; THREASHOLD is a fifth.
considerHistory(requested, received, cur) ==
    LET size == Min({Len(received), CONSIDERD_HISTORY_SIZE})
        req == SumOfLevels(requested, Considered(received))
        rec == SumOfLevels(received, Considered(received))
    IN IF size = 0 THEN 0
       ELSE IF 5 * rec + size >= 5 * req /\ FilledAbove(cur, 1, 2) THEN (rec + size) \div size
       ELSE IF rec >= size /\ FilledBelow(cur, 1, 4) THEN (rec - size) \div size
       ELSE rec \div size

dropSegments(levels, maxLevel) == {l \in levels : l <= maxLevel}
-----------------------------------------------------------------------------
(* IAdaptationLogic.  A rate of 0 has not been measured.                    *)

\* The mean, weighted by how full the buffer is, and a quarter.
getAvgDLS(rates, cur) ==
    LET measured == {i \in DOMAIN rates : rates[i] # 0}
        mean == MapThenSumSet(LAMBDA i : rates[i], measured) \div Cardinality(measured)
    IN IF measured = {} THEN 0 ELSE (mean * (4 * cur + MaxSize)) \div (4 * MaxSize)

getLowestRepresentation ==
    CHOOSE l \in Levels : \A k \in Levels :
        Bandwidth[l] < Bandwidth[k] \/ (Bandwidth[l] = Bandwidth[k] /\ l <= k)

\* The best one the rate allows, the lowest one in any case.
getOptimalRepresentation(rates, cur) ==
    LET allowed == {l \in Levels : Bandwidth[l] <= getAvgDLS(rates, cur)
                                    /\ Bandwidth[l] > Bandwidth[getLowestRepresentation]}
    IN IF allowed = {} THEN getLowestRepresentation
       ELSE CHOOSE l \in allowed : \A k \in allowed : Bandwidth[k] <= Bandwidth[l]

\* A layered video is fetched with the representations below.
StackOf(rep) == IF Stacked THEN 0 .. rep ELSE {rep}
=============================================================================
