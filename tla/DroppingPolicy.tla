---------------------------- MODULE DroppingPolicy ----------------------------
(***************************************************************************)
(* What the counting strategies keep of a face, a FacePacketStatistic: how *)
(* many interests of each level it saw, their shares smoothed over time,   *)
(* and the probabilities of dropping them that follow.                     *)
(*                                                                         *)
(* The shares are rational: levelProbs is kept as weights of the levels,   *)
(* all 0 before the first interest, and a probability is a pair.           *)
(***************************************************************************)
EXTENDS Integers, FiniteSets, FiniteSetsExt

CONSTANTS
    LevelCount,
    SMOOTH_ALPHA    \* one out of so many: 10 in the code

ASSUME DroppingAssumption == LevelCount \in Nat \ {0} /\ SMOOTH_ALPHA \in Nat \ {0}

Levels == 0 .. LevelCount - 1

\* Of the whole of a function on levels.
Total(f) == MapThenSumSet(LAMBDA l : f[l], DOMAIN f)

Empty == [l \in Levels |-> 0]

\* The same shares, with no factor in common.
Reduced(weights) ==
    LET most == Max({1} \cup {weights[l] : l \in Levels})
        common == {d \in 1 .. most :
                      \A l \in Levels : weights[l] % d = 0}
        divisor == Max(common)
    IN [l \in Levels |-> weights[l] \div divisor]

\* SmoothLevelStatistics.  The new weights are normalised as the old were.
RefreshStatistics(counting, weights) ==
    LET cnt == Total(counting)
        sum == Total(weights)
    IN IF cnt = 0 THEN weights
       ELSE IF sum = 0 THEN Reduced(counting)
       ELSE Reduced([l \in Levels |-> counting[l] * sum
                                        + (SMOOTH_ALPHA - 1) * weights[l] * cnt])

\* Mutant of LastDropped: one level further down.
LastDroppedBelow(metric, weights) ==
    Max({0} \cup {l \in Levels : l + 1 \in Levels
                    /\ metric[2] * Total([k \in l + 1 .. LevelCount - 1 |-> weights[k]])
                         >= metric[1] * Max({Total(weights), 1})})

\* Whole levels are dropped from the top until they make up the metric.
LastDropped(metric, weights) ==
    LET excess == metric[1] * Max({Total(weights), 1})
    IN Max({0} \cup {l \in Levels :
               metric[2] * Total([k \in l .. LevelCount - 1 |-> weights[k]]) >= excess})

\* PacketBasedDroppingPolicy: of the last of them, as much as is still needed.
DroppingProbability(metric, weights, level) ==
    LET last == LastDropped(metric, weights)
        above == Total([k \in last + 1 .. LevelCount - 1 |-> weights[k]])
    IN IF level > last \/ (level = last /\ weights[last] = 0) THEN <<1, 1>>
       ELSE IF level < last THEN <<0, 1>>
       ELSE <<metric[1] * Total(weights) - metric[2] * above, metric[2] * weights[last]>>
-----------------------------------------------------------------------------
(* FacePacketStatistic.                                                     *)

\* With the metric of the first period, when packets_per_time is not set yet.
NewStatistic(metric) ==
    [packets_per_time |-> 0, levelCounting |-> Empty, weights |-> Empty, metric |-> metric]

IncreasePackets(s, level) ==
    [s EXCEPT !.packets_per_time = @ + 1, !.levelCounting[level] = @ + 1]

\* The part of the interests that is above the maximum.
MetricOf(packets, max) == IF packets > max THEN <<packets - max, packets>> ELSE <<0, 1>>

UpdatePolicy(s, metric) ==
    [s EXCEPT !.weights = RefreshStatistics(s.levelCounting, s.weights),
              !.metric = metric,
              !.levelCounting = Empty]

\* Whether the random number may fall on the one side or on the other.
MayDrop(s, level) == DroppingProbability(s.metric, s.weights, level)[1] > 0
MayPass(s, level) ==
    LET p == DroppingProbability(s.metric, s.weights, level) IN p[1] < p[2]
=============================================================================
