------------------------ MODULE ForwardingStatistics ------------------------
(***************************************************************************)
(* What one content's entry has observed, per layer and face, as operators *)
(* on records: the counters of the running interval (sat, unsat), and what *)
(* resetStatistics made of the last one.                                   *)
(*                                                                         *)
(* Probabilities and reliabilities are doubles in the code and permille    *)
(* here, rounded down; what a face carries is rounded up, so that rounding *)
(* never takes more from it than it has.  The parameters have their        *)
(* default values.  The goodput and the two fractions nobody reads are     *)
(* left out.                                                               *)
(***************************************************************************)
EXTENDS Integers, FiniteSets, FiniteSetsExt, Functions

CONSTANT MAX_LAYERS

ASSUME MaxLayersAssumption == MAX_LAYERS \in Nat \ {0}

UNIT == 1000
ALPHA == 350
PROBING_TRAFFIC == 300
SHIFT_THRESHOLD == 50
SHIFT_TRAFFIC == 350
RELIABILITY_THRESHOLD_MIN == 800
RELIABILITY_THRESHOLD_MAX == 1000

Layers == 0 .. MAX_LAYERS - 1

\* Faces are numbered from 0; the face that stands for dropping comes first.
DROP_FACE_ID == -1

Part(x, share) == (x * share) \div UNIT

RoundedUp(x, y) == - ((- x) \div y)

getReliableFaces(st, threshold) ==
    {f \in DOMAIN st.reliability \ {DROP_FACE_ID} : st.reliability[f] >= threshold}

getUnreliableFaces(st, threshold) ==
    {f \in DOMAIN st.reliability \ {DROP_FACE_ID} : st.reliability[f] < threshold}

\* A face nothing failed on is fully reliable, used or not.
Reliabilities(st) ==
    [f \in DOMAIN st.sat |-> IF st.unsat[f] = 0 THEN UNIT
                             ELSE (UNIT * st.sat[f]) \div (st.sat[f] + st.unsat[f])]

\* The share of all results that are failures of the unreliable faces.
UnsatisfiedTrafficFraction(st, threshold) ==
    IF st.total = 0 THEN 0
    ELSE (UNIT * SumFunctionOnSet(st.unsat, getUnreliableFaces(st, threshold))) \div st.total

ActualForwardingProbabilities(st) ==
    [f \in DOMAIN st.forwarded |-> IF st.total = 0 THEN 0
                                   ELSE RoundedUp(UNIT * st.forwarded[f], st.total)]

\* The interval of one layer ends: its results are evaluated, its counters cleared.
ResetLayer(st, threshold) ==
    LET none == [f \in DOMAIN st.sat |-> 0]
        results == [f \in DOMAIN st.sat |-> st.sat[f] + st.unsat[f]]
        counted == [st EXCEPT !.forwarded = results,
                              !.total = SumFunction(results),
                              !.reliability = Reliabilities(st)]
    IN [counted EXCEPT !.utf = UnsatisfiedTrafficFraction(counted, threshold),
                       !.actual = ActualForwardingProbabilities(counted),
                       !.sat = none, !.unsat = none]

resetStatistics(stats, threshold) == [l \in Layers |-> ResetLayer(stats[l], threshold)]

NewStatistics(faceIds) ==
    LET none == [f \in faceIds |-> 0]
    IN resetStatistics(
        [l \in Layers |-> [sat |-> none, unsat |-> none, forwarded |-> none, total |-> 0,
                           reliability |-> none, utf |-> 0, actual |-> none]], UNIT)

\* A result of a face the entry was made without goes to a counter nobody reads.
logUnstatisfiedRequest(stats, f, l) ==
    IF f \in DOMAIN stats[l].unsat THEN [stats EXCEPT ![l].unsat[f] = @ + 1] ELSE stats

logStatisfiedRequest(stats, f, l) ==
    IF f \in DOMAIN stats[l].sat THEN [stats EXCEPT ![l].sat[f] = @ + 1] ELSE stats

\* Dropping counts as a success of the dropping face.
logDroppingFace(stats, l) == [stats EXCEPT ![l].sat[DROP_FACE_ID] = @ + 1]
=============================================================================
