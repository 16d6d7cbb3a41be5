--------------------- MODULE ForwardingProbabilityTable ---------------------
(***************************************************************************)
(* The table that decides where an interest goes: per layer a column of    *)
(* probabilities, one for each face and one for dropping it.  A table is a *)
(* record of the columns (prob), the reliability a face has to show        *)
(* (curReliability), the layers whose dropping was raised by the last      *)
(* update (jammed), and those whose column holds no numbers (nan).         *)
(***************************************************************************)
EXTENDS ForwardingStatistics

Positive(col) == SumFunctionOnSet(col, {f \in DOMAIN col : col[f] > 0})

\* Mutant of NormalizeColumn: keeps the sum of the others when a face goes.
NormalizeNothing(col) == [f \in DOMAIN col |-> IF col[f] < 0 THEN 0 ELSE col[f]]

\* Negative entries become 0; a column without any probability is spread evenly.
NormalizeColumn(col) ==
    LET colSum == Positive(col)
    IN [f \in DOMAIN col |->
            IF colSum = 0 THEN UNIT \div Cardinality(DOMAIN col)
            ELSE IF col[f] < 0 THEN 0 ELSE (UNIT * col[f]) \div colSum]

\* NaN + drop normalises to drop alone, and to an even column if nothing drops.
NormalizeColumns(t) ==
    [t EXCEPT !.prob = [l \in Layers |-> NormalizeColumn(t.prob[l])],
              !.nan = {l \in t.nan : t.prob[l][DROP_FACE_ID] > 0}]

\* Removing faces one by one, normalising each time, is removing them at once.
RemoveFacesFromTable(col, S) == NormalizeColumn(Restrict(col, DOMAIN col \ S))

\* With preferred faces (which count the dropping face) only these share.
NewTable(faceIds, preferred) ==
    LET share == IF preferred = {} THEN faceIds ELSE preferred
        col == [f \in faceIds |-> IF f \in share \ {DROP_FACE_ID}
                                  THEN UNIT \div (Cardinality(share) - 1) ELSE 0]
    IN [prob |-> [l \in Layers |-> col], curReliability |-> RELIABILITY_THRESHOLD_MIN,
        jammed |-> {}, nan |-> {}]

\* A random value falls into the share of one of the faces.
chooseFaceAccordingProbability(col) == {f \in DOMAIN col : col[f] > 0}

\* Mutant of OutgoingFaces: the faces it came from are not removed.
OutgoingFacesOfAll(t, l, inFaces, blocked) ==
    LET free == RemoveFacesFromTable(t.prob[l], blocked \ inFaces)
    IN chooseFaceAccordingProbability(free)

\* The faces an interest may be given to, the dropping face included: never one
\* it came from or one that was tried, and none once the tried faces hold the
\* share of traffic that had to be reliable.
OutgoingFaces(t, l, inFaces, blocked) ==
    LET col == t.prob[l]
        others == RemoveFacesFromTable(col, inFaces)
        free == RemoveFacesFromTable(col, inFaces \cup blocked)
    IN IF \/ ~(inFaces \subseteq DOMAIN col)
          \/ ~(blocked \subseteq DOMAIN col \ inFaces)
          \/ SumFunctionOnSet(others, blocked) >= t.curReliability
       THEN {DROP_FACE_ID}
       ELSE chooseFaceAccordingProbability(free)
-----------------------------------------------------------------------------
\* Mutant of Weighted: the table is not drawn towards the traffic.
WeightedOld(col, st, f) == col[f]

\* The old probability of a face, drawn towards the share it really had.
Weighted(col, st, f) == col[f] + RoundedUp((st.actual[f] - col[f]) * ALPHA, UNIT)

\* The code doubles the sum at each face; only whether it is 0 matters below.
SumOfWeighted(w) == FoldFunction(LAMBDA x, sum : 2 * (sum + x), 0, w)

\* Gives utf to the faces, or takes it from them, in proportion to their weighted
\* probability and their (un)reliability.  The two sums the code divides by,
\* normalization_value among them, are the same for every face and cancel.
UpdateColumn(col, faces, st, utf, shift) ==
    LET w == [f \in faces |-> Weighted(col, st, f)]
        rel == [f \in faces |-> IF shift THEN st.reliability[f] ELSE UNIT - st.reliability[f]]
        weight == [f \in faces |-> IF SumOfWeighted(w) > 0 THEN w[f] * rel[f] ELSE rel[f]]
        part == [f \in faces |-> (utf * weight[f]) \div SumFunction(weight)]
    IN [f \in DOMAIN col |-> IF f \notin faces THEN col[f]
                             ELSE IF shift THEN w[f] + part[f] ELSE w[f] - part[f]]

\* The loops over the faces are nested: the probe is given out once per face,
\* each time on top of the probability the last pass left.  (A sum the code finds
\* to be 0 may be below it here, for the rounding.)
ProbeColumn(prob, l, faces, st, fromTable) ==
    LET col == prob[l]
        drop == IF fromTable THEN col[DROP_FACE_ID] ELSE Weighted(col, st, DROP_FACE_ID)
        probe == Part(drop, PROBING_TRAFFIC)
        normFactor == SumFunctionOnSet(prob[0], faces)
        share == [f \in faces |-> IF l = 0 \/ normFactor <= 0
                                  THEN probe \div Cardinality(faces)
                                  ELSE (probe * prob[0][f]) \div normFactor]
        start == [col EXCEPT ![DROP_FACE_ID] = drop - probe]
        pass[k \in 0 .. Cardinality(faces)] ==
            IF k = 0 THEN start
            ELSE LET c == pass[k - 1]
                 IN [f \in DOMAIN c |-> IF f \in faces THEN Weighted(c, st, f) + share[f] ELSE c[f]]
    IN IF faces = {} \/ probe < 1 THEN prob
       ELSE [prob EXCEPT ![l] = pass[Cardinality(faces)]]

Raise(t) ==
    [t EXCEPT !.curReliability =
        Min({RELIABILITY_THRESHOLD_MAX, @ + Part(RELIABILITY_THRESHOLD_MAX - @, ALPHA)})]

Lower(t) ==
    [t EXCEPT !.curReliability =
        Max({RELIABILITY_THRESHOLD_MIN, @ - Part(@ - RELIABILITY_THRESHOLD_MIN, ALPHA)})]

\* Case 1, no reliable face carries anything: what failed is dropped.
DropUnsatisfied(t, l, st, utf, reliable, unreliable) ==
    LET dropped == [t.prob[l] EXCEPT ![DROP_FACE_ID] = Weighted(t.prob[l], st, DROP_FACE_ID) + utf]
        prob == [t.prob EXCEPT ![l] = UpdateColumn(dropped, unreliable, st, utf, FALSE)]
        probed == IF l \in t.jammed THEN prob ELSE ProbeColumn(prob, l, reliable, st, TRUE)
        after == [t EXCEPT !.prob = probed]
    IN IF probed[l][DROP_FACE_ID] > UNIT - t.curReliability THEN Lower(after) ELSE after

\* Mutant of MoveToReliable: what failed is not taken from the unreliable faces.
MoveTwice(t, l, st, utf, reliable, unreliable) ==
    LET given == UpdateColumn(t.prob[l], reliable, st, utf, TRUE)
    IN [t EXCEPT !.prob[l] = [given EXCEPT ![DROP_FACE_ID] = Weighted(given, st, DROP_FACE_ID)]]

\* Case 2: what failed moves from the unreliable faces to the reliable ones.
MoveToReliable(t, l, st, utf, reliable, unreliable) ==
    LET given == UpdateColumn(t.prob[l], reliable, st, utf, TRUE)
        taken == UpdateColumn(given, unreliable, st, utf, FALSE)
    IN [t EXCEPT !.prob[l] = [taken EXCEPT ![DROP_FACE_ID] = Weighted(taken, st, DROP_FACE_ID)]]

\* Mutant of ProbeUnused: what is dropped stays dropped.
KeepUnused(t, l, reliable) == t

\* Case 3, nothing was asked of the layer: some of the dropping is given up.
ProbeUnused(t, l, reliable) ==
    LET probe == Part(t.prob[l][DROP_FACE_ID], PROBING_TRAFFIC)
    IN [t EXCEPT !.prob[l] = [f \in DOMAIN t.prob[l] |->
            IF f = DROP_FACE_ID THEN t.prob[l][f] - probe
            ELSE IF f \in reliable THEN t.prob[l][f] + probe \div Cardinality(reliable)
            ELSE t.prob[l][f]]]

\* Case 4, nothing is dropped and nothing failed: the table follows the traffic.
FollowTraffic(t, l, st) ==
    Raise([t EXCEPT !.prob[l] = [f \in DOMAIN t.prob[l] |-> Weighted(t.prob[l], st, f)]])

\* Cases 5 and 6, dropping without failures: faces that carry traffic take some
\* of what is dropped, the others are probed.
DropLess(t, l, st, reliable) ==
    LET shifting == {f \in reliable : st.actual[f] > SHIFT_THRESHOLD}
        probing == reliable \ shifting
        col == t.prob[l]
        drop == Weighted(col, st, DROP_FACE_ID)
        moved == Min({drop, Part((UNIT * SumFunctionOnSet(st.forwarded, shifting)) \div st.total,
                                 SHIFT_TRAFFIC)})
        shifted == [t.prob EXCEPT ![l] = UpdateColumn([col EXCEPT ![DROP_FACE_ID] = drop - moved],
                                                      shifting, st, moved, TRUE)]
        after == [t EXCEPT !.prob = ProbeColumn(shifted, l, probing, st, TRUE)]
    IN IF shifting = {} THEN [t EXCEPT !.prob = ProbeColumn(t.prob, l, probing, st, FALSE)]
       ELSE IF after.prob[l][DROP_FACE_ID] < UNIT - t.curReliability THEN Raise(after) ELSE after

UpdateLayer(t, l, st) ==
    LET reliable == getReliableFaces(st, t.curReliability)
        unreliable == getUnreliableFaces(st, t.curReliability)
        utf == Part(st.utf, ALPHA)
    IN IF utf > 0
       THEN IF SumFunctionOnSet(st.actual, reliable) = 0
            THEN DropUnsatisfied(t, l, st, utf, reliable, unreliable)
            ELSE MoveToReliable(t, l, st, utf, reliable, unreliable)
       ELSE IF l \in t.jammed THEN t
       ELSE IF st.total = 0 THEN ProbeUnused(t, l, reliable)
       ELSE IF t.prob[l][DROP_FACE_ID] = 0 THEN FollowTraffic(t, l, st)
       ELSE DropLess(t, l, st, reliable)

\* From the base layer up: each layer sees the threshold the one below left.
UpdateUpTo(t, stats) ==
    LET upTo[l \in -1 .. MAX_LAYERS - 1] ==
            IF l = -1 THEN t ELSE UpdateLayer(upTo[l - 1], l, stats[l])
    IN upTo

UpdateLayers(t, stats) == UpdateUpTo(t, stats)[MAX_LAYERS - 1]

updateColumns(t, stats) == NormalizeColumns(UpdateLayers(t, stats))
-----------------------------------------------------------------------------
FirstDroppingLayer(prob) ==
    LET D == {l \in Layers : prob[l][DROP_FACE_ID] > 0}
    IN IF D = {} THEN MAX_LAYERS - 1 ELSE Min(D)

LastDroppingLayer(prob) ==
    LET D == {l \in Layers : prob[l][DROP_FACE_ID] < UNIT}
    IN IF D = {} THEN 0 ELSE Max(D)

OnlyDropping(col) == [f \in DOMAIN col |-> IF f = DROP_FACE_ID THEN UNIT ELSE 0]

NoDropping(col) ==
    [f \in DOMAIN col |-> IF f = DROP_FACE_ID THEN 0 ELSE UNIT \div (Cardinality(DOMAIN col) - 1)]

\* delta of the dropping face's probability goes to the other faces as they
\* share now; there is nothing to share by, and no number, where they have none.
GiveBack(col, delta) ==
    LET n == SumFunctionOnSet(col, DOMAIN col \ {DROP_FACE_ID})
    IN [f \in DOMAIN col |-> IF f = DROP_FACE_ID THEN col[f] - delta
                             ELSE IF n <= 0 THEN 0 ELSE col[f] + (delta * col[f]) \div n]

\* Mutant of SyncRound: dropping moves down instead of up.
SyncRoundDown(t, stats) ==
    LET first == FirstDroppingLayer(t.prob)
        last == LastDroppingLayer(t.prob)
    IN [t EXCEPT !.prob[first] = OnlyDropping(@), !.prob[last] = NoDropping(@)]

\* The lower layer drops less and the higher one more, as far as the interests
\* seen of both allow: either first stops dropping or last drops everything.
SyncRound(t, stats) ==
    LET first == FirstDroppingLayer(t.prob)
        last == LastDroppingLayer(t.prob)
        theta == t.prob[first][DROP_FACE_ID] * stats[first].total
        chi == (UNIT - t.prob[last][DROP_FACE_ID]) * stats[last].total
        moved == Min({chi, theta})
        jam == [t EXCEPT !.jammed = @ \cup {last}]
    IN IF theta = 0 THEN [jam EXCEPT !.prob[first] = NoDropping(@)]
       ELSE IF chi = 0 THEN [jam EXCEPT !.prob[last] = OnlyDropping(@)]
       ELSE [jam EXCEPT
                !.prob[first] = GiveBack(@, moved \div stats[first].total),
                !.prob[last] = GiveBack(@, - (moved \div stats[last].total)),
                !.nan = IF \A f \in DOMAIN t.prob[first] \ {DROP_FACE_ID} : t.prob[first][f] = 0
                        THEN @ \cup {first} ELSE @]

\* Each round brings first and last closer, MAX_LAYERS rounds are never all used.
syncDroppingPolicy(t, stats) ==
    LET last == LastDroppingLayer(t.prob)
        above == IF FirstDroppingLayer(t.prob) < last THEN {l \in Layers : l > last} ELSE {}
        round[k \in 0 .. MAX_LAYERS] ==
            IF k = 0 THEN [t EXCEPT !.jammed = above]
            ELSE LET s == round[k - 1]
                 IN IF FirstDroppingLayer(s.prob) < LastDroppingLayer(s.prob)
                    THEN SyncRound(s, stats) ELSE s
    IN NormalizeColumns(round[MAX_LAYERS])
=============================================================================
