----------------- MODULE PerContentBasedLayerStrategyProofs -----------------
(***************************************************************************)
(* No interest is sent back, nor twice to one face; the engine in use has  *)
(* what every handler looks for; its tables hold distributions, from which *)
(* an update takes no more than there is and loses nothing it moves; a     *)
(* layer that was dropped is let through again; and the tokens are shared  *)
(* out: whatever was observed, the buckets hold and the faces do.          *)
(***************************************************************************)
EXTENDS PerContentBasedLayerStrategy, DataLemmas

\* An entry of the PIT has these four sets of faces; what is in them is open.
IsPitEntry(p) == DOMAIN p = {"in", "out", "vain", "sent"}

IsTrying(t) == DOMAIN t = {"name", "inFace", "tried", "again"}

PitInv == \A n \in DOMAIN pit : IsPitEntry(pit[n])

\* While an interest is propagated, each face its entry was tried on is ruled
\* out, or is one it came from.
TryInv ==
    trying # None =>
        /\ IsTrying(trying) /\ trying.name \in DOMAIN pit
        /\ pit[trying.name].out \subseteq trying.tried \cup pit[trying.name].in

IInv == PitInv /\ TryInv

\* Faces an interest waits on in vain are noted along with others.
LEMMA InVain ==
    ASSUME NEW p, IsPitEntry(p), NEW X
    PROVE  LET q == [p EXCEPT !.out = @ \cup X, !.vain = @ \cup X]
           IN /\ IsPitEntry(q) /\ q.in = p.in /\ q.sent = p.sent
              /\ q.out = p.out \cup X
BY DEF IsPitEntry

\* What a step does to the entries that stay.
NoneSent ==
    \A n \in DOMAIN pit \cap DOMAIN pit' : pit'[n].sent \subseteq pit[n].sent

NotBack ==
    \A n \in DOMAIN pit \cap DOMAIN pit' : \A f \in pit'[n].sent \ pit[n].sent :
        f \notin pit[n].in /\ f \notin pit[n].out
-----------------------------------------------------------------------------
\* The routes of a table leave out where the interest came from and was tried.
LEMMA RoutesAvoid ==
    ASSUME NEW t, NEW l, NEW inFaces, NEW blocked,
           NEW f \in OutgoingFaces(t, l, inFaces, blocked), f # DROP_FACE_ID
    PROVE  f \notin inFaces /\ f \notin blocked
<1> DEFINE kept == Restrict(t.prob[l], DOMAIN t.prob[l] \ (inFaces \cup blocked))
<1>1. f \in chooseFaceAccordingProbability(NormalizeColumn(kept))
  BY Zenon DEF OutgoingFaces, RemoveFacesFromTable
<1>2. DOMAIN kept = DOMAIN t.prob[l] \ (inFaces \cup blocked)
  BY DEF Restrict
<1> HIDE DEF kept
<1>3. DOMAIN NormalizeColumn(kept) = DOMAIN kept
  BY DEF NormalizeColumn
<1> QED  BY <1>1, <1>2, <1>3 DEF chooseFaceAccordingProbability

LEMMA RouteOfTrying ==
    ASSUME NEW n, NEW f \in determineRoute(n), f # DROP_FACE_ID
    PROVE  f \notin pit[n].in /\ f \notin trying.tried
BY RoutesAvoid, Zenon DEF determineRoute, RouteOf
-----------------------------------------------------------------------------
LEMMA InitInv == Init => IInv
BY DEF Init, IInv, PitInv, TryInv

\* A propagation starts with every face of the entry ruled out.
LEMMA PropagationStarts ==
    ASSUME IInv, NEW n, NEW p, IsPitEntry(p), NEW t,
           pit' = With(pit, n, p) \/ (n \in DOMAIN pit /\ pit' = [pit EXCEPT ![n] = p]),
           trying' = t, IsTrying(t), t.name = n, t.tried = p.out \ p.in
    PROVE  IInv'
<1>1. /\ n \in DOMAIN pit' /\ pit'[n] = p
      /\ \A m \in DOMAIN pit' : m # n => m \in DOMAIN pit /\ pit'[m] = pit[m]
  BY DEF With
<1>2. PitInv'
  BY <1>1 DEF IInv, PitInv
<1>3. TryInv'
  BY <1>1 DEF TryInv
<1> QED  BY <1>2, <1>3 DEF IInv

\* Outside a propagation only the shape of the entries matters.
LEMMA NothingTried ==
    ASSUME PitInv', trying' = None
    PROVE  IInv'
BY DEF IInv, TryInv
-----------------------------------------------------------------------------
LEMMA FacesChange ==
    ASSUME IInv, NEW f, AddFace(f) \/ RemoveFace(f)
    PROVE  IInv' /\ NoneSent
<1>1. trying = None /\ trying' = None
  BY DEF AddFace, RemoveFace, Replace
<1>2. CASE AddFace(f)
  BY <1>1, <1>2, NothingTried DEF AddFace, IInv, PitInv, NoneSent
<1>3. CASE RemoveFace(f)
  <2>1. pit' = [n \in DOMAIN pit |->
                  [in |-> pit[n].in \ {f}, out |-> pit[n].out \ {f},
                   vain |-> pit[n].vain \ {f}, sent |-> pit[n].sent \ {f}]]
    BY <1>3 DEF RemoveFace
  <2>2. PitInv' /\ NoneSent
    BY <2>1 DEF PitInv, IsPitEntry, NoneSent
  <2> QED  BY <1>1, <2>2, NothingTried
<1> QED  BY <1>2, <1>3

LEMMA OnInterestSafe ==
    ASSUME IInv, NEW n, NEW f, OnInterest(n, f)
    PROVE  IInv' /\ NoneSent
<1>1. ASSUME NEW p, IsPitEntry(p), NEW again, Propagate(n, f, p, again),
             n \in DOMAIN pit => p.sent = pit[n].sent
      PROVE  IInv' /\ NoneSent
  <2>1. pit' = With(pit, n, p)
        /\ trying' = [name |-> n, inFace |-> f, tried |-> p.out \ p.in, again |-> again]
    BY <1>1 DEF Propagate
  <2>2. IInv'
    BY <1>1, <2>1, PropagationStarts DEF IsTrying
  <2> QED  BY <1>1, <2>1, <2>2 DEF NoneSent, With
<1>2. CASE n \notin DOMAIN pit /\ Propagate(n, f, [in |-> {f}, out |-> {}, vain |-> {}, sent |-> {}], FALSE)
  BY <1>1, <1>2 DEF IsPitEntry
<1>3. CASE n \in DOMAIN pit /\ Propagate(n, f, [pit[n] EXCEPT !.in = @ \cup {f}], f \in pit[n].in)
  <2> DEFINE p == [pit[n] EXCEPT !.in = @ \cup {f}]
  <2>1. IsPitEntry(p) /\ p.sent = pit[n].sent
    BY <1>3 DEF IInv, PitInv, IsPitEntry
  <2> HIDE DEF p
  <2> QED  BY <1>1, <1>3, <2>1 DEF p
<1>4. CASE /\ n \in DOMAIN pit /\ pit' = [pit EXCEPT ![n].in = @ \cup {f}]
           /\ UNCHANGED trying /\ trying = None
  <2>1. PitInv' /\ NoneSent
    BY <1>4 DEF IInv, PitInv, IsPitEntry, NoneSent
  <2> QED  BY <1>4, <2>1, NothingTried
<1> QED  BY <1>2, <1>3, <1>4, Zenon DEF OnInterest, Idle

LEMMA ResultSafe ==
    ASSUME IInv, NEW n, NEW f, WillSatisfyPendingInterest(n, f) \/ WillEraseTimedOutPendingInterest(n)
    PROVE  IInv' /\ NoneSent
<1>1. pit' = Without(pit, n) /\ trying = None /\ trying' = None
  BY DEF WillSatisfyPendingInterest, WillEraseTimedOutPendingInterest, Idle
<1>2. DOMAIN pit' = DOMAIN pit \ {n} /\ \A m \in DOMAIN pit' : pit'[m] = pit[m]
  BY <1>1 DEF Without, Restrict
<1> QED  BY <1>1, <1>2, NothingTried DEF IInv, PitInv, NoneSent

LEMMA NackSafe ==
    ASSUME IInv, NEW n, NEW f, DidReceiveValidNack(n, f)
    PROVE  IInv' /\ NoneSent
<1> DEFINE p == [pit[n] EXCEPT !.vain = @ \cup {f}, !.in = @ \ {f}]
<1>1. n \in DOMAIN pit /\ trying = None
  BY DEF DidReceiveValidNack, Idle
<1>2. /\ pit' = [pit EXCEPT ![n] = p]
      /\ \/ trying' = [name |-> n, inFace |-> f, tried |-> p.out \ p.in, again |-> FALSE]
         \/ trying' = None
  BY <1>1, Zenon DEF DidReceiveValidNack
<1>3. IsPitEntry(p) /\ p.sent = pit[n].sent
  BY <1>1 DEF IInv, PitInv, IsPitEntry
<1> HIDE DEF p
<1>4. NoneSent
  BY <1>1, <1>2, <1>3 DEF NoneSent
<1>5. CASE trying' = None
  <2>1. PitInv'
    BY <1>1, <1>2, <1>3 DEF IInv, PitInv
  <2> QED  BY <1>4, <1>5, <2>1, NothingTried
<1>6. CASE trying' = [name |-> n, inFace |-> f, tried |-> p.out \ p.in, again |-> FALSE]
  <2> DEFINE t == [name |-> n, inFace |-> f, tried |-> p.out \ p.in, again |-> FALSE]
  <2>1. IsTrying(t) /\ t.name = n /\ t.tried = p.out \ p.in
    BY DEF IsTrying
  <2> HIDE DEF t
  <2>2. IInv'
    BY <1>1, <1>2, <1>3, <1>6, <2>1, PropagationStarts, Zenon DEF t
  <2> QED  BY <1>4, <2>2
<1> QED  BY <1>2, <1>5, <1>6
-----------------------------------------------------------------------------
\* The face a propagation sends to is new to the entry.
LEMMA SendOutSafe ==
    ASSUME IInv, trying # None, NEW f \in determineRoute(trying.name), f # DROP_FACE_ID, SendOut(f)
    PROVE  IInv' /\ NotBack
<1> DEFINE n == trying.name
<1>1. n \in DOMAIN pit /\ IsPitEntry(pit[n]) /\ pit[n].out \subseteq trying.tried \cup pit[n].in
  BY DEF IInv, PitInv, TryInv
<1>2. pit' = [pit EXCEPT ![n].out = @ \cup {f}, ![n].sent = @ \cup {f}] /\ trying' = None
  BY DEF SendOut
<1>3. f \notin pit[n].in /\ f \notin trying.tried
  BY RouteOfTrying
<1> HIDE DEF n
<1>4. PitInv'
  BY <1>1, <1>2 DEF IInv, PitInv, IsPitEntry
<1>5. NotBack
  BY <1>1, <1>2, <1>3 DEF NotBack, IsPitEntry
<1> QED  BY <1>2, <1>4, <1>5, NothingTried

LEMMA BlockedSafe ==
    ASSUME IInv, trying # None, NEW f, Blocked(f)
    PROVE  IInv' /\ NoneSent
<1>1. /\ IsTrying(trying) /\ trying.name \in DOMAIN pit
      /\ pit[trying.name].out \subseteq trying.tried \cup pit[trying.name].in
      /\ \A m \in DOMAIN pit : IsPitEntry(pit[m])
  BY DEF IInv, PitInv, TryInv
<1>2. /\ pit' = [pit EXCEPT ![trying.name].out = @ \cup {f}, ![trying.name].vain = @ \cup {f}]
      /\ trying' = [trying EXCEPT !.tried = @ \cup {f}]
  BY DEF Blocked
<1>3. IsTrying(trying') /\ trying'.name = trying.name /\ trying'.tried = trying.tried \cup {f}
  BY <1>1, <1>2 DEF IsTrying
<1> DEFINE p == [pit[trying.name] EXCEPT !.out = @ \cup {f}, !.vain = @ \cup {f}]
<1>4. IsPitEntry(p) /\ p.sent = pit[trying.name].sent
      /\ p.out = pit[trying.name].out \cup {f} /\ p.in = pit[trying.name].in
  BY <1>1, InVain
<1>5. pit' = [pit EXCEPT ![trying.name] = p]
  BY <1>1, <1>2
<1> HIDE DEF p
<1>7. PitInv' /\ NoneSent
  BY <1>1, <1>4, <1>5 DEF PitInv, NoneSent
<1>6. TryInv'
  BY <1>1, <1>3, <1>4, <1>5 DEF TryInv
<1> QED  BY <1>6, <1>7 DEF IInv

LEMMA GiveUpSafe ==
    ASSUME IInv, trying # None, GiveUp
    PROVE  IInv' /\ NoneSent
<1> DEFINE n == trying.name
           others == faces \ {trying.inFace}
           p == [pit[n] EXCEPT !.out = @ \cup others, !.vain = @ \cup others]
<1>1. n \in DOMAIN pit /\ IsPitEntry(pit[n]) /\ IsTrying(trying)
  BY DEF IInv, PitInv, TryInv
<1>2. IsPitEntry(p) /\ p.sent = pit[n].sent
  BY <1>1, InVain
<1>3. \/ /\ pit' = [pit EXCEPT ![n] = p]
         /\ trying' = [trying EXCEPT !.tried = p.out \ p.in, !.again = FALSE]
      \/ pit' = Without(pit, n) /\ trying' = None
  BY Zenon DEF GiveUp
<1> HIDE DEF p, others
<1>4. CASE /\ pit' = [pit EXCEPT ![n] = p]
           /\ trying' = [trying EXCEPT !.tried = p.out \ p.in, !.again = FALSE]
  <2>1. IsTrying(trying') /\ trying'.name = n /\ trying'.tried = p.out \ p.in
    BY <1>1, <1>4 DEF IsTrying
  <2>2. NoneSent
    BY <1>1, <1>2, <1>4 DEF NoneSent
  <2>3. \A m \in DOMAIN pit' : m \in DOMAIN pit /\ (m # n => pit'[m] = pit[m])
    BY <1>4
  <2>4. n \in DOMAIN pit' /\ pit'[n] = p
    BY <1>1, <1>4
  <2> HIDE DEF n
  <2>5. PitInv'
    BY <1>2, <2>3, <2>4 DEF IInv, PitInv
  <2>6. TryInv'
    BY <2>1, <2>4 DEF TryInv
  <2> QED  BY <2>2, <2>5, <2>6 DEF IInv
<1>5. CASE pit' = Without(pit, n) /\ trying' = None
  <2>1. DOMAIN pit' = DOMAIN pit \ {n} /\ \A m \in DOMAIN pit' : pit'[m] = pit[m]
    BY <1>5 DEF Without, Restrict
  <2> QED  BY <1>5, <2>1, NothingTried DEF IInv, PitInv, NoneSent
<1> QED  BY <1>3, <1>4, <1>5

LEMMA TrySafe ==
    ASSUME IInv, Try
    PROVE  IInv' /\ NotBack
<1>1. trying # None
  BY DEF Try
<1>2. PICK f \in determineRoute(trying.name) :
        IF f = DROP_FACE_ID THEN GiveUp ELSE SendOut(f) \/ Blocked(f)
  BY DEF Try
<1>3. NoneSent => NotBack
  BY DEF NoneSent, NotBack
<1> QED  BY <1>1, <1>2, <1>3, GiveUpSafe, SendOutSafe, BlockedSafe

\* The engines' own events leave interests alone.
LEMMA EngineEventSafe ==
    ASSUME IInv, UNCHANGED <<pit, trying>>
    PROVE  IInv' /\ NoneSent
BY DEF IInv, PitInv, TryInv, NoneSent

LEMMA StepSafe ==
    ASSUME IInv, [Next]_vars
    PROVE  IInv' /\ NotBack
<1>1. NoneSent => NotBack
  BY DEF NoneSent, NotBack
<1>2. ASSUME NEW f \in Faces, AddFace(f) \/ RemoveFace(f)  PROVE IInv' /\ NotBack
  BY <1>1, <1>2, FacesChange
<1>3. ASSUME NEW n \in Names, NEW f \in Faces,
             OnInterest(n, f) \/ WillSatisfyPendingInterest(n, f) \/ DidReceiveValidNack(n, f)
      PROVE  IInv' /\ NotBack
  BY <1>1, <1>3, OnInterestSafe, ResultSafe, NackSafe
<1>4. ASSUME NEW n \in Names, WillEraseTimedOutPendingInterest(n)  PROVE IInv' /\ NotBack
  BY <1>1, <1>4, ResultSafe
<1>5. ASSUME NEW f \in Faces, NewTokens(f)  PROVE UNCHANGED <<pit, trying>>
  BY <1>5 DEF NewTokens
<1>6. ASSUME NEW i \in DOMAIN engines, FreeEngine(i)  PROVE UNCHANGED <<pit, trying>>
  BY <1>6 DEF FreeEngine
<1>7. Update \/ UNCHANGED vars => UNCHANGED <<pit, trying>>
  BY DEF Update, vars
<1> QED
  BY <1>1, <1>2, <1>3, <1>4, <1>5, <1>6, <1>7, TrySafe, EngineEventSafe, Zenon DEF Next
-----------------------------------------------------------------------------
\* The invariant: what a propagation has tried is ruled out.
THEOREM Invariance == Spec => []IInv
<1>1. ASSUME IInv, [Next]_vars  PROVE IInv'
  BY <1>1, StepSafe
<1> QED  BY InitInv, <1>1, PTL DEF Spec

\* For any tables, faces and contents: an interest goes out on a face once, and
\* never on one it came from.
THEOREM InterestsGoOn == Spec => NeverSentBack
<1>1. IInv /\ [Next]_vars => [NotBack]_vars
  BY StepSafe
<1>2. [NotBack]_vars =>
        [\A n \in DOMAIN pit \cap DOMAIN pit' : \A f \in pit'[n].sent \ pit[n].sent :
            f \notin pit[n].in /\ f \notin pit[n].out]_vars
  BY DEF NotBack
<1> QED  BY Invariance, <1>1, <1>2, PTL DEF Spec, NeverSentBack
-----------------------------------------------------------------------------
(* The shape of what the engines know.                                      *)

IsColumns(prob, ids) == prob \in [Layers -> [ids -> Int]]

IsTable(t, ids) ==
    /\ DOMAIN t = {"prob", "curReliability", "jammed", "nan"} /\ IsColumns(t.prob, ids)
    /\ t.curReliability \in RELIABILITY_THRESHOLD_MIN .. RELIABILITY_THRESHOLD_MAX

\* A column whose shares add up to one, but for what rounding down loses.
IsDistribution(col, ids) ==
    /\ col \in [ids -> Nat]
    /\ SumOf(col, ids) \in UNIT - Cardinality(ids) .. UNIT

IsNormal(t, ids) == IsTable(t, ids) /\ \A l \in Layers : IsDistribution(t.prob[l], ids)

\* The counters of a layer, and what its last interval was evaluated to.
IsStatistic(st, ids) ==
    /\ DOMAIN st = {"sat", "unsat", "forwarded", "total", "reliability", "utf", "actual"}
    /\ st.sat \in [ids -> Nat] /\ st.unsat \in [ids -> Nat] /\ st.forwarded \in [ids -> Nat]
    /\ st.reliability \in [ids -> 0 .. UNIT] /\ st.actual \in [ids -> Nat]
    /\ st.total \in Nat /\ st.utf \in Int

IsStatistics(stats, ids) == DOMAIN stats = Layers /\ \A l \in Layers : IsStatistic(stats[l], ids)

\* A column that is spread evenly, for want of anything to share by.
Even(col) == \A f \in DOMAIN col : col[f] = UNIT \div Cardinality(DOMAIN col)

\* The layers above one that drops drop everything, but for columns spread evenly.
Ordered(prob) ==
    \A i, j \in Layers :
        i < j /\ prob[i][DROP_FACE_ID] > 0 /\ ~Even(prob[i]) => prob[j][DROP_FACE_ID] = UNIT

IsEntry(e, ids) ==
    /\ DOMAIN e = {"active", "standby", "table", "stats", "fallbackCounter"}
    /\ DROP_FACE_ID \in e.active /\ e.active # {DROP_FACE_ID} /\ e.active \cup e.standby = ids
    /\ IsNormal(e.table, ids) /\ Ordered(e.table.prob) /\ IsStatistics(e.stats, ids)

LEMMA LayersAre ==
    /\ MAX_LAYERS \in Nat \ {0} /\ Layers = 0 .. MAX_LAYERS - 1
    /\ 0 \in Layers /\ Layers \subseteq Nat /\ IsFiniteSet(Layers)
<1>1. MAX_LAYERS \in Nat \ {0}
  BY MaxLayersAssumption
<1>2. IsFiniteSet(0 .. MAX_LAYERS - 1)
  BY <1>1, FS_Interval
<1> QED  BY <1>1, <1>2 DEF Layers

\* A share of a natural number in a larger one.
LEMMA ShareIs ==
    ASSUME NEW a \in Nat, NEW b \in Nat, b # 0
    PROVE  /\ (UNIT * a) \div b \in Nat
           /\ a <= b => (UNIT * a) \div b \in 0 .. UNIT
<1> DEFINE q == (UNIT * a) \div b
<1>1. q \in Nat /\ b * q <= UNIT * a
  BY DEF UNIT
<1> HIDE DEF q
<1>2. ASSUME a <= b  PROVE q <= UNIT
  <2>1. SUFFICES ASSUME q >= UNIT + 1  PROVE FALSE
    BY <1>1 DEF UNIT
  <2>2. b * q >= b * (UNIT + 1)
    BY <1>1, <2>1 DEF UNIT
  <2> QED  BY <1>1, <1>2, <2>2 DEF UNIT
<1> QED  BY <1>1, <1>2 DEF q, UNIT

\* A quotient that is rounded up.
LEMMA RoundedUpIs ==
    ASSUME NEW a \in Int, NEW b \in Nat, b # 0
    PROVE  /\ RoundedUp(a, b) \in Int
           /\ b * RoundedUp(a, b) >= a /\ b * RoundedUp(a, b) < a + b
           /\ a >= 0 => RoundedUp(a, b) \in Nat
<1> DEFINE q == (- a) \div b
<1>1. q \in Int /\ b * q <= - a /\ - a < b * q + b
  OBVIOUS
<1>2. RoundedUp(a, b) = - q
  BY DEF RoundedUp
<1> HIDE DEF q
<1>3. b * (- q) = - (b * q)
  BY <1>1
<1>4. ASSUME a >= 0  PROVE - q >= 0
  <2>1. SUFFICES ASSUME q >= 1  PROVE FALSE
    BY <1>1
  <2>2. b * q >= b
    BY <1>1, <2>1
  <2> QED  BY <1>1, <1>4, <2>2
<1> QED  BY <1>1, <1>2, <1>3, <1>4

\* The statistics.
LEMMA ResetShape ==
    ASSUME NEW st, NEW ids, IsFiniteSet(ids), IsStatistic(st, ids), NEW threshold
    PROVE  IsStatistic(ResetLayer(st, threshold), ids)
<1> DEFINE none == [f \in ids |-> 0]
           results == [f \in ids |-> st.sat[f] + st.unsat[f]]
           total == SumFunction(results)
           reliability == Reliabilities(st)
           counted == [st EXCEPT !.forwarded = results, !.total = total, !.reliability = reliability]
           utf == UnsatisfiedTrafficFraction(counted, threshold)
           actual == ActualForwardingProbabilities(counted)
<1>1. DOMAIN st.sat = ids /\ \A f \in ids : st.sat[f] \in Nat /\ st.unsat[f] \in Nat
  BY DEF IsStatistic
<1>2. results \in [ids -> Nat]
  BY <1>1
<1>3. total \in Nat
  <2>1. total = SumOf(results, ids)
    BY SumsOfFunctions
  <2> HIDE DEF results
  <2> QED  BY <1>2, <2>1, SumOfNaturals
<1>4. reliability \in [ids -> 0 .. UNIT]
  <2>1. ASSUME NEW f \in ids
        PROVE  (IF st.unsat[f] = 0 THEN UNIT
                ELSE (UNIT * st.sat[f]) \div (st.sat[f] + st.unsat[f])) \in 0 .. UNIT
    <3>1. st.unsat[f] # 0 => (UNIT * st.sat[f]) \div (st.sat[f] + st.unsat[f]) \in 0 .. UNIT
      BY <1>1, ShareIs
    <3>2. UNIT \in 0 .. UNIT
      BY DEF UNIT
    <3> QED  BY <3>1, <3>2
  <2> QED  BY <1>1, <2>1 DEF Reliabilities
<1>5. ResetLayer(st, threshold) =
        [counted EXCEPT !.utf = utf, !.actual = actual, !.sat = none, !.unsat = none]
  BY <1>1 DEF ResetLayer
<1> HIDE DEF results, total, reliability
<1>6. /\ counted.forwarded = results /\ counted.total = total /\ counted.reliability = reliability
      /\ counted.unsat = st.unsat
      /\ DOMAIN counted = {"sat", "unsat", "forwarded", "total", "reliability", "utf", "actual"}
  BY DEF IsStatistic
<1> HIDE DEF counted
<1>7. actual \in [ids -> Nat]
  <2>1. ASSUME NEW f \in ids
        PROVE  (IF total = 0 THEN 0 ELSE RoundedUp(UNIT * results[f], total)) \in Nat
    <3>1. UNIT * results[f] \in Int /\ UNIT * results[f] >= 0
      BY <1>2 DEF UNIT
    <3> QED  BY <1>3, <3>1, RoundedUpIs
  <2> QED  BY <1>2, <1>6, <2>1 DEF ActualForwardingProbabilities
<1>8. utf \in Int
  <2> DEFINE S == getUnreliableFaces(counted, threshold)
  <2>1. S \subseteq ids
    BY <1>4, <1>6 DEF getUnreliableFaces
  <2> HIDE DEF S
  <2>2. IsFiniteSet(S) /\ \A f \in S : st.unsat[f] \in Nat
    BY <1>1, <2>1, FS_Subset
  <2>3. SumFunctionOnSet(st.unsat, S) \in Nat
    BY <2>2, SumsOfFunctions, SumOfNaturals
  <2>4. utf = IF total = 0 THEN 0 ELSE (UNIT * SumFunctionOnSet(st.unsat, S)) \div total
    BY <1>6 DEF UnsatisfiedTrafficFraction, S
  <2> HIDE DEF utf
  <2> QED  BY <1>3, <2>3, <2>4, ShareIs
<1> HIDE DEF utf, actual
<1> QED  BY <1>2, <1>3, <1>4, <1>5, <1>6, <1>7, <1>8 DEF IsStatistic

LEMMA ResetsShape ==
    ASSUME NEW stats, NEW ids, IsFiniteSet(ids), IsStatistics(stats, ids), NEW threshold
    PROVE  IsStatistics(resetStatistics(stats, threshold), ids)
BY ResetShape DEF IsStatistics, resetStatistics

LEMMA NewStatisticsShape ==
    ASSUME NEW ids, IsFiniteSet(ids)
    PROVE  IsStatistics(NewStatistics(ids), ids)
<1> DEFINE none == [f \in ids |-> 0]
           st == [sat |-> none, unsat |-> none, forwarded |-> none, total |-> 0,
                  reliability |-> none, utf |-> 0, actual |-> none]
           stats == [l \in Layers |-> st]
<1>1. IsStatistic(st, ids)
  BY DEF IsStatistic, UNIT
<1> HIDE DEF st
<1>2. IsStatistics(stats, ids)
  BY <1>1 DEF IsStatistics
<1>3. NewStatistics(ids) = resetStatistics(stats, UNIT)
  BY DEF NewStatistics, st
<1> HIDE DEF stats
<1> QED  BY <1>2, <1>3, ResetsShape

LEMMA LoggedShape ==
    ASSUME NEW stats, NEW ids, IsStatistics(stats, ids), NEW f, NEW l
    PROVE  /\ IsStatistics(logUnstatisfiedRequest(stats, f, l), ids)
           /\ IsStatistics(logStatisfiedRequest(stats, f, l), ids)
           /\ IsStatistics(logDroppingFace(stats, l), ids)
<1>1. ASSUME NEW s, IsStatistic(s, ids), NEW g
      PROVE  /\ IsStatistic([s EXCEPT !.unsat[g] = @ + 1], ids)
             /\ IsStatistic([s EXCEPT !.sat[g] = @ + 1], ids)
  <2> DEFINE u == [s.unsat EXCEPT ![g] = @ + 1]
             v == [s.sat EXCEPT ![g] = @ + 1]
  <2>1. u \in [ids -> Nat] /\ v \in [ids -> Nat]
    <3>1. s.unsat \in [ids -> Nat] /\ s.sat \in [ids -> Nat]
      BY <1>1 DEF IsStatistic
    <3>2. ASSUME NEW x \in [ids -> Nat]  PROVE [x EXCEPT ![g] = @ + 1] \in [ids -> Nat]
      <4>1. g \in ids => x[g] + 1 \in Nat
        OBVIOUS
      <4>2. \A y : (g \in ids => y \in Nat) => [x EXCEPT ![g] = y] \in [ids -> Nat]
        OBVIOUS
      <4> QED  BY <4>1, <4>2
    <3> QED  BY <3>1, <3>2
  <2>0. "sat" \in DOMAIN s /\ "unsat" \in DOMAIN s
    BY <1>1 DEF IsStatistic
  <2>2. /\ [s EXCEPT !.unsat[g] = @ + 1] = [s EXCEPT !.unsat = u]
        /\ [s EXCEPT !.sat[g] = @ + 1] = [s EXCEPT !.sat = v]
    BY <2>0
  <2> HIDE DEF u, v
  <2>3. IsStatistic([s EXCEPT !.unsat = u], ids)
    BY <1>1, <2>1 DEF IsStatistic
  <2>4. IsStatistic([s EXCEPT !.sat = v], ids)
    BY <1>1, <2>1 DEF IsStatistic
  <2> QED  BY <2>2, <2>3, <2>4
<1>2. IsStatistics(logUnstatisfiedRequest(stats, f, l), ids)
  BY <1>1 DEF IsStatistics, logUnstatisfiedRequest
<1>3. IsStatistics(logStatisfiedRequest(stats, f, l), ids)
  BY <1>1 DEF IsStatistics, logStatisfiedRequest
<1>4. IsStatistics(logDroppingFace(stats, l), ids)
  BY <1>1 DEF IsStatistics, logDroppingFace
<1> QED  BY <1>2, <1>3, <1>4

\* Of the reliable and of the unreliable faces, each has what the other lacks.
LEMMA ReliableAreFaces ==
    ASSUME NEW st, NEW ids, IsStatistic(st, ids),
           NEW threshold \in RELIABILITY_THRESHOLD_MIN .. RELIABILITY_THRESHOLD_MAX
    PROVE  /\ getReliableFaces(st, threshold) \subseteq ids \ {DROP_FACE_ID}
           /\ getUnreliableFaces(st, threshold) \subseteq ids \ {DROP_FACE_ID}
           /\ getReliableFaces(st, threshold) \cap getUnreliableFaces(st, threshold) = {}
           /\ \A f \in getReliableFaces(st, threshold) : st.reliability[f] > 0
           /\ \A f \in getUnreliableFaces(st, threshold) : st.reliability[f] < UNIT
<1>1. DOMAIN st.reliability = ids /\ \A f \in ids : st.reliability[f] \in Int
  <2>1. st.reliability \in [ids -> 0 .. UNIT]
    BY DEF IsStatistic
  <2>2. \A n \in 0 .. UNIT : n \in Int
    OBVIOUS
  <2> QED  BY <2>1, <2>2
<1>2. threshold \in Int /\ threshold > 0 /\ threshold <= UNIT
  BY DEF RELIABILITY_THRESHOLD_MIN, RELIABILITY_THRESHOLD_MAX, UNIT
<1> QED  BY <1>1, <1>2 DEF getReliableFaces, getUnreliableFaces, UNIT
-----------------------------------------------------------------------------
(* The tables.                                                              *)

\* Normalising makes a distribution of whatever the numbers are.
LEMMA NormalizedIs ==
    ASSUME NEW ids, IsFiniteSet(ids), ids # {}, NEW col \in [ids -> Int]
    PROVE  IsDistribution(NormalizeColumn(col), ids)
<1> DEFINE n == Cardinality(ids)
           P == {f \in ids : col[f] > 0}
           s == Positive(col)
           new == NormalizeColumn(col)
           kept == [f \in ids |-> IF col[f] < 0 THEN 0 ELSE col[f]]
           scaled == [f \in ids |-> UNIT * kept[f]]
           back == [f \in ids |-> s * new[f]]
           plus == [f \in ids |-> new[f] + 1]
           up == [f \in ids |-> s * plus[f]]
<1>1. n \in Nat /\ n > 0
  <2>1. n # 0
    BY FS_EmptySet
  <2> QED  BY <2>1, FS_CardinalityType
<1>2. DOMAIN col = ids /\ kept \in [ids -> Nat]
  OBVIOUS
<1>3. IsFiniteSet(P) /\ IsFiniteSet(ids \ P) /\ P \cup (ids \ P) = ids /\ P \subseteq ids
  BY FS_Subset
<1>4. s = SumOf(col, P)
  BY <1>2, SumsOfFunctions DEF Positive
<1>5. s \in Nat /\ s = SumOf(kept, ids)
  <2>1. \A f \in P : col[f] = kept[f] /\ kept[f] \in Nat /\ col[f] \in Nat
    OBVIOUS
  <2>2. \A f \in ids \ P : kept[f] = 0
    OBVIOUS
  <2>7. Integral(kept, ids) /\ Integral(kept, P)
    BY <1>2, <1>3 DEF Integral
  <2> HIDE DEF kept, P, s
  <2>3. SumOf(kept, ids \ P) = 0
    <3>1. SumOf(kept, ids \ P) = 0 * Cardinality(ids \ P)
      BY <1>3, <2>2, SumConstant
    <3> QED  BY <1>3, <3>1, FS_CardinalityType
  <2>4. SumOf(kept, P) = SumOf(col, P)
    <3>1. \A f \in P : kept[f] = col[f]
      BY <2>1
    <3> QED  BY <1>3, <2>7, <3>1, SumEqual
  <2>5. SumOf(kept, ids) = SumOf(kept, P) + SumOf(kept, ids \ P)
    <3>1. P \cap (ids \ P) = {}
      OBVIOUS
    <3> QED  BY <1>3, <2>7, <3>1, SumApart
  <2>6. SumOf(col, P) \in Nat
    BY <1>3, <2>1, SumOfNaturals
  <2> QED  BY <1>4, <2>3, <2>4, <2>5, <2>6
<1>6. new = [f \in ids |-> IF s = 0 THEN UNIT \div n
                           ELSE IF col[f] < 0 THEN 0 ELSE (UNIT * col[f]) \div s]
  BY <1>2 DEF NormalizeColumn
<1> HIDE DEF s, P, new
<1>7. CASE s = 0
  <2> DEFINE q == UNIT \div n
  <2>1. \A f \in ids : new[f] = q
    BY <1>6, <1>7
  <2>2. q \in Nat /\ q * n <= UNIT /\ UNIT < q * n + n
    <3> HIDE DEF n
    <3> QED  BY <1>1 DEF UNIT
  <2>3. new \in [ids -> Nat]
    <3> HIDE DEF q
    <3> QED  BY <1>6, <1>7, <2>1, <2>2
  <2> HIDE DEF q
  <2>4. SumOf(new, ids) = q * n
    BY <2>1, <2>2, SumConstant
  <2> HIDE DEF n
  <2>5. q * n \in UNIT - n .. UNIT
    BY <1>1, <2>2 DEF UNIT
  <2> QED  BY <2>3, <2>4, <2>5 DEF IsDistribution, n, new
<1>8. CASE s # 0
  <2>1. \A f \in ids : new[f] = IF col[f] < 0 THEN 0 ELSE (UNIT * col[f]) \div s
    BY <1>6, <1>8
  <2>2. \A f \in ids : new[f] = (UNIT * kept[f]) \div s
    <3>1. (UNIT * 0) \div s = 0
      BY <1>5, <1>8 DEF UNIT
    <3> QED  BY <2>1, <3>1
  <2>3. \A f \in ids : /\ new[f] \in Nat /\ s * new[f] \in Int
                       /\ s * new[f] <= UNIT * kept[f] /\ UNIT * kept[f] - s <= s * new[f]
    <3> SUFFICES ASSUME NEW f \in ids
                 PROVE  /\ new[f] \in Nat /\ s * new[f] \in Int
                        /\ s * new[f] <= UNIT * kept[f] /\ UNIT * kept[f] - s <= s * new[f]
      OBVIOUS
    <3> DEFINE a == UNIT * kept[f]
               b == new[f]
    <3>1. a \in Nat /\ b = a \div s
      BY <1>2, <2>2 DEF UNIT
    <3> HIDE DEF a, b
    <3>2. b \in Nat /\ s * b <= a /\ a - s <= s * b /\ s * b \in Int
      BY <1>5, <1>8, <3>1
    <3> QED  BY <3>2 DEF a, b
  <2>4. new \in [ids -> Nat]
    BY <1>6, <1>8, <2>3
  <2> HIDE DEF kept
  <2>5. Integral(back, ids) /\ Integral(scaled, ids) /\ Integral(up, ids) /\ Integral(plus, ids) /\ Integral(new, ids)
        /\ Integral(kept, ids)
    BY <1>2, <1>5, <2>3, <2>4 DEF Integral, UNIT
  <2>6. SumOf(back, ids) = s * SumOf(new, ids)
    BY <1>5, <2>5, SumScale
  <2>7. SumOf(scaled, ids) = UNIT * s
    <3>1. UNIT \in Int
      BY DEF UNIT
    <3> QED  BY <1>5, <2>5, <3>1, SumScale
  <2>8. SumOf(back, ids) <= SumOf(scaled, ids)
    <3>1. \A f \in ids : back[f] <= scaled[f]
      BY <2>3
    <3> HIDE DEF back, scaled
    <3> QED  BY <2>5, <3>1, SumMonotone
  <2>9. SumOf(up, ids) = s * (SumOf(new, ids) + n)
    <3>1. \A f \in ids : plus[f] = new[f] + 1
      OBVIOUS
    <3>2. SumOf(plus, ids) = SumOf(new, ids) + n
      BY <2>5, <3>1, SumPlusOne DEF n
    <3> HIDE DEF plus
    <3>3. SumOf(up, ids) = s * SumOf(plus, ids)
      BY <1>5, <2>5, SumScale
    <3> QED  BY <3>2, <3>3
  <2>10. SumOf(scaled, ids) <= SumOf(up, ids)
    <3>1. \A f \in ids : scaled[f] <= up[f]
      BY <1>5, <2>3, <2>5 DEF Integral
    <3> HIDE DEF up, scaled
    <3> QED  BY <2>5, <3>1, SumMonotone
  <2> DEFINE total == SumOf(new, ids)
  <2>11. total \in Nat
    BY <2>3, SumOfNaturals
  <2>12. s * total <= UNIT * s /\ UNIT * s <= s * (total + n)
    BY <2>6, <2>7, <2>8, <2>9, <2>10
  <2> HIDE DEF total, n
  <2>13. total <= UNIT /\ UNIT <= total + n
    BY <1>1, <1>5, <1>8, <2>11, <2>12 DEF UNIT
  <2>14. total \in UNIT - n .. UNIT
    BY <1>1, <2>11, <2>13 DEF UNIT
  <2> QED  BY <2>4, <2>14 DEF IsDistribution, total, n, new
<1> QED  BY <1>7, <1>8

LEMMA NormalizedShape ==
    ASSUME NEW t, NEW ids, IsFiniteSet(ids), ids # {}, IsTable(t, ids)
    PROVE  IsNormal(NormalizeColumns(t), ids)
<1> DEFINE new == [l \in Layers |-> NormalizeColumn(t.prob[l])]
           without == {l \in t.nan : t.prob[l][DROP_FACE_ID] > 0}
<1>1. \A l \in Layers : IsDistribution(new[l], ids)
  BY NormalizedIs DEF IsTable, IsColumns
<1>2. IsColumns(new, ids)
  BY <1>1 DEF IsColumns, IsDistribution
<1>3. NormalizeColumns(t) = [t EXCEPT !.prob = new, !.nan = without]
  BY DEF NormalizeColumns
<1> HIDE DEF new, without
<1> QED  BY <1>1, <1>2, <1>3 DEF IsTable, IsNormal

\* A column without a distribution is one of numbers at least; dropping is shared
\* by none.
LEMMA NewTableShape ==
    ASSUME NEW ids, IsFiniteSet(ids), NEW preferred \in SUBSET ids, DROP_FACE_ID \in preferred
    PROVE  /\ IsTable(NewTable(ids, preferred), ids)
           /\ preferred # {DROP_FACE_ID} => IsNormal(NewTable(ids, preferred), ids)
<1> DEFINE others == preferred \ {DROP_FACE_ID}
           m == Cardinality(others)
           q == UNIT \div m
           col == [f \in ids |-> IF f \in others THEN UNIT \div (Cardinality(preferred) - 1) ELSE 0]
           t == NewTable(ids, preferred)
<1>1. /\ IsFiniteSet(preferred) /\ IsFiniteSet(others) /\ IsFiniteSet(ids \ others)
      /\ m \in Nat /\ m = Cardinality(preferred) - 1 /\ others \subseteq ids
      /\ m <= Cardinality(ids) /\ Cardinality(ids) \in Nat
  <2>1. IsFiniteSet(preferred) /\ IsFiniteSet(others) /\ IsFiniteSet(ids \ others) /\ others \subseteq ids
    BY FS_Subset
  <2>2. m = Cardinality(preferred) - 1
    BY <2>1, FS_RemoveElement
  <2>3. m <= Cardinality(ids) /\ m \in Nat /\ Cardinality(ids) \in Nat
    BY <2>1, FS_Subset, FS_CardinalityType
  <2> QED  BY <2>1, <2>2, <2>3
<1>2. \A f \in others : m # 0
  BY <1>1, FS_EmptySet
<1>3. \A f \in ids : col[f] = IF f \in others THEN q ELSE 0
  BY <1>1
<1>4. m # 0 => q \in Nat /\ q * m <= UNIT /\ UNIT < q * m + m
  <2>1. m \in Nat
    BY <1>1
  <2> HIDE DEF m
  <2> QED  BY <2>1 DEF UNIT
<1>5. col \in [ids -> Nat]
  <2> HIDE DEF q, m, others
  <2> QED  BY <1>2, <1>3, <1>4
<1>6. /\ DOMAIN t = {"prob", "curReliability", "jammed", "nan"}
      /\ t.prob = [l \in Layers |-> col] /\ t.curReliability = RELIABILITY_THRESHOLD_MIN
  BY DEF NewTable
<1> HIDE DEF t
<1>7. IsTable(t, ids)
  <2> HIDE DEF col
  <2>1. t.curReliability \in RELIABILITY_THRESHOLD_MIN .. RELIABILITY_THRESHOLD_MAX
    BY <1>6 DEF RELIABILITY_THRESHOLD_MIN, RELIABILITY_THRESHOLD_MAX
  <2> QED  BY <1>5, <1>6, <2>1 DEF IsTable, IsColumns
<1>8. ASSUME preferred # {DROP_FACE_ID}  PROVE IsDistribution(col, ids)
  <2>1. m # 0
    BY <1>2, <1>8
  <2> HIDE DEF col
  <2>2. SumOf(col, others) = q * m
    <3> HIDE DEF q
    <3> QED  BY <1>1, <1>3, <1>4, <2>1, SumConstant
  <2>3. SumOf(col, ids \ others) = 0
    <3>1. SumOf(col, ids \ others) = 0 * Cardinality(ids \ others)
      BY <1>1, <1>3, SumConstant
    <3> QED  BY <1>1, <3>1, FS_CardinalityType
  <2>4. SumOf(col, ids) = SumOf(col, others) + SumOf(col, ids \ others)
    <3>1. others \cap (ids \ others) = {} /\ others \cup (ids \ others) = ids /\ Integral(col, ids)
      BY <1>1, <1>5 DEF Integral
    <3> HIDE DEF others
    <3> QED  BY <1>1, <3>1, SumApart
  <2> DEFINE n == Cardinality(ids)
  <2> HIDE DEF q, m, n
  <2>5. q * m \in UNIT - n .. UNIT
    BY <1>1, <1>4, <2>1 DEF UNIT, n
  <2>6. q * m + 0 = q * m
    BY <1>1, <1>4, <2>1
  <2> QED  BY <1>5, <2>2, <2>3, <2>4, <2>5, <2>6 DEF IsDistribution, n
<1>9. preferred # {DROP_FACE_ID} => IsNormal(t, ids)
  BY <1>6, <1>7, <1>8 DEF IsNormal
<1> QED  BY <1>7, <1>9 DEF t

-----------------------------------------------------------------------------
(* The model's recursive functions on numbers: each value is made from the  *)
(* one before it.                                                           *)

\* A pass of the probing, the layers of an update, a round of the
\* synchronisation, a round of handing out tokens.
Turn(what, p, k, c) ==
    CASE what = "probe" -> [f \in DOMAIN c |-> IF f \in p.faces THEN Weighted(c, p.st, f) + p.share[f]
                                               ELSE c[f]]
      [] what = "layer" -> UpdateLayer(c, k, p[k])
      [] what = "sync" -> IF FirstDroppingLayer(c.prob) < LastDroppingLayer(c.prob)
                          THEN SyncRound(c, p) ELSE c
      [] what = "token" -> IF getAllNonFullBuckets(c.bMap) # {} /\ c.rest # 0 THEN Round(c) ELSE c

Iteration(what, p, b, N, start, g) ==
    [k \in b .. N |-> IF k = b THEN start ELSE Turn(what, p, k, g[k - 1])]

\* Such a function exists.
Defined(what, p, b, N, start) == \E g : g = Iteration(what, p, b, N, start, g)

LEMMA IterationExists ==
    ASSUME NEW what, NEW p, NEW b \in Int, NEW N \in Int, b <= N, NEW start
    PROVE  Defined(what, p, b, N, start)
<1> DEFINE Good(g, n) == \A k \in b .. N : k <= b + n =>
                            g[k] = IF k = b THEN start ELSE Turn(what, p, k, g[k - 1])
           K == {n \in Nat : \E g : Good(g, n)}
<1>1. 0 \in K
  <2>1. Good([k \in b .. N |-> start], 0)
    OBVIOUS
  <2> QED  BY <2>1
<1>2. ASSUME NEW n \in K  PROVE n + 1 \in K
  <2>1. PICK g : Good(g, n)
    OBVIOUS
  <2> DEFINE h == [k \in b .. N |-> IF k <= b + n THEN g[k] ELSE Turn(what, p, k, g[k - 1])]
  <2>2. ASSUME NEW k \in b .. N, k <= b + (n + 1)
        PROVE  h[k] = IF k = b THEN start ELSE Turn(what, p, k, h[k - 1])
    <3>1. CASE k <= b + n
      <4>1. h[k] = g[k] /\ (k # b => k - 1 \in b .. N /\ h[k - 1] = g[k - 1])
        BY <3>1
      <4> QED  BY <2>1, <3>1, <4>1
    <3>2. CASE ~(k <= b + n)
      <4>1. k = b + (n + 1) /\ k - 1 \in b .. N /\ k - 1 <= b + n /\ k # b
        BY <2>2, <3>2
      <4>2. h[k] = Turn(what, p, k, g[k - 1]) /\ h[k - 1] = g[k - 1]
        BY <3>2, <4>1
      <4> QED  BY <4>1, <4>2
    <3> QED  BY <3>1, <3>2
  <2> HIDE DEF h
  <2>3. Good(h, n + 1)
    BY <2>2
  <2> QED  BY <2>3
<1>3. K = Nat
  <2> HIDE DEF K
  <2>1. K \subseteq Nat
    BY DEF K
  <2> QED  BY <1>1, <1>2, <2>1, SetOfNaturals
<1>4. PICK g : Good(g, N - b)
  <2> HIDE DEF K
  <2>1. N - b \in Nat
    OBVIOUS
  <2>2. N - b \in K
    BY <1>3, <2>1
  <2> QED  BY <2>2 DEF K
<1> DEFINE h == [k \in b .. N |-> g[k]]
<1>5. \A k \in b .. N : h[k] = IF k = b THEN start ELSE Turn(what, p, k, h[k - 1])
  BY <1>4
<1> HIDE DEF h
<1>6. h = [k \in b .. N |-> IF k = b THEN start ELSE Turn(what, p, k, h[k - 1])]
  BY <1>5 DEF h
<1> QED  BY <1>6 DEF Iteration, Defined

\* What the last of them has, if the first has it and each turn keeps it.
LEMMA KeptToTheEnd ==
    ASSUME NEW b \in Int, NEW N \in Int, b <= N,
           NEW Kept \in SUBSET (b .. N), b \in Kept,
           \A k \in b .. N : k - 1 \in Kept => k \in Kept
    PROVE  N \in Kept
<1> DEFINE K == {n \in Nat : b + n <= N => b + n \in Kept}
<1>1. 0 \in K
  OBVIOUS
<1>2. ASSUME NEW n \in K  PROVE n + 1 \in K
  <2>1. SUFFICES ASSUME b + (n + 1) <= N  PROVE b + (n + 1) \in Kept
    OBVIOUS
  <2>2. b + n \in Kept /\ b + (n + 1) \in b .. N /\ (b + (n + 1)) - 1 = b + n
    BY <2>1
  <2> QED  BY <2>2
<1>3. K = Nat
  <2> HIDE DEF K
  <2>1. K \subseteq Nat
    BY DEF K
  <2> QED  BY <1>1, <1>2, <2>1, SetOfNaturals
<1> HIDE DEF K
<1>4. N - b \in Nat /\ b + (N - b) = N
  OBVIOUS
<1>5. N - b \in K
  BY <1>3, <1>4
<1> QED  BY <1>4, <1>5 DEF K
-----------------------------------------------------------------------------
(* What an update does to one column.                                       *)

LEMMA MinOfTwo == \A a, b \in Int : Min({a, b}) \in {a, b} /\ Min({a, b}) <= a /\ Min({a, b}) <= b
<1> SUFFICES ASSUME NEW a \in Int, NEW b \in Int
             PROVE  Min({a, b}) \in {a, b} /\ Min({a, b}) <= a /\ Min({a, b}) <= b
  OBVIOUS
<1>1. \E m \in {a, b} : \A y \in {a, b} : m <= y
  OBVIOUS
<1> QED  BY <1>1 DEF Min

LEMMA MaxOfTwo == \A a, b \in Int : Max({a, b}) \in {a, b} /\ Max({a, b}) >= a /\ Max({a, b}) >= b
<1> SUFFICES ASSUME NEW a \in Int, NEW b \in Int
             PROVE  Max({a, b}) \in {a, b} /\ Max({a, b}) >= a /\ Max({a, b}) >= b
  OBVIOUS
<1>1. \E m \in {a, b} : \A y \in {a, b} : m >= y
  OBVIOUS
<1> QED  BY <1>1 DEF Max

LEMMA PartIs == \A x, y \in Int : Part(x, y) \in Int
BY DEF Part, UNIT

\* Drawn towards a share that is none, a share stays one; what is drawn is between
\* the two, rounded up.
LEMMA WeightedIs ==
    ASSUME NEW st, NEW ids, IsStatistic(st, ids), NEW col, NEW f \in ids, col[f] \in Int
    PROVE  /\ Weighted(col, st, f) \in Int
           /\ UNIT * Weighted(col, st, f) >= (UNIT - ALPHA) * col[f] + ALPHA * st.actual[f]
           /\ UNIT * Weighted(col, st, f) < (UNIT - ALPHA) * col[f] + ALPHA * st.actual[f] + UNIT
           /\ col[f] \in Nat => Weighted(col, st, f) \in Nat
<1> DEFINE c == col[f]
           a == st.actual[f]
           r == RoundedUp((a - c) * 350, 1000)
<1>1. a \in Nat
  BY DEF IsStatistic
<1>2. Weighted(col, st, f) = c + r
  BY DEF Weighted, ALPHA, UNIT
<1> HIDE DEF a, c
<1>3. c \in Int
  BY DEF c
<1>4. r \in Int /\ 1000 * r >= (a - c) * 350 /\ 1000 * r < (a - c) * 350 + 1000
  <2> DEFINE d == (a - c) * 350
  <2>1. d \in Int /\ 1000 \in Nat /\ 1000 # 0
    BY <1>1, <1>3
  <2> HIDE DEF d
  <2>2. /\ RoundedUp(d, 1000) \in Int
        /\ 1000 * RoundedUp(d, 1000) >= d /\ 1000 * RoundedUp(d, 1000) < d + 1000
    BY <2>1, RoundedUpIs
  <2> QED  BY <2>2 DEF d
<1> HIDE DEF r
<1>5. /\ c + r \in Int /\ (c \in Nat => c + r >= 0)
      /\ 1000 * (c + r) >= 650 * c + 350 * a /\ 1000 * (c + r) < 650 * c + 350 * a + 1000
  BY <1>1, <1>3, <1>4
<1> DEFINE w == Weighted(col, st, f)
<1>6. /\ w \in Int /\ (c \in Nat => w \in Nat)
      /\ 1000 * w >= 650 * c + 350 * a /\ 1000 * w < 650 * c + 350 * a + 1000
  BY <1>2, <1>3, <1>5
<1> HIDE DEF w
<1>7. UNIT = 1000 /\ ALPHA = 350 /\ UNIT - ALPHA = 650
  BY DEF UNIT, ALPHA
<1>8. UNIT * w >= (UNIT - ALPHA) * c + ALPHA * a /\ UNIT * w < (UNIT - ALPHA) * c + ALPHA * a + UNIT
  BY <1>6, <1>7
<1> QED  BY <1>6, <1>8 DEF c, a, w

\* If all are 0 so is the doubled sum.
LEMMA NothingDoubled ==
    ASSUME NEW S, IsFiniteSet(S), NEW w, DOMAIN w = S, \A f \in S : w[f] = 0
    PROVE  SumOfWeighted(w) = 0
<1> DEFINE step(g) == [T \in SUBSET S |-> IF T = {} THEN 0
                                          ELSE 2 * (g[T \ {Member(T)}] + w[Member(T)])]
           g == CHOOSE h : h = step(h)
           zero == [T \in SUBSET S |-> 0]
           K == {T \in SUBSET S : g[T] = 0}
<1>1. SumOfWeighted(w) = g[S]
  BY DEF SumOfWeighted, FoldFunction, FoldFunctionOnSet, MapThenFoldSet, Member
<1>2. zero = step(zero)
  <2>1. \A T \in SUBSET S : T # {} => Member(T) \in S /\ T \ {Member(T)} \in SUBSET S
    BY MemberIsOne
  <2>2. \A T \in SUBSET S : T # {} => 2 * (zero[T \ {Member(T)}] + w[Member(T)]) = 0
    BY <2>1
  <2> QED  BY <2>2
<1>3. g = step(g)
  <2> HIDE DEF step, zero
  <2> QED  BY <1>2
<1> HIDE DEF g
<1>4. {} \in K
  BY <1>3
<1>5. ASSUME NEW T \in SUBSET S, T # {}, \A x \in T : T \ {x} \in K  PROVE T \in K
  <2>1. Member(T) \in T /\ g[T \ {Member(T)}] = 0
    BY <1>5, MemberIsOne
  <2>2. g[T] = 2 * (g[T \ {Member(T)}] + w[Member(T)])
    BY <1>3, <1>5
  <2> QED  BY <2>1, <2>2
<1>6. K = SUBSET S
  <2> HIDE DEF K
  <2>1. K \in SUBSET SUBSET S
    BY DEF K
  <2> QED  BY <1>4, <1>5, <2>1, EachSubset
<1>7. S \in K
  BY <1>6
<1> QED  BY <1>1, <1>7

\* Weights whose sum is divided by have one: no share is a number over none.
LEMMA WeightsCount ==
    ASSUME NEW S, IsFiniteSet(S), S # {}, NEW w \in [S -> Nat], NEW rel \in [S -> Nat],
           \A f \in S : rel[f] > 0
    PROVE  LET weight == [f \in S |-> IF SumOfWeighted(w) > 0 THEN w[f] * rel[f] ELSE rel[f]]
           IN /\ weight \in [S -> Nat]
              /\ SumFunction(weight) \in Nat /\ SumFunction(weight) > 0
<1> DEFINE weight == [f \in S |-> IF SumOfWeighted(w) > 0 THEN w[f] * rel[f] ELSE rel[f]]
<1>0. \A a, b \in Nat : a * b \in Nat /\ (a > 0 /\ b > 0 => a * b > 0)
  OBVIOUS
<1>1. weight \in [S -> Nat]
  BY <1>0
<1>2. \E f \in S : weight[f] > 0
  <2>1. CASE SumOfWeighted(w) > 0
    <3>1. PICK f \in S : w[f] # 0
      BY <2>1, NothingDoubled
    <3>2. w[f] \in Nat /\ w[f] > 0 /\ rel[f] \in Nat /\ rel[f] > 0
      BY <3>1
    <3>3. weight[f] = w[f] * rel[f]
      BY <2>1
    <3> QED  BY <1>0, <3>2, <3>3
  <2>2. CASE ~(SumOfWeighted(w) > 0)
    BY <2>2
  <2> QED  BY <2>1, <2>2
<1> HIDE DEF weight
<1>3. SumFunction(weight) = SumOf(weight, S)
  BY <1>1, SumsOfFunctions
<1>4. SumOf(weight, S) \in Nat /\ SumOf(weight, S) > 0
  BY <1>1, <1>2, SumPositive
<1> QED  BY <1>1, <1>3, <1>4 DEF weight

\* Giving to reliable faces, or taking from unreliable ones, leaves numbers, and
\* the other faces alone.
LEMMA UpdateColumnIs ==
    ASSUME NEW ids, IsFiniteSet(ids), NEW col \in [ids -> Int], NEW S \in SUBSET ids,
           \A f \in S : col[f] \in Nat, NEW st, IsStatistic(st, ids), NEW utf \in Int,
           NEW shift,
           \A f \in S : IF shift THEN st.reliability[f] > 0 ELSE st.reliability[f] < UNIT
    PROVE  /\ UpdateColumn(col, S, st, utf, shift) \in [ids -> Int]
           /\ \A f \in ids \ S : UpdateColumn(col, S, st, utf, shift)[f] = col[f]
<1> DEFINE w == [f \in S |-> Weighted(col, st, f)]
           rel == [f \in S |-> IF shift THEN st.reliability[f] ELSE UNIT - st.reliability[f]]
           weight == [f \in S |-> IF SumOfWeighted(w) > 0 THEN w[f] * rel[f] ELSE rel[f]]
           part == [f \in S |-> (utf * weight[f]) \div SumFunction(weight)]
           new == UpdateColumn(col, S, st, utf, shift)
<1>1. new = [f \in ids |-> IF f \notin S THEN col[f]
                           ELSE IF shift THEN w[f] + part[f] ELSE w[f] - part[f]]
  BY DEF UpdateColumn
<1> HIDE DEF new
<1>2. CASE S = {}
  BY <1>1, <1>2 DEF new
<1>3. CASE S # {}
  <2>1. IsFiniteSet(S)
    BY FS_Subset
  <2>2. w \in [S -> Nat]
    BY WeightedIs
  <2>3. rel \in [S -> Nat] /\ \A f \in S : rel[f] > 0
    <3>1. \A f \in S : st.reliability[f] \in 0 .. UNIT
      BY DEF IsStatistic
    <3>2. ASSUME NEW f \in S  PROVE rel[f] \in Nat /\ rel[f] > 0
      <4>0. \A r \in 0 .. UNIT : /\ r > 0 => r \in Nat /\ r > 0
                                /\ r < UNIT => UNIT - r \in Nat /\ UNIT - r > 0
        BY DEF UNIT
      <4>1. CASE shift
        <5>1. rel[f] = st.reliability[f] /\ st.reliability[f] > 0
          BY <4>1
        <5> HIDE DEF rel
        <5> QED  BY <3>1, <4>0, <5>1
      <4>2. CASE ~shift
        <5>1. rel[f] = UNIT - st.reliability[f] /\ st.reliability[f] < UNIT
          BY <4>2
        <5> HIDE DEF rel
        <5> QED  BY <3>1, <4>0, <5>1
      <4> QED  BY <4>1, <4>2
    <3> QED  BY <3>2
  <2>4. weight \in [S -> Nat] /\ SumFunction(weight) \in Nat /\ SumFunction(weight) > 0
    <3> HIDE DEF w, rel
    <3> QED  BY <1>3, <2>1, <2>2, <2>3, WeightsCount
  <2> HIDE DEF weight, w
  <2>5. \A f \in S : part[f] \in Int
    <3> SUFFICES ASSUME NEW f \in S  PROVE part[f] \in Int
      OBVIOUS
    <3> DEFINE a == weight[f]
               b == SumFunction(weight)
    <3>1. a \in Nat /\ b \in Nat /\ b > 0 /\ part[f] = (utf * a) \div b
      BY <2>4
    <3> HIDE DEF a, b
    <3> QED  BY <3>1
  <2> HIDE DEF part
  <2>6. \A f \in S : w[f] \in Int /\ w[f] + part[f] \in Int /\ w[f] - part[f] \in Int
    BY <2>2, <2>5
  <2> QED  BY <1>1, <2>6 DEF new
<1> QED  BY <1>2, <1>3

\* Numbers, the same as before but for some faces; and for a layer.
KeptButFor(S, new, old, ids) == new \in [ids -> Int] /\ \A f \in ids \ S : new[f] = old[f]

ColumnsButFor(l, new, old, ids) == IsColumns(new, ids) /\ \A k \in Layers \ {l} : new[k] = old[k]

LEMMA GivenIs ==
    ASSUME NEW ids, IsFiniteSet(ids), NEW col \in [ids -> Int], NEW S \in SUBSET ids,
           \A f \in S : col[f] \in Nat, NEW st, IsStatistic(st, ids), NEW utf \in Int,
           \A f \in S : st.reliability[f] > 0
    PROVE  KeptButFor(S, UpdateColumn(col, S, st, utf, TRUE), col, ids)
<1> DEFINE shift == TRUE
<1>1. \A f \in S : IF shift THEN st.reliability[f] > 0 ELSE st.reliability[f] < UNIT
  OBVIOUS
<1> HIDE DEF shift
<1>2. /\ UpdateColumn(col, S, st, utf, shift) \in [ids -> Int]
      /\ \A f \in ids \ S : UpdateColumn(col, S, st, utf, shift)[f] = col[f]
  BY <1>1, UpdateColumnIs
<1>3. KeptButFor(S, UpdateColumn(col, S, st, utf, shift), col, ids)
  BY <1>2 DEF KeptButFor
<1> QED  BY <1>3 DEF shift

LEMMA TakenAwayIs ==
    ASSUME NEW ids, IsFiniteSet(ids), NEW col \in [ids -> Int], NEW S \in SUBSET ids,
           \A f \in S : col[f] \in Nat, NEW st, IsStatistic(st, ids), NEW utf \in Int,
           \A f \in S : st.reliability[f] < UNIT
    PROVE  KeptButFor(S, UpdateColumn(col, S, st, utf, FALSE), col, ids)
<1> DEFINE shift == FALSE
<1>1. \A f \in S : IF shift THEN st.reliability[f] > 0 ELSE st.reliability[f] < UNIT
  OBVIOUS
<1> HIDE DEF shift
<1>2. /\ UpdateColumn(col, S, st, utf, shift) \in [ids -> Int]
      /\ \A f \in ids \ S : UpdateColumn(col, S, st, utf, shift)[f] = col[f]
  BY <1>1, UpdateColumnIs
<1>3. KeptButFor(S, UpdateColumn(col, S, st, utf, shift), col, ids)
  BY <1>2 DEF KeptButFor
<1> QED  BY <1>3 DEF shift

\* What is done to numbers here makes integers of integers, and naturals of naturals.
LEMMA NumbersOf ==
    ASSUME NEW V \in {Int, Nat}
    PROVE  /\ V \subseteq Int
           /\ \A x, y \in V : x + y \in V
           /\ \A x \in V : Part(x, PROBING_TRAFFIC) \in V /\ x - Part(x, PROBING_TRAFFIC) \in V
           /\ \A x \in V, n \in Int : n > 0 => x \div n \in V
           /\ \A x, y \in V, n \in Int : n > 0 => (x * y) \div n \in V
<1>1. \A x, y \in V : x + y \in V /\ x * y \in V
  OBVIOUS
<1>2. \A x \in V : Part(x, PROBING_TRAFFIC) \in V /\ x - Part(x, PROBING_TRAFFIC) \in V
  BY DEF Part, PROBING_TRAFFIC, UNIT
<1>3. \A x \in V, n \in Int : n > 0 => x \div n \in V
  OBVIOUS
<1>4. \A x, y \in V, n \in Int : n > 0 => (x * y) \div n \in V
  BY <1>1, <1>3
<1> QED  BY <1>1, <1>2, <1>3, <1>4

\* Probing changes a column, in numbers: in naturals where there were naturals.
LEMMA ProbeShape ==
    ASSUME NEW prob, NEW ids, IsFiniteSet(ids), DROP_FACE_ID \in ids, IsColumns(prob, ids),
           NEW l \in Layers, NEW S \in SUBSET ids, NEW st, IsStatistic(st, ids), NEW fromTable,
           NEW V \in {Int, Nat}, prob[l] \in [ids -> V], prob[0] \in [ids -> V]
    PROVE  /\ IsColumns(ProbeColumn(prob, l, S, st, fromTable), ids)
           /\ ProbeColumn(prob, l, S, st, fromTable)[l] \in [ids -> V]
           /\ \A k \in Layers \ {l} : ProbeColumn(prob, l, S, st, fromTable)[k] = prob[k]
<1> DEFINE col == prob[l]
           drop == IF fromTable THEN col[DROP_FACE_ID] ELSE Weighted(col, st, DROP_FACE_ID)
           probe == Part(drop, PROBING_TRAFFIC)
           normFactor == SumFunctionOnSet(prob[0], S)
           share == [f \in S |-> IF l = 0 \/ normFactor <= 0
                                 THEN probe \div Cardinality(S)
                                 ELSE (probe * prob[0][f]) \div normFactor]
           start == [col EXCEPT ![DROP_FACE_ID] = drop - probe]
           p == [faces |-> S, st |-> st, share |-> share]
           N == Cardinality(S)
           pass == CHOOSE g : g = [k \in 0 .. N |->
                        IF k = 0 THEN start
                        ELSE [f \in DOMAIN g[k - 1] |->
                                IF f \in S THEN Weighted(g[k - 1], st, f) + share[f] ELSE g[k - 1][f]]]
           new == ProbeColumn(prob, l, S, st, fromTable)
<1>1. new = prob \/ (S # {} /\ new = [prob EXCEPT ![l] = pass[N]])
  BY DEF ProbeColumn
<1> HIDE DEF new
<1>2. N \in Nat /\ N \in Int /\ 0 \in Int /\ 0 <= N /\ IsFiniteSet(S) /\ (S # {} => N # 0)
  BY FS_Subset, FS_CardinalityType, FS_EmptySet
<1>3. col \in [ids -> V] /\ prob[0] \in [ids -> V]
  OBVIOUS
<1>4. drop \in V
  <2>1. col[DROP_FACE_ID] \in V
    BY <1>3
  <2>2. Weighted(col, st, DROP_FACE_ID) \in V
    BY <2>1, WeightedIs
  <2> HIDE DEF col
  <2> QED  BY <2>1, <2>2
<1> HIDE DEF drop
<1>5. probe \in V /\ drop - probe \in V
  BY <1>4, NumbersOf
<1> HIDE DEF probe
<1>6. start \in [ids -> V]
  <2> HIDE DEF col
  <2> QED  BY <1>3, <1>5
<1>7. S # {} => share \in [S -> V]
  <2>1. normFactor \in Int
    <3>1. SumFunctionOnSet(prob[0], S) = SumOf(prob[0], S)
      BY SumsOfFunctions
    <3>2. Integral(prob[0], S)
      BY <1>3, NumbersOf DEF Integral
    <3> QED  BY <1>2, <3>1, <3>2, SumType
  <2> HIDE DEF normFactor, N
  <2>2. ASSUME S # {}  PROVE probe \div N \in V
    <3>1. N \in Int /\ N > 0
      BY <1>2, <2>2
    <3> QED  BY <1>5, <3>1, NumbersOf
  <2>3. ASSUME ~(normFactor <= 0), NEW f \in S  PROVE (probe * prob[0][f]) \div normFactor \in V
    <3> DEFINE a == prob[0][f]
    <3>1. a \in V
      BY <1>3
    <3> HIDE DEF a
    <3>2. normFactor > 0
      BY <2>1, <2>3
    <3>3. (probe * a) \div normFactor \in V
      BY <1>5, <2>1, <3>1, <3>2, NumbersOf
    <3> QED  BY <3>3 DEF a
  <2> QED  BY <2>2, <2>3 DEF N
<1> HIDE DEF start, share, N, col
<1>8. \A g : Iteration("probe", p, 0, N, start, g) =
                [k \in 0 .. N |->
                    IF k = 0 THEN start
                    ELSE [f \in DOMAIN g[k - 1] |->
                            IF f \in S THEN Weighted(g[k - 1], st, f) + share[f] ELSE g[k - 1][f]]]
  BY DEF Iteration, Turn
<1>9. pass = Iteration("probe", p, 0, N, start, pass)
  <2> HIDE DEF p
  <2>1. \E g : g = Iteration("probe", p, 0, N, start, g)
    <3>1. Defined("probe", p, 0, N, start)
      BY <1>2, IterationExists
    <3> QED  BY <3>1 DEF Defined
  <2> QED  BY <1>8, <2>1
<1> HIDE DEF pass, p
<1>10. ASSUME NEW k \in 0 .. N, k # 0
       PROVE  pass[k] = [f \in DOMAIN pass[k - 1] |->
                            IF f \in S THEN Weighted(pass[k - 1], st, f) + share[f] ELSE pass[k - 1][f]]
  BY <1>2, <1>8, <1>9, <1>10
<1>11. CASE S # {} /\ new = [prob EXCEPT ![l] = pass[N]]
  <2> DEFINE Kept == {k \in 0 .. N : pass[k] \in [ids -> V]}
  <2>1. 0 \in Kept
    BY <1>2, <1>6, <1>8, <1>9
  <2>2. ASSUME NEW k \in 0 .. N, k - 1 \in Kept  PROVE k \in Kept
    <3> DEFINE c == pass[k - 1]
    <3>1. c \in [ids -> V] /\ k # 0
      BY <1>2, <2>2
    <3>2. pass[k] = [f \in DOMAIN c |-> IF f \in S THEN Weighted(c, st, f) + share[f] ELSE c[f]]
      BY <1>10, <2>2, <3>1
    <3> HIDE DEF c
    <3>3. \A f \in S : Weighted(c, st, f) \in V
      BY <3>1, WeightedIs, NumbersOf
    <3>4. \A f \in S : Weighted(c, st, f) + share[f] \in V
      BY <1>7, <1>11, <3>3, NumbersOf
    <3> QED  BY <3>1, <3>2, <3>4
  <2>3. N \in Kept
    <3>1. Kept \in SUBSET (0 .. N)
      OBVIOUS
    <3> HIDE DEF Kept
    <3> QED  BY <1>2, <2>1, <2>2, <3>1, KeptToTheEnd
  <2>4. pass[N] \in [ids -> V] /\ pass[N] \in [ids -> Int]
    BY <2>3, NumbersOf
  <2>5. new[l] = pass[N]
    BY <1>11 DEF IsColumns
  <2> QED  BY <1>11, <2>4, <2>5 DEF IsColumns, new
<1> QED  BY <1>1, <1>11 DEF new

LEMMA ProbedEitherWay ==
    ASSUME NEW prob, NEW ids, IsFiniteSet(ids), DROP_FACE_ID \in ids, IsColumns(prob, ids),
           NEW l \in Layers, NEW S \in SUBSET ids, NEW st, IsStatistic(st, ids)
    PROVE  /\ ColumnsButFor(l, ProbeColumn(prob, l, S, st, TRUE), prob, ids)
           /\ ColumnsButFor(l, ProbeColumn(prob, l, S, st, FALSE), prob, ids)
<1> DEFINE V == Int
           yes == TRUE
           no == FALSE
<1>1. V \in {Int, Nat} /\ prob[l] \in [ids -> V] /\ prob[0] \in [ids -> V]
  BY LayersAre DEF IsColumns
<1> HIDE DEF yes, no, V
<1>2. ASSUME NEW fromTable  PROVE ColumnsButFor(l, ProbeColumn(prob, l, S, st, fromTable), prob, ids)
  BY <1>1, ProbeShape DEF ColumnsButFor
<1>3. /\ ColumnsButFor(l, ProbeColumn(prob, l, S, st, yes), prob, ids)
      /\ ColumnsButFor(l, ProbeColumn(prob, l, S, st, no), prob, ids)
  BY <1>2
<1> QED  BY <1>3 DEF yes, no

\* The threshold stays between its bounds.
LEMMA ThresholdKept ==
    ASSUME NEW t, NEW ids, IsTable(t, ids)
    PROVE  /\ IsTable(Raise(t), ids) /\ Raise(t).prob = t.prob
           /\ IsTable(Lower(t), ids) /\ Lower(t).prob = t.prob
<1> DEFINE c == t.curReliability
           up == Min({RELIABILITY_THRESHOLD_MAX, c + Part(RELIABILITY_THRESHOLD_MAX - c, ALPHA)})
           down == Max({RELIABILITY_THRESHOLD_MIN, c - Part(c - RELIABILITY_THRESHOLD_MIN, ALPHA)})
<1>1. c \in Int /\ c >= 800 /\ c <= 1000
  BY DEF IsTable, RELIABILITY_THRESHOLD_MIN, RELIABILITY_THRESHOLD_MAX
<1>2. /\ Raise(t) = [t EXCEPT !.curReliability = up]
      /\ Lower(t) = [t EXCEPT !.curReliability = down]
  BY DEF Raise, Lower, IsTable
<1> HIDE DEF c
<1>3. up \in 800 .. 1000
  <2> DEFINE a == c + ((1000 - c) * 350) \div 1000
  <2>1. a \in Int /\ a >= 800
    BY <1>1
  <2>2. up = Min({1000, a})
    BY DEF Part, ALPHA, UNIT, RELIABILITY_THRESHOLD_MAX
  <2> HIDE DEF a, up
  <2>3. Min({1000, a}) \in {1000, a} /\ Min({1000, a}) <= 1000
    BY <2>1, MinOfTwo
  <2> QED  BY <2>1, <2>2, <2>3
<1>4. down \in 800 .. 1000
  <2> DEFINE a == c - ((c - 800) * 350) \div 1000
  <2>1. a \in Int /\ a <= 1000
    BY <1>1
  <2>2. down = Max({800, a})
    BY DEF Part, ALPHA, UNIT, RELIABILITY_THRESHOLD_MIN
  <2> HIDE DEF a, down
  <2>3. Max({800, a}) \in {800, a} /\ Max({800, a}) >= 800
    BY <2>1, MaxOfTwo
  <2> QED  BY <2>1, <2>2, <2>3
<1> HIDE DEF up, down
<1> QED  BY <1>2, <1>3, <1>4 DEF IsTable, RELIABILITY_THRESHOLD_MIN, RELIABILITY_THRESHOLD_MAX

\* Another column for one layer.
OneColumn(t, l, new, ids) ==
    /\ IsTable(new, ids)
    /\ \A k \in Layers \ {l} : new.prob[k] = t.prob[k]

\* In each of its six cases an update of a layer changes its column, in numbers.
LEMMA UpdateLayerShape ==
    ASSUME NEW t, NEW ids, IsFiniteSet(ids), DROP_FACE_ID \in ids, IsTable(t, ids),
           NEW l \in Layers, t.prob[l] \in [ids -> Nat], NEW st, IsStatistic(st, ids)
    PROVE  OneColumn(t, l, UpdateLayer(t, l, st), ids)
<1> DEFINE reliable == getReliableFaces(st, t.curReliability)
           unreliable == getUnreliableFaces(st, t.curReliability)
           utf == Part(st.utf, ALPHA)
           column == t.prob[l]
<1>1. IsColumns(t.prob, ids) /\ t.prob \in [Layers -> [ids -> Int]]
  BY DEF IsTable, IsColumns
<1>2. /\ reliable \in SUBSET ids /\ unreliable \in SUBSET ids
      /\ DROP_FACE_ID \notin reliable /\ DROP_FACE_ID \notin unreliable
      /\ reliable \cap unreliable = {}
      /\ \A f \in reliable : st.reliability[f] > 0
      /\ \A f \in unreliable : st.reliability[f] < UNIT
  BY ReliableAreFaces DEF IsTable
<1>3. utf \in Int
  BY PartIs DEF IsStatistic, ALPHA
<1>4. column \in [ids -> Int] /\ \A f \in ids : column[f] \in Nat
  OBVIOUS
<1> HIDE DEF reliable, unreliable, utf
<1>5. \A prob : IsColumns(prob, ids) /\ (\A k \in Layers \ {l} : prob[k] = t.prob[k])
                => OneColumn(t, l, [t EXCEPT !.prob = prob], ids)
  BY DEF IsTable, OneColumn
<1>6. \A s : OneColumn(t, l, s, ids) => OneColumn(t, l, Raise(s), ids) /\ OneColumn(t, l, Lower(s), ids)
  BY ThresholdKept DEF OneColumn
<1>7. \A col \in [ids -> Int] :
        /\ IsColumns([t.prob EXCEPT ![l] = col], ids)
        /\ \A k \in Layers \ {l} : [t.prob EXCEPT ![l] = col][k] = t.prob[k]
  BY <1>1 DEF IsColumns
<1>8. \A x \in Int : [column EXCEPT ![DROP_FACE_ID] = x] \in [ids -> Int]
  BY <1>4
<1>9. \A f \in ids : Weighted(column, st, f) \in Int
  BY <1>4, WeightedIs
<1>10. OneColumn(t, l, DropUnsatisfied(t, l, st, utf, reliable, unreliable), ids)
  <2> DEFINE dropped == [column EXCEPT ![DROP_FACE_ID] = Weighted(column, st, DROP_FACE_ID) + utf]
             prob == [t.prob EXCEPT ![l] = UpdateColumn(dropped, unreliable, st, utf, FALSE)]
             probed == IF l \in t.jammed THEN prob ELSE ProbeColumn(prob, l, reliable, st, TRUE)
             after == [t EXCEPT !.prob = probed]
  <2>1. DropUnsatisfied(t, l, st, utf, reliable, unreliable) \in {after, Lower(after)}
    BY DEF DropUnsatisfied
  <2>2. dropped \in [ids -> Int] /\ \A f \in unreliable : dropped[f] \in Nat
    BY <1>2, <1>3, <1>4, <1>8, <1>9
  <2> HIDE DEF dropped
  <2>3. UpdateColumn(dropped, unreliable, st, utf, FALSE) \in [ids -> Int]
    BY <1>2, <1>3, <2>2, TakenAwayIs DEF KeptButFor
  <2>4. IsColumns(prob, ids) /\ \A k \in Layers \ {l} : prob[k] = t.prob[k]
    BY <1>7, <2>3
  <2> HIDE DEF prob
  <2> DEFINE probing == ProbeColumn(prob, l, reliable, st, TRUE)
  <2>5. ColumnsButFor(l, probing, prob, ids)
    BY <1>2, <2>4, ProbedEitherWay
  <2> HIDE DEF probing
  <2>6. probed \in {prob, probing}
    BY DEF probing
  <2> HIDE DEF probed
  <2>7. IsColumns(probed, ids) /\ \A k \in Layers \ {l} : probed[k] = t.prob[k]
    BY <2>4, <2>5, <2>6 DEF ColumnsButFor
  <2>8. OneColumn(t, l, after, ids)
    BY <1>5, <2>7
  <2> HIDE DEF after
  <2> QED  BY <1>6, <2>1, <2>8
<1>11. OneColumn(t, l, MoveToReliable(t, l, st, utf, reliable, unreliable), ids)
  <2> DEFINE given == UpdateColumn(column, reliable, st, utf, TRUE)
             taken == UpdateColumn(given, unreliable, st, utf, FALSE)
             col == [taken EXCEPT ![DROP_FACE_ID] = Weighted(taken, st, DROP_FACE_ID)]
  <2>1. MoveToReliable(t, l, st, utf, reliable, unreliable) = [t EXCEPT !.prob = [t.prob EXCEPT ![l] = col]]
    BY DEF MoveToReliable, IsTable
  <2>2. KeptButFor(reliable, given, column, ids)
    <3>1. \A f \in reliable : column[f] \in Nat
      BY <1>2, <1>4
    <3> HIDE DEF column
    <3> QED  BY <1>2, <1>3, <1>4, <3>1, GivenIs
  <2> HIDE DEF given
  <2>3. \A f \in unreliable : given[f] \in Nat
    BY <1>2, <1>4, <2>2 DEF KeptButFor
  <2>4. taken \in [ids -> Int]
    BY <1>2, <1>3, <2>2, <2>3, TakenAwayIs DEF KeptButFor
  <2> HIDE DEF taken
  <2>5. Weighted(taken, st, DROP_FACE_ID) \in Int
    BY <2>4, WeightedIs
  <2>6. col \in [ids -> Int]
    BY <2>4, <2>5
  <2> HIDE DEF col
  <2> QED  BY <1>5, <1>7, <2>1, <2>6
<1>12. OneColumn(t, l, ProbeUnused(t, l, reliable), ids)
  <2> DEFINE probe == Part(column[DROP_FACE_ID], PROBING_TRAFFIC)
             each == probe \div Cardinality(reliable)
             col == [f \in DOMAIN column |->
                        IF f = DROP_FACE_ID THEN column[f] - probe
                        ELSE IF f \in reliable THEN column[f] + each ELSE column[f]]
  <2>1. ProbeUnused(t, l, reliable) = [t EXCEPT !.prob = [t.prob EXCEPT ![l] = col]]
    BY DEF ProbeUnused, IsTable
  <2>2. probe \in Int
    <3>1. column[DROP_FACE_ID] \in Int /\ PROBING_TRAFFIC \in Int
      BY <1>4 DEF PROBING_TRAFFIC
    <3> HIDE DEF column
    <3> QED  BY <3>1, PartIs
  <2> HIDE DEF probe
  <2>3. reliable # {} => each \in Int
    <3> DEFINE n == Cardinality(reliable)
    <3>1. reliable # {} => n \in Nat /\ n # 0
      BY <1>2, FS_Subset, FS_CardinalityType, FS_EmptySet
    <3> HIDE DEF n
    <3>2. reliable # {} => probe \div n \in Int
      BY <2>2, <3>1
    <3> QED  BY <3>2 DEF n
  <2> HIDE DEF each, column
  <2>4. col \in [ids -> Int]
    BY <1>4, <2>2, <2>3
  <2> HIDE DEF col
  <2> QED  BY <1>5, <1>7, <2>1, <2>4 DEF column
<1>13. OneColumn(t, l, FollowTraffic(t, l, st), ids)
  <2> DEFINE col == [f \in DOMAIN column |-> Weighted(column, st, f)]
  <2>1. FollowTraffic(t, l, st) = Raise([t EXCEPT !.prob = [t.prob EXCEPT ![l] = col]])
    BY DEF FollowTraffic, IsTable
  <2>2. col \in [ids -> Int]
    BY <1>4, <1>9
  <2> HIDE DEF col
  <2> QED  BY <1>5, <1>6, <1>7, <2>1, <2>2
<1>14. ASSUME st.total # 0  PROVE OneColumn(t, l, DropLess(t, l, st, reliable), ids)
  <2> DEFINE shifting == {f \in reliable : st.actual[f] > SHIFT_THRESHOLD}
             probing == reliable \ shifting
             drop == Weighted(column, st, DROP_FACE_ID)
             share == (UNIT * SumFunctionOnSet(st.forwarded, shifting)) \div st.total
             moved == Min({drop, Part(share, SHIFT_TRAFFIC)})
             less == [column EXCEPT ![DROP_FACE_ID] = drop - moved]
             shifted == [t.prob EXCEPT ![l] = UpdateColumn(less, shifting, st, moved, TRUE)]
             done == ProbeColumn(shifted, l, probing, st, TRUE)
             alone == ProbeColumn(t.prob, l, probing, st, FALSE)
             after == [t EXCEPT !.prob = done]
             only == [t EXCEPT !.prob = alone]
  <2>1. DropLess(t, l, st, reliable) \in {only, after, Raise(after)}
    BY DEF DropLess
  <2>2. /\ shifting \in SUBSET ids /\ probing \in SUBSET ids /\ DROP_FACE_ID \notin shifting
        /\ \A f \in shifting : st.reliability[f] > 0
    BY <1>2
  <2> HIDE DEF shifting, probing
  <2>3. drop \in Int
    BY <1>9
  <2> HIDE DEF drop
  <2>4. share \in Int
    <3> DEFINE x == SumFunctionOnSet(st.forwarded, shifting)
               y == st.total
    <3>1. y \in Nat /\ y # 0
      BY <1>14 DEF IsStatistic
    <3>2. x \in Nat
      <4>1. IsFiniteSet(shifting) /\ \A f \in shifting : st.forwarded[f] \in Nat
        BY <2>2, FS_Subset DEF IsStatistic
      <4> QED  BY <4>1, SumsOfFunctions, SumOfNaturals
    <3> HIDE DEF x, y
    <3>3. (UNIT * x) \div y \in Nat
      BY <3>1, <3>2, ShareIs
    <3> QED  BY <3>3 DEF x, y
  <2> HIDE DEF share
  <2>5. moved \in Int
    <3>1. Part(share, SHIFT_TRAFFIC) \in Int
      BY <2>4, PartIs DEF SHIFT_TRAFFIC
    <3> QED  BY <2>3, <3>1, MinOfTwo
  <2> HIDE DEF moved
  <2>6. less \in [ids -> Int] /\ \A f \in shifting : less[f] \in Nat
    <3>1. drop - moved \in Int
      BY <2>3, <2>5
    <3> QED  BY <1>4, <1>8, <2>2, <3>1
  <2> HIDE DEF less
  <2>7. UpdateColumn(less, shifting, st, moved, TRUE) \in [ids -> Int]
    BY <2>2, <2>5, <2>6, GivenIs DEF KeptButFor
  <2>8. IsColumns(shifted, ids) /\ \A k \in Layers \ {l} : shifted[k] = t.prob[k]
    BY <1>7, <2>7
  <2> HIDE DEF shifted
  <2>9. ColumnsButFor(l, done, shifted, ids)
    BY <2>2, <2>8, ProbedEitherWay
  <2>10. ColumnsButFor(l, alone, t.prob, ids)
    BY <1>1, <2>2, ProbedEitherWay
  <2> HIDE DEF done, alone
  <2>11. OneColumn(t, l, after, ids)
    BY <1>5, <2>8, <2>9 DEF ColumnsButFor
  <2>12. OneColumn(t, l, only, ids)
    BY <1>5, <2>10 DEF ColumnsButFor
  <2> HIDE DEF after, only
  <2> QED  BY <1>6, <2>1, <2>11, <2>12
<1>15. OneColumn(t, l, t, ids)
  BY DEF OneColumn
<1>16. \/ UpdateLayer(t, l, st) \in
            {t, DropUnsatisfied(t, l, st, utf, reliable, unreliable),
             MoveToReliable(t, l, st, utf, reliable, unreliable), ProbeUnused(t, l, reliable),
             FollowTraffic(t, l, st)}
       \/ st.total # 0 /\ UpdateLayer(t, l, st) = DropLess(t, l, st, reliable)
  BY DEF UpdateLayer, reliable, unreliable, utf
<1> QED  BY <1>10, <1>11, <1>12, <1>13, <1>14, <1>15, <1>16

\* Each layer's column is made from the one before the update, and stays as made.
LayerByLayer(up, t, stats, ids) ==
    /\ up[-1] = t
    /\ \A l \in Layers : /\ up[l] = UpdateLayer(up[l - 1], l, stats[l])
                         /\ IsTable(up[l - 1], ids) /\ IsTable(up[l], ids)
                         /\ up[l - 1].prob[l] = t.prob[l]
    /\ \A l, k \in Layers : l <= k => up[k].prob[l] = up[l].prob[l]

LEMMA UpdatingIs ==
    ASSUME NEW t, NEW ids, IsFiniteSet(ids), DROP_FACE_ID \in ids, IsNormal(t, ids),
           NEW stats, IsStatistics(stats, ids)
    PROVE  LayerByLayer(UpdateUpTo(t, stats), t, stats, ids)
<1> DEFINE N == MAX_LAYERS - 1
           turns(g) == [l \in -1 .. N |-> IF l = -1 THEN t ELSE UpdateLayer(g[l - 1], l, stats[l])]
           upTo == CHOOSE g : g = turns(g)
           Kept == {k \in -1 .. N : /\ IsTable(upTo[k], ids)
                                    /\ \A l \in Layers : l > k => upTo[k].prob[l] = t.prob[l]}
<1>1. UpdateUpTo(t, stats) = upTo
  BY DEF UpdateUpTo
<1>2. /\ N \in Int /\ -1 \in Int /\ -1 <= N /\ Layers = 0 .. N
      /\ \A k \in -1 .. N : \A j \in -1 .. N : j <= k => \A i \in -1 .. j : i \in -1 .. N
  BY LayersAre
<1> HIDE DEF N
<1>3. \A g : Iteration("layer", stats, -1, N, t, g) = turns(g)
  BY DEF Iteration, Turn
<1>4. upTo = turns(upTo)
  <2>1. Defined("layer", stats, -1, N, t)
    BY <1>2, IterationExists
  <2> HIDE DEF turns
  <2> QED  BY <1>3, <2>1 DEF Defined
<1> HIDE DEF upTo
<1>5. upTo[-1] = t /\ \A k \in Layers : upTo[k] = UpdateLayer(upTo[k - 1], k, stats[k])
  <2>1. -1 \in -1 .. N /\ \A k \in Layers : k \in -1 .. N /\ k # -1
    BY <1>2
  <2> QED  BY <1>4, <2>1
<1>6. -1 \in Kept
  BY <1>2, <1>5 DEF IsNormal
<1>7. ASSUME NEW k \in Layers, k - 1 \in Kept
      PROVE  k \in Kept /\ OneColumn(upTo[k - 1], k, upTo[k], ids)
  <2> DEFINE old == upTo[k - 1]
  <2>1. IsTable(old, ids) /\ \A l \in Layers : l > k - 1 => old.prob[l] = t.prob[l]
    BY <1>7
  <2>2. upTo[k] = UpdateLayer(old, k, stats[k]) /\ k \in -1 .. N
    BY <1>2, <1>5
  <2> HIDE DEF old
  <2>3. old.prob[k] \in [ids -> Nat]
    <3>1. k > k - 1
      BY <1>2
    <3>2. old.prob[k] = t.prob[k]
      BY <2>1, <3>1
    <3> QED  BY <3>2 DEF IsNormal, IsDistribution
  <2>4. OneColumn(old, k, upTo[k], ids)
    BY <2>1, <2>2, <2>3, UpdateLayerShape DEF IsStatistics
  <2>5. \A l \in Layers : l > k => l > k - 1 /\ l # k
    BY <1>2
  <2>6. k \in Kept
    BY <2>1, <2>2, <2>4, <2>5 DEF OneColumn
  <2> QED  BY <2>4, <2>6 DEF old
<1>8. \A k \in -1 .. N : k \in Kept
  <2> SUFFICES ASSUME NEW m \in -1 .. N  PROVE m \in Kept
    OBVIOUS
  <2> DEFINE Now == Kept \cap (-1 .. m)
  <2>1. m \in Int /\ -1 <= m /\ Now \in SUBSET (-1 .. m)
    BY <1>2
  <2>2. -1 \in Now
    BY <1>6, <2>1
  <2>3. ASSUME NEW k \in -1 .. m, k - 1 \in Now  PROVE k \in Now
    <3>1. k \in Layers /\ k - 1 \in Kept
      BY <1>2, <2>1, <2>3
    <3> QED  BY <1>7, <3>1
  <2>4. m \in Now
    <3> HIDE DEF Now
    <3> QED  BY <1>2, <2>1, <2>2, <2>3, KeptToTheEnd
  <2> QED  BY <2>4
<1>9. \A k \in Layers : OneColumn(upTo[k - 1], k, upTo[k], ids)
  BY <1>2, <1>7, <1>8
<1>10. ASSUME NEW l \in Layers, NEW m \in Layers, l <= m  PROVE upTo[m].prob[l] = upTo[l].prob[l]
  <2> DEFINE Same == {k \in l .. m : upTo[k].prob[l] = upTo[l].prob[l]}
  <2>1. l \in Int /\ m \in Int /\ l \in Same /\ Same \in SUBSET (l .. m)
    BY <1>2, <1>10
  <2>2. ASSUME NEW k \in l .. m, k - 1 \in Same  PROVE k \in Same
    <3>1. k \in Layers /\ l \in Layers \ {k} /\ upTo[k - 1].prob[l] = upTo[l].prob[l]
      BY <1>2, <2>2
    <3> QED  BY <1>9, <3>1 DEF OneColumn
  <2>3. m \in Same
    <3> HIDE DEF Same
    <3> QED  BY <1>10, <2>1, <2>2, KeptToTheEnd
  <2> QED  BY <2>3
<1>11. ASSUME NEW l \in Layers
       PROVE  IsTable(upTo[l - 1], ids) /\ IsTable(upTo[l], ids) /\ upTo[l - 1].prob[l] = t.prob[l]
  <2>1. l \in -1 .. N /\ l - 1 \in -1 .. N /\ l > l - 1
    BY <1>2
  <2>2. l \in Kept /\ l - 1 \in Kept
    BY <1>8, <2>1
  <2> QED  BY <2>1, <2>2
<1> QED  BY <1>1, <1>5, <1>10, <1>11 DEF LayerByLayer

LEMMA UpdateLayersShape ==
    ASSUME NEW t, NEW ids, IsFiniteSet(ids), DROP_FACE_ID \in ids, IsNormal(t, ids),
           NEW stats, IsStatistics(stats, ids)
    PROVE  IsTable(UpdateLayers(t, stats), ids)
<1>1. LayerByLayer(UpdateUpTo(t, stats), t, stats, ids) /\ MAX_LAYERS - 1 \in Layers
  BY UpdatingIs, LayersAre
<1> QED  BY <1>1 DEF UpdateLayers, LayerByLayer

LEMMA UpdatedShape ==
    ASSUME NEW t, NEW ids, IsFiniteSet(ids), DROP_FACE_ID \in ids, IsNormal(t, ids),
           NEW stats, IsStatistics(stats, ids)
    PROVE  IsNormal(updateColumns(t, stats), ids)
<1>1. IsTable(UpdateLayers(t, stats), ids)
  BY UpdateLayersShape
<1> QED  BY <1>1, NormalizedShape DEF updateColumns

\* The synchronisation of the layers works on two columns of them.
LEMMA DroppingLayersAre ==
    ASSUME NEW prob
    PROVE  FirstDroppingLayer(prob) \in Layers /\ LastDroppingLayer(prob) \in Layers
<1> DEFINE D == {l \in Layers : prob[l][DROP_FACE_ID] > 0}
           E == {l \in Layers : prob[l][DROP_FACE_ID] < UNIT}
<1>1. /\ D \in SUBSET Nat /\ E \in SUBSET Int /\ IsFiniteSet(E)
      /\ D \subseteq Layers /\ E \subseteq Layers
  <2>1. E \subseteq Layers /\ D \subseteq Layers
    OBVIOUS
  <2> HIDE DEF D, E
  <2>2. IsFiniteSet(E)
    BY <2>1, LayersAre, FS_Subset
  <2>3. \A l \in Layers : l \in Nat
    BY LayersAre
  <2> QED  BY <2>1, <2>2, <2>3
<1>2. FirstDroppingLayer(prob) = (IF D = {} THEN MAX_LAYERS - 1 ELSE Min(D))
  BY DEF FirstDroppingLayer
<1>3. LastDroppingLayer(prob) = (IF E = {} THEN 0 ELSE Max(E))
  BY DEF LastDroppingLayer
<1> HIDE DEF D, E
<1>4. D # {} => Min(D) \in Layers
  BY <1>1, NaturalMin
<1>5. E # {} => Max(E) \in Layers
  BY <1>1, FiniteMax
<1>6. 0 \in Layers /\ MAX_LAYERS - 1 \in Layers
  BY LayersAre
<1> QED  BY <1>2, <1>3, <1>4, <1>5, <1>6

\* What the synchronisation makes of a column, in numbers.
LEMMA SyncedColumnIs ==
    ASSUME NEW ids, IsFiniteSet(ids), DROP_FACE_ID \in ids, NEW col \in [ids -> Int]
    PROVE  /\ NoDropping(col) \in [ids -> Int]
           /\ OnlyDropping(col) \in [ids -> Int]
           /\ \A delta \in Int : GiveBack(col, delta) \in [ids -> Int]
<1>1. OnlyDropping(col) \in [ids -> Int]
  BY DEF OnlyDropping, UNIT
<1>2. NoDropping(col) \in [ids -> Int]
  <2> DEFINE n == Cardinality(ids) - 1
  <2>1. ASSUME NEW f \in ids, f # DROP_FACE_ID  PROVE n \in Nat /\ n # 0
    <3>1. /\ IsFiniteSet(ids \ {DROP_FACE_ID})
          /\ Cardinality(ids \ {DROP_FACE_ID}) = Cardinality(ids) - 1
      BY FS_RemoveElement
    <3>2. f \in ids \ {DROP_FACE_ID}
      BY <2>1
    <3> QED  BY <3>1, <3>2, FS_CardinalityType, FS_EmptySet
  <2>2. NoDropping(col) = [f \in ids |-> IF f = DROP_FACE_ID THEN 0 ELSE UNIT \div n]
    BY DEF NoDropping
  <2> HIDE DEF n
  <2>3. \A f \in ids : f # DROP_FACE_ID => UNIT \div n \in Int
    BY <2>1 DEF UNIT
  <2> QED  BY <2>2, <2>3
<1>3. ASSUME NEW delta \in Int  PROVE GiveBack(col, delta) \in [ids -> Int]
  <2> DEFINE n == SumFunctionOnSet(col, ids \ {DROP_FACE_ID})
             part == [f \in ids |-> (delta * col[f]) \div n]
  <2>1. n \in Int
    <3> DEFINE S == ids \ {DROP_FACE_ID}
    <3>1. IsFiniteSet(S) /\ Integral(col, S)
      BY FS_Subset DEF Integral
    <3> HIDE DEF S
    <3>2. SumFunctionOnSet(col, S) \in Int
      BY <3>1, SumType, SumsOfFunctions
    <3> QED  BY <3>2 DEF S
  <2>2. GiveBack(col, delta) = [f \in ids |-> IF f = DROP_FACE_ID THEN col[f] - delta
                                             ELSE IF n <= 0 THEN 0 ELSE col[f] + part[f]]
    BY DEF GiveBack
  <2> HIDE DEF n
  <2>3. ASSUME NEW f \in ids, ~(n <= 0)  PROVE part[f] \in Int
    <3> DEFINE c == col[f]
    <3>1. c \in Int /\ part[f] = (delta * c) \div n
      OBVIOUS
    <3> HIDE DEF c, part
    <3> QED  BY <2>1, <2>3, <3>1
  <2> HIDE DEF part
  <2>4. \A f \in ids : /\ col[f] - delta \in Int
                       /\ ~(n <= 0) => col[f] + part[f] \in Int
    BY <2>3
  <2> QED  BY <2>2, <2>4
<1> QED  BY <1>1, <1>2, <1>3

LEMMA SyncRoundShape ==
    ASSUME NEW t, NEW ids, IsFiniteSet(ids), DROP_FACE_ID \in ids, IsTable(t, ids),
           NEW stats, IsStatistics(stats, ids)
    PROVE  IsTable(SyncRound(t, stats), ids)
<1> DEFINE first == FirstDroppingLayer(t.prob)
           last == LastDroppingLayer(t.prob)
           jammed == t.jammed \cup {last}
           here == stats[first].total
           there == stats[last].total
           theta == t.prob[first][DROP_FACE_ID] * here
           chi == (UNIT - t.prob[last][DROP_FACE_ID]) * there
           moved == Min({chi, theta})
           less == moved \div here
           more == - (moved \div there)
           jam == [t EXCEPT !.jammed = jammed]
           one == [jam EXCEPT !.prob[first] = NoDropping(@)]
           two == [jam EXCEPT !.prob[last] = OnlyDropping(@)]
           none(x) == IF \A f \in DOMAIN t.prob[first] \ {DROP_FACE_ID} : t.prob[first][f] = 0
                      THEN x \cup {first} ELSE x
           three == [jam EXCEPT !.prob[first] = GiveBack(@, less),
                                !.prob[last] = GiveBack(@, more), !.nan = none(@)]
<1>1. \/ SyncRound(t, stats) \in {one, two}
      \/ theta # 0 /\ chi # 0 /\ SyncRound(t, stats) = three
  BY DEF SyncRound, none
<1> HIDE DEF none
<1>2. first \in Layers /\ last \in Layers
  BY DroppingLayersAre
<1> HIDE DEF first, last
<1>3. t.prob \in [Layers -> [ids -> Int]]
  BY DEF IsTable, IsColumns
<1>4. t.prob[first][DROP_FACE_ID] \in Int /\ t.prob[last][DROP_FACE_ID] \in Int
  BY <1>2, <1>3
<1>5. here \in Nat /\ there \in Nat
  BY <1>2 DEF IsStatistics, IsStatistic
<1> HIDE DEF here, there
<1>6. /\ theta \in Int /\ chi \in Int
      /\ theta # 0 => here # 0
      /\ chi # 0 => there # 0
  <2> DEFINE a == t.prob[first][DROP_FACE_ID]
             b == t.prob[last][DROP_FACE_ID]
  <2>1. a \in Int /\ UNIT - b \in Int
    BY <1>4 DEF UNIT
  <2>2. \A x \in Int, y \in Nat : x * y \in Int /\ (x * y # 0 => y # 0)
    OBVIOUS
  <2> HIDE DEF a, b
  <2>3. a * here \in Int /\ (UNIT - b) * there \in Int
        /\ (a * here # 0 => here # 0) /\ ((UNIT - b) * there # 0 => there # 0)
    BY <1>5, <2>1, <2>2
  <2> QED  BY <2>3 DEF a, b
<1> HIDE DEF theta, chi
<1>7. moved \in Int
  BY <1>6, MinOfTwo
<1> HIDE DEF moved
<1>8. theta # 0 /\ chi # 0 => less \in Int /\ more \in Int
  BY <1>5, <1>6, <1>7
<1> HIDE DEF less, more
<1>9. /\ DOMAIN jam = {"prob", "curReliability", "jammed", "nan"} /\ jam.prob = t.prob
      /\ jam.curReliability \in RELIABILITY_THRESHOLD_MIN .. RELIABILITY_THRESHOLD_MAX
  BY DEF IsTable
<1> HIDE DEF jam
<1>10. \A p \in [Layers -> [ids -> Int]] : \A s :
         /\ DOMAIN s = {"prob", "curReliability", "jammed", "nan"} /\ s.prob = p
         /\ s.curReliability = jam.curReliability
         => IsTable(s, ids)
  BY <1>9 DEF IsTable, IsColumns
<1>11. IsTable(one, ids)
  <2> DEFINE p == [t.prob EXCEPT ![first] = NoDropping(@)]
  <2>1. p \in [Layers -> [ids -> Int]]
    BY <1>2, <1>3, SyncedColumnIs
  <2>2. one = [jam EXCEPT !.prob = p]
    BY <1>9
  <2> HIDE DEF p, one
  <2> QED  BY <1>9, <1>10, <2>1, <2>2
<1>12. IsTable(two, ids)
  <2> DEFINE p == [t.prob EXCEPT ![last] = OnlyDropping(@)]
  <2>1. p \in [Layers -> [ids -> Int]]
    BY <1>2, <1>3, SyncedColumnIs
  <2>2. two = [jam EXCEPT !.prob = p]
    BY <1>9
  <2> HIDE DEF p, two
  <2> QED  BY <1>9, <1>10, <2>1, <2>2
<1>13. ASSUME theta # 0, chi # 0  PROVE IsTable(three, ids)
  <2> DEFINE p == [t.prob EXCEPT ![first] = GiveBack(@, less)]
             q == [p EXCEPT ![last] = GiveBack(@, more)]
  <2>1. p \in [Layers -> [ids -> Int]]
    BY <1>2, <1>3, <1>8, <1>13, SyncedColumnIs
  <2>2. q \in [Layers -> [ids -> Int]]
    <3> HIDE DEF p
    <3> QED  BY <1>2, <1>8, <1>13, <2>1, SyncedColumnIs
  <2>3. /\ DOMAIN three = {"prob", "curReliability", "jammed", "nan"}
        /\ three.curReliability = jam.curReliability
    BY <1>9
  <2>4. three.prob = q
    BY <1>9
  <2> HIDE DEF p, q, three
  <2> QED  BY <1>10, <2>2, <2>3, <2>4
<1> HIDE DEF one, two, three
<1> QED  BY <1>1, <1>11, <1>12, <1>13

-----------------------------------------------------------------------------
(* The order in which layers drop.                                          *)

Others(ids) == ids \ {DROP_FACE_ID}

\* A column the synchronisation can work with: what the faces hold and what is
\* dropped make one at most, and rounding leaves the faces no mixed signs.
IsShared(col, ids) ==
    /\ col \in [ids -> Int] /\ col[DROP_FACE_ID] \in 0 .. UNIT
    /\ SumOf(col, Others(ids)) <= UNIT - col[DROP_FACE_ID]
    /\ (\A f \in Others(ids) : col[f] >= 0) \/ (\A f \in Others(ids) : col[f] <= 0)

AllShared(t, ids) == \A l \in Layers : IsShared(t.prob[l], ids)

LEMMA OthersFinite ==
    ASSUME NEW ids, IsFiniteSet(ids), DROP_FACE_ID \in ids
    PROVE  /\ IsFiniteSet(Others(ids)) /\ Others(ids) \subseteq ids
           /\ Others(ids) \cup {DROP_FACE_ID} = ids /\ Others(ids) \cap {DROP_FACE_ID} = {}
           /\ Cardinality(Others(ids)) \in Nat /\ Cardinality(Others(ids)) = Cardinality(ids) - 1
<1>1. Others(ids) \subseteq ids /\ Others(ids) \cup {DROP_FACE_ID} = ids /\ Others(ids) \cap {DROP_FACE_ID} = {}
  BY DEF Others
<1>2. IsFiniteSet(Others(ids)) /\ Cardinality(Others(ids)) \in Nat
  BY <1>1, FS_Subset, FS_CardinalityType
<1>3. Cardinality(Others(ids)) = Cardinality(ids) - 1
  BY FS_RemoveElement DEF Others
<1> QED  BY <1>1, <1>2, <1>3

\* A column of natural shares that make one at most is shared.
LEMMA NaturalIsShared ==
    ASSUME NEW ids, IsFiniteSet(ids), DROP_FACE_ID \in ids, NEW col \in [ids -> Nat],
           SumOf(col, ids) <= UNIT
    PROVE  IsShared(col, ids)
<1> DEFINE d == col[DROP_FACE_ID]
           s == SumOf(col, Others(ids))
<1>1. /\ IsFiniteSet(Others(ids)) /\ Others(ids) \subseteq ids
      /\ Others(ids) \cup {DROP_FACE_ID} = ids /\ Others(ids) \cap {DROP_FACE_ID} = {}
  BY OthersFinite
<1>2. d \in Nat /\ \A f \in Others(ids) : col[f] \in Nat
  BY <1>1
<1>3. s \in Nat
  BY <1>1, <1>2, SumOfNaturals
<1>4. SumOf(col, ids) = s + d
  <2>1. Integral(col, Others(ids) \cup {DROP_FACE_ID}) /\ IsFiniteSet({DROP_FACE_ID})
    <3>1. Integral(col, ids)
      BY DEF Integral
    <3>2. IsFiniteSet({DROP_FACE_ID})
      BY FS_Singleton
    <3> QED  BY <1>1, <3>1, <3>2
  <2>2. SumOf(col, Others(ids) \cup {DROP_FACE_ID}) = s + SumOf(col, {DROP_FACE_ID})
    BY <1>1, <2>1, SumApart
  <2>3. SumOf(col, {DROP_FACE_ID}) = d
    BY <1>2, SumOfOne
  <2> QED  BY <1>1, <2>2, <2>3
<1>5. d \in 0 .. UNIT /\ s <= UNIT - d
  <2> HIDE DEF d, s
  <2> QED  BY <1>2, <1>3, <1>4 DEF UNIT
<1>6. col \in [ids -> Int] /\ \A f \in Others(ids) : col[f] >= 0
  BY <1>2
<1> QED  BY <1>5, <1>6 DEF IsShared

LEMMA NormalIsShared ==
    ASSUME NEW t, NEW ids, IsFiniteSet(ids), DROP_FACE_ID \in ids, IsNormal(t, ids)
    PROVE  AllShared(t, ids)
<1> SUFFICES ASSUME NEW l \in Layers  PROVE IsShared(t.prob[l], ids)
  BY DEF AllShared
<1> DEFINE total == SumOf(t.prob[l], ids)
<1>1. t.prob[l] \in [ids -> Nat] /\ total \in UNIT - Cardinality(ids) .. UNIT
  BY DEF IsNormal, IsDistribution
<1>2. Cardinality(ids) \in Nat
  BY FS_CardinalityType
<1> HIDE DEF total
<1>3. total <= UNIT
  BY <1>1, <1>2 DEF UNIT
<1> QED  BY <1>1, <1>3, NaturalIsShared DEF total

\* What one face is given of delta, if the faces share by what they hold.
LEMMA GivenShare ==
    ASSUME NEW n \in Nat, n > 0, NEW delta \in Int, NEW c \in Nat
    PROVE  LET q == (delta * c) \div n
           IN /\ q \in Int /\ n * (c + q) <= (n + delta) * c
              /\ n + delta >= 0 => c + q >= 0
              /\ n + delta <= 0 => c + q <= 0
<1> DEFINE a == delta * c
           q == a \div n
<1>1. a \in Int
  OBVIOUS
<1>2. q \in Int /\ n * q <= a /\ a < n * q + n
  <2> HIDE DEF a
  <2> QED  BY <1>1
<1> HIDE DEF q
<1>3. n * (c + q) <= (n + delta) * c
  <2>1. n * (c + q) = n * c + n * q /\ (n + delta) * c = n * c + a
    BY <1>2
  <2> QED  BY <1>1, <1>2, <2>1
<1>4. ASSUME n + delta >= 0  PROVE c + q >= 0
  <2>1. SUFFICES ASSUME c + q <= -1  PROVE FALSE
    BY <1>2
  <2>2. n * (c + q) <= n * (-1)
    BY <1>2, <2>1
  <2>3. n * (c + q) = n * c + n * q /\ n * c + a = (n + delta) * c
    BY <1>2
  <2>4. (n + delta) * c >= 0
    BY <1>4
  <2> QED  BY <1>1, <1>2, <2>2, <2>3, <2>4
<1>5. ASSUME n + delta <= 0  PROVE c + q <= 0
  <2>1. SUFFICES ASSUME c + q >= 1  PROVE FALSE
    BY <1>2
  <2>2. n * (c + q) >= n
    BY <1>2, <2>1
  <2>3. (n + delta) * c <= 0
    BY <1>5
  <2> QED  BY <1>2, <1>3, <2>2, <2>3
<1> QED  BY <1>2, <1>3, <1>4, <1>5 DEF q

\* Giving back as much as is dropped, or taking as much as is not, keeps it so.
LEMMA GiveBackShared ==
    ASSUME NEW ids, IsFiniteSet(ids), DROP_FACE_ID \in ids, NEW col, IsShared(col, ids),
           NEW delta \in Int, delta <= col[DROP_FACE_ID], col[DROP_FACE_ID] - delta <= UNIT
    PROVE  /\ IsShared(GiveBack(col, delta), ids)
           /\ GiveBack(col, delta)[DROP_FACE_ID] = col[DROP_FACE_ID] - delta
<1> DEFINE new == GiveBack(col, delta)
           S == Others(ids)
           n == SumOf(col, S)
           d == col[DROP_FACE_ID]
           part == [f \in ids |-> (delta * col[f]) \div n]
<1>1. IsFiniteSet(S) /\ S \subseteq ids /\ S = ids \ {DROP_FACE_ID}
  BY OthersFinite DEF Others
<1>2. col \in [ids -> Int] /\ d \in Int /\ 0 <= d /\ d <= UNIT /\ n <= UNIT - d
  BY DEF IsShared, UNIT
<1>3. n \in Int /\ Integral(col, S)
  BY <1>1, <1>2, SumType DEF Integral
<1>4. new = [f \in ids |-> IF f = DROP_FACE_ID THEN col[f] - delta
                           ELSE IF n <= 0 THEN 0 ELSE col[f] + part[f]]
  BY <1>1, <1>2, SumsOfFunctions DEF GiveBack
<1> HIDE DEF new, part, n
<1>5. new[DROP_FACE_ID] = d - delta
  BY <1>4
<1>6. d - delta \in 0 .. UNIT
  BY <1>2 DEF UNIT
<1>7. CASE n <= 0
  <2>1. \A f \in S : new[f] = 0
    BY <1>1, <1>4, <1>7
  <2>2. SumOf(new, S) = 0
    <3>1. SumOf(new, S) = 0 * Cardinality(S)
      BY <1>1, <2>1, SumConstant
    <3> QED  BY <1>1, <3>1, FS_CardinalityType
  <2>3. new \in [ids -> Int]
    BY <1>1, <1>4, <1>5, <1>6, <1>7, <2>1
  <2>4. 0 <= UNIT - (d - delta)
    BY <1>2, <1>6 DEF UNIT
  <2> QED  BY <1>5, <1>6, <2>1, <2>2, <2>3, <2>4 DEF IsShared, new
<1>8. CASE ~(n <= 0)
  <2>1. n \in Nat /\ n > 0
    BY <1>3, <1>8
  <2>2. \A f \in S : col[f] \in Nat
    <3>1. CASE \A f \in S : col[f] >= 0
      BY <1>1, <1>2, <3>1
    <3>2. CASE \A f \in S : col[f] <= 0
      <4> DEFINE zero == [f \in S |-> 0]
      <4>1. Integral(zero, S) /\ (\A f \in S : zero[f] = 0) /\ (\A f \in S : col[f] <= zero[f])
        BY <3>2 DEF Integral
      <4> HIDE DEF zero
      <4>2. SumOf(zero, S) = 0 * Cardinality(S)
        BY <1>1, <4>1, SumConstant
      <4>3. SumOf(zero, S) = 0
        BY <1>1, <4>2, FS_CardinalityType
      <4>4. n <= SumOf(zero, S)
        BY <1>1, <1>3, <4>1, SumMonotone DEF n
      <4> QED  BY <1>3, <1>8, <4>3, <4>4
    <3> QED  BY <3>1, <3>2 DEF IsShared
  <2>3. \A f \in S : new[f] = col[f] + (delta * col[f]) \div n
    BY <1>1, <1>4, <1>8 DEF part
  <2>4. \A f \in S : /\ new[f] \in Int /\ n * new[f] <= (n + delta) * col[f]
                     /\ n + delta >= 0 => new[f] >= 0
                     /\ n + delta <= 0 => new[f] <= 0
    <3> SUFFICES ASSUME NEW f \in S
                 PROVE  /\ new[f] \in Int /\ n * new[f] <= (n + delta) * col[f]
                        /\ n + delta >= 0 => new[f] >= 0
                        /\ n + delta <= 0 => new[f] <= 0
      OBVIOUS
    <3> DEFINE c == col[f]
               q == (delta * c) \div n
    <3>1. c \in Nat /\ new[f] = c + q
      BY <2>2, <2>3
    <3>2. /\ q \in Int /\ n * (c + q) <= (n + delta) * c
          /\ n + delta >= 0 => c + q >= 0
          /\ n + delta <= 0 => c + q <= 0
      <4> HIDE DEF c
      <4> QED  BY <2>1, <3>1, GivenShare
    <3> HIDE DEF q
    <3>3. c + q \in Int
      BY <3>1, <3>2
    <3> QED  BY <3>1, <3>2, <3>3
  <2>5. new \in [ids -> Int]
    <3>1. \A f \in ids : new[f] \in Int
      BY <1>1, <1>2, <1>5, <2>4
    <3> QED  BY <1>4, <3>1
  <2>6. (\A f \in S : new[f] >= 0) \/ (\A f \in S : new[f] <= 0)
    BY <2>1, <2>4
  <2>7. SumOf(new, S) <= n + delta
    <3> DEFINE left == [f \in S |-> n * new[f]]
               right == [f \in S |-> (n + delta) * col[f]]
               total == SumOf(new, S)
    <3>1. Integral(new, S) /\ Integral(left, S) /\ Integral(right, S)
      <4>1. \A f \in S : n * new[f] \in Int /\ (n + delta) * col[f] \in Int
        BY <1>3, <2>2, <2>4
      <4> QED  BY <2>4, <4>1 DEF Integral
    <3>2. \A f \in S : left[f] <= right[f]
      BY <2>4
    <3>3. SumOf(left, S) = n * total /\ SumOf(right, S) = (n + delta) * n
      <4>1. n + delta \in Int
        BY <1>3
      <4>2. SumOf(left, S) = n * SumOf(new, S)
        BY <1>1, <1>3, <3>1, SumScale
      <4>3. SumOf(right, S) = (n + delta) * SumOf(col, S)
        BY <1>1, <1>3, <4>1, SumScale
      <4> QED  BY <4>2, <4>3 DEF n
    <3> HIDE DEF left, right
    <3>4. SumOf(left, S) <= SumOf(right, S)
      BY <1>1, <3>1, <3>2, SumMonotone
    <3>5. total \in Int
      BY <1>1, <3>1, SumType
    <3> HIDE DEF total
    <3>6. n * total <= n * (n + delta)
      BY <1>3, <3>3, <3>4, <3>5
    <3>7. total <= n + delta
      <4>1. SUFFICES ASSUME total >= n + delta + 1  PROVE FALSE
        BY <1>3, <3>5
      <4>2. n * total >= n * (n + delta + 1)
        BY <2>1, <3>5, <4>1
      <4>3. n * (n + delta + 1) = n * (n + delta) + n
        BY <2>1
      <4> QED  BY <2>1, <3>5, <3>6, <4>2, <4>3
    <3> QED  BY <3>7 DEF total
  <2>8. SumOf(new, S) <= UNIT - (d - delta)
    <3>1. SumOf(new, S) \in Int
      BY <1>1, <2>4, SumType DEF Integral
    <3> QED  BY <1>2, <1>3, <2>7, <3>1 DEF UNIT
  <2> QED  BY <1>5, <1>6, <2>5, <2>6, <2>8 DEF IsShared, new
<1> QED  BY <1>5, <1>7, <1>8 DEF new

\* A column that only drops, and one that drops nothing, are shared.
LEMMA OneSidedShared ==
    ASSUME NEW ids, IsFiniteSet(ids), DROP_FACE_ID \in ids, NEW col \in [ids -> Int]
    PROVE  /\ IsShared(OnlyDropping(col), ids) /\ OnlyDropping(col)[DROP_FACE_ID] = UNIT
           /\ IsShared(NoDropping(col), ids) /\ NoDropping(col)[DROP_FACE_ID] = 0
<1> DEFINE S == Others(ids)
           m == Cardinality(S)
           q == UNIT \div m
           only == OnlyDropping(col)
           no == NoDropping(col)
<1>1. /\ IsFiniteSet(S) /\ S = ids \ {DROP_FACE_ID} /\ m \in Nat /\ m = Cardinality(ids) - 1
  BY OthersFinite DEF Others
<1>2. only = [f \in ids |-> IF f = DROP_FACE_ID THEN UNIT ELSE 0]
  BY DEF OnlyDropping
<1>3. no = [f \in ids |-> IF f = DROP_FACE_ID THEN 0 ELSE q]
  BY <1>1 DEF NoDropping
<1>4. only \in [ids -> Int] /\ no \in [ids -> Int]
  BY SyncedColumnIs
<1> HIDE DEF only, no
<1>5. only[DROP_FACE_ID] = UNIT /\ no[DROP_FACE_ID] = 0
  BY <1>2, <1>3
<1>6. UNIT \in 0 .. UNIT /\ 0 \in 0 .. UNIT /\ UNIT - UNIT = 0 /\ UNIT - 0 = UNIT /\ UNIT \in Nat
  BY DEF UNIT
<1>7. IsShared(only, ids)
  <2>1. \A f \in S : only[f] = 0
    BY <1>1, <1>2
  <2>2. SumOf(only, S) = 0 * m
    BY <1>1, <2>1, SumConstant
  <2>3. SumOf(only, S) <= UNIT - UNIT
    BY <1>1, <1>6, <2>2
  <2> QED  BY <1>4, <1>5, <1>6, <2>1, <2>3 DEF IsShared
<1>8. IsShared(no, ids)
  <2>1. \A f \in S : no[f] = q
    BY <1>1, <1>3
  <2>2. m # 0 => q \in Nat /\ q * m <= UNIT
    <3>1. m \in Nat
      BY <1>1
    <3> HIDE DEF m
    <3> QED  BY <3>1 DEF UNIT
  <2>3. \A f \in S : m # 0
    BY <1>1, FS_EmptySet
  <2> HIDE DEF q
  <2>4. SumOf(no, S) <= UNIT
    <3>1. CASE m = 0
      <4>1. S = {}
        BY <1>1, <3>1, FS_EmptySet
      <4> QED  BY <1>6, <4>1, SumEmpty
    <3>2. CASE m # 0
      <4>1. SumOf(no, S) = q * m
        BY <1>1, <2>1, <2>2, <3>2, SumConstant
      <4> QED  BY <2>2, <3>2, <4>1
    <3> QED  BY <3>1, <3>2
  <2>5. \A f \in S : no[f] >= 0
    BY <2>1, <2>2, <2>3
  <2> QED  BY <1>4, <1>5, <1>6, <2>4, <2>5 DEF IsShared
<1> QED  BY <1>5, <1>7, <1>8 DEF only, no

\* Where dropping begins and where letting through ends.
LEMMA WhereDropping ==
    ASSUME NEW prob, NEW ids, DROP_FACE_ID \in ids, \A l \in Layers : IsShared(prob[l], ids)
    PROVE  LET first == FirstDroppingLayer(prob)
               last == LastDroppingLayer(prob)
           IN /\ first \in Layers /\ last \in Layers
              /\ \A l \in Layers : l < first => prob[l][DROP_FACE_ID] = 0
              /\ \A l \in Layers : l > last => prob[l][DROP_FACE_ID] = UNIT
              /\ prob[first][DROP_FACE_ID] > 0 \/ first = MAX_LAYERS - 1
              /\ prob[last][DROP_FACE_ID] < UNIT \/ last = 0
<1> DEFINE D == {l \in Layers : prob[l][DROP_FACE_ID] > 0}
           E == {l \in Layers : prob[l][DROP_FACE_ID] < UNIT}
           first == FirstDroppingLayer(prob)
           last == LastDroppingLayer(prob)
<1>1. \A l \in Layers : /\ prob[l][DROP_FACE_ID] \in Int
                        /\ 0 <= prob[l][DROP_FACE_ID] /\ prob[l][DROP_FACE_ID] <= UNIT
  <2>1. \A l \in Layers : prob[l][DROP_FACE_ID] \in 0 .. UNIT
    BY DEF IsShared
  <2>2. \A d \in 0 .. UNIT : d \in Int /\ 0 <= d /\ d <= UNIT
    BY DEF UNIT
  <2> QED  BY <2>1, <2>2
<1>2. /\ D \in SUBSET Nat /\ E \in SUBSET Int /\ IsFiniteSet(E)
      /\ D \subseteq Layers /\ E \subseteq Layers
  <2>1. E \subseteq Layers /\ D \subseteq Layers
    OBVIOUS
  <2> HIDE DEF D, E
  <2>2. IsFiniteSet(E)
    BY <2>1, LayersAre, FS_Subset
  <2>3. \A l \in Layers : l \in Nat
    BY LayersAre
  <2> QED  BY <2>1, <2>2, <2>3
<1>3. first = (IF D = {} THEN MAX_LAYERS - 1 ELSE Min(D)) /\ last = (IF E = {} THEN 0 ELSE Max(E))
  BY DEF FirstDroppingLayer, LastDroppingLayer
<1>4. \A l \in Layers : /\ l \in Nat /\ l <= MAX_LAYERS - 1
                        /\ (l \in D) = (prob[l][DROP_FACE_ID] > 0)
                        /\ (l \in E) = (prob[l][DROP_FACE_ID] < UNIT)
  BY LayersAre
<1>5. first \in Layers /\ last \in Layers
  BY DroppingLayersAre
<1> HIDE DEF D, E, first, last
<1>6. D # {} => first \in D /\ \A l \in D : first <= l
  BY <1>2, <1>3, NaturalMin
<1>7. E # {} => last \in E /\ \A l \in E : l <= last
  BY <1>2, <1>3, FiniteMax
<1>8. ASSUME NEW l \in Layers, l < first  PROVE prob[l][DROP_FACE_ID] = 0
  <2>1. ~(prob[l][DROP_FACE_ID] > 0)
    BY <1>4, <1>5, <1>6, <1>8
  <2> DEFINE d == prob[l][DROP_FACE_ID]
  <2>2. d \in Int /\ 0 <= d /\ ~(d > 0)
    BY <1>1, <2>1
  <2> HIDE DEF d
  <2>3. d = 0
    BY <2>2
  <2> QED  BY <2>3 DEF d
<1>9. ASSUME NEW l \in Layers, l > last  PROVE prob[l][DROP_FACE_ID] = UNIT
  <2>1. ~(prob[l][DROP_FACE_ID] < UNIT)
    BY <1>4, <1>5, <1>7, <1>9
  <2> DEFINE d == prob[l][DROP_FACE_ID]
  <2>2. d \in Int /\ d <= UNIT /\ ~(d < UNIT)
    BY <1>1, <2>1
  <2> HIDE DEF d
  <2>3. d = UNIT
    BY <2>2 DEF UNIT
  <2> QED  BY <2>3 DEF d
<1>10. prob[first][DROP_FACE_ID] > 0 \/ first = MAX_LAYERS - 1
  BY <1>3, <1>4, <1>5, <1>6
<1>11. prob[last][DROP_FACE_ID] < UNIT \/ last = 0
  BY <1>3, <1>4, <1>5, <1>7
<1> QED  BY <1>5, <1>8, <1>9, <1>10, <1>11 DEF first, last

\* A round leaves every column shared, and other layers as they were.  The lower
\* one drops no more than before, the higher no less, and one of them gets there.
Moved(old, new, first, last) ==
    /\ \A l \in Layers \ {first, last} : new[l][DROP_FACE_ID] = old[l][DROP_FACE_ID]
    /\ new[first][DROP_FACE_ID] = 0 \/ new[last][DROP_FACE_ID] = UNIT

\* What may be moved, in numbers: a layer's share times the interests seen of it.
AllOfOne(a, b, less, gone) == less \in 0 .. a /\ gone \in 0 .. b /\ (less = a \/ gone = b)

LEMMA MovedShare ==
    ASSUME NEW a \in Nat, NEW x \in Nat, NEW b \in Nat, NEW y \in Nat, a * x # 0, b * y # 0,
           NEW moved, moved = Min({b * y, a * x})
    PROVE  AllOfOne(a, b, moved \div x, moved \div y)
<1> DEFINE theta == a * x
           chi == b * y
<1>1. /\ x \in Nat /\ x > 0 /\ y \in Nat /\ y > 0
      /\ theta \in Nat /\ chi \in Nat
  <2>1. \A i, j \in Nat : i * j \in Nat /\ (i * j # 0 => j > 0)
    OBVIOUS
  <2> QED  BY <2>1
<1>2. \A p, q, k \in Nat : k > 0 /\ p <= q * k => p \div k \in 0 .. q
  <2> SUFFICES ASSUME NEW p \in Nat, NEW q \in Nat, NEW k \in Nat, k > 0, p <= q * k
               PROVE  p \div k \in 0 .. q
    OBVIOUS
  <2> DEFINE r == p \div k
  <2>1. r \in Nat /\ k * r <= p
    OBVIOUS
  <2> HIDE DEF r
  <2>2. k * r <= q * k
    BY <2>1
  <2>3. r <= q
    <3>1. SUFFICES ASSUME r >= q + 1  PROVE FALSE
      BY <2>1
    <3>2. k * r >= k * (q + 1) /\ k * (q + 1) = q * k + k
      BY <2>1, <3>1
    <3> QED  BY <2>1, <2>2, <3>2
  <2> QED  BY <2>1, <2>3 DEF r
<1>3. \A q, k \in Nat : k > 0 => (q * k) \div k = q
  OBVIOUS
<1>4. moved \in {theta, chi} /\ moved <= theta /\ moved <= chi
  <2>1. moved = Min({chi, theta})
    OBVIOUS
  <2> HIDE DEF theta, chi
  <2> QED  BY <1>1, <2>1, MinOfTwo
<1>5. moved \in Nat
  BY <1>1, <1>4
<1>6. moved \div x \in 0 .. a
  BY <1>1, <1>2, <1>4, <1>5
<1>7. moved \div y \in 0 .. b
  BY <1>1, <1>2, <1>4, <1>5
<1>8. moved \div x = a \/ moved \div y = b
  BY <1>1, <1>3, <1>4
<1> QED  BY <1>6, <1>7, <1>8 DEF AllOfOne

LEMMA SyncRoundMoves ==
    ASSUME NEW t, NEW ids, IsFiniteSet(ids), DROP_FACE_ID \in ids, IsTable(t, ids),
           AllShared(t, ids), NEW stats, IsStatistics(stats, ids),
           FirstDroppingLayer(t.prob) < LastDroppingLayer(t.prob)
    PROVE  /\ AllShared(SyncRound(t, stats), ids)
           /\ Moved(t.prob, SyncRound(t, stats).prob,
                    FirstDroppingLayer(t.prob), LastDroppingLayer(t.prob))
<1> DEFINE first == FirstDroppingLayer(t.prob)
           last == LastDroppingLayer(t.prob)
           here == stats[first].total
           there == stats[last].total
           a == t.prob[first][DROP_FACE_ID]
           b == UNIT - t.prob[last][DROP_FACE_ID]
           theta == a * here
           chi == b * there
           moved == Min({chi, theta})
           less == moved \div here
           more == - (moved \div there)
           jam == [t EXCEPT !.jammed = t.jammed \cup {last}]
           one == [jam EXCEPT !.prob[first] = NoDropping(@)]
           two == [jam EXCEPT !.prob[last] = OnlyDropping(@)]
           none(x) == IF \A f \in DOMAIN t.prob[first] \ {DROP_FACE_ID} : t.prob[first][f] = 0
                      THEN x \cup {first} ELSE x
           three == [jam EXCEPT !.prob[first] = GiveBack(@, less),
                                !.prob[last] = GiveBack(@, more), !.nan = none(@)]
<1>1. \/ SyncRound(t, stats) \in {one, two}
      \/ theta # 0 /\ chi # 0 /\ SyncRound(t, stats) = three
  BY DEF SyncRound, none
<1>2. first \in Layers /\ last \in Layers /\ first # last
  BY DroppingLayersAre, LayersAre
<1> HIDE DEF none, first, last
<1>3. t.prob \in [Layers -> [ids -> Int]]
  BY DEF IsTable, IsColumns
<1>4. IsShared(t.prob[first], ids) /\ IsShared(t.prob[last], ids)
  BY <1>2 DEF AllShared
<1>5. a \in Nat /\ a <= UNIT /\ b \in Nat /\ b <= UNIT
      /\ t.prob[last][DROP_FACE_ID] = UNIT - b
  <2>1. a \in 0 .. UNIT /\ t.prob[last][DROP_FACE_ID] \in 0 .. UNIT
    BY <1>4 DEF IsShared
  <2>2. \A d \in 0 .. UNIT : /\ d \in Nat /\ d <= UNIT /\ UNIT - d \in Nat /\ UNIT - d <= UNIT
                            /\ d = UNIT - (UNIT - d)
    BY DEF UNIT
  <2> QED  BY <2>1, <2>2
<1>6. here \in Nat /\ there \in Nat
  BY <1>2 DEF IsStatistics, IsStatistic
<1> HIDE DEF here, there
<1>7. /\ DOMAIN jam = {"prob", "curReliability", "jammed", "nan"} /\ jam.prob = t.prob
  BY DEF IsTable
<1> HIDE DEF jam
<1>8. ASSUME NEW s, NEW u, NEW v, IsShared(u, ids), IsShared(v, ids),
             s.prob = [t.prob EXCEPT ![first] = u, ![last] = v],
             u[DROP_FACE_ID] = 0 \/ v[DROP_FACE_ID] = UNIT
      PROVE  AllShared(s, ids) /\ Moved(t.prob, s.prob, first, last)
  <2>1. \A l \in Layers : s.prob[l] = IF l = last THEN v ELSE IF l = first THEN u ELSE t.prob[l]
    BY <1>2, <1>3, <1>8
  <2>2. AllShared(s, ids)
    BY <1>8, <2>1 DEF AllShared
  <2>3. Moved(t.prob, s.prob, first, last)
    BY <1>2, <1>8, <2>1 DEF Moved
  <2> QED  BY <2>2, <2>3
<1>9. AllShared(one, ids) /\ Moved(t.prob, one.prob, first, last)
  <2> DEFINE u == NoDropping(t.prob[first])
             v == t.prob[last]
  <2>1. one.prob = [t.prob EXCEPT ![first] = u, ![last] = v]
    BY <1>2, <1>3, <1>7
  <2>2. IsShared(u, ids) /\ u[DROP_FACE_ID] = 0
    BY <1>2, <1>3, OneSidedShared
  <2>3. IsShared(v, ids)
    BY <1>4
  <2> HIDE DEF u, v, one
  <2> QED  BY <1>8, <2>1, <2>2, <2>3
<1>10. AllShared(two, ids) /\ Moved(t.prob, two.prob, first, last)
  <2> DEFINE u == t.prob[first]
             v == OnlyDropping(t.prob[last])
  <2>1. two.prob = [t.prob EXCEPT ![first] = u, ![last] = v]
    BY <1>2, <1>3, <1>7
  <2>2. IsShared(v, ids) /\ v[DROP_FACE_ID] = UNIT
    BY <1>2, <1>3, OneSidedShared
  <2>3. IsShared(u, ids)
    BY <1>4
  <2> HIDE DEF u, v, two
  <2> QED  BY <1>8, <2>1, <2>2, <2>3
<1>11. ASSUME theta # 0, chi # 0
       PROVE  AllShared(three, ids) /\ Moved(t.prob, three.prob, first, last)
  <2> DEFINE u == GiveBack(t.prob[first], less)
             v == GiveBack(t.prob[last], more)
             gone == moved \div there
  <2>1. three.prob = [t.prob EXCEPT ![first] = u, ![last] = v]
    BY <1>2, <1>3, <1>7
  <2>2. less \in 0 .. a /\ gone \in 0 .. b /\ (less = a \/ gone = b)
    <3> HIDE DEF a, b
    <3>1. a \in Nat /\ b \in Nat
      BY <1>5
    <3>2. a * here # 0 /\ b * there # 0
      BY <1>11
    <3>3. moved = Min({b * there, a * here})
      OBVIOUS
    <3> HIDE DEF moved
    <3>4. AllOfOne(a, b, moved \div here, moved \div there)
      BY <1>6, <3>1, <3>2, <3>3, MovedShare, Zenon
    <3>5. AllOfOne(a, b, less, gone)
      BY <3>4
    <3> HIDE DEF less, gone
    <3> QED  BY <3>5 DEF AllOfOne
  <2> HIDE DEF moved, three
  <2>3. /\ less \in Int /\ less <= a /\ a - less <= UNIT
        /\ more \in Int /\ more <= UNIT - b /\ (UNIT - b) - more <= UNIT
        /\ less = a => a - less = 0
        /\ gone = b => (UNIT - b) - more = UNIT
    <3>1. more = - gone
      OBVIOUS
    <3> HIDE DEF a, b, less, gone, more
    <3> QED  BY <1>5, <2>2, <3>1 DEF UNIT
  <2> HIDE DEF less, more, gone
  <2>4. IsShared(u, ids) /\ u[DROP_FACE_ID] = a - less
    BY <1>4, <2>3, GiveBackShared
  <2>5. IsShared(v, ids) /\ v[DROP_FACE_ID] = (UNIT - b) - more
    <3> DEFINE w == t.prob[last][DROP_FACE_ID]
    <3>1. w = UNIT - b
      BY <1>5
    <3> HIDE DEF b
    <3> QED  BY <1>4, <2>3, <3>1, GiveBackShared
  <2> HIDE DEF u, v, a, b
  <2>6. u[DROP_FACE_ID] = 0 \/ v[DROP_FACE_ID] = UNIT
    BY <2>2, <2>3, <2>4, <2>5
  <2> QED  BY <1>8, <2>1, <2>4, <2>5, <2>6
<1> HIDE DEF one, two, three
<1>12. AllShared(SyncRound(t, stats), ids) /\ Moved(t.prob, SyncRound(t, stats).prob, first, last)
  BY <1>1, <1>9, <1>10, <1>11
<1> QED  BY <1>12 DEF first, last

\* The layers a round works on come closer.
LEMMA RoundCloser ==
    ASSUME NEW old, NEW new, NEW ids, DROP_FACE_ID \in ids,
           \A l \in Layers : IsShared(old[l], ids), \A l \in Layers : IsShared(new[l], ids),
           FirstDroppingLayer(old) < LastDroppingLayer(old),
           Moved(old, new, FirstDroppingLayer(old), LastDroppingLayer(old))
    PROVE  LastDroppingLayer(new) - FirstDroppingLayer(new)
             < LastDroppingLayer(old) - FirstDroppingLayer(old)
<1> DEFINE i == FirstDroppingLayer(old)
           j == LastDroppingLayer(old)
           m == FirstDroppingLayer(new)
           n == LastDroppingLayer(new)
<1>1. /\ i \in Layers /\ j \in Layers
      /\ \A l \in Layers : l < i => old[l][DROP_FACE_ID] = 0
      /\ \A l \in Layers : l > j => old[l][DROP_FACE_ID] = UNIT
  BY WhereDropping
<1>2. /\ m \in Layers /\ n \in Layers
      /\ new[m][DROP_FACE_ID] > 0 \/ m = MAX_LAYERS - 1
      /\ new[n][DROP_FACE_ID] < UNIT \/ n = 0
  BY WhereDropping
<1>3. /\ \A l \in Layers \ {i, j} : new[l][DROP_FACE_ID] = old[l][DROP_FACE_ID]
      /\ new[i][DROP_FACE_ID] = 0 \/ new[j][DROP_FACE_ID] = UNIT
  BY DEF Moved
<1>4. i < j
  OBVIOUS
<1> HIDE DEF i, j, m, n
<1>5. \A l \in Layers : l \in Nat /\ l <= MAX_LAYERS - 1
  BY LayersAre
<1>6. i \in Nat /\ j \in Nat /\ m \in Nat /\ n \in Nat /\ MAX_LAYERS \in Nat
      /\ i <= MAX_LAYERS - 1 /\ j <= MAX_LAYERS - 1 /\ m <= MAX_LAYERS - 1 /\ n <= MAX_LAYERS - 1
  BY <1>1, <1>2, <1>5, LayersAre
<1>7. m >= i
  <2>1. SUFFICES ASSUME m < i  PROVE FALSE
    BY <1>6
  <2>2. m # i /\ m # j /\ m # MAX_LAYERS - 1
    BY <1>4, <1>6, <2>1
  <2>3. new[m][DROP_FACE_ID] = 0
    BY <1>1, <1>2, <1>3, <2>1, <2>2
  <2> QED  BY <1>2, <2>2, <2>3
<1>8. n <= j
  <2>1. SUFFICES ASSUME n > j  PROVE FALSE
    BY <1>6
  <2>2. n # i /\ n # j /\ n # 0
    BY <1>4, <1>6, <2>1
  <2>3. new[n][DROP_FACE_ID] = UNIT
    BY <1>1, <1>2, <1>3, <2>1, <2>2
  <2> QED  BY <1>2, <2>2, <2>3 DEF UNIT
<1>9. new[i][DROP_FACE_ID] = 0 => m # i
  BY <1>2, <1>4, <1>6
<1>10. new[j][DROP_FACE_ID] = UNIT => n # j
  BY <1>2, <1>4, <1>6 DEF UNIT
<1>11. m # i \/ n # j
  BY <1>3, <1>9, <1>10
<1>12. n - m < j - i
  BY <1>6, <1>7, <1>8, <1>11
<1> QED  BY <1>12 DEF i, j, m, n

\* Normalising brings no dropping where there was none, and takes none away from a
\* column that drops everything.
LEMMA NormalizedDrop ==
    ASSUME NEW ids, IsFiniteSet(ids), DROP_FACE_ID \in ids, NEW col, IsShared(col, ids)
    PROVE  LET new == NormalizeColumn(col)
           IN /\ col[DROP_FACE_ID] = 0 => new[DROP_FACE_ID] = 0 \/ Even(new)
              /\ col[DROP_FACE_ID] = UNIT => new[DROP_FACE_ID] = UNIT
<1> DEFINE S == Others(ids)
           P == {f \in ids : col[f] > 0}
           s == Positive(col)
           new == NormalizeColumn(col)
           share == UNIT \div Cardinality(ids)
<1>1. IsFiniteSet(S) /\ S = ids \ {DROP_FACE_ID}
  BY OthersFinite DEF Others
<1>2. col \in [ids -> Int] /\ SumOf(col, S) <= UNIT - col[DROP_FACE_ID]
      /\ ((\A f \in S : col[f] >= 0) \/ (\A f \in S : col[f] <= 0))
  BY DEF IsShared
<1>3. s = SumOf(col, P)
  BY <1>2, SumsOfFunctions DEF Positive
<1>4. new = [f \in ids |-> IF s = 0 THEN share
                           ELSE IF col[f] < 0 THEN 0 ELSE (UNIT * col[f]) \div s]
  BY <1>2 DEF NormalizeColumn
<1>5. IsFiniteSet(P) /\ P \subseteq ids /\ \A f \in P : col[f] \in Nat
  <2>1. \A f \in P : col[f] \in Nat
    BY <1>2
  <2> QED  BY <2>1, FS_Subset
<1>6. s \in Nat
  BY <1>3, <1>5, SumOfNaturals
<1> HIDE DEF s, new, share
<1>7. ASSUME col[DROP_FACE_ID] = 0  PROVE new[DROP_FACE_ID] = 0 \/ Even(new)
  <2>1. CASE s = 0
    <3>1. DOMAIN new = ids /\ \A f \in ids : new[f] = share
      BY <1>4, <2>1
    <3> QED  BY <3>1 DEF Even, share
  <2>2. CASE s # 0
    <3>1. new[DROP_FACE_ID] = (UNIT * 0) \div s
      BY <1>4, <1>7, <2>2
    <3>2. (UNIT * 0) \div s = 0
      BY <1>6, <2>2 DEF UNIT
    <3> QED  BY <3>1, <3>2
  <2> QED  BY <2>1, <2>2
<1>8. ASSUME col[DROP_FACE_ID] = UNIT  PROVE new[DROP_FACE_ID] = UNIT
  <2>1. \A f \in S : ~(col[f] > 0)
    <3>1. CASE \A f \in S : col[f] >= 0
      <4> SUFFICES ASSUME NEW f \in S, col[f] > 0  PROVE FALSE
        OBVIOUS
      <4>1. \A g \in S : col[g] \in Nat
        BY <1>1, <1>2, <3>1
      <4>2. SumOf(col, S) \in Nat /\ SumOf(col, S) > 0
        BY <1>1, <4>1, SumPositive
      <4>3. SumOf(col, S) <= UNIT - UNIT
        BY <1>2, <1>8
      <4> QED  BY <4>2, <4>3 DEF UNIT
    <3>2. CASE \A f \in S : col[f] <= 0
      BY <1>1, <1>2, <3>2
    <3> QED  BY <1>2, <3>1, <3>2
  <2>2. UNIT \in Nat /\ UNIT > 0
    BY DEF UNIT
  <2>3. P = {DROP_FACE_ID}
    BY <1>1, <1>8, <2>1, <2>2
  <2>4. s = UNIT
    <3>1. SumOf(col, {DROP_FACE_ID}) = col[DROP_FACE_ID]
      BY <1>2, SumOfOne
    <3> QED  BY <1>3, <1>8, <2>3, <3>1
  <2>5. new[DROP_FACE_ID] = (UNIT * UNIT) \div UNIT
    BY <1>4, <1>8, <2>2, <2>4
  <2> QED  BY <2>5 DEF UNIT
<1> QED  BY <1>7, <1>8 DEF new

LEMMA NormalizedOrder ==
    ASSUME NEW t, NEW ids, IsFiniteSet(ids), DROP_FACE_ID \in ids, IsTable(t, ids),
           AllShared(t, ids), ~(FirstDroppingLayer(t.prob) < LastDroppingLayer(t.prob))
    PROVE  Ordered(NormalizeColumns(t).prob)
<1> DEFINE first == FirstDroppingLayer(t.prob)
           last == LastDroppingLayer(t.prob)
           new == [l \in Layers |-> NormalizeColumn(t.prob[l])]
           without == {l \in t.nan : t.prob[l][DROP_FACE_ID] > 0}
           table == NormalizeColumns(t)
<1>1. table.prob = new
  <2>1. table = [t EXCEPT !.prob = new, !.nan = without]
    BY DEF NormalizeColumns
  <2> HIDE DEF table, new, without
  <2> QED  BY <2>1 DEF IsTable
<1>2. /\ first \in Layers /\ last \in Layers
      /\ \A l \in Layers : l < first => t.prob[l][DROP_FACE_ID] = 0
      /\ \A l \in Layers : l > last => t.prob[l][DROP_FACE_ID] = UNIT
  BY WhereDropping DEF AllShared
<1>3. ~(first < last)
  OBVIOUS
<1> HIDE DEF first, last
<1>4. ASSUME NEW i \in Layers, NEW j \in Layers, i < j, new[i][DROP_FACE_ID] > 0, ~Even(new[i])
      PROVE  new[j][DROP_FACE_ID] = UNIT
  <2>1. IsShared(t.prob[i], ids) /\ IsShared(t.prob[j], ids)
    BY DEF AllShared
  <2>2. new[i] = NormalizeColumn(t.prob[i]) /\ new[j] = NormalizeColumn(t.prob[j])
    OBVIOUS
  <2> HIDE DEF new
  <2>3. t.prob[i][DROP_FACE_ID] # 0
    <3>1. new[i][DROP_FACE_ID] # 0
      BY <1>4
    <3> QED  BY <1>4, <2>1, <2>2, <3>1, NormalizedDrop
  <2>4. ~(i < first)
    BY <1>2, <2>3
  <2>5. i \in Nat /\ j \in Nat /\ first \in Nat /\ last \in Nat
    BY <1>2, LayersAre
  <2>6. j > last
    BY <1>3, <1>4, <2>4, <2>5
  <2>7. t.prob[j][DROP_FACE_ID] = UNIT
    BY <1>2, <2>6
  <2> QED  BY <2>1, <2>2, <2>7, NormalizedDrop
<1> HIDE DEF new, table
<1>5. Ordered(table.prob)
  BY <1>1, <1>4 DEF Ordered
<1> QED  BY <1>5 DEF table

\* The rounds of the synchronisation are enough to bring the layers into order.
LEMMA SyncInOrder ==
    ASSUME NEW t, NEW ids, IsFiniteSet(ids), DROP_FACE_ID \in ids, IsTable(t, ids),
           AllShared(t, ids), NEW stats, IsStatistics(stats, ids)
    PROVE  /\ IsNormal(syncDroppingPolicy(t, stats), ids)
           /\ Ordered(syncDroppingPolicy(t, stats).prob)
<1> DEFINE last == LastDroppingLayer(t.prob)
           above == IF FirstDroppingLayer(t.prob) < last THEN {l \in Layers : l > last} ELSE {}
           start == [t EXCEPT !.jammed = above]
           N == MAX_LAYERS
           Apart(s) == FirstDroppingLayer(s.prob) < LastDroppingLayer(s.prob)
           Gap(s) == LastDroppingLayer(s.prob) - FirstDroppingLayer(s.prob)
           rounds(g) == [k \in 0 .. N |->
                        IF k = 0 THEN start
                        ELSE IF FirstDroppingLayer(g[k - 1].prob) < LastDroppingLayer(g[k - 1].prob)
                             THEN SyncRound(g[k - 1], stats) ELSE g[k - 1]]
           round == CHOOSE g : g = rounds(g)
           Closer == {k \in 0 .. N : /\ IsTable(round[k], ids) /\ AllShared(round[k], ids)
                                     /\ Apart(round[k]) => Gap(round[k]) <= N - 1 - k}
<1>1. syncDroppingPolicy(t, stats) = NormalizeColumns(round[N])
  BY DEF syncDroppingPolicy
<1>2. IsTable(start, ids) /\ AllShared(start, ids)
  BY DEF IsTable, AllShared
<1>3. N \in Int /\ 0 \in Int /\ 0 <= N
  BY LayersAre
<1>4. \A s : /\ FirstDroppingLayer(s.prob) \in Layers /\ LastDroppingLayer(s.prob) \in Layers
  BY DroppingLayersAre
<1>5. \A s : Gap(s) \in Int /\ Gap(s) <= N - 1
  <2>1. \A l \in Layers : l \in Nat /\ l <= N - 1
    BY LayersAre
  <2>2. \A i, j \in Layers : j - i \in Int /\ j - i <= N - 1
    BY <1>3, <2>1
  <2> QED  BY <1>4, <2>2
<1>6. \A s : Apart(s) => Gap(s) >= 1
  <2>1. \A i, j \in Layers : i < j => j - i >= 1
    BY LayersAre
  <2> QED  BY <1>4, <2>1
<1> HIDE DEF start, N
<1>7. \A g : Iteration("sync", stats, 0, N, start, g) = rounds(g)
  BY DEF Iteration, Turn
<1>8. round = rounds(round)
  <2>1. Defined("sync", stats, 0, N, start)
    BY <1>3, IterationExists
  <2> HIDE DEF rounds
  <2> QED  BY <1>7, <2>1 DEF Defined
<1> HIDE DEF round
<1>9. 0 \in Closer
  <2>1. round[0] = start /\ 0 \in 0 .. N
    BY <1>3, <1>8
  <2>2. Gap(round[0]) <= N - 1 - 0
    <3>1. N - 1 - 0 = N - 1
      BY <1>3
    <3> QED  BY <1>5, <3>1
  <2> HIDE DEF Apart, Gap
  <2> QED  BY <1>2, <2>1, <2>2
<1>10. ASSUME NEW k \in 0 .. N, k - 1 \in Closer  PROVE k \in Closer
  <2> DEFINE s == round[k - 1]
             u == round[k]
  <2>1. k # 0 /\ k \in Int /\ IsTable(s, ids) /\ AllShared(s, ids)
        /\ (Apart(s) => Gap(s) <= N - 1 - (k - 1))
    BY <1>3, <1>10
  <2>2. u = IF Apart(s) THEN SyncRound(s, stats) ELSE s
    BY <1>8, <2>1
  <2>3. CASE Apart(s)
    <3>1. IsTable(u, ids)
      BY <2>1, <2>2, <2>3, SyncRoundShape
    <3>2. AllShared(u, ids) /\ Gap(u) < Gap(s)
      <4>1. /\ AllShared(u, ids)
            /\ Moved(s.prob, u.prob, FirstDroppingLayer(s.prob), LastDroppingLayer(s.prob))
        BY <2>1, <2>2, <2>3, SyncRoundMoves
      <4>2. \A l \in Layers : IsShared(s.prob[l], ids) /\ IsShared(u.prob[l], ids)
        BY <2>1, <4>1 DEF AllShared
      <4> HIDE DEF s, u
      <4>3. Gap(u) < Gap(s)
        BY <2>3, <4>1, <4>2, RoundCloser
      <4> QED  BY <4>1, <4>3
    <3> DEFINE x == Gap(s)
               y == Gap(u)
    <3>3. x \in Int /\ y \in Int /\ y < x /\ x <= N - 1 - (k - 1)
      BY <1>5, <2>1, <2>3, <3>2
    <3> HIDE DEF x, y
    <3>4. y <= N - 1 - k
      BY <1>3, <2>1, <3>3
    <3>5. Gap(u) <= N - 1 - k
      BY <3>4 DEF y
    <3> HIDE DEF Gap, Apart
    <3> QED  BY <3>1, <3>2, <3>5
  <2>4. CASE ~Apart(s)
    <3>1. u = s
      BY <2>2, <2>4
    <3> HIDE DEF Gap, Apart
    <3> QED  BY <2>1, <2>4, <3>1
  <2> QED  BY <2>3, <2>4
<1>11. N \in Closer
  <2>1. Closer \in SUBSET (0 .. N)
    OBVIOUS
  <2> HIDE DEF Closer
  <2> QED  BY <1>3, <1>9, <1>10, <2>1, KeptToTheEnd
<1> DEFINE end == round[N]
<1>12. IsTable(end, ids) /\ AllShared(end, ids) /\ (Apart(end) => Gap(end) <= N - 1 - N)
  BY <1>11
<1> HIDE DEF end
<1>13. ~Apart(end)
  <2> DEFINE x == Gap(end)
  <2>1. Apart(end) => x >= 1 /\ x <= N - 1 - N /\ x \in Int
    BY <1>5, <1>6, <1>12
  <2> HIDE DEF x
  <2> QED  BY <1>3, <2>1
<1>14. IsNormal(NormalizeColumns(end), ids)
  BY <1>12, NormalizedShape
<1>15. Ordered(NormalizeColumns(end).prob)
  BY <1>12, <1>13, NormalizedOrder
<1> QED  BY <1>1, <1>14, <1>15 DEF end

-----------------------------------------------------------------------------
(* Entries and engines.                                                     *)

LEMMA UpdateEntryShape ==
    ASSUME NEW e, NEW ids, IsFiniteSet(ids), IsEntry(e, ids)
    PROVE  IsEntry(UpdateEntry(e), ids)
<1> DEFINE stats == resetStatistics(e.stats, e.table.curReliability)
           learnt == IF FallsBack(e, stats) THEN NewTable(e.active \cup e.standby, e.active)
                     ELSE updateColumns(e.table, stats)
           table == syncDroppingPolicy(learnt, stats)
           counter == IF FallsBack(e, stats) THEN 0 ELSE EvaluateFallback(e, stats)
<1>1. /\ IsNormal(e.table, ids) /\ IsStatistics(e.stats, ids) /\ e.active \cup e.standby = ids
      /\ DROP_FACE_ID \in e.active /\ e.active # {DROP_FACE_ID} /\ DROP_FACE_ID \in ids
  BY DEF IsEntry
<1>2. IsStatistics(stats, ids)
  BY <1>1, ResetsShape
<1>3. UpdateEntry(e) = [e EXCEPT !.stats = stats, !.fallbackCounter = counter, !.table = table]
  BY DEF UpdateEntry
<1> HIDE DEF stats
<1>4. IsNormal(updateColumns(e.table, stats), ids)
  BY <1>1, <1>2, UpdatedShape DEF IsNormal
<1>5. IsNormal(NewTable(ids, e.active), ids)
  BY <1>1, NewTableShape
<1>6. IsNormal(learnt, ids)
  BY <1>1, <1>4, <1>5
<1> HIDE DEF learnt
<1>7. IsNormal(table, ids) /\ Ordered(table.prob)
  <2>1. IsTable(learnt, ids) /\ AllShared(learnt, ids)
    BY <1>1, <1>6, NormalIsShared DEF IsNormal
  <2> QED  BY <1>1, <1>2, <2>1, SyncInOrder
<1> HIDE DEF table, counter
<1> QED  BY <1>1, <1>2, <1>3, <1>7 DEF IsEntry

\* A content's first table shares among the faces the FIB names, if it names one.
LEMMA NewEntryShape ==
    ASSUME NEW S, IsFiniteSet(S), S # {}, DROP_FACE_ID \notin S, NEW routed \in SUBSET S
    PROVE  IsEntry(NewEntry(DropAnd(S), routed), DropAnd(S))
<1> DEFINE ids == DropAnd(S)
           active == ActiveFaces(ids, routed)
<1>1. /\ active \subseteq ids /\ DROP_FACE_ID \in active /\ active # {DROP_FACE_ID}
      /\ IsFiniteSet(ids)
  <2>1. IsFiniteSet(S \cup {DROP_FACE_ID})
    BY FS_AddElement
  <2>2. active \subseteq ids /\ DROP_FACE_ID \in active
    BY DEF ActiveFaces, DropAnd
  <2>3. \E f \in active : f # DROP_FACE_ID
    BY DEF ActiveFaces, DropAnd
  <2> QED  BY <2>1, <2>2, <2>3 DEF DropAnd
<1>2. NewEntry(ids, routed) = [active |-> active, standby |-> ids \ active,
        table |-> NewTable(ids, active), stats |-> NewStatistics(ids), fallbackCounter |-> 0]
  BY DEF NewEntry
<1> HIDE DEF ids, active
<1>3. IsNormal(NewTable(ids, active), ids) /\ IsStatistics(NewStatistics(ids), ids)
  BY <1>1, NewTableShape, NewStatisticsShape
<1>4. Ordered(NewTable(ids, active).prob)
  <2>1. \A l \in Layers : NewTable(ids, active).prob[l][DROP_FACE_ID] = 0
    BY <1>1 DEF NewTable
  <2> QED  BY <2>1 DEF Ordered
<1>5. IsEntry(NewEntry(ids, routed), ids)
  BY <1>1, <1>2, <1>3, <1>4 DEF IsEntry
<1> QED  BY <1>5 DEF ids

LEMMA FacesAreNumbers ==
    /\ IsFiniteSet(Faces) /\ \A f \in Faces : f \in Nat /\ f # DROP_FACE_ID
    /\ InitialFaces \subseteq Faces
    /\ \A n \in Names : determineContentLayer(TagOf[n]) \in Layers
BY FacesAssumption DEF DROP_FACE_ID

-----------------------------------------------------------------------------
(* Handing out tokens.                                                      *)

\* A token that is added is in the bucket or left over.
LEMMA AddedIs ==
    ASSUME NEW t \in 0 .. BUCKET_SIZE, NEW n \in Nat
    PROVE  /\ addTokens(t, n) \in 0 .. BUCKET_SIZE /\ addTokens(t, n) >= t
           /\ Overflow(t, n) \in Nat /\ addTokens(t, n) + Overflow(t, n) = t + n
           /\ ~isFull(addTokens(t, n)) => Overflow(t, n) = 0
           /\ n = 0 => addTokens(t, n) = t /\ Overflow(t, n) = 0
<1>1. BUCKET_SIZE \in Nat
  BY TokenAssumption
<1> QED  BY <1>1 DEF addTokens, Overflow, isFull

IsTokens(b, D) == b \in [D -> 0 .. BUCKET_SIZE]

LEMMA TokensAreNumbers ==
    ASSUME NEW D, NEW b, IsTokens(b, D)
    PROVE  /\ Integral(b, D) /\ DOMAIN b = D /\ \A c \in D : b[c] \in Nat
           /\ getAllNonFullBuckets(b) = {c \in D : ~isFull(b[c])}
<1>1. BUCKET_SIZE \in Nat
  BY TokenAssumption
<1>2. \A x \in 0 .. BUCKET_SIZE : x \in Nat /\ x \in Int
  BY <1>1
<1> QED  BY <1>2 DEF IsTokens, Integral, getAllNonFullBuckets

\* What is left cannot be divided among the buckets that have room, if some have.
Divided(s) ==
    LET open == getAllNonFullBuckets(s.bMap)
    IN open = {} \/ s.rest < Cardinality(open)

\* One round loses nothing and fills a bucket, if it leaves something to divide.
LEMMA RoundIs ==
    ASSUME NEW D, IsFiniteSet(D), NEW s, IsTokens(s.bMap, D), s.rest \in Nat,
           getAllNonFullBuckets(s.bMap) # {}
    PROVE  LET t == Round(s)
           IN /\ IsTokens(t.bMap, D) /\ t.rest \in Nat
              /\ SumOf(t.bMap, D) + t.rest = SumOf(s.bMap, D) + s.rest
              /\ getAllNonFullBuckets(t.bMap) \subseteq getAllNonFullBuckets(s.bMap)
              /\ getAllNonFullBuckets(t.bMap) = getAllNonFullBuckets(s.bMap) => Divided(t)
              /\ Divided(s) => Divided(t)
<1> DEFINE open == getAllNonFullBuckets(s.bMap)
           m == Cardinality(open)
           share == s.rest \div m
           b == s.bMap
           over == [c \in open |-> Overflow(b[c], share)]
           new == [c \in D |-> IF c \in open THEN addTokens(b[c], share) ELSE b[c]]
           left == (s.rest % m) + SumOf(over, open)
           still == getAllNonFullBuckets(new)
<1>1. /\ Integral(b, D) /\ DOMAIN b = D /\ (\A c \in D : b[c] \in Nat /\ b[c] \in 0 .. BUCKET_SIZE)
      /\ open = {c \in D : ~isFull(b[c])}
  BY TokensAreNumbers DEF IsTokens
<1>2. Round(s).bMap = new /\ Round(s).rest = left
  <2>1. DOMAIN over = open
    OBVIOUS
  <2>2. SumFunction(over) = SumOf(over, open)
    BY <2>1, SumsOfFunctions
  <2> QED  BY <1>1, <2>2 DEF Round
<1>3. open \subseteq D /\ IsFiniteSet(open) /\ m \in Nat /\ m > 0
  <2>1. open \subseteq D
    BY <1>1
  <2> HIDE DEF open
  <2>2. IsFiniteSet(open)
    BY <2>1, FS_Subset
  <2>3. open # {}
    BY DEF open
  <2> QED  BY <2>1, <2>2, <2>3, FS_CardinalityType, FS_EmptySet
<1>4. /\ share \in Nat /\ (s.rest % m) \in 0 .. m - 1 /\ s.rest = m * share + (s.rest % m)
      /\ s.rest < m => share = 0 /\ (s.rest % m) = s.rest
  <2> DEFINE r == s.rest
             n == m
  <2>1. r \in Nat /\ n \in Nat \ {0}
    BY <1>3
  <2> HIDE DEF r, n
  <2>2. /\ r \div n \in Nat /\ (r % n) \in 0 .. n - 1 /\ r = n * (r \div n) + (r % n)
    BY <2>1
  <2>3. r < n => r \div n = 0 /\ (r % n) = r
    BY <2>1
  <2> QED  BY <2>2, <2>3 DEF r, n
<1> HIDE DEF share, m
<1>5. \A c \in open : /\ addTokens(b[c], share) \in 0 .. BUCKET_SIZE
                      /\ addTokens(b[c], share) >= b[c]
                      /\ Overflow(b[c], share) \in Nat
                      /\ addTokens(b[c], share) + Overflow(b[c], share) = b[c] + share
                      /\ ~isFull(addTokens(b[c], share)) => Overflow(b[c], share) = 0
                      /\ share = 0 => addTokens(b[c], share) = b[c] /\ Overflow(b[c], share) = 0
  BY <1>1, <1>3, <1>4, AddedIs
<1>6. /\ IsTokens(new, D) /\ (\A c \in open : over[c] \in Nat)
      /\ Integral(new, D)
  <2>1. IsTokens(new, D)
    BY <1>1, <1>5 DEF IsTokens
  <2> QED  BY <1>5, <2>1, TokensAreNumbers
<1>7. still = {c \in D : ~isFull(new[c])}
  BY <1>6, TokensAreNumbers
<1>8. still \subseteq open
  BY <1>1, <1>7
<1>9. SumOf(over, open) \in Nat /\ Integral(over, open)
  BY <1>3, <1>6, SumOfNaturals DEF Integral
<1>10. SumOf(new, open) + SumOf(over, open) = SumOf(b, open) + share * m
  <2> DEFINE each == [c \in open |-> share]
             before == [c \in open |-> b[c] + each[c]]
             after == [c \in open |-> new[c] + over[c]]
  <2>1. Integral(b, open) /\ Integral(new, open) /\ Integral(each, open) /\ Integral(before, open)
    BY <1>1, <1>3, <1>4, <1>6 DEF Integral
  <2>2. \A c \in open : before[c] = after[c]
    BY <1>3, <1>5
  <2>3. \A c \in open : each[c] = share
    OBVIOUS
  <2> HIDE DEF new, over, open, each
  <2>4. SumOf(before, open) = SumOf(b, open) + SumOf(each, open)
    BY <1>3, <2>1, SumOfBoth
  <2>5. SumOf(after, open) = SumOf(new, open) + SumOf(over, open)
    BY <1>3, <1>9, <2>1, SumOfBoth
  <2>6. SumOf(before, open) = SumOf(after, open)
    <3> HIDE DEF before, after
    <3> QED  BY <1>3, <2>1, <2>2, SumEqual
  <2>7. SumOf(each, open) = share * m
    BY <1>3, <1>4, <2>3, SumConstant DEF m
  <2> HIDE DEF before, after
  <2> QED  BY <2>4, <2>5, <2>6, <2>7
<1>11. /\ SumOf(new, D) = SumOf(new, open) + SumOf(new, D \ open)
       /\ SumOf(b, D) = SumOf(b, open) + SumOf(b, D \ open)
       /\ SumOf(new, D \ open) = SumOf(b, D \ open)
  <2> DEFINE shut == D \ open
  <2>1. \A c \in shut : new[c] = b[c]
    OBVIOUS
  <2>2. /\ IsFiniteSet(shut) /\ open \cap shut = {} /\ open \cup shut = D
        /\ Integral(new, shut) /\ Integral(b, shut)
    BY <1>1, <1>3, <1>6, FS_Difference DEF Integral
  <2> HIDE DEF new, open, shut
  <2>3. SumOf(new, shut) = SumOf(b, shut)
    BY <2>1, <2>2, SumEqual
  <2>4. /\ SumOf(new, open \cup shut) = SumOf(new, open) + SumOf(new, shut)
        /\ SumOf(b, open \cup shut) = SumOf(b, open) + SumOf(b, shut)
    BY <1>1, <1>3, <1>6, <2>2, SumApart
  <2> QED  BY <2>2, <2>3, <2>4 DEF shut
<1>12. left \in Nat /\ SumOf(new, D) + left = SumOf(b, D) + s.rest
  <2> DEFINE r == s.rest % m
             t == s.rest
             o == SumOf(over, open)
             x == share * m
             p == SumOf(new, D)
             q == SumOf(b, D)
             u == SumOf(new, open)
             v == SumOf(b, open)
             w == SumOf(b, D \ open)
  <2>1. r \in Int /\ r >= 0 /\ t = x + r /\ o \in Nat /\ left = r + o /\ x \in Int
    BY <1>3, <1>4, <1>9
  <2>2. Integral(b, open) /\ Integral(new, open) /\ Integral(b, D \ open) /\ IsFiniteSet(D \ open)
    BY <1>1, <1>3, <1>6, FS_Difference DEF Integral
  <2>3. u \in Int /\ v \in Int /\ w \in Int
    BY <1>3, <2>2, SumType
  <2>4. p = u + w /\ q = v + w /\ u + o = v + x
    BY <1>10, <1>11
  <2> HIDE DEF r, o, x, p, q, u, v, w, t, left
  <2>5. left \in Nat /\ p + left = q + t
    BY <2>1, <2>3, <2>4
  <2> QED  BY <2>5 DEF p, q, t
<1>13. ASSUME still = open  PROVE left < m
  <2>1. \A c \in open : over[c] = 0
    BY <1>1, <1>5, <1>7, <1>13
  <2>2. SumOf(over, open) = 0
    <3> HIDE DEF over, open
    <3>1. SumOf(over, open) = 0 * Cardinality(open)
      BY <1>3, <2>1, SumConstant
    <3> QED  BY <1>3, <3>1, FS_CardinalityType
  <2> DEFINE r == s.rest % m
  <2>3. left = r + 0 /\ r \in 0 .. m - 1
    BY <1>4, <2>2
  <2> HIDE DEF r, left
  <2> QED  BY <1>3, <2>3
<1>14. ASSUME s.rest < m  PROVE still = open
  BY <1>1, <1>4, <1>5, <1>7, <1>14
<1> HIDE DEF new, left, open, still
<1>15. /\ IsTokens(Round(s).bMap, D) /\ Round(s).rest \in Nat
       /\ SumOf(Round(s).bMap, D) + Round(s).rest = SumOf(s.bMap, D) + s.rest
  BY <1>2, <1>6, <1>12
<1>16. getAllNonFullBuckets(Round(s).bMap) = still
  BY <1>2 DEF still
<1>17. still = open => Divided(Round(s))
  BY <1>2, <1>13, <1>16 DEF Divided, m
<1>18. Divided(s) => Divided(Round(s))
  BY <1>14, <1>17 DEF Divided, m, open
<1> QED  BY <1>8, <1>15, <1>16, <1>17, <1>18 DEF open

\* What the loop keeps up to round k: with every round a bucket is full, or what is
\* left cannot be divided.
Handed(s, b, D, k) ==
    /\ IsTokens(s.bMap, D) /\ s.rest \in Nat
    /\ SumOf(s.bMap, D) + s.rest = SumOf(b, D) + TOKEN_GEN_RATE
    /\ Divided(s) \/ Cardinality(getAllNonFullBuckets(s.bMap)) <= Cardinality(D) - k

LEMMA HandedOn ==
    ASSUME NEW D, IsFiniteSet(D), NEW b, NEW k \in Nat, NEW s, Handed(s, b, D, k - 1)
    PROVE  Handed(IF getAllNonFullBuckets(s.bMap) # {} /\ s.rest # 0 THEN Round(s) ELSE s, b, D, k)
<1> DEFINE open == getAllNonFullBuckets(s.bMap)
           still == getAllNonFullBuckets(Round(s).bMap)
<1>1. IsTokens(s.bMap, D) /\ s.rest \in Nat
  BY DEF Handed
<1>2. open \subseteq D /\ IsFiniteSet(open) /\ Cardinality(open) \in Nat /\ Cardinality(D) \in Nat
  <2>1. open \subseteq D
    BY <1>1, TokensAreNumbers
  <2> HIDE DEF open
  <2> QED  BY <2>1, FS_Subset, FS_CardinalityType
<1>3. CASE open # {} /\ s.rest # 0
  <2>1. /\ IsTokens(Round(s).bMap, D) /\ Round(s).rest \in Nat
        /\ SumOf(Round(s).bMap, D) + Round(s).rest = SumOf(s.bMap, D) + s.rest
        /\ still \subseteq open /\ (still = open => Divided(Round(s)))
        /\ (Divided(s) => Divided(Round(s)))
    BY <1>1, <1>3, RoundIs
  <2>2. ASSUME ~Divided(Round(s))
        PROVE  Cardinality(still) <= Cardinality(D) - k
    <3>1. still \subseteq open /\ still # open /\ ~Divided(s)
      BY <2>1, <2>2
    <3> HIDE DEF still, open
    <3>2. Cardinality(still) \in Nat /\ Cardinality(still) < Cardinality(open)
      BY <1>2, <3>1, FS_Subset, FS_CardinalityType
    <3>3. Cardinality(open) <= Cardinality(D) - (k - 1)
      BY <3>1 DEF Handed, open
    <3> DEFINE x == Cardinality(still)
               y == Cardinality(open)
               z == Cardinality(D)
    <3>4. x \in Nat /\ y \in Nat /\ z \in Nat /\ x < y /\ y <= z - (k - 1)
      BY <1>2, <3>2, <3>3
    <3> HIDE DEF x, y, z
    <3>5. x <= z - k
      BY <3>4
    <3> QED  BY <3>5 DEF x, z
  <2>3. Handed(Round(s), b, D, k)
    BY <2>1, <2>2 DEF Handed
  <2> QED  BY <1>3, <2>3
<1>4. CASE ~(open # {} /\ s.rest # 0)
  <2>1. Divided(s)
    <3>1. open # {} => Cardinality(open) # 0
      <4> HIDE DEF open
      <4> QED  BY <1>2, FS_EmptySet
    <3> HIDE DEF open
    <3>2. open = {} \/ (s.rest = 0 /\ Cardinality(open) > 0)
      BY <1>2, <1>4, <3>1
    <3> QED  BY <3>2 DEF Divided, open
  <2>2. Handed(s, b, D, k)
    BY <2>1 DEF Handed
  <2> QED  BY <1>4, <2>2
<1> QED  BY <1>3, <1>4

\* All tokens of the face are handed out, but what cannot be divided.
SharedOut(b, new) ==
    LET given == SumFunction(new) - SumFunction(b)
        open == getAllNonFullBuckets(new)
    IN /\ given <= TOKEN_GEN_RATE
       /\ open = {} \/ given > TOKEN_GEN_RATE - Cardinality(open)

LEMMA NewTokenIs ==
    ASSUME NEW D, IsFiniteSet(D), NEW b, IsTokens(b, D)
    PROVE  IsTokens(newToken(b), D) /\ SharedOut(b, newToken(b))
<1> DEFINE N == Cardinality(DOMAIN b)
           start == [bMap |-> b, rest |-> TOKEN_GEN_RATE]
           rounds(g) == [k \in 0 .. N |->
                            IF k = 0 THEN start
                            ELSE IF getAllNonFullBuckets(g[k - 1].bMap) # {} /\ g[k - 1].rest # 0
                                 THEN Round(g[k - 1]) ELSE g[k - 1]]
           round == CHOOSE g : g = rounds(g)
           Kept == {k \in 0 .. N : Handed(round[k], b, D, k)}
<1>1. newToken(b) = round[N].bMap
  BY DEF newToken
<1>2. /\ N \in Nat /\ N \in Int /\ 0 \in Int /\ 0 <= N /\ N = Cardinality(D)
      /\ DOMAIN b = D /\ Integral(b, D)
  BY TokensAreNumbers, FS_CardinalityType
<1>3. Handed(start, b, D, 0)
  <2>1. TOKEN_GEN_RATE \in Nat
    BY TokenAssumption
  <2>2. getAllNonFullBuckets(b) \subseteq D
    BY TokensAreNumbers
  <2>3. Cardinality(getAllNonFullBuckets(b)) <= Cardinality(D) - 0
    BY <1>2, <2>2, FS_Subset, FS_CardinalityType
  <2> QED  BY <2>1, <2>3 DEF Handed
<1> HIDE DEF N, start
<1>4. \A g : Iteration("token", b, 0, N, start, g) = rounds(g)
  BY DEF Iteration, Turn
<1>5. round = rounds(round)
  <2>1. Defined("token", b, 0, N, start)
    BY <1>2, IterationExists
  <2> HIDE DEF rounds
  <2> QED  BY <1>4, <2>1 DEF Defined
<1> HIDE DEF round
<1>6. 0 \in Kept
  BY <1>2, <1>3, <1>5
<1>7. ASSUME NEW k \in 0 .. N, k - 1 \in Kept  PROVE k \in Kept
  <2>1. k # 0 /\ k \in Nat /\ Handed(round[k - 1], b, D, k - 1)
    BY <1>2, <1>7
  <2>2. round[k] = IF getAllNonFullBuckets(round[k - 1].bMap) # {} /\ round[k - 1].rest # 0
                   THEN Round(round[k - 1]) ELSE round[k - 1]
    BY <1>5, <2>1
  <2> QED  BY <2>1, <2>2, HandedOn
<1>8. N \in Kept
  <2>1. Kept \in SUBSET (0 .. N)
    OBVIOUS
  <2> HIDE DEF Kept
  <2> QED  BY <1>2, <1>6, <1>7, <2>1, KeptToTheEnd
<1> DEFINE end == round[N]
           open == getAllNonFullBuckets(end.bMap)
<1>9. Handed(end, b, D, N)
  BY <1>8
<1> HIDE DEF end
<1>10. /\ IsTokens(end.bMap, D) /\ end.rest \in Nat
       /\ SumOf(end.bMap, D) + end.rest = SumOf(b, D) + TOKEN_GEN_RATE
       /\ DOMAIN end.bMap = D /\ Integral(end.bMap, D) /\ open \subseteq D
  BY <1>9, TokensAreNumbers DEF Handed
<1>11. IsFiniteSet(open) /\ Cardinality(open) \in Nat
  <2> HIDE DEF open
  <2> QED  BY <1>10, FS_Subset, FS_CardinalityType
<1>12. open = {} \/ end.rest < Cardinality(open)
  <2>1. Divided(end) \/ Cardinality(open) <= N - N
    BY <1>2, <1>9 DEF Handed
  <2>2. Cardinality(open) <= N - N => open = {}
    <3> HIDE DEF open
    <3> QED  BY <1>2, <1>11, FS_EmptySet
  <2> QED  BY <2>1, <2>2 DEF Divided
<1>13. SumFunction(end.bMap) = SumOf(end.bMap, D) /\ SumFunction(b) = SumOf(b, D)
  BY <1>2, <1>10, SumsOfFunctions
<1>14. SharedOut(b, end.bMap)
  <2> DEFINE p == SumFunction(end.bMap)
             q == SumFunction(b)
             n == Cardinality(open)
  <2>1. p \in Int /\ q \in Int /\ n \in Int /\ TOKEN_GEN_RATE \in Int
        /\ p + end.rest = q + TOKEN_GEN_RATE /\ end.rest \in Nat /\ (open = {} \/ end.rest < n)
    BY <1>2, <1>10, <1>11, <1>12, <1>13, SumType, TokenAssumption
  <2> HIDE DEF p, q, n, open
  <2>2. p - q <= TOKEN_GEN_RATE /\ (open = {} \/ p - q > TOKEN_GEN_RATE - n)
    BY <2>1
  <2> QED  BY <2>2 DEF SharedOut, p, q, n, open
<1> QED  BY <1>1, <1>10, <1>14 DEF end

-----------------------------------------------------------------------------
(* The engine in use.                                                       *)

\* An engine that is in use, for the faces S.
IsEngine(e, S) ==
    /\ DOMAIN e = {"refs", "event", "faceIds", "entries", "buckets"}
    /\ e.refs = 2 /\ e.event = TRUE /\ e.faceIds = DropAnd(S)
    /\ \A c \in DOMAIN e.entries : IsEntry(e.entries[c], DropAnd(S))
    /\ DOMAIN e.buckets = S \ AppFaces /\ IsFiniteSet(DOMAIN e.entries)
    /\ \A f \in S \ AppFaces : IsTokens(e.buckets[f], DOMAIN e.entries)

LEMMA NewEngineIs == ASSUME NEW S  PROVE IsEngine(NewEngine(S), S)
<1>1. DOMAIN <<>> = {} /\ IsFiniteSet({})
  BY FS_EmptySet
<1>2. IsTokens(<<>>, {})
  BY <1>1 DEF IsTokens
<1> QED  BY <1>1, <1>2 DEF NewEngine, IsEngine

\* Results only count.
LEMMA LoggedIs ==
    ASSUME NEW e, NEW S, IsEngine(e, S), NEW n, NEW f
    PROVE  /\ IsEngine(logUnstatisfied(e, n, f), S)
           /\ IsEngine(logStatisfied(e, n, f), S)
           /\ ContentOf[n] \in DOMAIN e.entries => IsEngine(logDropping(e, n), S)
           /\ DOMAIN logUnstatisfied(e, n, f).entries = DOMAIN e.entries
           /\ DOMAIN logStatisfied(e, n, f).entries = DOMAIN e.entries
           /\ DOMAIN logDropping(e, n).entries = DOMAIN e.entries
<1>1. \A x : IsEntry(x, DropAnd(S)) =>
          /\ IsEntry(EntryUnsatisfied(x, f, TagOf[n]), DropAnd(S))
          /\ IsEntry(EntrySatisfied(x, f, TagOf[n]), DropAnd(S))
          /\ IsEntry(EntryDropped(x, TagOf[n]), DropAnd(S))
  BY LoggedShape DEF IsEntry, EntryUnsatisfied, EntrySatisfied, EntryDropped
<1>2. ASSUME NEW y, IsEntry(y, DropAnd(S)), NEW c \in DOMAIN e.entries
      PROVE  /\ IsEngine([e EXCEPT !.entries[c] = y], S)
             /\ DOMAIN [e EXCEPT !.entries[c] = y].entries = DOMAIN e.entries
  BY <1>2 DEF IsEngine
<1>3. DOMAIN logDropping(e, n).entries = DOMAIN e.entries
  BY DEF logDropping, IsEngine
<1>4. CASE ContentOf[n] \in DOMAIN e.entries
  <2> DEFINE c == ContentOf[n]
             unsatisfied == EntryUnsatisfied(e.entries[c], f, TagOf[n])
             satisfied == EntrySatisfied(e.entries[c], f, TagOf[n])
             dropped == EntryDropped(e.entries[c], TagOf[n])
  <2>1. /\ logUnstatisfied(e, n, f) = [e EXCEPT !.entries[c] = unsatisfied]
        /\ logStatisfied(e, n, f) = [e EXCEPT !.entries[c] = satisfied]
        /\ logDropping(e, n) = [e EXCEPT !.entries[c] = dropped]
    BY <1>4 DEF logUnstatisfied, logStatisfied, logDropping, IsEngine
  <2>2. IsEntry(e.entries[c], DropAnd(S))
    BY <1>4 DEF IsEngine
  <2>3. /\ IsEntry(unsatisfied, DropAnd(S)) /\ IsEntry(satisfied, DropAnd(S))
        /\ IsEntry(dropped, DropAnd(S)) /\ c \in DOMAIN e.entries
    BY <1>1, <1>4, <2>2
  <2> HIDE DEF unsatisfied, satisfied, dropped, c
  <2>4. IsEngine(logUnstatisfied(e, n, f), S)
        /\ DOMAIN logUnstatisfied(e, n, f).entries = DOMAIN e.entries
    BY <1>2, <2>1, <2>3
  <2>5. IsEngine(logStatisfied(e, n, f), S)
        /\ DOMAIN logStatisfied(e, n, f).entries = DOMAIN e.entries
    BY <1>2, <2>1, <2>3
  <2>6. IsEngine(logDropping(e, n), S)
    BY <1>2, <2>1, <2>3
  <2> QED  BY <1>3, <2>4, <2>5, <2>6
<1>5. CASE ContentOf[n] \notin DOMAIN e.entries
  BY <1>3, <1>5 DEF logUnstatisfied, logStatisfied
<1> QED  BY <1>4, <1>5

LEMMA LoggedBuckets ==
    ASSUME NEW e, NEW S, IsEngine(e, S), NEW n, NEW f
    PROVE  /\ logUnstatisfied(e, n, f).buckets = e.buckets
           /\ logStatisfied(e, n, f).buckets = e.buckets
           /\ logDropping(e, n).buckets = e.buckets
BY DEF logUnstatisfied, logStatisfied, logDropping, IsEngine

\* The first interest for a content makes an entry and buckets of the right shape.
LEMMA KnownIs ==
    ASSUME NEW e, IsEngine(e, faces), faces \subseteq Faces, faces # {}, NEW c
    PROVE  /\ IsEngine(KnowContent(e, c), faces)
           /\ DOMAIN KnowContent(e, c).entries = DOMAIN e.entries \cup {c}
<1>1. CASE c \in DOMAIN e.entries
  BY <1>1 DEF KnowContent
<1>2. CASE c \notin DOMAIN e.entries
  <2> DEFINE entry == NewEntry(e.faceIds, Routes \cap faces)
             entries == With(e.entries, c, entry)
             buckets == [f \in DOMAIN e.buckets |-> With(e.buckets[f], c, NewBucket)]
  <2>1. IsEntry(entry, DropAnd(faces))
    <3>1. IsFiniteSet(faces) /\ DROP_FACE_ID \notin faces /\ Routes \cap faces \subseteq faces
      BY FacesAreNumbers, FS_Subset
    <3> QED  BY <3>1, NewEntryShape DEF IsEngine
  <2>2. KnowContent(e, c) = [e EXCEPT !.entries = entries, !.buckets = buckets]
    BY <1>2 DEF KnowContent, IsEngine
  <2> HIDE DEF entry
  <2>3. /\ DOMAIN entries = DOMAIN e.entries \cup {c}
        /\ \A d \in DOMAIN entries : IsEntry(entries[d], DropAnd(faces))
    BY <2>1 DEF With, IsEngine
  <2>4. DOMAIN buckets = faces \ AppFaces
    BY DEF IsEngine
  <2>5. \A f \in faces \ AppFaces : IsTokens(buckets[f], DOMAIN entries)
    <3> SUFFICES ASSUME NEW f \in faces \ AppFaces  PROVE IsTokens(buckets[f], DOMAIN entries)
      OBVIOUS
    <3>1. f \in DOMAIN e.buckets /\ IsTokens(e.buckets[f], DOMAIN e.entries)
      BY DEF IsEngine
    <3>2. NewBucket \in 0 .. BUCKET_SIZE
      BY TokenAssumption DEF NewBucket
    <3>3. buckets[f] = With(e.buckets[f], c, NewBucket)
      BY <3>1
    <3> HIDE DEF entries, buckets
    <3> QED  BY <2>3, <3>1, <3>2, <3>3 DEF With, IsTokens
  <2>6. IsFiniteSet(DOMAIN entries)
    <3>1. IsFiniteSet(DOMAIN e.entries \cup {c})
      BY FS_AddElement DEF IsEngine
    <3> HIDE DEF entries
    <3> QED  BY <2>3, <3>1
  <2> HIDE DEF entries, buckets
  <2> QED  BY <2>2, <2>3, <2>4, <2>5, <2>6 DEF IsEngine
<1> QED  BY <1>1, <1>2

\* A token is taken only where there is one.
LEMMA TakenIs ==
    ASSUME NEW e, NEW S, IsEngine(e, S), NEW f \in S, NEW c \in DOMAIN e.entries, MayPass(e, f, c)
    PROVE  /\ IsEngine(TokenTaken(e, f, c), S)
           /\ DOMAIN TokenTaken(e, f, c).entries = DOMAIN e.entries
<1> DEFINE D == DOMAIN e.entries
           b == [e.buckets EXCEPT ![f][c] = @ - TOKEN]
<1>1. DOMAIN e.buckets = S \ AppFaces /\ \A g \in S \ AppFaces : IsTokens(e.buckets[g], D)
  BY DEF IsEngine
<1>2. CASE Limited(f)
  <2>1. /\ TokenTaken(e, f, c) = [e EXCEPT !.buckets = b]
        /\ f \in S \ AppFaces /\ e.buckets[f][c] >= TOKEN
    BY <1>2 DEF TokenTaken, IsEngine, MayPass, CanConsumeToken, Limited
  <2>2. e.buckets[f][c] - TOKEN \in 0 .. BUCKET_SIZE
    BY <1>1, <2>1, TokenAssumption DEF IsTokens
  <2>3. DOMAIN b = S \ AppFaces /\ \A g \in S \ AppFaces : IsTokens(b[g], D)
    BY <1>1, <2>1, <2>2 DEF IsTokens
  <2> HIDE DEF b
  <2> QED  BY <2>1, <2>3 DEF IsEngine
<1>3. CASE ~Limited(f)
  BY <1>3 DEF TokenTaken
<1> QED  BY <1>2, <1>3

\* All tables learn at once.
LEMMA LearntIs ==
    ASSUME NEW e, NEW S, IsEngine(e, S), IsFiniteSet(S)
    PROVE  LET l == [e EXCEPT !.entries = [c \in DOMAIN @ |-> UpdateEntry(@[c])]]
           IN IsEngine(l, S) /\ DOMAIN l.entries = DOMAIN e.entries
<1> DEFINE entries == [c \in DOMAIN e.entries |-> UpdateEntry(e.entries[c])]
<1>1. IsFiniteSet(DropAnd(S))
  BY FS_AddElement DEF DropAnd
<1>2. \A c \in DOMAIN e.entries : IsEntry(entries[c], DropAnd(S))
  BY <1>1, UpdateEntryShape DEF IsEngine
<1>3. [e EXCEPT !.entries = [c \in DOMAIN @ |-> UpdateEntry(@[c])]] = [e EXCEPT !.entries = entries]
  BY DEF IsEngine
<1>4. DOMAIN entries = DOMAIN e.entries
  OBVIOUS
<1> HIDE DEF entries
<1> QED  BY <1>2, <1>3, <1>4 DEF IsEngine

LEMMA FilledIs ==
    ASSUME NEW e, NEW S, IsEngine(e, S), NEW f \in DOMAIN e.buckets
    PROVE  LET l == [e EXCEPT !.buckets[f] = newToken(@)]
           IN IsEngine(l, S) /\ DOMAIN l.entries = DOMAIN e.entries
<1> DEFINE D == DOMAIN e.entries
           b == [e.buckets EXCEPT ![f] = newToken(e.buckets[f])]
<1>1. IsTokens(newToken(e.buckets[f]), D)
  BY NewTokenIs DEF IsEngine
<1>2. DOMAIN b = S \ AppFaces /\ \A g \in S \ AppFaces : IsTokens(b[g], D)
  BY <1>1 DEF IsEngine
<1>3. [e EXCEPT !.buckets[f] = newToken(@)] = [e EXCEPT !.buckets = b]
  BY DEF IsEngine
<1> HIDE DEF b
<1> QED  BY <1>2, <1>3 DEF IsEngine

\* One step of the library's fold over the faces that failed.
FailStep(e, n, S, g) ==
    [T \in SUBSET S |-> IF T = {} THEN e ELSE logUnstatisfied(g[T \ {Min(T)}], n, Min(T))]

FailFolds(e, n, S) == \E g : g = FailStep(e, n, S, g)

LEMMA FailFoldExists ==
    ASSUME NEW e, NEW n, NEW S, IsFiniteSet(S), S \subseteq Nat
    PROVE  FailFolds(e, n, S)
<1> DEFINE Good(g, k) == \A T \in UpTo(k, S) : g[T] = FailStep(e, n, S, g)[T]
           K == {k \in Nat : \E g : Good(g, k)}
<1>0. \A T \in SUBSET S : T # {} => Min(T) \in T
  <2>1. \A T \in SUBSET S : T \in SUBSET Nat
    OBVIOUS
  <2> QED  BY <2>1, NaturalMin
<1>1. \A g : \A T \in SUBSET S :
        FailStep(e, n, S, g)[T] =
            IF T = {} THEN e ELSE logUnstatisfied(g[T \ {Min(T)}], n, Min(T))
  BY DEF FailStep
<1>2. 0 \in K
  <2>1. Good([T \in SUBSET S |-> e], 0)
    BY <1>1, OnlyEmpty DEF UpTo
  <2> QED  BY <2>1
<1>3. ASSUME NEW k \in K  PROVE k + 1 \in K
  <2>1. PICK g : Good(g, k)
    OBVIOUS
  <2> DEFINE h == FailStep(e, n, S, g)
  <2>2. ASSUME NEW T \in UpTo(k + 1, S)  PROVE h[T] = FailStep(e, n, S, h)[T]
    <3>0. T \in SUBSET S
      BY DEF UpTo
    <3>1. CASE T = {}
      BY <1>1, <3>0, <3>1
    <3>2. CASE T # {}
      <4> DEFINE R == T \ {Min(T)}
      <4>1. R \in UpTo(k, S)
        BY <1>0, <3>0, <3>2, SmallerWithout
      <4>2. g[R] = h[R]
        BY <2>1, <4>1
      <4>3. h[T] = logUnstatisfied(g[R], n, Min(T))
        BY <1>1, <3>0, <3>2
      <4> HIDE DEF h
      <4>4. FailStep(e, n, S, h)[T] = logUnstatisfied(h[R], n, Min(T))
        BY <1>1, <3>0, <3>2
      <4> QED  BY <4>2, <4>3, <4>4
    <3> QED  BY <3>1, <3>2
  <2>3. Good(h, k + 1)
    BY <2>2
  <2> HIDE DEF h
  <2> QED  BY <2>3
<1>4. K = Nat
  <2> HIDE DEF K
  <2>1. K \subseteq Nat
    BY DEF K
  <2> QED  BY <1>2, <1>3, <2>1, SetOfNaturals
<1>5. Cardinality(S) \in K
  BY <1>4, FS_CardinalityType
<1>6. PICK g : Good(g, Cardinality(S))
  BY <1>5
<1>7. UpTo(Cardinality(S), S) = SUBSET S
  BY FS_Subset DEF UpTo
<1> DEFINE h == FailStep(e, n, S, g)
<1>8. \A T \in SUBSET S : g[T] = h[T]
  BY <1>6, <1>7
<1>9. \A T \in SUBSET S : g[T \ {Min(T)}] = h[T \ {Min(T)}]
  BY <1>8
<1> HIDE DEF h
<1>10. FailStep(e, n, S, g) = FailStep(e, n, S, h)
  BY <1>9 DEF FailStep
<1>11. h = FailStep(e, n, S, h)
  BY <1>10 DEF h
<1> QED  BY <1>11 DEF FailFolds

\* Failures on several faces only count, too.
OnlyCounted(e, old, F) ==
    /\ IsEngine(e, F) /\ DOMAIN e.entries = DOMAIN old.entries /\ e.buckets = old.buckets

LEMMA FailedIs ==
    ASSUME NEW F, IsEngine(engine, F), NEW n, NEW S, IsFiniteSet(S), S \subseteq Nat
    PROVE  OnlyCounted(FailedOn(S, n), engine, F)
<1> DEFINE g == CHOOSE g : g = FailStep(engine, n, S, g)
           K == {T \in SUBSET S : /\ IsEngine(g[T], F)
                                  /\ DOMAIN g[T].entries = DOMAIN engine.entries
                                  /\ g[T].buckets = engine.buckets}
<1>1. FailedOn(S, n) = g[S]
  BY DEF FailedOn, MapThenFoldSet, FailStep
<1>2. g = FailStep(engine, n, S, g)
  BY FailFoldExists DEF FailFolds
<1> HIDE DEF g
<1>3. /\ g[{}] = engine
      /\ \A T \in SUBSET S : T # {} => g[T] = logUnstatisfied(g[T \ {Min(T)}], n, Min(T))
  BY <1>2 DEF FailStep
<1>4. {} \in K
  BY <1>3
<1>5. ASSUME NEW T \in SUBSET S, T # {}, \A x \in T : T \ {x} \in K  PROVE T \in K
  <2>1. T \in SUBSET Nat
    OBVIOUS
  <2>2. Min(T) \in T
    BY <1>5, <2>1, NaturalMin
  <2>3. /\ IsEngine(g[T \ {Min(T)}], F)
        /\ DOMAIN g[T \ {Min(T)}].entries = DOMAIN engine.entries
        /\ g[T \ {Min(T)}].buckets = engine.buckets
    BY <1>5, <2>2
  <2>4. /\ IsEngine(g[T], F)
        /\ DOMAIN g[T].entries = DOMAIN g[T \ {Min(T)}].entries
        /\ g[T].buckets = g[T \ {Min(T)}].buckets
    BY <1>3, <1>5, <2>3, LoggedIs, LoggedBuckets
  <2> QED  BY <2>3, <2>4
<1>6. K = SUBSET S
  <2> HIDE DEF K
  <2>1. K \in SUBSET SUBSET S
    BY DEF K
  <2> QED  BY <1>4, <1>5, <2>1, EachSubset
<1>7. S \in K
  BY <1>6
<1> QED  BY <1>1, <1>7 DEF OnlyCounted
-----------------------------------------------------------------------------
(* The engine in use is complete.                                           *)

AnEngine == engines # <<>> /\ \E X : engines \in Seq(X)

\* The faces an entry was tried on are the node's; those it was sent to are there.
OutInv ==
    \A n \in DOMAIN pit :
        n \in Names /\ pit[n].out \subseteq Faces /\ pit[n].sent \subseteq faces

\* The engine in use has the strategy's faces; a propagation has made its entry.
InUse == faces \subseteq Faces /\ IsEngine(engine, faces)

KnownInv == trying # None => ContentOf[trying.name] \in DOMAIN engine.entries

EngineInv == AnEngine /\ OutInv /\ InUse /\ KnownInv

LEMMA InitEngine == Init => EngineInv
<1> SUFFICES ASSUME Init  PROVE EngineInv
  OBVIOUS
<1> DEFINE e == NewEngine(InitialFaces)
<1>1. IsEngine(e, InitialFaces)
  BY NewEngineIs
<1>2. faces = InitialFaces /\ engines = <<e>> /\ pit = <<>> /\ trying = None
  BY DEF Init
<1> HIDE DEF e
<1>3. <<e>> # <<>> /\ <<e>> \in Seq({e}) /\ Len(<<e>>) = 1 /\ <<e>>[1] = e
  OBVIOUS
<1>4. AnEngine /\ engine = e
  BY <1>2, <1>3 DEF AnEngine, engine, current
<1>5. InUse
  BY <1>1, <1>2, <1>4, FacesAreNumbers DEF InUse
<1> QED  BY <1>2, <1>4, <1>5 DEF EngineInv, OutInv, KnownInv

\* Another state of the engine in use.
LEMMA UsedIs ==
    ASSUME AnEngine, NEW e, Use(e)
    PROVE  AnEngine' /\ engine' = e
<1>1. PICK X : engines \in Seq(X)
  BY DEF AnEngine
<1>2. engines' = [engines EXCEPT ![Len(engines)] = e]
  BY DEF Use, current
<1>3. Len(engines) \in Nat \ {0} /\ DOMAIN engines = 1 .. Len(engines)
  BY <1>1 DEF AnEngine
<1>4. engines \in Seq(X \cup {e})
  BY <1>1
<1>5. engines' \in Seq(X \cup {e}) /\ Len(engines') = Len(engines)
  BY <1>2, <1>3, <1>4
<1>6. engines'[Len(engines)] = e
  BY <1>2, <1>3
<1> QED  BY <1>3, <1>5, <1>6 DEF AnEngine, engine, current

\* A handler that keeps the faces and leaves the engine as it should be.
LEMMA EngineGoesOn ==
    ASSUME EngineInv, NEW e, IsEngine(e, faces), Use(e), faces' = faces, OutInv',
           trying' # None => ContentOf[trying'.name] \in DOMAIN e.entries
    PROVE  EngineInv'
<1>1. AnEngine' /\ engine' = e
  BY UsedIs DEF EngineInv
<1> QED  BY <1>1 DEF EngineInv, InUse, KnownInv

LEMMA EngineReplaced ==
    ASSUME EngineInv, NEW S \in SUBSET Faces, Replace(S), OutInv'
    PROVE  EngineInv'
<1> DEFINE r == Released(engine, engine.refs - 1)
           old == [engines EXCEPT ![current] = r]
           e == NewEngine(S)
<1>1. PICK X : engines \in Seq(X)
  BY DEF EngineInv, AnEngine
<1>2. faces' = S /\ engines' = Append(old, e) /\ trying' = None
  BY <1>1 DEF Replace, engine, current, EngineInv, AnEngine
<1> HIDE DEF r
<1>3. old \in Seq(X \cup {r})
  <2>1. engines \in Seq(X \cup {r}) /\ r \in X \cup {r}
    BY <1>1
  <2>2. Len(engines) \in Nat \ {0} /\ DOMAIN engines = 1 .. Len(engines)
    BY <1>1 DEF EngineInv, AnEngine
  <2> QED  BY <2>1, <2>2 DEF current
<1> HIDE DEF old
<1>4. PICK Y : old \in Seq(Y)
  BY <1>3
<1>5. IsEngine(e, S)
  BY NewEngineIs
<1> HIDE DEF e
<1>6. /\ Append(old, e) \in Seq(Y \cup {e}) /\ Append(old, e) # <<>>
      /\ Append(old, e)[Len(Append(old, e))] = e
  BY <1>4
<1>7. AnEngine' /\ engine' = e
  BY <1>2, <1>6 DEF AnEngine, engine, current
<1> QED  BY <1>2, <1>5, <1>7 DEF EngineInv, InUse, KnownInv

LEMMA FacesEngine ==
    ASSUME EngineInv, NEW f \in Faces, AddFace(f) \/ RemoveFace(f)
    PROVE  EngineInv'
<1>1. faces \subseteq Faces
  BY DEF EngineInv, InUse
<1>2. CASE AddFace(f)
  <2>1. Replace(faces \cup {f}) /\ pit' = pit
    BY <1>2 DEF AddFace
  <2>2. OutInv'
    BY <2>1 DEF EngineInv, OutInv, Replace
  <2> QED  BY <1>1, <2>1, <2>2, EngineReplaced
<1>3. CASE RemoveFace(f)
  <2>1. /\ Replace(faces \ {f})
        /\ pit' = [n \in DOMAIN pit |->
                  [in |-> pit[n].in \ {f}, out |-> pit[n].out \ {f},
                   vain |-> pit[n].vain \ {f}, sent |-> pit[n].sent \ {f}]]
    BY <1>3 DEF RemoveFace
  <2>2. OutInv'
    BY <2>1 DEF EngineInv, OutInv, Replace
  <2> QED  BY <1>1, <2>1, <2>2, EngineReplaced
<1> QED  BY <1>2, <1>3

LEMMA PropagateEngine ==
    ASSUME EngineInv, NEW n \in Names, NEW f, NEW p, NEW again,
           Propagate(n, f, p, again), p.out \subseteq Faces, p.sent \subseteq faces, faces # {}
    PROVE  EngineInv'
<1>1. /\ pit' = With(pit, n, p) /\ faces' = faces
      /\ trying' = [name |-> n, inFace |-> f, tried |-> p.out \ p.in, again |-> again]
      /\ Use(KnowContent(engine, ContentOf[n]))
  BY DEF Propagate
<1>2. trying'.name = n
  BY <1>1
<1>3. OutInv'
  BY <1>1 DEF EngineInv, OutInv, With
<1>4. /\ IsEngine(KnowContent(engine, ContentOf[n]), faces)
      /\ ContentOf[n] \in DOMAIN KnowContent(engine, ContentOf[n]).entries
  BY KnownIs DEF EngineInv, InUse
<1> QED  BY <1>1, <1>2, <1>3, <1>4, EngineGoesOn

LEMMA OnInterestEngine ==
    ASSUME IInv, EngineInv, NEW n \in Names, NEW f \in Faces, OnInterest(n, f)
    PROVE  EngineInv'
<1>0. faces # {}
  BY DEF OnInterest
<1>1. CASE n \notin DOMAIN pit /\ Propagate(n, f, [in |-> {f}, out |-> {}, vain |-> {}, sent |-> {}], FALSE)
  <2> DEFINE p == [in |-> {f}, out |-> {}, vain |-> {}, sent |-> {}]
  <2>1. p.out \subseteq Faces /\ p.sent \subseteq faces
    OBVIOUS
  <2> HIDE DEF p
  <2> QED  BY <1>0, <1>1, <2>1, PropagateEngine DEF p
<1>2. CASE n \in DOMAIN pit /\ Propagate(n, f, [pit[n] EXCEPT !.in = @ \cup {f}], f \in pit[n].in)
  <2> DEFINE p == [pit[n] EXCEPT !.in = @ \cup {f}]
  <2>1. p.out \subseteq Faces /\ p.sent \subseteq faces
    BY <1>2 DEF IInv, PitInv, IsPitEntry, EngineInv, OutInv
  <2> HIDE DEF p
  <2> QED  BY <1>0, <1>2, <2>1, PropagateEngine DEF p
<1>3. CASE /\ n \in DOMAIN pit /\ pit' = [pit EXCEPT ![n].in = @ \cup {f}]
           /\ UNCHANGED <<faces, engines, trying>>
  <2>1. OutInv'
    BY <1>3 DEF IInv, PitInv, IsPitEntry, EngineInv, OutInv
  <2> QED  BY <1>3, <2>1 DEF EngineInv, AnEngine, InUse, KnownInv, engine, current
<1> QED  BY <1>1, <1>2, <1>3, Zenon DEF OnInterest

LEMMA WithoutOut ==
    ASSUME OutInv, NEW n, pit' = Without(pit, n), faces' = faces
    PROVE  OutInv'
BY DEF OutInv, Without, Restrict

\* The faces of an entry, or some of them, fail together.
LEMMA FailedTogether ==
    ASSUME EngineInv, NEW n, NEW S \in SUBSET Faces
    PROVE  /\ IsEngine(FailedOn(S, n), faces)
           /\ DOMAIN FailedOn(S, n).entries = DOMAIN engine.entries
           /\ FailedOn(S, n).buckets = engine.buckets
<1>1. IsFiniteSet(S) /\ S \subseteq Nat
  BY FacesAreNumbers, FS_Subset
<1>2. IsEngine(engine, faces)
  BY DEF EngineInv, InUse
<1>3. OnlyCounted(FailedOn(S, n), engine, faces)
  BY <1>1, <1>2, FailedIs
<1> QED  BY <1>3 DEF OnlyCounted

LEMMA ResultEngine ==
    ASSUME EngineInv, NEW n, NEW f,
           WillSatisfyPendingInterest(n, f) \/ WillEraseTimedOutPendingInterest(n)
    PROVE  EngineInv'
<1>1. pit' = Without(pit, n) /\ n \in DOMAIN pit /\ faces' = faces /\ trying' = None
  BY DEF WillSatisfyPendingInterest, WillEraseTimedOutPendingInterest, Idle
<1>2. OutInv'
  BY <1>1, WithoutOut DEF EngineInv
<1>3. CASE WillSatisfyPendingInterest(n, f)
  <2>1. Use(logStatisfied(engine, n, f))
    BY <1>3 DEF WillSatisfyPendingInterest
  <2>2. IsEngine(logStatisfied(engine, n, f), faces)
    BY LoggedIs DEF EngineInv, InUse
  <2> QED  BY <1>1, <1>2, <2>1, <2>2, EngineGoesOn
<1>4. CASE WillEraseTimedOutPendingInterest(n)
  <2>1. Use(FailedOn(pit[n].out, n))
    BY <1>4 DEF WillEraseTimedOutPendingInterest
  <2>2. pit[n].out \in SUBSET Faces
    BY <1>1 DEF EngineInv, OutInv
  <2>3. IsEngine(FailedOn(pit[n].out, n), faces)
    BY <2>2, FailedTogether
  <2> QED  BY <1>1, <1>2, <2>1, <2>3, EngineGoesOn
<1> QED  BY <1>3, <1>4

LEMMA NackEngine ==
    ASSUME IInv, EngineInv, NEW n, NEW f \in Faces, DidReceiveValidNack(n, f)
    PROVE  EngineInv'
<1> DEFINE p == [pit[n] EXCEPT !.vain = @ \cup {f}, !.in = @ \ {f}]
           e == FailedOn({f}, n)
           t == [name |-> n, inFace |-> f, tried |-> p.out \ p.in, again |-> FALSE]
<1>1. /\ n \in DOMAIN pit /\ trying = None /\ faces' = faces /\ pit' = [pit EXCEPT ![n] = p]
      /\ \/ trying' = t /\ Use(KnowContent(e, ContentOf[n]))
         \/ trying' = trying /\ Use(e)
  BY Zenon DEF DidReceiveValidNack, Idle
<1>2. /\ p.out = pit[n].out /\ p.sent = pit[n].sent
      /\ f \in faces /\ faces \subseteq Faces
  BY <1>1 DEF IInv, PitInv, IsPitEntry, DidReceiveValidNack, EngineInv, OutInv, InUse
<1>3. t.name = n
  OBVIOUS
<1>4. IsEngine(e, faces)
  BY FailedTogether
<1> HIDE DEF p, e, t
<1>5. OutInv'
  BY <1>1, <1>2 DEF EngineInv, OutInv
<1>6. CASE trying' = t /\ Use(KnowContent(e, ContentOf[n]))
  <2>1. /\ IsEngine(KnowContent(e, ContentOf[n]), faces)
        /\ ContentOf[n] \in DOMAIN KnowContent(e, ContentOf[n]).entries
    BY <1>2, <1>4, KnownIs
  <2> QED  BY <1>1, <1>3, <1>5, <1>6, <2>1, EngineGoesOn
<1>7. CASE trying' = trying /\ Use(e)
  BY <1>1, <1>4, <1>5, <1>7, EngineGoesOn
<1> QED  BY <1>1, <1>6, <1>7

\* The table of an engine in use names its faces only.
LEMMA RouteIsAFace ==
    ASSUME EngineInv, NEW n \in Names, ContentOf[n] \in DOMAIN engine.entries,
           NEW f \in determineRoute(n), f # DROP_FACE_ID
    PROVE  f \in faces
<1> DEFINE l == determineContentLayer(TagOf[n])
           col == engine.entries[ContentOf[n]].table.prob[l]
           rest == Restrict(col, DOMAIN col \ (pit[n].in \cup trying.tried))
<1>1. l \in Layers
  BY FacesAreNumbers
<1>2. IsEntry(engine.entries[ContentOf[n]], DropAnd(faces))
  BY DEF EngineInv, InUse, IsEngine
<1> HIDE DEF l
<1>3. DOMAIN col = DropAnd(faces)
  BY <1>1, <1>2 DEF IsEntry, IsNormal, IsTable, IsColumns
<1>4. f \in chooseFaceAccordingProbability(NormalizeColumn(rest))
  BY Zenon DEF determineRoute, RouteOf, OutgoingFaces, RemoveFacesFromTable, l
<1>5. DOMAIN rest \subseteq DOMAIN col
  BY DEF Restrict
<1> HIDE DEF rest, col
<1>6. f \in DOMAIN rest
  BY <1>4 DEF NormalizeColumn, chooseFaceAccordingProbability
<1> QED  BY <1>3, <1>5, <1>6 DEF DropAnd

LEMMA SendOutEngine ==
    ASSUME IInv, EngineInv, trying # None,
           NEW f \in determineRoute(trying.name), f # DROP_FACE_ID, SendOut(f) \/ Blocked(f)
    PROVE  EngineInv'
<1> DEFINE n == trying.name
<1>1. /\ n \in DOMAIN pit /\ IsPitEntry(pit[n]) /\ IsTrying(trying) /\ faces' = faces
      /\ n \in Names /\ ContentOf[n] \in DOMAIN engine.entries /\ faces \subseteq Faces
  BY DEF IInv, PitInv, TryInv, EngineInv, KnownInv, OutInv, InUse, SendOut, Blocked
<1>2. f \in faces
  BY <1>1, RouteIsAFace
<1>3. CASE SendOut(f)
  <2>1. /\ pit' = [pit EXCEPT ![n].out = @ \cup {f}, ![n].sent = @ \cup {f}] /\ trying' = None
        /\ Use(TokenTaken(engine, f, ContentOf[n]))
    BY <1>3 DEF SendOut
  <2>2. IsEngine(TokenTaken(engine, f, ContentOf[n]), faces)
    <3>1. MayPass(engine, f, ContentOf[n])
      BY <1>3 DEF SendOut
    <3> HIDE DEF n
    <3> QED  BY <1>1, <1>2, <3>1, TakenIs DEF EngineInv, InUse
  <2> HIDE DEF n
  <2>3. OutInv'
    BY <1>1, <1>2, <2>1 DEF EngineInv, OutInv, IsPitEntry
  <2> QED  BY <1>1, <2>1, <2>2, <2>3, EngineGoesOn
<1>4. CASE Blocked(f)
  <2>1. /\ pit' = [pit EXCEPT ![n].out = @ \cup {f}, ![n].vain = @ \cup {f}]
        /\ trying' = [trying EXCEPT !.tried = @ \cup {f}] /\ engines' = engines
    BY <1>4 DEF Blocked
  <2>2. trying'.name = n
    BY <1>1, <2>1 DEF IsTrying
  <2> HIDE DEF n
  <2>3. OutInv'
    BY <1>1, <1>2, <2>1 DEF EngineInv, OutInv, IsPitEntry
  <2>4. KnownInv'
    BY <1>1, <2>1, <2>2 DEF KnownInv, engine, current
  <2> QED  BY <1>1, <2>1, <2>3, <2>4 DEF EngineInv, AnEngine, InUse, engine, current
<1> QED  BY <1>3, <1>4

LEMMA GiveUpEngine ==
    ASSUME IInv, EngineInv, trying # None, GiveUp
    PROVE  EngineInv'
<1> DEFINE n == trying.name
           others == faces \ {trying.inFace}
           p == [pit[n] EXCEPT !.out = @ \cup others, !.vain = @ \cup others]
           e == logDropping(engine, n)
<1>1. /\ n \in DOMAIN pit /\ IsPitEntry(pit[n]) /\ IsTrying(trying)
      /\ n \in Names /\ ContentOf[n] \in DOMAIN engine.entries /\ faces \subseteq Faces
  BY DEF IInv, PitInv, TryInv, EngineInv, KnownInv, OutInv, InUse
<1>2. p.out = pit[n].out \cup others /\ p.sent = pit[n].sent
  BY <1>1, InVain
<1>3. /\ Use(e) /\ faces' = faces
      /\ \/ /\ pit' = [pit EXCEPT ![n] = p]
            /\ trying' = [trying EXCEPT !.tried = p.out \ p.in, !.again = FALSE]
         \/ pit' = Without(pit, n) /\ trying' = None
  BY Zenon DEF GiveUp
<1>4. IsEngine(e, faces) /\ DOMAIN e.entries = DOMAIN engine.entries
  BY <1>1, LoggedIs DEF EngineInv, InUse
<1>5. others \subseteq Faces
  BY <1>1
<1> HIDE DEF p, others, e
<1>6. CASE /\ pit' = [pit EXCEPT ![n] = p]
           /\ trying' = [trying EXCEPT !.tried = p.out \ p.in, !.again = FALSE]
  <2>1. trying'.name = n
    BY <1>1, <1>6 DEF IsTrying
  <2> HIDE DEF n
  <2>2. OutInv'
    BY <1>1, <1>2, <1>3, <1>5, <1>6 DEF EngineInv, OutInv
  <2> QED  BY <1>1, <1>3, <1>4, <2>1, <2>2, EngineGoesOn
<1>7. CASE pit' = Without(pit, n) /\ trying' = None
  <2>1. OutInv'
    BY <1>3, <1>7, WithoutOut DEF EngineInv
  <2> QED  BY <1>3, <1>4, <1>7, <2>1, EngineGoesOn
<1> QED  BY <1>3, <1>6, <1>7

LEMMA TryEngine ==
    ASSUME IInv, EngineInv, Try
    PROVE  EngineInv'
<1>1. trying # None
  BY DEF Try
<1>2. PICK f \in determineRoute(trying.name) :
        IF f = DROP_FACE_ID THEN GiveUp ELSE SendOut(f) \/ Blocked(f)
  BY DEF Try
<1> QED  BY <1>1, <1>2, GiveUpEngine, SendOutEngine

LEMMA EventEngine ==
    ASSUME EngineInv, Update \/ (\E f \in Faces : NewTokens(f)) \/ \E i \in DOMAIN engines : FreeEngine(i)
    PROVE  EngineInv'
<1>1. trying = None /\ UNCHANGED <<faces, pit, trying>>
  BY DEF Update, NewTokens, FreeEngine
<1>2. OutInv'
  BY <1>1 DEF EngineInv, OutInv
<1>3. CASE Update
  <2> DEFINE e == [engine EXCEPT !.entries = [c \in DOMAIN @ |-> UpdateEntry(@[c])]]
  <2>1. Use(e)
    BY <1>3 DEF Update
  <2>2. IsFiniteSet(faces)
    BY FacesAreNumbers, FS_Subset DEF EngineInv, InUse
  <2>3. IsEngine(e, faces)
    BY <2>2, LearntIs DEF EngineInv, InUse
  <2> HIDE DEF e
  <2> QED  BY <1>1, <1>2, <2>1, <2>3, EngineGoesOn
<1>4. CASE \E f \in Faces : NewTokens(f)
  <2>1. PICK f \in Faces : NewTokens(f)
    BY <1>4
  <2> DEFINE e == [engine EXCEPT !.buckets[f] = newToken(@)]
  <2>2. Use(e) /\ f \in DOMAIN engine.buckets
    BY <2>1 DEF NewTokens
  <2>3. IsEngine(e, faces)
    BY <2>2, FilledIs DEF EngineInv, InUse
  <2> HIDE DEF e
  <2> QED  BY <1>1, <1>2, <2>2, <2>3, EngineGoesOn
<1>5. CASE \E i \in DOMAIN engines : FreeEngine(i)
  <2>1. PICK i \in DOMAIN engines : FreeEngine(i)
    BY <1>5
  <2>2. engines[i].refs = 1 /\ engines' = [engines EXCEPT ![i] = Freed]
    BY <2>1 DEF FreeEngine
  <2>3. i # Len(engines)
    BY <2>2 DEF EngineInv, InUse, IsEngine, engine, current
  <2>4. PICK X : engines \in Seq(X)
    BY DEF EngineInv, AnEngine
  <2>5. Len(engines) \in Nat \ {0} /\ DOMAIN engines = 1 .. Len(engines)
    BY <2>4 DEF EngineInv, AnEngine
  <2>6. engines \in Seq(X \cup {Freed})
    BY <2>4
  <2>7. engines' \in Seq(X \cup {Freed}) /\ Len(engines') = Len(engines)
    BY <2>2, <2>5, <2>6
  <2>8. AnEngine' /\ engine' = engine
    BY <2>2, <2>3, <2>5, <2>7 DEF AnEngine, engine, current
  <2> QED  BY <1>1, <1>2, <2>8 DEF EngineInv, InUse, KnownInv
<1> QED  BY <1>3, <1>4, <1>5

LEMMA StepEngine ==
    ASSUME IInv, EngineInv, [Next]_vars
    PROVE  EngineInv'
<1>1. ASSUME NEW n \in Names, NEW f \in Faces,
             OnInterest(n, f) \/ WillSatisfyPendingInterest(n, f) \/ DidReceiveValidNack(n, f)
      PROVE  EngineInv'
  BY <1>1, OnInterestEngine, ResultEngine, NackEngine
<1>2. ASSUME NEW n \in Names, WillEraseTimedOutPendingInterest(n)  PROVE EngineInv'
  BY <1>2, ResultEngine
<1>3. ASSUME UNCHANGED vars  PROVE EngineInv'
  BY <1>3 DEF vars, EngineInv, AnEngine, OutInv, InUse, KnownInv, engine, current
<1> QED
  BY <1>1, <1>2, <1>3, FacesEngine, TryEngine, EventEngine, Zenon DEF Next

\* What the sums of the model make of a distribution.
LEMMA WhatColumnsAre == EngineInv => ColumnsAreDistributions
<1> SUFFICES ASSUME EngineInv, NEW t \in Tables, NEW l \in Layers
             PROVE  SumFunction(t.prob[l]) \in UNIT - Cardinality(DOMAIN t.prob[l]) .. UNIT
  BY Zenon DEF ColumnsAreDistributions
<1>1. PICK c \in DOMAIN engine.entries : t = engine.entries[c].table
  BY DEF Tables
<1>2. IsEntry(engine.entries[c], DropAnd(faces))
  BY DEF EngineInv, InUse, IsEngine
<1> DEFINE ids == DropAnd(faces)
           col == t.prob[l]
<1>3. IsDistribution(col, ids)
  BY <1>1, <1>2 DEF IsEntry, IsNormal
<1> HIDE DEF ids, col
<1>4. DOMAIN col = ids /\ SumOf(col, ids) \in UNIT - Cardinality(ids) .. UNIT
  BY <1>3 DEF IsDistribution
<1>5. SumFunction(col) = SumOf(col, DOMAIN col)
  BY SumsOfFunctions
<1>6. SumFunction(col) \in UNIT - Cardinality(DOMAIN col) .. UNIT
  BY <1>4, <1>5
<1> QED  BY <1>6 DEF col

LEMMA WhatCompleteMeans == EngineInv => EngineComplete
BY DEF EngineInv, InUse, KnownInv, IsEngine, IsTokens, EngineComplete

\* For any faces, routes and contents, and whatever has been learnt: an engine is
\* in use that is held, pending, of the strategy's faces, and without holes.
THEOREM EngineStaysComplete == Spec => []EngineComplete
<1>1. Init => EngineInv
  BY InitEngine
<1>2. IInv /\ EngineInv /\ [Next]_vars => EngineInv'
  BY StepEngine
<1> QED  BY Invariance, <1>1, <1>2, WhatCompleteMeans, PTL DEF Spec

\* For any faces, routes, contents and layers, and whatever is observed: a column
\* of the table in use is a distribution, but for what rounding down loses; no
\* update, fallback or synchronisation of layers leaves a hole or adds a share.
THEOREM ColumnsStayDistributions == Spec => []ColumnsAreDistributions
<1>1. Init => EngineInv
  BY InitEngine
<1>2. IInv /\ EngineInv /\ [Next]_vars => EngineInv'
  BY StepEngine
<1> QED  BY Invariance, <1>1, <1>2, WhatColumnsAre, PTL DEF Spec

\* Some column drops as much as it gives to each of its faces.
SpreadEvenly == \E t \in Tables, l \in Layers : t.prob[l][DROP_FACE_ID] > 0 /\ Even(t.prob[l])

InOrder == \A t \in Tables : Ordered(t.prob)

LEMMA WhatOrderIs == EngineInv => InOrder /\ (~SpreadEvenly => HigherLayersDropFirst)
<1> SUFFICES ASSUME EngineInv  PROVE InOrder /\ (~SpreadEvenly => HigherLayersDropFirst)
  OBVIOUS
<1>1. \A c \in DOMAIN engine.entries : IsEntry(engine.entries[c], DropAnd(faces))
  BY DEF EngineInv, InUse, IsEngine
<1>2. InOrder
  BY <1>1 DEF InOrder, Tables, IsEntry
<1>3. ASSUME ~SpreadEvenly  PROVE HigherLayersDropFirst
  BY <1>2, <1>3 DEF InOrder, Ordered, SpreadEvenly, HigherLayersDropFirst
<1> QED  BY <1>2, <1>3

\* For any number of layers, any faces, routes and contents, and whatever is
\* observed: the synchronisation ends with every layer above one that drops dropped
\* entirely.  The exception is a column whose faces held nothing to share by, which
\* normalising spreads evenly over them and dropping.
THEOREM LayersDropInOrder == Spec => [](InOrder /\ (~SpreadEvenly => HigherLayersDropFirst))
<1>1. Init => EngineInv
  BY InitEngine
<1>2. IInv /\ EngineInv /\ [Next]_vars => EngineInv'
  BY StepEngine
<1> QED  BY Invariance, <1>1, <1>2, WhatOrderIs, PTL DEF Spec
-----------------------------------------------------------------------------
(* Who raises tokens.                                                       *)

Gained(b, new) == DOMAIN new = DOMAIN b /\ \E c \in DOMAIN b : new[c] > b[c]

\* Nobody fills the buckets of an engine, or who does hands out all there is.
GainsShared(e, new) ==
    \A f \in DOMAIN e.buckets :
        Gained(e.buckets[f], new.buckets[f]) => SharedOut(e.buckets[f], new.buckets[f])

LEMMA NothingGained ==
    ASSUME NEW e, NEW S, IsEngine(e, S), NEW new, new.buckets = e.buckets
    PROVE  GainsShared(e, new)
<1> SUFFICES ASSUME NEW f \in DOMAIN e.buckets  PROVE ~Gained(e.buckets[f], e.buckets[f])
  BY DEF GainsShared
<1> DEFINE b == e.buckets[f]
<1>1. IsTokens(b, DOMAIN e.entries)
  BY DEF IsEngine
<1> HIDE DEF b
<1>2. \A c \in DOMAIN b : b[c] \in Nat
  BY <1>1, TokensAreNumbers
<1>3. ~Gained(b, b)
  BY <1>2 DEF Gained
<1> QED  BY <1>3 DEF b

\* A new content gets buckets of its own.
LEMMA KnownGains ==
    ASSUME NEW e, NEW S, IsEngine(e, S), NEW c
    PROVE  GainsShared(e, KnowContent(e, c))
<1>1. CASE c \in DOMAIN e.entries
  BY <1>1, NothingGained DEF KnowContent
<1>2. CASE c \notin DOMAIN e.entries
  <2> SUFFICES ASSUME NEW f \in DOMAIN e.buckets
               PROVE  ~Gained(e.buckets[f], KnowContent(e, c).buckets[f])
    BY DEF GainsShared
  <2>1. DOMAIN e.buckets[f] = DOMAIN e.entries
    BY DEF IsEngine, IsTokens
  <2>2. KnowContent(e, c).buckets[f] = With(e.buckets[f], c, NewBucket)
    BY <1>2 DEF KnowContent, IsEngine
  <2> QED  BY <1>2, <2>1, <2>2 DEF Gained, With
<1> QED  BY <1>1, <1>2

LEMMA TakenGains ==
    ASSUME NEW e, NEW S, IsEngine(e, S), NEW g \in S, NEW d \in DOMAIN e.entries
    PROVE  GainsShared(e, TokenTaken(e, g, d))
<1>1. CASE ~Limited(g)
  BY <1>1, NothingGained DEF TokenTaken
<1>2. CASE Limited(g)
  <2> SUFFICES ASSUME NEW f \in DOMAIN e.buckets
               PROVE  ~Gained(e.buckets[f], TokenTaken(e, g, d).buckets[f])
    BY DEF GainsShared
  <2>1. \A h \in DOMAIN e.buckets :
            DOMAIN e.buckets[h] = DOMAIN e.entries /\ \A c \in DOMAIN e.entries : e.buckets[h][c] \in Nat
    BY TokensAreNumbers DEF IsEngine
  <2>2. TokenTaken(e, g, d).buckets = [e.buckets EXCEPT ![g][d] = @ - TOKEN]
    BY <1>2 DEF TokenTaken, IsEngine
  <2>3. \A c \in DOMAIN e.entries :
            TokenTaken(e, g, d).buckets[f][c] \in {e.buckets[f][c], e.buckets[f][c] - TOKEN}
    BY <2>1, <2>2
  <2>4. TOKEN \in Nat
    BY TokenAssumption
  <2> QED  BY <2>1, <2>3, <2>4 DEF Gained
<1> QED  BY <1>1, <1>2

LEMMA FilledGains ==
    ASSUME NEW e, NEW S, IsEngine(e, S), NEW g \in DOMAIN e.buckets
    PROVE  GainsShared(e, [e EXCEPT !.buckets[g] = newToken(@)])
<1> SUFFICES ASSUME NEW f \in DOMAIN e.buckets,
                    Gained(e.buckets[f], [e EXCEPT !.buckets[g] = newToken(@)].buckets[f])
             PROVE  SharedOut(e.buckets[f], [e EXCEPT !.buckets[g] = newToken(@)].buckets[f])
  BY DEF GainsShared
<1>1. [e EXCEPT !.buckets[g] = newToken(@)].buckets = [e.buckets EXCEPT ![g] = newToken(@)]
  BY DEF IsEngine
<1> DEFINE new == [e EXCEPT !.buckets[g] = newToken(@)].buckets
<1>2. CASE f = g
  <2>1. SharedOut(e.buckets[g], newToken(e.buckets[g]))
    BY NewTokenIs DEF IsEngine
  <2>2. new[f] = newToken(e.buckets[g])
    BY <1>1, <1>2
  <2> QED  BY <1>2, <2>1, <2>2
<1>3. CASE f # g
  <2>1. new[f] = e.buckets[f]
    BY <1>1, <1>3
  <2> HIDE DEF new
  <2>2. \A c \in DOMAIN e.buckets[f] : e.buckets[f][c] \in Nat
    BY TokensAreNumbers DEF IsEngine
  <2> QED  BY <2>1, <2>2 DEF Gained, new
<1> QED  BY <1>2, <1>3

\* What an engine that is used again gains is shared.
LEMMA UsedGains ==
    ASSUME EngineInv, NEW e, Use(e), GainsShared(engine, e)
    PROVE  GainsShared(engine, engine')
<1>1. engine' = e
  BY UsedIs DEF EngineInv
<1> QED  BY <1>1

LEMMA StepGains ==
    ASSUME IInv, EngineInv, Next, current' = current, engines' # engines
    PROVE  GainsShared(engine, engine')
<1>1. IsEngine(engine, faces)
  BY DEF EngineInv, InUse
<1>2. ASSUME NEW f \in Faces, AddFace(f) \/ RemoveFace(f)  PROVE FALSE
  <2>1. PICK X : engines \in Seq(X)
    BY DEF EngineInv, AnEngine
  <2>2. PICK S : Replace(S)
    BY <1>2 DEF AddFace, RemoveFace
  <2> DEFINE r == Released(engine, engine.refs - 1)
             old == [engines EXCEPT ![current] = r]
             new == NewEngine(S)
  <2>3. engines' = Append(old, new)
    BY <2>1, <2>2 DEF Replace, engine, current, EngineInv, AnEngine
  <2>4. engines \in Seq(X \cup {r}) /\ r \in X \cup {r}
    BY <2>1
  <2> HIDE DEF r, new
  <2>5. old \in Seq(X \cup {r}) /\ Len(old) = Len(engines) /\ Len(engines) \in Nat
    <3>1. Len(engines) \in Nat \ {0} /\ DOMAIN engines = 1 .. Len(engines)
      BY <2>1 DEF EngineInv, AnEngine
    <3> QED  BY <2>4, <3>1 DEF current
  <2> HIDE DEF old
  <2>6. Len(Append(old, new)) = Len(old) + 1
    BY <2>5
  <2> QED  BY <2>3, <2>5, <2>6 DEF current
<1>3. ASSUME NEW n \in Names, NEW f \in Faces, OnInterest(n, f)
      PROVE  GainsShared(engine, engine')
  <2>1. Use(KnowContent(engine, ContentOf[n]))
    BY <1>3 DEF OnInterest, Propagate
  <2> QED  BY <1>1, <2>1, KnownGains, UsedGains
<1>4. ASSUME NEW n \in Names, NEW f \in Faces, WillSatisfyPendingInterest(n, f)
      PROVE  GainsShared(engine, engine')
  <2>1. Use(logStatisfied(engine, n, f))
    BY <1>4 DEF WillSatisfyPendingInterest
  <2>2. GainsShared(engine, logStatisfied(engine, n, f))
    BY <1>1, LoggedBuckets, NothingGained
  <2> QED  BY <2>1, <2>2, UsedGains
<1>5. ASSUME NEW n \in Names, WillEraseTimedOutPendingInterest(n)
      PROVE  GainsShared(engine, engine')
  <2>1. Use(FailedOn(pit[n].out, n)) /\ n \in DOMAIN pit
    BY <1>5 DEF WillEraseTimedOutPendingInterest
  <2>2. pit[n].out \in SUBSET Faces
    BY <2>1 DEF EngineInv, OutInv
  <2>3. GainsShared(engine, FailedOn(pit[n].out, n))
    BY <1>1, <2>2, FailedTogether, NothingGained
  <2> QED  BY <2>1, <2>3, UsedGains
<1>6. ASSUME NEW n \in Names, NEW f \in Faces, DidReceiveValidNack(n, f)
      PROVE  GainsShared(engine, engine')
  <2> DEFINE e == FailedOn({f}, n)
  <2>1. Use(KnowContent(e, ContentOf[n])) \/ Use(e)
    BY <1>6, Zenon DEF DidReceiveValidNack
  <2>2. IsEngine(e, faces) /\ e.buckets = engine.buckets
    BY FailedTogether
  <2> HIDE DEF e
  <2>3. GainsShared(engine, e)
    BY <1>1, <2>2, NothingGained
  <2>4. GainsShared(engine, KnowContent(e, ContentOf[n]))
    <3>1. GainsShared(e, KnowContent(e, ContentOf[n]))
      BY <2>2, KnownGains
    <3> QED  BY <2>2, <3>1 DEF GainsShared
  <2> QED  BY <2>1, <2>3, <2>4, UsedGains
<1>7. ASSUME Try  PROVE GainsShared(engine, engine')
  <2> DEFINE n == trying.name
  <2>1. trying # None
    BY <1>7 DEF Try
  <2>2. n \in Names /\ ContentOf[n] \in DOMAIN engine.entries
    BY <2>1 DEF IInv, PitInv, TryInv, EngineInv, KnownInv, OutInv
  <2>3. PICK f \in determineRoute(n) :
            IF f = DROP_FACE_ID THEN GiveUp ELSE SendOut(f) \/ Blocked(f)
    BY <1>7 DEF Try
  <2>4. ASSUME GiveUp  PROVE GainsShared(engine, engine')
    <3>1. Use(logDropping(engine, n))
      BY <2>4 DEF GiveUp
    <3>2. GainsShared(engine, logDropping(engine, n))
      BY <1>1, LoggedBuckets, NothingGained
    <3> QED  BY <3>1, <3>2, UsedGains
  <2>5. ASSUME f # DROP_FACE_ID, SendOut(f)  PROVE GainsShared(engine, engine')
    <3>1. Use(TokenTaken(engine, f, ContentOf[n]))
      BY <2>5 DEF SendOut
    <3>2. f \in faces
      BY <2>2, <2>3, <2>5, RouteIsAFace
    <3>3. GainsShared(engine, TokenTaken(engine, f, ContentOf[n]))
      BY <1>1, <2>2, <3>2, TakenGains
    <3> QED  BY <3>1, <3>3, UsedGains
  <2>6. ~Blocked(f)
    BY DEF Blocked
  <2> QED  BY <2>3, <2>4, <2>5, <2>6
<1>8. ASSUME Update  PROVE GainsShared(engine, engine')
  <2> DEFINE e == [engine EXCEPT !.entries = [c \in DOMAIN @ |-> UpdateEntry(@[c])]]
  <2>1. Use(e) /\ e.buckets = engine.buckets
    BY <1>1, <1>8 DEF Update, IsEngine
  <2> HIDE DEF e
  <2> QED  BY <1>1, <2>1, NothingGained, UsedGains
<1>9. ASSUME NEW i \in DOMAIN engines, FreeEngine(i)  PROVE GainsShared(engine, engine')
  <2>1. engines[i].refs = 1 /\ engines' = [engines EXCEPT ![i] = Freed]
    BY <1>9 DEF FreeEngine
  <2>2. i # Len(engines)
    BY <1>1, <2>1 DEF IsEngine, engine, current
  <2>3. engine' = engine
    BY <2>1, <2>2 DEF engine, current
  <2> QED  BY <1>1, <2>3, NothingGained
<1>10. ASSUME NEW f \in Faces, NewTokens(f)  PROVE GainsShared(engine, engine')
  <2>1. Use([engine EXCEPT !.buckets[f] = newToken(@)]) /\ f \in DOMAIN engine.buckets
    BY <1>10 DEF NewTokens
  <2> QED  BY <1>1, <2>1, FilledGains, UsedGains
<1> QED
  BY <1>2, <1>3, <1>4, <1>5, <1>6, <1>7, <1>8, <1>9, <1>10, Zenon DEF Next

\* For any number of contents and faces, any size of token and bucket, and whatever
\* came before: when tokens come to a face, it hands out all it gets, but units too
\* few to divide, as long as a bucket has room; and nothing else adds tokens.
THEOREM TokensAreShared == Spec => TokensShared
<1> DEFINE Sharing == \A f \in DOMAIN engine.buckets :
        (/\ engines' # engines /\ current' = current
         /\ DOMAIN engine'.buckets[f] = DOMAIN engine.buckets[f]
         /\ \E c \in DOMAIN engine.buckets[f] : engine'.buckets[f][c] > engine.buckets[f][c])
        => LET given == SumFunction(engine'.buckets[f]) - SumFunction(engine.buckets[f])
               open == getAllNonFullBuckets(engine'.buckets[f])
           IN /\ given <= TOKEN_GEN_RATE
              /\ open = {} \/ given > TOKEN_GEN_RATE - Cardinality(open)
<1>1. Init => EngineInv
  BY InitEngine
<1>2. IInv /\ EngineInv /\ [Next]_vars => EngineInv'
  BY StepEngine
<1>3. IInv /\ EngineInv /\ [Next]_vars => [Sharing]_vars
  <2> SUFFICES ASSUME IInv, EngineInv, Next, current' = current, engines' # engines
               PROVE  Sharing
    BY DEF Sharing
  <2>1. GainsShared(engine, engine')
    BY StepGains
  <2> QED  BY <2>1 DEF GainsShared, Gained, SharedOut
<1> QED  BY Invariance, <1>1, <1>2, <1>3, PTL DEF Spec, TokensShared

-----------------------------------------------------------------------------
(* What an update may take from a face, and what becomes of it.             *)

\* The doubled sum is defined, as FoldExists shows of the library's sums.
DoubledStep(w, S, g) ==
    [T \in SUBSET S |-> IF T = {} THEN 0 ELSE 2 * (g[T \ {Member(T)}] + w[Member(T)])]

LEMMA DoubledExists ==
    ASSUME NEW w, NEW S, IsFiniteSet(S), \A x \in S : w[x] \in Nat
    PROVE  \E g \in [SUBSET S -> Nat] : g = DoubledStep(w, S, g)
<1> DEFINE Good(g, n) == \A s \in UpTo(n, S) : g[s] = DoubledStep(w, S, g)[s]
           K == {n \in Nat : \E g \in [SUBSET S -> Nat] : Good(g, n)}
<1>1. \A g \in [SUBSET S -> Nat] : DoubledStep(w, S, g) \in [SUBSET S -> Nat]
  BY MemberIsOne DEF DoubledStep
<1>2. 0 \in K
  <2>1. Good([s \in SUBSET S |-> 0], 0)
    BY OnlyEmpty DEF DoubledStep, UpTo
  <2> QED  BY <2>1
<1>3. ASSUME NEW n \in K  PROVE n + 1 \in K
  <2>1. PICK g \in [SUBSET S -> Nat] : Good(g, n)
    OBVIOUS
  <2> DEFINE h == DoubledStep(w, S, g)
  <2>2. ASSUME NEW s \in UpTo(n + 1, S)  PROVE h[s] = DoubledStep(w, S, h)[s]
    <3>1. CASE s = {}
      BY <3>1 DEF DoubledStep, UpTo
    <3>2. CASE s # {}
      <4> DEFINE r == s \ {Member(s)}
      <4>1. r \in UpTo(n, S)
        BY <3>2, MemberIsOne, SmallerWithout
      <4>2. g[r] = h[r]
        BY <2>1, <4>1
      <4>3. h[s] = 2 * (g[r] + w[Member(s)])
        BY <3>2 DEF DoubledStep, UpTo
      <4> HIDE DEF h
      <4>4. DoubledStep(w, S, h)[s] = 2 * (h[r] + w[Member(s)])
        BY <3>2 DEF DoubledStep, UpTo
      <4> QED  BY <4>2, <4>3, <4>4
    <3> QED  BY <3>1, <3>2
  <2>3. Good(h, n + 1) /\ h \in [SUBSET S -> Nat]
    BY <1>1, <2>2
  <2> HIDE DEF h
  <2> QED  BY <2>3
<1>4. K = Nat
  <2> HIDE DEF K
  <2>1. K \subseteq Nat
    BY DEF K
  <2> QED  BY <1>2, <1>3, <2>1, SetOfNaturals
<1>5. Cardinality(S) \in K
  BY <1>4, FS_CardinalityType
<1>6. PICK g \in [SUBSET S -> Nat] : Good(g, Cardinality(S))
  BY <1>5
<1>7. UpTo(Cardinality(S), S) = SUBSET S
  BY FS_Subset DEF UpTo
<1>8. \A s \in SUBSET S : g[s] = DoubledStep(w, S, g)[s]
  BY <1>6, <1>7
<1>9. DoubledStep(w, S, g) \in [SUBSET S -> Nat]
  BY <1>1
<1> QED  BY <1>8, <1>9

\* If one is not 0 the doubled sum is not.
LEMMA SomethingDoubled ==
    ASSUME NEW S, IsFiniteSet(S), NEW w \in [S -> Nat], NEW x \in S, w[x] > 0
    PROVE  SumOfWeighted(w) > 0
<1> DEFINE g == CHOOSE h : h = DoubledStep(w, S, h)
           K == {T \in SUBSET S : g[T] \in Nat /\ (x \in T => g[T] > 0)}
<1>1. SumOfWeighted(w) = g[S]
  BY DEF SumOfWeighted, FoldFunction, FoldFunctionOnSet, MapThenFoldSet, Member, DoubledStep
<1>2. g = DoubledStep(w, S, g)
  <2>1. \E h : h = DoubledStep(w, S, h)
    BY DoubledExists
  <2> QED  BY <2>1
<1> HIDE DEF g
<1>3. {} \in K
  BY <1>2 DEF DoubledStep
<1>4. ASSUME NEW T \in SUBSET S, T # {}, \A y \in T : T \ {y} \in K  PROVE T \in K
  <2> DEFINE m == Member(T)
             r == T \ {m}
  <2>1. m \in T /\ w[m] \in Nat /\ r \in K
    BY <1>4, MemberIsOne
  <2>2. g[T] = 2 * (g[r] + w[m])
    BY <1>2, <1>4 DEF DoubledStep
  <2> HIDE DEF m
  <2>3. g[r] \in Nat /\ (x \in r => g[r] > 0)
    BY <2>1
  <2>4. x \in T => x \in r \/ x = m
    OBVIOUS
  <2> HIDE DEF r
  <2>5. g[T] \in Nat /\ (x \in T => g[T] > 0)
    BY <2>1, <2>2, <2>3, <2>4
  <2> QED  BY <2>5
<1>5. K = SUBSET S
  <2> HIDE DEF K
  <2>1. K \in SUBSET SUBSET S
    BY DEF K
  <2> QED  BY <1>3, <1>4, <2>1, EachSubset
<1>6. S \in K
  BY <1>5
<1> QED  BY <1>1, <1>6

\* Shares of a natural number in proportion to weights: together they are all of it,
\* but for what rounding down loses.
LEMMA SharesOf ==
    ASSUME NEW S, IsFiniteSet(S), NEW weight \in [S -> Nat], NEW u \in Nat,
           SumOf(weight, S) > 0, NEW part, \A f \in S : part[f] = (u * weight[f]) \div SumOf(weight, S)
    PROVE  /\ \A f \in S : part[f] \in Nat
           /\ SumOf(part, S) \in Nat /\ SumOf(part, S) <= u /\ u <= SumOf(part, S) + Cardinality(S)
<1> DEFINE X == SumOf(weight, S)
           n == Cardinality(S)
           scaled == [f \in S |-> u * weight[f]]
           all == [f \in S |-> X * part[f]]
           ones == [f \in S |-> X]
           more == [f \in S |-> all[f] + ones[f]]
<1>1. X \in Nat /\ X > 0 /\ n \in Nat /\ Integral(weight, S) /\ \A f \in S : weight[f] \in Nat
  BY SumOfNaturals, FS_CardinalityType DEF Integral
<1>2. \A f \in S : part[f] = (u * weight[f]) \div X
  OBVIOUS
<1> HIDE DEF X
<1>3. ASSUME NEW f \in S
      PROVE  /\ part[f] \in Nat /\ u * weight[f] \in Nat
             /\ X * part[f] <= u * weight[f] /\ u * weight[f] <= X * part[f] + X
  <2> DEFINE a == u * weight[f]
  <2>1. a \in Nat
    BY <1>1
  <2>2. part[f] = a \div X
    BY <1>2
  <2> HIDE DEF a
  <2>3. a \div X \in Nat /\ X * (a \div X) <= a /\ a <= X * (a \div X) + X
    BY <1>1, <2>1
  <2> QED  BY <2>1, <2>2, <2>3 DEF a
<1>4. SumOf(part, S) \in Nat /\ Integral(part, S)
  BY <1>3, SumOfNaturals DEF Integral
<1>5. SumOf(scaled, S) = u * X /\ SumOf(all, S) = X * SumOf(part, S)
  BY <1>1, <1>4, SumScale DEF X
<1>6. SumOf(ones, S) = X * n
  BY <1>1, SumConstant
<1>7. Integral(all, S) /\ Integral(ones, S) /\ Integral(scaled, S) /\ Integral(more, S)
  BY <1>1, <1>3 DEF Integral
<1>8. SumOf(all, S) <= SumOf(scaled, S)
  <2>1. \A f \in S : all[f] <= scaled[f]
    BY <1>3
  <2> HIDE DEF all, scaled
  <2> QED  BY <1>7, <2>1, SumMonotone
<1>9. SumOf(scaled, S) <= SumOf(all, S) + SumOf(ones, S)
  <2>1. \A f \in S : scaled[f] <= more[f]
    BY <1>3
  <2>2. SumOf(more, S) = SumOf(all, S) + SumOf(ones, S)
    <3> HIDE DEF all, ones
    <3> QED  BY <1>7, SumOfBoth
  <2> HIDE DEF more, scaled
  <2> QED  BY <1>7, <2>1, <2>2, SumMonotone
<1> DEFINE p == SumOf(part, S)
<1>10. X * p <= u * X /\ u * X <= X * p + X * n /\ p \in Nat
  BY <1>4, <1>5, <1>6, <1>8, <1>9
<1> HIDE DEF p, n
<1>11. p <= u
  <2>1. SUFFICES ASSUME p >= u + 1  PROVE FALSE
    BY <1>10
  <2>2. X * p >= X * (u + 1)
    BY <1>1, <1>10, <2>1
  <2>3. X * (u + 1) = u * X + X
    BY <1>1
  <2> QED  BY <1>1, <1>10, <2>2, <2>3
<1>12. u <= p + n
  <2>1. SUFFICES ASSUME u >= p + n + 1  PROVE FALSE
    BY <1>1, <1>10
  <2>2. X * u >= X * (p + n + 1)
    BY <1>1, <1>10, <2>1
  <2>3. X * (p + n + 1) = X * p + X * n + X /\ X * u = u * X
    BY <1>1, <1>10
  <2> QED  BY <1>1, <1>10, <2>2, <2>3
<1> QED  BY <1>3, <1>10, <1>11, <1>12 DEF p, n

-----------------------------------------------------------------------------
\* What an evaluated statistic says of the failures it was evaluated from: those of
\* a face are no more than its unreliability accounts for, a face carried no less
\* than its share of the results, and utf is the failures of the unreliable faces.
Failures(st, unsat, threshold, ids) ==
    /\ unsat \in [ids -> Nat] /\ st.utf \in Nat /\ (st.total = 0 => st.utf = 0)
    /\ st.utf * st.total <= UNIT * SumOf(unsat, getUnreliableFaces(st, threshold))
    /\ st.total = SumOf(st.forwarded, ids)
    /\ \A f \in ids : /\ (UNIT - st.reliability[f]) * st.forwarded[f] >= UNIT * unsat[f]
                      /\ st.actual[f] * st.total >= UNIT * st.forwarded[f]
                      /\ st.total # 0 => st.actual[f] * st.total < UNIT * st.forwarded[f] + st.total

\* A reliability, times the results, is no more than the successes.
LEMMA UnreliabilityOf ==
    ASSUME NEW sat \in Nat, NEW unsat \in Nat, unsat # 0
    PROVE  (UNIT - (UNIT * sat) \div (sat + unsat)) * (sat + unsat) >= UNIT * unsat
<1> DEFINE n == sat + unsat
           r == (UNIT * sat) \div n
<1>1. n \in Nat /\ n > 0 /\ n = sat + unsat
  OBVIOUS
<1>2. r \in Int /\ n * r <= UNIT * sat
  BY DEF UNIT
<1> HIDE DEF r, n
<1>3. (UNIT - r) * n = UNIT * n - n * r
  BY <1>1, <1>2 DEF UNIT
<1>4. (UNIT - r) * n >= UNIT * unsat
  BY <1>1, <1>2, <1>3 DEF UNIT
<1> QED  BY <1>4 DEF r, n

LEMMA ResetIs ==
    ASSUME NEW st, NEW ids, IsFiniteSet(ids), IsStatistic(st, ids), NEW threshold
    PROVE  Failures(ResetLayer(st, threshold), st.unsat, threshold, ids)
<1> DEFINE results == [f \in ids |-> st.sat[f] + st.unsat[f]]
           total == SumFunction(results)
           reliability == Reliabilities(st)
           counted == [st EXCEPT !.forwarded = results, !.total = total, !.reliability = reliability]
           utf == UnsatisfiedTrafficFraction(counted, threshold)
           actual == ActualForwardingProbabilities(counted)
           none == [f \in ids |-> 0]
           new == ResetLayer(st, threshold)
           S == getUnreliableFaces(counted, threshold)
<1>1. DOMAIN st.sat = ids /\ \A f \in ids : st.sat[f] \in Nat /\ st.unsat[f] \in Nat
  BY DEF IsStatistic
<1>2. results \in [ids -> Nat] /\ \A f \in ids : results[f] = st.sat[f] + st.unsat[f]
  BY <1>1
<1>3. total \in Nat /\ total = SumOf(results, ids)
  <2>1. total = SumOf(results, ids)
    BY SumsOfFunctions
  <2> HIDE DEF results
  <2> QED  BY <1>2, <2>1, SumOfNaturals
<1>4. new = [counted EXCEPT !.utf = utf, !.actual = actual, !.sat = none, !.unsat = none]
  BY <1>1 DEF ResetLayer
<1>5. ASSUME NEW f \in ids
      PROVE  /\ (UNIT - reliability[f]) * results[f] >= UNIT * st.unsat[f]
             /\ reliability[f] = IF st.unsat[f] = 0 THEN UNIT
                                 ELSE (UNIT * st.sat[f]) \div (st.sat[f] + st.unsat[f])
  <2>1. reliability[f] = IF st.unsat[f] = 0 THEN UNIT
                         ELSE (UNIT * st.sat[f]) \div (st.sat[f] + st.unsat[f])
    BY <1>1 DEF Reliabilities
  <2>2. CASE st.unsat[f] = 0
    BY <1>1, <1>2, <2>1, <2>2 DEF UNIT
  <2>3. CASE st.unsat[f] # 0
    <3> DEFINE x == st.sat[f]
               y == st.unsat[f]
    <3>1. x \in Nat /\ y \in Nat /\ y # 0
      BY <1>1, <2>3
    <3>2. reliability[f] = (UNIT * x) \div (x + y) /\ results[f] = x + y
      BY <1>2, <2>1, <2>3
    <3> HIDE DEF x, y
    <3>3. (UNIT - reliability[f]) * results[f] >= UNIT * y
      BY <3>1, <3>2, UnreliabilityOf
    <3> QED  BY <2>1, <3>3 DEF y
  <2> QED  BY <2>2, <2>3
<1>6. DOMAIN reliability = ids
  BY <1>1 DEF Reliabilities
<1>7. /\ counted.forwarded = results /\ counted.total = total /\ counted.reliability = reliability
      /\ counted.unsat = st.unsat
      /\ DOMAIN counted = {"sat", "unsat", "forwarded", "total", "reliability", "utf", "actual"}
  BY DEF IsStatistic
<1> HIDE DEF counted, results, total, reliability
<1>8. ASSUME NEW f \in ids
      PROVE  /\ actual[f] \in Nat
             /\ actual[f] * total >= UNIT * results[f]
             /\ total # 0 => actual[f] * total < UNIT * results[f] + total
  <2> DEFINE a == UNIT * results[f]
             b == actual[f]
  <2>1. a \in Nat /\ results[f] \in Nat
    BY <1>2 DEF UNIT
  <2>2. b = IF total = 0 THEN 0 ELSE RoundedUp(a, total)
    BY <1>2, <1>7 DEF ActualForwardingProbabilities
  <2>3. CASE total = 0
    <3>1. results[f] <= total
      <4>1. {f} \in SUBSET ids /\ results[f] \in Int /\ \A x \in ids : results[x] \in Nat
        BY <1>2
      <4>2. SumOf(results, {f}) <= SumOf(results, ids)
        BY <4>1, SumOfPart
      <4> QED  BY <1>3, <4>1, <4>2, SumOfOne
    <3> QED  BY <1>2, <1>3, <2>2, <2>3, <3>1 DEF UNIT
  <2>4. CASE total # 0
    <3>1. a \in Int /\ a >= 0 /\ b = RoundedUp(a, total)
      BY <2>1, <2>2, <2>4
    <3> HIDE DEF a, b
    <3>2. b \in Nat /\ total * b >= a /\ total * b < a + total
      BY <1>3, <2>4, <3>1, RoundedUpIs
    <3>3. b * total = total * b
      BY <1>3, <3>2
    <3> QED  BY <3>2, <3>3 DEF a, b
  <2> QED  BY <2>3, <2>4
<1>9. utf \in Nat /\ (total = 0 => utf = 0) /\ utf * total <= UNIT * SumOf(st.unsat, S)
  <2> DEFINE u == SumOf(st.unsat, S)
  <2>1. S \subseteq ids
    BY <1>6, <1>7 DEF getUnreliableFaces
  <2>2. utf = IF total = 0 THEN 0 ELSE (UNIT * u) \div total
    BY <1>7, SumsOfFunctions DEF UnsatisfiedTrafficFraction
  <2> HIDE DEF S, utf
  <2>3. u \in Nat
    BY <1>1, <2>1, FS_Subset, SumOfNaturals
  <2> HIDE DEF u
  <2>4. CASE total = 0
    BY <2>2, <2>3, <2>4 DEF UNIT, u
  <2>5. CASE total # 0
    <3>1. utf = (UNIT * u) \div total /\ UNIT * u \in Nat /\ total \in Nat /\ total > 0
      BY <1>3, <2>2, <2>3, <2>5 DEF UNIT
    <3> DEFINE a == UNIT * u
    <3> HIDE DEF a
    <3>2. a \in Nat /\ utf = a \div total
      BY <3>1 DEF a
    <3>3. a \div total \in Nat /\ (a \div total) * total <= a
      BY <3>1, <3>2
    <3>4. utf \in Nat /\ utf * total <= UNIT * u
      BY <3>2, <3>3 DEF a
    <3> QED  BY <2>5, <3>4 DEF u
  <2> QED  BY <2>4, <2>5 DEF u
<1>10. /\ new.forwarded = results /\ new.total = total /\ new.reliability = reliability
       /\ new.utf = utf /\ new.actual = actual
  BY <1>4, <1>7
<1>11. getUnreliableFaces(new, threshold) = S
  BY <1>7, <1>10 DEF getUnreliableFaces
<1> HIDE DEF new, utf, actual, S
<1>12. st.unsat \in [ids -> Nat]
  BY DEF IsStatistic
<1> QED  BY <1>3, <1>5, <1>8, <1>9, <1>10, <1>11, <1>12 DEF Failures, new

-----------------------------------------------------------------------------
\* A face's weighted probability covers its share of the failures.
LEMMA FaceCovers ==
    ASSUME NEW w \in Nat, NEW a \in Nat, NEW T \in Nat, NEW F \in Nat, NEW r \in Nat, NEW u \in Nat,
           UNIT * w >= ALPHA * a, a * T >= UNIT * F, r * F >= UNIT * u
    PROVE  T * (w * r) >= (ALPHA * UNIT) * u
<1>0. UNIT = 1000 /\ ALPHA = 350
  BY DEF UNIT, ALPHA
<1> DEFINE wT == w * T
           aT == a * T
           rF == r * F
<1>1. wT \in Nat /\ aT \in Nat /\ rF \in Nat
  OBVIOUS
<1>2. 1000 * wT >= 350 * aT
  <2>1. 1000 * w >= 350 * a
    BY <1>0
  <2>2. (1000 * w) * T >= (350 * a) * T
    BY <2>1
  <2>3. (1000 * w) * T = 1000 * wT /\ (350 * a) * T = 350 * aT
    OBVIOUS
  <2> QED  BY <2>2, <2>3
<1>3. wT >= 350 * F
  <2>1. aT >= 1000 * F
    BY <1>0
  <2> HIDE DEF wT, aT
  <2> QED  BY <1>1, <1>2, <2>1
<1>4. wT * r >= 350 * rF
  <2>1. wT * r >= (350 * F) * r
    <3> HIDE DEF wT
    <3> QED  BY <1>1, <1>3
  <2>2. (350 * F) * r = 350 * rF
    OBVIOUS
  <2> QED  BY <2>1, <2>2
<1>5. rF >= 1000 * u
  BY <1>0
<1>6. T * (w * r) = wT * r
  OBVIOUS
<1> HIDE DEF wT, rF, aT
<1>7. wT * r >= 350000 * u
  <2>1. wT * r \in Int
    BY <1>1
  <2> DEFINE z == wT * r
  <2> HIDE DEF z
  <2>2. z >= 350000 * u
    <3>1. z >= 350 * rF /\ z \in Int
      BY <1>4, <2>1 DEF z
    <3> QED  BY <1>1, <1>5, <3>1
  <2> QED  BY <2>2 DEF z
<1>8. ALPHA * UNIT = 350000
  BY <1>0
<1> QED  BY <1>6, <1>7, <1>8

\* Faces that fail are used for as much as has failed on them: what an update takes
\* from the unreliable faces their weighted probabilities account for.
LEMMA FailuresCovered ==
    ASSUME NEW ids, IsFiniteSet(ids), NEW st, IsStatistic(st, ids), NEW unsat, NEW threshold \in Int,
           Failures(st, unsat, threshold, ids), NEW higher \in Int, threshold <= higher,
           NEW S, S = getUnreliableFaces(st, higher), NEW w \in [S -> Nat],
           \A f \in S : UNIT * w[f] >= ALPHA * st.actual[f], Part(st.utf, ALPHA) > 0
    PROVE  /\ UNIT * Part(st.utf, ALPHA) <= SumOf([f \in S |-> w[f] * (UNIT - st.reliability[f])], S)
           /\ S # {}
<1> DEFINE few == getUnreliableFaces(st, threshold)
           T == st.total
           weight == [f \in S |-> w[f] * (UNIT - st.reliability[f])]
           scaled == [f \in S |-> T * weight[f]]
           failed == [f \in S |-> (ALPHA * UNIT) * unsat[f]]
           utf == st.utf
           P == Part(utf, ALPHA)
<1>1. /\ few \subseteq S /\ S \subseteq ids /\ IsFiniteSet(S) /\ IsFiniteSet(few)
  <2>1. DOMAIN st.reliability = ids /\ \A f \in ids : st.reliability[f] \in Int
    <3>1. st.reliability \in [ids -> 0 .. UNIT]
      BY DEF IsStatistic
    <3>2. \A n \in 0 .. UNIT : n \in Int
      OBVIOUS
    <3> QED  BY <3>1, <3>2
  <2>2. few \subseteq S /\ S \subseteq ids
    BY <2>1 DEF getUnreliableFaces
  <2> HIDE DEF few
  <2> QED  BY <2>2, FS_Subset
<1>2. /\ T \in Nat /\ utf \in Nat /\ (T = 0 => utf = 0) /\ utf * T <= UNIT * SumOf(unsat, few)
      /\ unsat \in [ids -> Nat]
  BY DEF Failures, IsStatistic
<1>3. P \in Int /\ UNIT * P <= ALPHA * utf /\ P > 0
  <2>1. P \in Int /\ UNIT * P <= ALPHA * utf
    <3>1. P = (utf * 350) \div 1000 /\ UNIT = 1000 /\ ALPHA = 350
      BY DEF Part, UNIT, ALPHA
    <3> HIDE DEF utf, P
    <3> QED  BY <1>2, <3>1
  <2> QED  BY <2>1
<1>4. utf > 0 /\ T > 0
  <2> HIDE DEF utf, P, T
  <2> QED  BY <1>2, <1>3 DEF UNIT, ALPHA
<1>5. \A f \in S : UNIT - st.reliability[f] \in Nat /\ st.actual[f] \in Nat /\ st.forwarded[f] \in Nat
  <2>1. st.reliability \in [ids -> 0 .. UNIT]
    BY DEF IsStatistic
  <2>2. \A r \in 0 .. UNIT : UNIT - r \in Nat
    BY DEF UNIT
  <2>3. \A f \in S : st.reliability[f] \in 0 .. UNIT
    BY <1>1, <2>1
  <2>4. \A f \in S : UNIT - st.reliability[f] \in Nat
    BY <2>2, <2>3
  <2> QED  BY <1>1, <2>4 DEF IsStatistic
<1>6. ASSUME NEW f \in S
      PROVE  weight[f] \in Nat /\ T * weight[f] >= (ALPHA * UNIT) * unsat[f]
  <2> DEFINE a == st.actual[f]
             F == st.forwarded[f]
             r == UNIT - st.reliability[f]
             u == unsat[f]
             x == w[f]
  <2>1. a \in Nat /\ F \in Nat /\ r \in Nat /\ u \in Nat /\ x \in Nat
    BY <1>1, <1>2, <1>5
  <2>2. a * T >= UNIT * F /\ r * F >= UNIT * u /\ UNIT * x >= ALPHA * a
    BY <1>1 DEF Failures
  <2>3. weight[f] = x * r
    OBVIOUS
  <2> HIDE DEF a, F, r, u, x, T, weight
  <2>4. T * (x * r) >= (ALPHA * UNIT) * u
    BY <1>2, <2>1, <2>2, FaceCovers
  <2>5. x * r \in Nat
    BY <2>1
  <2> QED  BY <2>3, <2>4, <2>5 DEF u
<1> HIDE DEF T, utf, few, P, weight
<1>7. Integral(weight, S) /\ Integral(scaled, S) /\ Integral(failed, S) /\ Integral(unsat, S)
  <2>1. \A x \in Nat : T * x \in Int /\ (ALPHA * UNIT) * x \in Int
    BY <1>2 DEF ALPHA, UNIT
  <2>2. \A f \in S : weight[f] \in Nat /\ unsat[f] \in Nat
    BY <1>1, <1>2, <1>6
  <2> QED  BY <2>1, <2>2 DEF Integral
<1>8. SumOf(scaled, S) = T * SumOf(weight, S) /\ SumOf(failed, S) = (ALPHA * UNIT) * SumOf(unsat, S)
  <2>1. ALPHA * UNIT \in Int
    BY DEF ALPHA, UNIT
  <2>2. SumOf(scaled, S) = T * SumOf(weight, S)
    BY <1>1, <1>2, <1>7, SumScale
  <2>3. SumOf(failed, S) = (ALPHA * UNIT) * SumOf(unsat, S)
    BY <1>1, <1>7, <2>1, SumScale
  <2> QED  BY <2>2, <2>3
<1>9. SumOf(failed, S) <= SumOf(scaled, S)
  <2>1. \A f \in S : failed[f] <= scaled[f]
    BY <1>6
  <2> HIDE DEF failed, scaled
  <2> QED  BY <1>1, <1>7, <2>1, SumMonotone
<1>10. /\ SumOf(unsat, few) <= SumOf(unsat, S) /\ SumOf(unsat, few) \in Nat /\ SumOf(unsat, S) \in Nat
       /\ SumOf(weight, S) \in Nat
  BY <1>1, <1>2, <1>6, SumOfPart, SumOfNaturals
<1>11. S # {}
  <2>1. SUFFICES ASSUME S = {}  PROVE FALSE
    OBVIOUS
  <2>2. few = {} /\ SumOf(unsat, few) = 0
    BY <1>1, <2>1, SumEmpty
  <2>3. utf * T <= 0
    BY <1>2, <2>2 DEF UNIT
  <2>4. utf * T > 0
    BY <1>2, <1>4
  <2>5. utf * T \in Int
    BY <1>2
  <2> QED  BY <2>3, <2>4, <2>5
<1> DEFINE X == SumOf(weight, S)
           A == SumOf(unsat, S)
           B == SumOf(unsat, few)
<1>12. T * X >= (ALPHA * UNIT) * A /\ A >= B /\ UNIT * B >= utf * T /\ X \in Nat /\ A \in Nat /\ B \in Nat
  BY <1>2, <1>8, <1>9, <1>10
<1> HIDE DEF X, A, B
<1>13. X >= ALPHA * utf
  <2> DEFINE tX == T * X
             uT == utf * T
  <2>1. tX \in Nat /\ uT \in Nat
    BY <1>2, <1>12
  <2>2. tX >= 350000 * A /\ 1000 * B >= uT
    BY <1>12 DEF ALPHA, UNIT
  <2> HIDE DEF tX, uT
  <2>3. tX >= 350 * uT
    BY <1>12, <2>1, <2>2
  <2>4. T * X >= T * (350 * utf)
    <3>1. 350 * uT = T * (350 * utf)
      BY <1>2 DEF uT
    <3> QED  BY <2>3, <3>1 DEF tX
  <2>5. SUFFICES ASSUME X < 350 * utf  PROVE FALSE
    BY <1>2, <1>12 DEF ALPHA
  <2>6. X + 1 <= 350 * utf
    BY <1>2, <1>12, <2>5
  <2>7. T * (X + 1) <= T * (350 * utf)
    BY <1>2, <1>12, <2>6
  <2>8. T * (X + 1) = T * X + T
    BY <1>2, <1>12
  <2>9. T * X \in Int /\ T * (350 * utf) \in Int
    BY <1>2, <1>12
  <2> QED  BY <1>2, <1>4, <2>4, <2>7, <2>8, <2>9
<1>14. UNIT * P <= X
  BY <1>2, <1>3, <1>12, <1>13 DEF UNIT, ALPHA
<1> QED  BY <1>11, <1>14 DEF P, X, utf, weight

-----------------------------------------------------------------------------
(* What giving and taking does to the faces.                                *)

\* All of utf in whole shares, but for what rounding down loses.
Shares(part, S, utf) ==
    /\ \A f \in S : part[f] \in Nat
    /\ SumOf(part, S) \in Nat /\ SumOf(part, S) <= utf /\ utf <= SumOf(part, S) + Cardinality(S)

\* The weighted probabilities account for what is taken.
Accounted(col, S, st, utf) ==
    /\ utf > 0
    /\ UNIT * utf <= SumOf([f \in S |-> Weighted(col, st, f) * (UNIT - st.reliability[f])], S)

Dealt(new, col, S, st, utf, shift) ==
    \E part : /\ Shares(part, S, utf)
              /\ \A f \in S : new[f] = IF shift THEN Weighted(col, st, f) + part[f]
                                       ELSE Weighted(col, st, f) - part[f]
              /\ ~shift /\ Accounted(col, S, st, utf) => \A f \in S : part[f] <= Weighted(col, st, f)

\* A share of what is less than the sum of the weights is less than its part of it.
LEMMA ShareOfLess ==
    ASSUME NEW u \in Nat, NEW w \in Nat, NEW r \in 0 .. UNIT, NEW X \in Nat, X > 0, UNIT * u <= X
    PROVE  (u * (w * r)) \div X <= w
<1>0. r \in Nat /\ r <= UNIT /\ UNIT \in Nat
  BY DEF UNIT
<1> DEFINE ur == u * r
           y == (u * (w * r)) \div X
<1>1. ur \in Nat /\ ur <= X
  <2>1. u * r <= u * UNIT
    BY <1>0
  <2>2. u * UNIT = UNIT * u /\ u * UNIT \in Nat
    BY <1>0
  <2> QED  BY <1>0, <2>1, <2>2
<1>2. u * (w * r) = w * ur
  BY <1>0
<1> HIDE DEF ur
<1>3. w * ur \in Nat /\ w * ur <= w * X
  BY <1>1
<1>4. y \in Int /\ X * y <= w * ur
  <2> DEFINE a == w * ur
  <2>1. a \in Nat /\ y = a \div X
    BY <1>2, <1>3
  <2> HIDE DEF a, y
  <2>2. a \div X \in Int /\ X * (a \div X) <= a
    BY <2>1
  <2> QED  BY <2>1, <2>2 DEF a
<1> HIDE DEF y
<1>5. y <= w
  <2>1. SUFFICES ASSUME y >= w + 1  PROVE FALSE
    BY <1>4
  <2>2. X * y >= X * (w + 1)
    BY <1>4, <2>1
  <2>3. X * (w + 1) = w * X + X /\ X * y \in Int /\ w * X \in Int
    BY <1>4
  <2> QED  BY <1>3, <1>4, <2>2, <2>3
<1> QED  BY <1>5 DEF y

LEMMA UpdateColumnDeals ==
    ASSUME NEW ids, IsFiniteSet(ids), NEW col \in [ids -> Int], NEW S \in SUBSET ids, S # {},
           \A f \in S : col[f] \in Nat, NEW st, IsStatistic(st, ids), NEW utf \in Nat,
           NEW shift,
           \A f \in S : IF shift THEN st.reliability[f] > 0 ELSE st.reliability[f] < UNIT
    PROVE  Dealt(UpdateColumn(col, S, st, utf, shift), col, S, st, utf, shift)
<1> DEFINE w == [f \in S |-> Weighted(col, st, f)]
           rel == [f \in S |-> IF shift THEN st.reliability[f] ELSE UNIT - st.reliability[f]]
           weight == [f \in S |-> IF SumOfWeighted(w) > 0 THEN w[f] * rel[f] ELSE rel[f]]
           part == [f \in S |-> (utf * weight[f]) \div SumFunction(weight)]
           new == UpdateColumn(col, S, st, utf, shift)
           less == [f \in S |-> w[f] * (UNIT - st.reliability[f])]
<1>1. \A f \in S : new[f] = IF shift THEN w[f] + part[f] ELSE w[f] - part[f]
  BY DEF UpdateColumn
<1> HIDE DEF new
<1>2. IsFiniteSet(S)
  BY FS_Subset
<1>3. w \in [S -> Nat]
  BY WeightedIs
<1>4. \A f \in S : UNIT - st.reliability[f] \in 0 .. UNIT /\ st.reliability[f] \in 0 .. UNIT
  <2>1. st.reliability \in [ids -> 0 .. UNIT]
    BY DEF IsStatistic
  <2>2. \A r \in 0 .. UNIT : UNIT - r \in 0 .. UNIT
    BY DEF UNIT
  <2>3. \A f \in S : st.reliability[f] \in 0 .. UNIT
    BY <2>1
  <2> QED  BY <2>2, <2>3
<1>5. rel \in [S -> Nat] /\ \A f \in S : rel[f] > 0
  <2>0. \A r \in 0 .. UNIT : /\ r > 0 => r \in Nat /\ r > 0
                             /\ r < UNIT => UNIT - r \in Nat /\ UNIT - r > 0
    BY DEF UNIT
  <2>1. CASE shift
    BY <1>4, <2>0, <2>1
  <2>2. CASE ~shift
    BY <1>4, <2>0, <2>2
  <2> QED  BY <2>1, <2>2
<1>6. weight \in [S -> Nat] /\ SumFunction(weight) \in Nat /\ SumFunction(weight) > 0
  <2> HIDE DEF w, rel
  <2> QED  BY <1>2, <1>3, <1>5, WeightsCount
<1>7. SumFunction(weight) = SumOf(weight, S)
  BY SumsOfFunctions
<1>8. Shares(part, S, utf)
  <2> HIDE DEF weight
  <2>1. SumOf(weight, S) > 0 /\ \A f \in S : part[f] = (utf * weight[f]) \div SumOf(weight, S)
    BY <1>6, <1>7
  <2> HIDE DEF part
  <2> QED  BY <1>2, <1>6, <2>1, SharesOf DEF Shares
<1>9. ASSUME ~shift, Accounted(col, S, st, utf), NEW f \in S  PROVE part[f] <= w[f]
  <2>1. utf > 0 /\ UNIT * utf <= SumOf(less, S)
    BY <1>9 DEF Accounted
  <2>2. \A g \in S : less[g] = w[g] * rel[g]
    BY <1>9
  <2>3. \E g \in S : w[g] > 0
    <3>1. SUFFICES ASSUME \A g \in S : w[g] = 0  PROVE FALSE
      BY <1>3
    <3>2. \A g \in S : less[g] = 0
      BY <1>5, <2>2, <3>1
    <3> HIDE DEF less
    <3>3. SumOf(less, S) = 0 * Cardinality(S) /\ Cardinality(S) \in Nat
      BY <1>2, <3>2, SumConstant, FS_CardinalityType
    <3> QED  BY <2>1, <3>3 DEF UNIT
  <2>4. SumOfWeighted(w) > 0
    <3> HIDE DEF w
    <3> QED  BY <1>2, <1>3, <2>3, SomethingDoubled
  <2>5. \A g \in S : weight[g] = less[g] /\ weight[g] = w[g] * (UNIT - st.reliability[g])
    BY <1>9, <2>4
  <2> DEFINE X == SumOf(weight, S)
             r == UNIT - st.reliability[f]
             x == w[f]
  <2>6. SumOf(weight, S) = SumOf(less, S)
    <3>1. Integral(weight, S)
      BY <1>6 DEF Integral
    <3> HIDE DEF weight, less
    <3> QED  BY <1>2, <2>5, <3>1, SumEqual
  <2>7. part[f] = (utf * (x * r)) \div X
    <3>1. part[f] = (utf * weight[f]) \div SumFunction(weight)
      OBVIOUS
    <3> HIDE DEF part, weight
    <3> QED  BY <1>7, <2>5, <3>1
  <2>8. r \in 0 .. UNIT /\ x \in Nat /\ X \in Nat /\ X > 0 /\ UNIT * utf <= X
    BY <1>3, <1>4, <1>6, <1>7, <2>1, <2>6
  <2> HIDE DEF part, r, X, x
  <2>9. part[f] <= x
    BY <2>7, <2>8, ShareOfLess
  <2> QED  BY <2>9 DEF x
<1>10. \A f \in S : w[f] = Weighted(col, st, f)
  OBVIOUS
<1> HIDE DEF part, w
<1>11. \A f \in S : new[f] = IF shift THEN Weighted(col, st, f) + part[f] ELSE Weighted(col, st, f) - part[f]
  BY <1>1, <1>10
<1>12. ~shift /\ Accounted(col, S, st, utf) => \A f \in S : part[f] <= Weighted(col, st, f)
  BY <1>9, <1>10
<1> QED  BY <1>8, <1>11, <1>12, Zenon DEF Dealt, new

LEMMA GivenNat ==
    ASSUME NEW ids, IsFiniteSet(ids), NEW col \in [ids -> Nat], NEW S \in SUBSET ids,
           NEW st, IsStatistic(st, ids), NEW utf \in Nat, \A f \in S : st.reliability[f] > 0
    PROVE  UpdateColumn(col, S, st, utf, TRUE) \in [ids -> Nat]
<1> DEFINE shift == TRUE
           new == UpdateColumn(col, S, st, utf, shift)
<1>0. shift
  OBVIOUS
<1>1. \A f \in S : IF shift THEN st.reliability[f] > 0 ELSE st.reliability[f] < UNIT
  OBVIOUS
<1> HIDE DEF shift
<1>2. col \in [ids -> Int] /\ \A f \in S : col[f] \in Nat
  OBVIOUS
<1>3. new \in [ids -> Int] /\ \A f \in ids \ S : new[f] = col[f]
  BY <1>1, <1>2, UpdateColumnIs
<1>4. ASSUME NEW f \in S  PROVE new[f] \in Nat
  <2>1. Dealt(new, col, S, st, utf, shift)
    BY <1>1, <1>2, UpdateColumnDeals
  <2>2. PICK part : Shares(part, S, utf) /\ new[f] = IF shift THEN Weighted(col, st, f) + part[f]
                                                     ELSE Weighted(col, st, f) - part[f]
    BY <2>1, Zenon DEF Dealt
  <2>3. part[f] \in Nat /\ Weighted(col, st, f) \in Nat
    BY <1>2, <2>2, WeightedIs DEF Shares
  <2>4. new[f] = Weighted(col, st, f) + part[f]
    BY <1>0, <2>2
  <2> QED  BY <2>3, <2>4
<1> HIDE DEF new
<1>5. new \in [ids -> Nat]
  BY <1>3, <1>4
<1> QED  BY <1>5 DEF new, shift

LEMMA TakenNat ==
    ASSUME NEW ids, IsFiniteSet(ids), NEW col \in [ids -> Nat], NEW S \in SUBSET ids, S # {},
           NEW st, IsStatistic(st, ids), NEW utf \in Nat, \A f \in S : st.reliability[f] < UNIT,
           Accounted(col, S, st, utf)
    PROVE  UpdateColumn(col, S, st, utf, FALSE) \in [ids -> Nat]
<1> DEFINE shift == FALSE
           new == UpdateColumn(col, S, st, utf, shift)
<1>1. ~shift /\ \A f \in S : IF shift THEN st.reliability[f] > 0 ELSE st.reliability[f] < UNIT
  OBVIOUS
<1> HIDE DEF shift
<1>2. col \in [ids -> Int] /\ \A f \in S : col[f] \in Nat
  OBVIOUS
<1>3. new \in [ids -> Int] /\ \A f \in ids \ S : new[f] = col[f]
  BY <1>1, <1>2, UpdateColumnIs
<1>4. ASSUME NEW f \in S  PROVE new[f] \in Nat
  <2>1. Dealt(new, col, S, st, utf, shift)
    BY <1>1, <1>2, UpdateColumnDeals
  <2>2. PICK part : /\ Shares(part, S, utf)
                    /\ new[f] = IF shift THEN Weighted(col, st, f) + part[f]
                                ELSE Weighted(col, st, f) - part[f]
                    /\ ~shift /\ Accounted(col, S, st, utf) => part[f] <= Weighted(col, st, f)
    BY <2>1, Zenon DEF Dealt
  <2>3. part[f] \in Nat /\ Weighted(col, st, f) \in Nat
    BY <1>2, <2>2, WeightedIs DEF Shares
  <2>4. new[f] = Weighted(col, st, f) - part[f] /\ part[f] <= Weighted(col, st, f)
    BY <1>1, <2>2
  <2> QED  BY <2>3, <2>4
<1> HIDE DEF new
<1>5. new \in [ids -> Nat]
  BY <1>3, <1>4
<1> QED  BY <1>5 DEF new, shift

\* Where failures move traffic, the unreliable faces account for it, as long as they
\* are all the faces whose failures were added up.
LEMMA AccountedIs ==
    ASSUME NEW ids, IsFiniteSet(ids), NEW col \in [ids -> Int], NEW st, IsStatistic(st, ids),
           NEW unsat, NEW threshold \in Int, Failures(st, unsat, threshold, ids),
           NEW higher \in Int, threshold <= higher, NEW S, S = getUnreliableFaces(st, higher),
           \A f \in S : f \in ids /\ col[f] \in Nat, Part(st.utf, ALPHA) > 0
    PROVE  S # {} /\ Accounted(col, S, st, Part(st.utf, ALPHA))
<1> DEFINE w == [f \in S |-> Weighted(col, st, f)]
           less == [f \in S |-> w[f] * (UNIT - st.reliability[f])]
           same == [f \in S |-> Weighted(col, st, f) * (UNIT - st.reliability[f])]
<1>1. w \in [S -> Nat]
  BY WeightedIs
<1>2. ASSUME NEW f \in S  PROVE UNIT * w[f] >= ALPHA * st.actual[f]
  <2> DEFINE c == col[f]
             a == st.actual[f]
             x == w[f]
  <2>1. UNIT * x >= (UNIT - ALPHA) * c + ALPHA * a
    BY WeightedIs
  <2>2. c \in Nat /\ a \in Nat /\ x \in Nat
    BY <1>1 DEF IsStatistic
  <2> HIDE DEF c, a, x
  <2>3. UNIT * x >= ALPHA * a
    BY <2>1, <2>2 DEF UNIT, ALPHA
  <2> QED  BY <2>3 DEF a, x
<1>3. less = same
  OBVIOUS
<1> HIDE DEF w
<1>4. UNIT * Part(st.utf, ALPHA) <= SumOf(less, S) /\ S # {}
  BY <1>1, <1>2, FailuresCovered
<1> HIDE DEF less
<1> QED  BY <1>3, <1>4 DEF Accounted

\* A natural part of a natural number.
LEMMA PartNat ==
    /\ \A x \in Nat : Part(x, ALPHA) \in Nat /\ Part(x, SHIFT_TRAFFIC) \in Nat
    /\ \A x \in Nat : Part(x, PROBING_TRAFFIC) \in Nat /\ Part(x, PROBING_TRAFFIC) <= x
BY DEF Part, ALPHA, SHIFT_TRAFFIC, PROBING_TRAFFIC, UNIT

\* Probing takes no more from dropping than there is, and nothing from a face.
LEMMA ProbeNat ==
    ASSUME NEW prob, NEW ids, IsFiniteSet(ids), DROP_FACE_ID \in ids, IsColumns(prob, ids),
           NEW l \in Layers, NEW S \in SUBSET ids, NEW st, IsStatistic(st, ids),
           prob[l] \in [ids -> Nat], prob[0] \in [ids -> Nat]
    PROVE  /\ ProbeColumn(prob, l, S, st, TRUE)[l] \in [ids -> Nat]
           /\ ProbeColumn(prob, l, S, st, FALSE)[l] \in [ids -> Nat]
<1> DEFINE V == Nat
           yes == TRUE
           no == FALSE
<1>1. V \in {Int, Nat} /\ prob[l] \in [ids -> V] /\ prob[0] \in [ids -> V]
  OBVIOUS
<1> HIDE DEF yes, no, V
<1>2. ASSUME NEW fromTable  PROVE ProbeColumn(prob, l, S, st, fromTable)[l] \in [ids -> V]
  BY <1>1, ProbeShape
<1>3. /\ ProbeColumn(prob, l, S, st, yes)[l] \in [ids -> V]
      /\ ProbeColumn(prob, l, S, st, no)[l] \in [ids -> V]
  BY <1>2
<1> QED  BY <1>3 DEF yes, no, V

\* In each of its six cases an update of a layer leaves no negative entry in its
\* column, at a threshold no lower than the failures were added up with.
LEMMA LayerOverdrawsNothing ==
    ASSUME NEW t, NEW ids, IsFiniteSet(ids), DROP_FACE_ID \in ids, IsTable(t, ids), NEW l \in Layers,
           t.prob[l] \in [ids -> Nat], t.prob[0] \in [ids -> Nat],
           NEW st, IsStatistic(st, ids), NEW unsat, NEW threshold \in Int,
           Failures(st, unsat, threshold, ids), threshold <= t.curReliability
    PROVE  UpdateLayer(t, l, st).prob[l] \in [ids -> Nat]
<1> DEFINE reliable == getReliableFaces(st, t.curReliability)
           unreliable == getUnreliableFaces(st, t.curReliability)
           utf == Part(st.utf, ALPHA)
           column == t.prob[l]
<1>0. t.curReliability \in Int
  BY DEF IsTable, RELIABILITY_THRESHOLD_MIN, RELIABILITY_THRESHOLD_MAX
<1>1. IsColumns(t.prob, ids) /\ t.prob \in [Layers -> [ids -> Int]] /\ "prob" \in DOMAIN t
  BY DEF IsTable, IsColumns
<1>2. /\ reliable \in SUBSET ids /\ unreliable \in SUBSET ids
      /\ DROP_FACE_ID \notin reliable /\ DROP_FACE_ID \notin unreliable
      /\ reliable \cap unreliable = {}
      /\ \A f \in reliable : st.reliability[f] > 0
      /\ \A f \in unreliable : st.reliability[f] < UNIT
  BY ReliableAreFaces DEF IsTable
<1>3. utf \in Nat
  BY PartNat DEF Failures
<1>4. column \in [ids -> Nat]
  OBVIOUS
<1>5. ASSUME NEW col \in [ids -> Int], \A f \in unreliable : col[f] = column[f], utf > 0
      PROVE  unreliable # {} /\ Accounted(col, unreliable, st, utf)
  <2>1. \A f \in unreliable : f \in ids /\ col[f] \in Nat
    BY <1>2, <1>4, <1>5
  <2> HIDE DEF column
  <2> QED  BY <1>0, <1>5, <2>1, AccountedIs
<1> HIDE DEF reliable, unreliable, utf
<1>6. \A col \in [ids -> Nat] :
        /\ [t.prob EXCEPT ![l] = col][l] \in [ids -> Nat] /\ [t.prob EXCEPT ![l] = col][0] \in [ids -> Nat]
        /\ IsColumns([t.prob EXCEPT ![l] = col], ids)
  BY <1>1, LayersAre DEF IsColumns
<1>7. \A f \in ids : Weighted(column, st, f) \in Nat
  BY <1>4, WeightedIs
<1>8. \A s : Raise(s).prob = s.prob /\ Lower(s).prob = s.prob
  BY DEF Raise, Lower
<1>9. \A x \in Nat : [column EXCEPT ![DROP_FACE_ID] = x] \in [ids -> Nat]
  BY <1>4
<1>10. ASSUME utf > 0
       PROVE  DropUnsatisfied(t, l, st, utf, reliable, unreliable).prob[l] \in [ids -> Nat]
  <2> DEFINE dropped == [column EXCEPT ![DROP_FACE_ID] = Weighted(column, st, DROP_FACE_ID) + utf]
             prob == [t.prob EXCEPT ![l] = UpdateColumn(dropped, unreliable, st, utf, FALSE)]
             probing == ProbeColumn(prob, l, reliable, st, TRUE)
             probed == IF l \in t.jammed THEN prob ELSE probing
             after == [t EXCEPT !.prob = probed]
  <2>1. DropUnsatisfied(t, l, st, utf, reliable, unreliable) \in {after, Lower(after)}
    BY DEF DropUnsatisfied
  <2>2. dropped \in [ids -> Nat] /\ \A f \in unreliable : dropped[f] = column[f]
    <3>1. Weighted(column, st, DROP_FACE_ID) + utf \in Nat
      BY <1>3, <1>7
    <3>2. dropped \in [ids -> Nat]
      BY <1>9, <3>1
    <3> QED  BY <1>2, <1>4, <3>2
  <2> HIDE DEF dropped
  <2>3. unreliable # {} /\ Accounted(dropped, unreliable, st, utf)
    BY <1>5, <1>10, <2>2
  <2>4. UpdateColumn(dropped, unreliable, st, utf, FALSE) \in [ids -> Nat]
    BY <1>2, <1>3, <2>2, <2>3, TakenNat
  <2>5. prob[l] \in [ids -> Nat] /\ prob[0] \in [ids -> Nat] /\ IsColumns(prob, ids)
    BY <1>6, <2>4
  <2> HIDE DEF prob
  <2>6. probing[l] \in [ids -> Nat]
    BY <1>2, <2>5, ProbeNat
  <2> HIDE DEF probing
  <2>7. probed[l] \in [ids -> Nat]
    BY <2>5, <2>6
  <2> HIDE DEF probed
  <2>8. after.prob = probed
    BY <1>1
  <2> HIDE DEF after
  <2> QED  BY <1>8, <2>1, <2>7, <2>8
<1>11. ASSUME utf > 0
       PROVE  MoveToReliable(t, l, st, utf, reliable, unreliable).prob[l] \in [ids -> Nat]
  <2> DEFINE given == UpdateColumn(column, reliable, st, utf, TRUE)
             taken == UpdateColumn(given, unreliable, st, utf, FALSE)
             col == [taken EXCEPT ![DROP_FACE_ID] = Weighted(taken, st, DROP_FACE_ID)]
  <2>1. MoveToReliable(t, l, st, utf, reliable, unreliable).prob = [t.prob EXCEPT ![l] = col]
    BY <1>1 DEF MoveToReliable
  <2>2. given \in [ids -> Nat] /\ \A f \in unreliable : given[f] = column[f]
    <3> HIDE DEF column
    <3>1. given \in [ids -> Nat]
      BY <1>2, <1>3, <1>4, GivenNat
    <3>2. KeptButFor(reliable, given, column, ids)
      <4>1. column \in [ids -> Int] /\ (\A f \in reliable : column[f] \in Nat) /\ utf \in Int
        BY <1>2, <1>3, <1>4
      <4> QED  BY <1>2, <4>1, GivenIs
    <3> QED  BY <1>2, <3>1, <3>2 DEF KeptButFor
  <2> HIDE DEF given
  <2>3. unreliable # {} /\ Accounted(given, unreliable, st, utf)
    BY <1>5, <1>11, <2>2
  <2>4. taken \in [ids -> Nat]
    BY <1>2, <1>3, <2>2, <2>3, TakenNat
  <2> HIDE DEF taken
  <2>5. Weighted(taken, st, DROP_FACE_ID) \in Nat
    BY <2>4, WeightedIs
  <2>6. col \in [ids -> Nat]
    BY <2>4, <2>5
  <2> HIDE DEF col
  <2> QED  BY <1>6, <2>1, <2>6
<1>12. ProbeUnused(t, l, reliable).prob[l] \in [ids -> Nat]
  <2> DEFINE probe == Part(column[DROP_FACE_ID], PROBING_TRAFFIC)
             each == probe \div Cardinality(reliable)
             col == [f \in DOMAIN column |->
                        IF f = DROP_FACE_ID THEN column[f] - probe
                        ELSE IF f \in reliable THEN column[f] + each ELSE column[f]]
  <2>1. ProbeUnused(t, l, reliable).prob = [t.prob EXCEPT ![l] = col]
    BY <1>1 DEF ProbeUnused
  <2>2. probe \in Nat /\ probe <= column[DROP_FACE_ID] /\ column[DROP_FACE_ID] \in Nat
    BY <1>4, PartNat
  <2> HIDE DEF probe
  <2>3. reliable # {} => each \in Nat
    <3> DEFINE n == Cardinality(reliable)
    <3>1. reliable # {} => n \in Nat /\ n > 0
      BY <1>2, FS_Subset, FS_CardinalityType, FS_EmptySet
    <3> HIDE DEF n
    <3>2. reliable # {} => probe \div n \in Nat
      BY <2>2, <3>1
    <3> QED  BY <3>2 DEF n
  <2> HIDE DEF each, column
  <2>4. \A f \in reliable : column[f] + each \in Nat
    BY <1>2, <1>4, <2>3
  <2>5. column[DROP_FACE_ID] - probe \in Nat
    BY <2>2
  <2>6. col \in [ids -> Nat]
    BY <1>4, <2>4, <2>5
  <2> HIDE DEF col
  <2> QED  BY <1>6, <2>1, <2>6
<1>13. FollowTraffic(t, l, st).prob[l] \in [ids -> Nat]
  <2> DEFINE col == [f \in DOMAIN column |-> Weighted(column, st, f)]
  <2>1. FollowTraffic(t, l, st).prob = [t.prob EXCEPT ![l] = col]
    BY <1>1, <1>8 DEF FollowTraffic
  <2>2. col \in [ids -> Nat]
    BY <1>4, <1>7
  <2> HIDE DEF col
  <2> QED  BY <1>6, <2>1, <2>2
<1>14. ASSUME st.total # 0  PROVE DropLess(t, l, st, reliable).prob[l] \in [ids -> Nat]
  <2> DEFINE shifting == {f \in reliable : st.actual[f] > SHIFT_THRESHOLD}
             probing == reliable \ shifting
             drop == Weighted(column, st, DROP_FACE_ID)
             share == (UNIT * SumFunctionOnSet(st.forwarded, shifting)) \div st.total
             moved == Min({drop, Part(share, SHIFT_TRAFFIC)})
             less == [column EXCEPT ![DROP_FACE_ID] = drop - moved]
             shifted == [t.prob EXCEPT ![l] = UpdateColumn(less, shifting, st, moved, TRUE)]
             done == ProbeColumn(shifted, l, probing, st, TRUE)
             alone == ProbeColumn(t.prob, l, probing, st, FALSE)
             after == [t EXCEPT !.prob = done]
             only == [t EXCEPT !.prob = alone]
  <2>1. DropLess(t, l, st, reliable) \in {only, after, Raise(after)}
    BY DEF DropLess
  <2>2. /\ shifting \in SUBSET ids /\ probing \in SUBSET ids /\ DROP_FACE_ID \notin shifting
        /\ \A f \in shifting : st.reliability[f] > 0
    BY <1>2
  <2> HIDE DEF shifting, probing
  <2>3. drop \in Nat
    BY <1>7
  <2> HIDE DEF drop
  <2>4. share \in Nat
    <3> DEFINE x == SumFunctionOnSet(st.forwarded, shifting)
               y == st.total
    <3>1. y \in Nat /\ y # 0
      BY <1>14 DEF IsStatistic
    <3>2. x \in Nat
      <4>1. IsFiniteSet(shifting) /\ \A f \in shifting : st.forwarded[f] \in Nat
        BY <2>2, FS_Subset DEF IsStatistic
      <4> QED  BY <4>1, SumsOfFunctions, SumOfNaturals
    <3> HIDE DEF x, y
    <3>3. (UNIT * x) \div y \in Nat
      BY <3>1, <3>2, ShareIs
    <3> QED  BY <3>3 DEF x, y
  <2> HIDE DEF share
  <2>5. moved \in Nat /\ moved <= drop
    <3> DEFINE some == Part(share, SHIFT_TRAFFIC)
    <3>1. some \in Nat /\ some \in Int /\ drop \in Int
      BY <2>3, <2>4, PartNat
    <3> HIDE DEF some
    <3>2. Min({drop, some}) \in {drop, some} /\ Min({drop, some}) <= drop
      BY <3>1, MinOfTwo
    <3> QED  BY <2>3, <3>1, <3>2 DEF some
  <2> HIDE DEF moved
  <2>6. less \in [ids -> Nat]
    <3>1. drop - moved \in Nat
      BY <2>3, <2>5
    <3> QED  BY <1>9, <3>1
  <2> HIDE DEF less
  <2>7. UpdateColumn(less, shifting, st, moved, TRUE) \in [ids -> Nat]
    BY <2>2, <2>5, <2>6, GivenNat
  <2>8. IsColumns(shifted, ids) /\ shifted[l] \in [ids -> Nat] /\ shifted[0] \in [ids -> Nat]
    BY <1>6, <2>7
  <2> HIDE DEF shifted
  <2>9. done[l] \in [ids -> Nat]
    BY <2>2, <2>8, ProbeNat
  <2>10. alone[l] \in [ids -> Nat]
    BY <1>1, <2>2, ProbeNat
  <2> HIDE DEF done, alone
  <2>11. after.prob = done /\ only.prob = alone
    BY <1>1
  <2> HIDE DEF after, only
  <2> QED  BY <1>8, <2>1, <2>9, <2>10, <2>11
<1>15. \/ utf > 0 /\ UpdateLayer(t, l, st) \in
            {DropUnsatisfied(t, l, st, utf, reliable, unreliable),
             MoveToReliable(t, l, st, utf, reliable, unreliable)}
       \/ UpdateLayer(t, l, st) \in {t, ProbeUnused(t, l, reliable), FollowTraffic(t, l, st)}
       \/ st.total # 0 /\ UpdateLayer(t, l, st) = DropLess(t, l, st, reliable)
  BY DEF UpdateLayer, reliable, unreliable, utf
<1> QED  BY <1>4, <1>10, <1>11, <1>12, <1>13, <1>14, <1>15

\* What the next update of an entry evaluates, and how its columns follow from it.
UpdatingEntry(c, ids) ==
    LET entry == engine.entries[c]
    IN /\ LayerByLayer(Updating(c), entry.table, Evaluated(c), ids)
       /\ IsNormal(entry.table, ids)
       /\ \A l \in Layers : /\ IsStatistic(Evaluated(c)[l], ids)
                            /\ Failures(Evaluated(c)[l], entry.stats[l].unsat,
                                        entry.table.curReliability, ids)

LEMMA UpdatingEntryIs ==
    ASSUME EngineInv, NEW c \in DOMAIN engine.entries
    PROVE  /\ UpdatingEntry(c, engine.faceIds)
           /\ IsFiniteSet(engine.faceIds) /\ DROP_FACE_ID \in engine.faceIds
<1> DEFINE ids == DropAnd(faces)
           entry == engine.entries[c]
           stats == Evaluated(c)
           threshold == entry.table.curReliability
<1>1. engine.faceIds = ids /\ IsEntry(entry, ids)
  BY DEF EngineInv, InUse, IsEngine
<1>2. IsFiniteSet(ids) /\ DROP_FACE_ID \in ids
  <2>1. IsFiniteSet(faces)
    BY FacesAreNumbers, FS_Subset DEF EngineInv, InUse
  <2>2. IsFiniteSet({DROP_FACE_ID})
    BY FS_Singleton
  <2> QED  BY <2>1, <2>2, FS_Union DEF DropAnd
<1>3. stats = resetStatistics(entry.stats, threshold)
  BY DEF Evaluated
<1>4. Updating(c) = UpdateUpTo(entry.table, stats)
  BY DEF Updating
<1> HIDE DEF ids, entry, stats, threshold
<1>5. IsNormal(entry.table, ids) /\ IsStatistics(entry.stats, ids)
  BY <1>1 DEF IsEntry
<1>6. IsStatistics(stats, ids)
  BY <1>2, <1>3, <1>5, ResetsShape
<1>7. LayerByLayer(Updating(c), entry.table, stats, ids)
  BY <1>2, <1>4, <1>5, <1>6, UpdatingIs
<1>8. ASSUME NEW l \in Layers
      PROVE  IsStatistic(stats[l], ids) /\ Failures(stats[l], entry.stats[l].unsat, threshold, ids)
  <2>1. stats[l] = ResetLayer(entry.stats[l], threshold)
    BY <1>3 DEF resetStatistics
  <2>2. IsStatistic(stats[l], ids) /\ IsStatistic(entry.stats[l], ids)
    BY <1>5, <1>6 DEF IsStatistics
  <2> QED  BY <1>2, <2>1, <2>2, ResetIs
<1>9. UpdatingEntry(c, ids)
  BY <1>5, <1>7, <1>8 DEF UpdatingEntry, entry, stats, threshold
<1> QED  BY <1>1, <1>2, <1>9

\* The base layer is always updated with the threshold its failures were added up
\* with, and so its column, which the probes of the others are shared by, holds
\* naturals.
LEMMA WhatIsOverdrawn == EngineInv => NeverOverdrawn
<1> SUFFICES ASSUME EngineInv, NEW c \in DOMAIN engine.entries, NEW l \in Layers, AsStrict(c, l),
                    NEW f \in engine.faceIds
             PROVE  Unnormalised(c)[l][f] >= 0
  BY Zenon DEF NeverOverdrawn
<1> DEFINE ids == engine.faceIds
           entry == engine.entries[c]
           t == entry.table
           stats == Evaluated(c)
           up == Updating(c)
           threshold == t.curReliability
<1>1. /\ LayerByLayer(up, t, stats, ids) /\ IsNormal(t, ids)
      /\ \A k \in Layers : IsStatistic(stats[k], ids)
                           /\ Failures(stats[k], entry.stats[k].unsat, threshold, ids)
      /\ IsFiniteSet(ids) /\ DROP_FACE_ID \in ids
  BY UpdatingEntryIs DEF UpdatingEntry
<1>2. threshold <= up[l - 1].curReliability /\ Unnormalised(c) = up[MAX_LAYERS - 1].prob
  BY DEF AsStrict, Unnormalised
<1> HIDE DEF ids, t, stats, up
<1>3. threshold \in Int /\ \A k \in Layers : t.prob[k] \in [ids -> Nat]
  <2>1. \A x \in RELIABILITY_THRESHOLD_MIN .. RELIABILITY_THRESHOLD_MAX : x \in Int
    BY DEF RELIABILITY_THRESHOLD_MIN, RELIABILITY_THRESHOLD_MAX
  <2> QED  BY <1>1, <2>1 DEF IsNormal, IsTable, IsDistribution
<1>4. /\ 0 \in Layers /\ MAX_LAYERS - 1 \in Layers /\ l <= MAX_LAYERS - 1 /\ 0 <= l
      /\ l # 0 => l - 1 \in Layers /\ 0 <= l - 1
  BY LayersAre
<1>5. ASSUME NEW k \in Layers, threshold <= up[k - 1].curReliability, up[k - 1].prob[0] \in [ids -> Nat]
      PROVE  up[k].prob[k] \in [ids -> Nat]
  <2> DEFINE s == up[k - 1]
             st == stats[k]
  <2>1. up[k] = UpdateLayer(s, k, st) /\ IsTable(s, ids) /\ s.prob[k] = t.prob[k]
    BY <1>1 DEF LayerByLayer
  <2>2. IsStatistic(st, ids) /\ Failures(st, entry.stats[k].unsat, threshold, ids)
    BY <1>1
  <2>3. s.prob[k] \in [ids -> Nat] /\ s.prob[0] \in [ids -> Nat] /\ threshold <= s.curReliability
    BY <1>3, <1>5, <2>1
  <2> HIDE DEF s, st, threshold
  <2>4. UpdateLayer(s, k, st).prob[k] \in [ids -> Nat]
    BY <1>1, <1>3, <2>1, <2>2, <2>3, LayerOverdrawsNothing
  <2> QED  BY <2>1, <2>4
<1>6. up[0].prob[0] \in [ids -> Nat]
  <2>1. up[0 - 1] = t /\ up[0 - 1].prob[0] \in [ids -> Nat]
    BY <1>1, <1>3, <1>4 DEF LayerByLayer
  <2>2. threshold <= up[0 - 1].curReliability
    BY <1>3, <2>1
  <2> HIDE DEF threshold
  <2> QED  BY <1>4, <1>5, <2>1, <2>2
<1>7. up[l - 1].prob[0] \in [ids -> Nat]
  <2>1. CASE l = 0
    BY <1>1, <1>3, <1>4, <2>1 DEF LayerByLayer
  <2>2. CASE l # 0
    <3>1. up[l - 1].prob[0] = up[0].prob[0]
      BY <1>1, <1>4, <2>2 DEF LayerByLayer
    <3> QED  BY <1>6, <3>1
  <2> QED  BY <2>1, <2>2
<1>8. up[l].prob[l] \in [ids -> Nat]
  BY <1>2, <1>5, <1>7
<1>9. Unnormalised(c)[l] = up[l].prob[l]
  BY <1>1, <1>2, <1>4 DEF LayerByLayer
<1> QED  BY <1>8, <1>9 DEF ids

\* For any faces, routes, contents and layers, and whatever is observed: no update
\* takes more from a face or from dropping than there is, as long as the lower
\* layers have not made the threshold lower than the failures were added up with.
THEOREM NothingIsOverdrawn == Spec => []NeverOverdrawn
<1>1. Init => EngineInv
  BY InitEngine
<1>2. IInv /\ EngineInv /\ [Next]_vars => EngineInv'
  BY StepEngine
<1> QED  BY Invariance, <1>1, <1>2, WhatIsOverdrawn, PTL DEF Spec

-----------------------------------------------------------------------------
(* What moves is conserved.                                                 *)

\* What the faces carried adds up to everything, rounded up for each of them.
LEMMA ActualSum ==
    ASSUME NEW ids, IsFiniteSet(ids), NEW st, IsStatistic(st, ids), NEW unsat, NEW threshold,
           Failures(st, unsat, threshold, ids), st.total # 0
    PROVE  /\ SumOf(st.actual, ids) \in Nat
           /\ UNIT <= SumOf(st.actual, ids) /\ SumOf(st.actual, ids) <= UNIT + Cardinality(ids)
<1> DEFINE T == st.total
           n == Cardinality(ids)
           carried == [f \in ids |-> T * st.actual[f]]
           results == [f \in ids |-> UNIT * st.forwarded[f]]
           each == [f \in ids |-> T]
           more == [f \in ids |-> results[f] + each[f]]
           A == SumOf(st.actual, ids)
<1>1. /\ T \in Nat /\ T > 0 /\ T = SumOf(st.forwarded, ids) /\ n \in Nat
      /\ \A f \in ids : st.actual[f] \in Nat /\ st.forwarded[f] \in Nat
  BY FS_CardinalityType DEF IsStatistic, Failures
<1>2. ASSUME NEW f \in ids
      PROVE  /\ T * st.actual[f] \in Int /\ UNIT * st.forwarded[f] \in Int
             /\ UNIT * st.forwarded[f] <= T * st.actual[f]
             /\ T * st.actual[f] <= UNIT * st.forwarded[f] + T
  <2> DEFINE a == st.actual[f]
             F == st.forwarded[f]
  <2>1. a * T >= UNIT * F /\ a * T < UNIT * F + T
    BY DEF Failures
  <2>2. a \in Nat /\ F \in Nat
    BY <1>1
  <2> HIDE DEF a, F, T
  <2>3. T * a = a * T /\ T * a \in Int /\ UNIT * F \in Int
    BY <1>1, <2>2 DEF UNIT
  <2>4. UNIT * F <= T * a /\ T * a <= UNIT * F + T
    BY <1>1, <2>1, <2>3
  <2> QED  BY <2>3, <2>4 DEF a, F
<1> HIDE DEF T
<1>3. /\ Integral(carried, ids) /\ Integral(results, ids) /\ Integral(each, ids) /\ Integral(more, ids)
      /\ Integral(st.actual, ids) /\ Integral(st.forwarded, ids)
  BY <1>1, <1>2 DEF Integral
<1>4. /\ SumOf(carried, ids) = T * A /\ SumOf(results, ids) = UNIT * SumOf(st.forwarded, ids)
      /\ SumOf(each, ids) = T * n
  <2>1. UNIT \in Int
    BY DEF UNIT
  <2>2. SumOf(carried, ids) = T * A
    BY <1>1, <1>3, SumScale
  <2>3. SumOf(results, ids) = UNIT * SumOf(st.forwarded, ids)
    BY <1>3, <2>1, SumScale
  <2>4. SumOf(each, ids) = T * n
    BY <1>1, SumConstant
  <2> QED  BY <2>2, <2>3, <2>4
<1>5. SumOf(results, ids) <= SumOf(carried, ids)
  <2>1. \A f \in ids : results[f] <= carried[f]
    BY <1>2
  <2> HIDE DEF results, carried
  <2> QED  BY <1>3, <2>1, SumMonotone
<1>6. SumOf(carried, ids) <= SumOf(results, ids) + SumOf(each, ids)
  <2>1. \A f \in ids : carried[f] <= more[f]
    BY <1>2
  <2>2. SumOf(more, ids) = SumOf(results, ids) + SumOf(each, ids)
    <3> HIDE DEF results, each
    <3> QED  BY <1>3, SumOfBoth
  <2> HIDE DEF more, carried
  <2> QED  BY <1>3, <2>1, <2>2, SumMonotone
<1>7. A \in Nat
  BY <1>1, SumOfNaturals
<1>8. UNIT * T <= T * A /\ T * A <= UNIT * T + T * n
  BY <1>1, <1>4, <1>5, <1>6
<1> HIDE DEF A, n
<1>9. UNIT <= A
  <2>1. SUFFICES ASSUME A + 1 <= UNIT  PROVE FALSE
    BY <1>7 DEF UNIT
  <2>2. T * (A + 1) <= T * UNIT
    BY <1>1, <1>7, <2>1 DEF UNIT
  <2>3. T * (A + 1) = T * A + T /\ T * UNIT = UNIT * T /\ T * A \in Int
    BY <1>1, <1>7 DEF UNIT
  <2> QED  BY <1>1, <1>8, <2>2, <2>3 DEF UNIT
<1>10. A <= UNIT + n
  <2>1. SUFFICES ASSUME UNIT + n + 1 <= A  PROVE FALSE
    BY <1>1, <1>7 DEF UNIT
  <2>2. T * (UNIT + n + 1) <= T * A
    BY <1>1, <1>7, <2>1 DEF UNIT
  <2>3. T * (UNIT + n + 1) = UNIT * T + T * n + T /\ T * A \in Int /\ T * n \in Int
    BY <1>1, <1>7 DEF UNIT
  <2> QED  BY <1>1, <1>8, <2>2, <2>3 DEF UNIT
<1> QED  BY <1>7, <1>9, <1>10 DEF A, n

\* What the probabilities are drawn to adds up to one, but for rounding.
LEMMA WeightedSum ==
    ASSUME NEW ids, IsFiniteSet(ids), NEW st, IsStatistic(st, ids), NEW unsat, NEW threshold,
           Failures(st, unsat, threshold, ids), st.total # 0,
           NEW col, IsDistribution(col, ids),
           NEW w, \A f \in ids : w[f] = Weighted(col, st, f)
    PROVE  /\ SumOf(w, ids) \in Nat
           /\ UNIT - Cardinality(ids) <= SumOf(w, ids)
           /\ SumOf(w, ids) <= UNIT + 2 * Cardinality(ids)
<1> DEFINE n == Cardinality(ids)
           old == [f \in ids |-> 650 * col[f]]
           seen == [f \in ids |-> 350 * st.actual[f]]
           both == [f \in ids |-> old[f] + seen[f]]
           drawn == [f \in ids |-> 1000 * w[f]]
           each == [f \in ids |-> 1000]
           more == [f \in ids |-> both[f] + each[f]]
           W == SumOf(w, ids)
           C == SumOf(col, ids)
           A == SumOf(st.actual, ids)
<1>1. /\ \A f \in ids : col[f] \in Nat /\ st.actual[f] \in Nat
      /\ C \in UNIT - n .. UNIT /\ n \in Nat
  BY FS_CardinalityType DEF IsDistribution, IsStatistic
<1>2. ASSUME NEW f \in ids
      PROVE  /\ w[f] \in Nat /\ 650 * col[f] + 350 * st.actual[f] <= 1000 * w[f]
             /\ 1000 * w[f] <= (650 * col[f] + 350 * st.actual[f]) + 1000
  <2> DEFINE c == col[f]
             a == st.actual[f]
             x == w[f]
  <2>1. c \in Nat /\ a \in Nat /\ c \in Int
    BY <1>1
  <2>2. x = Weighted(col, st, f)
    OBVIOUS
  <2>3. /\ x \in Int /\ x \in Nat
        /\ UNIT * x >= (UNIT - ALPHA) * c + ALPHA * a
        /\ UNIT * x < (UNIT - ALPHA) * c + ALPHA * a + UNIT
    BY <2>1, <2>2, WeightedIs
  <2> HIDE DEF c, a, x
  <2>4. x \in Nat /\ 650 * c + 350 * a <= 1000 * x /\ 1000 * x <= (650 * c + 350 * a) + 1000
    BY <2>1, <2>3 DEF UNIT, ALPHA
  <2> QED  BY <2>4 DEF c, a, x
<1>3. /\ Integral(old, ids) /\ Integral(seen, ids) /\ Integral(both, ids) /\ Integral(drawn, ids)
      /\ Integral(each, ids) /\ Integral(more, ids)
      /\ Integral(col, ids) /\ Integral(st.actual, ids) /\ Integral(w, ids)
  BY <1>1, <1>2 DEF Integral
<1>4. /\ SumOf(old, ids) = 650 * C /\ SumOf(seen, ids) = 350 * A /\ SumOf(drawn, ids) = 1000 * W
      /\ SumOf(each, ids) = 1000 * n
  <2>1. 650 \in Int /\ 350 \in Int /\ 1000 \in Int
    OBVIOUS
  <2>2. SumOf(old, ids) = 650 * C
    BY <1>3, <2>1, SumScale
  <2>3. SumOf(seen, ids) = 350 * A
    BY <1>3, <2>1, SumScale
  <2>4. SumOf(drawn, ids) = 1000 * W
    BY <1>3, <2>1, SumScale
  <2>5. SumOf(each, ids) = 1000 * n
    BY <2>1, SumConstant
  <2> QED  BY <2>2, <2>3, <2>4, <2>5
<1>5. SumOf(both, ids) = SumOf(old, ids) + SumOf(seen, ids)
  <2> HIDE DEF old, seen
  <2> QED  BY <1>3, SumOfBoth
<1>6. SumOf(both, ids) <= SumOf(drawn, ids)
  <2>1. \A f \in ids : both[f] <= drawn[f]
    BY <1>2
  <2> HIDE DEF both, drawn
  <2> QED  BY <1>3, <2>1, SumMonotone
<1>7. SumOf(drawn, ids) <= SumOf(both, ids) + SumOf(each, ids)
  <2>1. \A f \in ids : drawn[f] <= more[f]
    BY <1>2
  <2>2. SumOf(more, ids) = SumOf(both, ids) + SumOf(each, ids)
    <3> HIDE DEF both, each
    <3> QED  BY <1>3, SumOfBoth
  <2> HIDE DEF more, drawn
  <2> QED  BY <1>3, <2>1, <2>2, SumMonotone
<1>8. A \in Nat /\ UNIT <= A /\ A <= UNIT + n
  BY ActualSum
<1>9. W \in Nat
  BY <1>2, SumOfNaturals
<1>10. C \in Int /\ 1000 - n <= C /\ C <= 1000
  <2> HIDE DEF C, n
  <2> QED  BY <1>1 DEF UNIT
<1> HIDE DEF n, W, C, A, old, seen, both, drawn, each
<1>11. /\ 650 * C + 350 * A <= 1000 * W /\ 1000 * W <= 650 * C + 350 * A + 1000 * n
  BY <1>4, <1>5, <1>6, <1>7
<1>12. UNIT - n <= W /\ W <= UNIT + 2 * n
  BY <1>1, <1>8, <1>9, <1>10, <1>11 DEF UNIT
<1> QED  BY <1>9, <1>12 DEF n, W

\* What is dealt out to the faces of R and taken from those of U is the same, but
\* for rounding.
LEMMA DealtIsConserved ==
    ASSUME NEW R, IsFiniteSet(R), NEW U, IsFiniteSet(U), R \cap U = {},
           NEW d, d \notin R \cup U, NEW ids, ids = R \cup U \cup {d}, NEW utf \in Nat,
           NEW w \in [ids -> Nat], NEW new \in [ids -> Int],
           NEW p, Shares(p, R, utf), NEW q, Shares(q, U, utf),
           \A f \in R : new[f] = w[f] + p[f], \A f \in U : new[f] = w[f] - q[f], new[d] = w[d]
    PROVE  /\ SumOf(w, ids) - Cardinality(ids) <= SumOf(new, ids)
           /\ SumOf(new, ids) <= SumOf(w, ids) + Cardinality(ids)
<1> DEFINE wp == [f \in R |-> w[f] + p[f]]
           nq == [f \in U |-> new[f] + q[f]]
           D == {d}
           nR == SumOf(new, R)
           nU == SumOf(new, U)
           wR == SumOf(w, R)
           wU == SumOf(w, U)
           P == SumOf(p, R)
           Q == SumOf(q, U)
           sizeR == Cardinality(R)
           sizeU == Cardinality(U)
<1>1. /\ \A f \in R : p[f] \in Nat
      /\ P \in Nat /\ P <= utf /\ utf <= P + sizeR
  BY DEF Shares
<1>2. /\ \A f \in U : q[f] \in Nat
      /\ Q \in Nat /\ Q <= utf /\ utf <= Q + sizeU
  BY DEF Shares
<1>3. IsFiniteSet(D) /\ Cardinality(D) = 1
  BY FS_Singleton
<1>4. /\ IsFiniteSet(R \cup U) /\ (R \cup U) \cap D = {} /\ ids = (R \cup U) \cup D /\ IsFiniteSet(ids)
  BY <1>3, FS_Union
<1>5. Cardinality(ids) = sizeR + sizeU + 1 /\ sizeR \in Nat /\ sizeU \in Nat
  <2>1. sizeR \in Nat /\ sizeU \in Nat /\ Cardinality(R \cup U) \in Nat
    BY <1>4, FS_CardinalityType
  <2>2. Cardinality(R \cup U) = sizeR + sizeU
    <3>1. Cardinality(R \cup U) = sizeR + sizeU - Cardinality(R \cap U)
      BY FS_Union
    <3> QED  BY <2>1, <3>1, FS_EmptySet
  <2>3. Cardinality(ids) = Cardinality(R \cup U) + Cardinality(D) - Cardinality((R \cup U) \cap D)
    BY <1>3, <1>4, FS_Union
  <2>4. Cardinality((R \cup U) \cap D) = 0
    BY <1>4, FS_EmptySet
  <2> QED  BY <1>3, <2>1, <2>2, <2>3, <2>4
<1>6. /\ Integral(w, ids) /\ Integral(w, R) /\ Integral(w, U) /\ Integral(w, R \cup U) /\ Integral(w, D)
      /\ Integral(new, ids) /\ Integral(new, R) /\ Integral(new, U) /\ Integral(new, R \cup U)
      /\ Integral(new, D) /\ Integral(p, R) /\ Integral(q, U)
  BY <1>1, <1>2 DEF Integral
<1>7. SumOf(w, ids) = wR + wU + w[d] /\ w[d] \in Nat /\ wR \in Int /\ wU \in Int
  <2>1. SumOf(w, R \cup U) = wR + wU
    BY <1>6, SumApart
  <2>2. SumOf(w, (R \cup U) \cup D) = SumOf(w, R \cup U) + SumOf(w, D)
    BY <1>3, <1>4, <1>6, SumApart
  <2>3. SumOf(w, D) = w[d] /\ w[d] \in Nat
    BY SumOfOne
  <2>4. wR \in Int /\ wU \in Int
    BY <1>6, SumType
  <2> QED  BY <1>4, <2>1, <2>2, <2>3, <2>4
<1>8. SumOf(new, ids) = nR + nU + w[d] /\ nR \in Int /\ nU \in Int
  <2>1. SumOf(new, R \cup U) = nR + nU
    BY <1>6, SumApart
  <2>2. SumOf(new, (R \cup U) \cup D) = SumOf(new, R \cup U) + SumOf(new, D)
    BY <1>3, <1>4, <1>6, SumApart
  <2>3. SumOf(new, D) = w[d]
    BY SumOfOne
  <2>4. nR \in Int /\ nU \in Int
    BY <1>6, SumType
  <2> QED  BY <1>4, <2>1, <2>2, <2>3, <2>4
<1>9. nR = wR + P
  <2>1. \A f \in R : new[f] = wp[f]
    OBVIOUS
  <2>2. SumOf(new, R) = SumOf(wp, R)
    <3> HIDE DEF wp
    <3> QED  BY <1>6, <2>1, SumEqual
  <2> QED  BY <1>6, <2>2, SumOfBoth
<1>10. wU = nU + Q
  <2>1. \A f \in U : w[f] = nq[f]
    BY <1>2
  <2>2. SumOf(w, U) = SumOf(nq, U)
    <3> HIDE DEF nq
    <3> QED  BY <1>6, <2>1, SumEqual
  <2> QED  BY <1>6, <2>2, SumOfBoth
<1> HIDE DEF nR, nU, wR, wU, P, Q, sizeR, sizeU
<1> QED  BY <1>1, <1>2, <1>5, <1>7, <1>8, <1>9, <1>10

\* Where failures move traffic to reliable faces the column sums up to one.
LEMMA LayerConserves ==
    ASSUME NEW t, NEW ids, IsFiniteSet(ids), DROP_FACE_ID \in ids, IsTable(t, ids), NEW l \in Layers,
           IsDistribution(t.prob[l], ids),
           NEW st, IsStatistic(st, ids), NEW unsat, NEW threshold \in Int,
           Failures(st, unsat, threshold, ids), threshold <= t.curReliability,
           Part(st.utf, ALPHA) > 0,
           SumFunctionOnSet(st.actual, getReliableFaces(st, t.curReliability)) > 0
    PROVE  SumFunction(UpdateLayer(t, l, st).prob[l])
                \in UNIT - 2 * Cardinality(ids) .. UNIT + 3 * Cardinality(ids)
<1> DEFINE R == getReliableFaces(st, t.curReliability)
           U == getUnreliableFaces(st, t.curReliability)
           utf == Part(st.utf, ALPHA)
           column == t.prob[l]
           given == UpdateColumn(column, R, st, utf, TRUE)
           taken == UpdateColumn(given, U, st, utf, FALSE)
           last == [taken EXCEPT ![DROP_FACE_ID] = Weighted(taken, st, DROP_FACE_ID)]
           w == [f \in ids |-> Weighted(column, st, f)]
           n == Cardinality(ids)
<1>0. t.curReliability \in Int /\ DOMAIN st.reliability = ids /\ \A f \in ids : st.reliability[f] \in Int
  <2>1. st.reliability \in [ids -> 0 .. UNIT]
    BY DEF IsStatistic
  <2>2. \A r \in 0 .. UNIT : r \in Int
    OBVIOUS
  <2> QED  BY <2>1, <2>2 DEF IsTable, RELIABILITY_THRESHOLD_MIN, RELIABILITY_THRESHOLD_MAX
<1>1. /\ R \in SUBSET ids /\ U \in SUBSET ids /\ DROP_FACE_ID \notin R \cup U /\ R \cap U = {}
      /\ \A f \in R : st.reliability[f] > 0
      /\ \A f \in U : st.reliability[f] < UNIT
  BY ReliableAreFaces DEF IsTable
<1>2. ids = R \cup U \cup {DROP_FACE_ID}
  BY <1>0, <1>1 DEF getReliableFaces, getUnreliableFaces
<1>3. utf \in Nat /\ utf > 0
  BY PartNat DEF Failures
<1>4. column \in [ids -> Nat] /\ column \in [ids -> Int]
  BY DEF IsDistribution
<1>5. R # {}
  BY SumsOfFunctions, SumEmpty
<1>6. st.total # 0
  <2>1. st.total = 0 => utf = 0
    BY DEF Failures, Part, ALPHA, UNIT
  <2> QED  BY <1>3, <2>1
<1>7. UpdateLayer(t, l, st).prob[l] = last
  <2>1. SumFunctionOnSet(st.actual, R) # 0
    OBVIOUS
  <2>2. UpdateLayer(t, l, st) = MoveToReliable(t, l, st, utf, R, U)
    BY <1>3, <2>1 DEF UpdateLayer
  <2>3. MoveToReliable(t, l, st, utf, R, U).prob = [t.prob EXCEPT ![l] = last]
    BY DEF MoveToReliable, IsTable
  <2> HIDE DEF last
  <2> QED  BY <2>2, <2>3 DEF IsTable, IsColumns
<1>8. \A f \in U : f \in ids /\ column[f] \in Nat
  BY <1>1, <1>4
<1>9. \A col \in [ids -> Int] : (\A f \in U : col[f] \in Nat) => U # {} /\ Accounted(col, U, st, utf)
  <2> HIDE DEF column
  <2> QED  BY <1>0, <1>1, <1>3, AccountedIs
<1> HIDE DEF R, U, utf, column
<1>10. IsFiniteSet(R) /\ IsFiniteSet(U)
  BY <1>1, FS_Subset
<1>11. /\ given \in [ids -> Int] /\ \A f \in ids \ R : given[f] = column[f]
       /\ \E p : Shares(p, R, utf) /\ \A f \in R : given[f] = w[f] + p[f]
  <2> DEFINE shift == TRUE
             new == UpdateColumn(column, R, st, utf, shift)
  <2>0. shift
    OBVIOUS
  <2>1. /\ \A f \in R : column[f] \in Nat
        /\ \A f \in R : IF shift THEN st.reliability[f] > 0 ELSE st.reliability[f] < UNIT
        /\ utf \in Int
    BY <1>1, <1>3, <1>4
  <2> HIDE DEF shift
  <2>2. new \in [ids -> Int] /\ \A f \in ids \ R : new[f] = column[f]
    BY <1>1, <1>4, <2>1, UpdateColumnIs
  <2>3. Dealt(new, column, R, st, utf, shift)
    BY <1>1, <1>3, <1>4, <1>5, <2>1, UpdateColumnDeals
  <2> HIDE DEF new
  <2>4. PICK p : /\ Shares(p, R, utf)
                 /\ \A f \in R : new[f] = IF shift THEN Weighted(column, st, f) + p[f]
                                          ELSE Weighted(column, st, f) - p[f]
    BY <2>3, Zenon DEF Dealt
  <2>5. \A f \in R : new[f] = w[f] + p[f]
    BY <1>1, <2>0, <2>4
  <2>6. new = given
    BY DEF new, shift
  <2> HIDE DEF given, w
  <2> QED  BY <2>2, <2>4, <2>5, <2>6
<1> HIDE DEF given
<1>12. /\ taken \in [ids -> Int] /\ \A f \in ids \ U : taken[f] = given[f]
       /\ \E q : Shares(q, U, utf) /\ \A f \in U : taken[f] = w[f] - q[f]
  <2> DEFINE shift == FALSE
             new == UpdateColumn(given, U, st, utf, shift)
  <2>0. ~shift
    OBVIOUS
  <2>1. /\ \A f \in U : given[f] \in Nat
        /\ \A f \in U : IF shift THEN st.reliability[f] > 0 ELSE st.reliability[f] < UNIT
        /\ utf \in Int /\ given \in [ids -> Int] /\ U \in SUBSET ids
    BY <1>1, <1>3, <1>4, <1>11
  <2>2. U # {}
    BY <1>9, <1>11, <2>1
  <2> HIDE DEF shift
  <2>3. new \in [ids -> Int] /\ \A f \in ids \ U : new[f] = given[f]
    BY <2>1, UpdateColumnIs
  <2>4. Dealt(new, given, U, st, utf, shift)
    BY <1>3, <2>1, <2>2, UpdateColumnDeals
  <2> HIDE DEF new
  <2>5. PICK q : /\ Shares(q, U, utf)
                 /\ \A f \in U : new[f] = IF shift THEN Weighted(given, st, f) + q[f]
                                          ELSE Weighted(given, st, f) - q[f]
    BY <2>4, Zenon DEF Dealt
  <2>6. \A f \in U : new[f] = Weighted(given, st, f) - q[f]
    BY <2>0, <2>5
  <2>7. \A f \in U : Weighted(given, st, f) = w[f]
    BY <1>1, <1>11 DEF Weighted
  <2>8. new = taken
    BY DEF new, shift
  <2> HIDE DEF taken, w
  <2>9. \A f \in U : new[f] = w[f] - q[f]
    BY <2>6, <2>7
  <2> QED  BY <2>3, <2>5, <2>8, <2>9
<1> HIDE DEF taken
<1>13. PICK p : Shares(p, R, utf) /\ \A f \in R : given[f] = w[f] + p[f]
  BY <1>11
<1>14. PICK q : Shares(q, U, utf) /\ \A f \in U : taken[f] = w[f] - q[f]
  BY <1>12
<1>15. w \in [ids -> Nat]
  BY <1>4, WeightedIs
<1>16. Weighted(taken, st, DROP_FACE_ID) = w[DROP_FACE_ID]
  BY <1>1, <1>11, <1>12 DEF Weighted
<1>17. last \in [ids -> Int] /\ last[DROP_FACE_ID] = w[DROP_FACE_ID]
  BY <1>12, <1>15, <1>16
<1>18. \A f \in R : last[f] = w[f] + p[f]
  BY <1>1, <1>12, <1>13
<1>19. \A f \in U : last[f] = w[f] - q[f]
  BY <1>1, <1>12, <1>14
<1>20. \A f \in ids : w[f] = Weighted(column, st, f)
  OBVIOUS
<1> HIDE DEF last, w
<1>21. SumOf(w, ids) - n <= SumOf(last, ids) /\ SumOf(last, ids) <= SumOf(w, ids) + n
  BY <1>1, <1>2, <1>3, <1>10, <1>13, <1>14, <1>15, <1>17, <1>18, <1>19, DealtIsConserved
<1>22. SumOf(w, ids) \in Nat /\ UNIT - n <= SumOf(w, ids) /\ SumOf(w, ids) <= UNIT + 2 * n
  BY <1>6, <1>20, WeightedSum DEF column
<1>23. SumFunction(last) = SumOf(last, ids) /\ SumOf(last, ids) \in Int
  BY <1>17, SumsOfFunctions, SumType DEF Integral
<1>24. n \in Nat
  BY FS_CardinalityType
<1> DEFINE x == SumOf(last, ids)
           y == SumOf(w, ids)
<1>25. x \in UNIT - 2 * n .. UNIT + 3 * n
  <2>1. x \in Int /\ y \in Nat /\ y - n <= x /\ x <= y + n /\ UNIT - n <= y /\ y <= UNIT + 2 * n
    BY <1>21, <1>22, <1>23
  <2> HIDE DEF x, y, n
  <2> QED  BY <1>24, <2>1 DEF UNIT
<1> QED  BY <1>7, <1>23, <1>25

LEMMA WhatIsConserved == EngineInv => MovedTrafficConserved
<1> SUFFICES ASSUME EngineInv, NEW c \in DOMAIN engine.entries, NEW l \in Layers, AsStrict(c, l),
                    Part(Evaluated(c)[l].utf, ALPHA) > 0,
                    SumFunctionOnSet(Evaluated(c)[l].actual,
                        getReliableFaces(Evaluated(c)[l], Updating(c)[l - 1].curReliability)) > 0
             PROVE  SumFunction(Unnormalised(c)[l])
                        \in UNIT - 2 * Cardinality(engine.faceIds) .. UNIT + 3 * Cardinality(engine.faceIds)
  BY Zenon DEF MovedTrafficConserved
<1> DEFINE ids == engine.faceIds
           entry == engine.entries[c]
           t == entry.table
           stats == Evaluated(c)
           up == Updating(c)
           threshold == t.curReliability
           s == up[l - 1]
           st == stats[l]
<1>1. /\ LayerByLayer(up, t, stats, ids) /\ IsNormal(t, ids)
      /\ IsStatistic(st, ids) /\ Failures(st, entry.stats[l].unsat, threshold, ids)
      /\ IsFiniteSet(ids) /\ DROP_FACE_ID \in ids
  BY UpdatingEntryIs DEF UpdatingEntry
<1>2. /\ threshold <= s.curReliability /\ Unnormalised(c) = up[MAX_LAYERS - 1].prob
      /\ Part(st.utf, ALPHA) > 0
      /\ SumFunctionOnSet(st.actual, getReliableFaces(st, s.curReliability)) > 0
  BY DEF AsStrict, Unnormalised
<1> HIDE DEF ids, t, stats, up
<1>3. threshold \in Int
  <2>1. \A x \in RELIABILITY_THRESHOLD_MIN .. RELIABILITY_THRESHOLD_MAX : x \in Int
    BY DEF RELIABILITY_THRESHOLD_MIN, RELIABILITY_THRESHOLD_MAX
  <2> QED  BY <1>1, <2>1 DEF IsNormal, IsTable
<1>4. up[l] = UpdateLayer(s, l, st) /\ IsTable(s, ids) /\ IsDistribution(s.prob[l], ids)
  BY <1>1 DEF LayerByLayer, IsNormal
<1>5. Unnormalised(c)[l] = up[l].prob[l]
  BY <1>1, <1>2, LayersAre DEF LayerByLayer
<1> HIDE DEF s, st, threshold
<1>6. SumFunction(UpdateLayer(s, l, st).prob[l]) \in UNIT - 2 * Cardinality(ids) .. UNIT + 3 * Cardinality(ids)
  BY <1>1, <1>2, <1>3, <1>4, LayerConserves
<1> QED  BY <1>4, <1>5, <1>6 DEF ids

\* For any faces, routes, contents and layers, and whatever is observed: where an
\* update moves traffic from failing faces to reliable ones, what it takes is what
\* it gives, and the column still sums up to one, but for rounding.
THEOREM MovedTrafficIsConserved == Spec => []MovedTrafficConserved
<1>1. Init => EngineInv
  BY InitEngine
<1>2. IInv /\ EngineInv /\ [Next]_vars => EngineInv'
  BY StepEngine
<1> QED  BY Invariance, <1>1, <1>2, WhatIsConserved, PTL DEF Spec
-----------------------------------------------------------------------------
(* Types.                                                                   *)

\* An engine that was replaced: its own update holds it, or it is freed.
IsGone(e) ==
    /\ DOMAIN e = {"refs", "event", "faceIds", "entries", "buckets"}
    /\ e.refs \in 0 .. 1 /\ e.event \in BOOLEAN /\ (e.event = TRUE <=> e.refs = 1)
    /\ e.faceIds = {} /\ e.entries = <<>> /\ e.buckets = <<>>

OthersGone == \A i \in DOMAIN engines : i # current => IsGone(engines[i])

PitEntries == [in : SUBSET Faces, out : SUBSET Faces, vain : SUBSET Faces, sent : SUBSET Faces]

Trials == [name : Names, inFace : Faces, tried : SUBSET Faces, again : BOOLEAN]

PitTypes == \A n \in DOMAIN pit : n \in Names /\ pit[n] \in PitEntries

TryTypes == trying = None \/ trying \in Trials

TypeInv == OthersGone /\ PitTypes /\ TryTypes /\ updates \in 0 .. MaxUpdates

LEMMA BoundsAre == {MaxEngines, MaxUpdates, MaxPending} \subseteq Nat
BY FacesAssumption

LEMMA FreedIsGone == IsGone(Freed)
BY DEF Freed, IsGone

LEMMA ReleasedIsGone ==
    ASSUME NEW e, NEW S, IsEngine(e, S)
    PROVE  IsGone(Released(e, e.refs - 1))
<1>1. e.refs = 2 /\ e.event = TRUE
  BY DEF IsEngine
<1> DEFINE r == Released(e, e.refs - 1)
<1>2. DOMAIN Freed = {"refs", "event", "faceIds", "entries", "buckets"}
  BY DEF Freed
<1>3. r = [Freed EXCEPT !.refs = e.refs - 1, !.event = e.event]
  BY DEF Released
<1>4. DOMAIN r = {"refs", "event", "faceIds", "entries", "buckets"}
  BY <1>2, <1>3
<1>5. r.refs = e.refs - 1 /\ r.event = e.event
  BY <1>2, <1>3
<1>6. r.faceIds = {} /\ r.entries = <<>> /\ r.buckets = <<>>
  BY <1>3 DEF Freed
<1> HIDE DEF r
<1>7. r.refs = 1 /\ r.event = TRUE
  BY <1>1, <1>5
<1>8. r.event \in BOOLEAN /\ (r.event = TRUE <=> r.refs = 1)
  BY <1>7, Zenon
<1>9. r.refs \in 0 .. 1
  BY <1>7
<1>10. IsGone(r)
  BY <1>4, <1>6, <1>8, <1>9, Zenon DEF IsGone
<1> QED  BY <1>10 DEF r

LEMMA InitTypes == Init => TypeInv
<1> SUFFICES ASSUME Init  PROVE TypeInv
  OBVIOUS
<1> DEFINE e == NewEngine(InitialFaces)
<1>1. engines = <<e>> /\ pit = <<>> /\ trying = None /\ updates = 0
  BY DEF Init
<1> HIDE DEF e
<1>2. OthersGone
  BY <1>1 DEF OthersGone, current
<1> QED  BY <1>1, <1>2, BoundsAre DEF TypeInv, PitTypes, TryTypes

\* Only the engine in use changes.
LEMMA UsedTypes ==
    ASSUME EngineInv, OthersGone, NEW e, Use(e)
    PROVE  OthersGone'
<1>1. PICK X : engines \in Seq(X)
  BY DEF EngineInv, AnEngine
<1>2. engines' = [engines EXCEPT ![Len(engines)] = e]
  BY DEF Use, current
<1>3. Len(engines) \in Nat \ {0} /\ DOMAIN engines = 1 .. Len(engines)
  BY <1>1 DEF EngineInv, AnEngine
<1>4. engines' \in Seq(X \cup {e}) /\ Len(engines') = Len(engines)
  BY <1>1, <1>2, <1>3
<1>5. \A i \in DOMAIN engines' : i # Len(engines) => i \in DOMAIN engines /\ engines'[i] = engines[i]
  BY <1>2
<1> QED  BY <1>4, <1>5 DEF OthersGone, current

LEMMA ReplacedTypes ==
    ASSUME EngineInv, TypeInv, NEW S \in SUBSET Faces, Replace(S)
    PROVE  OthersGone' /\ TryTypes' /\ updates' \in 0 .. MaxUpdates
<1> DEFINE r == Released(engine, engine.refs - 1)
           old == [engines EXCEPT ![current] = r]
           new == NewEngine(S)
<1>1. PICK X : engines \in Seq(X)
  BY DEF EngineInv, AnEngine
<1>2. engines' = Append(old, new) /\ trying' = None /\ updates' = updates
  BY <1>1 DEF Replace, engine, current, EngineInv, AnEngine
<1>3. IsGone(r)
  BY ReleasedIsGone DEF EngineInv, InUse
<1> HIDE DEF r, new
<1>4. /\ old \in Seq(X \cup {r}) /\ Len(old) = Len(engines)
      /\ Len(engines) \in Nat \ {0} /\ DOMAIN engines = 1 .. Len(engines)
  <2>1. engines \in Seq(X \cup {r}) /\ r \in X \cup {r}
    BY <1>1
  <2>2. Len(engines) \in Nat \ {0} /\ DOMAIN engines = 1 .. Len(engines)
    BY <1>1 DEF EngineInv, AnEngine
  <2> QED  BY <2>1, <2>2 DEF current
<1>5. \A i \in 1 .. Len(engines) : IsGone(old[i])
  BY <1>3, <1>4 DEF TypeInv, OthersGone, current
<1> HIDE DEF old
<1>6. /\ Len(Append(old, new)) = Len(engines) + 1 /\ DOMAIN Append(old, new) = 1 .. Len(engines) + 1
      /\ \A i \in 1 .. Len(engines) : Append(old, new)[i] = old[i]
  BY <1>4
<1>7. OthersGone'
  BY <1>2, <1>4, <1>5, <1>6 DEF OthersGone, current
<1> QED  BY <1>2, <1>7 DEF TypeInv, TryTypes

LEMMA FacesTypes ==
    ASSUME EngineInv, TypeInv, NEW f \in Faces, AddFace(f) \/ RemoveFace(f)
    PROVE  TypeInv'
<1>0. faces \subseteq Faces
  BY DEF EngineInv, InUse
<1>1. CASE AddFace(f)
  <2>1. Replace(faces \cup {f}) /\ pit' = pit
    BY <1>1 DEF AddFace
  <2> QED  BY <1>0, <2>1, ReplacedTypes DEF TypeInv, PitTypes
<1>2. CASE RemoveFace(f)
  <2>1. /\ Replace(faces \ {f})
        /\ pit' = [n \in DOMAIN pit |->
                  [in |-> pit[n].in \ {f}, out |-> pit[n].out \ {f},
                   vain |-> pit[n].vain \ {f}, sent |-> pit[n].sent \ {f}]]
    BY <1>2 DEF RemoveFace
  <2>2. PitTypes'
    BY <2>1 DEF TypeInv, PitTypes, PitEntries
  <2> QED  BY <1>0, <2>1, <2>2, ReplacedTypes DEF TypeInv
<1> QED  BY <1>1, <1>2

\* An entry of the PIT changes, or is erased.
LEMMA EntryTyped ==
    ASSUME PitTypes, NEW n \in Names, NEW p \in PitEntries,
           pit' = With(pit, n, p) \/ (n \in DOMAIN pit /\ pit' = [pit EXCEPT ![n] = p])
           \/ pit' = Without(pit, n)
    PROVE  PitTypes'
BY DEF PitTypes, With, Without, Restrict

LEMMA OnInterestTypes ==
    ASSUME EngineInv, TypeInv, NEW n \in Names, NEW f \in Faces, OnInterest(n, f)
    PROVE  TypeInv'
<1>1. ASSUME NEW p \in PitEntries, NEW again \in BOOLEAN, Propagate(n, f, p, again)
      PROVE  TypeInv'
  <2>1. /\ pit' = With(pit, n, p) /\ updates' = updates
        /\ trying' = [name |-> n, inFace |-> f, tried |-> p.out \ p.in, again |-> again]
        /\ Use(KnowContent(engine, ContentOf[n]))
    BY <1>1 DEF Propagate
  <2>2. PitTypes'
    BY <2>1, EntryTyped DEF TypeInv
  <2>3. TryTypes'
    <3>1. p.out \ p.in \in SUBSET Faces
      BY DEF PitEntries
    <3>2. trying' \in Trials
      BY <2>1, <3>1 DEF Trials
    <3> QED  BY <3>2 DEF TryTypes
  <2>4. OthersGone'
    BY <2>1, UsedTypes DEF TypeInv
  <2> QED  BY <2>1, <2>2, <2>3, <2>4 DEF TypeInv
<1>2. CASE n \notin DOMAIN pit /\ Propagate(n, f, [in |-> {f}, out |-> {}, vain |-> {}, sent |-> {}], FALSE)
  <2>1. [in |-> {f}, out |-> {}, vain |-> {}, sent |-> {}] \in PitEntries
    BY DEF PitEntries
  <2> QED  BY <1>1, <1>2, <2>1
<1>3. CASE n \in DOMAIN pit /\ Propagate(n, f, [pit[n] EXCEPT !.in = @ \cup {f}], f \in pit[n].in)
  <2> DEFINE p == [pit[n] EXCEPT !.in = @ \cup {f}]
             again == f \in pit[n].in
  <2>1. p \in PitEntries
    BY <1>3 DEF TypeInv, PitTypes, PitEntries
  <2>2. again \in BOOLEAN
    OBVIOUS
  <2>3. Propagate(n, f, p, again)
    BY <1>3
  <2> HIDE DEF p, again
  <2> QED  BY <1>1, <2>1, <2>2, <2>3
<1>4. CASE /\ n \in DOMAIN pit /\ pit' = [pit EXCEPT ![n].in = @ \cup {f}]
           /\ UNCHANGED <<faces, engines, trying, updates>>
  <2>1. PitTypes'
    BY <1>4 DEF TypeInv, PitTypes, PitEntries
  <2> QED  BY <1>4, <2>1 DEF TypeInv, OthersGone, TryTypes, current
<1> QED  BY <1>2, <1>3, <1>4, Zenon DEF OnInterest

LEMMA ResultTypes ==
    ASSUME EngineInv, TypeInv, NEW n \in Names, NEW f,
           WillSatisfyPendingInterest(n, f) \/ WillEraseTimedOutPendingInterest(n)
    PROVE  TypeInv'
<1>1. pit' = Without(pit, n) /\ trying' = trying /\ updates' = updates
  BY DEF WillSatisfyPendingInterest, WillEraseTimedOutPendingInterest
<1>2. PitTypes'
  BY <1>1 DEF TypeInv, PitTypes, Without, Restrict
<1>3. OthersGone'
  BY UsedTypes DEF WillSatisfyPendingInterest, WillEraseTimedOutPendingInterest, TypeInv
<1> QED  BY <1>1, <1>2, <1>3 DEF TypeInv, TryTypes

LEMMA NackTypes ==
    ASSUME EngineInv, TypeInv, NEW n \in Names, NEW f \in Faces, DidReceiveValidNack(n, f)
    PROVE  TypeInv'
<1> DEFINE p == [pit[n] EXCEPT !.vain = @ \cup {f}, !.in = @ \ {f}]
           e == FailedOn({f}, n)
           t == [name |-> n, inFace |-> f, tried |-> p.out \ p.in, again |-> FALSE]
<1>1. /\ n \in DOMAIN pit /\ trying = None /\ updates' = updates /\ pit' = [pit EXCEPT ![n] = p]
      /\ \/ trying' = t /\ Use(KnowContent(e, ContentOf[n]))
         \/ trying' = trying /\ Use(e)
  BY Zenon DEF DidReceiveValidNack, Idle
<1>2. p \in PitEntries
  BY <1>1 DEF TypeInv, PitTypes, PitEntries
<1>3. t \in Trials
  <2>1. p.out \ p.in \in SUBSET Faces
    BY <1>2 DEF PitEntries
  <2> HIDE DEF p
  <2> QED  BY <2>1 DEF Trials
<1> HIDE DEF p, e, t
<1>4. PitTypes'
  BY <1>1, <1>2 DEF TypeInv, PitTypes
<1>5. TryTypes'
  BY <1>1, <1>3 DEF TryTypes
<1>6. OthersGone'
  BY <1>1, UsedTypes DEF TypeInv
<1> QED  BY <1>1, <1>4, <1>5, <1>6 DEF TypeInv

LEMMA TryStepTypes ==
    ASSUME IInv, EngineInv, TypeInv, Try
    PROVE  TypeInv'
<1> DEFINE n == trying.name
<1>1. trying # None
  BY DEF Try
<1>2. /\ n \in DOMAIN pit /\ n \in Names /\ ContentOf[n] \in DOMAIN engine.entries
      /\ pit[n] \in PitEntries /\ trying \in Trials /\ faces \subseteq Faces
  BY <1>1 DEF IInv, PitInv, TryInv, EngineInv, KnownInv, OutInv, InUse, TypeInv, PitTypes, TryTypes
<1>3. PICK f \in determineRoute(n) :
          IF f = DROP_FACE_ID THEN GiveUp ELSE SendOut(f) \/ Blocked(f)
  BY DEF Try
<1>4. ASSUME f # DROP_FACE_ID  PROVE f \in Faces
  BY <1>2, <1>3, <1>4, RouteIsAFace
<1>5. CASE f = DROP_FACE_ID
  <2> DEFINE others == faces \ {trying.inFace}
             p == [pit[n] EXCEPT !.out = @ \cup others, !.vain = @ \cup others]
  <2>1. /\ Use(logDropping(engine, n)) /\ updates' = updates
        /\ \/ /\ pit' = [pit EXCEPT ![n] = p]
              /\ trying' = [trying EXCEPT !.tried = p.out \ p.in, !.again = FALSE]
           \/ pit' = Without(pit, n) /\ trying' = None
    BY <1>3, <1>5, Zenon DEF GiveUp
  <2>2. p \in PitEntries /\ p.out \ p.in \in SUBSET Faces
    BY <1>2 DEF PitEntries
  <2> HIDE DEF p, n
  <2>3. PitTypes'
    BY <1>2, <2>1, <2>2, EntryTyped DEF TypeInv
  <2>4. TryTypes'
    BY <1>2, <2>1, <2>2 DEF TryTypes, Trials
  <2>5. OthersGone'
    BY <2>1, UsedTypes DEF TypeInv
  <2> QED  BY <2>1, <2>3, <2>4, <2>5 DEF TypeInv
<1>6. CASE f # DROP_FACE_ID /\ SendOut(f)
  <2>1. /\ Use(TokenTaken(engine, f, ContentOf[n])) /\ trying' = None /\ updates' = updates
        /\ pit' = [pit EXCEPT ![n].out = @ \cup {f}, ![n].sent = @ \cup {f}]
    BY <1>6 DEF SendOut
  <2>2. PitTypes'
    BY <1>2, <1>4, <1>6, <2>1 DEF TypeInv, PitTypes, PitEntries
  <2>3. OthersGone'
    BY <2>1, UsedTypes DEF TypeInv
  <2> QED  BY <2>1, <2>2, <2>3 DEF TypeInv, TryTypes
<1>7. CASE f # DROP_FACE_ID /\ Blocked(f)
  <2>1. /\ engines' = engines /\ updates' = updates
        /\ trying' = [trying EXCEPT !.tried = @ \cup {f}]
        /\ pit' = [pit EXCEPT ![n].out = @ \cup {f}, ![n].vain = @ \cup {f}]
    BY <1>7 DEF Blocked
  <2>2. PitTypes'
    BY <1>2, <1>4, <1>7, <2>1 DEF TypeInv, PitTypes, PitEntries
  <2>3. TryTypes'
    BY <1>2, <1>4, <1>7, <2>1 DEF TryTypes, Trials
  <2> QED  BY <2>1, <2>2, <2>3 DEF TypeInv, OthersGone, current
<1> QED  BY <1>3, <1>5, <1>6, <1>7

LEMMA EventTypes ==
    ASSUME EngineInv, TypeInv,
           Update \/ (\E f \in Faces : NewTokens(f)) \/ \E i \in DOMAIN engines : FreeEngine(i)
    PROVE  TypeInv'
<1>1. trying' = trying /\ pit' = pit
  BY DEF Update, NewTokens, FreeEngine
<1>2. PitTypes' /\ TryTypes'
  BY <1>1 DEF TypeInv, PitTypes, TryTypes
<1>3. CASE Update
  <2>1. OthersGone'
    BY <1>3, UsedTypes DEF Update, TypeInv
  <2>2. updates' \in 0 .. MaxUpdates
    BY <1>3, BoundsAre DEF Update, TypeInv
  <2> QED  BY <1>2, <2>1, <2>2 DEF TypeInv
<1>4. CASE \E f \in Faces : NewTokens(f)
  <2>1. OthersGone' /\ updates' = updates
    BY <1>4, UsedTypes DEF NewTokens, TypeInv
  <2> QED  BY <1>2, <2>1 DEF TypeInv
<1>5. CASE \E i \in DOMAIN engines : FreeEngine(i)
  <2>1. PICK i \in DOMAIN engines : FreeEngine(i)
    BY <1>5
  <2>2. engines' = [engines EXCEPT ![i] = Freed] /\ updates' = updates
    BY <2>1 DEF FreeEngine
  <2>3. PICK X : engines \in Seq(X)
    BY DEF EngineInv, AnEngine
  <2>4. Len(engines) \in Nat \ {0} /\ DOMAIN engines = 1 .. Len(engines) /\ engines \in Seq(X \cup {Freed})
    BY <2>3 DEF EngineInv, AnEngine
  <2>5. engines' \in Seq(X \cup {Freed}) /\ Len(engines') = Len(engines)
    BY <2>2, <2>4
  <2>6. OthersGone'
    BY <2>2, <2>4, <2>5, FreedIsGone DEF TypeInv, OthersGone, current
  <2> QED  BY <1>2, <2>2, <2>6 DEF TypeInv
<1> QED  BY <1>3, <1>4, <1>5

LEMMA StepTypes ==
    ASSUME IInv, EngineInv, TypeInv, [Next]_vars
    PROVE  TypeInv'
<1>1. ASSUME NEW n \in Names, NEW f \in Faces,
             OnInterest(n, f) \/ WillSatisfyPendingInterest(n, f) \/ DidReceiveValidNack(n, f)
      PROVE  TypeInv'
  BY <1>1, OnInterestTypes, ResultTypes, NackTypes
<1>2. ASSUME NEW n \in Names, WillEraseTimedOutPendingInterest(n)  PROVE TypeInv'
  BY <1>2, ResultTypes
<1>3. ASSUME UNCHANGED vars  PROVE TypeInv'
  BY <1>3 DEF vars, TypeInv, OthersGone, PitTypes, TryTypes, current
<1> QED
  BY <1>1, <1>2, <1>3, FacesTypes, TryStepTypes, EventTypes, Zenon DEF Next

LEMMA NormalEntries ==
    ASSUME NEW t, NEW ids, IsFiniteSet(ids), IsNormal(t, ids)
    PROVE  /\ t.prob \in [Layers -> [ids -> 0 .. UNIT]]
           /\ t.curReliability \in RELIABILITY_THRESHOLD_MIN .. RELIABILITY_THRESHOLD_MAX
<1>1. IsColumns(t.prob, ids) /\ \A l \in Layers : IsDistribution(t.prob[l], ids)
  BY DEF IsNormal, IsTable
<1>2. ASSUME NEW l \in Layers, NEW f \in ids  PROVE t.prob[l][f] \in 0 .. UNIT
  <2> DEFINE col == t.prob[l]
  <2>1. IsDistribution(col, ids)
    BY <1>1
  <2> HIDE DEF col
  <2>2. col \in [ids -> Nat] /\ SumOf(col, ids) \in UNIT - Cardinality(ids) .. UNIT
    BY <2>1 DEF IsDistribution
  <2>3. \A x \in ids : col[x] \in Nat
    BY <2>2
  <2>4. SumOf(col, {f}) <= SumOf(col, ids)
    BY <2>3, SumOfPart
  <2>5. SumOf(col, {f}) = col[f]
    BY <2>3, SumOfOne
  <2>6. Cardinality(ids) \in Nat
    BY FS_CardinalityType
  <2>7. col[f] \in 0 .. UNIT
    BY <2>2, <2>3, <2>4, <2>5, <2>6 DEF UNIT
  <2> QED  BY <2>7 DEF col
<1>3. t.prob \in [Layers -> [ids -> 0 .. UNIT]]
  BY <1>1, <1>2 DEF IsColumns
<1> QED  BY <1>3 DEF IsNormal, IsTable

\* What TypeOK says of one engine.
EngineTyped(e) ==
    /\ e.refs \in 0 .. 2 /\ e.event \in BOOLEAN
    /\ e.faceIds \subseteq DropAnd(Faces)
    /\ \A c \in DOMAIN e.entries :
        /\ e.entries[c].table.prob \in [Layers -> [e.faceIds -> 0 .. UNIT]]
        /\ e.entries[c].table.curReliability \in RELIABILITY_THRESHOLD_MIN .. RELIABILITY_THRESHOLD_MAX
    /\ \A f \in DOMAIN e.buckets : \A c \in DOMAIN e.buckets[f] : e.buckets[f][c] \in 0 .. BUCKET_SIZE

LEMMA GoneTyped == ASSUME NEW e, IsGone(e)  PROVE EngineTyped(e)
<1>1. e.refs \in 0 .. 1 /\ e.event \in BOOLEAN /\ e.faceIds = {} /\ e.entries = <<>> /\ e.buckets = <<>>
  BY DEF IsGone
<1>2. DOMAIN e.entries = {} /\ DOMAIN e.buckets = {}
  BY <1>1
<1> QED  BY <1>1, <1>2 DEF EngineTyped

LEMMA UsedTyped ==
    ASSUME NEW e, NEW S \in SUBSET Faces, IsEngine(e, S)
    PROVE  EngineTyped(e)
<1>1. /\ e.refs = 2 /\ e.event = TRUE /\ e.faceIds = DropAnd(S)
      /\ DOMAIN e.buckets = S \ AppFaces
      /\ \A c \in DOMAIN e.entries : IsEntry(e.entries[c], e.faceIds)
      /\ \A f \in S \ AppFaces : IsTokens(e.buckets[f], DOMAIN e.entries)
  BY DEF IsEngine
<1>2. e.faceIds \subseteq DropAnd(Faces)
  BY <1>1 DEF DropAnd
<1>3. IsFiniteSet(e.faceIds)
  BY <1>1, FacesAreNumbers, FS_Subset, FS_AddElement DEF DropAnd
<1>4. ASSUME NEW c \in DOMAIN e.entries
      PROVE  /\ e.entries[c].table.prob \in [Layers -> [e.faceIds -> 0 .. UNIT]]
             /\ e.entries[c].table.curReliability \in RELIABILITY_THRESHOLD_MIN .. RELIABILITY_THRESHOLD_MAX
  <2>1. IsNormal(e.entries[c].table, e.faceIds)
    BY <1>1 DEF IsEntry
  <2> QED  BY <1>3, <2>1, NormalEntries
<1>5. ASSUME NEW f \in DOMAIN e.buckets, NEW c \in DOMAIN e.buckets[f]
      PROVE  e.buckets[f][c] \in 0 .. BUCKET_SIZE
  BY <1>1, <1>5 DEF IsTokens
<1>6. e.event \in BOOLEAN
  BY <1>1, Zenon
<1>7. e.refs \in 0 .. 2
  BY <1>1
<1> QED  BY <1>2, <1>4, <1>5, <1>6, <1>7, Zenon DEF EngineTyped

LEMMA WhatIsTyped == EngineInv /\ TypeInv => TypeOK
<1> SUFFICES ASSUME EngineInv, TypeInv  PROVE TypeOK
  OBVIOUS
<1>1. faces \in SUBSET Faces /\ IsEngine(engines[current], faces)
  BY DEF EngineInv, InUse, engine
<1>2. ASSUME NEW i \in DOMAIN engines  PROVE EngineTyped(engines[i])
  <2>1. CASE i = current
    BY <1>1, <2>1, UsedTyped
  <2>2. CASE i # current
    BY <2>2, GoneTyped DEF TypeInv, OthersGone
  <2> QED  BY <2>1, <2>2
<1>3. /\ DOMAIN pit \subseteq Names
      /\ \A n \in DOMAIN pit :
           pit[n] \in [in : SUBSET Faces, out : SUBSET Faces, vain : SUBSET Faces, sent : SUBSET Faces]
  BY DEF TypeInv, PitTypes, PitEntries
<1>4. (trying = None \/ trying \in Trials) /\ updates \in 0 .. MaxUpdates
  BY DEF TypeInv, TryTypes
<1>5. trying = None \/
        trying \in [name : Names, inFace : Faces, tried : SUBSET Faces, again : BOOLEAN]
  BY <1>4 DEF Trials
<1> QED  BY <1>1, <1>2, <1>3, <1>4, <1>5, Zenon DEF TypeOK, EngineTyped

\* What every state of the strategy keeps, for any faces, contents and layers.
THEOREM TypeCorrect == Spec => []TypeOK
<1>1. Init => EngineInv /\ TypeInv
  BY InitEngine, InitTypes
<1>2. IInv /\ EngineInv /\ TypeInv /\ [Next]_vars => EngineInv' /\ TypeInv'
  BY StepEngine, StepTypes
<1> QED  BY Invariance, <1>1, <1>2, WhatIsTyped, PTL DEF Spec

\* An engine that was replaced is held by its own update, once, or it is freed:
\* no second reference keeps it, and nothing it knew is left to forward by.
THEOREM ReplacedEnginesAreLetGo == Spec => []OthersGone
<1>1. Init => EngineInv /\ TypeInv
  BY InitEngine, InitTypes
<1>2. IInv /\ EngineInv /\ TypeInv /\ [Next]_vars => EngineInv' /\ TypeInv'
  BY StepEngine, StepTypes
<1>3. TypeInv => OthersGone
  BY DEF TypeInv
<1> QED  BY Invariance, <1>1, <1>2, <1>3, PTL DEF Spec

-----------------------------------------------------------------------------
(* Dropping does not last.                                                  *)

\* Some face gets a share of the column.
Feeds(col, ids) == \E f \in Others(ids) : col[f] > 0

\* The entries of a column with a share, once normalised.
LEMMA NormalizedEntries ==
    ASSUME NEW ids, IsFiniteSet(ids), NEW col \in [ids -> Int], NEW g \in ids, col[g] > 0
    PROVE  /\ Positive(col) \in Nat /\ Positive(col) > 0
           /\ \A f \in ids : NormalizeColumn(col)[f] = IF col[f] < 0 THEN 0
                                                       ELSE (UNIT * col[f]) \div Positive(col)
           /\ \A f \in ids \ {g} : col[f] > 0 => Positive(col) >= col[g] + col[f]
<1> DEFINE P == {f \in ids : col[f] > 0}
           s == Positive(col)
<1>1. DOMAIN col = ids /\ IsFiniteSet(P) /\ g \in P /\ \A f \in P : col[f] \in Nat
  BY FS_Subset
<1>2. s = SumOf(col, P)
  BY <1>1, SumsOfFunctions DEF Positive
<1>3. \A f \in P \ {g} : s >= col[g] + col[f]
  <2> HIDE DEF P, s
  <2> SUFFICES ASSUME NEW f \in P \ {g}  PROVE s >= col[g] + col[f]
    OBVIOUS
  <2>1. Integral(col, P) /\ IsFiniteSet(P \ {g}) /\ \A x \in P \ {g} : col[x] \in Nat
    BY <1>1, FS_Subset DEF Integral
  <2>2. s = col[g] + SumOf(col, P \ {g})
    BY <1>1, <1>2, <2>1, SumWithout
  <2>3. SumOf(col, {f}) <= SumOf(col, P \ {g})
    BY <2>1, SumOfPart
  <2>4. col[f] \in Int /\ col[g] \in Int
    BY <1>1
  <2>5. SumOf(col, {f}) = col[f]
    BY <2>4, SumOfOne
  <2>6. SumOf(col, P \ {g}) \in Nat
    BY <2>1, SumOfNaturals
  <2> QED  BY <2>2, <2>3, <2>4, <2>5, <2>6
<1>4. s \in Nat /\ s > 0
  <2> HIDE DEF P, s
  <2>1. SumOf(col, P) \in Nat /\ SumOf(col, P) > 0
    BY <1>1, SumPositive
  <2> QED  BY <1>2, <2>1
<1>5. \A f \in ids : NormalizeColumn(col)[f] = IF col[f] < 0 THEN 0 ELSE (UNIT * col[f]) \div s
  <2> HIDE DEF s
  <2>1. NormalizeColumn(col) = [f \in ids |-> IF s = 0 THEN UNIT \div Cardinality(ids)
                                              ELSE IF col[f] < 0 THEN 0 ELSE (UNIT * col[f]) \div s]
    BY <1>1 DEF NormalizeColumn, s
  <2> QED  BY <1>4, <2>1
<1> QED  BY <1>3, <1>4, <1>5

\* A column that feeds a face does not drop everything once normalised, and one
\* that drops nothing still drops nothing.
LEMMA LetThrough ==
    ASSUME NEW ids, IsFiniteSet(ids), DROP_FACE_ID \in ids, NEW col \in [ids -> Int],
           Feeds(col, ids)
    PROVE  /\ NormalizeColumn(col)[DROP_FACE_ID] < UNIT
           /\ col[DROP_FACE_ID] = 0 => NormalizeColumn(col)[DROP_FACE_ID] = 0
<1> DEFINE d == col[DROP_FACE_ID]
           s == Positive(col)
           x == NormalizeColumn(col)[DROP_FACE_ID]
<1>1. PICK g \in Others(ids) : col[g] > 0
  BY DEF Feeds
<1>2. g \in ids /\ g # DROP_FACE_ID /\ d \in Int /\ col[g] \in Int
  BY <1>1 DEF Others
<1>3. s \in Nat /\ s > 0 /\ (d > 0 => s >= col[g] + d)
  BY <1>1, <1>2, NormalizedEntries
<1>4. x = IF d < 0 THEN 0 ELSE (UNIT * d) \div s
  BY <1>1, <1>2, NormalizedEntries
<1> HIDE DEF s, x
<1>5. CASE d < 0
  BY <1>2, <1>4, <1>5 DEF UNIT, x
<1>6. CASE d = 0
  <2>1. (UNIT * 0) \div s = 0
    BY <1>3 DEF UNIT
  <2> QED  BY <1>4, <1>6, <2>1 DEF UNIT, x
<1>7. CASE d > 0
  <2> HIDE DEF d
  <2> DEFINE a == UNIT * d
  <2>1. a \in Nat /\ a < UNIT * s
    BY <1>1, <1>2, <1>3, <1>7 DEF UNIT
  <2>2. x = a \div s
    BY <1>2, <1>4, <1>7
  <2> HIDE DEF a
  <2>3. x \in Nat /\ s * x <= a
    BY <1>3, <2>1, <2>2
  <2>4. SUFFICES ASSUME x >= UNIT  PROVE FALSE
    BY <1>7, <2>3 DEF d, x, UNIT
  <2>5. s * x >= s * UNIT
    BY <1>3, <2>3, <2>4 DEF UNIT
  <2> QED  BY <1>3, <2>1, <2>3, <2>5 DEF UNIT
<1> QED  BY <1>2, <1>5, <1>6, <1>7 DEF x

\* So few faces that what an update gives up of the dropping is enough for each.
FewOthers(ids) == Others(ids) # {} /\ Cardinality(Others(ids)) <= 97

\* A column that gives a face enough to last the next normalisation.
Opened(col, ids) ==
    /\ col \in [ids -> Int] /\ col[DROP_FACE_ID] <= UNIT
    /\ \E f \in Others(ids) : col[f] >= 2

LEMMA OpenedFeeds ==
    ASSUME NEW ids, IsFiniteSet(ids), DROP_FACE_ID \in ids, FewOthers(ids),
           NEW col, Opened(col, ids)
    PROVE  Feeds(NormalizeColumn(col), ids)
<1> DEFINE O == Others(ids)
           n == Cardinality(O)
           P == {f \in ids : col[f] > 0}
           Q == P \ {DROP_FACE_ID}
           s == Positive(col)
           V == {col[f] : f \in O}
           m == Max(V)
<1>1. IsFiniteSet(O) /\ O \subseteq ids /\ n \in Nat /\ DROP_FACE_ID \notin O
  BY OthersFinite DEF Others
<1>2. col \in [ids -> Int] /\ col[DROP_FACE_ID] <= UNIT
  BY DEF Opened
<1>3. PICK g \in O : col[g] >= 2
  BY DEF Opened
<1>4. IsFiniteSet(V) /\ V \in SUBSET Int /\ V # {}
  BY <1>1, <1>2, <1>3, FiniteImage
<1>5. m \in V /\ \A e \in V : e <= m
  BY <1>4, FiniteMax
<1>6. PICK h \in O : col[h] = m
  BY <1>5
<1>7. \A f \in O : col[f] <= m
  BY <1>5
<1> HIDE DEF m, V
<1>8. m \in Int /\ m >= 2
  <2>1. m \in Int /\ col[g] <= m /\ col[g] \in Int
    BY <1>1, <1>2, <1>3, <1>6, <1>7
  <2> QED  BY <1>3, <2>1
<1>9. Q \subseteq O /\ IsFiniteSet(Q) /\ IsFiniteSet(P) /\ P \subseteq ids
      /\ (\A f \in P : col[f] \in Nat) /\ (\A f \in Q : col[f] \in Nat)
  BY <1>1, <1>2, FS_Subset DEF Others
<1>10. Cardinality(Q) \in Nat /\ Cardinality(Q) <= n
  BY <1>1, <1>9, FS_Subset, FS_CardinalityType
<1>11. s = SumOf(col, P)
  BY <1>2, SumsOfFunctions DEF Positive
<1>12. h \in ids /\ col[h] > 0 /\ h # DROP_FACE_ID
  BY <1>1, <1>6, <1>8
<1>13. s \in Nat /\ s > 0 /\ NormalizeColumn(col)[h] = (UNIT * m) \div s
  <2>1. ~(col[h] < 0)
    BY <1>6, <1>8
  <2> QED  BY <1>2, <1>6, <1>12, <2>1, NormalizedEntries
<1>14. SumOf(col, Q) \in Nat /\ SumOf(col, Q) <= m * n
  <2> DEFINE c == [f \in Q |-> m]
  <2>1. Integral(c, Q) /\ Integral(col, Q)
    BY <1>8, <1>9 DEF Integral
  <2>2. \A f \in Q : col[f] <= c[f] /\ c[f] = m
    BY <1>7, <1>9
  <2> HIDE DEF c, Q
  <2>3. SumOf(col, Q) <= SumOf(c, Q)
    BY <1>9, <2>1, <2>2, SumMonotone
  <2>4. SumOf(c, Q) = m * Cardinality(Q)
    BY <1>8, <1>9, <2>2, SumConstant
  <2>5. SumOf(col, Q) \in Nat
    BY <1>9, SumOfNaturals
  <2> DEFINE q == Cardinality(Q)
  <2>6. q \in Nat /\ q <= n
    BY <1>10
  <2> HIDE DEF q, n
  <2>7. m * q <= m * n
    BY <1>1, <1>8, <2>6
  <2> QED  BY <1>1, <1>8, <2>3, <2>4, <2>5, <2>6, <2>7 DEF q
<1>15. SumOf(col, P) <= UNIT + SumOf(col, Q)
  <2>1. CASE DROP_FACE_ID \in P
    <3>1. Integral(col, P)
      BY <1>9 DEF Integral
    <3> HIDE DEF P
    <3>2. SumOf(col, P) = col[DROP_FACE_ID] + SumOf(col, P \ {DROP_FACE_ID})
      BY <1>9, <2>1, <3>1, SumWithout
    <3> QED  BY <1>2, <1>14, <3>2 DEF UNIT
  <2>2. CASE DROP_FACE_ID \notin P
    <3>1. Q = P
      BY <2>2
    <3> HIDE DEF P, Q
    <3> QED  BY <1>14, <3>1 DEF UNIT
  <2> QED  BY <2>1, <2>2
<1> HIDE DEF s, P, Q
<1>16. s <= UNIT * m
  <2>1. n <= 97 /\ n \in Nat
    BY <1>1 DEF FewOthers
  <2> HIDE DEF n
  <2>2. m * n <= m * 97
    BY <1>8, <2>1
  <2>3. s <= UNIT + m * 97
    BY <1>8, <1>11, <1>13, <1>14, <1>15, <2>1, <2>2 DEF UNIT
  <2> QED  BY <1>8, <1>13, <2>3 DEF UNIT
<1>17. (UNIT * m) \div s > 0
  <2> DEFINE a == UNIT * m
  <2>1. a \in Nat /\ s <= a
    BY <1>8, <1>16 DEF UNIT
  <2> HIDE DEF a
  <2>2. a \div s >= 1
    BY <1>13, <2>1
  <2> QED  BY <1>13, <2>1, <2>2 DEF a
<1> QED  BY <1>6, <1>13, <1>17 DEF Feeds

\* A column without dropping that is a distribution feeds a face.
LEMMA DistributionFeeds ==
    ASSUME NEW ids, IsFiniteSet(ids), DROP_FACE_ID \in ids, FewOthers(ids),
           NEW col, IsDistribution(col, ids), col[DROP_FACE_ID] = 0
    PROVE  Feeds(col, ids)
<1> DEFINE O == Others(ids)
<1>1. /\ IsFiniteSet(O) /\ O \cup {DROP_FACE_ID} = ids /\ DROP_FACE_ID \notin O
      /\ Cardinality(O) \in Nat /\ Cardinality(O) = Cardinality(ids) - 1 /\ Cardinality(O) <= 97
      /\ O = ids \ {DROP_FACE_ID} /\ Cardinality(ids) \in Nat
  BY OthersFinite, FS_CardinalityType DEF Others, FewOthers
<1>2. col \in [ids -> Nat] /\ SumOf(col, ids) \in UNIT - Cardinality(ids) .. UNIT
  BY DEF IsDistribution
<1>3. SumOf(col, ids) = col[DROP_FACE_ID] + SumOf(col, ids \ {DROP_FACE_ID})
  BY <1>2, SumWithout DEF Integral
<1>4. SUFFICES ASSUME ~Feeds(col, ids)  PROVE FALSE
  OBVIOUS
<1>5. \A f \in O : col[f] = 0
  BY <1>1, <1>2, <1>4 DEF Feeds
<1>6. SumOf(col, O) = 0 * Cardinality(O)
  BY <1>1, <1>5, SumConstant
<1> HIDE DEF O
<1>7. SumOf(col, ids) = 0
  BY <1>1, <1>3, <1>6
<1> QED  BY <1>1, <1>2, <1>7 DEF UNIT

\* A face that is fed stays so when it is given more.
LEMMA GiveBackFeeds ==
    ASSUME NEW ids, IsFiniteSet(ids), DROP_FACE_ID \in ids, NEW col, IsShared(col, ids),
           NEW delta \in Nat, Feeds(col, ids)
    PROVE  Feeds(GiveBack(col, delta), ids)
<1> DEFINE O == Others(ids)
           n == SumOf(col, O)
<1>1. PICK g \in O : col[g] > 0
  BY DEF Feeds
<1>2. IsFiniteSet(O) /\ O = ids \ {DROP_FACE_ID}
  BY OthersFinite DEF Others
<1>3. col \in [ids -> Int] /\ ((\A f \in O : col[f] >= 0) \/ (\A f \in O : col[f] <= 0))
  BY DEF IsShared
<1>4. \A f \in O : col[f] \in Nat
  BY <1>1, <1>2, <1>3
<1>5. n \in Nat /\ n > 0
  BY <1>1, <1>2, <1>4, SumPositive
<1>6. GiveBack(col, delta) = [f \in ids |-> IF f = DROP_FACE_ID THEN col[f] - delta
                                            ELSE IF n <= 0 THEN 0 ELSE col[f] + (delta * col[f]) \div n]
  BY <1>2, <1>3, SumsOfFunctions DEF GiveBack
<1> HIDE DEF n
<1>7. GiveBack(col, delta)[g] = col[g] + (delta * col[g]) \div n
  <2>1. g \in ids /\ g # DROP_FACE_ID /\ ~(n <= 0)
    BY <1>1, <1>2, <1>5
  <2> QED  BY <1>6, <2>1
<1>8. col[g] + (delta * col[g]) \div n > 0
  <2> DEFINE c == col[g]
             a == delta * c
  <2>1. c \in Nat /\ c > 0
    BY <1>1, <1>4
  <2> HIDE DEF c
  <2>2. a \in Nat
    BY <2>1
  <2> HIDE DEF a
  <2>3. a \div n \in Nat
    BY <1>5, <2>2
  <2>4. c + a \div n > 0
    BY <2>1, <2>3
  <2> QED  BY <2>4 DEF a, c
<1> QED  BY <1>1, <1>7, <1>8 DEF Feeds

LEMMA NoDroppingFeeds ==
    ASSUME NEW ids, IsFiniteSet(ids), DROP_FACE_ID \in ids, FewOthers(ids), NEW col \in [ids -> Int]
    PROVE  Feeds(NoDropping(col), ids)
<1> DEFINE O == Others(ids)
           n == Cardinality(O)
           q == UNIT \div n
<1>1. /\ IsFiniteSet(O) /\ O = ids \ {DROP_FACE_ID} /\ n \in Nat /\ n = Cardinality(ids) - 1
      /\ n <= 97 /\ O # {}
  BY OthersFinite DEF Others, FewOthers
<1>2. n # 0
  BY <1>1, FS_EmptySet
<1>3. NoDropping(col) = [f \in ids |-> IF f = DROP_FACE_ID THEN 0 ELSE q]
  BY <1>1 DEF NoDropping
<1>4. q > 0
  <2>1. n \in Nat /\ n <= 97
    BY <1>1
  <2> HIDE DEF n, O
  <2>2. q \in Nat /\ UNIT < q * n + n
    BY <1>2, <2>1 DEF UNIT
  <2>3. q = 0 => q * n = 0
    BY <2>1
  <2> HIDE DEF q
  <2> QED  BY <2>1, <2>2, <2>3 DEF UNIT
<1> HIDE DEF q
<1>5. PICK g : g \in O
  BY <1>1
<1>6. NoDropping(col)[g] = q
  BY <1>1, <1>3, <1>5
<1> QED  BY <1>4, <1>5, <1>6 DEF Feeds

\* The layers below l drop nothing, and l feeds a face.
OpenUpTo(prob, l, ids) ==
    /\ \A k \in Layers : k < l => prob[k][DROP_FACE_ID] = 0
    /\ Feeds(prob[l], ids)

\* A round of the synchronisation takes nothing from the first layer that drops.
LEMMA SyncRoundFeeds ==
    ASSUME NEW t, NEW ids, IsFiniteSet(ids), DROP_FACE_ID \in ids, FewOthers(ids),
           IsTable(t, ids), AllShared(t, ids), NEW stats, IsStatistics(stats, ids),
           NEW l \in Layers, OpenUpTo(t.prob, l, ids),
           FirstDroppingLayer(t.prob) < LastDroppingLayer(t.prob)
    PROVE  OpenUpTo(SyncRound(t, stats).prob, l, ids)
<1> DEFINE first == FirstDroppingLayer(t.prob)
           last == LastDroppingLayer(t.prob)
           here == stats[first].total
           there == stats[last].total
           a == t.prob[first][DROP_FACE_ID]
           b == UNIT - t.prob[last][DROP_FACE_ID]
           theta == a * here
           chi == b * there
           moved == Min({chi, theta})
           less == moved \div here
           more == - (moved \div there)
           jam == [t EXCEPT !.jammed = t.jammed \cup {last}]
           one == [jam EXCEPT !.prob[first] = NoDropping(@)]
           two == [jam EXCEPT !.prob[last] = OnlyDropping(@)]
           none(x) == IF \A f \in DOMAIN t.prob[first] \ {DROP_FACE_ID} : t.prob[first][f] = 0
                      THEN x \cup {first} ELSE x
           three == [jam EXCEPT !.prob[first] = GiveBack(@, less),
                                !.prob[last] = GiveBack(@, more), !.nan = none(@)]
<1>1. \/ SyncRound(t, stats) \in {one, two}
      \/ theta # 0 /\ chi # 0 /\ SyncRound(t, stats) = three
  BY DEF SyncRound, none
<1>2. first \in Layers /\ last \in Layers /\ first < last
  BY DroppingLayersAre
<1>3. ~(first < l) /\ last > l /\ first # last
  <2>1. a > 0 \/ first = MAX_LAYERS - 1
    BY WhereDropping DEF AllShared
  <2>2. \A k \in Layers : k < l => t.prob[k][DROP_FACE_ID] = 0
    BY DEF OpenUpTo
  <2> HIDE DEF first, last
  <2>3. first \in Nat /\ last \in Nat /\ l \in Nat /\ last <= MAX_LAYERS - 1 /\ MAX_LAYERS \in Nat
    BY <1>2, LayersAre
  <2>4. a > 0
    BY <1>2, <2>1, <2>3
  <2>5. a # 0
    BY <2>4
  <2> QED  BY <1>2, <2>2, <2>3, <2>5
<1> HIDE DEF none, first, last
<1>4. t.prob \in [Layers -> [ids -> Int]]
  BY DEF IsTable, IsColumns
<1>5. IsShared(t.prob[first], ids) /\ IsShared(t.prob[last], ids)
  BY <1>2 DEF AllShared
<1>6. a \in Nat /\ b \in Nat
  <2>1. a \in 0 .. UNIT /\ t.prob[last][DROP_FACE_ID] \in 0 .. UNIT
    BY <1>5 DEF IsShared
  <2>2. \A d \in 0 .. UNIT : d \in Nat /\ UNIT - d \in Nat
    BY DEF UNIT
  <2> QED  BY <2>1, <2>2
<1>7. here \in Nat /\ there \in Nat
  BY <1>2 DEF IsStatistics, IsStatistic
<1> HIDE DEF here, there
<1>8. DOMAIN jam = {"prob", "curReliability", "jammed", "nan"} /\ jam.prob = t.prob
  BY DEF IsTable
<1> HIDE DEF jam
<1>9. ASSUME NEW s, NEW u, NEW v, s.prob = [t.prob EXCEPT ![first] = u, ![last] = v],
             first = l => Feeds(u, ids)
      PROVE  OpenUpTo(s.prob, l, ids)
  <2>1. \A k \in Layers : s.prob[k] = IF k = last THEN v ELSE IF k = first THEN u ELSE t.prob[k]
    BY <1>2, <1>3, <1>4, <1>9
  <2>2. \A k \in Layers : k < l => k # last /\ k # first
    BY <1>2, <1>3, LayersAre
  <2>3. l # last
    BY <1>2, <1>3, LayersAre
  <2>4. s.prob[l] = IF l = first THEN u ELSE t.prob[l]
    BY <2>1, <2>3
  <2>5. Feeds(s.prob[l], ids)
    BY <1>9, <2>4 DEF OpenUpTo
  <2> QED  BY <2>1, <2>2, <2>5 DEF OpenUpTo
<1>10. first = l => Feeds(t.prob[first], ids)
  BY DEF OpenUpTo
<1>11. OpenUpTo(one.prob, l, ids)
  <2> DEFINE u == NoDropping(t.prob[first])
             v == t.prob[last]
  <2>1. one.prob = [t.prob EXCEPT ![first] = u, ![last] = v]
    BY <1>2, <1>3, <1>4, <1>8
  <2>2. Feeds(u, ids)
    BY <1>2, <1>4, NoDroppingFeeds
  <2> HIDE DEF u, v, one
  <2> QED  BY <1>9, <2>1, <2>2
<1>12. OpenUpTo(two.prob, l, ids)
  <2> DEFINE u == t.prob[first]
             v == OnlyDropping(t.prob[last])
  <2>1. two.prob = [t.prob EXCEPT ![first] = u, ![last] = v]
    BY <1>2, <1>3, <1>4, <1>8
  <2> HIDE DEF v, two
  <2> QED  BY <1>9, <1>10, <2>1
<1>13. ASSUME theta # 0, chi # 0  PROVE OpenUpTo(three.prob, l, ids)
  <2> DEFINE u == GiveBack(t.prob[first], less)
             v == GiveBack(t.prob[last], more)
  <2>1. three.prob = [t.prob EXCEPT ![first] = u, ![last] = v]
    BY <1>2, <1>3, <1>4, <1>8
  <2>2. less \in Nat
    <3> HIDE DEF a, b
    <3>1. theta \in Nat /\ chi \in Nat /\ here # 0
      BY <1>6, <1>7, <1>13
    <3>2. moved \in {chi, theta}
      <4> HIDE DEF chi, theta
      <4> QED  BY <3>1, MinOfTwo
    <3>3. moved \in Nat
      BY <3>1, <3>2
    <3> HIDE DEF moved
    <3> QED  BY <1>7, <3>1, <3>3
  <2> HIDE DEF less
  <2>3. first = l => Feeds(u, ids)
    BY <1>5, <1>10, <2>2, GiveBackFeeds
  <2> HIDE DEF u, v, three
  <2> QED  BY <1>9, <2>1, <2>3
<1> HIDE DEF one, two, three
<1> QED  BY <1>1, <1>11, <1>12, <1>13

\* After all rounds too, and once normalised.
LEMMA SyncLetsThrough ==
    ASSUME NEW t, NEW ids, IsFiniteSet(ids), DROP_FACE_ID \in ids, FewOthers(ids),
           IsTable(t, ids), AllShared(t, ids), NEW stats, IsStatistics(stats, ids),
           NEW l \in Layers, OpenUpTo(t.prob, l, ids)
    PROVE  syncDroppingPolicy(t, stats).prob[l][DROP_FACE_ID] < UNIT
<1> DEFINE last == LastDroppingLayer(t.prob)
           above == IF FirstDroppingLayer(t.prob) < last THEN {k \in Layers : k > last} ELSE {}
           start == [t EXCEPT !.jammed = above]
           N == MAX_LAYERS
           Apart(s) == FirstDroppingLayer(s.prob) < LastDroppingLayer(s.prob)
           rounds(g) == [k \in 0 .. N |->
                        IF k = 0 THEN start
                        ELSE IF FirstDroppingLayer(g[k - 1].prob) < LastDroppingLayer(g[k - 1].prob)
                             THEN SyncRound(g[k - 1], stats) ELSE g[k - 1]]
           round == CHOOSE g : g = rounds(g)
           Good(s) == IsTable(s, ids) /\ AllShared(s, ids) /\ OpenUpTo(s.prob, l, ids)
           Kept == {k \in 0 .. N : Good(round[k])}
<1>1. syncDroppingPolicy(t, stats) = NormalizeColumns(round[N])
  BY DEF syncDroppingPolicy
<1>2. Good(start)
  <2>1. start.prob = t.prob
    BY DEF IsTable
  <2> QED  BY <2>1 DEF IsTable, AllShared
<1>3. N \in Int /\ 0 \in Int /\ 0 <= N
  BY LayersAre
<1> HIDE DEF start, N
<1>4. \A g : Iteration("sync", stats, 0, N, start, g) = rounds(g)
  BY DEF Iteration, Turn
<1>5. round = rounds(round)
  <2>1. Defined("sync", stats, 0, N, start)
    BY <1>3, IterationExists
  <2> HIDE DEF rounds
  <2> QED  BY <1>4, <2>1 DEF Defined
<1> HIDE DEF round
<1>6. 0 \in Kept
  <2>1. round[0] = start /\ 0 \in 0 .. N
    BY <1>3, <1>5
  <2> HIDE DEF Good
  <2> QED  BY <1>2, <2>1
<1>7. ASSUME NEW k \in 0 .. N, k - 1 \in Kept  PROVE k \in Kept
  <2> DEFINE s == round[k - 1]
             u == round[k]
  <2>1. k # 0 /\ k \in Int /\ Good(s)
    BY <1>3, <1>7
  <2>2. u = IF Apart(s) THEN SyncRound(s, stats) ELSE s
    BY <1>5, <2>1
  <2> HIDE DEF s
  <2>3. CASE Apart(s)
    <3>1. IsTable(u, ids)
      BY <2>1, <2>2, <2>3, SyncRoundShape
    <3>2. AllShared(u, ids)
      BY <2>1, <2>2, <2>3, SyncRoundMoves
    <3>3. OpenUpTo(u.prob, l, ids)
      BY <2>1, <2>2, <2>3, SyncRoundFeeds
    <3> QED  BY <3>1, <3>2, <3>3
  <2>4. CASE ~Apart(s)
    <3>1. u = s
      BY <2>2, <2>4
    <3> HIDE DEF Good
    <3> QED  BY <2>1, <3>1
  <2> QED  BY <2>3, <2>4
<1>8. N \in Kept
  <2>1. Kept \in SUBSET (0 .. N)
    OBVIOUS
  <2> HIDE DEF Kept
  <2> QED  BY <1>3, <1>6, <1>7, <2>1, KeptToTheEnd
<1> DEFINE end == round[N]
<1>9. IsTable(end, ids) /\ Feeds(end.prob[l], ids)
  BY <1>8 DEF OpenUpTo
<1> HIDE DEF end
<1>10. end.prob[l] \in [ids -> Int]
  BY <1>9 DEF IsTable, IsColumns
<1>11. NormalizeColumns(end).prob[l] = NormalizeColumn(end.prob[l])
  BY <1>9 DEF NormalizeColumns, IsTable
<1>12. NormalizeColumn(end.prob[l])[DROP_FACE_ID] < UNIT
  BY <1>9, <1>10, LetThrough
<1> QED  BY <1>1, <1>11, <1>12 DEF end
\* The share of the probe that a face is given.
ShareOf(prob, l, S, probe, f) ==
    LET normFactor == SumFunctionOnSet(prob[0], S)
    IN IF l = 0 \/ normFactor <= 0 THEN probe \div Cardinality(S) ELSE (probe * prob[0][f]) \div normFactor

\* Some of the dropping goes to the probed faces, each of which has its share of it
\* at least; the other faces keep what they have.
Probed(new, prob, l, S, drop, ids) ==
    LET probe == Part(drop, PROBING_TRAFFIC)
    IN IF S = {} \/ probe < 1 THEN new = prob
       ELSE /\ KeptButFor(S \cup {DROP_FACE_ID}, new[l], prob[l], ids)
            /\ new[l][DROP_FACE_ID] = drop - probe
            /\ \A f \in S : prob[l][f] \in Nat /\ ShareOf(prob, l, S, probe, f) \in Nat
                            => new[l][f] >= ShareOf(prob, l, S, probe, f)

LEMMA ProbeKeeps ==
    ASSUME NEW prob, NEW ids, IsFiniteSet(ids), DROP_FACE_ID \in ids, IsColumns(prob, ids),
           NEW l \in Layers, NEW S \in SUBSET ids, DROP_FACE_ID \notin S,
           NEW st, IsStatistic(st, ids), NEW fromTable, NEW drop \in Int,
           drop = IF fromTable THEN prob[l][DROP_FACE_ID] ELSE Weighted(prob[l], st, DROP_FACE_ID)
    PROVE  Probed(ProbeColumn(prob, l, S, st, fromTable), prob, l, S, drop, ids)
<1> DEFINE col == prob[l]
           probe == Part(drop, PROBING_TRAFFIC)
           normFactor == SumFunctionOnSet(prob[0], S)
           share == [f \in S |-> IF l = 0 \/ normFactor <= 0
                                 THEN probe \div Cardinality(S)
                                 ELSE (probe * prob[0][f]) \div normFactor]
           start == [col EXCEPT ![DROP_FACE_ID] = drop - probe]
           p == [faces |-> S, st |-> st, share |-> share]
           N == Cardinality(S)
           pass == CHOOSE g : g = [k \in 0 .. N |->
                        IF k = 0 THEN start
                        ELSE [f \in DOMAIN g[k - 1] |->
                                IF f \in S THEN Weighted(g[k - 1], st, f) + share[f] ELSE g[k - 1][f]]]
           new == ProbeColumn(prob, l, S, st, fromTable)
<1>1. new = IF S = {} \/ probe < 1 THEN prob ELSE [prob EXCEPT ![l] = pass[N]]
  BY DEF ProbeColumn
<1>2. N \in Nat /\ N \in Int /\ 0 \in Int /\ 0 <= N /\ IsFiniteSet(S) /\ (S # {} => N # 0)
  BY FS_Subset, FS_CardinalityType, FS_EmptySet
<1>3. col \in [ids -> Int]
  BY DEF IsColumns
<1>4. new[l] \in [ids -> Int]
  <2> DEFINE V == Int
  <2>1. V \in {Int, Nat} /\ prob[l] \in [ids -> V] /\ prob[0] \in [ids -> V]
    BY LayersAre DEF IsColumns
  <2> HIDE DEF V, new
  <2>2. IsColumns(ProbeColumn(prob, l, S, st, fromTable), ids)
    BY <2>1, ProbeShape
  <2> QED  BY <2>2 DEF IsColumns, new
<1> HIDE DEF new
<1>5. \A f \in S : share[f] = ShareOf(prob, l, S, probe, f)
  BY DEF ShareOf
<1>6. DOMAIN start = ids /\ start[DROP_FACE_ID] = drop - probe
      /\ \A f \in ids \ {DROP_FACE_ID} : start[f] = col[f]
  <2> HIDE DEF col
  <2> QED  BY <1>3
<1> HIDE DEF start, share, N, col, probe
<1>7. \A g : Iteration("probe", p, 0, N, start, g) =
                [k \in 0 .. N |->
                    IF k = 0 THEN start
                    ELSE [f \in DOMAIN g[k - 1] |->
                            IF f \in S THEN Weighted(g[k - 1], st, f) + share[f] ELSE g[k - 1][f]]]
  BY DEF Iteration, Turn
<1>8. pass = Iteration("probe", p, 0, N, start, pass)
  <2> HIDE DEF p
  <2>1. \E g : g = Iteration("probe", p, 0, N, start, g)
    <3>1. Defined("probe", p, 0, N, start)
      BY <1>2, IterationExists
    <3> QED  BY <3>1 DEF Defined
  <2> QED  BY <1>7, <2>1
<1> HIDE DEF pass, p
<1>9. ASSUME NEW k \in 0 .. N, k # 0
      PROVE  pass[k] = [f \in DOMAIN pass[k - 1] |-> IF f \in S THEN Weighted(pass[k - 1], st, f) + share[f]
                                                    ELSE pass[k - 1][f]]
  BY <1>2, <1>7, <1>8, <1>9
<1>10. ASSUME ~(S = {} \/ probe < 1)
      PROVE  /\ new[l] = pass[N]
             /\ \A f \in ids \ S : pass[N][f] = start[f]
             /\ \A f \in S : col[f] \in Nat /\ share[f] \in Nat => pass[N][f] >= share[f]
  <2> DEFINE More(c, k) == \A f \in S : col[f] \in Nat /\ share[f] \in Nat
                                        => c[f] \in Nat /\ (k # 0 => c[f] >= share[f])
             Good(c, k) == DOMAIN c = ids /\ (\A f \in ids \ S : c[f] = start[f]) /\ More(c, k)
             Kept == {k \in 0 .. N : Good(pass[k], k)}
  <2>1. pass[0] = start
    BY <1>2, <1>7, <1>8
  <2>2. \A f \in S : f \in ids \ {DROP_FACE_ID}
    OBVIOUS
  <2>3. 0 \in Kept
    BY <1>2, <1>6, <2>1, <2>2
  <2>4. ASSUME NEW k \in 0 .. N, k - 1 \in Kept  PROVE k \in Kept
    <3> DEFINE c == pass[k - 1]
               d == pass[k]
    <3>0. k # 0 /\ k \in 0 .. N
      BY <1>2, <2>4
    <3>1. Good(c, k - 1)
      BY <2>4
    <3>2. d = [f \in DOMAIN c |-> IF f \in S THEN Weighted(c, st, f) + share[f] ELSE c[f]]
      BY <1>9, <3>0
    <3> HIDE DEF c, d
    <3>3. ASSUME NEW f \in S, col[f] \in Nat, share[f] \in Nat
          PROVE  d[f] \in Nat /\ d[f] >= share[f]
      <4>1. c[f] \in Nat /\ f \in ids
        BY <3>1, <3>3
      <4>2. Weighted(c, st, f) \in Nat
        BY <4>1, WeightedIs
      <4>3. d[f] = Weighted(c, st, f) + share[f]
        BY <3>1, <3>2, <4>1
      <4> QED  BY <3>3, <4>2, <4>3
    <3>4. DOMAIN d = ids /\ \A f \in ids \ S : d[f] = start[f]
      BY <3>1, <3>2
    <3>5. Good(d, k)
      BY <3>3, <3>4
    <3> QED  BY <3>5 DEF d
  <2>5. N \in Kept
    <3>1. Kept \in SUBSET (0 .. N)
      OBVIOUS
    <3> HIDE DEF Kept
    <3> QED  BY <1>2, <2>3, <2>4, <3>1, KeptToTheEnd
  <2>6. Good(pass[N], N) /\ N # 0
    BY <1>2, <1>10, <2>5
  <2>7. new[l] = pass[N]
    BY <1>1, <1>10 DEF IsColumns
  <2> QED  BY <2>6, <2>7
<1>11. ASSUME S = {} \/ probe < 1  PROVE Probed(new, prob, l, S, drop, ids)
  BY <1>1, <1>11 DEF Probed, probe
<1>12. ASSUME ~(S = {} \/ probe < 1)  PROVE Probed(new, prob, l, S, drop, ids)
  <2>1. KeptButFor(S \cup {DROP_FACE_ID}, new[l], col, ids)
    BY <1>4, <1>6, <1>10, <1>12 DEF KeptButFor
  <2>2. new[l][DROP_FACE_ID] = drop - probe
    BY <1>6, <1>10, <1>12
  <2>3. \A f \in S : col[f] \in Nat /\ ShareOf(prob, l, S, probe, f) \in Nat
                     => new[l][f] >= ShareOf(prob, l, S, probe, f)
    BY <1>5, <1>10, <1>12
  <2> QED  BY <1>12, <2>1, <2>2, <2>3 DEF Probed, probe, col
<1>13. Probed(new, prob, l, S, drop, ids)
  BY <1>11, <1>12
<1> QED  BY <1>13 DEF new

LEMMA ProbeKeepsEither ==
    ASSUME NEW prob, NEW ids, IsFiniteSet(ids), DROP_FACE_ID \in ids, IsColumns(prob, ids),
           NEW l \in Layers, NEW S \in SUBSET ids, DROP_FACE_ID \notin S,
           NEW st, IsStatistic(st, ids)
    PROVE  /\ Probed(ProbeColumn(prob, l, S, st, TRUE), prob, l, S, prob[l][DROP_FACE_ID], ids)
           /\ Probed(ProbeColumn(prob, l, S, st, FALSE), prob, l, S,
                     Weighted(prob[l], st, DROP_FACE_ID), ids)
<1> DEFINE yes == TRUE
           no == FALSE
           d == prob[l][DROP_FACE_ID]
           w == Weighted(prob[l], st, DROP_FACE_ID)
<1>1. d \in Int /\ w \in Int
  <2>1. d \in Int
    BY DEF IsColumns
  <2> QED  BY <2>1, WeightedIs
<1>2. d = (IF yes THEN d ELSE w) /\ w = IF no THEN d ELSE w
  OBVIOUS
<1> HIDE DEF yes, no
<1>3. /\ Probed(ProbeColumn(prob, l, S, st, yes), prob, l, S, d, ids)
      /\ Probed(ProbeColumn(prob, l, S, st, no), prob, l, S, w, ids)
  BY <1>1, <1>2, ProbeKeeps
<1> QED  BY <1>3 DEF yes, no

\* What a face that is given traffic has is no less than its weighted share.
LEMMA GivenAtLeast ==
    ASSUME NEW ids, IsFiniteSet(ids), NEW col \in [ids -> Int], NEW S \in SUBSET ids,
           \A f \in S : col[f] \in Nat, NEW st, IsStatistic(st, ids), NEW utf \in Nat,
           \A f \in S : st.reliability[f] > 0, NEW f \in S
    PROVE  UpdateColumn(col, S, st, utf, TRUE)[f] >= Weighted(col, st, f)
<1> DEFINE shift == TRUE
           new == UpdateColumn(col, S, st, utf, shift)
<1>0. shift
  OBVIOUS
<1>1. S # {} /\ \A x \in S : IF shift THEN st.reliability[x] > 0 ELSE st.reliability[x] < UNIT
  OBVIOUS
<1> HIDE DEF shift
<1>2. Dealt(new, col, S, st, utf, shift)
  BY <1>1, UpdateColumnDeals
<1>3. PICK part : Shares(part, S, utf) /\ new[f] = IF shift THEN Weighted(col, st, f) + part[f]
                                                   ELSE Weighted(col, st, f) - part[f]
  BY <1>2, Zenon DEF Dealt
<1>4. part[f] \in Nat /\ Weighted(col, st, f) \in Nat
  BY <1>3, WeightedIs DEF Shares
<1>5. new[f] = Weighted(col, st, f) + part[f]
  BY <1>0, <1>3
<1> HIDE DEF new
<1>6. new[f] >= Weighted(col, st, f)
  BY <1>4, <1>5
<1> QED  BY <1>6 DEF new, shift

\* A face keeps some of what it has, and gets some of what it carries.
LEMMA WeightedFeeds ==
    ASSUME NEW st, NEW ids, IsStatistic(st, ids), NEW col, NEW f \in ids, col[f] \in Nat
    PROVE  /\ Weighted(col, st, f) \in Nat
           /\ col[f] > 0 \/ st.actual[f] > 0 => Weighted(col, st, f) > 0
           /\ st.actual[f] > SHIFT_THRESHOLD => Weighted(col, st, f) >= 2
<1> DEFINE c == col[f]
           a == st.actual[f]
           w == Weighted(col, st, f)
<1>1. c \in Nat /\ a \in Nat /\ w \in Nat /\ UNIT * w >= (UNIT - ALPHA) * c + ALPHA * a
  BY WeightedIs DEF IsStatistic
<1> HIDE DEF c, a, w
<1>2. /\ w \in Nat
      /\ c > 0 \/ a > 0 => w > 0
      /\ a > SHIFT_THRESHOLD => w >= 2
  BY <1>1 DEF UNIT, ALPHA, SHIFT_THRESHOLD
<1> QED  BY <1>2 DEF c, a, w

\* A probe leaves some of the dropping, and takes nearly a third of much dropping.
LEMMA ProbeIs ==
    /\ \A x \in Nat : /\ Part(x, PROBING_TRAFFIC) \in Nat
                      /\ x - Part(x, PROBING_TRAFFIC) \in Nat /\ x - Part(x, PROBING_TRAFFIC) <= x
                      /\ x > 0 => x - Part(x, PROBING_TRAFFIC) > 0
                      /\ x >= 650 => Part(x, PROBING_TRAFFIC) >= 195
BY DEF Part, PROBING_TRAFFIC, UNIT

\* Which case of an update it is.
UpdateCase(new, t, l, st, utf, reliable, unreliable) ==
    \/ /\ utf > 0 /\ new = DropUnsatisfied(t, l, st, utf, reliable, unreliable)
    \/ /\ utf > 0 /\ SumFunctionOnSet(st.actual, reliable) # 0
       /\ new = MoveToReliable(t, l, st, utf, reliable, unreliable)
    \/ /\ ~(utf > 0) /\ l \in t.jammed /\ new = t
    \/ /\ ~(utf > 0) /\ l \notin t.jammed /\ st.total = 0 /\ new = ProbeUnused(t, l, reliable)
    \/ /\ ~(utf > 0) /\ l \notin t.jammed /\ st.total # 0 /\ t.prob[l][DROP_FACE_ID] = 0
       /\ new = FollowTraffic(t, l, st)
    \/ /\ ~(utf > 0) /\ l \notin t.jammed /\ st.total # 0 /\ t.prob[l][DROP_FACE_ID] # 0
       /\ new = DropLess(t, l, st, reliable)

LEMMA UpdateCases ==
    ASSUME NEW t, NEW l, NEW st
    PROVE  UpdateCase(UpdateLayer(t, l, st), t, l, st, Part(st.utf, ALPHA),
                      getReliableFaces(st, t.curReliability), getUnreliableFaces(st, t.curReliability))
BY DEF UpdateLayer, UpdateCase

\* Whether a layer is jammed is for the synchronisation to say.
LEMMA JammedStays ==
    ASSUME NEW t, NEW l, NEW st
    PROVE  UpdateLayer(t, l, st).jammed = t.jammed
<1> DEFINE reliable == getReliableFaces(st, t.curReliability)
           unreliable == getUnreliableFaces(st, t.curReliability)
           utf == Part(st.utf, ALPHA)
<1>1. \A s : Raise(s).jammed = s.jammed /\ Lower(s).jammed = s.jammed
  BY DEF Raise, Lower
<1>2. \A prob : [t EXCEPT !.prob = prob].jammed = t.jammed
  OBVIOUS
<1> HIDE DEF reliable, unreliable, utf
<1>3. DropUnsatisfied(t, l, st, utf, reliable, unreliable).jammed = t.jammed
  BY <1>1, <1>2, Zenon DEF DropUnsatisfied
<1>4. MoveToReliable(t, l, st, utf, reliable, unreliable).jammed = t.jammed
  BY DEF MoveToReliable
<1>5. ProbeUnused(t, l, reliable).jammed = t.jammed
  BY DEF ProbeUnused
<1>6. FollowTraffic(t, l, st).jammed = t.jammed
  <2> DEFINE s == [t EXCEPT !.prob[l] = [f \in DOMAIN t.prob[l] |-> Weighted(t.prob[l], st, f)]]
  <2>1. s.jammed = t.jammed
    OBVIOUS
  <2>2. FollowTraffic(t, l, st) = Raise(s)
    BY DEF FollowTraffic
  <2> HIDE DEF s
  <2> QED  BY <1>1, <2>1, <2>2
<1>7. DropLess(t, l, st, reliable).jammed = t.jammed
  BY <1>1, <1>2, Zenon DEF DropLess
<1>8. UpdateCase(UpdateLayer(t, l, st), t, l, st, utf, reliable, unreliable)
  BY UpdateCases DEF reliable, unreliable, utf
<1> QED  BY <1>3, <1>4, <1>5, <1>6, <1>7, <1>8, Zenon DEF UpdateCase

\* Dropping less shifts to a face that carries traffic, or only probes.
LEMMA DropLessIs ==
    ASSUME NEW t, NEW ids, IsFiniteSet(ids), DROP_FACE_ID \in ids, IsTable(t, ids), NEW l \in Layers,
           t.prob[l] \in [ids -> Nat], NEW st, IsStatistic(st, ids), st.total # 0,
           NEW reliable \in SUBSET ids, DROP_FACE_ID \notin reliable,
           \A f \in reliable : st.reliability[f] > 0
    PROVE  LET new == DropLess(t, l, st, reliable).prob
               d == Weighted(t.prob[l], st, DROP_FACE_ID)
           IN \/ Probed(new, t.prob, l, reliable, d, ids)
              \/ /\ new[l] \in [ids -> Int] /\ new[l][DROP_FACE_ID] <= d
                 /\ \E f \in reliable : new[l][f] >= 2
<1> DEFINE column == t.prob[l]
           shifting == {f \in reliable : st.actual[f] > SHIFT_THRESHOLD}
           probing == reliable \ shifting
           drop == Weighted(column, st, DROP_FACE_ID)
           share == (UNIT * SumFunctionOnSet(st.forwarded, shifting)) \div st.total
           moved == Min({drop, Part(share, SHIFT_TRAFFIC)})
           less == [column EXCEPT ![DROP_FACE_ID] = drop - moved]
           given == UpdateColumn(less, shifting, st, moved, TRUE)
           shifted == [t.prob EXCEPT ![l] = given]
           done == ProbeColumn(shifted, l, probing, st, TRUE)
           alone == ProbeColumn(t.prob, l, probing, st, FALSE)
           after == [t EXCEPT !.prob = done]
           only == [t EXCEPT !.prob = alone]
           new == DropLess(t, l, st, reliable)
<1>1. new = IF shifting = {} THEN only
            ELSE IF after.prob[l][DROP_FACE_ID] < UNIT - t.curReliability THEN Raise(after) ELSE after
  BY DEF DropLess
<1>2. column \in [ids -> Nat] /\ IsColumns(t.prob, ids) /\ t.prob \in [Layers -> [ids -> Int]]
  BY DEF IsTable, IsColumns
<1>3. /\ shifting \in SUBSET ids /\ probing \in SUBSET ids
      /\ DROP_FACE_ID \notin shifting /\ DROP_FACE_ID \notin probing
      /\ (\A f \in shifting : st.reliability[f] > 0)
      /\ \A f \in shifting : st.actual[f] > SHIFT_THRESHOLD /\ f \in reliable /\ f \notin probing
  OBVIOUS
<1>4. shifting = {} => probing = reliable
  OBVIOUS
<1>5. (after.prob = done) /\ (only.prob = alone) /\ Raise(after).prob = after.prob
  BY DEF Raise, IsTable
<1> HIDE DEF shifting, probing
<1>6. CASE shifting = {}
  <2>1. new.prob = alone
    BY <1>1, <1>5, <1>6
  <2>2. Probed(alone, t.prob, l, probing, drop, ids)
    BY <1>2, <1>3, ProbeKeepsEither
  <2> HIDE DEF new, alone
  <2>3. Probed(new.prob, t.prob, l, reliable, drop, ids)
    BY <1>4, <1>6, <2>1, <2>2
  <2> QED  BY <2>3 DEF new
<1>7. CASE shifting # {}
  <2>1. new.prob = done
    BY <1>1, <1>5, <1>7
  <2>2. drop \in Nat
    BY <1>2, WeightedIs
  <2> HIDE DEF drop
  <2>3. share \in Nat
    <3> DEFINE x == SumFunctionOnSet(st.forwarded, shifting)
               y == st.total
    <3>1. y \in Nat /\ y # 0
      BY DEF IsStatistic
    <3>2. x \in Nat
      <4>1. IsFiniteSet(shifting) /\ \A f \in shifting : st.forwarded[f] \in Nat
        BY <1>3, FS_Subset DEF IsStatistic
      <4> QED  BY <4>1, SumsOfFunctions, SumOfNaturals
    <3> HIDE DEF x, y
    <3>3. (UNIT * x) \div y \in Nat
      BY <3>1, <3>2, ShareIs
    <3> QED  BY <3>3 DEF x, y
  <2> HIDE DEF share
  <2>4. moved \in Nat /\ moved <= drop
    <3> DEFINE some == Part(share, SHIFT_TRAFFIC)
    <3>1. some \in Nat /\ some \in Int /\ drop \in Int
      BY <2>2, <2>3, PartNat
    <3> HIDE DEF some
    <3>2. Min({drop, some}) \in {drop, some} /\ Min({drop, some}) <= drop
      BY <3>1, MinOfTwo
    <3> QED  BY <2>2, <3>1, <3>2 DEF some
  <2> HIDE DEF moved
  <2>5. drop - moved \in Nat /\ drop - moved <= drop
    BY <2>2, <2>4
  <2>6. /\ less \in [ids -> Nat] /\ less \in [ids -> Int] /\ less[DROP_FACE_ID] = drop - moved
    BY <1>2, <2>5
  <2> HIDE DEF less
  <2>7. (\A f \in shifting : less[f] \in Nat) /\ moved \in Int
    BY <1>3, <2>4, <2>6
  <2>8. KeptButFor(shifting, given, less, ids)
    BY <1>3, <2>6, <2>7, GivenIs
  <2>9. PICK f : f \in shifting
    BY <1>7
  <2>10. given[f] >= 2 /\ given[f] \in Int /\ f \in ids /\ f # DROP_FACE_ID
    <3>1. given[f] >= Weighted(less, st, f)
      BY <1>3, <2>4, <2>6, <2>7, <2>9, GivenAtLeast
    <3>2. Weighted(less, st, f) \in Nat /\ Weighted(less, st, f) >= 2
      BY <1>3, <2>7, <2>9, WeightedFeeds
    <3>3. given[f] \in Int /\ f \in ids /\ f # DROP_FACE_ID
      BY <1>3, <2>8, <2>9 DEF KeptButFor
    <3> DEFINE g == given[f]
               w == Weighted(less, st, f)
    <3>4. g >= w /\ w \in Nat /\ w >= 2 /\ g \in Int
      BY <3>1, <3>2, <3>3
    <3> HIDE DEF g, w
    <3>5. g >= 2
      BY <3>4
    <3> QED  BY <3>3, <3>5 DEF g
  <2>11. given \in [ids -> Int] /\ given[DROP_FACE_ID] = drop - moved
    BY <1>3, <2>6, <2>8 DEF KeptButFor
  <2> HIDE DEF given
  <2>12. IsColumns(shifted, ids) /\ shifted[l] = given /\ shifted[l][DROP_FACE_ID] = drop - moved
    BY <1>2, <2>11 DEF IsColumns
  <2> HIDE DEF shifted
  <2>13. Probed(done, shifted, l, probing, drop - moved, ids)
    <3> DEFINE d == shifted[l][DROP_FACE_ID]
    <3>1. Probed(done, shifted, l, probing, d, ids)
      BY <1>3, <2>12, ProbeKeepsEither
    <3>2. d = drop - moved
      BY <2>12
    <3> HIDE DEF d, done
    <3> QED  BY <3>1, <3>2
  <2>14. IsColumns(done, ids)
    BY <1>3, <2>12, ProbedEitherWay DEF ColumnsButFor
  <2> HIDE DEF done
  <2>15. done[l][f] = given[f]
    BY <1>3, <2>9, <2>10, <2>12, <2>13 DEF Probed, KeptButFor
  <2>16. done[l][DROP_FACE_ID] <= drop
    <3> DEFINE d == drop - moved
               q == Part(d, PROBING_TRAFFIC)
    <3>1. done[l][DROP_FACE_ID] = d \/ done[l][DROP_FACE_ID] = d - q
      BY <2>11, <2>12, <2>13 DEF Probed
    <3>2. d \in Nat /\ d <= drop /\ d - q \in Nat /\ d - q <= d
      BY <2>5, ProbeIs
    <3> HIDE DEF d, q
    <3> QED  BY <2>2, <3>1, <3>2
  <2>17. /\ done[l] \in [ids -> Int] /\ done[l][DROP_FACE_ID] <= drop
         /\ \E x \in reliable : done[l][x] >= 2
    BY <1>3, <2>9, <2>10, <2>14, <2>15, <2>16 DEF IsColumns
  <2> QED  BY <2>1, <2>17 DEF new, drop
<1> QED  BY <1>6, <1>7

\* A layer that drops nothing after its update still feeds a face.
LEMMA LayerFeeds ==
    ASSUME NEW t, NEW ids, IsFiniteSet(ids), DROP_FACE_ID \in ids, FewOthers(ids), IsTable(t, ids),
           NEW l \in Layers, IsDistribution(t.prob[l], ids), NEW st, IsStatistic(st, ids),
           st.utf \in Nat, UpdateLayer(t, l, st).prob[l][DROP_FACE_ID] = 0
    PROVE  Feeds(UpdateLayer(t, l, st).prob[l], ids)
<1> DEFINE reliable == getReliableFaces(st, t.curReliability)
           unreliable == getUnreliableFaces(st, t.curReliability)
           utf == Part(st.utf, ALPHA)
           column == t.prob[l]
           Fed(new) == new.prob[l][DROP_FACE_ID] = 0 => Feeds(new.prob[l], ids)
<1>1. IsColumns(t.prob, ids) /\ t.prob \in [Layers -> [ids -> Int]] /\ "prob" \in DOMAIN t
  BY DEF IsTable, IsColumns
<1>2. /\ reliable \in SUBSET ids /\ unreliable \in SUBSET ids
      /\ DROP_FACE_ID \notin reliable /\ DROP_FACE_ID \notin unreliable
      /\ reliable \cap unreliable = {}
      /\ \A f \in reliable : st.reliability[f] > 0
      /\ \A f \in unreliable : st.reliability[f] < UNIT
  BY ReliableAreFaces DEF IsTable
<1>3. utf \in Nat /\ utf \in Int
  BY PartNat
<1>4. column \in [ids -> Nat] /\ column \in [ids -> Int] /\ column[DROP_FACE_ID] \in Nat
  BY DEF IsDistribution
<1>5. column[DROP_FACE_ID] = 0 => Feeds(column, ids)
  BY DistributionFeeds
<1>6. UpdateCase(UpdateLayer(t, l, st), t, l, st, utf, reliable, unreliable)
  BY UpdateCases
<1> HIDE DEF reliable, unreliable, utf
<1>7. \A col \in [ids -> Int] : [t.prob EXCEPT ![l] = col][l] = col
                                /\ IsColumns([t.prob EXCEPT ![l] = col], ids)
  BY <1>1 DEF IsColumns
<1>8. \A s : Raise(s).prob = s.prob /\ Lower(s).prob = s.prob
  BY DEF Raise, Lower
<1>9. ASSUME utf > 0  PROVE Fed(DropUnsatisfied(t, l, st, utf, reliable, unreliable))
  <2> DEFINE drop == Weighted(column, st, DROP_FACE_ID) + utf
             dropped == [column EXCEPT ![DROP_FACE_ID] = drop]
             col == UpdateColumn(dropped, unreliable, st, utf, FALSE)
             prob == [t.prob EXCEPT ![l] = col]
             probing == ProbeColumn(prob, l, reliable, st, TRUE)
             probed == IF l \in t.jammed THEN prob ELSE probing
             after == [t EXCEPT !.prob = probed]
  <2>1. DropUnsatisfied(t, l, st, utf, reliable, unreliable) \in {after, Lower(after)}
    BY DEF DropUnsatisfied
  <2>2. drop \in Nat /\ drop > 0
    <3>1. Weighted(column, st, DROP_FACE_ID) \in Nat
      BY <1>4, WeightedFeeds
    <3> QED  BY <1>3, <1>9, <3>1
  <2> HIDE DEF drop
  <2>3. dropped \in [ids -> Int] /\ dropped[DROP_FACE_ID] = drop /\ \A f \in unreliable : dropped[f] \in Nat
    BY <1>2, <1>4, <2>2
  <2> HIDE DEF dropped
  <2>4. KeptButFor(unreliable, col, dropped, ids)
    BY <1>2, <1>3, <2>3, TakenAwayIs
  <2>5. col \in [ids -> Int] /\ col[DROP_FACE_ID] = drop
    BY <1>2, <2>3, <2>4 DEF KeptButFor
  <2> HIDE DEF col
  <2>6. prob[l][DROP_FACE_ID] = drop /\ IsColumns(prob, ids)
    BY <1>7, <2>5
  <2> HIDE DEF prob
  <2>7. probing[l][DROP_FACE_ID] = drop \/ probing[l][DROP_FACE_ID] = drop - Part(drop, PROBING_TRAFFIC)
    <3> DEFINE d == prob[l][DROP_FACE_ID]
    <3>1. Probed(probing, prob, l, reliable, d, ids)
      BY <1>2, <2>6, ProbeKeepsEither
    <3> HIDE DEF probing
    <3> QED  BY <2>6, <3>1 DEF Probed
  <2> HIDE DEF probing
  <2>8. probed[l][DROP_FACE_ID] > 0
    <3> DEFINE q == drop - Part(drop, PROBING_TRAFFIC)
    <3>1. q > 0 /\ probed[l][DROP_FACE_ID] \in {drop, q}
      BY <2>2, <2>6, <2>7, ProbeIs
    <3> HIDE DEF q, probed
    <3> QED  BY <2>2, <3>1
  <2> HIDE DEF probed
  <2>9. after.prob = probed
    BY <1>1
  <2> HIDE DEF after
  <2> QED  BY <1>8, <2>1, <2>8, <2>9
<1>10. ASSUME SumFunctionOnSet(st.actual, reliable) # 0
       PROVE  Fed(MoveToReliable(t, l, st, utf, reliable, unreliable))
  <2> DEFINE given == UpdateColumn(column, reliable, st, utf, TRUE)
             taken == UpdateColumn(given, unreliable, st, utf, FALSE)
             col == [taken EXCEPT ![DROP_FACE_ID] = Weighted(taken, st, DROP_FACE_ID)]
  <2>1. MoveToReliable(t, l, st, utf, reliable, unreliable).prob = [t.prob EXCEPT ![l] = col]
    BY <1>1 DEF MoveToReliable
  <2>2. PICK f \in reliable : st.actual[f] # 0
    <3>1. IsFiniteSet(reliable)
      BY <1>2, FS_Subset
    <3>2. SumFunctionOnSet(st.actual, reliable) = SumOf(st.actual, reliable)
      BY SumsOfFunctions
    <3>3. SUFFICES ASSUME \A f \in reliable : st.actual[f] = 0  PROVE FALSE
      OBVIOUS
    <3>4. SumOf(st.actual, reliable) = 0 * Cardinality(reliable)
      BY <3>1, <3>3, SumConstant
    <3>5. Cardinality(reliable) \in Nat
      BY <3>1, FS_CardinalityType
    <3> QED  BY <1>10, <3>2, <3>4, <3>5
  <2>3. st.actual[f] > 0 /\ f \in ids /\ f # DROP_FACE_ID /\ f \notin unreliable
    BY <1>2, <2>2 DEF IsStatistic
  <2>4. /\ \A x \in reliable : column[x] \in Nat
        /\ \A x \in unreliable : column[x] \in Nat
        /\ column[f] \in Nat
    BY <1>2, <1>4, <2>3
  <2> HIDE DEF column
  <2>5. KeptButFor(reliable, given, column, ids)
    BY <1>2, <1>3, <1>4, <2>4, GivenIs
  <2>6. given[f] \in Int /\ given[f] > 0
    <3> DEFINE g == given[f]
               w == Weighted(column, st, f)
    <3>1. g >= w
      BY <1>2, <1>3, <1>4, <2>2, <2>4, GivenAtLeast
    <3>2. w \in Nat /\ w > 0
      BY <2>3, <2>4, WeightedFeeds
    <3>3. g \in Int
      BY <2>3, <2>5 DEF KeptButFor
    <3> HIDE DEF g, w
    <3>4. g \in Int /\ g > 0
      BY <3>1, <3>2, <3>3
    <3> QED  BY <3>4 DEF g
  <2> HIDE DEF given
  <2>7. given \in [ids -> Int] /\ \A x \in unreliable : given[x] \in Nat
    BY <1>2, <2>4, <2>5 DEF KeptButFor
  <2>8. KeptButFor(unreliable, taken, given, ids)
    BY <1>2, <1>3, <2>7, TakenAwayIs
  <2>9. taken \in [ids -> Int] /\ taken[f] = given[f]
    BY <2>3, <2>8 DEF KeptButFor
  <2> HIDE DEF taken
  <2>10. Weighted(taken, st, DROP_FACE_ID) \in Int
    BY <2>9, WeightedIs
  <2>11. col \in [ids -> Int] /\ col[f] > 0
    BY <2>3, <2>6, <2>9, <2>10
  <2> HIDE DEF col
  <2>12. Feeds(col, ids)
    BY <2>3, <2>11 DEF Feeds, Others
  <2> QED  BY <1>7, <2>1, <2>11, <2>12
<1>11. Fed(ProbeUnused(t, l, reliable))
  <2> DEFINE drop == column[DROP_FACE_ID]
             probe == Part(drop, PROBING_TRAFFIC)
             each == probe \div Cardinality(reliable)
             col == [f \in DOMAIN column |->
                        IF f = DROP_FACE_ID THEN column[f] - probe
                        ELSE IF f \in reliable THEN column[f] + each ELSE column[f]]
  <2>1. ProbeUnused(t, l, reliable).prob = [t.prob EXCEPT ![l] = col]
    BY <1>1 DEF ProbeUnused
  <2>2. ProbeUnused(t, l, reliable).prob[l] = col
    BY <1>1, <2>1
  <2>3. col[DROP_FACE_ID] = drop - probe
    BY <1>4
  <2>4. ASSUME drop - probe = 0  PROVE Feeds(col, ids)
    <3>1. drop = 0 /\ probe = 0
      <4>1. drop \in Nat
        BY <1>4
      <4> HIDE DEF drop
      <4>2. probe \in Nat /\ (drop > 0 => drop - probe > 0)
        BY <4>1, ProbeIs
      <4> HIDE DEF probe
      <4> QED  BY <2>4, <4>1, <4>2
    <3>2. PICK f \in Others(ids) : column[f] > 0
      BY <1>5, <3>1 DEF Feeds
    <3>3. f \in ids /\ f # DROP_FACE_ID /\ column[f] \in Nat
      BY <1>4, <3>2 DEF Others
    <3>4. f \in reliable => each = 0
      <4>1. f \in reliable => Cardinality(reliable) \in Nat /\ Cardinality(reliable) # 0
        BY <1>2, FS_Subset, FS_CardinalityType, FS_EmptySet
      <4> HIDE DEF probe
      <4> QED  BY <3>1, <4>1
    <3> HIDE DEF each, drop, probe
    <3>5. col[f] = IF f \in reliable THEN column[f] + each ELSE column[f]
      BY <1>4, <3>3
    <3>6. col[f] = column[f]
      BY <3>3, <3>4, <3>5
    <3> QED  BY <3>2, <3>6 DEF Feeds
  <2> HIDE DEF col, drop, probe, each
  <2> QED  BY <2>2, <2>3, <2>4
<1>12. ASSUME column[DROP_FACE_ID] = 0  PROVE Fed(FollowTraffic(t, l, st))
  <2> DEFINE col == [f \in DOMAIN column |-> Weighted(column, st, f)]
  <2>1. FollowTraffic(t, l, st).prob = [t.prob EXCEPT ![l] = col]
    BY <1>1, <1>8 DEF FollowTraffic
  <2>2. PICK f \in Others(ids) : column[f] > 0
    BY <1>5, <1>12 DEF Feeds
  <2>3. f \in ids /\ column[f] \in Nat
    BY <1>4, <2>2 DEF Others
  <2>4. Weighted(column, st, f) > 0
    BY <2>2, <2>3, WeightedFeeds
  <2>5. col[f] > 0
    BY <1>4, <2>3, <2>4
  <2> HIDE DEF col
  <2>6. FollowTraffic(t, l, st).prob[l] = col
    BY <1>1, <2>1
  <2> QED  BY <2>2, <2>5, <2>6 DEF Feeds
<1>13. ASSUME column[DROP_FACE_ID] # 0, st.total # 0  PROVE Fed(DropLess(t, l, st, reliable))
  <2> DEFINE new == DropLess(t, l, st, reliable).prob
             d == Weighted(column, st, DROP_FACE_ID)
  <2>1. \/ Probed(new, t.prob, l, reliable, d, ids)
        \/ new[l] \in [ids -> Int] /\ \E f \in reliable : new[l][f] >= 2
    BY <1>2, <1>4, <1>13, DropLessIs
  <2>2. d \in Nat
    BY <1>4, WeightedFeeds
  <2> HIDE DEF new, d
  <2>3. CASE Probed(new, t.prob, l, reliable, d, ids)
    <3>1. \/ new[l][DROP_FACE_ID] = column[DROP_FACE_ID]
          \/ ~(Part(d, PROBING_TRAFFIC) < 1) /\ new[l][DROP_FACE_ID] = d - Part(d, PROBING_TRAFFIC)
      BY <2>3 DEF Probed
    <3>2. ~(Part(d, PROBING_TRAFFIC) < 1) => d - Part(d, PROBING_TRAFFIC) > 0
      <4> DEFINE q == Part(d, PROBING_TRAFFIC)
      <4>1. q \in Nat /\ q <= d /\ (d > 0 => d - q > 0)
        BY <2>2, ProbeIs, PartNat
      <4> HIDE DEF q
      <4>2. ~(q < 1) => d - q > 0
        BY <2>2, <4>1
      <4> QED  BY <4>2 DEF q
    <3>3. new[l][DROP_FACE_ID] # 0
      BY <1>13, <3>1, <3>2
    <3> QED  BY <3>3 DEF new
  <2>4. ASSUME new[l] \in [ids -> Int], NEW f \in reliable, new[l][f] >= 2
        PROVE  Feeds(new[l], ids)
    <3>1. f \in Others(ids) /\ new[l][f] \in Int
      BY <1>2, <2>4 DEF Others
    <3>2. new[l][f] > 0
      BY <2>4, <3>1
    <3> QED  BY <3>1, <3>2 DEF Feeds
  <2> QED  BY <2>1, <2>3, <2>4 DEF new
<1>14. Fed(t)
  BY <1>5
<1> HIDE DEF Fed
<1>15. Fed(UpdateLayer(t, l, st))
  BY <1>6, <1>9, <1>10, <1>11, <1>12, <1>13, <1>14 DEF UpdateCase
<1> QED  BY <1>15 DEF Fed

\* Some face is given enough of a large probe.
LEMMA SomeShare ==
    ASSUME NEW prob, NEW ids, IsFiniteSet(ids), DROP_FACE_ID \in ids, FewOthers(ids),
           IsColumns(prob, ids), NEW l \in Layers, NEW probe \in Nat, probe >= 195
    PROVE  \E f \in Others(ids) : /\ ShareOf(prob, l, Others(ids), probe, f) \in Nat
                                  /\ ShareOf(prob, l, Others(ids), probe, f) >= 2
<1> DEFINE O == Others(ids)
           n == Cardinality(O)
           col == prob[0]
           s == SumFunctionOnSet(col, O)
           V == {col[f] : f \in O}
           m == Max(V)
<1>1. IsFiniteSet(O) /\ O \subseteq ids /\ O # {} /\ n \in Nat /\ n <= 97
  BY OthersFinite DEF FewOthers
<1>2. n # 0
  BY <1>1, FS_EmptySet
<1>3. col \in [ids -> Int]
  BY LayersAre DEF IsColumns
<1>4. s = SumOf(col, O)
  BY SumsOfFunctions
<1>5. IsFiniteSet(V) /\ V \in SUBSET Int /\ V # {}
  BY <1>1, <1>3, FiniteImage
<1>6. m \in V /\ \A e \in V : e <= m
  BY <1>5, FiniteMax
<1>7. PICK h \in O : col[h] = m
  BY <1>6
<1>8. (\A f \in O : col[f] <= m) /\ m \in Int
  BY <1>1, <1>3, <1>6, <1>7
<1> HIDE DEF m, V, s
<1>9. s \in Int /\ s <= m * n
  <2> DEFINE c == [f \in O |-> m]
  <2>1. Integral(c, O) /\ Integral(col, O)
    BY <1>1, <1>3, <1>8 DEF Integral
  <2>2. \A f \in O : col[f] <= c[f] /\ c[f] = m
    BY <1>8
  <2> HIDE DEF c, O, col
  <2>3. SumOf(col, O) <= SumOf(c, O)
    BY <1>1, <2>1, <2>2, SumMonotone
  <2>4. SumOf(c, O) = m * n
    BY <1>1, <1>8, <2>2, SumConstant
  <2>5. SumOf(col, O) \in Int
    BY <1>1, <2>1, SumType
  <2> QED  BY <1>4, <2>3, <2>4, <2>5
<1>10. ShareOf(prob, l, O, probe, h) = IF l = 0 \/ s <= 0 THEN probe \div n ELSE (probe * m) \div s
  BY <1>7 DEF ShareOf, s
<1>11. probe \div n \in Nat /\ probe \div n >= 2
  <2> DEFINE q == probe \div n
  <2> HIDE DEF n
  <2>1. q \in Nat /\ probe < n * q + n
    BY <1>1, <1>2
  <2> HIDE DEF q
  <2>2. q \in {0, 1} => probe < 195
    BY <1>1, <2>1
  <2>3. q \in Nat /\ q >= 2
    BY <2>1, <2>2
  <2> QED  BY <2>3 DEF q
<1>12. ASSUME ~(s <= 0)  PROVE (probe * m) \div s \in Nat /\ (probe * m) \div s >= 2
  <2> HIDE DEF n
  <2>1. s > 0 /\ s \in Nat
    BY <1>9, <1>12
  <2>2. m > 0
    <3>1. SUFFICES ASSUME m <= 0  PROVE FALSE
      BY <1>8
    <3>2. m * n <= 0
      BY <1>1, <1>8, <3>1
    <3>3. m * n \in Int
      BY <1>1, <1>8
    <3> QED  BY <1>9, <2>1, <3>2, <3>3
  <2> DEFINE a == probe * m
             q == a \div s
  <2>3. a \in Nat /\ a >= 195 * m
    BY <1>8, <2>2
  <2>4. m * n <= m * 97
    BY <1>1, <1>8, <2>2
  <2>5. 2 * s <= a
    BY <1>1, <1>8, <1>9, <2>2, <2>3, <2>4
  <2> HIDE DEF a
  <2>6. q \in Nat /\ a < s * q + s
    BY <2>1, <2>3
  <2> HIDE DEF q
  <2>7. q \in {0, 1} => a < 2 * s
    BY <2>1, <2>3, <2>6
  <2>8. q \in Nat /\ q >= 2
    BY <2>1, <2>3, <2>5, <2>6, <2>7
  <2> QED  BY <2>8 DEF q, a
<1> DEFINE x == ShareOf(prob, l, O, probe, h)
<1>13. x \in Nat /\ x >= 2
  <2> HIDE DEF x, n
  <2>1. x = IF l = 0 \/ s <= 0 THEN probe \div n ELSE (probe * m) \div s
    BY <1>10 DEF x, n
  <2> QED  BY <1>11, <1>12, <2>1, Zenon
<1> QED  BY <1>7, <1>13

\* A layer dropped entirely on which nothing failed is opened by its update.
LEMMA DroppedLayerOpens ==
    ASSUME NEW t, NEW ids, IsFiniteSet(ids), DROP_FACE_ID \in ids, FewOthers(ids), IsTable(t, ids),
           NEW l \in Layers, IsDistribution(t.prob[l], ids), t.prob[l][DROP_FACE_ID] = UNIT,
           l \notin t.jammed, NEW st, IsStatistic(st, ids), st.utf = 0,
           \A f \in ids : st.reliability[f] = UNIT,
           st.total # 0 => st.actual[DROP_FACE_ID] <= UNIT
    PROVE  Opened(UpdateLayer(t, l, st).prob[l], ids)
<1> DEFINE reliable == getReliableFaces(st, t.curReliability)
           unreliable == getUnreliableFaces(st, t.curReliability)
           utf == Part(st.utf, ALPHA)
           column == t.prob[l]
           O == Others(ids)
           Open(new) == Opened(new.prob[l], ids)
<1>1. IsColumns(t.prob, ids) /\ t.prob \in [Layers -> [ids -> Int]] /\ "prob" \in DOMAIN t
  BY DEF IsTable, IsColumns
<1>2. reliable = O
  <2>1. t.curReliability \in Int /\ t.curReliability <= UNIT
    BY DEF IsTable, RELIABILITY_THRESHOLD_MIN, RELIABILITY_THRESHOLD_MAX, UNIT
  <2>2. DOMAIN st.reliability = ids
    BY DEF IsStatistic
  <2>3. UNIT >= t.curReliability
    BY <2>1 DEF UNIT
  <2> QED  BY <2>2, <2>3 DEF getReliableFaces, Others
<1>3. utf = 0
  BY DEF Part, ALPHA, UNIT
<1>4. column \in [ids -> Nat] /\ column \in [ids -> Int] /\ \A f \in ids : column[f] \in Nat
  BY DEF IsDistribution
<1>5. /\ IsFiniteSet(O) /\ O \in SUBSET ids /\ DROP_FACE_ID \notin O /\ O # {}
      /\ O = ids \ {DROP_FACE_ID}
      /\ Cardinality(O) \in Nat /\ Cardinality(O) <= 97 /\ Cardinality(O) # 0
  <2>1. /\ IsFiniteSet(O) /\ O \in SUBSET ids /\ DROP_FACE_ID \notin O /\ O # {}
        /\ Cardinality(O) \in Nat /\ Cardinality(O) <= 97
    BY OthersFinite DEF FewOthers, Others
  <2> QED  BY <2>1, FS_EmptySet DEF Others
<1>6. UpdateCase(UpdateLayer(t, l, st), t, l, st, utf, reliable, unreliable)
  BY UpdateCases
<1> HIDE DEF reliable, unreliable, utf, O
<1>7. Open(ProbeUnused(t, l, O))
  <2> DEFINE drop == column[DROP_FACE_ID]
             probe == Part(drop, PROBING_TRAFFIC)
             each == probe \div Cardinality(O)
             col == [f \in DOMAIN column |->
                        IF f = DROP_FACE_ID THEN column[f] - probe
                        ELSE IF f \in O THEN column[f] + each ELSE column[f]]
  <2>1. ProbeUnused(t, l, O).prob = [t.prob EXCEPT ![l] = col]
    BY <1>1 DEF ProbeUnused
  <2>2. ProbeUnused(t, l, O).prob[l] = col
    BY <1>1, <2>1
  <2>3. drop = 1000 /\ probe = 300
    <3>1. drop = 1000
      BY DEF UNIT
    <3> HIDE DEF drop
    <3> QED  BY <3>1 DEF Part, PROBING_TRAFFIC, UNIT
  <2> HIDE DEF probe
  <2>4. each \in Nat /\ each >= 2
    <3> DEFINE n == Cardinality(O)
               q == probe \div n
    <3>1. n \in Nat /\ n <= 97 /\ n # 0
      BY <1>5
    <3> HIDE DEF n
    <3>2. q \in Nat /\ 300 < n * q + n
      BY <2>3, <3>1
    <3> HIDE DEF q
    <3>3. q \in {0, 1} => FALSE
      BY <3>1, <3>2
    <3>4. q \in Nat /\ q >= 2
      BY <3>2, <3>3
    <3> QED  BY <3>4 DEF q, n
  <2> HIDE DEF each, column
  <2>5. col \in [ids -> Int]
    BY <1>4, <2>3, <2>4
  <2>6. col[DROP_FACE_ID] <= UNIT
    BY <1>4, <2>3 DEF UNIT
  <2>7. \A f \in O : col[f] >= 2
    BY <1>4, <1>5, <2>4
  <2> HIDE DEF col
  <2>8. Opened(col, ids)
    BY <1>5, <2>5, <2>6, <2>7 DEF Opened, O
  <2> QED  BY <2>2, <2>8
<1>8. ASSUME st.total # 0  PROVE Open(DropLess(t, l, st, O))
  <2> DEFINE new == DropLess(t, l, st, O).prob
             d == Weighted(column, st, DROP_FACE_ID)
             q == Part(d, PROBING_TRAFFIC)
  <2>1. \/ Probed(new, t.prob, l, O, d, ids)
        \/ new[l] \in [ids -> Int] /\ new[l][DROP_FACE_ID] <= d /\ \E f \in O : new[l][f] >= 2
    <3>1. \A f \in O : st.reliability[f] > 0
      BY <1>5 DEF UNIT
    <3> QED  BY <1>4, <1>5, <1>8, <3>1, DropLessIs
  <2>2. d \in Nat /\ d >= 650 /\ d <= UNIT
    <3> DEFINE c == column[DROP_FACE_ID]
               a == st.actual[DROP_FACE_ID]
    <3>1. /\ d \in Nat /\ UNIT * d >= (UNIT - ALPHA) * c + ALPHA * a
          /\ UNIT * d < (UNIT - ALPHA) * c + ALPHA * a + UNIT
      BY <1>4, WeightedIs
    <3>2. c = UNIT /\ a \in Nat /\ a <= UNIT
      BY <1>8 DEF IsStatistic
    <3> HIDE DEF c, a, d
    <3> QED  BY <3>1, <3>2 DEF UNIT, ALPHA
  <2> HIDE DEF new, d
  <2>3. q \in Nat /\ q >= 195 /\ d - q \in Nat /\ d - q <= UNIT
    <3>1. q \in Nat /\ q >= 195 /\ d - q \in Nat /\ d - q <= d
      BY <2>2, ProbeIs
    <3> HIDE DEF q
    <3> QED  BY <2>2, <3>1 DEF UNIT
  <2>4. CASE Probed(new, t.prob, l, O, d, ids)
    <3>1. /\ KeptButFor(O \cup {DROP_FACE_ID}, new[l], column, ids)
          /\ new[l][DROP_FACE_ID] = d - q
          /\ \A f \in O : column[f] \in Nat /\ ShareOf(t.prob, l, O, q, f) \in Nat
                          => new[l][f] >= ShareOf(t.prob, l, O, q, f)
      <4>1. ~(O = {} \/ q < 1)
        <5> HIDE DEF q
        <5> QED  BY <1>5, <2>3
      <4> QED  BY <2>4, <4>1 DEF Probed
    <3> HIDE DEF q, column
    <3>2. new[l] \in [ids -> Int]
      BY <3>1 DEF KeptButFor
    <3>3. PICK f \in O : ShareOf(t.prob, l, O, q, f) \in Nat /\ ShareOf(t.prob, l, O, q, f) >= 2
      BY <1>1, <2>3, SomeShare DEF O
    <3>4. column[f] \in Nat /\ new[l][f] \in Int
      BY <1>4, <1>5, <3>2
    <3>5. new[l][f] >= 2
      BY <3>1, <3>3, <3>4
    <3>6. new[l][DROP_FACE_ID] <= UNIT
      BY <2>3, <3>1
    <3> QED  BY <3>2, <3>5, <3>6 DEF Opened, O, new
  <2>5. ASSUME new[l] \in [ids -> Int], new[l][DROP_FACE_ID] <= d, \E f \in O : new[l][f] >= 2
        PROVE  Opened(new[l], ids)
    <3>1. new[l][DROP_FACE_ID] \in Int
      BY <2>5
    <3>2. new[l][DROP_FACE_ID] <= UNIT
      BY <2>2, <2>5, <3>1 DEF UNIT
    <3> QED  BY <2>5, <3>2 DEF Opened, O
  <2> QED  BY <2>1, <2>4, <2>5 DEF new
<1>9. column[DROP_FACE_ID] # 0
  BY DEF UNIT
<1> HIDE DEF Open
<1>10. Open(UpdateLayer(t, l, st))
  <2>1. ~(utf > 0)
    BY <1>3
  <2> HIDE DEF column
  <2> QED  BY <1>2, <1>6, <1>7, <1>8, <1>9, <2>1 DEF UpdateCase, column
<1> QED  BY <1>10 DEF Open

\* What the evaluation of a layer says when nothing failed on it.
Unfailing(st, ids) ==
    /\ st.utf = 0 /\ \A f \in ids : st.reliability[f] = UNIT
    /\ st.total # 0 => \A f \in ids : st.actual[f] <= UNIT

LEMMA NothingFailed ==
    ASSUME NEW st, NEW ids, IsFiniteSet(ids), IsStatistic(st, ids), NEW threshold,
           SumFunction(st.unsat) = 0
    PROVE  Unfailing(ResetLayer(st, threshold), ids)
<1> DEFINE new == ResetLayer(st, threshold)
<1>1. st.unsat \in [ids -> Nat] /\ SumOf(st.unsat, ids) = 0
  <2>1. st.unsat \in [ids -> Nat]
    BY DEF IsStatistic
  <2>2. SumFunction(st.unsat) = SumOf(st.unsat, DOMAIN st.unsat)
    BY SumsOfFunctions
  <2> QED  BY <2>1, <2>2
<1>2. \A f \in ids : st.unsat[f] = 0
  <2> SUFFICES ASSUME NEW f \in ids, st.unsat[f] # 0  PROVE FALSE
    OBVIOUS
  <2>1. st.unsat[f] > 0 /\ \A x \in ids : st.unsat[x] \in Nat
    BY <1>1
  <2>2. SumOf(st.unsat, ids) > 0
    BY <2>1, SumPositive
  <2> QED  BY <1>1, <2>2
<1>3. \A f \in ids : new.reliability[f] = UNIT
  <2>1. new.reliability = Reliabilities(st)
    BY DEF ResetLayer, IsStatistic
  <2>2. DOMAIN st.sat = ids
    BY DEF IsStatistic
  <2> HIDE DEF new
  <2> QED  BY <1>2, <2>1, <2>2 DEF Reliabilities
<1>4. IsStatistic(new, ids) /\ Failures(new, st.unsat, threshold, ids)
  BY ResetIs, ResetShape
<1> HIDE DEF new
<1>5. getUnreliableFaces(new, threshold) \subseteq ids
  BY <1>4 DEF getUnreliableFaces, IsStatistic
<1>6. new.utf = 0
  <2> DEFINE S == getUnreliableFaces(new, threshold)
             u == new.utf
             n == new.total
  <2>1. SumOf(st.unsat, S) = 0
    <3>1. IsFiniteSet(S) /\ (\A f \in S : st.unsat[f] = 0)
      BY <1>2, <1>5, FS_Subset
    <3> HIDE DEF S
    <3>2. Cardinality(S) \in Nat /\ SumOf(st.unsat, S) = 0 * Cardinality(S)
      BY <3>1, SumConstant, FS_CardinalityType
    <3> QED  BY <3>2
  <2>2. u \in Nat /\ n \in Nat /\ (n = 0 => u = 0) /\ u * n <= 0
    <3>1. u \in Nat /\ (n = 0 => u = 0) /\ u * n <= UNIT * SumOf(st.unsat, S)
      BY <1>4 DEF Failures
    <3>2. n \in Nat
      BY <1>4 DEF IsStatistic
    <3> HIDE DEF u, n, S
    <3> QED  BY <2>1, <3>1, <3>2 DEF UNIT
  <2> HIDE DEF u, n
  <2>3. n # 0 /\ u # 0 => u * n > 0
    BY <2>2
  <2>4. u = 0
    BY <2>2, <2>3
  <2> QED  BY <2>4 DEF u
<1>7. ASSUME new.total # 0, NEW f \in ids  PROVE new.actual[f] <= UNIT
  <2> DEFINE a == new.actual[f]
             n == new.total
             x == new.forwarded[f]
  <2>1. a * n < UNIT * x + n /\ n = SumOf(new.forwarded, ids)
    BY <1>4, <1>7 DEF Failures
  <2>2. a \in Nat /\ n \in Nat /\ n # 0 /\ x \in Nat /\ \A y \in ids : new.forwarded[y] \in Nat
    BY <1>4, <1>7 DEF IsStatistic
  <2>3. x <= n
    <3>1. SumOf(new.forwarded, {f}) <= SumOf(new.forwarded, ids)
      BY <2>2, SumOfPart
    <3>2. SumOf(new.forwarded, {f}) = x
      BY <2>2, SumOfOne
    <3> QED  BY <2>1, <3>1, <3>2
  <2> HIDE DEF a, n, x
  <2>4. SUFFICES ASSUME a >= UNIT + 1  PROVE FALSE
    BY <2>2 DEF a, UNIT
  <2>5. a * n >= (UNIT + 1) * n
    BY <2>2, <2>4 DEF UNIT
  <2> QED  BY <2>1, <2>2, <2>3, <2>5 DEF UNIT
<1> QED  BY <1>3, <1>6, <1>7 DEF Unfailing, new

\* No layer's update jams another.
LEMMA JammedBefore ==
    ASSUME NEW up, NEW t, NEW stats, NEW ids, LayerByLayer(up, t, stats, ids), NEW l \in Layers
    PROVE  up[l - 1].jammed = t.jammed
<1> DEFINE Kept == {k \in -1 .. l - 1 : up[k].jammed = t.jammed}
<1>1. l - 1 \in Int /\ -1 \in Int /\ -1 <= l - 1
      /\ \A k \in -1 .. l - 1 : k = -1 \/ k \in Layers
  BY LayersAre
<1>2. -1 \in Kept
  BY <1>1 DEF LayerByLayer
<1>3. ASSUME NEW k \in -1 .. l - 1, k - 1 \in Kept  PROVE k \in Kept
  <2>1. k # -1 /\ up[k - 1].jammed = t.jammed
    BY <1>1, <1>3
  <2>2. up[k] = UpdateLayer(up[k - 1], k, stats[k])
    BY <1>1, <2>1 DEF LayerByLayer
  <2>3. UpdateLayer(up[k - 1], k, stats[k]).jammed = up[k - 1].jammed
    BY JammedStays
  <2> QED  BY <2>1, <2>2, <2>3
<1>4. l - 1 \in Kept
  <2>1. Kept \in SUBSET (-1 .. l - 1)
    OBVIOUS
  <2> HIDE DEF Kept
  <2> QED  BY <1>1, <1>2, <1>3, <2>1, KeptToTheEnd
<1> QED  BY <1>4

\* A layer that was dropped entirely, and is to be let through again.
Recovering(t, l, stats, columns, ids) ==
    /\ t.prob[l][DROP_FACE_ID] = UNIT /\ l \notin t.jammed /\ Unfailing(stats[l], ids)
    /\ \A k \in Layers : k < l => columns[k][DROP_FACE_ID] = 0

LEMMA LearntOpens ==
    ASSUME NEW t, NEW ids, IsFiniteSet(ids), DROP_FACE_ID \in ids, FewOthers(ids), IsNormal(t, ids),
           NEW stats, IsStatistics(stats, ids), \A k \in Layers : stats[k].utf \in Nat,
           NEW l \in Layers, Recovering(t, l, stats, UpdateLayers(t, stats).prob, ids)
    PROVE  OpenUpTo(updateColumns(t, stats).prob, l, ids)
<1> DEFINE up == UpdateUpTo(t, stats)
           all == UpdateLayers(t, stats)
           new == updateColumns(t, stats)
<1>1. LayerByLayer(up, t, stats, ids) /\ all = up[MAX_LAYERS - 1]
  BY UpdatingIs DEF UpdateLayers
<1>2. IsTable(all, ids)
  BY UpdateLayersShape
<1>3. new = NormalizeColumns(all)
  BY DEF updateColumns
<1> HIDE DEF up, all, new
<1>4. \A k \in Layers : new.prob[k] = NormalizeColumn(all.prob[k])
  BY <1>2, <1>3 DEF NormalizeColumns, IsTable
<1>5. MAX_LAYERS - 1 \in Layers /\ \A k \in Layers : k <= MAX_LAYERS - 1
  BY LayersAre
<1>6. \A k \in Layers : all.prob[k] = up[k].prob[k]
  BY <1>1, <1>5 DEF LayerByLayer
<1>7. \A k \in Layers : all.prob[k] \in [ids -> Int]
  BY <1>2 DEF IsTable, IsColumns
<1>8. ASSUME NEW k \in Layers, k < l  PROVE new.prob[k][DROP_FACE_ID] = 0
  <2> DEFINE s == up[k - 1]
             st == stats[k]
  <2>1. all.prob[k][DROP_FACE_ID] = 0
    BY <1>8 DEF Recovering, all
  <2>2. up[k] = UpdateLayer(s, k, st) /\ IsTable(s, ids) /\ s.prob[k] = t.prob[k]
    BY <1>1 DEF LayerByLayer
  <2>3. IsDistribution(s.prob[k], ids)
    BY <2>2 DEF IsNormal
  <2>4. IsStatistic(st, ids) /\ st.utf \in Nat
    BY DEF IsStatistics
  <2>5. UpdateLayer(s, k, st).prob[k][DROP_FACE_ID] = 0
    BY <1>6, <2>1, <2>2
  <2> HIDE DEF s, st
  <2>6. Feeds(UpdateLayer(s, k, st).prob[k], ids)
    BY <2>2, <2>3, <2>4, <2>5, LayerFeeds
  <2>7. Feeds(all.prob[k], ids)
    BY <1>6, <2>2, <2>6
  <2> QED  BY <1>4, <1>7, <2>1, <2>7, LetThrough
<1>9. Feeds(new.prob[l], ids)
  <2> DEFINE s == up[l - 1]
             st == stats[l]
  <2>1. up[l] = UpdateLayer(s, l, st) /\ IsTable(s, ids) /\ s.prob[l] = t.prob[l]
    BY <1>1 DEF LayerByLayer
  <2>2. IsDistribution(s.prob[l], ids) /\ s.prob[l][DROP_FACE_ID] = UNIT
    BY <2>1 DEF IsNormal, Recovering
  <2>3. l \notin s.jammed
    BY <1>1, JammedBefore DEF Recovering
  <2>4. /\ IsStatistic(st, ids) /\ st.utf = 0 /\ (\A f \in ids : st.reliability[f] = UNIT)
        /\ st.total # 0 => st.actual[DROP_FACE_ID] <= UNIT
    BY DEF IsStatistics, Recovering, Unfailing
  <2> HIDE DEF s, st
  <2>5. Opened(UpdateLayer(s, l, st).prob[l], ids)
    BY <2>1, <2>2, <2>3, <2>4, DroppedLayerOpens
  <2>6. Opened(all.prob[l], ids)
    BY <1>6, <2>1, <2>5
  <2>7. Feeds(NormalizeColumn(all.prob[l]), ids)
    BY <2>6, OpenedFeeds
  <2> QED  BY <1>4, <2>7
<1>10. OpenUpTo(new.prob, l, ids)
  BY <1>8, <1>9 DEF OpenUpTo
<1> QED  BY <1>10 DEF new

\* A fallback opens every layer.
LEMMA NewTableOpens ==
    ASSUME NEW ids, IsFiniteSet(ids), DROP_FACE_ID \in ids, FewOthers(ids),
           NEW active \in SUBSET ids, DROP_FACE_ID \in active, active # {DROP_FACE_ID},
           NEW l \in Layers
    PROVE  OpenUpTo(NewTable(ids, active).prob, l, ids)
<1>1. IsNormal(NewTable(ids, active), ids)
  BY NewTableShape
<1>2. \A k \in Layers : NewTable(ids, active).prob[k][DROP_FACE_ID] = 0
  BY DEF NewTable
<1>3. Feeds(NewTable(ids, active).prob[l], ids)
  BY <1>1, <1>2, DistributionFeeds DEF IsNormal
<1> QED  BY <1>2, <1>3 DEF OpenUpTo

\* Either way the synchronisation lets the layer through.
LEMMA EntryRecovers ==
    ASSUME NEW e, NEW ids, IsFiniteSet(ids), IsEntry(e, ids), FewOthers(ids), NEW l \in Layers,
           NEW stats, stats = resetStatistics(e.stats, e.table.curReliability),
           Recovering(e.table, l, stats, UpdateLayers(e.table, stats).prob, ids)
    PROVE  UpdateEntry(e).table.prob[l][DROP_FACE_ID] < UNIT
<1> DEFINE learnt == IF FallsBack(e, stats) THEN NewTable(e.active \cup e.standby, e.active)
                     ELSE updateColumns(e.table, stats)
           counter == IF FallsBack(e, stats) THEN 0 ELSE EvaluateFallback(e, stats)
<1>1. /\ IsNormal(e.table, ids) /\ IsStatistics(e.stats, ids) /\ e.active \cup e.standby = ids
      /\ DROP_FACE_ID \in e.active /\ e.active # {DROP_FACE_ID} /\ DROP_FACE_ID \in ids
      /\ e.active \in SUBSET ids
  BY DEF IsEntry
<1>2. IsStatistics(stats, ids)
  BY <1>1, ResetsShape
<1>3. \A k \in Layers : stats[k].utf \in Nat
  <2> SUFFICES ASSUME NEW k \in Layers  PROVE stats[k].utf \in Nat
    OBVIOUS
  <2>1. stats[k] = ResetLayer(e.stats[k], e.table.curReliability) /\ IsStatistic(e.stats[k], ids)
    BY <1>1 DEF resetStatistics, IsStatistics
  <2>2. Failures(stats[k], e.stats[k].unsat, e.table.curReliability, ids)
    BY <2>1, ResetIs
  <2> QED  BY <2>2 DEF Failures
<1>4. UpdateEntry(e).table = syncDroppingPolicy(learnt, stats)
  <2>1. UpdateEntry(e) = [e EXCEPT !.stats = stats, !.fallbackCounter = counter,
                                   !.table = syncDroppingPolicy(learnt, stats)]
    BY DEF UpdateEntry
  <2> HIDE DEF learnt, counter
  <2> QED  BY <2>1 DEF IsEntry
<1>5. CASE FallsBack(e, stats)
  <2>1. learnt = NewTable(ids, e.active)
    BY <1>1, <1>5
  <2> HIDE DEF learnt
  <2>2. IsNormal(learnt, ids) /\ OpenUpTo(learnt.prob, l, ids)
    BY <1>1, <2>1, NewTableShape, NewTableOpens
  <2>3. IsTable(learnt, ids) /\ AllShared(learnt, ids)
    BY <1>1, <2>2, NormalIsShared DEF IsNormal
  <2> QED  BY <1>1, <1>2, <1>4, <2>2, <2>3, SyncLetsThrough
<1>6. CASE ~FallsBack(e, stats)
  <2>1. learnt = updateColumns(e.table, stats)
    BY <1>6
  <2> HIDE DEF learnt
  <2>2. IsNormal(learnt, ids) /\ OpenUpTo(learnt.prob, l, ids)
    BY <1>1, <1>2, <1>3, <2>1, UpdatedShape, LearntOpens
  <2>3. IsTable(learnt, ids) /\ AllShared(learnt, ids)
    BY <1>1, <2>2, NormalIsShared DEF IsNormal
  <2> QED  BY <1>1, <1>2, <1>4, <2>2, <2>3, SyncLetsThrough
<1> QED  BY <1>5, <1>6

\* Nothing but an update counts as one.
LEMMA OnlyUpdatesCount ==
    ASSUME [Next]_vars, updates' # updates
    PROVE  Update
<1>1. Next
  BY DEF vars
<1>2. ASSUME NEW f \in Faces, AddFace(f) \/ RemoveFace(f) \/ NewTokens(f)  PROVE updates' = updates
  BY <1>2 DEF AddFace, RemoveFace, Replace, NewTokens
<1>3. ASSUME NEW n \in Names, NEW f \in Faces, OnInterest(n, f)  PROVE updates' = updates
  BY <1>3 DEF OnInterest, Propagate
<1>4. ASSUME NEW n \in Names, NEW f \in Faces, WillSatisfyPendingInterest(n, f) \/ DidReceiveValidNack(n, f)
      PROVE  updates' = updates
  BY <1>4 DEF WillSatisfyPendingInterest, DidReceiveValidNack
<1>5. ASSUME NEW n \in Names, WillEraseTimedOutPendingInterest(n)  PROVE updates' = updates
  BY <1>5 DEF WillEraseTimedOutPendingInterest
<1>6. ASSUME Try  PROVE updates' = updates
  BY <1>6 DEF Try, GiveUp, SendOut, Blocked
<1>7. ASSUME NEW i \in DOMAIN engines, FreeEngine(i)  PROVE updates' = updates
  BY <1>7 DEF FreeEngine
<1> QED  BY <1>1, <1>2, <1>3, <1>4, <1>5, <1>6, <1>7, Zenon DEF Next

LEMMA StepRecovers ==
    ASSUME EngineInv, Cardinality(Faces) <= 97, Update,
           NEW c \in DOMAIN engine.entries, NEW l \in Layers,
           engine.entries[c].table.prob[l][DROP_FACE_ID] = UNIT,
           l \notin engine.entries[c].table.jammed,
           SumFunction(engine.entries[c].stats[l].unsat) = 0,
           \A k \in Layers : k < l => Unnormalised(c)[k][DROP_FACE_ID] = 0
    PROVE  engine'.entries[c].table.prob[l][DROP_FACE_ID] < UNIT
<1> DEFINE ids == DropAnd(faces)
           e == engine.entries[c]
           stats == Evaluated(c)
           new == [engine EXCEPT !.entries = [x \in DOMAIN @ |-> UpdateEntry(@[x])]]
<1>1. IsEngine(engine, faces) /\ faces \subseteq Faces /\ AnEngine
  BY DEF EngineInv, InUse
<1>2. engine'.entries[c] = UpdateEntry(e)
  <2>1. engine' = new
    BY <1>1, UsedIs DEF Update
  <2>2. new.entries[c] = UpdateEntry(e)
    BY <1>1 DEF IsEngine
  <2> HIDE DEF new
  <2> QED  BY <2>1, <2>2
<1>3. IsFiniteSet(faces) /\ Cardinality(faces) \in Nat /\ Cardinality(faces) <= 97
  <2>1. /\ IsFiniteSet(faces) /\ Cardinality(faces) \in Nat /\ Cardinality(Faces) \in Nat
        /\ Cardinality(faces) <= Cardinality(Faces)
    BY <1>1, FacesAreNumbers, FS_Subset, FS_CardinalityType
  <2> QED  BY <2>1
<1>4. IsFiniteSet(ids) /\ Others(ids) = faces
  <2>1. IsFiniteSet(ids)
    BY <1>3, FS_AddElement DEF DropAnd
  <2> QED  BY <1>1, <2>1, FacesAreNumbers DEF DropAnd, Others
<1>5. IsEntry(e, ids)
  BY <1>1 DEF IsEngine
<1>6. FewOthers(ids)
  <2>1. ids # {DROP_FACE_ID}
    BY <1>5 DEF IsEntry
  <2>2. faces # {}
    BY <2>1 DEF DropAnd
  <2> QED  BY <1>3, <1>4, <2>2 DEF FewOthers
<1>7. stats = resetStatistics(e.stats, e.table.curReliability)
  BY DEF Evaluated
<1>8. Unnormalised(c) = UpdateLayers(e.table, stats).prob
  BY DEF Unnormalised, Updating, UpdateLayers
<1>9. e.table.prob[l][DROP_FACE_ID] = UNIT /\ l \notin e.table.jammed /\ SumFunction(e.stats[l].unsat) = 0
  OBVIOUS
<1> HIDE DEF ids, e, stats
<1>10. Unfailing(stats[l], ids)
  <2>1. stats[l] = ResetLayer(e.stats[l], e.table.curReliability) /\ IsStatistic(e.stats[l], ids)
    BY <1>5, <1>7 DEF resetStatistics, IsEntry, IsStatistics
  <2> QED  BY <1>4, <1>9, <2>1, NothingFailed
<1>11. Recovering(e.table, l, stats, UpdateLayers(e.table, stats).prob, ids)
  BY <1>8, <1>9, <1>10 DEF Recovering
<1>12. UpdateEntry(e).table.prob[l][DROP_FACE_ID] < UNIT
  BY <1>4, <1>5, <1>6, <1>7, <1>11, EntryRecovers
<1> QED  BY <1>2, <1>12

\* For any contents, layers and routes, and whatever was observed before, of any
\* node of up to 97 faces: a layer that was dropped entirely is let through by the
\* next update, unless failures, a lower layer or a jam explain that it is not.
\* With more faces what is given up of the dropping is less than a permille each.
THEOREM DroppedLayersRecover == Cardinality(Faces) <= 97 => (Spec => DroppedLayerRecovers)
<1> DEFINE Recovers == updates' > updates =>
        \A c \in DOMAIN engine.entries : \A l \in Layers :
            LET entry == engine.entries[c]
            IN (/\ entry.table.prob[l][DROP_FACE_ID] = UNIT
                /\ l \notin entry.table.jammed
                /\ SumFunction(entry.stats[l].unsat) = 0
                /\ \A k \in Layers : k < l => Unnormalised(c)[k][DROP_FACE_ID] = 0)
               => engine'.entries[c].table.prob[l][DROP_FACE_ID] < UNIT
<1> SUFFICES ASSUME Cardinality(Faces) <= 97  PROVE Spec => DroppedLayerRecovers
  OBVIOUS
<1>1. Init => EngineInv /\ TypeInv
  BY InitEngine, InitTypes
<1>2. IInv /\ EngineInv /\ TypeInv /\ [Next]_vars => EngineInv' /\ TypeInv'
  BY StepEngine, StepTypes
<1>3. EngineInv /\ TypeInv /\ [Next]_vars => [Recovers]_vars
  <2> SUFFICES ASSUME EngineInv, TypeInv, [Next]_vars, updates' > updates  PROVE Recovers
    OBVIOUS
  <2>1. updates' # updates
    BY BoundsAre DEF TypeInv
  <2>2. Update
    BY <2>1, OnlyUpdatesCount
  <2> QED  BY <2>2, StepRecovers
<1> QED  BY Invariance, <1>1, <1>2, <1>3, PTL DEF Spec, DroppedLayerRecovers
=============================================================================
