------------------------- MODULE LayerStrategyProofs -------------------------
(***************************************************************************)
(* What the entries of the PIT promise to the neighbours and to the        *)
(* counters of the PIT threshold strategy, and what the dropping policy    *)
(* makes of an overload, for any number of neighbours, uplinks, names and  *)
(* levels.                                                                 *)
(***************************************************************************)
EXTENDS LayerStrategy, DataLemmas

Entries ==
    [incoming : SUBSET Consumers, sent : [Uplinks -> Nat], retx : Nat, inVain : SUBSET Uplinks]

TypeInv ==
    /\ pit \in [Names -> Entries]
    /\ asks \subseteq Consumers \X Names
    /\ pending \in [Faces -> Nat]
    /\ stray \in [Uplinks -> Nat]

SentTo(u) == {n \in Names : u \in outgoing(pit[n])}

IInv == TypeInv /\ NoneForgotten /\ UplinkNotUndercounted

\* What a step has to show of each uplink.
Covered(u) == pending[u] + stray[u] >= Cardinality(SentTo(u))
-----------------------------------------------------------------------------
\* The numbers of names sent to an uplink, before and after a step.
LEMMA SentToFinite ==
    ASSUME NEW u \in Uplinks
    PROVE  /\ IsFiniteSet(SentTo(u)) /\ Cardinality(SentTo(u)) \in Nat
           /\ IsFiniteSet(SentTo(u)') /\ Cardinality(SentTo(u)') \in Nat
<1>1. SentTo(u) \subseteq Names /\ SentTo(u)' \subseteq Names
  BY DEF SentTo
<1> QED  BY <1>1, UplinksAssumption, FS_Subset, FS_CardinalityType

\* A step that sends one more name there, at most.
LEMMA OneMore ==
    ASSUME NEW u \in Uplinks, NEW n, SentTo(u)' \subseteq SentTo(u) \cup {n}
    PROVE  Cardinality(SentTo(u)') <= Cardinality(SentTo(u)) + 1
<1>1. /\ IsFiniteSet(SentTo(u) \cup {n})
      /\ Cardinality(SentTo(u) \cup {n}) <= Cardinality(SentTo(u)) + 1
  BY SentToFinite, FS_AddElement
<1>2. Cardinality(SentTo(u)') <= Cardinality(SentTo(u) \cup {n})
  BY <1>1, FS_Subset
<1>3. Cardinality(SentTo(u) \cup {n}) \in Nat
  BY <1>1, FS_CardinalityType
<1> QED  BY <1>1, <1>2, <1>3, SentToFinite

\* A step that sends none.
LEMMA NoMore ==
    ASSUME NEW u \in Uplinks, SentTo(u)' \subseteq SentTo(u)
    PROVE  Cardinality(SentTo(u)') <= Cardinality(SentTo(u))
BY SentToFinite, FS_Subset

\* A step that is done with a name that was sent there.
LEMMA OneLess ==
    ASSUME NEW u \in Uplinks, NEW n \in SentTo(u), SentTo(u)' \subseteq SentTo(u) \ {n}
    PROVE  Cardinality(SentTo(u)') + 1 <= Cardinality(SentTo(u))
<1>1. /\ IsFiniteSet(SentTo(u) \ {n})
      /\ Cardinality(SentTo(u) \ {n}) = Cardinality(SentTo(u)) - 1
  BY SentToFinite, FS_RemoveElement
<1>2. Cardinality(SentTo(u)') <= Cardinality(SentTo(u) \ {n})
  BY <1>1, FS_Subset
<1> QED  BY <1>1, <1>2, SentToFinite

\* Every uplink covered, before or after, is UplinkNotUndercounted.
LEMMA CoveredIs ==
    /\ UplinkNotUndercounted <=> (kind = "PitThreshold" => \A u \in Uplinks : Covered(u))
    /\ UplinkNotUndercounted' <=> (kind' = "PitThreshold" => \A u \in Uplinks : Covered(u)')
BY DEF UplinkNotUndercounted, Covered, SentTo

\* No name more and no count less.
LEMMA StillCovered ==
    ASSUME TypeInv, TypeInv', NEW u \in Uplinks, Covered(u),
           SentTo(u)' \subseteq SentTo(u), pending'[u] >= pending[u], stray'[u] = stray[u]
    PROVE  Covered(u)'
<1>1. /\ pending[u] \in Nat /\ pending'[u] \in Nat /\ stray[u] \in Nat
      /\ Covered(u)' <=> pending'[u] + stray'[u] >= Cardinality(SentTo(u)')
  BY DEF TypeInv, Faces, Covered
<1> QED  BY <1>1, NoMore, SentToFinite DEF Covered
-----------------------------------------------------------------------------
\* Both counters keep their type, and change by one at most, where they should.
LEMMA IncreasedByOne ==
    ASSUME NEW count \in [Faces -> Nat], NEW f \in Faces
    PROVE  /\ Increased(count, f) \in [Faces -> Nat]
           /\ Increased(count, f)[f] = count[f] + 1
           /\ \A g \in Faces : Increased(count, f)[g] >= count[g]
BY DEF Increased

LEMMA DecreasedByOne ==
    ASSUME NEW count \in [Faces -> Nat], NEW S
    PROVE  /\ Decreased(count, S) \in [Faces -> Nat]
           /\ \A g \in Faces : Decreased(count, S)[g] + 1 >= count[g]
           /\ \A g \in Faces \ S : Decreased(count, S)[g] = count[g]
BY DEF Decreased

LEMMA NoEntryIsEntry == NoEntry \in Entries /\ NoEntry.incoming = {} /\ outgoing(NoEntry) = {}
<1>1. \A u \in Uplinks : ~([v \in Uplinks |-> 0][u] > 0)
  OBVIOUS
<1> QED  BY <1>1 DEF NoEntry, Entries, outgoing
-----------------------------------------------------------------------------
\* A propagation sends the interest to one uplink or gives the entry up; in the
\* meantime the entry may have been allowed more retransmissions.
SentOrGone(n, entry, so) ==
    \/ \E u \in Uplinks, retx \in {entry.retx, entry.retx + 1} :
          /\ pit' = [pit EXCEPT ![n] = [entry EXCEPT !.retx = retx, !.sent[u] = @ + 1,
                                                     !.inVain = @ \ {u}]]
          /\ asks' = so.asks
          /\ Pending(Increased(so.pending, u))
    \/ /\ pit' = [pit EXCEPT ![n] = NoEntry]
       /\ asks' = asks \ (entry.incoming \X {n})
       /\ Pending(so.pending)

LEMMA OneAcceptsSends ==
    ASSUME NEW n, NEW entry, NEW inFace, NEW so, NEW before,
           OneAccepts(n, entry, inFace, so, before)
    PROVE  \E u \in Uplinks :
              /\ pit' = [pit EXCEPT ![n] = [entry EXCEPT !.sent[u] = @ + 1, !.inVain = @ \ {u}]]
              /\ asks' = so.asks
              /\ Pending(Increased(so.pending, u))
<1>1. PICK u \in Uplinks : SendOut(u, n, entry, so)
  BY Zenon DEF OneAccepts
<1> QED  BY <1>1 DEF SendOut

LEMMA PropagateEnds ==
    ASSUME NEW n, NEW entry \in Entries, NEW inFace, NEW so, NEW again,
           Propagate(n, entry, inFace, so, again)
    PROVE  SentOrGone(n, entry, so)
<1>1. CASE \E before : OneAccepts(n, entry, inFace, so, before)
  <2>1. PICK u \in Uplinks :
          /\ pit' = [pit EXCEPT ![n] = [entry EXCEPT !.sent[u] = @ + 1, !.inVain = @ \ {u}]]
          /\ asks' = so.asks
          /\ Pending(Increased(so.pending, u))
    BY <1>1, OneAcceptsSends
  <2>2. [entry EXCEPT !.retx = entry.retx, !.sent[u] = @ + 1, !.inVain = @ \ {u}]
          = [entry EXCEPT !.sent[u] = @ + 1, !.inVain = @ \ {u}]
    BY DEF Entries
  <2> QED  BY <2>1, <2>2 DEF SentOrGone
<1>2. CASE \E retx \in {entry.retx, entry.retx + 1} : \E before :
              OneAccepts(n, [entry EXCEPT !.retx = retx], inFace, so, before)
  <2>1. PICK retx \in {entry.retx, entry.retx + 1} :
          \E before : OneAccepts(n, [entry EXCEPT !.retx = retx], inFace, so, before)
    BY <1>2
  <2> DEFINE allowed == [entry EXCEPT !.retx = retx]
  <2>2. PICK before : OneAccepts(n, allowed, inFace, so, before)
    BY <2>1
  <2> HIDE DEF allowed
  <2>3. PICK u \in Uplinks :
          /\ pit' = [pit EXCEPT ![n] = [allowed EXCEPT !.sent[u] = @ + 1, !.inVain = @ \ {u}]]
          /\ asks' = so.asks
          /\ Pending(Increased(so.pending, u))
    BY <2>2, OneAcceptsSends
  <2>4. [entry EXCEPT !.retx = retx, !.sent[u] = @ + 1, !.inVain = @ \ {u}]
          = [allowed EXCEPT !.sent[u] = @ + 1, !.inVain = @ \ {u}]
    BY DEF Entries, allowed
  <2> QED  BY <2>3, <2>4 DEF SentOrGone
<1>3. CASE \E counted : Exhausted(n, entry, inFace, so, counted)
  BY <1>3 DEF Exhausted, GiveUp, SentOrGone
<1>4. CASE \E retx \in {entry.retx, entry.retx + 1} : \E counted :
              Exhausted(n, [entry EXCEPT !.retx = retx], inFace, so, counted)
  <2>1. PICK retx \in {entry.retx, entry.retx + 1} :
          \E counted : Exhausted(n, [entry EXCEPT !.retx = retx], inFace, so, counted)
    BY <1>4
  <2>2. [entry EXCEPT !.retx = retx].incoming = entry.incoming
    BY DEF Entries
  <2> QED  BY <2>1, <2>2 DEF Exhausted, GiveUp, SentOrGone
<1>5. \/ \E before : OneAccepts(n, entry, inFace, so, before)
      \/ \E retx \in {entry.retx, entry.retx + 1} : \E before :
            OneAccepts(n, [entry EXCEPT !.retx = retx], inFace, so, before)
      \/ \E counted : Exhausted(n, entry, inFace, so, counted)
      \/ \E retx \in {entry.retx, entry.retx + 1} : \E counted :
            Exhausted(n, [entry EXCEPT !.retx = retx], inFace, so, counted)
  BY Zenon DEF Propagate
<1> QED  BY <1>1, <1>2, <1>3, <1>4, <1>5

\* Whatever a propagation comes to, typing and NoneForgotten survive it, and an
\* uplink that is sent one more counts one more.
LEMMA PropagateInv ==
    ASSUME IInv, kind' = kind, stray' = stray,
           NEW n \in Names, NEW entry \in Entries, NEW so,
           pit[n].incoming \subseteq entry.incoming,
           outgoing(entry) = outgoing(pit[n]),
           so.asks \subseteq Consumers \X Names,
           \A ask \in so.asks : ask \in asks \/ (ask[1] \in entry.incoming /\ ask[2] = n),
           so.pending \in [Faces -> Nat],
           \A u \in Uplinks : so.pending[u] >= pending[u],
           SentOrGone(n, entry, so)
    PROVE  IInv'
<1>1. TypeInv /\ NoneForgotten /\ UplinkNotUndercounted
  BY DEF IInv
<1>2. ASSUME NEW u \in Uplinks, NEW retx \in {entry.retx, entry.retx + 1},
             pit' = [pit EXCEPT ![n] = [entry EXCEPT !.retx = retx, !.sent[u] = @ + 1,
                                                     !.inVain = @ \ {u}]],
             asks' = so.asks, Pending(Increased(so.pending, u))
      PROVE  IInv'
  <2> DEFINE sent == [entry EXCEPT !.retx = retx, !.sent[u] = @ + 1, !.inVain = @ \ {u}]
  <2>1. sent \in Entries /\ sent.incoming = entry.incoming
    <3> DEFINE counts == [entry.sent EXCEPT ![u] = @ + 1]
    <3>1. counts \in [Uplinks -> Nat] /\ retx \in Nat /\ entry.inVain \ {u} \subseteq Uplinks
      BY DEF Entries
    <3>2. sent = [entry EXCEPT !.retx = retx, !.sent = counts, !.inVain = @ \ {u}]
      BY DEF Entries
    <3> HIDE DEF counts, sent
    <3> QED  BY <3>1, <3>2 DEF Entries
  <2>2. outgoing(sent) \subseteq outgoing(entry) \cup {u}
    BY DEF Entries, outgoing
  <2>3. pit' = [pit EXCEPT ![n] = sent] /\ u \in Faces
    BY <1>2 DEF Faces
  <2> HIDE DEF sent
  <2>4. pending' \in [Faces -> Nat]
    BY <1>1, <1>2, <2>3, IncreasedByOne DEF Pending, TypeInv
  <2>5. TypeInv'
    BY <1>1, <1>2, <2>1, <2>3, <2>4 DEF TypeInv
  <2>6. NoneForgotten'
    BY <1>1, <1>2, <2>1, <2>3, <2>5 DEF TypeInv, NoneForgotten
  <2>7. ASSUME kind = "PitThreshold", NEW v \in Uplinks  PROVE Covered(v)'
    <3>1. Covered(v) /\ v \in Faces
      BY <1>1, <2>7, CoveredIs DEF Faces
    <3>2. pending' = Increased(so.pending, u)
      BY <1>2, <2>7 DEF Pending
    <3>3. pending'[v] >= pending[v]
      <4>1. pending'[v] >= so.pending[v] /\ so.pending[v] >= pending[v]
        BY <2>3, <3>1, <3>2, IncreasedByOne
      <4>2. pending'[v] \in Nat /\ so.pending[v] \in Nat /\ pending[v] \in Nat
        BY <1>1, <2>4, <3>1 DEF TypeInv
      <4> QED  BY <4>1, <4>2
    <3>4. CASE v = u
      <4>1. SentTo(v)' \subseteq SentTo(v) \cup {n}
        BY <1>1, <2>3 DEF SentTo, TypeInv
      <4>2. pending'[v] = so.pending[v] + 1
        BY <2>3, <3>2, <3>4, IncreasedByOne
      <4>3. so.pending[v] >= pending[v] /\ so.pending[v] \in Nat /\ pending[v] \in Nat /\ stray[v] \in Nat
        BY <1>1, <3>1 DEF TypeInv
      <4>4. Cardinality(SentTo(v)') <= Cardinality(SentTo(v)) + 1
        BY <4>1, OneMore
      <4>5. Covered(v)' <=> pending'[v] + stray'[v] >= Cardinality(SentTo(v)')
        BY DEF Covered
      <4> QED  BY <3>1, <4>2, <4>3, <4>4, <4>5, SentToFinite DEF Covered
    <3>5. CASE v # u
      <4>1. SentTo(v)' \subseteq SentTo(v)
        BY <1>1, <2>2, <2>3, <3>5 DEF SentTo, TypeInv
      <4> QED  BY <1>1, <2>5, <3>1, <3>3, <4>1, StillCovered
    <3> QED  BY <3>4, <3>5
  <2> QED  BY <2>5, <2>6, <2>7, CoveredIs DEF IInv
<1>3. ASSUME pit' = [pit EXCEPT ![n] = NoEntry], asks' = asks \ (entry.incoming \X {n}),
             Pending(so.pending)
      PROVE  IInv'
  <2>1. TypeInv'
    BY <1>1, <1>3, NoEntryIsEntry DEF TypeInv, Pending
  <2>2. ASSUME NEW ask \in asks'  PROVE ask[2] # n /\ ask \in asks
    <3>1. ask \in Consumers \X Names /\ ask \in asks /\ ask \notin entry.incoming \X {n}
      BY <1>1, <1>3, <2>2 DEF TypeInv
    <3>2. ask[1] \in pit[ask[2]].incoming
      BY <1>1, <3>1 DEF NoneForgotten
    <3> QED  BY <3>1, <3>2
  <2>3. NoneForgotten'
    BY <1>1, <1>3, <2>1, <2>2 DEF TypeInv, NoneForgotten
  <2>4. ASSUME kind = "PitThreshold", NEW v \in Uplinks  PROVE Covered(v)'
    <3>1. SentTo(v)' \subseteq SentTo(v)
      BY <1>1, <1>3, NoEntryIsEntry DEF SentTo, TypeInv
    <3>2. pending' = so.pending
      BY <1>3, <2>4 DEF Pending
    <3> QED  BY <1>1, <2>1, <2>4, <3>1, <3>2, StillCovered, CoveredIs
  <2> QED  BY <2>1, <2>3, <2>4, CoveredIs DEF IInv
<1> QED  BY <1>2, <1>3 DEF SentOrGone
-----------------------------------------------------------------------------
LEMMA InitInv == Init => IInv
<1> SUFFICES ASSUME Init PROVE IInv
  OBVIOUS
<1>1. TypeInv
  BY NoEntryIsEntry DEF Init, TypeInv, Nobody
<1>2. NoneForgotten
  BY DEF Init, NoneForgotten
<1>3. ASSUME NEW u \in Uplinks  PROVE Covered(u)
  <2>1. SentTo(u) = {}
    BY NoEntryIsEntry DEF Init, SentTo
  <2>2. pending[u] = 0 /\ stray[u] = 0
    BY DEF Init, Nobody, Faces
  <2> QED  BY <2>1, <2>2, FS_EmptySet DEF Covered
<1> QED  BY <1>1, <1>2, <1>3, CoveredIs DEF IInv

LEMMA OnInterestInv ==
    ASSUME IInv, NEW f \in Consumers, NEW n \in Names, OnInterest(f, n)
    PROVE  IInv'
<1> DEFINE counted == CountOn(stats, {f}, LevelOf[n])
           entry == [pit[n] EXCEPT !.incoming = @ \cup {f}]
           so == [stats |-> counted, traced |-> {f}, asks |-> asks \cup {<<f, n>>},
                  underWay |-> underWay, seen |-> TRUE,
                  pending |-> IF Exists(n) THEN pending ELSE Increased(pending, f)]
<1>1. TypeInv /\ NoneForgotten /\ UplinkNotUndercounted
  BY DEF IInv
<1>2. f \in Faces /\ kind' = kind /\ stray' = stray
  BY DEF Faces, OnInterest
<1>3. /\ entry \in Entries /\ outgoing(entry) = outgoing(pit[n])
      /\ entry.incoming = pit[n].incoming \cup {f}
  BY <1>1 DEF TypeInv, Entries, outgoing
<1>4. so.pending \in [Faces -> Nat] /\ \A u \in Uplinks : so.pending[u] >= pending[u]
  <2>1. so.pending = pending \/ so.pending = Increased(pending, f)
    OBVIOUS
  <2>2. pending \in [Faces -> Nat] /\ \A u \in Uplinks : u \in Faces /\ pending[u] \in Nat
    BY <1>1 DEF TypeInv, Faces
  <2> HIDE DEF so
  <2> QED  BY <1>2, <2>1, <2>2, IncreasedByOne
<1>5. so.asks \subseteq Consumers \X Names /\ so.asks = asks \cup {<<f, n>>}
  BY <1>1 DEF TypeInv
<1>6. \/ /\ asks' = asks \ {<<f, n>>}
         /\ UNCHANGED <<pending, pit, underWay>>
      \/ Propagate(n, entry, f, so, Exists(n))
      \/ /\ pit' = [pit EXCEPT ![n] = entry]
         /\ asks' = so.asks
         /\ UNCHANGED <<pending, underWay>>
  BY Zenon DEF OnInterest
<1> HIDE DEF entry, so, counted
<1>7. CASE asks' = asks \ {<<f, n>>} /\ UNCHANGED <<pending, pit, underWay>>
  BY <1>1, <1>2, <1>7 DEF IInv, TypeInv, NoneForgotten, UplinkNotUndercounted
<1>8. CASE Propagate(n, entry, f, so, Exists(n))
  <2>1. \A ask \in so.asks : ask \in asks \/ (ask[1] \in entry.incoming /\ ask[2] = n)
    BY <1>3, <1>5
  <2>2. pit[n].incoming \subseteq entry.incoming
    BY <1>3
  <2> QED  BY <1>2, <1>3, <1>4, <1>5, <1>8, <2>1, <2>2, PropagateEnds, PropagateInv
<1>9. CASE pit' = [pit EXCEPT ![n] = entry] /\ asks' = so.asks /\ UNCHANGED <<pending, underWay>>
  <2>1. TypeInv'
    BY <1>1, <1>2, <1>3, <1>5, <1>9 DEF TypeInv
  <2>2. NoneForgotten'
    BY <1>1, <1>3, <1>5, <1>9 DEF TypeInv, NoneForgotten
  <2>3. \A m \in Names : outgoing(pit'[m]) = outgoing(pit[m])
    BY <1>1, <1>3, <1>9 DEF TypeInv
  <2>4. UplinkNotUndercounted'
    BY <1>1, <1>2, <1>9, <2>3 DEF UplinkNotUndercounted
  <2> QED  BY <2>1, <2>2, <2>4 DEF IInv
<1> QED  BY <1>6, <1>7, <1>8, <1>9

\* An entry that goes takes those who wait with it, and one of the count of the
\* uplinks it was sent to; another uplink that loses one has had a stray piece.
LEMMA EntryGone ==
    ASSUME IInv, NEW n \in Names, NEW S, kind' = kind,
           pit' = [pit EXCEPT ![n] = NoEntry],
           asks' = asks \ (pit[n].incoming \X {n}),
           Pending(IF Exists(n) THEN Decreased(pending, S) ELSE pending),
           stray' \in [Uplinks -> Nat],
           kind = "PitThreshold" => \A u \in Uplinks :
               \/ stray'[u] = stray[u] /\ (u \in S /\ Exists(n) => u \in outgoing(pit[n]))
               \/ stray'[u] = stray[u] + 1
    PROVE  IInv'
<1>1. TypeInv /\ NoneForgotten /\ UplinkNotUndercounted
  BY DEF IInv
<1>2. TypeInv'
  <2>1. pending' \in [Faces -> Nat]
    BY <1>1, DecreasedByOne DEF Pending, TypeInv
  <2> QED  BY <1>1, <2>1, NoEntryIsEntry DEF TypeInv
<1>3. NoneForgotten'
  <2> SUFFICES ASSUME NEW ask \in asks'  PROVE ask[1] \in pit'[ask[2]].incoming
    BY DEF NoneForgotten
  <2>1. ask \in Consumers \X Names /\ ask \in asks /\ ask \notin pit[n].incoming \X {n}
    BY <1>1 DEF TypeInv
  <2>2. ask[1] \in pit[ask[2]].incoming
    BY <1>1, <2>1 DEF NoneForgotten
  <2>3. ask[2] # n
    BY <2>1, <2>2
  <2> QED  BY <1>1, <2>1, <2>2, <2>3 DEF TypeInv
<1>4. ASSUME kind = "PitThreshold", NEW u \in Uplinks  PROVE Covered(u)'
  <2>1. SentTo(u)' \subseteq SentTo(u) \ {n}
    BY <1>1, NoEntryIsEntry DEF SentTo, TypeInv
  <2>2. Covered(u) /\ u \in Faces
    BY <1>1, <1>4, CoveredIs DEF Faces
  <2>3. /\ pending[u] \in Nat /\ pending'[u] \in Nat /\ stray[u] \in Nat /\ stray'[u] \in Nat
        /\ Covered(u)' <=> pending'[u] + stray'[u] >= Cardinality(SentTo(u)')
    BY <1>1, <1>2, <2>2 DEF TypeInv, Covered
  <2>4. pending' = IF Exists(n) THEN Decreased(pending, S) ELSE pending
    BY <1>4 DEF Pending
  <2>5. pending'[u] + 1 >= pending[u] /\ (u \notin S \/ ~Exists(n) => pending'[u] = pending[u])
    BY <1>1, <2>2, <2>3, <2>4, DecreasedByOne DEF TypeInv
  <2>6. Cardinality(SentTo(u)') <= Cardinality(SentTo(u))
    BY <2>1, NoMore
  <2>7. u \in outgoing(pit[n]) => Cardinality(SentTo(u)') + 1 <= Cardinality(SentTo(u))
    BY <2>1, OneLess DEF SentTo
  <2>8. Cardinality(SentTo(u)) \in Nat /\ Cardinality(SentTo(u)') \in Nat
    BY SentToFinite
  <2>9. pending[u] + stray[u] >= Cardinality(SentTo(u))
    BY <2>2 DEF Covered
  <2> QED  BY <1>4, <2>3, <2>5, <2>6, <2>7, <2>8, <2>9
<1> QED  BY <1>2, <1>3, <1>4, CoveredIs DEF IInv

\* A neighbour is no uplink.
LEMMA IncomingAreNot ==
    ASSUME TypeInv, NEW n \in Names
    PROVE  pit[n].incoming \cap Uplinks = {}
BY UplinksAssumption DEF TypeInv, Entries

LEMMA OnDataInv ==
    ASSUME IInv, NEW u \in Uplinks, NEW n \in Names, NEW seen, OnData(u, n, seen)
    PROVE  IInv'
<1>1. /\ kind' = kind /\ pit' = [pit EXCEPT ![n] = NoEntry]
      /\ asks' = asks \ (pit[n].incoming \X {n})
      /\ Pending(IF Exists(n) THEN Decreased(pending, {u} \cup pit[n].incoming) ELSE pending)
      /\ stray' = IF kind = "PitThreshold" /\ Exists(n) /\ u \notin outgoing(pit[n])
                  THEN [stray EXCEPT ![u] = @ + 1] ELSE stray
  BY DEF OnData
<1>2. stray \in [Uplinks -> Nat] /\ pit[n].incoming \cap Uplinks = {}
  BY IncomingAreNot DEF IInv, TypeInv
<1>3. stray' \in [Uplinks -> Nat]
  BY <1>1, <1>2
<1> DEFINE S == {u} \cup pit[n].incoming
<1>4. kind = "PitThreshold" => \A v \in Uplinks :
        \/ stray'[v] = stray[v] /\ (v \in S /\ Exists(n) => v \in outgoing(pit[n]))
        \/ stray'[v] = stray[v] + 1
  BY <1>1, <1>2
<1>5. Pending(IF Exists(n) THEN Decreased(pending, S) ELSE pending)
  BY <1>1
<1> HIDE DEF S
<1> QED  BY <1>1, <1>3, <1>4, <1>5, EntryGone

LEMMA TimeoutInv ==
    ASSUME IInv, NEW n \in Names, Timeout(n)
    PROVE  IInv'
<1> DEFINE S == pit[n].incoming \cup outgoing(pit[n])
<1>1. /\ kind' = kind /\ pit' = [pit EXCEPT ![n] = NoEntry]
      /\ asks' = asks \ (pit[n].incoming \X {n})
      /\ Pending(IF Exists(n) THEN Decreased(pending, S) ELSE pending)
      /\ stray' = stray
  BY DEF Timeout
<1>2. stray \in [Uplinks -> Nat] /\ pit[n].incoming \cap Uplinks = {}
  BY IncomingAreNot DEF IInv, TypeInv
<1>3. \A u \in Uplinks :
        \/ stray'[u] = stray[u] /\ (u \in S /\ Exists(n) => u \in outgoing(pit[n]))
        \/ stray'[u] = stray[u] + 1
  BY <1>1, <1>2
<1> QED  BY <1>1, <1>2, <1>3, EntryGone

LEMMA OnNackInv ==
    ASSUME IInv, NEW u \in Uplinks, NEW n \in Names, NEW seen, OnNack(u, n, seen)
    PROVE  IInv'
<1> DEFINE counted == IF seen THEN stats ELSE CountOn(stats, {u}, LevelOf[n])
           entry == [pit[n] EXCEPT !.inVain = @ \cup ({u} \cap outgoing(pit[n]))]
           so == [stats |-> counted, traced |-> {u}, asks |-> asks,
                  underWay |-> underWay \ {<<u, n, seen>>}, seen |-> seen, pending |-> pending]
<1>1. TypeInv /\ NoneForgotten /\ UplinkNotUndercounted
  BY DEF IInv
<1>2. kind' = kind /\ stray' = stray
  BY DEF OnNack
<1>3. /\ entry \in Entries /\ outgoing(entry) = outgoing(pit[n])
      /\ entry.incoming = pit[n].incoming
  BY <1>1 DEF TypeInv, Entries, outgoing
<1>4. so.pending = pending /\ so.asks = asks
  OBVIOUS
<1>5. \/ UNCHANGED <<pending, pit, asks>>
      \/ pit' = [pit EXCEPT ![n] = entry] /\ UNCHANGED <<pending, asks>>
      \/ Propagate(n, entry, u, so, FALSE)
  BY Zenon DEF OnNack
<1> HIDE DEF entry, so, counted
<1>6. CASE UNCHANGED <<pending, pit, asks>>
  BY <1>1, <1>2, <1>6 DEF IInv, TypeInv, NoneForgotten, UplinkNotUndercounted
<1>7. CASE pit' = [pit EXCEPT ![n] = entry] /\ UNCHANGED <<pending, asks>>
  <2>1. TypeInv'
    BY <1>1, <1>2, <1>3, <1>7 DEF TypeInv
  <2>2. \A m \in Names : /\ outgoing(pit'[m]) = outgoing(pit[m])
                         /\ pit'[m].incoming = pit[m].incoming
    BY <1>1, <1>3, <1>7 DEF TypeInv
  <2>3. NoneForgotten'
    <3> SUFFICES ASSUME NEW ask \in asks'  PROVE ask[1] \in pit'[ask[2]].incoming
      BY DEF NoneForgotten
    <3>1. ask \in asks /\ ask[2] \in Names
      BY <1>1, <1>7 DEF TypeInv
    <3> QED  BY <1>1, <2>2, <3>1 DEF NoneForgotten
  <2>4. UplinkNotUndercounted'
    BY <1>1, <1>2, <1>7, <2>2 DEF UplinkNotUndercounted
  <2> QED  BY <2>1, <2>3, <2>4 DEF IInv
<1>8. CASE Propagate(n, entry, u, so, FALSE)
  <2>1. /\ so.asks \subseteq Consumers \X Names /\ so.pending \in [Faces -> Nat]
        /\ \A v \in Uplinks : so.pending[v] >= pending[v]
    BY <1>1, <1>4 DEF TypeInv, Faces
  <2>2. \A ask \in so.asks : ask \in asks \/ (ask[1] \in entry.incoming /\ ask[2] = n)
    BY <1>4
  <2>3. pit[n].incoming \subseteq entry.incoming
    BY <1>3
  <2> QED  BY <1>2, <1>3, <1>8, <2>1, <2>2, <2>3, PropagateEnds, PropagateInv
<1> QED  BY <1>5, <1>6, <1>7, <1>8

\* Time does not touch the entries.
LEMMA QuietInv ==
    ASSUME IInv, Tick \/ Reset \/ UNCHANGED vars
    PROVE  IInv'
<1>1. UNCHANGED <<kind, pit, asks, pending, stray>>
  BY DEF Tick, Reset, vars, nodeVars, networkVars
<1> QED  BY <1>1 DEF IInv, TypeInv, NoneForgotten, UplinkNotUndercounted
-----------------------------------------------------------------------------
(* The dropping policy.                                                     *)

Metrics == {m \in Nat \X Nat : m[1] <= m[2] /\ m[2] # 0}

Statistics ==
    [packets_per_time : Nat, levelCounting : [Levels -> Nat], weights : [Levels -> Nat],
     metric : Metrics]

\* What the counting strategies keep is a statistic, whatever was counted.
StatsInv == stats \in [Faces -> Statistics] /\ elapsed \in Nat

\* What DropsWhatIsTooMuch says of a face.
Exact(metric, weights) ==
    LET drop == [l \in Levels |-> DroppingProbability(metric, weights, l)]
        whole == {l \in Levels : drop[l] = <<1, 1>>}
        partly == {l \in Levels \ whole : drop[l][1] # 0}
    IN /\ \A l \in Levels : 0 <= drop[l][1] /\ drop[l][1] <= drop[l][2]
       /\ Cardinality(partly) <= 1
       /\ \A l \in whole \cup partly : l + 1 .. LevelCount - 1 \subseteq whole
       /\ MapThenSumSet(LAMBDA l : metric[2] * weights[l], whole)
            + MapThenSumSet(LAMBDA l : drop[l][1], partly)
            = metric[1] * Total(weights)

\* The weight of a level and of those above it.
WeightFrom(w, l) == SumOf(w, l .. LevelCount - 1)

LEMMA LevelsAre ==
    /\ LevelCount \in Nat \ {0} /\ Levels = 0 .. LevelCount - 1 /\ 0 \in Levels
    /\ LevelCount - 1 \in Levels /\ IsFiniteSet(Levels) /\ Levels \subseteq Nat
<1>1. LevelCount \in Nat \ {0}
  BY DroppingAssumption
<1> QED  BY <1>1, FS_Interval DEF Levels

LEMMA ProductNatural == \A a, b \in Nat : a * b \in Nat
OBVIOUS

LEMMA TotalIsSum == ASSUME NEW f  PROVE Total(f) = SumOf(f, DOMAIN f)
BY DEF Total, SumOf

LEMMA TotalType ==
    ASSUME NEW w \in [Levels -> Nat]
    PROVE  Total(w) \in Nat
<1>1. \A l \in Levels : w[l] \in Nat
  OBVIOUS
<1>2. SumOf(w, Levels) \in Nat
  BY <1>1, LevelsAre, SumOfNaturals
<1> QED  BY <1>2, TotalIsSum

LEMMA WeightOfUpper ==
    ASSUME NEW w \in [Levels -> Nat], NEW l \in Nat
    PROVE  /\ Total([k \in l .. LevelCount - 1 |-> w[k]]) = WeightFrom(w, l)
           /\ WeightFrom(w, l) \in Nat
<1> DEFINE S == l .. LevelCount - 1
           f == [k \in S |-> w[k]]
<1>1. S \subseteq Levels /\ IsFiniteSet(S)
  <2>1. l \in Int /\ LevelCount - 1 \in Int
    BY LevelsAre
  <2>2. IsFiniteSet(S)
    BY <2>1, FS_Interval
  <2>3. S \subseteq Levels
    BY LevelsAre
  <2> QED  BY <2>2, <2>3
<1>2. Integral(f, S) /\ (\A x \in S : f[x] = w[x]) /\ DOMAIN f = S /\ (\A x \in S : w[x] \in Nat)
  BY <1>1 DEF Integral
<1> HIDE DEF f, S
<1>3. Total(f) = SumOf(w, S)
  BY <1>1, <1>2, TotalIsSum, SumEqual
<1>4. SumOf(w, S) \in Nat
  BY <1>1, <1>2, SumOfNaturals
<1> QED  BY <1>3, <1>4 DEF f, S, WeightFrom

LEMMA WeightsAddUp ==
    ASSUME NEW w \in [Levels -> Nat], NEW l \in Levels
    PROVE  /\ WeightFrom(w, l) = w[l] + WeightFrom(w, l + 1)
           /\ l + 1 \notin Levels => WeightFrom(w, l + 1) = 0
           /\ WeightFrom(w, l + 1) <= Total(w)
           /\ WeightFrom(w, 0) = Total(w)
<1> DEFINE upper == l + 1 .. LevelCount - 1
           lower == 0 .. l
<1>1. /\ IsFiniteSet(upper) /\ IsFiniteSet(lower) /\ lower \cap upper = {}
      /\ lower \cup upper = Levels /\ {l} \cap upper = {}
      /\ {l} \cup upper = l .. LevelCount - 1 /\ IsFiniteSet({l})
      /\ l + 1 \notin Levels => upper = {}
  <2>1. l \in Int /\ l + 1 \in Int /\ LevelCount - 1 \in Int
    BY LevelsAre
  <2>2. IsFiniteSet(upper)
    BY <2>1, FS_Interval
  <2>5. IsFiniteSet(lower)
    BY <2>1, FS_Interval
  <2>6. IsFiniteSet({l})
    BY FS_Singleton
  <2>3. /\ lower \cap upper = {} /\ {l} \cap upper = {}
        /\ lower \cup upper = Levels /\ {l} \cup upper = l .. LevelCount - 1
    BY <2>1, LevelsAre
  <2>4. l + 1 \notin Levels => upper = {}
    BY <2>1, LevelsAre
  <2> QED  BY <2>2, <2>3, <2>4, <2>5, <2>6
<1>2. Integral(w, Levels) /\ Integral(w, {l} \cup upper) /\ w[l] \in Int
  BY LevelsAre, <1>1 DEF Integral
<1>3. \A k \in lower : w[k] \in Nat
  BY <1>1
<1>4. SumOf(w, Levels) = SumOf(w, lower) + SumOf(w, upper)
  BY <1>1, <1>2, SumApart
<1>5. SumOf(w, {l} \cup upper) = w[l] + SumOf(w, upper)
  <2> HIDE DEF upper
  <2>1. SumOf(w, {l} \cup upper) = SumOf(w, {l}) + SumOf(w, upper)
    BY <1>1, <1>2, SumApart
  <2> QED  BY <1>2, <2>1, SumOfOne
<1>6. SumOf(w, lower) \in Nat
  BY <1>1, <1>3, SumOfNaturals
<1>7. SumOf(w, upper) = WeightFrom(w, l + 1) /\ SumOf(w, upper) \in Nat
  <2>1. l + 1 \in Nat
    BY LevelsAre
  <2> QED  BY <2>1, WeightOfUpper DEF WeightFrom
<1>8. SumOf(w, {l} \cup upper) = WeightFrom(w, l)
  BY <1>1 DEF WeightFrom
<1>9. SumOf(w, Levels) = Total(w) /\ SumOf(w, Levels) = WeightFrom(w, 0)
  BY TotalIsSum, LevelsAre DEF WeightFrom
<1>10. l + 1 \notin Levels => SumOf(w, upper) = 0
  BY <1>1, SumEmpty
<1> QED  BY <1>4, <1>5, <1>6, <1>7, <1>8, <1>9, <1>10

\* The sums of the property.
LEMMA SumOfProducts ==
    ASSUME NEW w, NEW S \in SUBSET Levels, NEW b
    PROVE  MapThenSumSet(LAMBDA l : b * w[l], S) = SumOf([l \in S |-> b * w[l]], S)
<1> DEFINE f == [l \in S |-> b * w[l]]
           step(g) == [s \in SUBSET S |-> IF s = {} THEN 0
                           ELSE b * w[Member(s)] + g[s \ {Member(s)}]]
<1>1. \A g : StepOf(f, S, g) = step(g)
  BY MemberIsOne DEF StepOf
<1>2. MapThenSumSet(LAMBDA l : b * w[l], S) = (CHOOSE g : g = step(g))[S]
  BY DEF MapThenSumSet, MapThenFoldSet, Member
<1>3. SumOf(f, S) = (CHOOSE g : g = StepOf(f, S, g))[S]
  BY SumIsFold
<1>4. (CHOOSE g : g = StepOf(f, S, g)) = (CHOOSE g : g = step(g))
  BY <1>1
<1> QED  BY <1>2, <1>3, <1>4

LEMMA SumOfFirsts ==
    ASSUME NEW drop, NEW S \in SUBSET Levels
    PROVE  MapThenSumSet(LAMBDA l : drop[l][1], S) = SumOf([l \in S |-> drop[l][1]], S)
<1> DEFINE f == [l \in S |-> drop[l][1]]
           step(g) == [s \in SUBSET S |-> IF s = {} THEN 0
                           ELSE drop[Member(s)][1] + g[s \ {Member(s)}]]
<1>1. \A g : StepOf(f, S, g) = step(g)
  BY MemberIsOne DEF StepOf
<1>2. MapThenSumSet(LAMBDA l : drop[l][1], S) = (CHOOSE g : g = step(g))[S]
  BY DEF MapThenSumSet, MapThenFoldSet, Member
<1>3. SumOf(f, S) = (CHOOSE g : g = StepOf(f, S, g))[S]
  BY SumIsFold
<1>4. (CHOOSE g : g = StepOf(f, S, g)) = (CHOOSE g : g = step(g))
  BY <1>1
<1> QED  BY <1>2, <1>3, <1>4

\* What the search for the last level dropped comes to.
LEMMA LastDroppedIs ==
    ASSUME NEW m \in Metrics, NEW w \in [Levels -> Nat]
    PROVE  LET last == LastDropped(m, w)
               most == IF Total(w) = 0 THEN 1 ELSE Total(w)
           IN /\ last \in Levels
              /\ last # 0 => m[2] * WeightFrom(w, last) >= m[1] * most
              /\ \A l \in Levels : l > last => m[2] * WeightFrom(w, l) < m[1] * most
<1> DEFINE most == IF Total(w) = 0 THEN 1 ELSE Total(w)
           Enough == {l \in Levels : m[2] * WeightFrom(w, l) >= m[1] * most}
           S == {0} \cup Enough
<1>1. Total(w) \in Nat /\ m[1] \in Nat /\ m[2] \in Nat
  BY TotalType DEF Metrics
<1>2. Max({Total(w), 1}) = most /\ most \in Nat
  <2>1. IsFiniteSet({Total(w), 1}) /\ {Total(w), 1} \in SUBSET Int /\ {Total(w), 1} # {}
    <3>1. IsFiniteSet({Total(w)}) /\ {Total(w), 1} = {Total(w)} \cup {1}
      BY FS_Singleton
    <3>2. IsFiniteSet({Total(w), 1})
      BY <3>1, FS_AddElement
    <3> QED  BY <1>1, <3>2
  <2>2. Max({Total(w), 1}) \in {Total(w), 1} /\ \A e \in {Total(w), 1} : e <= Max({Total(w), 1})
    BY <2>1, FiniteMax
  <2> QED  BY <1>1, <2>2
<1>3. \A l \in Levels : /\ Total([k \in l .. LevelCount - 1 |-> w[k]]) = WeightFrom(w, l)
                        /\ WeightFrom(w, l) \in Nat
  BY WeightOfUpper, LevelsAre
<1>4. LastDropped(m, w) = Max(S)
  BY <1>2, <1>3 DEF LastDropped
<1>5. S \in SUBSET Levels
  BY LevelsAre
<1>6. S \in SUBSET Int /\ IsFiniteSet(S) /\ S # {}
  BY <1>5, LevelsAre, FS_Subset
<1> HIDE DEF S, most
<1>7. Max(S) \in S /\ \A e \in S : e <= Max(S)
  BY <1>6, FiniteMax
<1>8. \A l \in Levels : l \notin S => m[2] * WeightFrom(w, l) < m[1] * most
  <2> SUFFICES ASSUME NEW l \in Levels, l \notin S
               PROVE  m[2] * WeightFrom(w, l) < m[1] * most
    OBVIOUS
  <2>1. ~(m[2] * WeightFrom(w, l) >= m[1] * most)
    BY DEF S
  <2>2. m[2] * WeightFrom(w, l) \in Nat /\ m[1] * most \in Nat
    BY <1>1, <1>2, <1>3, ProductNatural
  <2> QED  BY <2>1, <2>2
<1>9. ASSUME NEW l \in Levels, l > Max(S)  PROVE l \notin S
  <2>1. l \in Int /\ Max(S) \in Int
    <3>1. \A k \in Levels : k \in Int
      BY LevelsAre
    <3>2. Max(S) \in Levels
      BY <1>5, <1>7
    <3> QED  BY <3>1, <3>2
  <2>2. ~(l <= Max(S))
    BY <1>9, <2>1
  <2> QED  BY <1>7, <2>2
<1>10. Max(S) # 0 => m[2] * WeightFrom(w, Max(S)) >= m[1] * most
  BY <1>7 DEF S
<1> QED  BY <1>4, <1>5, <1>7, <1>8, <1>9, <1>10 DEF most

\* What is left to be dropped of the last level is there, and no more than that.
LEMMA RestFits ==
    ASSUME NEW m \in Metrics, NEW w \in [Levels -> Nat]
    PROVE  LET last == LastDropped(m, w)
               rest == m[1] * Total(w) - m[2] * WeightFrom(w, last + 1)
           IN 0 <= rest /\ rest <= m[2] * w[last]
<1> DEFINE last == LastDropped(m, w)
           a == m[1]
           b == m[2]
           T == Total(w)
           most == IF T = 0 THEN 1 ELSE T
           A == WeightFrom(w, last + 1)
           L == WeightFrom(w, last)
           x == w[last]
<1>1. a \in Nat /\ b \in Nat /\ a <= b /\ T \in Nat
  BY TotalType DEF Metrics
<1>2. /\ last \in Levels /\ (last # 0 => b * L >= a * most)
      /\ \A l \in Levels : l > last => b * WeightFrom(w, l) < a * most
  BY LastDroppedIs
<1>3. last \in Nat /\ x \in Nat
  BY <1>2, LevelsAre
<1>4. A \in Nat /\ L \in Nat
  <2>1. last + 1 \in Nat
    BY <1>3
  <2> QED  BY <1>3, <2>1, WeightOfUpper
<1>5. L = x + A /\ A <= T /\ (last + 1 \notin Levels => A = 0) /\ (last = 0 => L = T)
  BY <1>2, WeightsAddUp
<1>6. last + 1 \in Levels => b * A < a * most
  BY <1>2, <1>3
<1> HIDE DEF last, a, b, T, A, L, x
<1>7. b * L = b * x + b * A
  BY <1>1, <1>3, <1>4, <1>5
<1>8. b * L >= a * T
  <2>1. CASE last = 0
    <3>1. b * T >= a * T
      BY <1>1
    <3> QED  BY <1>5, <2>1, <3>1
  <2>2. CASE last # 0 /\ T = 0
    <3>1. a * T = 0 /\ b * L \in Nat
      BY <1>1, <1>4, <2>2, ProductNatural
    <3> QED  BY <3>1
  <2>3. CASE last # 0 /\ T # 0
    BY <1>2, <2>3
  <2> QED  BY <2>1, <2>2, <2>3
<1>9. b * A <= a * T
  <2>1. CASE A = 0
    <3>1. b * A = 0 /\ a * T \in Nat
      BY <1>1, <2>1, ProductNatural
    <3> QED  BY <3>1
  <2>2. CASE A # 0
    <3>1. last + 1 \in Levels /\ T # 0
      BY <1>1, <1>4, <1>5, <2>2
    <3>2. b * A < a * T
      BY <1>6, <3>1
    <3>3. b * A \in Nat /\ a * T \in Nat
      BY <1>1, <1>4, ProductNatural
    <3> QED  BY <3>2, <3>3
  <2> QED  BY <2>1, <2>2
<1>10. b * L \in Nat /\ b * x \in Nat /\ b * A \in Nat /\ a * T \in Nat
  BY <1>1, <1>3, <1>4, ProductNatural
<1>11. 0 <= a * T - b * A /\ a * T - b * A <= b * x
  BY <1>7, <1>8, <1>9, <1>10
<1> QED  BY <1>11 DEF last, a, b, T, A, x

\* The policy drops exactly the part that is too much.
LEMMA PolicyExact ==
    ASSUME NEW m \in Metrics, NEW w \in [Levels -> Nat]
    PROVE  Exact(m, w)
<1> DEFINE last == LastDropped(m, w)
           rest == m[1] * Total(w) - m[2] * WeightFrom(w, last + 1)
           part == m[2] * w[last]
           drop == [l \in Levels |-> DroppingProbability(m, w, l)]
           whole == {l \in Levels : drop[l] = <<1, 1>>}
           partly == {l \in Levels \ whole : drop[l][1] # 0}
           Above == last + 1 .. LevelCount - 1
<1>1. m[1] \in Nat /\ m[2] \in Nat /\ m[2] # 0 /\ Total(w) \in Nat
  BY TotalType DEF Metrics
<1>2. last \in Levels
  BY LastDroppedIs
<1>3. last \in Nat /\ w[last] \in Nat /\ LevelCount \in Nat
  BY <1>2, LevelsAre
<1>4. 0 <= rest /\ rest <= part
  BY RestFits
<1>5. WeightFrom(w, last + 1) \in Nat /\ Total([k \in Above |-> w[k]]) = WeightFrom(w, last + 1)
  BY <1>3, WeightOfUpper
<1>6. rest \in Int /\ part \in Int /\ (w[last] = 0 <=> part = 0)
  <2>1. m[1] * Total(w) \in Nat /\ m[2] * WeightFrom(w, last + 1) \in Nat /\ part \in Nat
    BY <1>1, <1>3, <1>5, ProductNatural
  <2> QED  BY <1>1, <1>3, <2>1
<1>7. ASSUME NEW l \in Levels
      PROVE  /\ l > last => drop[l] = <<1, 1>>
             /\ l < last => drop[l] = <<0, 1>>
             /\ l = last /\ w[last] = 0 => drop[l] = <<1, 1>>
             /\ l = last /\ w[last] # 0 => drop[l] = <<rest, part>>
  <2>1. l \in Nat
    BY LevelsAre
  <2> QED  BY <1>3, <1>5, <2>1 DEF DroppingProbability
<1>8. \A l \in Levels : l \in Nat
  BY LevelsAre
<1>9. Above \subseteq Levels /\ \A l \in Levels : l \in Above <=> l > last
  BY <1>3, LevelsAre
<1> HIDE DEF last, rest, part, drop, Above
<1>10. \A l \in Levels : 0 <= drop[l][1] /\ drop[l][1] <= drop[l][2]
  <2> SUFFICES ASSUME NEW l \in Levels  PROVE 0 <= drop[l][1] /\ drop[l][1] <= drop[l][2]
    OBVIOUS
  <2>1. l > last \/ l < last \/ (l = last /\ w[last] = 0) \/ (l = last /\ w[last] # 0)
    BY <1>3, <1>8
  <2> QED  BY <1>4, <1>6, <1>7, <2>1
<1>11. \A l \in Levels : l < last => l \notin whole /\ l \notin partly
  <2> SUFFICES ASSUME NEW l \in Levels, l < last  PROVE l \notin whole /\ l \notin partly
    OBVIOUS
  <2>1. drop[l] = <<0, 1>>
    BY <1>7
  <2> QED  BY <2>1
<1>12. Above \subseteq whole
  BY <1>7, <1>9
<1>13. partly \subseteq {last} /\ whole \subseteq Above \cup {last}
  BY <1>3, <1>8, <1>9, <1>11, <1>12
<1>14. Cardinality(partly) <= 1
  <2>1. IsFiniteSet({last}) /\ Cardinality({last}) = 1
    BY FS_Singleton
  <2>2. Cardinality(partly) <= Cardinality({last})
    BY <1>13, <2>1, FS_Subset
  <2> QED  BY <2>1, <2>2
<1>15. \A l \in whole \cup partly : l + 1 .. LevelCount - 1 \subseteq whole
  <2> SUFFICES ASSUME NEW l \in whole \cup partly, NEW k \in l + 1 .. LevelCount - 1
               PROVE  k \in whole
    OBVIOUS
  <2>1. l \in Nat /\ last <= l
    BY <1>3, <1>8, <1>9, <1>13
  <2>2. k \in Above
    BY <1>3, <2>1 DEF Above
  <2> QED  BY <1>12, <2>2
<1>16. MapThenSumSet(LAMBDA l : m[2] * w[l], whole) = m[2] * SumOf(w, whole)
  <2>1. whole \in SUBSET Levels /\ IsFiniteSet(whole) /\ Integral(w, whole)
    BY LevelsAre, FS_Subset DEF Integral
  <2> HIDE DEF whole
  <2>2. MapThenSumSet(LAMBDA l : m[2] * w[l], whole) = SumOf([l \in whole |-> m[2] * w[l]], whole)
    BY <2>1, SumOfProducts
  <2>3. m[2] \in Int
    BY <1>1
  <2>4. SumOf([l \in whole |-> m[2] * w[l]], whole) = m[2] * SumOf(w, whole)
    BY <2>1, <2>3, SumScale
  <2> QED  BY <2>2, <2>4
<1>17. /\ partly = {} => MapThenSumSet(LAMBDA l : drop[l][1], partly) = 0
       /\ partly = {last} => MapThenSumSet(LAMBDA l : drop[l][1], partly) = drop[last][1]
  <2> DEFINE f == [l \in partly |-> drop[l][1]]
  <2>1. MapThenSumSet(LAMBDA l : drop[l][1], partly) = SumOf(f, partly)
    <3>1. partly \in SUBSET Levels
      OBVIOUS
    <3> HIDE DEF partly
    <3> QED  BY <3>1, SumOfFirsts
  <2>2. drop[last][1] \in Int
    BY <1>2, <1>3, <1>6, <1>7
  <2>3. partly = {last} => f[last] = drop[last][1]
    OBVIOUS
  <2> HIDE DEF f, partly
  <2>4. CASE partly = {}
    BY <2>1, <2>4, SumEmpty
  <2>5. CASE partly = {last}
    BY <2>1, <2>2, <2>3, <2>5, SumOfOne
  <2> QED  BY <2>4, <2>5
<1>18. m[1] * Total(w) = rest + m[2] * WeightFrom(w, last + 1)
  <2>1. m[1] * Total(w) \in Nat /\ m[2] * WeightFrom(w, last + 1) \in Nat
    BY <1>1, <1>5, ProductNatural
  <2> QED  BY <2>1 DEF rest
<1>19. m[2] * WeightFrom(w, last) = part + m[2] * WeightFrom(w, last + 1)
  <2>1. WeightFrom(w, last) = w[last] + WeightFrom(w, last + 1)
    BY <1>2, WeightsAddUp
  <2> QED  BY <1>1, <1>3, <1>5, <2>1 DEF part
<1>20. m[2] * WeightFrom(w, last + 1) \in Int
  BY <1>1, <1>5, ProductNatural
<1>21. CASE last \in whole
  <2>1. partly = {}
    BY <1>13, <1>21
  <2>2. whole = last .. LevelCount - 1
    <3>1. last \in 0 .. LevelCount - 1
      BY <1>2 DEF Levels
    <3>2. last .. LevelCount - 1 = Above \cup {last}
      BY <1>3, <3>1 DEF Above
    <3>3. Above \cup {last} \subseteq whole
      BY <1>12, <1>21
    <3> QED  BY <1>13, <3>2, <3>3
  <2>3. SumOf(w, whole) = WeightFrom(w, last)
    BY <2>2 DEF WeightFrom
  <2>4. rest = part
    <3>1. w[last] = 0 \/ (rest = 1 /\ part = 1)
      BY <1>2, <1>7, <1>21
    <3> QED  BY <1>4, <1>6, <3>1
  <2>5. m[2] * SumOf(w, whole) + 0 = m[1] * Total(w)
    BY <1>6, <1>18, <1>19, <1>20, <2>3, <2>4
  <2> HIDE DEF whole, partly
  <2>6. MapThenSumSet(LAMBDA l : m[2] * w[l], whole) + MapThenSumSet(LAMBDA l : drop[l][1], partly)
          = m[1] * Total(w)
    BY <1>16, <1>17, <2>1, <2>5
  <2> QED  BY <1>10, <1>14, <1>15, <2>6 DEF Exact, drop, whole, partly
<1>22. CASE last \notin whole
  <2>1. whole = Above
    BY <1>12, <1>13, <1>22
  <2>2. SumOf(w, whole) = WeightFrom(w, last + 1)
    BY <2>1 DEF WeightFrom, Above
  <2>3. drop[last] = <<rest, part>>
    BY <1>2, <1>7, <1>22
  <2>4. partly = {last} \/ (partly = {} /\ rest = 0)
    BY <1>2, <1>13, <1>22, <2>3
  <2> HIDE DEF whole, partly
  <2>5. MapThenSumSet(LAMBDA l : drop[l][1], partly) = rest
    BY <1>17, <2>3, <2>4
  <2>6. MapThenSumSet(LAMBDA l : m[2] * w[l], whole) + MapThenSumSet(LAMBDA l : drop[l][1], partly)
          = m[1] * Total(w)
    <3>1. m[2] * SumOf(w, whole) + rest = m[1] * Total(w)
      BY <1>6, <1>18, <1>20, <2>2
    <3> QED  BY <1>16, <2>5, <3>1
  <2> QED  BY <1>10, <1>14, <1>15, <2>6 DEF Exact, drop, whole, partly
<1> QED  BY <1>21, <1>22

\* Refreshing keeps weights natural numbers.
LEMMA ReducedType ==
    ASSUME NEW w \in [Levels -> Nat]
    PROVE  Reduced(w) \in [Levels -> Nat]
<1> DEFINE values == {w[l] : l \in Levels}
           most == Max({1} \cup values)
           common == {d \in 1 .. most : \A l \in Levels : w[l] % d = 0}
<1>1. most \in Nat /\ 1 <= most
  <2>1. IsFiniteSet(values)
    BY LevelsAre, FiniteImage
  <2>2. IsFiniteSet(values \cup {1}) /\ values \cup {1} = {1} \cup values
    BY <2>1, FS_AddElement
  <2>3. {1} \cup values \in SUBSET Nat /\ {1} \cup values \in SUBSET Int /\ {1} \cup values # {}
    OBVIOUS
  <2> HIDE DEF values
  <2>4. most \in {1} \cup values /\ \A e \in {1} \cup values : e <= most
    BY <2>2, <2>3, FiniteMax
  <2> QED  BY <2>3, <2>4
<1> HIDE DEF most
<1>2. Max(common) \in 1 .. most
  <2>1. IsFiniteSet(1 .. most)
    BY <1>1, FS_Interval
  <2>2. 1 \in common
    <3>1. \A l \in Levels : w[l] \in Nat /\ w[l] % 1 = 0
      OBVIOUS
    <3> QED  BY <1>1, <3>1
  <2>3. common \in SUBSET Int /\ IsFiniteSet(common) /\ common \subseteq 1 .. most
    <3>1. common \subseteq 1 .. most /\ 1 .. most \subseteq Int
      BY <1>1
    <3> HIDE DEF common
    <3> QED  BY <2>1, <3>1, FS_Subset
  <2> HIDE DEF common
  <2>4. Max(common) \in common
    BY <2>2, <2>3, FiniteMax
  <2> QED  BY <2>3, <2>4
<1>3. Reduced(w) = [l \in Levels |-> w[l] \div Max(common)]
  BY DEF Reduced, most
<1> HIDE DEF common
<1>4. \A l \in Levels : w[l] \div Max(common) \in Nat
  BY <1>1, <1>2
<1> QED  BY <1>3, <1>4

LEMMA RefreshType ==
    ASSUME NEW counting \in [Levels -> Nat], NEW w \in [Levels -> Nat]
    PROVE  RefreshStatistics(counting, w) \in [Levels -> Nat]
<1> DEFINE cnt == Total(counting)
           sum == Total(w)
           mixed == [l \in Levels |-> counting[l] * sum + (SMOOTH_ALPHA - 1) * w[l] * cnt]
<1>1. cnt \in Nat /\ sum \in Nat /\ SMOOTH_ALPHA - 1 \in Nat
  BY TotalType, DroppingAssumption
<1>2. RefreshStatistics(counting, w) \in {w, Reduced(counting), Reduced(mixed)}
  BY DEF RefreshStatistics
<1> HIDE DEF cnt, sum
<1>3. mixed \in [Levels -> Nat]
  <2> SUFFICES ASSUME NEW l \in Levels
               PROVE  counting[l] * sum + (SMOOTH_ALPHA - 1) * w[l] * cnt \in Nat
    OBVIOUS
  <2>1. counting[l] * sum \in Nat /\ (SMOOTH_ALPHA - 1) * w[l] \in Nat
    BY <1>1, ProductNatural
  <2>2. (SMOOTH_ALPHA - 1) * w[l] * cnt \in Nat
    BY <1>1, <2>1, ProductNatural
  <2> QED  BY <2>1, <2>2
<1> HIDE DEF mixed
<1>4. Reduced(counting) \in [Levels -> Nat] /\ Reduced(mixed) \in [Levels -> Nat]
  BY <1>3, ReducedType
<1> QED  BY <1>2, <1>4

LEMMA UpdateType ==
    ASSUME NEW s \in Statistics, NEW m \in Metrics
    PROVE  UpdatePolicy(s, m) \in Statistics
<1>1. RefreshStatistics(s.levelCounting, s.weights) \in [Levels -> Nat]
  BY RefreshType DEF Statistics
<1>2. Empty \in [Levels -> Nat]
  BY DEF Empty
<1> QED  BY <1>1, <1>2 DEF UpdatePolicy, Statistics

LEMMA IncreaseType ==
    ASSUME NEW s \in Statistics, NEW level \in Levels
    PROVE  IncreasePackets(s, level) \in Statistics
<1> DEFINE counting == [s.levelCounting EXCEPT ![level] = @ + 1]
<1>1. counting \in [Levels -> Nat]
  BY DEF Statistics
<1>2. IncreasePackets(s, level)
        = [s EXCEPT !.packets_per_time = @ + 1, !.levelCounting = counting]
  BY DEF IncreasePackets, Statistics
<1> HIDE DEF counting
<1>3. s.packets_per_time + 1 \in Nat
  BY DEF Statistics
<1>4. IncreasePackets(s, level)
        = [packets_per_time |-> s.packets_per_time + 1, levelCounting |-> counting,
           weights |-> s.weights, metric |-> s.metric]
  BY <1>2 DEF Statistics
<1> QED  BY <1>1, <1>3, <1>4 DEF Statistics

LEMMA MetricType ==
    ASSUME NEW packets \in Nat, NEW max \in Nat
    PROVE  MetricOf(packets, max) \in Metrics
BY DEF MetricOf, Metrics

LEMMA MaximaType == StatsInv => max_packets \in Nat /\ due \in Nat
<1> SUFFICES ASSUME StatsInv  PROVE max_packets \in Nat /\ due \in Nat
  OBVIOUS
<1>1. DataRate \in Nat /\ PACKET_BITS \in Nat \ {0} /\ Parts \in Nat \ {0} /\ elapsed \in Nat
  BY LayerStrategyAssumption DEF StatsInv
<1>2. DataRate \div PACKET_BITS \in Nat
  BY <1>1
<1>3. max_packets \in Nat
  BY <1>2 DEF max_packets
<1>4. max_packets * elapsed \in Nat
  BY <1>1, <1>3, ProductNatural
<1>5. due \in Nat
  BY <1>1, <1>4 DEF due
<1> QED  BY <1>3, <1>5

LEMMA CountType ==
    ASSUME StatsInv, NEW s \in [Faces -> Statistics], NEW S, NEW level \in Levels
    PROVE  CountOn(s, S, level) \in [Faces -> Statistics]
<1>1. ASSUME NEW t \in Statistics  PROVE Counted(t, level) \in Statistics
  <2> DEFINE c == IncreasePackets(t, level)
  <2>1. c \in Statistics /\ c.packets_per_time \in Nat
    BY IncreaseType DEF Statistics
  <2> HIDE DEF c
  <2>2. UpdatePolicy(c, MetricOf(c.packets_per_time, due)) \in Statistics
    BY <2>1, MaximaType, MetricType, UpdateType
  <2> QED  BY <2>1, <2>2 DEF Counted, c
<1> QED  BY <1>1 DEF CountOn

LEMMA ResetType == StatsInv => resetLevelCounts \in [Faces -> Statistics]
<1> SUFFICES ASSUME StatsInv  PROVE resetLevelCounts \in [Faces -> Statistics]
  OBVIOUS
<1>1. ASSUME NEW s \in Statistics  PROVE resetLevelCount(s) \in Statistics
  <2> DEFINE u == UpdatePolicy(s, MetricOf(s.packets_per_time, max_packets))
  <2>1. s.packets_per_time \in Nat
    BY DEF Statistics
  <2>2. u \in Statistics
    BY <2>1, MaximaType, MetricType, UpdateType
  <2> HIDE DEF u
  <2>3. [u EXCEPT !.packets_per_time = 0] \in Statistics
    BY <2>2 DEF Statistics
  <2> QED  BY <2>3 DEF resetLevelCount, u
<1> QED  BY <1>1 DEF resetLevelCounts, StatsInv
-----------------------------------------------------------------------------
LEMMA InitStats == Init => StatsInv
<1> SUFFICES ASSUME Init  PROVE StatsInv
  OBVIOUS
<1>1. PICK metric \in {<<0, 1>>, <<1, 2>>} : stats = [f \in Faces |-> NewStatistic(metric)]
  BY DEF Init
<1>2. metric \in Metrics
  BY DEF Metrics
<1>3. NewStatistic(metric) \in Statistics
  BY <1>2 DEF NewStatistic, Statistics, Empty
<1> QED  BY <1>1, <1>3 DEF StatsInv, Init

\* A propagation counts on some uplinks, and once or twice on all of them first.
LEMMA PropagateStats ==
    ASSUME StatsInv, NEW n \in Names, NEW entry, NEW inFace, NEW so, NEW again,
           so.stats \in [Faces -> Statistics],
           Propagate(n, entry, inFace, so, again)
    PROVE  stats' \in [Faces -> Statistics]
<1> DEFINE once == CountOn(so.stats, Uplinks, LevelOf[n])
           twice == CountOn(once, Uplinks, LevelOf[n])
<1>1. LevelOf[n] \in Levels
  BY LayerStrategyAssumption
<1>2. once \in [Faces -> Statistics]
  BY <1>1, CountType
<1> HIDE DEF once
<1>3. twice \in [Faces -> Statistics]
  BY <1>1, <1>2, CountType
<1>4. ASSUME NEW e, NEW before \in [Faces -> Statistics], OneAccepts(n, e, inFace, so, before)
      PROVE  stats' \in [Faces -> Statistics]
  <2>1. \E S : stats' = CountOn(before, S, LevelOf[n])
    BY <1>4, Zenon DEF OneAccepts
  <2> QED  BY <1>1, <2>1, CountType
<1>5. \A e, counted : Exhausted(n, e, inFace, so, counted) => stats' = counted
  BY Zenon DEF Exhausted
<1>6. \/ \E e : OneAccepts(n, e, inFace, so, so.stats) \/ OneAccepts(n, e, inFace, so, once)
      \/ \E e : Exhausted(n, e, inFace, so, once) \/ Exhausted(n, e, inFace, so, twice)
  BY Zenon DEF Propagate, once
<1> HIDE DEF twice
<1> QED  BY <1>2, <1>3, <1>4, <1>5, <1>6

LEMMA StatsStep ==
    ASSUME StatsInv, [Next]_vars
    PROVE  StatsInv'
<1>0. \A n \in Names : LevelOf[n] \in Levels
  BY LayerStrategyAssumption
<1>1. ASSUME NEW f, NEW n \in Names, OnInterest(f, n)  PROVE StatsInv'
  <2> DEFINE counted == CountOn(stats, {f}, LevelOf[n])
             so == [stats |-> counted, traced |-> {f}, asks |-> asks \cup {<<f, n>>},
                    underWay |-> underWay, seen |-> TRUE,
                    pending |-> IF Exists(n) THEN pending ELSE Increased(pending, f)]
  <2>1. elapsed' = elapsed
    BY <1>1 DEF OnInterest
  <2>2. counted \in [Faces -> Statistics]
    BY <1>0, CountType DEF StatsInv
  <2>3. \/ stats' = counted
        \/ \E entry, again : Propagate(n, entry, f, so, again)
    BY <1>1, Zenon DEF OnInterest
  <2>4. so.stats = counted
    OBVIOUS
  <2> HIDE DEF so, counted
  <2> QED  BY <2>1, <2>2, <2>3, <2>4, PropagateStats DEF StatsInv
<1>2. ASSUME NEW u, NEW n \in Names, NEW seen, OnNack(u, n, seen)  PROVE StatsInv'
  <2> DEFINE counted == IF seen THEN stats ELSE CountOn(stats, {u}, LevelOf[n])
             so == [stats |-> counted, traced |-> {u}, asks |-> asks,
                    underWay |-> underWay \ {<<u, n, seen>>}, seen |-> seen,
                    pending |-> pending]
  <2>1. elapsed' = elapsed
    BY <1>2 DEF OnNack
  <2>2. counted \in [Faces -> Statistics]
    BY <1>0, CountType DEF StatsInv
  <2>3. \/ stats' = counted
        \/ \E entry, again : Propagate(n, entry, u, so, again)
    BY <1>2, Zenon DEF OnNack
  <2>4. so.stats = counted
    OBVIOUS
  <2> HIDE DEF so, counted
  <2> QED  BY <2>1, <2>2, <2>3, <2>4, PropagateStats DEF StatsInv
<1>3. ASSUME NEW u, NEW n, NEW seen, OnData(u, n, seen) \/ Timeout(n)  PROVE StatsInv'
  BY <1>3 DEF OnData, Timeout, StatsInv
<1>4. Tick => StatsInv'
  BY DEF Tick, StatsInv, nodeVars
<1>5. Reset => StatsInv'
  BY ResetType DEF Reset, StatsInv
<1>6. UNCHANGED vars => StatsInv'
  BY DEF vars, nodeVars, StatsInv
<1> QED  BY <1>1, <1>2, <1>3, <1>4, <1>5, <1>6, Zenon DEF Next

\* Every face has a statistic: natural weights and a metric that is a part of one.
THEOREM StatisticsKept == Spec => []StatsInv
<1>1. ASSUME StatsInv, [Next]_vars  PROVE StatsInv'
  BY <1>1, StatsStep
<1> QED  BY InitStats, <1>1, PTL DEF Spec

\* With any number of levels, any smoothing and any traffic the policy drops the
\* part above the maximum exactly, the upper layers first.
THEOREM ExcessIsDropped == Spec => []DropsWhatIsTooMuch
<1>1. StatsInv => DropsWhatIsTooMuch
  <2> SUFFICES ASSUME StatsInv, NEW f \in Faces  PROVE Exact(stats[f].metric, stats[f].weights)
    BY DEF DropsWhatIsTooMuch, Exact
  <2>1. stats[f].metric \in Metrics /\ stats[f].weights \in [Levels -> Nat]
    BY DEF StatsInv, Statistics
  <2> QED  BY <2>1, PolicyExact
<1> QED  BY StatisticsKept, <1>1, PTL
-----------------------------------------------------------------------------
\* The invariant both results are parts of.
THEOREM Invariance == Spec => []IInv
<1>1. ASSUME IInv, [Next]_vars  PROVE IInv'
  BY <1>1, OnInterestInv, OnDataInv, OnNackInv, TimeoutInv, QuietInv, Zenon DEF Next
<1> QED  BY InitInv, <1>1, PTL DEF Spec

\* Every neighbour that waits is in the entry that will see to it, for all five
\* strategies and any mix of refusals, NACKs and late answers.
THEOREM NeighboursAreKept == Spec => []NoneForgotten
<1>1. IInv => NoneForgotten
  BY DEF IInv
<1> QED  BY Invariance, <1>1, PTL

\* The counter of each uplink misses at most one pending interest for each piece
\* of data that came there for an entry sent elsewhere, whichever order the
\* uplinks are tried in, for any number of names, neighbours and uplinks.
THEOREM UplinksCounted == Spec => []UplinkNotUndercounted
<1>1. IInv => UplinkNotUndercounted
  BY DEF IInv
<1> QED  BY Invariance, <1>1, PTL
=============================================================================
