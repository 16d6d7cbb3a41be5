---------------------------- MODULE PlayerProofs ----------------------------
(***************************************************************************)
(* Type correctness of the Player, and the three invariants its streaming  *)
(* rests on: one chain of events, ordered levels, a base layer without a   *)
(* gap.  All are parts of one inductive invariant.  On it rest two more:   *)
(* the histories grow without a gap, and the enhancement layers stay       *)
(* within the base layer.                                                  *)
(***************************************************************************)
EXTENDS Player, DataLemmas

Buffers == [Levels -> Seq(Segments)]

\* What the proofs use of the constants.
LEMMA Constants ==
    /\ NumberOfSegments \in Nat /\ NumberOfSegments > 0
    /\ Levels \subseteq Nat /\ 0 \in Levels
    /\ BUFFER_MIN_SIZE \in Nat /\ BUFFER_MIN_SIZE > 0 /\ BUFFER_ALPHA \in Nat
    /\ DESIRED_BUFFER_SIZE \in Nat /\ DESIRED_BUFFER_SIZE >= 3
    /\ Segments \subseteq Numbers /\ Numbers \subseteq Nat
    /\ 0 \in Segments /\ -1 \notin Numbers /\ -1 \notin Levels
BY LogicConstantsOK DEF LogicConstantsOK, Levels, Segments, Numbers

\* Lowest picks the lowest level of a set (getOptimalRepresentation).
LEMMA LowestIsLeast ==
    ASSUME NEW S \in SUBSET Levels, S # {}
    PROVE  Lowest(S) \in S /\ \A k \in S : Lowest(S) <= k
<1>1. \E x \in S : \A y \in S : x <= y
  BY LeastNatural, Constants
<1> QED  BY <1>1 DEF Lowest

\* An element erased from the middle leaves the others in place.
LEMMA RemoveAtElements ==
    ASSUME NEW S, NEW s \in Seq(S), NEW i \in 1 .. Len(s)
    PROVE  /\ RemoveAt(s, i) \in Seq(S)
           /\ Len(RemoveAt(s, i)) = Len(s) - 1
           /\ \A j \in 1 .. Len(s) - 1 :
                 RemoveAt(s, i)[j] = IF j < i THEN s[j] ELSE s[j + 1]
<1> DEFINE front == SubSeq(s, 1, i - 1)
           back == SubSeq(s, i + 1, Len(s))
<1>1. /\ front \in Seq(S) /\ Len(front) = i - 1
      /\ \A j \in 1 .. i - 1 : front[j] = s[j]
  OBVIOUS
<1>2. /\ back \in Seq(S) /\ Len(back) = Len(s) - i
      /\ \A j \in 1 .. Len(s) - i : back[j] = s[i + j]
  OBVIOUS
<1>3. RemoveAt(s, i) = front \o back
  BY DEF RemoveAt
<1>4. Len(s) \in Nat /\ i \in Nat
  OBVIOUS
<1> HIDE DEF front, back
<1>5. front \o back \in Seq(S) /\ Len(front \o back) = Len(s) - 1
  <2>1. front \in Seq(S) /\ back \in Seq(S)
    BY <1>1, <1>2
  <2>2. front \o back \in Seq(S) /\ Len(front \o back) = Len(front) + Len(back)
    BY <2>1
  <2> QED  BY <1>1, <1>2, <1>4, <2>2
<1>6. ASSUME NEW j \in 1 .. Len(s) - 1
      PROVE  (front \o back)[j] = IF j < i THEN s[j] ELSE s[j + 1]
  <2>1. CASE j < i
    BY <1>1, <1>2, <1>4, <2>1
  <2>2. CASE ~(j < i)
    <3>1. (front \o back)[j] = back[j - (i - 1)]
      BY <1>1, <1>2, <1>4, <2>2
    <3>2. j - (i - 1) \in 1 .. Len(s) - i
      BY <1>4, <2>2
    <3>3. back[j - (i - 1)] = s[i + (j - (i - 1))]
      BY <1>2, <3>2
    <3>4. i + (j - (i - 1)) = j + 1
      BY <1>4
    <3> QED  BY <2>2, <3>1, <3>3, <3>4, <1>4
  <2> QED  BY <1>4, <2>1, <2>2
<1> QED  BY <1>3, <1>5, <1>6

\* ConsumeFromBuffer erases one segment of that number, if there is any.
LEMMA ConsumeErases ==
    ASSUME NEW buf \in Buffers, NEW n, NEW l \in Levels
    PROVE  \/ ~IsInBuffer(buf, n, l) /\ ConsumeFromBuffer(buf, n, l) = buf[l]
           \/ \E i \in 1 .. Len(buf[l]) :
                 /\ buf[l][i] = n
                 /\ ConsumeFromBuffer(buf, n, l) = RemoveAt(buf[l], i)
<1> DEFINE s == buf[l]
           I == {i \in 1 .. Len(s) : s[i] = n}
<1>1. CASE \E i \in 1 .. Len(s) : s[i] = n
  <2>1. I # {} /\ I \in SUBSET Nat
    BY <1>1
  <2>2. Min(I) \in I
    BY <2>1, LeastNatural DEF Min
  <2>3. ConsumeFromBuffer(buf, n, l) = RemoveAt(s, Min(I))
    BY <1>1, <2>1, Zenon DEF ConsumeFromBuffer, RemoveFirst, SelectInSeq
  <2> QED  BY <2>2, <2>3
<1>2. CASE ~\E i \in 1 .. Len(s) : s[i] = n
  BY <1>2 DEF ConsumeFromBuffer, RemoveFirst, IsInBuffer, Contains
<1> QED  BY <1>1, <1>2

Ordered(s) == \A i, j \in DOMAIN s : i < j => s[i] < s[j]

\* Erasing keeps a level ordered, and every bound of its numbers.
LEMMA ConsumeKeepsOrder ==
    ASSUME NEW buf \in Buffers, NEW n, NEW l \in Levels
    PROVE  /\ ConsumeFromBuffer(buf, n, l) \in Seq(Segments)
           /\ Ordered(buf[l]) => Ordered(ConsumeFromBuffer(buf, n, l))
           /\ \A m \in Nat : (\A i \in DOMAIN buf[l] : buf[l][i] < m)
                 => \A i \in DOMAIN ConsumeFromBuffer(buf, n, l) :
                       ConsumeFromBuffer(buf, n, l)[i] < m
<1> DEFINE s == buf[l]
           t == ConsumeFromBuffer(buf, n, l)
<1>0. s \in Seq(Segments) /\ Segments \subseteq Nat
  BY Constants DEF Buffers
<1>1. CASE t = s
  BY <1>0, <1>1
<1>2. CASE \E i \in 1 .. Len(s) : t = RemoveAt(s, i)
  <2>1. PICK i \in 1 .. Len(s) : t = RemoveAt(s, i)
    BY <1>2
  <2> HIDE DEF t, s
  <2>2. /\ t \in Seq(Segments) /\ Len(t) = Len(s) - 1
        /\ \A j \in 1 .. Len(s) - 1 : t[j] = IF j < i THEN s[j] ELSE s[j + 1]
    BY <1>0, <2>1, RemoveAtElements
  <2>3. Ordered(s) => Ordered(t)
    <3> SUFFICES ASSUME Ordered(s), NEW j \in DOMAIN t, NEW k \in DOMAIN t, j < k
                 PROVE  t[j] < t[k]
      BY DEF Ordered
    <3>1. /\ j \in 1 .. Len(s) - 1 /\ k \in 1 .. Len(s) - 1
          /\ t[j] = IF j < i THEN s[j] ELSE s[j + 1]
          /\ t[k] = IF k < i THEN s[k] ELSE s[k + 1]
      BY <1>0, <2>2
    <3>2. \A x, y \in 1 .. Len(s) : x < y => s[x] < s[y]
      BY <1>0 DEF Ordered
    <3> QED  BY <1>0, <3>1, <3>2
  <2>4. \A m \in Nat : (\A k \in DOMAIN s : s[k] < m) => \A k \in DOMAIN t : t[k] < m
    BY <1>0, <2>2
  <2> QED  BY <2>2, <2>3, <2>4 DEF s, t
<1> QED  BY <1>1, <1>2, ConsumeErases
-----------------------------------------------------------------------------
\* What a level needs next is no negative number, and above all it holds.
LEMMA NextNeeded ==
    ASSUME NEW logic \in Logics, NEW buf \in Buffers, NEW consumed \in Segments \cup {-1},
           NEW l \in Levels
    PROVE  LET n == getNextNeededSegmentNumber(logic, buf, consumed, l) IN
           /\ n \in Nat
           /\ buf[l] = <<>> /\ l = 0 => n = consumed + 1
           /\ buf[l] # <<>> => n = buf[l][Len(buf[l])] + 1
           /\ Ordered(buf[l]) => \A i \in DOMAIN buf[l] : buf[l][i] < n
<1> DEFINE n == getNextNeededSegmentNumber(logic, buf, consumed, l)
<1>0. /\ buf[l] \in Seq(Segments) /\ Segments \subseteq Nat
      /\ consumed \in Int /\ consumed >= -1
  BY Constants DEF Buffers
<1>1. CASE Len(buf[l]) = 0
  <2>1. buf[l] = <<>>
    BY <1>0, <1>1
  <2>2. OFFSET(logic) \in Nat /\ OFFSET(logic) > 0
    BY Constants DEF OFFSET
  <2>3. n = IF l = 0 THEN consumed + 1 ELSE consumed + OFFSET(logic)
    BY <1>1 DEF getNextNeededSegmentNumber, BufferSize
  <2>4. /\ n \in Nat /\ (l = 0 => n = consumed + 1)
        /\ \A i \in DOMAIN buf[l] : buf[l][i] < n
    <3> HIDE DEF n
    <3> QED  BY <1>0, <2>1, <2>2, <2>3
  <2> QED  BY <2>1, <2>4
<1>2. CASE Len(buf[l]) # 0
  <2>1. n = buf[l][Len(buf[l])] + 1
    BY <1>2 DEF getNextNeededSegmentNumber, BufferSize, LastSegmentNumber, Last
  <2>2. Len(buf[l]) \in 1 .. Len(buf[l]) /\ buf[l][Len(buf[l])] \in Segments
    BY <1>0, <1>2
  <2>3. buf[l][Len(buf[l])] \in Nat
    BY <1>0, <2>2, Zenon
  <2>4. ASSUME Ordered(buf[l]), NEW i \in DOMAIN buf[l]  PROVE buf[l][i] < n
    <3>1. i = Len(buf[l]) \/ buf[l][i] < buf[l][Len(buf[l])]
      BY <1>0, <2>2, <2>4 DEF Ordered
    <3>2. buf[l][i] \in Segments
      BY <1>0, <2>4
    <3>3. buf[l][i] \in Nat
      BY <1>0, <3>2, Zenon
    <3>4. buf[l][i] <= buf[l][Len(buf[l])]
      BY <2>3, <3>1, <3>3
    <3> HIDE DEF n
    <3> QED  BY <2>1, <2>3, <3>3, <3>4
  <2>5. buf[l] # <<>>
    BY <1>2
  <2>6. n \in Nat
    <3> HIDE DEF n
    <3> QED  BY <2>1, <2>3
  <2> QED  BY <2>1, <2>4, <2>5, <2>6
<1> QED  BY <1>1, <1>2

\* Whatever is asked for next is a segment of the period, and the one its level
\* needs next (getNextSegments of both logics).
LEMMA NextSegment ==
    ASSUME NEW logic \in Logics, NEW buf \in Buffers, NEW consumed \in Segments \cup {-1},
           getNextSegments(logic, buf, consumed) # Idle
    PROVE  \E l \in Levels :
               /\ getNextSegments(logic, buf, consumed) = Request(logic, buf, consumed, l)
               /\ getNextNeededSegmentNumber(logic, buf, consumed, l) \in Segments
<1>1. ASSUME NEW l \in Levels, HasNext(logic, buf, consumed, l)
      PROVE  getNextNeededSegmentNumber(logic, buf, consumed, l) \in Segments
  BY <1>1, NextNeeded, Constants DEF HasNext, Segments
<1>2. \E l \in Levels :
          /\ HasNext(logic, buf, consumed, l)
          /\ getNextSegments(logic, buf, consumed) = Request(logic, buf, consumed, l)
  <2>1. CASE logic = "LayerdSieber"
    <3> DEFINE top == CurrentLevel(buf)
               steady == Wanting(buf, consumed, top)
               growing == Wanting(buf, consumed, top + 2)
    <3>1. \A t : Wanting(buf, consumed, t) # {} =>
              /\ Lowest(Wanting(buf, consumed, t)) \in Levels
              /\ HasNext(logic, buf, consumed, Lowest(Wanting(buf, consumed, t)))
      <4> SUFFICES ASSUME NEW t, Wanting(buf, consumed, t) # {}
                   PROVE  /\ Lowest(Wanting(buf, consumed, t)) \in Levels
                          /\ HasNext(logic, buf, consumed, Lowest(Wanting(buf, consumed, t)))
        OBVIOUS
      <4>1. Wanting(buf, consumed, t) \in SUBSET Levels
        BY Zenon DEF Wanting
      <4>2. Lowest(Wanting(buf, consumed, t)) \in Wanting(buf, consumed, t)
        BY <4>1, LowestIsLeast
      <4> QED  BY <2>1, <4>2, Zenon DEF Wanting
    <3>2. getNextSegments(logic, buf, consumed) =
            IF steady # {} THEN Request(logic, buf, consumed, Lowest(steady))
            ELSE IF growing # {} THEN Request(logic, buf, consumed, Lowest(growing))
            ELSE IF top + 1 \in Levels /\ HasNext(logic, buf, consumed, top + 1)
                 THEN Request(logic, buf, consumed, top + 1)
            ELSE Idle
      BY <2>1, Zenon DEF getNextSegments, NextOfLayered
    <3> HIDE DEF top, steady, growing
    <3>3. steady # {} => Lowest(steady) \in Levels /\ HasNext(logic, buf, consumed, Lowest(steady))
      BY <3>1, Zenon DEF steady
    <3>4. growing # {} => Lowest(growing) \in Levels /\ HasNext(logic, buf, consumed, Lowest(growing))
      BY <3>1, Zenon DEF growing
    <3> QED  BY <3>2, <3>3, <3>4, Zenon
  <2>2. CASE logic # "LayerdSieber"
    <3> DEFINE open == {l \in Levels : BufferSize(buf, l) < DESIRED_BUFFER_SIZE}
    <3>1. logic = "SimpleBuffer"
      BY <2>2 DEF Logics
    <3>2. open # {} => Lowest(open) \in Levels
      BY LowestIsLeast, Zenon
    <3>3. getNextSegments(logic, buf, consumed) =
            IF open # {} /\ HasNext(logic, buf, consumed, Lowest(open))
            THEN Request(logic, buf, consumed, Lowest(open)) ELSE Idle
      BY <2>2, <3>1, Zenon DEF getNextSegments, NextOfSimple
    <3> QED  BY <3>2, <3>3, Zenon
  <2> QED  BY <2>1, <2>2
<1> QED  BY <1>1, <1>2

\* The first segment asked for is segment 0 of the base layer.
LEMMA FirstSegment ==
    ASSUME NEW logic \in Logics, NEW buf \in Buffers, \A l \in Levels : buf[l] = <<>>
    PROVE  getNextSegments(logic, buf, -1) = [level |-> 0, number |-> 0]
<1>1. \A l \in Levels : BufferSize(buf, l) = 0
  BY DEF BufferSize
<1>2. getNextNeededSegmentNumber(logic, buf, -1, 0) = 0
  BY <1>1, Constants DEF getNextNeededSegmentNumber
<1>3. HasNext(logic, buf, -1, 0) /\ Request(logic, buf, -1, 0) = [level |-> 0, number |-> 0]
  BY <1>2, Constants DEF HasNext, Request
<1>4. ASSUME NEW S \in SUBSET Levels, 0 \in S  PROVE Lowest(S) = 0
  <2>1. Lowest(S) \in S /\ Lowest(S) <= 0
    BY <1>4, LowestIsLeast
  <2>2. Lowest(S) \in Nat
    BY <1>4, <2>1, Constants
  <2> QED  BY <2>1, <2>2
<1>5. CASE logic = "LayerdSieber"
  <2>1. CurrentLevel(buf) = 0
    <3> DEFINE Top(t) == /\ t = 0 \/ BufferSize(buf, t) > 0
                         /\ \A l \in Levels : l > t => BufferSize(buf, l) = 0
    <3>1. 0 \in Levels /\ Top(0)
      BY <1>1, Constants
    <3>2. \A t \in Levels : Top(t) => t = 0
      BY <1>1
    <3>3. CurrentLevel(buf) = CHOOSE t \in Levels : Top(t)
      BY Zenon DEF CurrentLevel
    <3> HIDE DEF Top
    <3> QED  BY <3>1, <3>2, <3>3, Zenon
  <2>2. desired_buffer_size(0, 0) > 0
    BY Constants DEF desired_buffer_size
  <2>3. 0 \in Wanting(buf, -1, 0)
    BY <1>1, <1>3, <1>5, <2>1, <2>2, Constants DEF Wanting
  <2>4. Wanting(buf, -1, 0) \in SUBSET Levels
    BY Zenon DEF Wanting
  <2>5. getNextSegments(logic, buf, -1) = Request(logic, buf, -1, Lowest(Wanting(buf, -1, 0)))
    BY <1>5, <2>1, <2>3, Zenon DEF getNextSegments, NextOfLayered
  <2> QED  BY <1>3, <1>4, <2>3, <2>4, <2>5
<1>6. CASE logic # "LayerdSieber"
  <2> DEFINE open == {l \in Levels : BufferSize(buf, l) < DESIRED_BUFFER_SIZE}
  <2>1. 0 \in open
    BY <1>1, Constants
  <2>2. logic = "SimpleBuffer"
    BY <1>6 DEF Logics
  <2>3. Lowest(open) = 0
    BY <1>4, <2>1
  <2>4. getNextSegments(logic, buf, -1) =
            IF open # {} /\ HasNext(logic, buf, -1, Lowest(open))
            THEN Request(logic, buf, -1, Lowest(open)) ELSE Idle
    BY <1>6, <2>2, Zenon DEF getNextSegments, NextOfSimple
  <2> HIDE DEF open
  <2> QED  BY <1>3, <2>1, <2>3, <2>4
<1> QED  BY <1>5, <1>6

\* A run of numbers grows by the number that follows its last.
LEMMA RunGrows ==
    ASSUME NEW S, NEW s \in Seq(S), NEW m \in Nat, NEW k, k = m + Len(s),
           \A i \in DOMAIN s : s[i] = m + i - 1
    PROVE  \A i \in DOMAIN Append(s, k) : Append(s, k)[i] = m + i - 1
<1>1. Len(s) \in Nat /\ DOMAIN Append(s, k) = 1 .. Len(s) + 1
  BY SMT
<1>2. ASSUME NEW i \in 1 .. Len(s) + 1  PROVE Append(s, k)[i] = m + i - 1
  <2>1. Append(s, k)[i] = IF i = Len(s) + 1 THEN k ELSE s[i]
    BY <1>2
  <2>2. CASE i = Len(s) + 1
    BY <1>1, <2>1, <2>2
  <2>3. CASE i \in DOMAIN s
    BY <1>1, <2>1, <2>3
  <2> QED  BY <1>1, <2>2, <2>3
<1> QED  BY <1>1, <1>2

\* Before the first request nothing has been asked for or played.
Unused ==
    /\ ~outstanding
    /\ \A l \in Levels : buffer[l] = <<>>
    /\ last_consumed_segment_number = -1

\* A Player plays once, and nothing of it is left over when it begins.
StartInv ==
    /\ hasStarted => ~written /\ ~hasFinished
    /\ ~hasStarted /\ ~written => Unused /\ streamingEvents = 0
    /\ hasStarted /\ currentSegmentNumber = -1 => Unused

\* What is asked for is a segment of the period, above all its level holds.
RequestInv ==
    outstanding =>
        /\ current_segment.level \in Levels /\ current_segment.number \in Segments
        /\ \A i \in DOMAIN buffer[current_segment.level] :
              buffer[current_segment.level][i] < current_segment.number

ConsumedInv ==
    hasStarted /\ currentSegmentNumber # -1 =>
        last_consumed_segment_number = currentSegmentNumber - 1

IInv ==
    /\ TypeOK /\ StartInv /\ OneStreamingChain
    /\ RequestInv /\ BufferOrdered
    /\ ConsumedInv /\ BaseWithoutGap
-----------------------------------------------------------------------------
\* consuming finds a level up to which the segment can be played.
LEMMA PlayableIsLevel ==
    ASSUME levels \in SUBSET Levels, NEW n
    PROVE  PlayableLevel(n) \in Levels
<1> DEFINE Ends(t) == t + 1 >= Cardinality(levels) \/ ~IsInBuffer(buffer, n, t + 1)
           S == {t \in Levels : Ends(t)}
<1>0. MaxLevel \in Nat
  BY LogicConstantsOK DEF LogicConstantsOK
<1>1. Cardinality(levels) \in Nat /\ Cardinality(levels) <= MaxLevel + 1
  <2>1. IsFiniteSet(Levels) /\ Cardinality(Levels) = MaxLevel + 1
    BY <1>0, FS_Interval DEF Levels
  <2>2. /\ IsFiniteSet(levels) /\ Cardinality(levels) \in Nat
        /\ Cardinality(levels) <= Cardinality(Levels)
    BY <2>1, FS_Subset, FS_CardinalityType
  <2> QED  BY <2>1, <2>2
<1>2. MaxLevel \in S
  BY <1>0, <1>1 DEF Levels
<1>3. PICK top \in S : \A t \in S : top <= t
  BY <1>2, LeastNatural, Constants
<1>4. ASSUME NEW l \in 1 .. top
      PROVE  l < Cardinality(levels) /\ IsInBuffer(buffer, n, l)
  <2>1. l - 1 \in Levels /\ ~(top <= l - 1)
    BY <1>0, <1>3 DEF Levels
  <2>2. ~Ends(l - 1)
    BY <1>3, <2>1
  <2>3. (l - 1) + 1 = l
    OBVIOUS
  <2> QED  BY <1>1, <2>2, <2>3
<1>5. top \in Levels /\ Ends(top)
  BY <1>3
<1> QED  BY <1>4, <1>5, Zenon DEF PlayableLevel

\* A new player satisfies the invariant, and each event keeps it: first the call
\* of the requester, then stop, streaming, consuming and the two reports.
LEMMA InitInv == Init => IInv
<1> SUFFICES ASSUME Init PROVE IInv
  OBVIOUS
<1> USE DEF Init
<1>1. TypeOK
  <2>1. current_segment \in [level : Levels \cup {-1}, number : Segments \cup {-1}]
    BY DEF Idle
  <2>2. buffer \in [Levels -> Seq(Segments)]
    BY SMT
  <2>3. levelHistory \in [Numbers -> Levels \cup {NoLevel}]
    BY SMT
  <2>4. streamingEvents \in Nat /\ levels \in SUBSET Levels
    BY SMT
  <2> QED  BY <2>1, <2>2, <2>3, <2>4, Zenon DEF TypeOK
<1>2. StartInv /\ RequestInv /\ ConsumedInv
  BY DEF StartInv, RequestInv, ConsumedInv, Unused
<1>3. OneStreamingChain /\ BaseWithoutGap
  BY DEF OneStreamingChain, BaseWithoutGap, Streaming
<1>4. BufferOrdered
  BY DEF BufferOrdered
<1> QED  BY <1>1, <1>2, <1>3, <1>4 DEF IInv

LEMMA PlayInv ==
    ASSUME IInv, play  PROVE IInv'
<1> USE DEF play, IInv, requestVars, bufferVars, historyVars, vars
<1>1. Unused /\ streamingEvents = 0
  BY DEF StartInv
<1>2. TypeOK'
  <2>1. currentSegmentNumber' = -1 /\ streamingEvents' \in Nat
    BY <1>1
  <2> QED  BY <2>1, Zenon DEF TypeOK
<1>3. StartInv'
  BY <1>1 DEF StartInv, Unused
<1>4. OneStreamingChain'
  BY <1>1 DEF OneStreamingChain, Unused, Streaming
<1>5. RequestInv' /\ ConsumedInv'
  BY DEF RequestInv, ConsumedInv
<1>6. BufferOrdered' /\ BaseWithoutGap'
  BY DEF BufferOrdered, BaseWithoutGap
<1> QED  BY <1>2, <1>3, <1>4, <1>5, <1>6

\* What stop does to the variables it changes, whoever calls it.
LEMMA StoppingType ==
    ASSUME TypeOK, NEW n \in Numbers \cup {-1}, NEW h \in [Numbers -> Levels \cup {NoLevel}],
           Stopping(n, h),
           n = -1 => h = levelHistory
    PROVE  /\ hasStarted' = FALSE /\ written' = TRUE /\ consumeEvent' = FALSE
           /\ streamingEvents' \in Nat
           /\ levelHistory' \in [Numbers -> Levels \cup {NoLevel}]
           /\ recorded' \in SUBSET Numbers /\ requested' \in SUBSET Numbers
<1>1. /\ hasStarted' = FALSE /\ written' = TRUE /\ consumeEvent' = FALSE
      /\ streamingEvents' \in Nat
  BY DEF Stopping, TypeOK
<1>2. CASE n = -1
  BY <1>1, <1>2 DEF Stopping, TypeOK
<1>3. CASE n # -1
  <2>1. n \in Numbers /\ 0 \in Levels
    BY <1>3, Constants
  <2>2. /\ levelHistory' = SetPlayerLevel(SetConsumedPlayerLevel(h, n, 0), n, 0)
        /\ recorded' = recorded \cup {n} /\ requested' = requested \cup {n}
    BY <1>3 DEF Stopping, SetRequestedPlayerLevel
  <2>3. SetConsumedPlayerLevel(h, n, 0) \in [Numbers -> Levels \cup {NoLevel}]
    BY <2>1 DEF SetConsumedPlayerLevel
  <2>4. levelHistory' \in [Numbers -> Levels \cup {NoLevel}]
    BY <2>1, <2>2, <2>3 DEF SetPlayerLevel
  <2> QED  BY <1>1, <2>1, <2>2, <2>4 DEF TypeOK
<1> QED  BY <1>2, <1>3

LEMMA StopInv ==
    ASSUME IInv, stop  PROVE IInv'
<1> USE DEF IInv
<1>1. /\ hasStarted' = FALSE /\ written' = TRUE /\ consumeEvent' = FALSE
      /\ streamingEvents' \in Nat
      /\ levelHistory' \in [Numbers -> Levels \cup {NoLevel}]
      /\ recorded' \in SUBSET Numbers /\ requested' \in SUBSET Numbers
  BY StoppingType DEF stop, TypeOK
<1>2. UNCHANGED <<alogic, hasFinished, currentSegmentNumber, requestVars, bufferVars,
                  last_consumed_segment_number>>
  BY DEF stop
<1>3. TypeOK'
  BY <1>1, <1>2 DEF TypeOK, requestVars, bufferVars
<1>4. StartInv' /\ OneStreamingChain' /\ ConsumedInv' /\ BaseWithoutGap'
  BY <1>1 DEF StartInv, OneStreamingChain, ConsumedInv, BaseWithoutGap, Streaming
<1>5. RequestInv' /\ BufferOrdered'
  BY <1>2 DEF RequestInv, BufferOrdered, requestVars, bufferVars
<1> QED  BY <1>3, <1>4, <1>5

LEMMA StreamingInv ==
    ASSUME IInv, streaming  PROVE IInv'
<1> USE DEF IInv
<1> DEFINE segment == getNextSegments(alogic, buffer, last_consumed_segment_number)
<1>0. /\ UNCHANGED <<alogic, hasStarted, hasFinished, consumeEvent, bufferVars,
                     last_consumed_segment_number, levelHistory, recorded, written>>
      /\ streamingEvents > 0
  BY DEF streaming
<1>1. CASE /\ Streaming /\ segment # Idle
           /\ current_segment' = segment /\ outstanding' = TRUE
           /\ currentSegmentNumber' =
                IF currentSegmentNumber = -1 THEN segment.number ELSE currentSegmentNumber
           /\ requested' = requested \cup {segment.number}
           /\ streamingEvents' = streamingEvents - 1
  <2>1. /\ alogic \in Logics /\ buffer \in Buffers
        /\ last_consumed_segment_number \in Segments \cup {-1}
    BY DEF TypeOK, Buffers
  <2>2. PICK l \in Levels :
            /\ segment = Request(alogic, buffer, last_consumed_segment_number, l)
            /\ getNextNeededSegmentNumber(alogic, buffer, last_consumed_segment_number, l)
                  \in Segments
    BY <1>1, <2>1, NextSegment, Zenon
  <2> DEFINE n == getNextNeededSegmentNumber(alogic, buffer, last_consumed_segment_number, l)
  <2>3. /\ buffer[l] = <<>> /\ l = 0 => n = last_consumed_segment_number + 1
        /\ buffer[l] # <<>> => n = buffer[l][Len(buffer[l])] + 1
        /\ \A i \in DOMAIN buffer[l] : buffer[l][i] < n
    <3>1. Ordered(buffer[l])
      BY DEF BufferOrdered, Ordered
    <3> QED  BY <2>1, <3>1, NextNeeded, Zenon
  <2>4. current_segment' = [level |-> l, number |-> n] /\ n \in Segments
    BY <1>1, <2>2, Zenon DEF Request
  <2> HIDE DEF n
  <2>5. current_segment'.level = l /\ current_segment'.number = n /\ segment.number = n
    BY <1>1, <2>4
  <2>6. ~outstanding /\ streamingEvents = 1
    BY <1>0, <1>1 DEF OneStreamingChain, TypeOK
  <2>7. hasStarted /\ ~hasFinished
    BY <1>1 DEF Streaming
  <2>8. n \in Numbers /\ n \in Nat /\ n # -1
    BY <2>4, Constants
  <2>9. currentSegmentNumber = -1 => l = 0 /\ n = 0 /\ buffer[0] = <<>>
    <3> SUFFICES ASSUME currentSegmentNumber = -1
                 PROVE  l = 0 /\ n = 0 /\ buffer[0] = <<>>
      OBVIOUS
    <3>1. Unused
      BY <2>7 DEF StartInv
    <3>2. segment = [level |-> 0, number |-> 0]
      BY <2>1, <3>1, FirstSegment DEF Unused
    <3>3. current_segment'.level = 0 /\ current_segment'.number = 0
      BY <1>1, <3>2
    <3> QED  BY <2>5, <3>1, <3>3, Constants DEF Unused
  <2>10. TypeOK'
    <3>1. current_segment' \in [level : Levels \cup {-1}, number : Segments \cup {-1}]
      BY <2>4
    <3>2. streamingEvents' \in Nat
      BY <1>1, <2>6
    <3>3. currentSegmentNumber' \in Numbers \cup {-1} /\ requested' \in SUBSET Numbers
      BY <1>1, <2>5, <2>8 DEF TypeOK
    <3> QED  BY <1>0, <1>1, <3>1, <3>2, <3>3, Zenon DEF TypeOK, bufferVars
  <2>11. StartInv'
    <3>1. currentSegmentNumber' # -1
      BY <1>1, <2>5, <2>8
    <3> QED  BY <1>0, <2>7, <3>1, Zenon DEF StartInv, Unused
  <2>12. OneStreamingChain'
    BY <1>1, <2>6 DEF OneStreamingChain
  <2>13. RequestInv'
    BY <1>0, <2>3, <2>4, <2>5 DEF RequestInv, bufferVars
  <2>14. BufferOrdered'
    BY <1>0 DEF BufferOrdered, bufferVars
  <2>15. ConsumedInv'
    BY <1>0, <1>1, <2>5, <2>7, <2>9 DEF ConsumedInv, StartInv, Unused
  <2>16. BaseWithoutGap'
    <3>1. currentSegmentNumber' = IF currentSegmentNumber = -1 THEN n ELSE currentSegmentNumber
      BY <1>1, <2>5
    <3>2. buffer' = buffer /\ buffer[0] \in Seq(Segments) /\ Segments \subseteq Nat
      BY <1>0, Constants DEF bufferVars, TypeOK
    <3>3. \A i \in DOMAIN buffer[0] : buffer[0][i] = currentSegmentNumber' + i - 1
      <4>1. CASE currentSegmentNumber = -1
        BY <2>9, <4>1
      <4>2. CASE currentSegmentNumber # -1
        <5>1. BaseLayer = buffer[0]
          BY <2>6 DEF BaseLayer
        <5> QED  BY <1>1, <3>1, <4>2, <5>1 DEF BaseWithoutGap
      <4> QED  BY <4>1, <4>2
    <3>4. CASE l = 0
      <4>1. n = currentSegmentNumber' + Len(buffer[0])
        <5>1. CASE currentSegmentNumber = -1
          BY <2>9, <3>1, <5>1
        <5>2. CASE currentSegmentNumber # -1 /\ buffer[0] = <<>>
          BY <2>3, <2>7, <3>1, <3>4, <5>2 DEF ConsumedInv, TypeOK, Numbers
        <5>3. CASE currentSegmentNumber # -1 /\ buffer[0] # <<>>
          <6>1. Len(buffer[0]) \in DOMAIN buffer[0] /\ Len(buffer[0]) \in Nat
            BY <3>2, <5>3
          <6>2. n = buffer[0][Len(buffer[0])] + 1
            BY <2>3, <3>4, <5>3
          <6>3. currentSegmentNumber' \in Int
            BY <2>10, Constants DEF TypeOK
          <6> QED  BY <3>3, <6>1, <6>2, <6>3
        <5> QED  BY <5>1, <5>2, <5>3
      <4>2. BaseLayer' = Append(buffer[0], n)
        BY <1>1, <2>5, <3>2, <3>4 DEF BaseLayer
      <4>3. currentSegmentNumber' \in Int
        BY <2>10, Constants DEF TypeOK
      <4>4. \A i \in DOMAIN Append(buffer[0], n) :
                Append(buffer[0], n)[i] = currentSegmentNumber' + i - 1
        BY <3>2, <3>3, <4>1, <4>3
      <4> QED  BY <4>2, <4>4 DEF BaseWithoutGap
    <3>5. CASE l # 0
      <4>1. BaseLayer' = buffer[0]
        BY <2>5, <3>2, <3>5 DEF BaseLayer
      <4> QED  BY <3>3, <4>1 DEF BaseWithoutGap
    <3> QED  BY <3>4, <3>5
  <2> QED  BY <2>10, <2>11, <2>12, <2>13, <2>14, <2>15, <2>16
<1>2. CASE /\ UNCHANGED <<currentSegmentNumber, requestVars, requested>>
           /\ \/ Streaming /\ streamingEvents' = streamingEvents
              \/ ~Streaming /\ streamingEvents' = streamingEvents - 1
  <2>1. TypeOK'
    <3>1. streamingEvents' \in Nat
      BY <1>0, <1>2 DEF TypeOK
    <3> QED  BY <1>0, <1>2, <3>1, Zenon DEF TypeOK, bufferVars, requestVars
  <2>2. StartInv'
    <3>1. ~hasStarted /\ ~written => streamingEvents' = 0
      BY <1>0 DEF StartInv
    <3> QED  BY <1>0, <1>2, <3>1, Zenon DEF StartInv, Unused, bufferVars, requestVars
  <2>3. OneStreamingChain'
    BY <1>0, <1>2 DEF OneStreamingChain, Streaming, requestVars
  <2>4. /\ RequestInv' /\ BufferOrdered' /\ ConsumedInv' /\ BaseWithoutGap'
    BY <1>0, <1>2, Zenon
       DEF RequestInv, BufferOrdered, ConsumedInv, BaseWithoutGap, BaseLayer, Streaming,
           bufferVars, requestVars
  <2> QED  BY <2>1, <2>2, <2>3, <2>4
<1> QED  BY <1>1, <1>2, Zenon DEF streaming, SetRequestedPlayerLevel

\* Consuming the base segment to be played next takes it off the front.
LEMMA BaseConsumed ==
    ASSUME NEW buf \in Buffers, NEW n \in Segments, IsInBuffer(buf, n, 0),
           \A i \in DOMAIN buf[0] : buf[0][i] = n + i - 1
    PROVE  LET rest == ConsumeFromBuffer(buf, n, 0) IN
           /\ rest \in Seq(Segments) /\ Len(rest) = Len(buf[0]) - 1
           /\ \A i \in DOMAIN rest : rest[i] = (n + 1) + i - 1
<1>0. buf[0] \in Seq(Segments) /\ n \in Nat /\ 0 \in Levels
  BY Constants DEF Buffers
<1>1. PICK i \in 1 .. Len(buf[0]) :
          buf[0][i] = n /\ ConsumeFromBuffer(buf, n, 0) = RemoveAt(buf[0], i)
  BY <1>0, ConsumeErases
<1>2. i = 1
  BY <1>0, <1>1
<1> DEFINE s == buf[0]
           rest == ConsumeFromBuffer(buf, n, 0)
<1> HIDE DEF s, rest
<1>3. /\ rest \in Seq(Segments) /\ Len(rest) = Len(s) - 1
      /\ \A j \in 1 .. Len(s) - 1 : rest[j] = s[j + 1]
  <2>1. s \in Seq(Segments) /\ 1 \in 1 .. Len(s) /\ rest = RemoveAt(s, 1)
    BY <1>0, <1>1, <1>2 DEF s, rest
  <2>2. /\ RemoveAt(s, 1) \in Seq(Segments) /\ Len(RemoveAt(s, 1)) = Len(s) - 1
        /\ \A j \in 1 .. Len(s) - 1 :
              RemoveAt(s, 1)[j] = IF j < 1 THEN s[j] ELSE s[j + 1]
    BY <2>1, RemoveAtElements
  <2> QED  BY <2>1, <2>2
<1>4. \A j \in 1 .. Len(s) : s[j] = n + j - 1
  BY <1>0 DEF s
<1>5. ASSUME NEW j \in DOMAIN rest  PROVE rest[j] = (n + 1) + j - 1
  <2>1. s \in Seq(Segments)
    BY <1>0 DEF s
  <2>2. j \in 1 .. Len(s) - 1 /\ j + 1 \in 1 .. Len(s) /\ j \in Nat
    BY <1>3, <2>1
  <2>3. rest[j] = s[j + 1] /\ s[j + 1] = n + (j + 1) - 1
    BY <1>3, <1>4, <2>2
  <2> QED  BY <1>0, <2>2, <2>3
<1> QED  BY <1>3, <1>5 DEF s, rest

LEMMA ConsumeInv ==
    ASSUME IInv, consume  PROVE IInv'
<1> USE DEF IInv
<1> DEFINE n == currentSegmentNumber
           top == PlayableLevel(n)
           history == SetConsumedPlayerLevel(levelHistory, n, top)
<1>1. /\ Consuming /\ IsInBuffer(buffer, n, 0)
      /\ buffer' = [l \in Levels |-> IF l <= top THEN ConsumeFromBuffer(buffer, n, l)
                                     ELSE buffer[l]]
      /\ last_consumed_segment_number' = n /\ currentSegmentNumber' = n + 1
      /\ UNCHANGED <<alogic, requestVars, levels>>
  BY DEF consume
<1>2. \/ /\ n + 1 >= NumberOfSegments
         /\ hasFinished' = TRUE
         /\ Stopping(n + 1, history)
      \/ /\ n + 1 < NumberOfSegments
         /\ levelHistory' = history
         /\ UNCHANGED <<hasStarted, hasFinished, eventVars, recorded, requested, written>>
  BY Zenon DEF consume
<1>3. /\ buffer \in Buffers /\ buffer[0] \in Seq(Segments) /\ 0 \in Levels
      /\ hasStarted /\ ~hasFinished /\ n # -1
  BY <1>1, Constants DEF Consuming, Streaming, TypeOK, Buffers
<1>4. n \in Segments /\ n + 1 \in Numbers /\ n \in Nat
  <2>1. \E i \in 1 .. Len(buffer[0]) : buffer[0][i] = n
    BY <1>1 DEF IsInBuffer, Contains
  <2>2. n \in Segments
    BY <1>3, <2>1
  <2> QED  BY <2>2, Constants DEF Segments, Numbers
<1>5. top \in Levels /\ top >= 0
  BY PlayableIsLevel, Constants DEF TypeOK
<1>6. history \in [Numbers -> Levels \cup {NoLevel}]
  <2> HIDE DEF top
  <2> QED  BY <1>5 DEF SetConsumedPlayerLevel, TypeOK
<1> HIDE DEF top, history
<1>7. buffer' \in Buffers
  <2>1. \A l \in Levels : ConsumeFromBuffer(buffer, n, l) \in Seq(Segments)
    BY <1>3, ConsumeKeepsOrder
  <2> QED  BY <1>1, <1>3, <2>1 DEF Buffers
<1>8. TypeOK'
  <2>1. currentSegmentNumber' \in Numbers \cup {-1} /\ last_consumed_segment_number' \in Segments
    BY <1>1, <1>4
  <2>2. /\ hasStarted' \in BOOLEAN /\ hasFinished' \in BOOLEAN /\ consumeEvent' \in BOOLEAN
        /\ streamingEvents' \in Nat /\ written' \in BOOLEAN
        /\ levelHistory' \in [Numbers -> Levels \cup {NoLevel}]
        /\ recorded' \in SUBSET Numbers /\ requested' \in SUBSET Numbers
    <3>1. CASE hasFinished' = TRUE /\ Stopping(n + 1, history)
      <4>1. n + 1 # -1 /\ n + 1 \in Numbers \cup {-1}
        BY <1>4
      <4>2. /\ hasStarted' = FALSE /\ written' = TRUE /\ consumeEvent' = FALSE
            /\ streamingEvents' \in Nat
            /\ levelHistory' \in [Numbers -> Levels \cup {NoLevel}]
            /\ recorded' \in SUBSET Numbers /\ requested' \in SUBSET Numbers
        BY <1>6, <3>1, <4>1, StoppingType, Zenon
      <4> QED  BY <3>1, <4>2, Zenon
    <3>2. CASE /\ levelHistory' = history
               /\ UNCHANGED <<hasStarted, hasFinished, eventVars, recorded, requested, written>>
      BY <1>6, <3>2, Zenon DEF TypeOK, eventVars
    <3> QED  BY <1>2, <3>1, <3>2, Zenon
  <2> QED  BY <1>1, <1>7, <2>1, <2>2, Zenon DEF TypeOK, Buffers, requestVars
<1>9. RequestInv'
  <2>1. \A l \in Levels : \A m \in Nat :
            (\A i \in DOMAIN buffer[l] : buffer[l][i] < m) =>
                \A i \in DOMAIN buffer'[l] : buffer'[l][i] < m
    <3> SUFFICES ASSUME NEW l \in Levels, NEW m \in Nat,
                        \A i \in DOMAIN buffer[l] : buffer[l][i] < m
                 PROVE  \A i \in DOMAIN buffer'[l] : buffer'[l][i] < m
      OBVIOUS
    <3>1. \A i \in DOMAIN ConsumeFromBuffer(buffer, n, l) : ConsumeFromBuffer(buffer, n, l)[i] < m
      BY <1>3, ConsumeKeepsOrder
    <3> QED  BY <1>1, <3>1
  <2> QED  BY <1>1, <2>1, Constants DEF RequestInv, requestVars
<1>10. BufferOrdered'
  <2> SUFFICES ASSUME NEW l \in Levels  PROVE Ordered(buffer'[l])
    BY DEF BufferOrdered, Ordered
  <2>1. Ordered(buffer[l])
    BY DEF BufferOrdered, Ordered
  <2>2. Ordered(ConsumeFromBuffer(buffer, n, l))
    BY <1>3, <2>1, ConsumeKeepsOrder
  <2> QED  BY <1>1, <2>1, <2>2
<1>11. CASE hasFinished' = TRUE /\ Stopping(n + 1, history)
  <2>1. hasStarted' = FALSE /\ written' = TRUE
    BY <1>11 DEF Stopping
  <2> QED  BY <1>8, <1>9, <1>10, <2>1
           DEF StartInv, OneStreamingChain, ConsumedInv, BaseWithoutGap, Streaming
<1>12. CASE UNCHANGED <<hasStarted, hasFinished, eventVars, recorded, requested, written>>
  <2>1. n + 1 # -1
    BY <1>4
  <2>2. StartInv'
    BY <1>1, <1>3, <1>12, <2>1 DEF StartInv
  <2>3. OneStreamingChain'
    BY <1>1, <1>12 DEF OneStreamingChain, Streaming, requestVars, eventVars
  <2>4. ConsumedInv'
    BY <1>1, <1>4 DEF ConsumedInv
  <2>5. BaseWithoutGap'
    <3>1. \A i \in DOMAIN BaseLayer : BaseLayer[i] = n + i - 1
      BY <1>3 DEF BaseWithoutGap, Streaming
    <3>2. \A i \in DOMAIN buffer[0] : buffer[0][i] = n + i - 1
      <4>1. CASE BaseLayer = buffer[0]
        BY <3>1, <4>1
      <4>2. CASE BaseLayer = Append(buffer[0], current_segment.number)
        BY <1>3, <3>1, <4>2
      <4> QED  BY <4>1, <4>2 DEF BaseLayer
    <3>3. /\ buffer'[0] \in Seq(Segments) /\ Len(buffer'[0]) = Len(buffer[0]) - 1
          /\ \A i \in DOMAIN buffer'[0] : buffer'[0][i] = (n + 1) + i - 1
      <4>1. buffer'[0] = ConsumeFromBuffer(buffer, n, 0)
        BY <1>1, <1>3, <1>5
      <4> QED  BY <1>1, <1>3, <1>4, <3>2, <4>1, BaseConsumed
    <3>4. CASE outstanding /\ current_segment.level = 0
      <4>1. BaseLayer = Append(buffer[0], current_segment.number)
        BY <3>4 DEF BaseLayer
      <4>2. current_segment.number = n + Len(buffer[0])
        <5>1. Len(buffer[0]) + 1 \in DOMAIN BaseLayer
          BY <1>3, <4>1
        <5>2. BaseLayer[Len(buffer[0]) + 1] = current_segment.number
          BY <1>3, <4>1
        <5>3. Len(buffer[0]) \in Nat
          BY <1>3
        <5> QED  BY <1>4, <3>1, <5>1, <5>2, <5>3
      <4>3. BaseLayer' = Append(buffer'[0], current_segment.number)
        BY <1>1, <3>4 DEF BaseLayer, requestVars
      <4>4. \A i \in DOMAIN Append(buffer'[0], current_segment.number) :
                Append(buffer'[0], current_segment.number)[i] = (n + 1) + i - 1
        <5>1. Len(buffer[0]) \in Nat
          BY <1>3
        <5>2. Len(buffer'[0]) \in Nat /\ n + 1 \in Nat
          BY <1>4, <3>3
        <5>3. Len(buffer'[0]) = Len(buffer[0]) - 1
          BY <3>3
        <5>4. current_segment.number = (n + 1) + Len(buffer'[0])
          <6> DEFINE a == Len(buffer[0])
                     b == Len(buffer'[0])
                     c == current_segment.number
          <6>1. a \in Nat /\ b = a - 1 /\ c = n + a /\ n \in Nat
            BY <1>4, <4>2, <5>1, <5>3
          <6> HIDE DEF a, b, c, n
          <6>2. c = (n + 1) + b
            BY <6>1
          <6> QED  BY <6>2 DEF a, b, c, n
        <5> HIDE DEF n
        <5> QED  BY <3>3, <5>2, <5>4, RunGrows
      <4> QED  BY <1>1, <4>3, <4>4 DEF BaseWithoutGap
    <3>5. CASE ~(outstanding /\ current_segment.level = 0)
      <4>1. BaseLayer' = buffer'[0]
        BY <1>1, <3>5 DEF BaseLayer, requestVars
      <4> QED  BY <1>1, <3>3, <4>1 DEF BaseWithoutGap
    <3> QED  BY <3>4, <3>5
  <2> QED  BY <1>8, <1>9, <1>10, <2>2, <2>3, <2>4, <2>5
<1> QED  BY <1>2, <1>11, <1>12

\* A report is owed only while the player plays, or after it has stopped.
LEMMA OwedWhenStarted ==
    ASSUME IInv, outstanding
    PROVE  /\ hasStarted \/ written
           /\ hasStarted => currentSegmentNumber # -1
BY DEF IInv, StartInv, Unused

LEMMA SegmentReceivedInv ==
    ASSUME IInv, SegmentReceived  PROVE IInv'
<1> USE DEF IInv
<1> DEFINE n == current_segment.number
           l == current_segment.level
<1>1. /\ outstanding /\ outstanding' = FALSE
      /\ buffer' = [buffer EXCEPT ![l] = Append(@, n)]
      /\ levels' = levels \cup {l}
      /\ levelHistory' = [levelHistory EXCEPT ![n] = l]
      /\ recorded' = recorded \cup {n}
      /\ streamingEvents' = streamingEvents + 1
      /\ UNCHANGED <<alogic, hasStarted, hasFinished, currentSegmentNumber, current_segment,
                     consumeEvent, last_consumed_segment_number, requested, written>>
  BY Zenon DEF SegmentReceived, AddToBuffer, SetPlayerLevel
<1>2. /\ l \in Levels /\ n \in Segments /\ n \in Numbers
      /\ \A i \in DOMAIN buffer[l] : buffer[l][i] < n
  BY <1>1, Constants DEF RequestInv
<1>3. /\ buffer \in [Levels -> Seq(Segments)] /\ 0 \in Levels
      /\ Segments \subseteq Nat
  BY Constants DEF TypeOK
<1> HIDE DEF n, l
<1>4. TypeOK'
  <2>1. buffer' \in [Levels -> Seq(Segments)]
    BY <1>1, <1>2, <1>3
  <2>2. levelHistory' \in [Numbers -> Levels \cup {NoLevel}]
    BY <1>1, <1>2 DEF TypeOK
  <2>3. /\ levels' \in SUBSET Levels /\ recorded' \in SUBSET Numbers
        /\ streamingEvents' \in Nat
    BY <1>1, <1>2 DEF TypeOK
  <2> QED  BY <1>1, <2>1, <2>2, <2>3, Zenon DEF TypeOK
<1>5. StartInv'
  BY <1>1, OwedWhenStarted, Zenon DEF StartInv
<1>6. OneStreamingChain'
  BY <1>1 DEF OneStreamingChain, Streaming, TypeOK
<1>7. RequestInv' /\ ConsumedInv'
  BY <1>1 DEF RequestInv, ConsumedInv
<1>8. BufferOrdered'
  <2> SUFFICES ASSUME NEW k \in Levels, NEW i \in DOMAIN buffer'[k], NEW j \in DOMAIN buffer'[k],
                      i < j
               PROVE  buffer'[k][i] < buffer'[k][j]
    BY DEF BufferOrdered
  <2>1. \A x, y \in DOMAIN buffer[k] : x < y => buffer[k][x] < buffer[k][y]
    BY DEF BufferOrdered
  <2>2. CASE k = l
    <3> DEFINE s == buffer[l]
    <3>1. buffer'[k] = Append(s, n) /\ s \in Seq(Segments)
      BY <1>1, <1>2, <1>3, <2>2
    <3>2. \A x, y \in DOMAIN s : x < y => s[x] < s[y]
      BY <2>1, <2>2
    <3>3. \A x \in DOMAIN s : s[x] < n
      BY <1>2
    <3>4. i \in DOMAIN Append(s, n) /\ j \in DOMAIN Append(s, n)
      BY <3>1
    <3> HIDE DEF s
    <3> QED  BY <3>1, <3>2, <3>3, <3>4
  <2>3. CASE k # l
    BY <1>1, <1>2, <1>3, <2>1, <2>3
  <2> QED  BY <2>2, <2>3
<1>9. BaseWithoutGap'
  <2>1. BaseLayer' = BaseLayer
    <3>1. BaseLayer' = buffer'[0]
      BY <1>1 DEF BaseLayer
    <3> QED  BY <1>1, <1>2, <1>3, <3>1 DEF BaseLayer, l, n
  <2> QED  BY <1>1, <2>1 DEF BaseWithoutGap, Streaming
<1> QED  BY <1>4, <1>5, <1>6, <1>7, <1>8, <1>9

LEMMA NackReceivedInv ==
    ASSUME IInv, NackReceived  PROVE IInv'
<1> USE DEF IInv
<1>1. /\ outstanding /\ outstanding' = FALSE /\ current_segment.level > 0
      /\ streamingEvents' = streamingEvents + 1
      /\ UNCHANGED <<alogic, hasStarted, hasFinished, currentSegmentNumber, current_segment,
                     consumeEvent, buffer, levels, last_consumed_segment_number,
                     levelHistory, recorded, requested, written>>
  BY DEF NackReceived, bufferVars, historyVars
<1>2. TypeOK'
  <2>1. streamingEvents' \in Nat
    BY <1>1 DEF TypeOK
  <2> QED  BY <1>1, <2>1, Zenon DEF TypeOK
<1>3. StartInv'
  BY <1>1, OwedWhenStarted, Zenon DEF StartInv
<1>4. OneStreamingChain'
  BY <1>1 DEF OneStreamingChain, Streaming, TypeOK
<1>5. RequestInv' /\ ConsumedInv' /\ BufferOrdered'
  BY <1>1 DEF RequestInv, ConsumedInv, BufferOrdered
<1>6. BaseWithoutGap'
  <2>1. current_segment.level # 0
    BY <1>1
  <2>2. BaseLayer' = BaseLayer
    BY <1>1, <2>1 DEF BaseLayer
  <2> QED  BY <1>1, <2>2 DEF BaseWithoutGap, Streaming
<1> QED  BY <1>2, <1>3, <1>4, <1>5, <1>6

LEMMA StutterInv ==
    ASSUME IInv, UNCHANGED vars  PROVE IInv'
BY Zenon DEF IInv, TypeOK, StartInv, Unused, OneStreamingChain, RequestInv, BufferOrdered,
             ConsumedInv, BaseWithoutGap, BaseLayer, Streaming, vars, requestVars, eventVars,
             bufferVars, historyVars
-----------------------------------------------------------------------------
\* The invariant the results below are parts of: typing, what a Player that has
\* not asked for anything looks like, and what it has asked for.
THEOREM Invariance == Spec => []IInv
<1>1. ASSUME IInv, [Next]_vars  PROVE IInv'
  BY <1>1, PlayInv, StopInv, StreamingInv, ConsumeInv, SegmentReceivedInv, NackReceivedInv,
     StutterInv, Zenon DEF Next
<1> QED  BY InitInv, <1>1, PTL DEF Spec

\* No update of the histories, the buffer or the numbers leaves its type: no
\* segment past the end of the period is asked for, and none is recorded but
\* the one that follows the last when the playback stops.
THEOREM TypeCorrect == Spec => []TypeOK
<1>1. IInv => TypeOK
  BY DEF IInv
<1> QED  BY Invariance, <1>1, PTL

\* Streaming neither dies nor doubles, for every video and both logics.
THEOREM StreamingChain == Spec => []OneStreamingChain
<1>1. IInv => OneStreamingChain
  BY DEF IInv
<1> QED  BY Invariance, <1>1, PTL

\* LastSegmentNumber may take the last element for the highest.
THEOREM BufferStaysOrdered == Spec => []BufferOrdered
<1>1. IInv => BufferOrdered
  BY DEF IInv
<1> QED  BY Invariance, <1>1, PTL

\* The base layer is buffered from the playback on without a gap: none of its
\* segments is left out, fetched twice or kept.
THEOREM BaseStaysWithoutGap == Spec => []BaseWithoutGap
<1>1. IInv => BaseWithoutGap
  BY DEF IInv
<1> QED  BY Invariance, <1>1, PTL
-----------------------------------------------------------------------------
(* How far the levels above the base layer may run ahead of it.             *)

\* The base layer holds what comes after the segment consumed last.
Contiguous(buf, consumed) == \A i \in DOMAIN buf[0] : buf[0][i] = consumed + i

\* LayeredAdaptationLogic has a highest level in use.
LEMMA CurrentIsLevel ==
    ASSUME NEW buf \in Buffers
    PROVE  /\ CurrentLevel(buf) \in Levels
           /\ \A l \in Levels : l > CurrentLevel(buf) => BufferSize(buf, l) = 0
<1> DEFINE used == {l \in Levels : l = 0 \/ BufferSize(buf, l) > 0}
<1>1. IsFiniteSet(used)
  <2>1. MaxLevel \in Int /\ 0 \in Int
    BY LogicConstantsOK
  <2> QED  BY <2>1, FS_Interval, FS_Subset DEF Levels
<1>2. used \subseteq Nat /\ used # {}
  BY Constants
<1>3. PICK top \in used : \A l \in used : l <= top
  <2>1. used \in SUBSET Int
    BY <1>2
  <2> HIDE DEF used
  <2> QED  BY <1>1, <1>2, <2>1, FiniteMax
<1>4. \A l \in Levels : BufferSize(buf, l) \in Nat
  BY DEF BufferSize, Buffers
<1>5. \A l \in Levels : l > top => BufferSize(buf, l) = 0
  BY <1>3, <1>4, Constants
<1>6. top \in Levels /\ (top = 0 \/ BufferSize(buf, top) > 0)
  BY <1>3
<1> QED  BY <1>5, <1>6 DEF CurrentLevel

\* A base layer that wants no more is as large as it should be, or reaches to
\* the end of the period.
LEMMA BaseSatisfied ==
    ASSUME NEW buf \in Buffers, NEW consumed \in Segments \cup {-1}, NEW t \in Nat,
           Contiguous(buf, consumed), 0 \notin Wanting(buf, consumed, t)
    PROVE  \/ consumed + Len(buf[0]) + 1 >= NumberOfSegments
           \/ Len(buf[0]) >= BUFFER_MIN_SIZE + t * BUFFER_ALPHA
<1>1. 0 \in Levels /\ 0 <= CurrentLevel(buf) /\ CurrentLevel(buf) \in Nat
  <2>1. CurrentLevel(buf) \in Levels
    BY CurrentIsLevel
  <2>2. Levels \subseteq Nat /\ 0 \in Levels
    BY Constants
  <2> QED  BY <2>1, <2>2 DEF Levels
<1>2. \/ ~HasNext("LayerdSieber", buf, consumed, 0)
      \/ ~(BufferSize(buf, 0) < desired_buffer_size(0, t))
  BY <1>1 DEF Wanting
<1>3. buf[0] \in Seq(Segments) /\ consumed \in Int /\ Segments \subseteq Nat
  BY <1>1, Constants DEF Buffers
<1>4. getNextNeededSegmentNumber("LayerdSieber", buf, consumed, 0) = consumed + Len(buf[0]) + 1
  <2>1. CASE buf[0] = <<>>
    BY <1>1, <1>3, <2>1, NextNeeded DEF Logics
  <2>2. CASE buf[0] # <<>>
    <3>1. getNextNeededSegmentNumber("LayerdSieber", buf, consumed, 0) = buf[0][Len(buf[0])] + 1
      BY <1>1, <2>2, NextNeeded DEF Logics
    <3>2. Len(buf[0]) \in DOMAIN buf[0]
      BY <1>3, <2>2
    <3> QED  BY <1>3, <3>1, <3>2 DEF Contiguous
  <2> QED  BY <2>1, <2>2
<1>5. desired_buffer_size(0, t) = BUFFER_MIN_SIZE + t * BUFFER_ALPHA
  BY Constants DEF desired_buffer_size
<1>6. Len(buf[0]) \in Nat
  BY <1>3
<1>7. BUFFER_MIN_SIZE + t * BUFFER_ALPHA \in Int
  BY Constants
<1> DEFINE size == BUFFER_MIN_SIZE + t * BUFFER_ALPHA
<1> HIDE DEF size
<1>8. CASE ~HasNext("LayerdSieber", buf, consumed, 0)
  BY <1>3, <1>4, <1>6, <1>8, Constants DEF HasNext
<1>9. CASE ~(BufferSize(buf, 0) < size)
  BY <1>6, <1>7, <1>9 DEF BufferSize, size
<1> QED  BY <1>2, <1>5, <1>8, <1>9 DEF size

\* The lowest level of a set is an enhancement layer only if the set is without
\* the base layer.
LEMMA LowestAboveBase ==
    ASSUME NEW S \in SUBSET Levels, S # {}, Lowest(S) # 0
    PROVE  0 \notin S
<1>1. SUFFICES ASSUME 0 \in S  PROVE FALSE
  OBVIOUS
<1>2. Lowest(S) \in S /\ Lowest(S) <= 0
  BY <1>1, LowestIsLeast
<1>3. Lowest(S) \in Nat
  BY <1>2, Constants
<1> QED  BY <1>2, <1>3

\* What makes LayeredAdaptationLogic ask for an enhancement layer: for some
\* size it strives for, the base layer has it, and this layer has not.
LEMMA LayeredAsks ==
    ASSUME NEW buf \in Buffers, NEW consumed \in Segments \cup {-1}, NEW l \in Levels, l > 0,
           NextOfLayered(buf, consumed).level = l
    PROVE  /\ NextOfLayered(buf, consumed) = Request("LayerdSieber", buf, consumed, l)
           /\ HasNext("LayerdSieber", buf, consumed, l)
           /\ \E t \in Nat :
                 /\ 0 \notin Wanting(buf, consumed, t)
                 /\ BufferSize(buf, l) = 0 \/ BufferSize(buf, l) < desired_buffer_size(l, t)
<1> DEFINE top == CurrentLevel(buf)
           steady == Wanting(buf, consumed, top)
           growing == Wanting(buf, consumed, top + 2)
           segment == NextOfLayered(buf, consumed)
<1>1. segment = IF steady # {} THEN Request("LayerdSieber", buf, consumed, Lowest(steady))
                ELSE IF growing # {} THEN Request("LayerdSieber", buf, consumed, Lowest(growing))
                ELSE IF top + 1 \in Levels /\ HasNext("LayerdSieber", buf, consumed, top + 1)
                     THEN Request("LayerdSieber", buf, consumed, top + 1)
                ELSE Idle
  BY Zenon DEF NextOfLayered
<1>2. \A k : Request("LayerdSieber", buf, consumed, k).level = k
  BY DEF Request
<1>3. top \in Levels /\ top \in Nat /\ top + 2 \in Nat
  BY CurrentIsLevel DEF Levels
<1>4. l # -1 /\ Idle.level = -1 /\ l # 0
  BY Constants DEF Idle
<1>5. ASSUME NEW t \in Nat, Wanting(buf, consumed, t) # {}, l = Lowest(Wanting(buf, consumed, t))
      PROVE  /\ HasNext("LayerdSieber", buf, consumed, l)
             /\ 0 \notin Wanting(buf, consumed, t)
             /\ BufferSize(buf, l) < desired_buffer_size(l, t)
  <2>1. Wanting(buf, consumed, t) \in SUBSET Levels
    BY Zenon DEF Wanting
  <2>2. l \in Wanting(buf, consumed, t) /\ 0 \notin Wanting(buf, consumed, t)
    BY <1>4, <1>5, <2>1, LowestIsLeast, LowestAboveBase
  <2> QED  BY <2>2, Zenon DEF Wanting
<1>6. CASE steady # {}
  <2>1. segment = Request("LayerdSieber", buf, consumed, l) /\ l = Lowest(steady)
    BY <1>1, <1>2, <1>6, Zenon
  <2> QED  BY <1>3, <1>5, <1>6, <2>1
<1>7. CASE steady = {} /\ growing # {}
  <2>1. segment = Request("LayerdSieber", buf, consumed, l) /\ l = Lowest(growing)
    BY <1>1, <1>2, <1>7, Zenon
  <2> QED  BY <1>3, <1>5, <1>7, <2>1
<1>8. CASE steady = {} /\ growing = {}
  <2>1. /\ l = top + 1 /\ segment = Request("LayerdSieber", buf, consumed, l)
        /\ HasNext("LayerdSieber", buf, consumed, l)
    BY <1>1, <1>2, <1>4, <1>8, Zenon
  <2>2. BufferSize(buf, l) = 0
    <3>1. l > top
      BY <1>3, <2>1
    <3> QED  BY <3>1, CurrentIsLevel
  <2> QED  BY <1>3, <1>8, <2>1, <2>2
<1> QED  BY <1>6, <1>7, <1>8

\* So an enhancement layer that has nothing yet starts within the base layer,
\* and one that goes on stays within it if the sizes grow by enough from one
\* level to the next.
LEMMA LayeredWithinBase ==
    ASSUME NEW buf \in Buffers, NEW consumed \in Segments \cup {-1}, NEW l \in Levels, l > 0,
           NextOfLayered(buf, consumed).level = l, Contiguous(buf, consumed)
    PROVE  LET n == NextOfLayered(buf, consumed).number IN
           /\ n \in Nat /\ n = getNextNeededSegmentNumber("LayerdSieber", buf, consumed, l)
           /\ buf[l] = <<>> => n <= consumed + Len(buf[0])
           /\ BUFFER_MIN_SIZE <= BUFFER_ALPHA + 1 /\ n <= consumed + BUFFER_MIN_SIZE + Len(buf[l])
                => n <= consumed + Len(buf[0])
<1> DEFINE n == NextOfLayered(buf, consumed).number
           base == Len(buf[0])
           size == Len(buf[l])
<1>1. n = getNextNeededSegmentNumber("LayerdSieber", buf, consumed, l) /\ n < NumberOfSegments
  BY LayeredAsks DEF Request, HasNext
<1>2. n \in Nat
  BY <1>1, NextNeeded DEF Logics
<1>3. base \in Nat /\ size \in Nat /\ consumed \in Int /\ l \in Nat /\ 0 \in Levels
  BY Constants DEF Buffers
<1>4. buf[l] = <<>> => n = consumed + BUFFER_MIN_SIZE
  BY <1>1 DEF getNextNeededSegmentNumber, BufferSize, OFFSET
<1>5. PICK t \in Nat :
          /\ 0 \notin Wanting(buf, consumed, t)
          /\ size = 0 \/ size < BUFFER_MIN_SIZE + (t - l) * BUFFER_ALPHA
  BY LayeredAsks DEF BufferSize, desired_buffer_size
<1>6. consumed + base + 1 >= NumberOfSegments \/ base >= BUFFER_MIN_SIZE + t * BUFFER_ALPHA
  BY <1>5, BaseSatisfied
<1>7. size = 0 => buf[l] = <<>>
  BY DEF Buffers
<1> HIDE DEF n, base, size
<1>8. CASE consumed + base + 1 >= NumberOfSegments
  <2>1. n < NumberOfSegments
    BY <1>1 DEF n
  <2>2. n <= consumed + base
    BY <1>2, <1>3, <1>8, <2>1, Constants
  <2> QED  BY <1>1, <1>2, <2>2 DEF n, base, size
<1>9. CASE base >= BUFFER_MIN_SIZE + t * BUFFER_ALPHA
  <2> DEFINE a == t * BUFFER_ALPHA
             b == l * BUFFER_ALPHA
  <2>1. a \in Nat /\ b \in Nat /\ b >= BUFFER_ALPHA
    <3>1. l >= 1 /\ BUFFER_ALPHA \in Nat
      BY <1>3, Constants
    <3>2. b = BUFFER_ALPHA + (l - 1) * BUFFER_ALPHA /\ (l - 1) * BUFFER_ALPHA \in Nat
      BY <1>3, <3>1
    <3> QED  BY <1>3, <3>1, <3>2, Constants
  <2>2. (t - l) * BUFFER_ALPHA = a - b
    BY <1>3, Constants
  <2> HIDE DEF a, b
  <2>3. base >= BUFFER_MIN_SIZE + a /\ (size = 0 \/ size < BUFFER_MIN_SIZE + (a - b))
    BY <1>5, <1>9, <2>2 DEF a
  <2>4. buf[l] = <<>> => n <= consumed + base
    BY <1>3, <1>4, <2>1, <2>3, Constants
  <2>5. ASSUME BUFFER_MIN_SIZE <= BUFFER_ALPHA + 1, n <= consumed + BUFFER_MIN_SIZE + size
        PROVE  n <= consumed + base
    <3>1. CASE size = 0
      BY <1>7, <2>4, <3>1
    <3>2. CASE size # 0
      BY <1>2, <1>3, <2>1, <2>3, <2>5, <3>2, Constants
    <3> QED  BY <3>1, <3>2
  <2> QED  BY <1>1, <1>2, <2>4, <2>5 DEF n, base, size
<1> QED  BY <1>6, <1>8, <1>9

\* SimpleBufferLogic fills the base layer before it asks for another.
LEMMA SimpleWithinBase ==
    ASSUME NEW buf \in Buffers, NEW consumed \in Segments \cup {-1}, NEW l \in Levels, l > 0,
           NextOfSimple(buf, consumed).level = l
    PROVE  LET n == NextOfSimple(buf, consumed).number IN
           /\ n = getNextNeededSegmentNumber("SimpleBuffer", buf, consumed, l)
           /\ buf[l] = <<>> => n <= consumed + Len(buf[0])
<1> DEFINE open == {k \in Levels : BufferSize(buf, k) < DESIRED_BUFFER_SIZE}
           segment == NextOfSimple(buf, consumed)
<1>1. segment = IF open # {} /\ HasNext("SimpleBuffer", buf, consumed, Lowest(open))
                THEN Request("SimpleBuffer", buf, consumed, Lowest(open)) ELSE Idle
  BY Zenon DEF NextOfSimple
<1>2. \A k : Request("SimpleBuffer", buf, consumed, k).level = k
  BY DEF Request
<1>3. l # -1 /\ Idle.level = -1 /\ l # 0
  BY Constants DEF Idle
<1>4. open # {} /\ l = Lowest(open) /\ segment = Request("SimpleBuffer", buf, consumed, l)
  <2> HIDE DEF open
  <2> QED  BY <1>1, <1>2, <1>3, Zenon
<1>5. open \in SUBSET Levels
  OBVIOUS
<1>6. 0 \notin open
  <2> HIDE DEF open
  <2> QED  BY <1>3, <1>4, <1>5, LowestAboveBase
<1>7. Len(buf[0]) \in Nat /\ Len(buf[0]) >= DESIRED_BUFFER_SIZE /\ consumed \in Int
  BY <1>6, Constants DEF BufferSize, Buffers
<1>8. segment.number = getNextNeededSegmentNumber("SimpleBuffer", buf, consumed, l)
  BY <1>4 DEF Request
<1>9. ASSUME buf[l] = <<>>  PROVE segment.number <= consumed + Len(buf[0])
  <2>1. segment.number = consumed + DESIRED_BUFFER_SIZE \div 3
    BY <1>3, <1>8, <1>9 DEF getNextNeededSegmentNumber, BufferSize, OFFSET
  <2>2. DESIRED_BUFFER_SIZE \div 3 <= DESIRED_BUFFER_SIZE /\ DESIRED_BUFFER_SIZE \div 3 \in Nat
    BY Constants
  <2> QED  BY <1>7, <2>1, <2>2, Constants
<1> QED  BY <1>8, <1>9

\* What is asked for comes right after what its level holds, or does not reach
\* past the base layer.
LEMMA RequestFollows ==
    ASSUME NEW logic \in Logics, NEW buf \in Buffers, NEW consumed \in Segments \cup {-1},
           Contiguous(buf, consumed), getNextSegments(logic, buf, consumed) # Idle
    PROVE  LET segment == getNextSegments(logic, buf, consumed)
               l == segment.level
           IN  /\ l \in Levels /\ segment.number \in Segments
               /\ \/ segment.number <= consumed + Len(buf[0]) + 1
                  \/ buf[l] # <<>> /\ segment.number = buf[l][Len(buf[l])] + 1
<1> DEFINE segment == getNextSegments(logic, buf, consumed)
<1>1. PICK l \in Levels :
          /\ segment = Request(logic, buf, consumed, l)
          /\ getNextNeededSegmentNumber(logic, buf, consumed, l) \in Segments
  BY NextSegment
<1>2. /\ segment.level = l /\ segment.number \in Segments
      /\ segment.number = getNextNeededSegmentNumber(logic, buf, consumed, l)
  BY <1>1 DEF Request
<1>3. buf[l] \in Seq(Segments) /\ consumed \in Int /\ Segments \subseteq Nat /\ Levels \subseteq Nat
  BY Constants DEF Buffers
<1> HIDE DEF segment
<1>4. CASE buf[l] # <<>>
  BY <1>2, <1>4, NextNeeded DEF segment
<1>5. CASE buf[l] = <<>> /\ l = 0
  <2>1. segment.number = consumed + 1
    BY <1>2, <1>5, NextNeeded DEF segment
  <2> QED  BY <1>2, <1>3, <1>5, <2>1 DEF segment
<1>6. CASE buf[l] = <<>> /\ l # 0
  <2>1. l > 0 /\ segment.number \in Nat
    <3>1. l \in Nat /\ segment.number \in Nat
      BY <1>2, <1>3, Zenon
    <3> QED  BY <1>6, <3>1
  <2>2. segment.number <= consumed + Len(buf[0])
    <3>1. CASE logic = "LayerdSieber"
      BY <1>2, <1>6, <2>1, <3>1, LayeredWithinBase DEF segment, getNextSegments
    <3>2. CASE logic = "SimpleBuffer"
      BY <1>2, <1>6, <2>1, <3>2, SimpleWithinBase DEF segment, getNextSegments
    <3> QED  BY <3>1, <3>2 DEF Logics
  <2> QED  BY <1>2, <1>3, <2>1, <2>2 DEF segment
<1> QED  BY <1>4, <1>5, <1>6
-----------------------------------------------------------------------------
(* The histories.  What is on record is a stretch of video that begins with *)
(* the first segment, and so is what may come to be recorded next.          *)

Filled(set) == \A n \in set : 0 .. n \subseteq set

RecordInv ==
    /\ \A n \in Numbers : n \in recorded <=> levelHistory[n] # NoLevel
    /\ recorded \subseteq requested /\ Filled(recorded)
    /\ \A l \in Levels : \A i \in DOMAIN buffer[l] : buffer[l][i] \in recorded
    /\ outstanding => /\ current_segment.number \in requested
                      /\ 0 .. current_segment.number - 1 \subseteq recorded
    /\ 0 .. currentSegmentNumber - 1 \subseteq recorded

\* A new segment on record fills the stretch up to it.
LEMMA FilledGrows ==
    ASSUME NEW S \in SUBSET Nat, Filled(S), NEW n \in Nat, 0 .. n - 1 \subseteq S
    PROVE  Filled(S \cup {n})
BY DEF Filled

\* WriteToFile finds every key it looks for in a stretch without a gap.
LEMMA FilledIsReadable ==
    ASSUME NEW S \in SUBSET Numbers, Filled(S)
    PROVE  0 .. Cardinality(S) - 1 \subseteq S
<1>1. IsFiniteSet(Numbers)
  <2>1. NumberOfSegments \in Int /\ 0 \in Int
    BY Constants
  <2> QED  BY <2>1, FS_Interval DEF Numbers
<1>2. IsFiniteSet(S) /\ Cardinality(S) \in Nat
  BY <1>1, FS_Subset, FS_CardinalityType
<1> SUFFICES ASSUME NEW m \in 0 .. Cardinality(S) - 1, m \notin S  PROVE FALSE
  OBVIOUS
<1>3. S \subseteq 0 .. m - 1
  <2> SUFFICES ASSUME NEW n \in S, ~(n < m)  PROVE FALSE
    BY <1>2, Constants DEF Numbers
  <2>1. m \in 0 .. n
    BY <1>2, Constants DEF Numbers
  <2> QED  BY <2>1 DEF Filled
<1>4. IsFiniteSet(0 .. m - 1) /\ Cardinality(0 .. m - 1) = m
  <2>1. m \in Nat /\ m - 1 \in Int
    BY <1>2
  <2>2. IsFiniteSet(0 .. m - 1) /\ Cardinality(0 .. m - 1) = IF 0 > m - 1 THEN 0 ELSE (m - 1) - 0 + 1
    BY <2>1, FS_Interval
  <2> QED  BY <2>1, <2>2
<1>5. Cardinality(S) <= m
  BY <1>3, <1>4, FS_Subset
<1> QED  BY <1>2, <1>5

\* While it streams, the base layer begins after the segment consumed last.
LEMMA BaseIsContiguous ==
    ASSUME IInv, Streaming
    PROVE  Contiguous(buffer, last_consumed_segment_number)
<1> USE DEF IInv
<1>1. CASE currentSegmentNumber = -1
  <2>1. buffer[0] = <<>>
    BY <1>1, Constants DEF Streaming, StartInv, Unused
  <2>2. DOMAIN buffer[0] = {}
    BY <2>1
  <2> QED  BY <2>2 DEF Contiguous
<1>2. CASE currentSegmentNumber # -1
  <2>1. last_consumed_segment_number = currentSegmentNumber - 1 /\ currentSegmentNumber \in Int
    BY <1>2, Constants DEF Streaming, ConsumedInv, TypeOK
  <2>2. \A i \in DOMAIN BaseLayer : BaseLayer[i] = currentSegmentNumber + i - 1
    BY <1>2 DEF BaseWithoutGap
  <2>3. buffer[0] \in Seq(Segments)
    BY Constants DEF TypeOK
  <2>4. \A i \in DOMAIN buffer[0] : buffer[0][i] = currentSegmentNumber + i - 1
    <3>1. CASE BaseLayer = buffer[0]
      BY <2>2, <3>1
    <3>2. CASE BaseLayer = Append(buffer[0], current_segment.number)
      BY <2>2, <2>3, <3>2
    <3> QED  BY <3>1, <3>2 DEF BaseLayer
  <2>5. ASSUME NEW i \in DOMAIN buffer[0]
        PROVE  buffer[0][i] = last_consumed_segment_number + i
    <3>1. i \in Nat /\ buffer[0][i] = currentSegmentNumber + i - 1
      BY <2>3, <2>4
    <3> QED  BY <2>1, <3>1
  <2> QED  BY <2>5 DEF Contiguous
<1> QED  BY <1>1, <1>2

LEMMA StreamingRecords ==
    ASSUME IInv, RecordInv, streaming
    PROVE  RecordInv'
<1> DEFINE segment == getNextSegments(alogic, buffer, last_consumed_segment_number)
           consumed == last_consumed_segment_number
<1>0. UNCHANGED <<buffer, last_consumed_segment_number, levelHistory, recorded>>
  BY DEF streaming, bufferVars
<1>1. CASE UNCHANGED <<currentSegmentNumber, requestVars, requested>>
  BY <1>0, <1>1 DEF RecordInv, requestVars
<1>2. CASE /\ Streaming /\ segment # Idle
           /\ current_segment' = segment /\ outstanding' = TRUE
           /\ currentSegmentNumber' =
                IF currentSegmentNumber = -1 THEN segment.number ELSE currentSegmentNumber
           /\ requested' = requested \cup {segment.number}
  <2>1. /\ alogic \in Logics /\ buffer \in Buffers /\ consumed \in Segments \cup {-1}
        /\ recorded \in SUBSET Nat
    BY Constants DEF IInv, TypeOK, Buffers
  <2>2. Contiguous(buffer, consumed)
    BY <1>2, BaseIsContiguous
  <2>3. /\ segment.level \in Levels /\ segment.number \in Segments
        /\ \/ segment.number <= consumed + Len(buffer[0]) + 1
           \/ /\ buffer[segment.level] # <<>>
              /\ segment.number = buffer[segment.level][Len(buffer[segment.level])] + 1
    BY <1>2, <2>1, <2>2, RequestFollows
  <2>4. 0 .. consumed \subseteq recorded
    <3>1. CASE currentSegmentNumber = -1
      <4>1. consumed = -1
        BY <1>2, <3>1 DEF Streaming, IInv, StartInv, Unused
      <4> QED  BY <4>1
    <3>2. CASE currentSegmentNumber # -1
      BY <1>2, <3>2 DEF Streaming, IInv, ConsumedInv, RecordInv
    <3> QED  BY <3>1, <3>2
  <2> HIDE DEF segment, consumed
  <2>5. 0 .. segment.number - 1 \subseteq recorded
    <3> SUFFICES ASSUME NEW m \in 0 .. segment.number - 1  PROVE m \in recorded
      OBVIOUS
    <3>0. /\ segment.number \in Nat /\ consumed \in Int /\ consumed >= -1 /\ m \in Nat
          /\ m < segment.number /\ 0 \in Levels /\ buffer[0] \in Seq(Segments)
      <4>1. Segments \subseteq Nat /\ 0 \in Levels
        BY Constants
      <4>2. segment.number \in Nat
        BY <2>3, <4>1, Zenon
      <4>3. consumed = -1 \/ consumed \in Nat
        BY <2>1, <4>1, Zenon
      <4> QED  BY <2>1, <4>1, <4>2, <4>3 DEF Buffers
    <3>1. CASE segment.number <= consumed + Len(buffer[0]) + 1
      <4>1. CASE m <= consumed
        BY <2>4, <3>0, <4>1
      <4>2. CASE m > consumed
        <5>1. m - consumed \in DOMAIN buffer[0]
          BY <3>0, <3>1, <4>2
        <5>2. buffer[0][m - consumed] = consumed + (m - consumed)
          BY <2>2, <5>1 DEF Contiguous
        <5> QED  BY <3>0, <5>1, <5>2 DEF RecordInv
      <4> QED  BY <3>0, <4>1, <4>2
    <3>2. CASE /\ buffer[segment.level] # <<>>
               /\ segment.number = buffer[segment.level][Len(buffer[segment.level])] + 1
      <4> DEFINE s == buffer[segment.level]
                 last == s[Len(s)]
      <4>1. s \in Seq(Segments) /\ Len(s) \in DOMAIN s
        BY <2>1, <2>3, <3>2 DEF Buffers
      <4>2. last \in recorded
        BY <2>3, <4>1 DEF RecordInv
      <4>3. last \in Nat /\ segment.number = last + 1
        BY <2>1, <3>2, <4>2
      <4> HIDE DEF last
      <4> QED  BY <3>0, <4>2, <4>3 DEF RecordInv, Filled
    <3> QED  BY <2>3, <3>1, <3>2
  <2>6. 0 .. currentSegmentNumber' - 1 \subseteq recorded
    BY <1>2, <2>5 DEF RecordInv
  <2>7. current_segment'.number = segment.number /\ segment.number \in requested'
    BY <1>2
  <2> QED  BY <1>0, <1>2, <2>5, <2>6, <2>7 DEF RecordInv
<1> QED  BY <1>1, <1>2, Zenon DEF streaming, SetRequestedPlayerLevel

\* stop puts one segment more on record, the one to be played next.
LEMMA StoppingRecords ==
    ASSUME TypeOK, RecordInv, NEW n \in Numbers \cup {-1},
           NEW h \in [Numbers -> Levels \cup {NoLevel}],
           \A k \in Numbers : k \in recorded <=> h[k] # NoLevel,
           0 .. n - 1 \subseteq recorded,
           Stopping(n, h), n = -1 => h = levelHistory
    PROVE  /\ \A k \in Numbers : k \in recorded' <=> levelHistory'[k] # NoLevel
           /\ recorded \subseteq recorded' /\ requested \subseteq requested'
           /\ recorded' \subseteq requested' /\ Filled(recorded')
<1>1. CASE n = -1
  BY <1>1 DEF Stopping, RecordInv
<1>2. CASE n # -1
  <2>1. n \in Numbers /\ n \in Nat /\ 0 \in Levels /\ 0 # NoLevel
    BY <1>2, Constants DEF NoLevel
  <2>2. /\ levelHistory' = SetPlayerLevel(SetConsumedPlayerLevel(h, n, 0), n, 0)
        /\ recorded' = recorded \cup {n} /\ requested' = requested \cup {n}
    BY <1>2 DEF Stopping, SetRequestedPlayerLevel
  <2>3. \A k \in Numbers : levelHistory'[k] = IF k = n THEN 0 ELSE h[k]
    BY <2>1, <2>2 DEF SetPlayerLevel, SetConsumedPlayerLevel
  <2>4. \A k \in Numbers : k \in recorded' <=> levelHistory'[k] # NoLevel
    BY <2>1, <2>2, <2>3
  <2>5. recorded \in SUBSET Nat
    BY Constants DEF TypeOK
  <2>6. Filled(recorded')
    BY <2>1, <2>2, <2>5, FilledGrows DEF RecordInv
  <2> QED  BY <2>2, <2>4, <2>6 DEF RecordInv
<1> QED  BY <1>1, <1>2

LEMMA StopRecords ==
    ASSUME IInv, RecordInv, stop
    PROVE  RecordInv'
<1>1. TypeOK /\ UNCHANGED <<buffer, current_segment, outstanding, currentSegmentNumber>>
  BY DEF IInv, stop, requestVars, bufferVars
<1>2. /\ currentSegmentNumber \in Numbers \cup {-1}
      /\ levelHistory \in [Numbers -> Levels \cup {NoLevel}]
      /\ Stopping(currentSegmentNumber, levelHistory)
  BY <1>1 DEF TypeOK, stop
<1>3. /\ \A k \in Numbers : k \in recorded <=> levelHistory[k] # NoLevel
      /\ 0 .. currentSegmentNumber - 1 \subseteq recorded
  BY DEF RecordInv
<1>4. /\ \A k \in Numbers : k \in recorded' <=> levelHistory'[k] # NoLevel
      /\ recorded \subseteq recorded' /\ requested \subseteq requested'
      /\ recorded' \subseteq requested' /\ Filled(recorded')
  BY <1>1, <1>2, <1>3, StoppingRecords
<1>5. /\ \A l \in Levels : \A i \in DOMAIN buffer'[l] : buffer'[l][i] \in recorded'
      /\ outstanding' => /\ current_segment'.number \in requested'
                         /\ 0 .. current_segment'.number - 1 \subseteq recorded'
      /\ 0 .. currentSegmentNumber' - 1 \subseteq recorded'
  BY <1>1, <1>4 DEF RecordInv
<1> QED  BY <1>4, <1>5 DEF RecordInv

\* Erasing brings nothing into a level.
LEMMA ConsumeKeepsElements ==
    ASSUME NEW buf \in Buffers, NEW n, NEW l \in Levels,
           NEW i \in DOMAIN ConsumeFromBuffer(buf, n, l)
    PROVE  \E j \in DOMAIN buf[l] : buf[l][j] = ConsumeFromBuffer(buf, n, l)[i]
<1> DEFINE s == buf[l]
           t == ConsumeFromBuffer(buf, n, l)
<1>1. s \in Seq(Segments)
  BY DEF Buffers
<1> HIDE DEF s, t
<1>2. CASE t = s
  BY <1>2 DEF s, t
<1>3. CASE \E k \in 1 .. Len(s) : t = RemoveAt(s, k)
  <2>1. PICK k \in 1 .. Len(s) : t = RemoveAt(s, k)
    BY <1>3
  <2>2. /\ t \in Seq(Segments) /\ Len(t) = Len(s) - 1
        /\ \A j \in 1 .. Len(s) - 1 : t[j] = IF j < k THEN s[j] ELSE s[j + 1]
    BY <1>1, <2>1, RemoveAtElements
  <2>3. i \in 1 .. Len(s) - 1 /\ Len(s) \in Nat
    BY <1>1, <2>2 DEF t
  <2>4. i \in DOMAIN s /\ i + 1 \in DOMAIN s
    BY <1>1, <2>3
  <2>5. t[i] = s[i] \/ t[i] = s[i + 1]
    BY <2>2, <2>3
  <2> QED  BY <2>4, <2>5 DEF s, t
<1> QED  BY <1>2, <1>3, ConsumeErases DEF s, t

LEMMA ConsumeRecords ==
    ASSUME IInv, RecordInv, consume
    PROVE  RecordInv'
<1> DEFINE n == currentSegmentNumber
           top == PlayableLevel(n)
           history == SetConsumedPlayerLevel(levelHistory, n, top)
<1>1. /\ IsInBuffer(buffer, n, 0)
      /\ buffer' = [l \in Levels |-> IF l <= top THEN ConsumeFromBuffer(buffer, n, l)
                                     ELSE buffer[l]]
      /\ currentSegmentNumber' = n + 1 /\ UNCHANGED <<current_segment, outstanding>>
  BY DEF consume, requestVars
<1>2. \/ Stopping(n + 1, history)
      \/ levelHistory' = history /\ UNCHANGED <<recorded, requested>>
  BY Zenon DEF consume
<1>3. TypeOK /\ buffer \in Buffers /\ 0 \in Levels /\ levels \in SUBSET Levels
  BY Constants DEF IInv, TypeOK, Buffers
<1>4. n \in recorded /\ n \in Segments /\ n \in Nat
  <2>1. PICK i \in 1 .. Len(buffer[0]) : buffer[0][i] = n
    BY <1>1 DEF IsInBuffer, Contains
  <2>2. buffer[0] \in Seq(Segments)
    BY <1>3 DEF Buffers
  <2>3. n \in recorded /\ n \in Segments
    BY <1>3, <2>1, <2>2 DEF RecordInv
  <2> QED  BY <2>3, Constants
<1>5. n \in Numbers /\ n + 1 \in Numbers /\ n + 1 # -1
  BY <1>4, Constants DEF Segments, Numbers
<1>6. top \in Levels /\ top # NoLevel
  BY <1>3, PlayableIsLevel, Constants DEF NoLevel
<1>7. /\ history \in [Numbers -> Levels \cup {NoLevel}]
      /\ \A k \in Numbers : k \in recorded <=> history[k] # NoLevel
  <2> HIDE DEF top
  <2>1. levelHistory \in [Numbers -> Levels \cup {NoLevel}]
    BY <1>3 DEF TypeOK
  <2>2. \A k \in Numbers : k \in recorded <=> levelHistory[k] # NoLevel
    BY DEF RecordInv
  <2>3. history = levelHistory \/ history = [levelHistory EXCEPT ![n] = top]
    BY DEF SetConsumedPlayerLevel
  <2> HIDE DEF history, n
  <2> QED  BY <1>4, <1>5, <1>6, <2>1, <2>2, <2>3
<1>8. 0 .. (n + 1) - 1 \subseteq recorded
  <2>1. 0 .. n \subseteq recorded
    BY <1>4 DEF RecordInv, Filled
  <2>2. (n + 1) - 1 = n
    BY <1>4
  <2> QED  BY <2>1, <2>2
<1> HIDE DEF top, history
<1>9. /\ \A k \in Numbers : k \in recorded' <=> levelHistory'[k] # NoLevel
      /\ recorded \subseteq recorded' /\ requested \subseteq requested'
      /\ recorded' \subseteq requested' /\ Filled(recorded')
  <2>1. CASE Stopping(n + 1, history)
    <3>1. n + 1 \in Numbers \cup {-1}
      BY <1>5
    <3> QED  BY <1>3, <1>5, <1>7, <1>8, <2>1, <3>1, StoppingRecords
  <2>2. CASE levelHistory' = history /\ UNCHANGED <<recorded, requested>>
    BY <1>7, <2>2 DEF RecordInv
  <2> QED  BY <1>2, <2>1, <2>2
<1>10. ASSUME NEW l \in Levels, NEW i \in DOMAIN buffer'[l]  PROVE buffer'[l][i] \in recorded
  <2>1. CASE l <= top
    <3>1. buffer'[l] = ConsumeFromBuffer(buffer, n, l)
      BY <1>1, <2>1
    <3>2. PICK j \in DOMAIN buffer[l] : buffer[l][j] = buffer'[l][i]
      BY <1>3, <1>10, <3>1, ConsumeKeepsElements
    <3> QED  BY <3>2 DEF RecordInv
  <2>2. CASE ~(l <= top)
    BY <1>1, <1>10, <2>2 DEF RecordInv
  <2> QED  BY <2>1, <2>2
<1>11. /\ \A l \in Levels : \A i \in DOMAIN buffer'[l] : buffer'[l][i] \in recorded'
       /\ outstanding' => /\ current_segment'.number \in requested'
                          /\ 0 .. current_segment'.number - 1 \subseteq recorded'
  BY <1>1, <1>9, <1>10 DEF RecordInv
<1>12. 0 .. currentSegmentNumber' - 1 \subseteq recorded'
  BY <1>1, <1>8, <1>9
<1> QED  BY <1>9, <1>11, <1>12 DEF RecordInv

LEMMA SegmentReceivedRecords ==
    ASSUME IInv, RecordInv, SegmentReceived
    PROVE  RecordInv'
<1> DEFINE n == current_segment.number
           l == current_segment.level
<1>1. /\ outstanding /\ outstanding' = FALSE
      /\ buffer' = [buffer EXCEPT ![l] = Append(@, n)]
      /\ levelHistory' = [levelHistory EXCEPT ![n] = l]
      /\ recorded' = recorded \cup {n}
      /\ UNCHANGED <<currentSegmentNumber, requested>>
  BY Zenon DEF SegmentReceived, AddToBuffer, SetPlayerLevel
<1>2. /\ l \in Levels /\ n \in Numbers /\ n \in Nat /\ l # NoLevel
      /\ n \in requested /\ 0 .. n - 1 \subseteq recorded
  BY <1>1, Constants DEF IInv, RequestInv, RecordInv, NoLevel
<1>3. /\ buffer \in Buffers /\ recorded \in SUBSET Nat
      /\ levelHistory \in [Numbers -> Levels \cup {NoLevel}]
  BY Constants DEF IInv, TypeOK, Buffers
<1> HIDE DEF n, l
<1>4. Filled(recorded')
  BY <1>1, <1>2, <1>3, FilledGrows DEF RecordInv
<1>5. \A k \in Numbers : k \in recorded' <=> levelHistory'[k] # NoLevel
  BY <1>1, <1>2, <1>3 DEF RecordInv
<1>6. ASSUME NEW k \in Levels, NEW i \in DOMAIN buffer'[k]  PROVE buffer'[k][i] \in recorded'
  <2>1. CASE k = l
    <3>1. buffer'[k] = Append(buffer[k], n) /\ buffer[k] \in Seq(Segments)
      BY <1>1, <1>3, <2>1 DEF Buffers
    <3>2. (i \in DOMAIN buffer[k] /\ buffer'[k][i] = buffer[k][i]) \/ buffer'[k][i] = n
      BY <1>6, <3>1
    <3> QED  BY <1>1, <3>2 DEF RecordInv
  <2>2. CASE k # l
    BY <1>1, <1>3, <1>6, <2>2 DEF RecordInv, Buffers
  <2> QED  BY <2>1, <2>2
<1> QED  BY <1>1, <1>2, <1>4, <1>5, <1>6 DEF RecordInv

LEMMA InitRecords == Init => RecordInv
BY DEF Init, RecordInv, Filled

LEMMA NextRecords ==
    ASSUME IInv, RecordInv, [Next]_vars
    PROVE  RecordInv'
<1>1. CASE play
  <2>1. /\ currentSegmentNumber' = -1
        /\ UNCHANGED <<requestVars, buffer, levelHistory, recorded, requested>>
    BY <1>1 DEF play, bufferVars, historyVars
  <2> QED  BY <2>1 DEF RecordInv, requestVars
<1>2. CASE NackReceived
  <2>1. /\ outstanding' = FALSE
        /\ UNCHANGED <<currentSegmentNumber, buffer, levelHistory, recorded, requested>>
    BY <1>2 DEF NackReceived, bufferVars, historyVars
  <2> QED  BY <2>1 DEF RecordInv
<1>3. CASE UNCHANGED vars
  BY <1>3 DEF vars, RecordInv, requestVars, bufferVars, historyVars
<1> QED
  BY <1>1, <1>2, <1>3, StopRecords, StreamingRecords, ConsumeRecords, SegmentReceivedRecords,
     Zenon DEF Next

\* What is on record is at any time a stretch from the first segment on.
THEOREM RecordsInvariance == Spec => []RecordInv
<1>1. IInv /\ RecordInv /\ [Next]_vars => RecordInv'
  BY NextRecords
<1> QED  BY InitRecords, <1>1, Invariance, PTL DEF Spec

\* WriteToFile never reads a key that is missing, whenever the player stops.
THEOREM ReportStaysReadable == Spec => []ReportReadable
<1>1. IInv /\ RecordInv => ReportReadable
  <2> SUFFICES ASSUME IInv, RecordInv  PROVE ReportReadable
    OBVIOUS
  <2>1. recorded \in SUBSET Numbers /\ Recorded = recorded
    BY DEF IInv, TypeOK, RecordInv, Recorded
  <2>2. 0 .. Cardinality(recorded) - 1 \subseteq recorded
    BY <2>1, FilledIsReadable DEF RecordInv
  <2> QED  BY <2>1, <2>2 DEF ReportReadable, CanWriteToFile, RecordInv
<1> QED  BY <1>1, Invariance, RecordsInvariance, PTL
-----------------------------------------------------------------------------
(* The enhancement layers of LayeredAdaptationLogic.                         *)

\* A level is as far ahead of the playback as it has segments, but for the
\* distance it started at.
AheadInv ==
    alogic = "LayerdSieber" =>
        /\ \A l \in Levels \ {0} : \A i \in DOMAIN buffer[l] :
              buffer[l][i] <= last_consumed_segment_number + BUFFER_MIN_SIZE + Len(buffer[l]) - 1
        /\ outstanding /\ current_segment.level > 0 =>
              current_segment.number <= last_consumed_segment_number + BUFFER_MIN_SIZE
                                          + Len(buffer[current_segment.level])

\* The base layer reaches to what is asked for.
FollowInv ==
    alogic = "LayerdSieber" /\ Streaming /\ outstanding /\ current_segment.level > 0 =>
        current_segment.number <= last_consumed_segment_number + Len(buffer[0])

\* The sizes LayeredAdaptationLogic strives for grow from one level to the next
\* by what a level starts ahead of the playback (both are 3 in the code).
SizesGrow == BUFFER_MIN_SIZE <= BUFFER_ALPHA + 1

EnhanceInv == AheadInv /\ FollowInv

LEMMA Naturals ==
    /\ \A n \in Segments : n \in Nat
    /\ \A l \in Levels : l \in Nat
    /\ BUFFER_MIN_SIZE \in Nat
BY Constants

LEMMA StreamingEnhances ==
    ASSUME SizesGrow, IInv, EnhanceInv, streaming
    PROVE  EnhanceInv'
<1> DEFINE segment == getNextSegments(alogic, buffer, last_consumed_segment_number)
           consumed == last_consumed_segment_number
           l == segment.level
           n == segment.number
<1>0. UNCHANGED <<alogic, hasStarted, hasFinished, buffer, last_consumed_segment_number>>
  BY DEF streaming, bufferVars
<1>1. CASE UNCHANGED requestVars
  BY <1>0, <1>1 DEF EnhanceInv, AheadInv, FollowInv, Streaming, requestVars
<1>2. CASE Streaming /\ segment # Idle /\ current_segment' = segment
  <2> SUFFICES ASSUME alogic = "LayerdSieber", l > 0
               PROVE  n <= consumed + BUFFER_MIN_SIZE + Len(buffer[l]) /\ n <= consumed + Len(buffer[0])
    BY <1>0, <1>2 DEF EnhanceInv, AheadInv, FollowInv
  <2>1. /\ alogic \in Logics /\ buffer \in Buffers /\ consumed \in Segments \cup {-1}
        /\ Contiguous(buffer, consumed)
    BY <1>2, BaseIsContiguous DEF IInv, TypeOK, Buffers
  <2>2. l \in Levels
    BY <1>2, <2>1, RequestFollows
  <2>3. segment = NextOfLayered(buffer, consumed)
    BY DEF getNextSegments
  <2>4. /\ n \in Nat /\ n = getNextNeededSegmentNumber("LayerdSieber", buffer, consumed, l)
        /\ SizesGrow /\ n <= consumed + BUFFER_MIN_SIZE + Len(buffer[l])
             => n <= consumed + Len(buffer[0])
    BY <2>1, <2>2, <2>3, LayeredWithinBase DEF SizesGrow
  <2> HIDE DEF segment, consumed
  <2>5. n <= consumed + BUFFER_MIN_SIZE + Len(buffer[l])
    <3>1. buffer[l] \in Seq(Segments) /\ consumed \in Int /\ l # 0 /\ BUFFER_MIN_SIZE \in Nat
      <4>1. Segments \subseteq Nat /\ BUFFER_MIN_SIZE \in Nat
        BY Constants
      <4> QED  BY <2>1, <2>2, <4>1 DEF Buffers
    <3>2. CASE buffer[l] = <<>>
      <4>1. n = consumed + BUFFER_MIN_SIZE /\ Len(buffer[l]) = 0
        BY <2>4, <3>1, <3>2 DEF getNextNeededSegmentNumber, BufferSize, OFFSET
      <4> QED  BY <3>1, <4>1
    <3>3. CASE buffer[l] # <<>>
      <4> DEFINE last == buffer[l][Len(buffer[l])]
      <4>1. n = last + 1
        BY <2>1, <2>2, <2>4, <3>3, NextNeeded
      <4>2. Len(buffer[l]) \in DOMAIN buffer[l] /\ Len(buffer[l]) \in Nat /\ last \in Nat
        <5>1. Len(buffer[l]) \in DOMAIN buffer[l] /\ Len(buffer[l]) \in Nat /\ last \in Segments
          BY <3>1, <3>3
        <5> QED  BY <5>1, Naturals
      <4>3. last <= consumed + BUFFER_MIN_SIZE + Len(buffer[l]) - 1
        BY <2>2, <3>1, <4>2 DEF EnhanceInv, AheadInv, consumed
      <4> DEFINE size == Len(buffer[l])
      <4> HIDE DEF last, n, size
      <4>4. size \in Nat /\ last <= consumed + BUFFER_MIN_SIZE + size - 1
        BY <4>2, <4>3 DEF size
      <4>5. n <= consumed + BUFFER_MIN_SIZE + size
        BY <3>1, <4>1, <4>2, <4>4
      <4> QED  BY <4>5 DEF size, n
    <3> QED  BY <3>2, <3>3
  <2> QED  BY <2>4, <2>5
<1> QED  BY <1>1, <1>2, Zenon DEF streaming, requestVars

\* Each level loses one segment at most when one is played.
LEMMA ConsumeLength ==
    ASSUME NEW buf \in Buffers, NEW n, NEW l \in Levels
    PROVE  Len(ConsumeFromBuffer(buf, n, l)) >= Len(buf[l]) - 1
<1>1. buf[l] \in Seq(Segments)
  BY DEF Buffers
<1>2. \A i \in 1 .. Len(buf[l]) : Len(RemoveAt(buf[l], i)) = Len(buf[l]) - 1
  BY <1>1, RemoveAtElements
<1> QED  BY <1>1, <1>2, ConsumeErases

LEMMA ConsumeEnhances ==
    ASSUME IInv, EnhanceInv, consume
    PROVE  EnhanceInv'
<1> DEFINE n == currentSegmentNumber
           top == PlayableLevel(n)
           consumed == last_consumed_segment_number
<1>1. /\ IsInBuffer(buffer, n, 0) /\ Streaming /\ n # -1
      /\ buffer' = [l \in Levels |-> IF l <= top THEN ConsumeFromBuffer(buffer, n, l)
                                     ELSE buffer[l]]
      /\ last_consumed_segment_number' = n
      /\ UNCHANGED <<alogic, current_segment, outstanding>>
  BY DEF consume, Consuming, requestVars
<1>2. /\ buffer \in Buffers /\ buffer[0] \in Seq(Segments) /\ consumed \in Int /\ n \in Int
      /\ 0 \in Levels /\ levels \in SUBSET Levels /\ BUFFER_MIN_SIZE \in Nat
  <2>1. Segments \subseteq Nat /\ Numbers \subseteq Nat /\ 0 \in Levels /\ BUFFER_MIN_SIZE \in Nat
    BY Constants
  <2> QED  BY <2>1 DEF IInv, TypeOK, Buffers
<1>3. n = consumed + 1 /\ consumed \in Int /\ BUFFER_MIN_SIZE \in Nat
  BY <1>1, <1>2 DEF IInv, ConsumedInv, Streaming
<1>4. top \in Nat
  BY <1>2, PlayableIsLevel, Constants
<1> HIDE DEF top
<1>5. ASSUME NEW l \in Levels
      PROVE  /\ Len(buffer'[l]) \in Nat /\ Len(buffer[l]) \in Nat
             /\ Len(buffer'[l]) >= Len(buffer[l]) - 1
             /\ \A i \in DOMAIN buffer'[l] : \E j \in DOMAIN buffer[l] : buffer[l][j] = buffer'[l][i]
  <2>1. buffer[l] \in Seq(Segments) /\ ConsumeFromBuffer(buffer, n, l) \in Seq(Segments)
    BY <1>2, ConsumeKeepsOrder DEF Buffers
  <2>2. CASE l <= top
    <3>1. buffer'[l] = ConsumeFromBuffer(buffer, n, l)
      BY <1>1, <2>2
    <3> QED  BY <1>2, <2>1, <3>1, ConsumeLength, ConsumeKeepsElements
  <2>3. CASE ~(l <= top)
    <3>1. buffer'[l] = buffer[l]
      BY <1>1, <2>3
    <3> QED  BY <2>1, <3>1
  <2> QED  BY <2>2, <2>3
<1>6. Len(buffer'[0]) = Len(buffer[0]) - 1
  <2>1. buffer'[0] = ConsumeFromBuffer(buffer, n, 0)
    BY <1>1, <1>2, <1>4
  <2>2. PICK i \in 1 .. Len(buffer[0]) : ConsumeFromBuffer(buffer, n, 0) = RemoveAt(buffer[0], i)
    BY <1>1, <1>2, ConsumeErases
  <2> QED  BY <1>2, <2>1, <2>2, RemoveAtElements
<1>7. AheadInv'
  <2> SUFFICES ASSUME alogic = "LayerdSieber"
               PROVE  /\ \A l \in Levels \ {0} : \A i \in DOMAIN buffer'[l] :
                            buffer'[l][i] <= n + BUFFER_MIN_SIZE + Len(buffer'[l]) - 1
                      /\ outstanding /\ current_segment.level > 0 =>
                            current_segment.number <= n + BUFFER_MIN_SIZE
                                                        + Len(buffer'[current_segment.level])
    BY <1>1 DEF AheadInv
  <2>1. ASSUME NEW l \in Levels \ {0}, NEW i \in DOMAIN buffer'[l]
        PROVE  buffer'[l][i] <= n + BUFFER_MIN_SIZE + Len(buffer'[l]) - 1
    <3>1. PICK j \in DOMAIN buffer[l] : buffer[l][j] = buffer'[l][i]
      BY <1>5, <2>1
    <3>2. buffer[l][j] <= consumed + BUFFER_MIN_SIZE + Len(buffer[l]) - 1
      BY <2>1 DEF EnhanceInv, AheadInv
    <3>3. buffer[l][j] \in Int
      <4>1. buffer[l] \in Seq(Segments)
        BY <1>2 DEF Buffers
      <4>2. buffer[l][j] \in Segments
        BY <4>1
      <4> QED  BY <4>2, Naturals
    <3> DEFINE a == Len(buffer[l])
               b == Len(buffer'[l])
               x == buffer[l][j]
    <3>4. a \in Nat /\ b \in Nat /\ b >= a - 1
      BY <1>5
    <3> HIDE DEF a, b, x
    <3>5. x \in Int /\ x <= consumed + BUFFER_MIN_SIZE + a - 1
      BY <3>2, <3>3 DEF x, a
    <3>6. x <= n + BUFFER_MIN_SIZE + b - 1
      BY <1>3, <3>4, <3>5
    <3> QED  BY <3>1, <3>6 DEF x, b
  <2>2. ASSUME outstanding, current_segment.level > 0
        PROVE  current_segment.number <= n + BUFFER_MIN_SIZE + Len(buffer'[current_segment.level])
    <3> DEFINE m == current_segment.number
               l == current_segment.level
    <3>1. l \in Levels /\ m \in Int
      <4>1. l \in Levels /\ m \in Segments
        BY <2>2 DEF IInv, RequestInv
      <4> QED  BY <4>1, Naturals
    <3>2. m <= consumed + BUFFER_MIN_SIZE + Len(buffer[l])
      BY <2>2 DEF EnhanceInv, AheadInv
    <3> DEFINE a == Len(buffer[l])
               b == Len(buffer'[l])
    <3>3. a \in Nat /\ b \in Nat /\ b >= a - 1
      BY <1>5, <3>1
    <3> HIDE DEF m, a, b
    <3>4. m <= consumed + BUFFER_MIN_SIZE + a
      BY <3>2 DEF a
    <3>5. m <= n + BUFFER_MIN_SIZE + b
      BY <1>3, <3>1, <3>3, <3>4
    <3> QED  BY <3>5 DEF m, b
  <2> QED  BY <2>1, <2>2
<1>8. FollowInv'
  <2> SUFFICES ASSUME alogic = "LayerdSieber", outstanding, current_segment.level > 0
               PROVE  current_segment.number <= n + Len(buffer'[0])
    BY <1>1 DEF FollowInv
  <2>1. current_segment.number <= consumed + Len(buffer[0])
    BY <1>1 DEF EnhanceInv, FollowInv
  <2>2. n + Len(buffer'[0]) = consumed + Len(buffer[0])
    <3> DEFINE a == Len(buffer[0])
    <3>1. a \in Nat
      BY <1>2
    <3> HIDE DEF a
    <3>2. Len(buffer'[0]) = a - 1
      BY <1>6 DEF a
    <3>3. n + Len(buffer'[0]) = consumed + a
      BY <1>3, <3>1, <3>2
    <3> QED  BY <3>3 DEF a
  <2> QED  BY <2>1, <2>2
<1> QED  BY <1>7, <1>8 DEF EnhanceInv

LEMMA SegmentReceivedEnhances ==
    ASSUME IInv, EnhanceInv, SegmentReceived
    PROVE  EnhanceInv'
<1> DEFINE n == current_segment.number
           l == current_segment.level
           consumed == last_consumed_segment_number
<1>1. /\ outstanding /\ outstanding' = FALSE
      /\ buffer' = [buffer EXCEPT ![l] = Append(@, n)]
      /\ UNCHANGED <<alogic, last_consumed_segment_number>>
  BY DEF SegmentReceived, AddToBuffer
<1>2. l \in Levels /\ l \in Nat /\ n \in Nat
  <2>1. l \in Levels /\ n \in Segments
    BY <1>1 DEF IInv, RequestInv
  <2> QED  BY <2>1, Naturals
<1>3. buffer \in Buffers /\ consumed \in Int /\ BUFFER_MIN_SIZE \in Nat
  <2>1. Segments \subseteq Nat /\ BUFFER_MIN_SIZE \in Nat
    BY Constants
  <2> QED  BY <2>1 DEF IInv, TypeOK, Buffers
<1>4. SUFFICES ASSUME alogic = "LayerdSieber", NEW k \in Levels \ {0}, NEW i \in DOMAIN buffer'[k]
               PROVE  buffer'[k][i] <= consumed + BUFFER_MIN_SIZE + Len(buffer'[k]) - 1
  BY <1>1 DEF EnhanceInv, AheadInv, FollowInv
<1>5. \A j \in DOMAIN buffer[k] : buffer[k][j] <= consumed + BUFFER_MIN_SIZE + Len(buffer[k]) - 1
  BY <1>4 DEF EnhanceInv, AheadInv
<1>6. CASE k = l
  <2>1. l > 0
    BY <1>2, <1>4, <1>6
  <2>2. n <= consumed + BUFFER_MIN_SIZE + Len(buffer[l])
    BY <1>1, <1>4, <2>1 DEF EnhanceInv, AheadInv
  <2> DEFINE s == buffer[k]
  <2>3. s \in Seq(Segments) /\ buffer'[k] = Append(s, n)
    BY <1>1, <1>2, <1>3, <1>6 DEF Buffers
  <2> HIDE DEF n
  <2>4. /\ Len(buffer'[k]) = Len(s) + 1 /\ Len(s) \in Nat
        /\ (i \in DOMAIN s /\ buffer'[k][i] = s[i] /\ s[i] \in Nat) \/ buffer'[k][i] = n
    <3>1. \A j \in DOMAIN s : s[j] \in Segments
      BY <2>3
    <3> HIDE DEF s
    <3>2. /\ Len(buffer'[k]) = Len(s) + 1 /\ Len(s) \in Nat
          /\ (i \in DOMAIN s /\ buffer'[k][i] = s[i]) \/ buffer'[k][i] = n
      BY <1>2, <1>4, <2>3
    <3> QED  BY <3>1, <3>2, Naturals
  <2>5. CASE i \in DOMAIN s /\ buffer'[k][i] = s[i] /\ s[i] \in Nat
    <3>1. s[i] <= consumed + BUFFER_MIN_SIZE + Len(s) - 1
      BY <1>5, <2>5
    <3> HIDE DEF consumed, s
    <3>2. s[i] <= consumed + BUFFER_MIN_SIZE + (Len(s) + 1) - 1
      BY <1>3, <2>4, <2>5, <3>1
    <3> QED  BY <2>4, <2>5, <3>2
  <2>6. CASE buffer'[k][i] = n
    <3> HIDE DEF consumed, s
    <3>1. n <= consumed + BUFFER_MIN_SIZE + Len(s) /\ n \in Nat
      BY <1>2, <1>6, <2>2 DEF n, s
    <3> QED  BY <1>3, <2>4, <2>6, <3>1
  <2> QED  BY <2>4, <2>5, <2>6
<1>7. CASE k # l
  BY <1>1, <1>3, <1>4, <1>5, <1>7 DEF Buffers
<1> QED  BY <1>6, <1>7

LEMMA InitEnhances == Init => EnhanceInv
BY DEF Init, EnhanceInv, AheadInv, FollowInv

LEMMA NextEnhances ==
    ASSUME SizesGrow, IInv, EnhanceInv, [Next]_vars
    PROVE  EnhanceInv'
<1>1. CASE play
  <2>1. UNCHANGED <<alogic, requestVars, buffer, last_consumed_segment_number>> /\ ~outstanding
    BY <1>1 DEF play, bufferVars, IInv, StartInv, Unused
  <2> QED  BY <2>1 DEF EnhanceInv, AheadInv, FollowInv, requestVars
<1>2. CASE stop
  <2>1. /\ UNCHANGED <<alogic, requestVars, buffer, last_consumed_segment_number>>
        /\ ~Streaming'
    BY <1>2 DEF stop, Stopping, bufferVars, Streaming
  <2> QED  BY <2>1 DEF EnhanceInv, AheadInv, FollowInv, requestVars
<1>3. CASE NackReceived
  <2>1. outstanding' = FALSE /\ UNCHANGED <<alogic, buffer, last_consumed_segment_number>>
    BY <1>3 DEF NackReceived, bufferVars
  <2> QED  BY <2>1 DEF EnhanceInv, AheadInv, FollowInv
<1>4. CASE UNCHANGED vars
  BY <1>4 DEF vars, EnhanceInv, AheadInv, FollowInv, Streaming, requestVars, bufferVars
<1> QED
  BY <1>1, <1>2, <1>3, <1>4, StreamingEnhances, ConsumeEnhances, SegmentReceivedEnhances, Zenon
  DEF Next

\* If the sizes grow, no enhancement layer is asked for whose base layer is
\* neither there nor played: LayeredAdaptationLogic never runs ahead of it.
THEOREM EnhancementsStayBehind ==
    ASSUME SizesGrow
    PROVE  Spec => []EnhancementsFollowBase
<1>1. Init => EnhanceInv
  BY InitEnhances
<1>2. IInv /\ EnhanceInv /\ [Next]_vars => EnhanceInv'
  BY NextEnhances
<1>3. IInv /\ EnhanceInv => EnhancementsFollowBase
  <2> SUFFICES ASSUME IInv, EnhanceInv, alogic = "LayerdSieber", Streaming, outstanding,
                      current_segment.level > 0, ~(current_segment.number < currentSegmentNumber)
               PROVE  IsInBuffer(buffer, current_segment.number, 0)
    BY DEF EnhancementsFollowBase
  <2> DEFINE n == current_segment.number
             consumed == last_consumed_segment_number
  <2>1. n <= consumed + Len(buffer[0]) /\ Contiguous(buffer, consumed)
    BY BaseIsContiguous DEF EnhanceInv, FollowInv
  <2>2. currentSegmentNumber = consumed + 1 /\ consumed \in Int /\ n \in Nat
    <3>1. n \in Segments /\ n \in Nat /\ Numbers \subseteq Nat
      BY Constants, Naturals DEF IInv, RequestInv
    <3>2. currentSegmentNumber # -1
      BY OwedWhenStarted DEF Streaming
    <3>3. consumed = currentSegmentNumber - 1 /\ currentSegmentNumber \in Int
      BY <3>1, <3>2 DEF Streaming, IInv, ConsumedInv, TypeOK
    <3> QED  BY <3>1, <3>3
  <2>3. buffer[0] \in Seq(Segments)
    BY Constants DEF IInv, TypeOK
  <2> HIDE DEF n, consumed
  <2>4. n - consumed \in DOMAIN buffer[0]
    <3>1. ~(n < currentSegmentNumber)
      BY DEF n
    <3> QED  BY <2>1, <2>2, <2>3, <3>1
  <2>5. buffer[0][n - consumed] = consumed + (n - consumed)
    BY <2>1, <2>4 DEF Contiguous
  <2>6. buffer[0][n - consumed] = n
    BY <2>2, <2>5
  <2> QED  BY <2>3, <2>4, <2>6 DEF IsInBuffer, Contains, n
<1> QED  BY <1>1, <1>2, <1>3, Invariance, PTL DEF Spec
=============================================================================
