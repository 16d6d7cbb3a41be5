------------------------- MODULE SegmentPlayerProofs -------------------------
(***************************************************************************)
(* Proofs about the SVC and the DASH player: that one segment at a time is *)
(* asked for, that the seconds of the segments add up, and that what the   *)
(* extractor has asked for and what it got stay aligned.                   *)
(***************************************************************************)
EXTENDS SegmentPlayer, DataLemmas

\* An entry of the extractor's histories: the highest level of a segment.
Entry == [number : Nat, level : Levels]

\* What getNextSegments may put into the download queue.
Asked == [number : Nat, levels : (SUBSET Levels) \ {{}}]

TypeOK ==
    /\ kind \in Kinds /\ player \in {"none", "playing", "done", "deleted"}
    /\ allSegmentsDownloaded \in BOOLEAN
    /\ current_segments \in Asked \cup {None}
    /\ currentSegmentNr \in 0 .. NumberOfSegments
    /\ highestRequestedHistory \in Seq(Entry) /\ highestReceivedHistory \in Seq(Entry)
    /\ avg_dl_rates \in [Slots -> Nat] /\ index \in 0 .. SEGMENT_HISTORY
    /\ cur_size \in Nat /\ consumed \in Nat
    /\ retries \in Nat
    /\ batch \in SUBSET Levels /\ finished \in SUBSET Levels
    /\ requested \in SUBSET Nat /\ recorded \in SUBSET Nat

\* Segments that have been received.
Past == IF current_segments = None THEN currentSegmentNr ELSE currentSegmentNr - 1

\* The records and the seconds are those of the segments received, and what is
\* under way will fit into the buffer.
SecondsInv ==
    /\ recorded = 0 .. Past - 1 /\ recorded \subseteq requested
    /\ cur_size + consumed = Duration * Past
    /\ current_segments # None => current_segments.number = Past
    /\ batch # Idle => Past \in requested /\ cur_size + Duration < MaxSize

\* What is under way is of the current segment; a layered one has its base layer.
BatchInv ==
    /\ player = "none" => current_segments = None /\ ~allSegmentsDownloaded
    /\ kind = "svc" /\ current_segments # None => 0 \in current_segments.levels
    /\ batch # Idle =>
        /\ batch \cup finished \subseteq current_segments.levels
        /\ kind = "svc" => 0 \in batch \cup finished

\* What was asked for last is what was not received yet.
HistoryInv ==
    /\ HistoriesAligned
    /\ kind # "svc" => highestRequestedHistory = <<>> /\ highestReceivedHistory = <<>>
    /\ kind = "svc" =>
        LET n == Len(highestRequestedHistory) IN
        /\ Len(highestReceivedHistory) = IF current_segments = None THEN n ELSE n - 1
        /\ current_segments # None =>
              n > 0 /\ highestRequestedHistory[n] =
                          [number |-> current_segments.number, level |-> Max(current_segments.levels)]

IInv == TypeOK /\ SecondsInv /\ OneRequestAtATime /\ BatchInv /\ HistoryInv
-----------------------------------------------------------------------------
(* What the logics choose.                                                  *)

LEMMA LevelsFinite ==
    /\ 0 \in Levels /\ Levels \subseteq Nat /\ IsFiniteSet(Levels)
    /\ \A l \in Levels : 0 .. l \subseteq Levels
    /\ \A l \in Levels : Bandwidth[l] \in Nat
<1>1. IsFiniteSet(Levels) /\ Levels = 0 .. Cardinality(Levels) - 1 /\ 0 \in Levels
  BY RepresentationAssumption
<1>2. Cardinality(Levels) \in Nat
  BY <1>1, FS_CardinalityType
<1> DEFINE n == Cardinality(Levels)
<1> HIDE DEF n
<1>3. n \in Nat /\ Levels = 0 .. n - 1
  BY <1>1, <1>2 DEF n
<1>4. \A l \in Levels : 0 .. l \subseteq Levels
  BY <1>3
<1> QED  BY <1>1, <1>3, <1>4, RepresentationAssumption

\* A nonempty set of levels has a highest one.
LEMMA HighestLevel ==
    ASSUME NEW S \in SUBSET Levels, S # {}
    PROVE  Max(S) \in S /\ \A l \in S : l <= Max(S)
<1>1. Levels \subseteq Nat /\ IsFiniteSet(S)
  BY LevelsFinite, FS_Subset
<1>2. S \in SUBSET Int
  BY <1>1
<1> QED  BY <1>1, <1>2, FiniteMax

LEMMA LowestIsLevel == getLowestRepresentation \in Levels
<1> DEFINE B == {Bandwidth[l] : l \in Levels}
           Low(m) == {l \in Levels : Bandwidth[l] = m}
<1>1. B \in SUBSET Nat /\ B # {}
  BY LevelsFinite
<1>2. \E m \in B : \A b \in B : m <= b
  <2> HIDE DEF B
  <2> QED  BY <1>1, LeastNatural
<1>3. PICK m \in B : \A b \in B : m <= b
  BY <1>2
<1>4. Low(m) \in SUBSET Nat /\ Low(m) # {}
  BY <1>3, LevelsFinite
<1>5. \E l \in Low(m) : \A k \in Low(m) : l <= k
  <2> HIDE DEF Low
  <2> QED  BY <1>4, LeastNatural
<1>6. PICK l \in Low(m) : \A k \in Low(m) : l <= k
  BY <1>5
<1>7. \A k \in Levels : Bandwidth[l] < Bandwidth[k] \/ (Bandwidth[l] = Bandwidth[k] /\ l <= k)
  <2>1. ASSUME NEW k \in Levels
        PROVE  Bandwidth[l] < Bandwidth[k] \/ (Bandwidth[l] = Bandwidth[k] /\ l <= k)
    <3>1. m <= Bandwidth[k] /\ Bandwidth[l] = m /\ m \in Nat /\ Bandwidth[k] \in Nat
      BY <1>3, LevelsFinite
    <3>2. Bandwidth[k] = m => l <= k
      BY <1>6
    <3> QED  BY <3>1, <3>2
  <2> QED  BY <2>1
<1> QED  BY <1>7 DEF getLowestRepresentation

LEMMA OptimalIsLevel ==
    ASSUME NEW rates, NEW cur
    PROVE  getOptimalRepresentation(rates, cur) \in Levels
<1> DEFINE A == {l \in Levels : Bandwidth[l] <= getAvgDLS(rates, cur)
                                  /\ Bandwidth[l] > Bandwidth[getLowestRepresentation]}
           B == {Bandwidth[l] : l \in A}
<1>1. CASE A = {}
  BY <1>1, LowestIsLevel DEF getOptimalRepresentation
<1>2. CASE A # {}
  <2>1. IsFiniteSet(A)
    BY LevelsFinite, FS_Subset
  <2>2. IsFiniteSet(B)
    <3> HIDE DEF A
    <3> QED  BY <2>1, FiniteImage
  <2>3. B \in SUBSET Int /\ B # {}
    <3>1. \A l \in A : Bandwidth[l] \in Int
      BY LevelsFinite
    <3> HIDE DEF A
    <3> QED  BY <1>2, <3>1
  <2>4. Max(B) \in B /\ \A b \in B : b <= Max(B)
    <3> HIDE DEF B
    <3> QED  BY <2>2, <2>3, FiniteMax
  <2>5. \E l \in A : \A k \in A : Bandwidth[k] <= Bandwidth[l]
    BY <2>4
  <2>6. (CHOOSE l \in A : \A k \in A : Bandwidth[k] <= Bandwidth[l]) \in A
    <3> HIDE DEF A
    <3> QED  BY <2>5
  <2> QED  BY <1>2, <2>6 DEF getOptimalRepresentation
<1> QED  BY <1>1, <1>2

\* A request of the DASH player is of some level.
LEMMA DashAsksSome == DashLevels \in (SUBSET Levels) \ {{}}
<1> DEFINE rep == IF kind = "RateBased" THEN getOptimalRepresentation(avg_dl_rates', cur_size')
                  ELSE getLowestRepresentation
<1>1. rep \in Levels
  BY LowestIsLevel, OptimalIsLevel
<1>2. DashLevels = StackOf(rep)
  BY DEF DashLevels
<1> HIDE DEF rep
<1>3. rep \in Nat /\ 0 .. rep \subseteq Levels /\ 0 \in 0 .. rep
  BY <1>1, LevelsFinite
<1> QED  BY <1>1, <1>2, <1>3 DEF StackOf

LEMMA SumOfLevelsIsSum ==
    ASSUME NEW history, NEW I
    PROVE  SumOfLevels(history, I) = SumOf([i \in I |-> history[i].level], I)
<1> DEFINE f == [i \in I |-> history[i].level]
           step(g) == [s \in SUBSET I |-> IF s = {} THEN 0
                           ELSE history[Member(s)].level + g[s \ {Member(s)}]]
<1>1. \A g : StepOf(f, I, g) = step(g)
  BY MemberIsOne DEF StepOf
<1>2. SumOfLevels(history, I) = (CHOOSE g : g = step(g))[I]
  BY DEF SumOfLevels, MapThenSumSet, MapThenFoldSet, Member
<1>3. SumOf(f, I) = (CHOOSE g : g = StepOf(f, I, g))[I]
  BY SumIsFold
<1>4. (CHOOSE g : g = StepOf(f, I, g)) = (CHOOSE g : g = step(g))
  BY <1>1
<1> QED  BY <1>2, <1>3, <1>4

LEMMA SumOfLevelsType ==
    ASSUME NEW history \in Seq(Entry), NEW I \in SUBSET DOMAIN history, IsFiniteSet(I)
    PROVE  SumOfLevels(history, I) \in Nat
<1> DEFINE f == [i \in I |-> history[i].level]
<1>1. \A i \in I : f[i] \in Nat
  <2>1. \A i \in I : history[i] \in Entry
    OBVIOUS
  <2>2. \A e \in Entry : e.level \in Nat
    BY LevelsFinite DEF Entry
  <2> QED  BY <2>1, <2>2
<1>2. SumOf(f, I) \in Nat
  <2> HIDE DEF f
  <2> QED  BY <1>1, SumOfNaturals
<1> QED  BY <1>2, SumOfLevelsIsSum

\* The extractor always asks for the base layer.
LEMMA HistoryAllowsBase ==
    ASSUME NEW req, NEW rec \in Seq(Entry), NEW cur
    PROVE  considerHistory(req, rec, cur) \in Nat
<1> DEFINE size == Min({Len(rec), CONSIDERD_HISTORY_SIZE})
           sum == SumOfLevels(rec, Considered(rec))
<1>1. Len(rec) \in Nat /\ CONSIDERD_HISTORY_SIZE \in Nat
  BY RepresentationAssumption
<1>2. size \in Nat
  <2>1. {Len(rec), CONSIDERD_HISTORY_SIZE} \in SUBSET Nat
    BY <1>1
  <2> QED  BY <2>1, NaturalMin
<1>3. Considered(rec) \subseteq DOMAIN rec /\ IsFiniteSet(Considered(rec))
  <2> DEFINE n == Len(rec)
             low == n - CONSIDERD_HISTORY_SIZE + 1
  <2>1. DOMAIN rec = 1 .. n /\ n \in Nat /\ low \in Int
    BY <1>1
  <2>2. Considered(rec) = (IF n > CONSIDERD_HISTORY_SIZE THEN low .. n ELSE {})
    BY DEF Considered
  <2>3. n > CONSIDERD_HISTORY_SIZE => low >= 1
    BY <1>1
  <2> HIDE DEF low, n
  <2>4. IsFiniteSet(low .. n) /\ IsFiniteSet({})
    BY <2>1, FS_Interval, FS_EmptySet
  <2>5. CASE n > CONSIDERD_HISTORY_SIZE
    <3>1. low .. n \subseteq 1 .. n
      BY <2>1, <2>3, <2>5
    <3> QED  BY <2>1, <2>2, <2>4, <2>5, <3>1
  <2>6. CASE ~(n > CONSIDERD_HISTORY_SIZE)
    BY <2>2, <2>4, <2>6
  <2> QED  BY <2>5, <2>6
<1>4. sum \in Nat
  BY <1>3, SumOfLevelsType
<1> HIDE DEF size, sum
<1>5. size # 0 => /\ (sum + size) \div size \in Nat /\ sum \div size \in Nat
                  /\ sum >= size => (sum - size) \div size \in Nat
  BY <1>2, <1>4
<1> QED  BY <1>5 DEF considerHistory, size, sum

LEMMA SvcAsksBase ==
    ASSUME highestReceivedHistory' \in Seq(Entry)
    PROVE  SvcLevels \in SUBSET Levels /\ 0 \in SvcLevels
<1>1. considerHistory(highestRequestedHistory, highestReceivedHistory', cur_size') \in Nat
  BY HistoryAllowsBase
<1> QED  BY <1>1, RepresentationAssumption DEF SvcLevels, dropSegments
-----------------------------------------------------------------------------
(* Asking for the next segment.                                             *)

\* HistoriesAligned of values a step has computed so far.
Aligned(req, rec) ==
    /\ Len(rec) <= Len(req)
    /\ \A i \in DOMAIN rec : rec[i].number = req[i].number /\ rec[i].level <= req[i].level

LEMMA AlignedIsInvariant ==
    HistoriesAligned <=> Aligned(highestRequestedHistory, highestReceivedHistory)
BY DEF HistoriesAligned, Aligned

\* What holds before the next segment is asked for: the last one is on record.
Ready ==
    /\ kind \in Kinds /\ kind' = kind /\ player' = "playing"
    /\ allSegmentsDownloaded = FALSE /\ currentSegmentNr \in 0 .. NumberOfSegments
    /\ recorded' = 0 .. currentSegmentNr - 1 /\ recorded' \subseteq requested
    /\ requested \in SUBSET Nat
    /\ cur_size' \in Nat /\ consumed' \in Nat
    /\ cur_size' + consumed' = Duration * currentSegmentNr
    /\ avg_dl_rates' \in [Slots -> Nat] /\ index' \in 0 .. SEGMENT_HISTORY
    /\ highestRequestedHistory \in Seq(Entry) /\ highestReceivedHistory' \in Seq(Entry)
    /\ Aligned(highestRequestedHistory, highestReceivedHistory')
    /\ IF kind = "svc" THEN Len(highestReceivedHistory') = Len(highestRequestedHistory)
       ELSE highestRequestedHistory = <<>> /\ highestReceivedHistory' = <<>>

\* The next segment, of the levels asked for.
AsksFor(levels) ==
    /\ levels \in (SUBSET Levels) \ {{}} /\ (kind = "svc" => 0 \in levels)
    /\ currentSegmentNr' = currentSegmentNr + 1 /\ currentSegmentNr' \in 0 .. NumberOfSegments
    /\ current_segments' = [number |-> currentSegmentNr, levels |-> levels]
    /\ highestRequestedHistory' =
          IF kind = "svc"
          THEN Append(highestRequestedHistory, [number |-> currentSegmentNr, level |-> Max(levels)])
          ELSE highestRequestedHistory

LEMMA NumberIsNatural == NumberOfSegments \in Nat /\ \A n \in 0 .. NumberOfSegments : n \in Nat
BY SegmentPlayerAssumption

LEMMA AskedIsSome == None \notin Asked
BY DEF None, Asked

LEMMA NextIsAsked ==
    ASSUME Ready, getNextSegments
    PROVE  \/ current_segments' = None /\ UNCHANGED logicVars
           \/ \E levels \in SUBSET Levels : AsksFor(levels)
<1>1. CASE currentSegmentNr < NumberOfSegments
  <2> DEFINE levels == IF kind = "svc" THEN SvcLevels ELSE DashLevels
  <2>1. levels \in (SUBSET Levels) \ {{}} /\ (kind = "svc" => 0 \in levels)
    BY DashAsksSome, SvcAsksBase DEF Ready
  <2>2. /\ current_segments' = [number |-> currentSegmentNr, levels |-> levels]
        /\ currentSegmentNr' = currentSegmentNr + 1
        /\ highestRequestedHistory' =
              IF kind = "svc"
              THEN Append(highestRequestedHistory, [number |-> currentSegmentNr, level |-> Max(levels)])
              ELSE highestRequestedHistory
    BY <1>1, NumberIsNatural DEF getNextSegments, Ready
  <2> HIDE DEF levels
  <2>3. currentSegmentNr' \in 0 .. NumberOfSegments
    BY <1>1, <2>2, SegmentPlayerAssumption DEF Ready
  <2> QED  BY <2>1, <2>2, <2>3 DEF AsksFor
<1>2. CASE ~(currentSegmentNr < NumberOfSegments)
  BY <1>2 DEF getNextSegments
<1> QED  BY <1>1, <1>2

\* The history of the requests with one more.
LEMMA HistoryGrows ==
    ASSUME Ready, NEW levels \in SUBSET Levels, AsksFor(levels)
    PROVE  /\ highestRequestedHistory' \in Seq(Entry)
           /\ HistoryInv'
<1>1. CASE kind = "svc"
  <2> DEFINE req == highestRequestedHistory
             e == [number |-> currentSegmentNr, level |-> Max(levels)]
             n == Len(req)
  <2>1. e \in Entry
    BY HighestLevel, NumberIsNatural DEF AsksFor, Entry, Ready
  <2>2. req \in Seq(Entry) /\ highestRequestedHistory' = Append(req, e) /\ n \in Nat
    BY <1>1 DEF Ready, AsksFor
  <2> HIDE DEF e
  <2>3. /\ Append(req, e) \in Seq(Entry) /\ Len(Append(req, e)) = n + 1
        /\ Append(req, e)[n + 1] = e /\ \A i \in 1 .. n : Append(req, e)[i] = req[i]
    BY <2>1, <2>2
  <2>4. DOMAIN highestReceivedHistory' = 1 .. n /\ Len(highestReceivedHistory') = n
    BY <1>1 DEF Ready
  <2>5. Aligned(highestRequestedHistory', highestReceivedHistory')
    BY <2>2, <2>3, <2>4 DEF Ready, Aligned
  <2>6. current_segments' = [number |-> currentSegmentNr, levels |-> levels] /\ current_segments' # None
    <3>1. currentSegmentNr # -1
      BY NumberIsNatural DEF Ready
    <3> QED  BY <3>1 DEF AsksFor, None
  <2>7. e = [number |-> current_segments'.number, level |-> Max(current_segments'.levels)]
    BY <2>6 DEF e
  <2>8. kind' = "svc"
    BY <1>1 DEF Ready
  <2>9. HistoriesAligned'
    BY <2>5 DEF HistoriesAligned, Aligned
  <2>10. /\ Len(highestRequestedHistory') = n + 1 /\ highestRequestedHistory'[n + 1] = e
         /\ Len(highestReceivedHistory') = (n + 1) - 1 /\ n + 1 > 0
    BY <2>2, <2>3, <2>4
  <2>11. highestRequestedHistory' \in Seq(Entry)
    BY <2>2, <2>3
  <2> QED  BY <2>6, <2>7, <2>8, <2>9, <2>10, <2>11 DEF HistoryInv
<1>2. CASE kind # "svc"
  BY <1>2 DEF Ready, AsksFor, HistoryInv, HistoriesAligned, Aligned
<1> QED  BY <1>1, <1>2

LEMMA BufferNumbers ==
    /\ MaxSize \in Nat /\ Duration \in Nat \ {0} /\ Duration < MaxSize
    /\ \A cur \in Nat : ~MustWait(cur) => cur + Duration < MaxSize
    /\ \A cur \in Nat : MustWait(cur) => cur > 0
BY BufferAssumption DEF MustWait

\* What asking leaves is as it should be: a request under way or a retry.
LEMMA AsksNext ==
    ASSUME Ready, NEW done \in SUBSET Levels, streaming(None, 0, done)
    PROVE  IInv'
<1>1. CASE current_segments' = None /\ UNCHANGED logicVars
  <2>1. /\ batch' = {} /\ finished' = done /\ retries' = 0
        /\ allSegmentsDownloaded' = TRUE /\ requested' = requested
    BY <1>1 DEF streaming, Nothing, Idle
  <2>2. TypeOK'
    BY <1>1, <2>1 DEF TypeOK, Ready, logicVars
  <2>3. SecondsInv' /\ BatchInv' /\ OneRequestAtATime'
    BY <1>1, <2>1 DEF SecondsInv, BatchInv, OneRequestAtATime, Ready, logicVars, Past, Idle
  <2>4. HistoryInv'
    BY <1>1 DEF Ready, HistoryInv, HistoriesAligned, Aligned, logicVars
  <2> QED  BY <2>2, <2>3, <2>4 DEF IInv
<1>2. ASSUME NEW levels \in SUBSET Levels, AsksFor(levels)
      PROVE  IInv'
  <2>1. /\ current_segments' = [number |-> currentSegmentNr, levels |-> levels]
        /\ current_segments' \in Asked /\ current_segments' # None
    BY <1>2, NumberIsNatural, AskedIsSome DEF AsksFor, Asked, Ready
  <2>2. current_segments'.number = currentSegmentNr /\ current_segments'.levels = levels
    BY <2>1
  <2>3. Past' = currentSegmentNr
    BY <1>2, <2>1, NumberIsNatural DEF Past, AsksFor, Ready
  <2>4. highestRequestedHistory' \in Seq(Entry) /\ HistoryInv'
    BY <1>2, HistoryGrows
  <2>5. \/ /\ batch' = {} /\ finished' = done /\ retries' = 1
           /\ UNCHANGED <<allSegmentsDownloaded, requested>>
        \/ /\ batch' = levels /\ finished' = {} /\ retries' = 0
           /\ ~MustWait(cur_size')
           /\ requested' = requested \cup {currentSegmentNr} /\ UNCHANGED allSegmentsDownloaded
    BY <2>1, <2>2 DEF streaming, enque, SetRequestedPlayerLevel, Idle
  <2>6. levels # {} /\ (kind = "svc" => 0 \in levels)
    BY <1>2 DEF AsksFor
  <2>7. TypeOK'
    <3>1. requested' \in SUBSET Nat
      BY <2>5, NumberIsNatural DEF Ready
    <3>2. recorded' \in SUBSET Nat
      BY NumberIsNatural DEF Ready
    <3>3. batch' \in SUBSET Levels /\ finished' \in SUBSET Levels /\ retries' \in Nat
      BY <2>5
    <3>4. allSegmentsDownloaded' = FALSE
      BY <2>5 DEF Ready
    <3>5. currentSegmentNr' \in 0 .. NumberOfSegments
      BY <1>2 DEF AsksFor
    <3> QED  BY <2>1, <2>4, <3>1, <3>2, <3>3, <3>4, <3>5 DEF TypeOK, Ready
  <2>8. SecondsInv'
    BY <2>1, <2>2, <2>3, <2>5, BufferNumbers DEF SecondsInv, Ready, Idle
  <2>9. BatchInv' /\ OneRequestAtATime'
    BY <2>1, <2>2, <2>5, <2>6 DEF BatchInv, OneRequestAtATime, Ready, Idle
  <2> QED  BY <2>4, <2>7, <2>8, <2>9 DEF IInv
<1>3. getNextSegments
  BY DEF streaming
<1> QED  BY <1>1, <1>2, <1>3, NextIsAsked
-----------------------------------------------------------------------------
(* The events.                                                              *)

LEMMA InitInv == Init => IInv
<1> SUFFICES ASSUME Init  PROVE IInv
  OBVIOUS
<1>1. /\ kind \in Kinds /\ player = "none" /\ allSegmentsDownloaded = FALSE
      /\ current_segments = None /\ currentSegmentNr = 0 /\ cur_size = 0 /\ retries = 0
      /\ highestRequestedHistory = <<>> /\ highestReceivedHistory = <<>>
      /\ avg_dl_rates = [i \in Slots |-> 0] /\ index = 0 /\ batch = {} /\ finished = {}
      /\ requested = {} /\ recorded = {} /\ consumed = 0
  BY DEF Init, createPlayer, Idle
<1>2. TypeOK
  <2>1. 0 \in 0 .. NumberOfSegments /\ 0 \in 0 .. SEGMENT_HISTORY
    BY SegmentPlayerAssumption, RepresentationAssumption
  <2>2. [i \in Slots |-> 0] \in [Slots -> Nat] /\ <<>> \in Seq(Entry)
    OBVIOUS
  <2> QED  BY <1>1, <2>1, <2>2 DEF TypeOK
<1>3. SecondsInv
  BY <1>1, BufferNumbers DEF SecondsInv, Past, Idle
<1>4. OneRequestAtATime /\ BatchInv /\ HistoryInv
  BY <1>1 DEF OneRequestAtATime, BatchInv, HistoryInv, HistoriesAligned, Idle
<1> QED  BY <1>2, <1>3, <1>4 DEF IInv

LEMMA IInvStutters == IInv /\ UNCHANGED vars => IInv'
<1> SUFFICES ASSUME IInv, UNCHANGED vars  PROVE IInv'
  OBVIOUS
<1>1. UNCHANGED <<kind, player, allSegmentsDownloaded, current_segments, currentSegmentNr,
                  highestRequestedHistory, highestReceivedHistory, avg_dl_rates, index,
                  cur_size, retries, batch, finished, requested, recorded, consumed>>
  BY DEF vars, logicVars, feedbackVars, requestVars
<1>2. TypeOK'
  BY <1>1 DEF IInv, TypeOK
<1>3. SecondsInv' /\ BatchInv' /\ OneRequestAtATime' /\ HistoryInv'
  BY <1>1 DEF IInv, SecondsInv, Past, BatchInv, OneRequestAtATime, HistoryInv, HistoriesAligned
<1> QED  BY <1>2, <1>3 DEF IInv

\* While something is under way the current segment is the next to be received.
LEMMA UnderWayIsCurrent ==
    ASSUME IInv, player = "playing", batch # Idle \/ retries > 0
    PROVE  /\ ~allSegmentsDownloaded /\ current_segments # None
           /\ retries = IF batch # Idle THEN 0 ELSE 1
           /\ current_segments \in Asked /\ current_segments.number = Past
           /\ currentSegmentNr = Past + 1 /\ Past \in Nat
<1>1. retries \in Nat /\ currentSegmentNr \in 0 .. NumberOfSegments
  BY DEF IInv, TypeOK
<1>2. ~allSegmentsDownloaded /\ current_segments # None
      /\ retries = IF batch # Idle THEN 0 ELSE 1
  BY <1>1 DEF IInv, OneRequestAtATime
<1>3. current_segments \in Asked /\ current_segments.number = Past
  BY <1>2 DEF IInv, TypeOK, SecondsInv
<1>4. current_segments.number \in Nat
  BY <1>3 DEF Asked
<1>5. currentSegmentNr = Past + 1
  BY <1>1, <1>2, SegmentPlayerAssumption DEF Past
<1> QED  BY <1>2, <1>3, <1>4, <1>5

\* A segment that was received, whole or not, makes room for the next request.
LEMMA ReceivedIsReady ==
    ASSUME IInv, player = "playing", batch # Idle,
           NEW levels \in SUBSET current_segments.levels, levels # {},
           NEW seconds \in {0, 1}, Keep(seconds), consumed' = consumed + seconds,
           kind' = kind, player' = player,
           avg_dl_rates' \in [Slots -> Nat], index' \in 0 .. SEGMENT_HISTORY,
           IF kind = "svc" THEN extractorUpdate(levels) ELSE UNCHANGED highestReceivedHistory
    PROVE  Ready
<1>1. /\ ~allSegmentsDownloaded /\ current_segments # None
      /\ current_segments \in Asked /\ current_segments.number = Past
      /\ currentSegmentNr = Past + 1 /\ Past \in Nat
  BY UnderWayIsCurrent
<1>2. TypeOK /\ SecondsInv /\ HistoryInv
  BY DEF IInv
<1>3. recorded' = 0 .. currentSegmentNr - 1 /\ recorded' \subseteq requested
  <2>1. recorded' = (0 .. Past - 1) \cup {Past}
    BY <1>1, <1>2 DEF Keep, SecondsInv
  <2>2. (0 .. Past - 1) \cup {Past} = 0 .. Past
    BY <1>1
  <2>3. 0 .. Past - 1 \subseteq requested /\ Past \in requested
    BY <1>2 DEF SecondsInv
  <2>4. currentSegmentNr - 1 = Past
    BY <1>1
  <2> QED  BY <2>1, <2>2, <2>3, <2>4
<1>4. /\ cur_size' \in Nat /\ consumed' \in Nat
      /\ cur_size' + consumed' = Duration * currentSegmentNr
  <2>1. cur_size \in Nat /\ consumed \in Nat
    BY <1>2 DEF TypeOK
  <2>2. cur_size' = cur_size + Duration - seconds
    <3>1. cur_size + Duration < MaxSize
      BY <1>2 DEF SecondsInv
    <3>2. cur_size' = addData(cur_size, Duration) - seconds
      BY DEF Keep
    <3>3. addData(cur_size, Duration) = cur_size + Duration
      BY <3>1 DEF addData
    <3> QED  BY <2>1, <3>2, <3>3, BufferNumbers
  <2>3. cur_size + consumed = Duration * Past
    BY <1>2 DEF SecondsInv
  <2>4. Duration * (Past + 1) = Duration * Past + Duration
    BY <1>1, BufferNumbers
  <2>5. Duration \in Nat \ {0}
    BY BufferNumbers
  <2> HIDE DEF Past
  <2> QED  BY <1>1, <2>1, <2>2, <2>3, <2>4, <2>5
<1>5. CASE kind = "svc"
  <2> DEFINE req == highestRequestedHistory
             rec == highestReceivedHistory
             n == Len(rec)
             e == [number |-> current_segments.number, level |-> Max(levels)]
  <2>1. /\ req \in Seq(Entry) /\ rec \in Seq(Entry) /\ n \in Nat /\ Len(req) = n + 1
        /\ req[n + 1] = [number |-> current_segments.number, level |-> Max(current_segments.levels)]
        /\ Aligned(req, rec)
    <3>1. req \in Seq(Entry) /\ rec \in Seq(Entry)
      BY <1>2 DEF TypeOK
    <3>2. n \in Nat /\ Len(req) \in Nat
      BY <3>1
    <3>3. /\ n = Len(req) - 1
          /\ req[Len(req)] =
                [number |-> current_segments.number, level |-> Max(current_segments.levels)]
      BY <1>1, <1>2, <1>5 DEF HistoryInv
    <3>4. Len(req) = n + 1
      BY <3>2, <3>3
    <3> QED  BY <1>2, <3>1, <3>2, <3>3, <3>4 DEF HistoryInv, HistoriesAligned, Aligned
  <2>2. highestReceivedHistory' = Append(rec, e)
    BY <1>5, <2>1 DEF extractorUpdate
  <2>3. /\ current_segments.levels \in SUBSET Levels /\ current_segments.levels # {}
        /\ current_segments.number \in Nat
    BY <1>1 DEF Asked
  <2>4. /\ Max(levels) \in levels
        /\ \A l \in current_segments.levels : l <= Max(current_segments.levels)
    BY <2>3, HighestLevel
  <2>5. e \in Entry /\ e.number = req[n + 1].number /\ e.level <= req[n + 1].level
    BY <2>1, <2>3, <2>4 DEF Entry
  <2> HIDE DEF e, req, rec
  <2>6. /\ Append(rec, e) \in Seq(Entry) /\ Len(Append(rec, e)) = n + 1
        /\ DOMAIN Append(rec, e) = 1 .. n + 1
        /\ Append(rec, e)[n + 1] = e /\ \A i \in 1 .. n : Append(rec, e)[i] = rec[i]
    BY <2>1, <2>5
  <2>7. Aligned(req, Append(rec, e))
    <3>1. ASSUME NEW i \in 1 .. n + 1
          PROVE  /\ Append(rec, e)[i].number = req[i].number
                 /\ Append(rec, e)[i].level <= req[i].level
      <4>1. CASE i = n + 1
        BY <2>5, <2>6, <4>1
      <4>2. CASE i # n + 1
        <5>1. i \in 1 .. n /\ i \in DOMAIN rec
          BY <2>1, <3>1, <4>2
        <5> QED  BY <2>1, <2>6, <5>1 DEF Aligned
      <4> QED  BY <4>1, <4>2
    <3> QED  BY <2>1, <2>6, <3>1 DEF Aligned
  <2>8. /\ req \in Seq(Entry) /\ highestReceivedHistory' \in Seq(Entry)
        /\ Aligned(req, highestReceivedHistory') /\ Len(highestReceivedHistory') = Len(req)
    BY <2>1, <2>2, <2>6, <2>7
  <2> QED  BY <1>1, <1>2, <1>3, <1>4, <1>5, <2>8 DEF Ready, TypeOK, req
<1>6. CASE kind # "svc"
  <2>1. highestRequestedHistory = <<>> /\ highestReceivedHistory' = <<>>
    BY <1>2, <1>6 DEF HistoryInv
  <2>2. Aligned(<<>>, <<>>)
    BY DEF Aligned
  <2> QED  BY <1>1, <1>2, <1>3, <1>4, <1>6, <2>1, <2>2 DEF Ready, TypeOK
<1> QED  BY <1>5, <1>6
LEMMA StartKeeps == IInv /\ StartApplication => IInv'
<1> SUFFICES ASSUME IInv, StartApplication  PROVE IInv'
  OBVIOUS
<1>1. /\ player = "none" /\ current_segments = None /\ ~allSegmentsDownloaded
      /\ player' = "playing" /\ streaming(None, 0, {})
      /\ UNCHANGED <<kind, feedbackVars, cur_size, recorded, consumed>>
  BY DEF StartApplication, play, IInv, BatchInv
<1>2. Ready
  <2>1. Past = currentSegmentNr
    BY <1>1 DEF Past
  <2>2. recorded = 0 .. currentSegmentNr - 1 /\ recorded \subseteq requested
        /\ cur_size + consumed = Duration * currentSegmentNr
    BY <2>1 DEF IInv, SecondsInv
  <2>3. Aligned(highestRequestedHistory, highestReceivedHistory)
    BY DEF IInv, HistoryInv, HistoriesAligned, Aligned
  <2>4. IF kind = "svc" THEN Len(highestReceivedHistory) = Len(highestRequestedHistory)
        ELSE highestRequestedHistory = <<>> /\ highestReceivedHistory = <<>>
    BY <1>1 DEF IInv, HistoryInv
  <2> QED  BY <1>1, <2>2, <2>3, <2>4 DEF Ready, IInv, TypeOK, feedbackVars
<1> QED  BY <1>1, <1>2, AsksNext

LEMMA StopKeeps == IInv /\ StopApplication => IInv'
<1> SUFFICES ASSUME IInv, StopApplication  PROVE IInv'
  OBVIOUS
<1>1. /\ player' = "deleted" /\ batch' = {} /\ finished' = {}
      /\ UNCHANGED <<kind, allSegmentsDownloaded, current_segments, currentSegmentNr,
                     highestRequestedHistory, highestReceivedHistory, avg_dl_rates, index,
                     retries, requested, cur_size, recorded, consumed>>
  BY DEF StopApplication, stop, Idle, logicVars, feedbackVars
<1>2. TypeOK'
  BY <1>1 DEF IInv, TypeOK
<1>3. SecondsInv' /\ BatchInv' /\ OneRequestAtATime'
  BY <1>1 DEF IInv, SecondsInv, BatchInv, OneRequestAtATime, Past, Idle
<1>4. HistoryInv'
  BY <1>1 DEF IInv, HistoryInv, HistoriesAligned
<1> QED  BY <1>2, <1>3, <1>4 DEF IInv

\* A retry asks for the current segment once more.
LEMMA RetryKeeps == IInv /\ Retry => IInv'
<1> SUFFICES ASSUME IInv, Retry  PROVE IInv'
  OBVIOUS
<1>1. /\ player = "playing" /\ retries > 0
      /\ UNCHANGED <<kind, player, feedbackVars, cur_size, recorded, consumed>>
      /\ streaming(current_segments, retries - 1, finished)
  BY DEF Retry
<1>2. /\ ~allSegmentsDownloaded /\ current_segments # None /\ batch = Idle /\ retries = 1
      /\ current_segments \in Asked /\ current_segments.number = Past
      /\ currentSegmentNr = Past + 1 /\ Past \in Nat
  BY <1>1, UnderWayIsCurrent DEF IInv, TypeOK
<1>3. UNCHANGED <<current_segments, logicVars>>
  BY <1>1, <1>2 DEF streaming
<1>4. UNCHANGED Past
  BY <1>3 DEF Past, logicVars
<1>5. \/ /\ batch' = Idle /\ finished' = finished /\ retries' = 1
         /\ UNCHANGED <<allSegmentsDownloaded, requested>>
      \/ /\ batch' = current_segments.levels /\ finished' = {} /\ retries' = 0
         /\ ~MustWait(cur_size)
         /\ requested' = requested \cup {Past} /\ UNCHANGED allSegmentsDownloaded
  BY <1>1, <1>2, <1>3 DEF streaming, enque, SetRequestedPlayerLevel
<1>6. current_segments.levels \in (SUBSET Levels) \ {{}}
  BY <1>2 DEF Asked
<1>7. TypeOK'
  <2>1. requested' \in SUBSET Nat
    BY <1>2, <1>5 DEF IInv, TypeOK
  <2>2. batch' \in SUBSET Levels /\ finished' \in SUBSET Levels /\ retries' \in Nat
    BY <1>5, <1>6 DEF IInv, TypeOK, Idle
  <2>3. UNCHANGED allSegmentsDownloaded
    BY <1>5
  <2> QED  BY <1>1, <1>3, <2>1, <2>2, <2>3 DEF IInv, TypeOK, logicVars, feedbackVars
<1>8. SecondsInv'
  <2>1. batch' # Idle => Past \in requested' /\ cur_size + Duration < MaxSize
    BY <1>5, BufferNumbers DEF IInv, TypeOK
  <2>2. recorded \subseteq requested'
    BY <1>5 DEF IInv, SecondsInv
  <2> QED  BY <1>1, <1>3, <1>4, <2>1, <2>2 DEF IInv, SecondsInv
<1>9. OneRequestAtATime'
  BY <1>1, <1>2, <1>3, <1>5, <1>6 DEF OneRequestAtATime, Idle
<1>10. BatchInv'
  <2>1. kind = "svc" => 0 \in current_segments.levels
    BY <1>1, <1>2 DEF IInv, BatchInv
  <2> QED  BY <1>1, <1>2, <1>3, <1>5, <2>1 DEF BatchInv, Idle
<1>11. HistoryInv'
  BY <1>1, <1>3 DEF IInv, HistoryInv, HistoriesAligned, logicVars, feedbackVars
<1> QED  BY <1>7, <1>8, <1>9, <1>10, <1>11 DEF IInv
\* A report, of what is whole by then, leads to the next request.
LEMMA ReportKeeps ==
    ASSUME IInv, player = "playing", batch # Idle,
           NEW levels \in SUBSET current_segments.levels, levels # {}, Report(levels)
    PROVE  IInv'
<1>1. /\ UNCHANGED <<kind, player, consumed>> /\ streaming(None, retries, levels)
      /\ Keep(0)
      /\ avg_dl_rates' \in [Slots -> Nat] /\ index' \in 0 .. SEGMENT_HISTORY
      /\ IF kind = "svc" THEN extractorUpdate(levels) ELSE UNCHANGED highestReceivedHistory
  <2>1. CASE kind = "svc" /\ addToBuffer(levels, 0)
    BY <2>1 DEF Report, addToBuffer, IInv, TypeOK
  <2>2. CASE kind # "svc" /\ segmentRetrieved /\ Keep(0)
    <3>1. (index % SEGMENT_HISTORY) + 1 \in Slots /\ Slots \subseteq 0 .. SEGMENT_HISTORY
      BY RepresentationAssumption DEF IInv, TypeOK, Slots
    <3>2. avg_dl_rates \in [Slots -> Nat] /\ index \in 0 .. SEGMENT_HISTORY
      BY DEF IInv, TypeOK
    <3>3. avg_dl_rates' \in [Slots -> Nat] /\ index' \in 0 .. SEGMENT_HISTORY
      BY <2>2, <3>1, <3>2, SegmentPlayerAssumption DEF segmentRetrieved
    <3> QED  BY <2>2, <3>3 DEF Report, segmentRetrieved
  <2> QED  BY <2>1, <2>2 DEF Report
<1>2. retries = 0 /\ current_segments \in Asked
  BY UnderWayIsCurrent
<1>3. levels \in SUBSET Levels
  BY <1>2 DEF Asked
<1>4. consumed' = consumed + 0
  BY <1>1 DEF IInv, TypeOK
<1>5. Ready
  BY <1>1, <1>4, ReceivedIsReady
<1> QED  BY <1>1, <1>2, <1>3, <1>5, AsksNext

\* Fewer layers under way, with what is finished.
LEMMA FetchingKeeps ==
    ASSUME IInv, player = "playing", batch # Idle,
           NEW left \in SUBSET batch, left # {},
           NEW done \in SUBSET (batch \cup finished), StillFetching(left, done),
           kind = "svc" => 0 \in left \cup done
    PROVE  IInv'
<1>1. /\ batch' = left /\ finished' = done
      /\ UNCHANGED <<kind, player, allSegmentsDownloaded, current_segments, currentSegmentNr,
                     highestRequestedHistory, highestReceivedHistory, avg_dl_rates, index,
                     retries, requested, cur_size, recorded, consumed>>
  BY DEF StillFetching, logicVars, feedbackVars
<1>2. TypeOK'
  BY <1>1 DEF IInv, TypeOK
<1>3. SecondsInv'
  BY <1>1 DEF IInv, SecondsInv, Past
<1>4. BatchInv' /\ OneRequestAtATime'
  BY <1>1 DEF IInv, BatchInv, OneRequestAtATime, Idle
<1>5. HistoryInv'
  BY <1>1 DEF IInv, HistoryInv, HistoriesAligned
<1> QED  BY <1>2, <1>3, <1>4, <1>5 DEF IInv

LEMMA FinishedKeeps == IInv /\ LayerFinished => IInv'
<1> SUFFICES ASSUME IInv, LayerFinished  PROVE IInv'
  OBVIOUS
<1>1. PICK l \in UnderWay :
         \/ batch # {l} /\ StillFetching(batch \ {l}, finished \cup {l})
         \/ batch = {l} /\ Report(finished \cup {l})
  BY DEF LayerFinished
<1>2. player = "playing" /\ l \in batch /\ batch # Idle
  BY <1>1 DEF LayerFinished, UnderWay, Idle
<1>3. /\ batch \cup finished \subseteq current_segments.levels
      /\ kind = "svc" => 0 \in batch \cup finished
  BY <1>2 DEF IInv, BatchInv
<1>4. CASE batch # {l} /\ StillFetching(batch \ {l}, finished \cup {l})
  <2>1. batch \ {l} # {} /\ finished \cup {l} \in SUBSET (batch \cup finished)
    BY <1>2, <1>4
  <2>2. kind = "svc" => 0 \in (batch \ {l}) \cup (finished \cup {l})
    BY <1>3
  <2> QED  BY <1>2, <1>4, <2>1, <2>2, FetchingKeeps
<1>5. CASE batch = {l} /\ Report(finished \cup {l})
  <2>1. finished \cup {l} \in SUBSET current_segments.levels /\ finished \cup {l} # {}
    BY <1>2, <1>3
  <2> QED  BY <1>2, <1>5, <2>1, ReportKeeps
<1> QED  BY <1>1, <1>4, <1>5

\* The base layer is never refused: it is still to come, or it is there.
LEMMA NackedKeeps == IInv /\ LayersNacked => IInv'
<1> SUFFICES ASSUME IInv, LayersNacked  PROVE IInv'
  OBVIOUS
<1>1. PICK l \in UnderWay \ {0} :
         \/ {k \in batch : k < l} # {} /\ StillFetching({k \in batch : k < l}, finished)
         \/ {k \in batch : k < l} = {} /\ NackReported
  BY DEF LayersNacked
<1>2. player = "playing" /\ kind = "svc" /\ l \in batch \ {0} /\ batch # Idle
  BY <1>1 DEF LayersNacked, UnderWay, Idle
<1>3. /\ batch \cup finished \subseteq current_segments.levels
      /\ 0 \in batch \cup finished
  BY <1>2 DEF IInv, BatchInv
<1>4. l > 0
  BY <1>2, LevelsFinite DEF IInv, TypeOK
<1>5. 0 \in batch => 0 \in {k \in batch : k < l}
  BY <1>4
<1>6. CASE {k \in batch : k < l} # {} /\ StillFetching({k \in batch : k < l}, finished)
  <2> DEFINE left == {k \in batch : k < l}
  <2>1. left \in SUBSET batch /\ finished \in SUBSET (batch \cup finished)
        /\ 0 \in left \cup finished
    BY <1>3, <1>5
  <2>2. left # {} /\ StillFetching(left, finished)
    BY <1>6
  <2> HIDE DEF left
  <2> QED  BY <1>2, <2>1, <2>2, FetchingKeeps
<1>7. CASE {k \in batch : k < l} = {} /\ NackReported
  <2>1. 0 \in finished
    BY <1>3, <1>5, <1>7
  <2>2. finished \in SUBSET current_segments.levels /\ finished # {}
    BY <1>3, <2>1
  <2> QED  BY <1>2, <1>7, <2>2, ReportKeeps DEF NackReported
<1> QED  BY <1>1, <1>6, <1>7

\* What a playback that has run dry finds was asked for lately, so there is no
\* retry to come.
LEMMA RescueKeeps ==
    ASSUME IInv, player = "playing", kind = "svc", kind' = kind, Contiguous # {},
           ~CanConsume(cur_size, 1), ~(allSegmentsDownloaded /\ cur_size = 0),
           retries > 0 => MustWait(cur_size),
           consumed' = consumed + 1, Rescue
    PROVE  IInv'
<1>1. cur_size = 0
  BY DEF CanConsume, IInv, TypeOK
<1>2. ~allSegmentsDownloaded /\ retries = 0 /\ batch # Idle
  <2>1. ~(retries > 0)
    BY <1>1, BufferNumbers
  <2> QED  BY <1>1, <2>1 DEF IInv, TypeOK, OneRequestAtATime
<1>3. /\ addToBuffer(Contiguous, 1) /\ UNCHANGED player
      /\ streaming(None, 0, {})
  BY <1>2 DEF Rescue
<1>4. Contiguous \in SUBSET current_segments.levels
  BY <1>2 DEF Contiguous, IInv, BatchInv
<1>5. /\ Keep(1) /\ extractorUpdate(Contiguous)
      /\ avg_dl_rates' \in [Slots -> Nat] /\ index' \in 0 .. SEGMENT_HISTORY
  BY <1>3 DEF addToBuffer, IInv, TypeOK
<1>6. Ready
  BY <1>2, <1>3, <1>4, <1>5, ReceivedIsReady
<1> QED  BY <1>3, <1>6, AsksNext

LEMMA ConsumeKeeps == IInv /\ consume => IInv'
<1> SUFFICES ASSUME IInv, consume  PROVE IInv'
  OBVIOUS
<1>1. player = "playing" /\ (retries > 0 => MustWait(cur_size)) /\ kind' = kind
  BY DEF consume
<1>2. CASE AllDone
  <2>1. /\ player' = "done" /\ batch' = {} /\ finished' = {}
        /\ UNCHANGED <<allSegmentsDownloaded, current_segments, currentSegmentNr,
                       highestRequestedHistory, highestReceivedHistory, avg_dl_rates, index,
                       retries, requested, cur_size, recorded, consumed>>
    BY <1>2 DEF AllDone, stop, Idle, logicVars, feedbackVars
  <2>2. TypeOK'
    BY <1>1, <2>1 DEF IInv, TypeOK
  <2>3. SecondsInv' /\ BatchInv' /\ OneRequestAtATime'
    BY <1>1, <2>1 DEF IInv, SecondsInv, BatchInv, OneRequestAtATime, Past, Idle
  <2>4. HistoryInv'
    BY <1>1, <2>1 DEF IInv, HistoryInv, HistoriesAligned
  <2> QED  BY <2>2, <2>3, <2>4 DEF IInv
<1>3. CASE PlaysOn
  <2>1. /\ cur_size' = cur_size - 1 /\ consumed' = consumed + 1 /\ cur_size >= 1
        /\ UNCHANGED <<player, allSegmentsDownloaded, current_segments, currentSegmentNr,
                       highestRequestedHistory, highestReceivedHistory, avg_dl_rates, index,
                       retries, requested, recorded, batch, finished>>
    BY <1>3 DEF PlaysOn, CanConsume, logicVars, feedbackVars, requestVars
  <2>2. cur_size \in Nat /\ consumed \in Nat
    BY DEF IInv, TypeOK
  <2>3. cur_size' \in Nat /\ consumed' \in Nat
        /\ cur_size' + consumed' = cur_size + consumed
        /\ (cur_size + Duration < MaxSize => cur_size' + Duration < MaxSize)
    BY <2>1, <2>2, BufferNumbers
  <2>4. TypeOK'
    BY <1>1, <2>1, <2>3 DEF IInv, TypeOK
  <2>5. SecondsInv'
    BY <2>1, <2>3 DEF IInv, SecondsInv, Past
  <2>6. BatchInv' /\ OneRequestAtATime' /\ HistoryInv'
    BY <1>1, <2>1 DEF IInv, BatchInv, OneRequestAtATime, HistoryInv, HistoriesAligned, Idle
  <2> QED  BY <2>4, <2>5, <2>6 DEF IInv
<1>4. CASE /\ ~(allSegmentsDownloaded /\ cur_size = 0) /\ ~CanConsume(cur_size, 1)
           /\ kind = "svc" /\ Contiguous # {} /\ consumed' = consumed + 1 /\ Rescue
  BY <1>1, <1>4, RescueKeeps
<1>5. CASE Stall
  <2>1. UNCHANGED vars
    BY <1>1, <1>5 DEF Stall, vars
  <2> QED  BY <2>1, IInvStutters
<1> QED  BY <1>2, <1>3, <1>4, <1>5 DEF consume

LEMMA NextKeeps == IInv /\ [Next]_vars => IInv'
BY StartKeeps, StopKeeps, RetryKeeps, FinishedKeeps, NackedKeeps, ConsumeKeeps, IInvStutters
   DEF Next
-----------------------------------------------------------------------------
(* The theorems.                                                            *)

\* The player's state is well typed, its records and seconds add up, and what is
\* under way belongs to the segment that was asked for last.
THEOREM Invariant == Spec => []IInv
BY InitInv, NextKeeps, PTL DEF Spec

\* The player asks for one segment at a time and always for one until the last
\* has arrived.
THEOREM OneAtATime == Spec => []OneRequestAtATime
<1>1. IInv => OneRequestAtATime
  BY DEF IInv
<1> QED  BY <1>1, Invariant, PTL

\* Every segment on record went into the buffer once, and the report at the end
\* can be written.
THEOREM SecondsAddUp == Spec => []SecondsAccounted
<1>1. IInv => SecondsAccounted
  <2> SUFFICES ASSUME IInv  PROVE SecondsAccounted
    OBVIOUS
  <2>1. currentSegmentNr \in Nat /\ (current_segments # None => Past \in Nat)
    BY NumberIsNatural DEF IInv, TypeOK, SecondsInv, Asked
  <2>2. Past \in Nat
    BY <2>1 DEF Past
  <2>3. recorded = 0 .. Past - 1 /\ recorded \subseteq requested
        /\ cur_size + consumed = Duration * Past
    BY DEF IInv, SecondsInv
  <2>4. Cardinality(recorded) = Past
    BY <2>2, <2>3, FS_Interval
  <2> QED  BY <2>3, <2>4 DEF SecondsAccounted, CanWriteToFile
<1> QED  BY <1>1, Invariant, PTL

\* The extractor's two histories are about the same segments, and nothing better
\* came than what was asked for.
THEOREM HistoriesStayAligned == Spec => []HistoriesAligned
<1>1. IInv => HistoriesAligned
  BY DEF IInv, HistoryInv
<1> QED  BY <1>1, Invariant, PTL
=============================================================================
