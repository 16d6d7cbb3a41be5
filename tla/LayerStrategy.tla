---------------------------- MODULE LayerStrategy ----------------------------
(***************************************************************************)
(* A node whose forwarding strategy minds the layers of video: it refuses  *)
(* interests of upper layers with a NACK that says so, or only keeps count *)
(* of what is pending.  The strategies are mixed into the best route       *)
(* strategy of ndnSIM, which does the forwarding and is external.  It      *)
(* ranks the faces by their status, which data, timeouts and NACKs change, *)
(* and by their cost: here any order is possible each time.                *)
(*                                                                         *)
(* Neighbours ask on the faces of Consumers, each interest with a nonce of *)
(* its own, and Uplinks lead to the providers.  An uplink answers what was *)
(* sent on it with data or with a NACK, or not at all, and perhaps after   *)
(* the entry in the PIT has gone or a newer one has taken its place.  The  *)
(* NACKs of this node carry level -1 and go to its neighbours; those of    *)
(* the uplinks, plain nodes, carry the level of the interest.              *)
(*                                                                         *)
(* Left out are the content store, and the first period of the counting    *)
(* strategies, in which there are no probabilities to read.                *)
(***************************************************************************)
EXTENDS DroppingPolicy

CONSTANTS
    Consumers, Uplinks,
    Names, LevelOf,
    First,                  \* the names of first chunks of a segment
    Parts,                  \* a period has so many
    MaxLevelAllowed,
    DataRate, Bitrate,      \* of the device, and of each level
    PACKET_BITS,            \* of a payload and its overhead
    MaxAsked, MaxResets     \* bounds: interests, periods

ASSUME LayerStrategyAssumption ==
    /\ LevelOf \in [Names -> Levels] /\ First \subseteq Names
    /\ PACKET_BITS \in Nat \ {0} /\ Parts \in Nat \ {0} /\ MaxLevelAllowed \in Nat
    /\ DataRate \in Nat /\ Bitrate \in [Levels -> Nat]

Faces == Consumers \cup Uplinks

\* Interests come from one side and go to the other.
ASSUME UplinksAssumption ==
    Consumers \cap Uplinks = {} /\ IsFiniteSet(Faces) /\ IsFiniteSet(Names)

VARIABLES
    kind,           \* the strategy
    stats,          \* counting strategies: FacePacketStatistic per face
    elapsed,        \* live strategy: parts of the period that have passed
    faceStats, measuredStats,   \* adaptive strategy: packets per face, so far
                                \* in this period and in the last one
    pending,        \* PIT threshold strategy: pendingInterestCount per face
    stray,          \* history: data on this uplink for entries sent elsewhere
    pit,            \* entries: incoming faces; how often each uplink was
                    \* asked; retransmissions allowed; uplinks asked in vain
    underWay,       \* <<u, n, seen>>: an answer to n may come on u, and the
                    \* entry of n has seen its nonce
    asks,           \* <<f, n>>: who waits on f has not been answered yet
    asked, resets   \* counters of the bounds

nodeVars == <<stats, faceStats, measuredStats, pending, stray>>
networkVars == <<pit, underWay, asks>>
vars == <<kind, nodeVars, elapsed, networkVars, asked, resets>>

Kinds == {"SVCCounting", "SVCLiveCounting", "SVCStatic", "SVCAdaptive", "PitThreshold"}
Counting == kind \in {"SVCCounting", "SVCLiveCounting"}

NoEntry == [incoming |-> {}, sent |-> [u \in Uplinks |-> 0], retx |-> 0, inVain |-> {}]
outgoing(entry) == {u \in Uplinks : entry.sent[u] > 0}
Exists(n) == pit[n].incoming # {}
Nobody == [f \in Faces |-> 0]

Init ==
    /\ kind \in Kinds
    /\ \E metric \in (IF Counting THEN {<<0, 1>>, <<1, 2>>} ELSE {<<0, 1>>}) :
            stats = [f \in Faces |-> NewStatistic(metric)]
    /\ elapsed = 0
    /\ faceStats = Nobody /\ measuredStats = Nobody /\ pending = Nobody
    /\ stray = [u \in Uplinks |-> 0]
    /\ pit = [n \in Names |-> NoEntry]
    /\ underWay = {} /\ asks = {}
    /\ asked = 0 /\ resets = 0
-----------------------------------------------------------------------------
(* The counting strategies.                                                 *)

\* The live strategy adapts its policy with every interest, except early in a
\* period, to the part of the maximum that is due so far.
max_packets ==
    LET packets == DataRate \div PACKET_BITS
    IN IF kind = "SVCCounting" THEN (9 * packets) \div 10 ELSE packets

due == (max_packets * elapsed) \div Parts

Counted(s, level) ==
    LET c == IncreasePackets(s, level)
    IN IF kind = "SVCLiveCounting" /\ elapsed > 0 /\ c.packets_per_time > due
       THEN UpdatePolicy(c, MetricOf(c.packets_per_time, due)) ELSE c

\* HasEnoughResourcesToSend, after counting.  The live strategy lets the base
\* layer through.
MayRefuse(s, level) ==
    MayDrop(s, level) /\ ~(kind = "SVCLiveCounting" /\ level = 0)
MayAccept(s, level) ==
    MayPass(s, level) \/ (kind = "SVCLiveCounting" /\ level = 0)

\* The statistics after an interest of this level was counted on some faces.
CountOn(s, faces, level) ==
    IF Counting THEN [f \in Faces |-> IF f \in faces THEN Counted(s[f], level) ELSE s[f]]
    ELSE s

resetLevelCount(s) ==
    [UpdatePolicy(s, MetricOf(s.packets_per_time, max_packets)) EXCEPT !.packets_per_time = 0]

resetLevelCounts == [f \in Faces |-> resetLevelCount(stats[f])]
-----------------------------------------------------------------------------
(* The adaptive strategy.                                                   *)

\* NDNTracer: a packet of unit size on each of the faces.
Traced(faces) ==
    IF kind = "SVCAdaptive"
    THEN [f \in Faces |-> IF f \in faces THEN faceStats[f] + 1 ELSE faceStats[f]]
    ELSE faceStats

\* What went in and out of the face in the last period.
getAvgTotalTrafficBits(f) == measuredStats[f]

getResidualBandwidth(f) == Max({0, DataRate - getAvgTotalTrafficBits(f)})

residualBandwidthOfUplinkFaces ==
    MapThenSumSet(LAMBDA u : getResidualBandwidth(u), Uplinks)

TooNarrow(f, n) ==
    LET level == LevelOf[n] IN
    /\ n \in First /\ level > 0
    /\ getResidualBandwidth(f) <= Bitrate[level]
    /\ residualBandwidthOfUplinkFaces <= Bitrate[level]

\* Whether an interest, or a NACK that looks like one, stops on arrival.
\* Without a nonce in an entry of the PIT, NACKs are counted as interests.
Refused(f, n, counted) ==
    CASE Counting -> MayRefuse(counted[f], LevelOf[n])
      [] kind = "SVCStatic" -> LevelOf[n] > MaxLevelAllowed
      [] kind = "SVCAdaptive" -> TooNarrow(f, n)
      [] OTHER -> FALSE

LetIn(f, n, counted) ==
    IF Counting THEN MayAccept(counted[f], LevelOf[n]) ELSE ~Refused(f, n, counted)
-----------------------------------------------------------------------------
(* The PIT threshold strategy.                                              *)

\* Mutant of Increased: counted once, however often it is sent.
IncreasedFromZero(count, f) == [count EXCEPT ![f] = IF @ = 0 THEN 1 ELSE @]

Increased(count, f) == [count EXCEPT ![f] = @ + 1]

Decreased(count, faces) ==
    [f \in Faces |-> IF f \in faces /\ count[f] > 0 THEN count[f] - 1 ELSE count[f]]

Pending(count) == pending' = IF kind = "PitThreshold" THEN count ELSE pending
-----------------------------------------------------------------------------
(* Forwarding, by ndnSIM.  CanSendOutInterest of the counting strategies    *)
(* counts on every uplink tried, before the parent has its say.  "so" is    *)
(* what became so far in the step of the statistics (stats), of the faces   *)
(* to trace (traced), of pending, of those who wait (asks) and of the       *)
(* answers to come (underWay); seen tells of the nonce that is sent on.     *)

\* An uplink is not asked again before the neighbours have.
Free(u, entry, inFace) == u # inFace /\ entry.sent[u] <= entry.retx

Declines(u, n, entry, inFace, counted) ==
    ~Free(u, entry, inFace) \/ (Counting /\ MayRefuse(counted[u], LevelOf[n]))

Accepts(u, n, entry, inFace, counted) ==
    Free(u, entry, inFace) /\ (Counting => MayAccept(counted[u], LevelOf[n]))

\* With an entry the nonces it has seen are gone.
NonceLost(answers, n) ==
    {IF answer[2] = n THEN <<answer[1], n, FALSE>> ELSE answer : answer \in answers}

\* Mutant of GiveUp: only the neighbour that asked last is told.
TellLast(n, entry, last) ==
    /\ pit' = [pit EXCEPT ![n] = NoEntry]
    /\ asks' = asks \ {<<last, n>>}

\* DidExhaustForwardingOptions: who waits is told, the entry goes.
GiveUp(n, entry, last) ==
    /\ pit' = [pit EXCEPT ![n] = NoEntry]
    /\ asks' = asks \ (entry.incoming \X {n})

SendOut(u, n, entry, so) ==
    /\ pit' = [pit EXCEPT ![n] = [entry EXCEPT !.sent[u] = @ + 1, !.inVain = @ \ {u}]]
    /\ underWay' = so.underWay \cup {<<u, n, so.seen>>}
    /\ asks' = so.asks
    /\ faceStats' = Traced(so.traced \cup {u})
    /\ Pending(Increased(so.pending, u))

\* The uplinks are tried until one accepts; those before it have declined.
OneAccepts(n, entry, inFace, so, before) ==
    \E u \in Uplinks : \E declined \in SUBSET (Uplinks \ {u}) :
        LET counted == CountOn(before, declined \cup {u}, LevelOf[n])
        IN /\ \A d \in declined : Declines(d, n, entry, inFace, counted)
           /\ Accepts(u, n, entry, inFace, counted)
           /\ stats' = counted
           /\ SendOut(u, n, entry, so)

AllDecline(n, entry, inFace, counted) ==
    \A u \in Uplinks : Declines(u, n, entry, inFace, counted)

Exhausted(n, entry, inFace, so, counted) ==
    /\ AllDecline(n, entry, inFace, counted)
    /\ stats' = counted
    /\ GiveUp(n, entry, inFace)
    /\ underWay' = NonceLost(so.underWay, n)
    /\ faceStats' = Traced(so.traced \cup entry.incoming)
    /\ Pending(so.pending)

\* When a neighbour asks again and nobody accepts, the entry may allow one more
\* retransmission, not too soon after the last, and all are tried once more.
Propagate(n, entry, inFace, so, again) ==
    LET once == CountOn(so.stats, Uplinks, LevelOf[n])
        twice == CountOn(once, Uplinks, LevelOf[n])
    IN \/ OneAccepts(n, entry, inFace, so, so.stats)
       \/ ~again /\ Exhausted(n, entry, inFace, so, once)
       \/ /\ again /\ AllDecline(n, entry, inFace, once)
          /\ \E retx \in {entry.retx, entry.retx + 1} :
                LET allowed == [entry EXCEPT !.retx = retx]
                IN \/ OneAccepts(n, allowed, inFace, so, once)
                   \/ Exhausted(n, allowed, inFace, so, twice)

\* An interest arrives, for the first time or again.
OnInterest(f, n) ==
    LET counted == CountOn(stats, {f}, LevelOf[n])
        entry == [pit[n] EXCEPT !.incoming = @ \cup {f}]
        so == [stats |-> counted, traced |-> {f}, asks |-> asks \cup {<<f, n>>},
               underWay |-> underWay, seen |-> TRUE,
               pending |-> IF Exists(n) THEN pending ELSE Increased(pending, f)]
    IN /\ asked < MaxAsked /\ asked' = asked + 1
       /\ UNCHANGED <<kind, elapsed, measuredStats, stray, resets>>
       /\ \/ /\ Refused(f, n, counted)
             /\ asks' = asks \ {<<f, n>>}
             /\ stats' = counted /\ faceStats' = Traced({f})
             /\ UNCHANGED <<pending, pit, underWay>>
          \/ /\ LetIn(f, n, counted)
             /\ ~Exists(n) \/ f \in pit[n].incoming
             /\ Propagate(n, entry, f, so, Exists(n))
          \/ /\ LetIn(f, n, counted)
             /\ Exists(n) /\ f \notin pit[n].incoming
             /\ pit' = [pit EXCEPT ![n] = entry]
             /\ asks' = so.asks
             /\ stats' = counted /\ faceStats' = Traced({f})
             /\ UNCHANGED <<pending, underWay>>

OnData(u, n, seen) ==
    /\ <<u, n, seen>> \in underWay
    /\ underWay' = NonceLost(underWay \ {<<u, n, seen>>}, n)
    /\ UNCHANGED <<kind, elapsed, stats, measuredStats, asked, resets>>
    /\ pit' = [pit EXCEPT ![n] = NoEntry]
    /\ asks' = asks \ (pit[n].incoming \X {n})
    /\ faceStats' = Traced({u} \cup pit[n].incoming)
    /\ Pending(IF Exists(n) THEN Decreased(pending, {u} \cup pit[n].incoming) ELSE pending)
    /\ stray' = IF kind = "PitThreshold" /\ Exists(n) /\ u \notin outgoing(pit[n])
                THEN [stray EXCEPT ![u] = @ + 1] ELSE stray

\* Counted and judged as an interest, by counting strategies unless there is an
\* entry that knows its nonce; then dropped if there is no entry; else another
\* uplink is tried as soon as all were asked in vain.
OnNack(u, n, seen) ==
    LET isDuplicate == Counting /\ seen
        counted == IF seen THEN stats ELSE CountOn(stats, {u}, LevelOf[n])
        passes == isDuplicate \/ LetIn(u, n, counted)
        entry == [pit[n] EXCEPT !.inVain = @ \cup ({u} \cap outgoing(pit[n]))]
        answered == underWay \ {<<u, n, seen>>}
    IN /\ <<u, n, seen>> \in underWay
       /\ UNCHANGED <<kind, elapsed, measuredStats, stray, asked, resets>>
       /\ \/ /\ \/ ~isDuplicate /\ Refused(u, n, counted)
                \/ passes /\ ~Exists(n)
             /\ stats' = counted /\ faceStats' = Traced({u})
             /\ underWay' = answered
             /\ UNCHANGED <<pending, pit, asks>>
          \/ /\ passes /\ Exists(n)
             /\ ~(outgoing(entry) \subseteq entry.inVain)
             /\ pit' = [pit EXCEPT ![n] = entry]
             /\ stats' = counted /\ faceStats' = Traced({u})
             /\ underWay' = answered
             /\ UNCHANGED <<pending, asks>>
          \/ /\ passes /\ Exists(n)
             /\ outgoing(entry) \subseteq entry.inVain
             /\ Propagate(n, entry, u,
                          [stats |-> counted, traced |-> {u}, asks |-> asks,
                           underWay |-> answered, seen |-> seen, pending |-> pending],
                          FALSE)

Timeout(n) ==
    /\ Exists(n)
    /\ pit' = [pit EXCEPT ![n] = NoEntry]
    /\ asks' = asks \ (pit[n].incoming \X {n})
    /\ underWay' = NonceLost(underWay, n)
    /\ Pending(Decreased(pending, pit[n].incoming \cup outgoing(pit[n])))
    /\ UNCHANGED <<kind, elapsed, stats, faceStats, measuredStats, stray, asked, resets>>
-----------------------------------------------------------------------------
(* Time.                                                                    *)

Tick ==
    /\ kind = "SVCLiveCounting"
    /\ elapsed < Parts - 1 /\ elapsed' = elapsed + 1
    /\ UNCHANGED <<kind, nodeVars, networkVars, asked, resets>>

\* resetLevelCount on all faces; copyDataForAvgCalculation.  The others have no
\* timer.
Reset ==
    /\ Counting \/ kind = "SVCAdaptive"
    /\ kind = "SVCLiveCounting" => elapsed = Parts - 1
    /\ elapsed' = 0
    /\ resets < MaxResets /\ resets' = resets + 1
    /\ stats' = IF Counting THEN resetLevelCounts ELSE stats
    /\ measuredStats' = faceStats /\ faceStats' = Nobody
    /\ UNCHANGED <<kind, pending, stray, networkVars, asked>>

Next ==
    \/ \E f \in Consumers, n \in Names : OnInterest(f, n)
    \/ \E u \in Uplinks, n \in Names, seen \in BOOLEAN :
          OnData(u, n, seen) \/ OnNack(u, n, seen)
    \/ \E n \in Names : Timeout(n)
    \/ Tick \/ Reset

Spec == Init /\ [][Next]_vars
-----------------------------------------------------------------------------
(* Properties.                                                              *)

\* The policy drops what is above the maximum, no more and no less, and of the
\* upper layers first: the shares of the levels times their probabilities make
\* up the metric (packetbaseddroppingpolicy.cc:10-43), after any sequence of
\* interests, smoothed refreshes and updates between them.
DropsWhatIsTooMuch ==
    Counting => \A f \in Faces :
        LET s == stats[f]
            drop == [l \in Levels |-> DroppingProbability(s.metric, s.weights, l)]
            whole == {l \in Levels : drop[l] = <<1, 1>>}
            partly == {l \in Levels \ whole : drop[l][1] # 0}
        IN /\ \A l \in Levels : 0 <= drop[l][1] /\ drop[l][1] <= drop[l][2]
           /\ Cardinality(partly) <= 1
           /\ \A l \in whole \cup partly : l + 1 .. LevelCount - 1 \subseteq whole
           /\ MapThenSumSet(LAMBDA l : s.metric[2] * s.weights[l], whole)
                + MapThenSumSet(LAMBDA l : drop[l][1], partly)
                = s.metric[1] * Total(s.weights)

\* A neighbour that waits for an answer is in the entry of the PIT that will
\* see to it: whoever asks while others wait, whichever interest is refused on
\* the way in or out, and whichever uplink gives up.  A NACK to the one who
\* asked last only would leave the others waiting (svccountingstrategy.h:353).
NoneForgotten == \A ask \in asks : ask[1] \in pit[ask[2]].incoming

\* The count of an uplink, which "logs all pending interests that have been
\* send out on outfaces" (pitthresholdstrategy.h:195), misses one of them at
\* most for each piece of data that came there late and met an entry that was
\* sent elsewhere: data lowers the count of the face it comes on all the same
\* (pitthresholdstrategy.h:188), while other entries are pending there.
UplinkNotUndercounted ==
    kind = "PitThreshold" => \A u \in Uplinks :
        pending[u] + stray[u] >= Cardinality({n \in Names : u \in outgoing(pit[n])})
=============================================================================
