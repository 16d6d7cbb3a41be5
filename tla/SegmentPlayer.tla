---------------------------- MODULE SegmentPlayer ----------------------------
(***************************************************************************)
(* The players that fetch whole segments: the SVC player, which asks for   *)
(* all the layers of a segment in one batch and plays what has arrived of  *)
(* it rather than stall, and the DASH player with the rate based or the    *)
(* always lowest logic.  Each is made, played and deleted by a requester.  *)
(*                                                                         *)
(* The DownloadManager is what it promises: it has up to                   *)
(* DOWNLOADER_NUMBER layers of the batch under way, lowest first, and      *)
(* reports once, when the batch is done or its upper layers were refused.  *)
(*                                                                         *)
(* A step is an event.  There is no clock, but the retry of a request,     *)
(* RetryDelay away, comes before the playback's next second.               *)
(***************************************************************************)
EXTENDS RepresentationLogic, PlayerLevelHistory

CONSTANTS
    NumberOfSegments,
    DOWNLOADER_NUMBER,
    MeasuredRates       \* what a download may be measured at

ASSUME SegmentPlayerAssumption ==
    NumberOfSegments \in Nat /\ DOWNLOADER_NUMBER \in Nat \ {0} /\ MeasuredRates \subseteq Nat

VARIABLES
    kind,               \* the player and its logic
    player,             \* none, playing, done (it stopped by itself), deleted
    allSegmentsDownloaded,
    current_segments,   \* the segment in the download queue, None if empty
    currentSegmentNr,   \* the next one to be asked for
    highestRequestedHistory, highestReceivedHistory,    \* of the SVC extractor
    avg_dl_rates, index,    \* of the rate based logic: a ring
    cur_size,           \* seconds in the buffer
    retries,            \* pending calls of streaming
    batch,              \* layers the DownloadManager has still to fetch
    finished,           \* its finishedSegments, kept until the next request
    requested, recorded,    \* segments in the player's records
    consumed            \* history: seconds played

logicVars == <<currentSegmentNr, highestRequestedHistory>>
feedbackVars == <<highestReceivedHistory, avg_dl_rates, index>>
requestVars == <<current_segments, retries, batch, finished, requested>>
vars == <<kind, player, allSegmentsDownloaded, logicVars, feedbackVars, requestVars,
          cur_size, recorded, consumed>>

None == [number |-> -1, levels |-> {}]
Idle == {}
Kinds == {"svc", "RateBased", "AlwaysLowest"}
Slots == 1 .. SEGMENT_HISTORY

\* An empty buffer, a logic that has seen nothing and an idle DownloadManager.
createPlayer ==
    /\ allSegmentsDownloaded = FALSE
    /\ current_segments = None
    /\ currentSegmentNr = 0
    /\ highestRequestedHistory = <<>> /\ highestReceivedHistory = <<>>
    /\ avg_dl_rates = [i \in Slots |-> 0] /\ index = 0
    /\ cur_size = 0
    /\ retries = 0
    /\ batch = Idle /\ finished = {}
    /\ requested = {} /\ recorded = {}
    /\ consumed = 0

Init == kind \in Kinds /\ player = "none" /\ createPlayer
-----------------------------------------------------------------------------
(* Asking for the next segment.  These run last in a step, and see what it  *)
(* has done to the buffer and to the histories.                             *)

SvcLevels ==
    dropSegments(Feasible, considerHistory(highestRequestedHistory, highestReceivedHistory',
                                           cur_size'))

DashLevels ==
    StackOf(IF kind = "RateBased" THEN getOptimalRepresentation(avg_dl_rates', cur_size')
            ELSE getLowestRepresentation)

getNextSegments ==
    \/ /\ currentSegmentNr = NumberOfSegments
       /\ current_segments' = None
       /\ UNCHANGED logicVars
    \/ /\ currentSegmentNr < NumberOfSegments
       /\ \E levels \in {IF kind = "svc" THEN SvcLevels ELSE DashLevels} :
            /\ current_segments' = [number |-> currentSegmentNr, levels |-> levels]
            /\ currentSegmentNr' = currentSegmentNr + 1
            /\ highestRequestedHistory' =
                 IF kind = "svc"
                 THEN Append(highestRequestedHistory,
                             [number |-> currentSegmentNr, level |-> Max(levels)])
                 ELSE highestRequestedHistory

\* Mutant of Nothing: the end of the video is not noticed.
NothingForNow == UNCHANGED <<allSegmentsDownloaded, requested>>

Nothing == allSegmentsDownloaded' = TRUE /\ UNCHANGED requested

enque ==
    /\ requested' = SetRequestedPlayerLevel(requested, current_segments'.number)
    /\ UNCHANGED allSegmentsDownloaded

\* Entered with a current segment or None, the other pending events, and what
\* the idle manager still holds of the last batch.
streaming(current, events, done) ==
    /\ \/ current = None /\ getNextSegments
       \/ current # None /\ current_segments' = current /\ UNCHANGED logicVars
    /\ \/ /\ current_segments' = None
          /\ batch' = Idle /\ finished' = done /\ retries' = events
          /\ Nothing
       \/ /\ current_segments' # None /\ MustWait(cur_size')
          /\ batch' = Idle /\ finished' = done /\ retries' = events + 1
          /\ UNCHANGED <<allSegmentsDownloaded, requested>>
       \/ /\ current_segments' # None /\ ~MustWait(cur_size')
          /\ batch' = current_segments'.levels /\ finished' = {} /\ retries' = events
          /\ enque
-----------------------------------------------------------------------------
(* The requester.                                                           *)

play == player' = "playing" /\ streaming(None, 0, {})

StartApplication ==
    /\ player = "none"
    /\ UNCHANGED <<kind, feedbackVars, cur_size, recorded, consumed>>
    /\ play

\* The manager is stopped with the player.
stop == batch' = Idle /\ finished' = {}

\* Whatever is pending finds no player any more.
StopApplication ==
    /\ player \in {"playing", "done"} /\ player' = "deleted"
    /\ stop
    /\ UNCHANGED <<kind, allSegmentsDownloaded, logicVars, feedbackVars, current_segments,
                   retries, requested, cur_size, recorded, consumed>>

Retry ==
    /\ player = "playing" /\ retries > 0
    /\ UNCHANGED <<kind, player, feedbackVars, cur_size, recorded, consumed>>
    /\ streaming(current_segments, retries - 1, finished)
-----------------------------------------------------------------------------
(* Reports of the DownloadManager.                                          *)

\* Mutant of extractorUpdate: segments without all their layers do not count.
extractorUpdateIfWhole(levels) ==
    highestReceivedHistory' =
        IF levels # current_segments.levels THEN highestReceivedHistory
        ELSE Append(highestReceivedHistory,
                    [number |-> current_segments.number, level |-> Max(levels)])

\* SVCSegmentExtractor::update, with the highest layer of the segment.
extractorUpdate(levels) ==
    highestReceivedHistory' =
        IF highestRequestedHistory[Len(highestRequestedHistory)].number
             # current_segments.number
        THEN highestReceivedHistory
        ELSE Append(highestReceivedHistory,
                    [number |-> current_segments.number, level |-> Max(levels)])

\* The current segment goes into the records and into the buffer, which is
\* played for some seconds then.
Keep(seconds) ==
    /\ recorded' = recorded \cup {current_segments.number}
    /\ cur_size' = addData(cur_size, Duration) - seconds

addToBuffer(levels, seconds) ==
    /\ UNCHANGED <<avg_dl_rates, index>>
    /\ extractorUpdate(levels)
    /\ Keep(seconds)

segmentRetrieved ==
    /\ UNCHANGED highestReceivedHistory
    /\ IF kind = "RateBased"
       THEN \E rate \in MeasuredRates, slot \in {(index % SEGMENT_HISTORY) + 1} :
                avg_dl_rates' = [avg_dl_rates EXCEPT ![slot] = rate] /\ index' = slot
       ELSE UNCHANGED <<avg_dl_rates, index>>

\* SegmentReceived, or NackReceived to the SVC player, with these layers.
Report(levels) ==
    /\ UNCHANGED <<kind, player, consumed>>
    /\ \/ kind = "svc" /\ addToBuffer(levels, 0)
       \/ kind # "svc" /\ segmentRetrieved /\ Keep(0)
    /\ streaming(None, retries, levels)

\* The layers under way: the pool is filled from below.
UnderWay == {l \in batch : Cardinality({k \in batch : k < l}) < DOWNLOADER_NUMBER}

StillFetching(left, done) ==
    /\ batch' = left /\ finished' = done
    /\ UNCHANGED <<kind, player, allSegmentsDownloaded, logicVars, feedbackVars,
                   current_segments, retries, requested, cur_size, recorded, consumed>>

LayerFinished ==
    /\ player = "playing"
    /\ \E l \in UnderWay :
        \/ batch # {l} /\ StillFetching(batch \ {l}, finished \cup {l})
        \/ batch = {l} /\ Report(finished \cup {l})

\* Mutant of NackReported: the player does not listen, as the DASH player.
NackIgnored == StillFetching(Idle, finished)

NackReported == Report(finished)

\* A refusal takes the layers from l up away; the lower ones are let finish.
\* Only the SVC player's downloaders give layers up.
LayersNacked ==
    /\ player = "playing" /\ kind = "svc"
    /\ \E l \in UnderWay \ {0} :
        \/ /\ {k \in batch : k < l} # {}
           /\ StillFetching({k \in batch : k < l}, finished)
        \/ {k \in batch : k < l} = {} /\ NackReported
-----------------------------------------------------------------------------
(* A second of playback.                                                    *)

AllDone ==
    /\ allSegmentsDownloaded /\ cur_size = 0
    /\ player' = "done" /\ stop
    /\ UNCHANGED <<allSegmentsDownloaded, logicVars, feedbackVars, current_segments, retries,
                   requested, cur_size, recorded, consumed>>

PlaysOn ==
    /\ CanConsume(cur_size, 1)
    /\ cur_size' = cur_size - 1 /\ consumed' = consumed + 1
    /\ UNCHANGED <<player, allSegmentsDownloaded, logicVars, feedbackVars, requestVars,
                   recorded>>

\* retriveUnfinishedSegments: the layers from the base on without a gap.
Contiguous == {l \in finished : 0 .. l \subseteq finished}

\* What has arrived of the batch is played, the rest given up.
Rescue ==
    /\ addToBuffer(Contiguous, 1) /\ UNCHANGED player
    /\ streaming(None, retries, {})

Stall == UNCHANGED <<player, allSegmentsDownloaded, logicVars, feedbackVars, requestVars,
                     cur_size, recorded, consumed>>

consume ==
    /\ player = "playing"
    /\ retries > 0 => MustWait(cur_size)    \* else the retry comes first
    /\ UNCHANGED kind
    /\ \/ AllDone
       \/ /\ ~(allSegmentsDownloaded /\ cur_size = 0)
          /\ \/ PlaysOn
             \/ /\ ~CanConsume(cur_size, 1)
                /\ \/ /\ kind = "svc" /\ Contiguous # {}
                      /\ consumed' = consumed + 1
                      /\ Rescue
                   \/ (kind # "svc" \/ Contiguous = {}) /\ Stall

Next ==
    \/ StartApplication \/ StopApplication
    \/ Retry \/ LayerFinished \/ LayersNacked \/ consume

Spec == Init /\ [][Next]_vars

\* The simulator runs every event that is due, and layers asked for arrive in
\* the end: the promise of the downloaders.
Fairness == WF_vars(Retry) /\ WF_vars(LayerFinished) /\ WF_vars(consume)

FairSpec == Spec /\ Fairness
-----------------------------------------------------------------------------
(* Properties.                                                              *)

\* The player asks for one segment at a time and always for one until the last
\* has arrived: either its batch is with the manager or one retry is pending,
\* not both and not two, whether the last report was whole, cut short by a
\* refusal or anticipated by a playback that ran dry (svcplayer.cc:165-180).
\* The records and the buffer read the current segment without a check.
OneRequestAtATime ==
    player = "playing" =>
        /\ current_segments = None <=> allSegmentsDownloaded
        /\ retries + (IF batch # Idle THEN 1 ELSE 0) =
                (IF allSegmentsDownloaded THEN 0 ELSE 1)

\* Every segment on record went into the buffer once, none was refused by a
\* buffer that counts itself full one second early (buffer.cc:18): what was
\* played and what is left add up, and the report at the end can be written,
\* which looks every segment up in both records (playerlevelhistory.cc:105).
SecondsAccounted ==
    /\ CanWriteToFile(recorded, recorded, requested)
    /\ cur_size + consumed = Duration * Cardinality(recorded)

\* The extractor compares the two histories entry by entry, without looking at
\* the numbers (svcsegmentextractor.cc:98-102): they must be about the same
\* segments, and nothing better than what was asked for can have come.
HistoriesAligned ==
    /\ Len(highestReceivedHistory) <= Len(highestRequestedHistory)
    /\ \A i \in DOMAIN highestReceivedHistory :
        /\ highestReceivedHistory[i].number = highestRequestedHistory[i].number
        /\ highestReceivedHistory[i].level <= highestRequestedHistory[i].level

\* The playback comes to its end, by itself or stopped, whatever layers are
\* refused and however often it stalls.
PlaybackEnds == player = "playing" ~> player # "playing"
=============================================================================
