------------------------------- MODULE Player -------------------------------
(***************************************************************************)
(* The Player of layered video: it streams one segment of one level at a   *)
(* time through its DownloadManager into a LayeredBuffer, consumes the     *)
(* buffer at the pace of the video, and writes a report at the end.        *)
(*                                                                         *)
(* A step is one event: a call of the requester, a timer, or a report of   *)
(* the DownloadManager, which answers every segment asked for once.  There *)
(* is no clock: a pending event may be due at any moment, only the first   *)
(* consume event, STARTUP_DELAY away, comes after the first streaming.     *)
(***************************************************************************)
EXTENDS AdaptationLogic, PlayerLevelHistory

VARIABLES
    alogic,                 \* which adaptation logic, chosen with the player
    hasStarted, hasFinished,
    currentSegmentNumber,   \* to be played next; -1 before the first request
    current_segment,        \* asked for last
    outstanding,            \* the DownloadManager owes a report about it
    streamingEvents,        \* pending calls of streaming
    consumeEvent,           \* a call of consuming is pending
    buffer,                 \* m_buffer: segment numbers per level
    levels,                 \* the keys of m_buffer
    last_consumed_segment_number,   \* of the adaptation logic
    levelHistory,           \* level on record per segment, NoLevel if none
    recorded,               \* keys of the other histories of received segments
    requested,              \* keys of requestedLevelHistory
    written                 \* the report has been written

eventVars == <<streamingEvents, consumeEvent>>
requestVars == <<current_segment, outstanding>>
bufferVars == <<buffer, levels>>
historyVars == <<levelHistory, recorded, requested, written>>
vars == <<alogic, hasStarted, hasFinished, currentSegmentNumber, requestVars, eventVars,
          bufferVars, last_consumed_segment_number, historyVars>>

Segments == 0 .. NumberOfSegments - 1

\* What a record may be about: stop writes one for the segment past the last.
Numbers == 0 .. NumberOfSegments

TypeOK ==
    /\ alogic \in Logics
    /\ hasStarted \in BOOLEAN /\ hasFinished \in BOOLEAN
    /\ currentSegmentNumber \in Numbers \cup {-1}
    /\ current_segment \in [level : Levels \cup {-1}, number : Segments \cup {-1}]
    /\ outstanding \in BOOLEAN
    /\ streamingEvents \in Nat /\ consumeEvent \in BOOLEAN
    /\ buffer \in [Levels -> Seq(Segments)]
    /\ levels \in SUBSET Levels
    /\ last_consumed_segment_number \in Segments \cup {-1}
    /\ levelHistory \in [Numbers -> Levels \cup {NoLevel}]
    /\ recorded \in SUBSET Numbers /\ requested \in SUBSET Numbers
    /\ written \in BOOLEAN

Init ==
    /\ alogic \in Logics
    /\ hasStarted = FALSE /\ hasFinished = FALSE
    /\ currentSegmentNumber = -1
    /\ current_segment = Idle /\ outstanding = FALSE
    /\ streamingEvents = 0 /\ consumeEvent = FALSE
    /\ buffer = [l \in Levels |-> <<>>] /\ levels = {}
    /\ last_consumed_segment_number = -1
    /\ levelHistory = [n \in Numbers |-> NoLevel]
    /\ recorded = {} /\ requested = {} /\ written = FALSE
-----------------------------------------------------------------------------
(* Calls of the requester, which makes a new Player for every start.        *)

play ==
    /\ ~hasStarted /\ ~written
    /\ hasStarted' = TRUE /\ hasFinished' = FALSE
    /\ currentSegmentNumber' = -1
    /\ streamingEvents' = streamingEvents + 1 /\ consumeEvent' = TRUE
    /\ UNCHANGED <<alogic, requestVars, bufferVars, last_consumed_segment_number,
                   historyVars>>

\* The whole of stop, entered with the number of the segment to be played next
\* and the levels on record: the pending events are cancelled, and that
\* segment is recorded as one of level 0.
Stopping(number, history) ==
    /\ hasStarted' = FALSE
    /\ streamingEvents' = IF streamingEvents > 0 THEN streamingEvents - 1 ELSE 0
    /\ consumeEvent' = FALSE
    /\ written' = TRUE
    /\ IF number = -1 THEN UNCHANGED <<levelHistory, recorded, requested>>
       ELSE /\ levelHistory' =
                  SetPlayerLevel(SetConsumedPlayerLevel(history, number, 0), number, 0)
            /\ recorded' = recorded \cup {number}
            /\ requested' = SetRequestedPlayerLevel(requested, number)

stop ==
    /\ hasStarted
    /\ Stopping(currentSegmentNumber, levelHistory)
    /\ UNCHANGED <<alogic, hasFinished, currentSegmentNumber, requestVars, bufferVars,
                   last_consumed_segment_number>>
-----------------------------------------------------------------------------
(* Events of the player.                                                    *)

Streaming == hasStarted /\ ~hasFinished

\* With nothing to ask for, the next event is scheduled in the place of this
\* one; otherwise the report of the DownloadManager will schedule it.
streaming ==
    LET segment == getNextSegments(alogic, buffer, last_consumed_segment_number) IN
    /\ streamingEvents > 0
    /\ \/ /\ Streaming /\ segment = Idle
          /\ UNCHANGED <<currentSegmentNumber, requestVars, requested, streamingEvents>>
       \/ /\ Streaming /\ segment # Idle
          /\ current_segment' = segment /\ outstanding' = TRUE
          /\ currentSegmentNumber' =
                IF currentSegmentNumber = -1 THEN segment.number ELSE currentSegmentNumber
          /\ requested' = SetRequestedPlayerLevel(requested, segment.number)
          /\ streamingEvents' = streamingEvents - 1
       \/ /\ ~Streaming
          /\ streamingEvents' = streamingEvents - 1
          /\ UNCHANGED <<currentSegmentNumber, requestVars, requested>>
    /\ UNCHANGED <<alogic, hasStarted, hasFinished, consumeEvent, bufferVars,
                   last_consumed_segment_number, levelHistory, recorded, written>>

\* How far a segment can be played: the levels above the base layer are taken
\* in turn, up to the first that is missing.
PlayableLevel(n) ==
    CHOOSE top \in Levels :
        /\ \A l \in 1 .. top : l < Cardinality(levels) /\ IsInBuffer(buffer, n, l)
        /\ \/ top + 1 >= Cardinality(levels)
           \/ ~IsInBuffer(buffer, n, top + 1)

Consuming ==
    consumeEvent /\ Streaming /\ currentSegmentNumber # -1

\* A segment whose base layer is missing is tried again CONSUME_DELAY later;
\* nothing but the log changes.  Otherwise it is played, and after the last
\* one the player stops by itself.
consume ==
    LET n == currentSegmentNumber
        top == PlayableLevel(n)
        history == SetConsumedPlayerLevel(levelHistory, n, top)
    IN
    /\ Consuming
    /\ IsInBuffer(buffer, n, 0)
    /\ buffer' = [l \in Levels |-> IF l <= top THEN ConsumeFromBuffer(buffer, n, l)
                                   ELSE buffer[l]]
    /\ last_consumed_segment_number' = n
    /\ currentSegmentNumber' = n + 1
    /\ \/ /\ n + 1 >= NumberOfSegments
          /\ hasFinished' = TRUE
          /\ Stopping(n + 1, history)
       \/ /\ n + 1 < NumberOfSegments
          /\ levelHistory' = history
          /\ UNCHANGED <<hasStarted, hasFinished, eventVars, recorded, requested, written>>
    /\ UNCHANGED <<alogic, requestVars, levels>>
-----------------------------------------------------------------------------
(* Reports of the DownloadManager.  They may still come when the player has *)
(* stopped, and are handled alike.                                          *)

SegmentReceived ==
    LET n == current_segment.number
        l == current_segment.level
    IN
    /\ outstanding
    /\ outstanding' = FALSE
    /\ buffer' = AddToBuffer(buffer, n, l)
    /\ levels' = levels \cup {l}
    /\ levelHistory' = SetPlayerLevel(levelHistory, n, l)
    /\ recorded' = recorded \cup {n}
    /\ streamingEvents' = streamingEvents + 1
    /\ UNCHANGED <<alogic, hasStarted, hasFinished, currentSegmentNumber, current_segment,
                   consumeEvent, last_consumed_segment_number, requested, written>>

\* Mutant of NackReceived: it is ignored, as DashPlayer does.
NackIgnored ==
    /\ outstanding /\ current_segment.level > 0
    /\ outstanding' = FALSE
    /\ UNCHANGED <<alogic, hasStarted, hasFinished, currentSegmentNumber, current_segment,
                   eventVars, bufferVars, last_consumed_segment_number, historyVars>>

\* Only an enhancement layer is ever given up.
NackReceived ==
    /\ outstanding /\ current_segment.level > 0
    /\ outstanding' = FALSE
    /\ streamingEvents' = streamingEvents + 1
    /\ UNCHANGED <<alogic, hasStarted, hasFinished, currentSegmentNumber, current_segment,
                   consumeEvent, bufferVars, last_consumed_segment_number, historyVars>>
-----------------------------------------------------------------------------
Next == play \/ stop \/ streaming \/ consume \/ SegmentReceived \/ NackReceived

Spec == Init /\ [][Next]_vars

\* Timers fire, and the DownloadManager answers.
Fairness ==
    /\ WF_vars(streaming) /\ WF_vars(consume)
    /\ WF_vars(SegmentReceived \/ NackReceived)

FairSpec == Spec /\ Fairness
-----------------------------------------------------------------------------
(* Safety.                                                                  *)

\* While the player streams, exactly one thing keeps it streaming: a pending
\* event, or a segment the DownloadManager owes a report about.  Streaming
\* neither dies nor doubles, whatever mix of idle rounds, segments and NACKs.
OneStreamingChain ==
    Streaming => streamingEvents + (IF outstanding THEN 1 ELSE 0) = 1

\* LastSegmentNumber asks "are they really orderd?".  They are, in every level,
\* with segments consumed out of the middle and requests that overtake the
\* playback or are overtaken by it.
BufferOrdered ==
    \A l \in Levels : \A i, j \in DOMAIN buffer[l] : i < j => buffer[l][i] < buffer[l][j]

\* The base layer, with what is on its way.
BaseLayer ==
    IF outstanding /\ current_segment.level = 0
    THEN Append(buffer[0], current_segment.number) ELSE buffer[0]

\* The base layer is the stretch of video that begins at the segment to be
\* played next: none is left out, asked for twice or kept after it was played.
BaseWithoutGap ==
    Streaming /\ currentSegmentNumber # -1 =>
        \A i \in DOMAIN BaseLayer : BaseLayer[i] = currentSegmentNumber + i - 1

\* LayeredAdaptationLogic never lets a layer run ahead of the base layer it
\* needs: the base layer of what it asks for is there, unless the playback has
\* passed it.
EnhancementsFollowBase ==
    alogic = "LayerdSieber" /\ Streaming /\ outstanding /\ current_segment.level > 0 =>
        \/ current_segment.number < currentSegmentNumber
        \/ IsInBuffer(buffer, current_segment.number, 0)

Recorded == {n \in Numbers : levelHistory[n] # NoLevel}

\* The report can be written whenever the player may be stopped
\* (playerlevelhistory.cc:102): segments of all levels have arrived in an order
\* that leaves no gap in any of the histories.
ReportReadable == CanWriteToFile(Recorded, recorded, requested)
-----------------------------------------------------------------------------
(* Liveness.                                                                *)

\* The video is played to its end, or stopped.
PlaybackEnds == hasStarted ~> ~hasStarted
=============================================================================
