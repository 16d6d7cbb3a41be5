------------------------ MODULE WindowNDNDownloader ------------------------
(***************************************************************************)
(* One downloader of segments in chunks: WindowNDNDownloader and its two   *)
(* subclasses SVCWindowNDNDownloader and NackCountingSVCDownloader,        *)
(* together with the flags of IDownloader.                                 *)
(*                                                                         *)
(* A step is one event of the single-threaded simulator: a call by the     *)
(* DownloadManager, a Data or a NACK handed up by the face, or a timer.    *)
(* There is no clock: a pending timer may fire at any moment, and a test   *)
(* of elapsed time against the RTO may go either way.  Sizes are counted   *)
(* in full payloads, so bytesToDownload is a number of chunks.             *)
(***************************************************************************)
EXTENDS CongestionWindow, FiniteSets

CONSTANTS
    Segments,       \* the segments the manager may ask for
    NoSegment,      \* base_uri before the first download
    Level,          \* Level[s]: quality level of s, 0 is the base layer
    Size,           \* Size[s]: number of chunks with payload
    EmptyTail,      \* segments whose last payload is full: one more, empty, Data exists
    Kind,           \* which downloader class
    CwndType,       \* "tcp" or "static"
    MaxPackets,     \* receiver window derived from the link
    InitialChunks,  \* chunks assumed before chunk 0 tells (10 in the code)
    NackLimit,      \* NACKs before a layer is given up (5 in the code)
    Cap,            \* memory cells behind the vector chunk_status
    Duplication,    \* the network may deliver a Data twice
    MaxTries        \* bound: downloads of one segment

\* What resolveDownloader makes, but for SimpleNDN, which no player asks for.
Kinds == {"WindowNDN", "SVCWindowNDN", "NACKCountingSVC"}

ASSUME ConstantsOK ==
    /\ NoSegment \notin Segments
    /\ Level \in [Segments -> Nat]
    /\ Size \in [Segments -> Nat \ {0}]
    /\ EmptyTail \subseteq Segments
    /\ Kind \in Kinds
    /\ CwndType \in CwndTypes
    /\ MaxPackets \in Nat /\ MaxPackets >= CONG_WINDOW_MIN
    /\ InitialChunks \in Nat /\ InitialChunks >= 2
    /\ NackLimit \in Nat \ {0}
    /\ Duplication \in BOOLEAN
    /\ MaxTries \in Nat
    /\ Cap \in Nat /\ Cap >= InitialChunks
    /\ \A s \in Segments : Cap >= Size[s] + 1

\* Chunk numbers, and the memory of their status.
Cells == 0 .. Cap - 1

VARIABLES
    bussy,                  \* IDownloader: owned by a download not yet fetched
    finished,               \* IDownloader: the last byte has arrived
    lastDownloadSuccessful, \* IDownloader: FALSE after a deliberate NACK
    segment,                \* base_uri of the current or last download
    bytesToDownload,        \* -1 until chunk 0 tells the size
    numChunks,              \* size of the vector chunk_status
    chunkStatus,            \* memory behind chunk_status, cells past its size included
    registered,             \* chunks whose entry in chunk_timeout_events is pending
    orphans,                \* pending timeout events no map entry refers to
    scheduleDownloadTimer,  \* chunk the pending timer will request, or NoTimer
    packetsInflight,
    soonFinishedAlreadyFired,
    hadLoss,                \* had_nack or had_timeout
    statsOutputTimer,       \* the periodic reset of hadLoss is scheduled
    cwnd,
    validPackets, nacks,    \* NackCountingSVCDownloader's counters
    network,                \* interests some node may still answer: <<segment, chunk>>
    message,                \* what the last event told the observer
    tries,                  \* history: downloads so far, per segment
    abandoned,              \* history: abortDownload ran since the last download
    overlapped              \* history: a download began before an earlier one was over

flags == <<bussy, finished, lastDownloadSuccessful>>
chunks == <<bytesToDownload, numChunks, chunkStatus>>
timers == <<registered, orphans>>
pacing == <<hadLoss, statsOutputTimer, cwnd>>
counters == <<validPackets, nacks>>
history == <<tries, abandoned, overlapped>>
vars == <<flags, segment, chunks, timers, scheduleDownloadTimer, packetsInflight,
          soonFinishedAlreadyFired, pacing, counters, network, message, history>>

NotInitiated == "NotInitiated"
Requested == "Requested"
Received == "Received"
Timeout == "Timeout"
Aborted == "Aborted"
Status == {NotInitiated, Requested, Received, Timeout, Aborted}

NoTimer == -1
Messages == {"none", "SoonFinished", "SegmentReceived", "NackReceived"}

TypeOK ==
    /\ bussy \in BOOLEAN /\ finished \in BOOLEAN
    /\ lastDownloadSuccessful \in BOOLEAN
    /\ segment \in Segments \cup {NoSegment}
    /\ bytesToDownload \in Int
    /\ numChunks \in Nat /\ (0 .. numChunks - 1) \subseteq Cells
    /\ chunkStatus \in [Cells -> Status]
    /\ registered \in SUBSET Cells
    /\ orphans \in [Cells -> Nat]
    /\ scheduleDownloadTimer \in Cells \cup {NoTimer}
    /\ packetsInflight \in Int
    /\ soonFinishedAlreadyFired \in BOOLEAN
    /\ hadLoss \in BOOLEAN /\ statsOutputTimer \in BOOLEAN
    /\ cwnd \in Window
    /\ validPackets \in Nat /\ nacks \in Nat
    /\ network \in SUBSET (Segments \X Cells)
    /\ tries \in [Segments -> 0 .. MaxTries]
    /\ message \in Messages
    /\ abandoned \in BOOLEAN /\ overlapped \in BOOLEAN

Init ==
    /\ bussy = FALSE /\ finished = FALSE /\ lastDownloadSuccessful = TRUE
    /\ segment = NoSegment
    /\ bytesToDownload = 0 /\ numChunks = 0
    /\ chunkStatus = [c \in Cells |-> NotInitiated]
    /\ registered = {} /\ orphans = [c \in Cells |-> 0]
    /\ scheduleDownloadTimer = NoTimer
    /\ packetsInflight = 0
    /\ soonFinishedAlreadyFired = FALSE
    /\ hadLoss = FALSE /\ statsOutputTimer = FALSE
    /\ cwnd = WindowOfLink(MaxPackets)
    /\ validPackets = 0 /\ nacks = 0
    /\ network = {}
    /\ tries = [s \in Segments |-> 0]
    /\ message = "none"
    /\ abandoned = FALSE /\ overlapped = FALSE
-----------------------------------------------------------------------------
(* Choosing and requesting chunks.  An operator that runs in the middle of  *)
(* a handler takes the values the handler has computed so far.              *)

NeededChunks(status, num) ==
    {c \in Cells : c < num /\ status[c] \notin {Received, Requested, Aborted}}

IsNextNeeded(c, needed) == c \in needed /\ \A k \in needed : c <= k

\* Arms the timer for the lowest needed chunk, in place of a running one; with
\* nothing left to request the observer is told, once per download.
ScheduleNextChunkDownload(status, num, timer, fired) ==
    LET needed == NeededChunks(status, num) IN
    \/ /\ needed = {}
       /\ scheduleDownloadTimer' = timer
       /\ soonFinishedAlreadyFired' = TRUE
       /\ message' = IF fired THEN "none" ELSE "SoonFinished"
    \/ \E c \in Cells :
          /\ IsNextNeeded(c, needed)
          /\ scheduleDownloadTimer' = c
          /\ soonFinishedAlreadyFired' = fired
          /\ message' = "none"

\* prepareInterestForDownload and sending.  A timeout event already pending
\* for the chunk is overwritten in the map, not cancelled.  The SVC classes
\* have no return after sending and look for another chunk once more; nothing
\* comes of it, because the timer is only running when a download starts, and
\* then chunk 1 is still to be requested.
RequestChunk(s, c, status, num, reg, orph, inflight, timer, fired) ==
    LET status1 == [status EXCEPT ![c] = Requested] IN
    /\ chunkStatus' = status1
    /\ registered' = reg \cup {c}
    /\ orphans' = IF c \in reg THEN [orph EXCEPT ![c] = @ + 1] ELSE orph
    /\ packetsInflight' = inflight + 1
    /\ network' = network \cup {<<s, c>>}
    /\ \/ timer = NoTimer /\ ScheduleNextChunkDownload(status1, num, timer, fired)
       \/ /\ timer # NoTimer
          /\ scheduleDownloadTimer' = timer
          /\ soonFinishedAlreadyFired' = fired
          /\ message' = "none"
-----------------------------------------------------------------------------
(* Calls of the DownloadManager.                                            *)

\* Mutant of Occupy: the failure of the last download is not forgotten.
OccupyOnly == bussy' = TRUE /\ UNCHANGED <<finished, lastDownloadSuccessful>>

\* The flags of a new download; finished keeps its value.
Occupy == bussy' = TRUE /\ lastDownloadSuccessful' = TRUE /\ UNCHANGED finished

\* A free downloader may still be at work: chunk 0 has arrived for a download
\* that was given up, or one was fetched with chunks missing.
StillAsking ==
    \/ scheduleDownloadTimer # NoTimer
    \/ \E c \in Cells : c < numChunks /\ chunkStatus[c] \notin {Received, Aborted}

\* The map of timeout events is cleared, and the events in it stay scheduled.  A
\* timer that is still running is left alone.
download(s) ==
    /\ ~bussy
    /\ tries[s] < MaxTries
    /\ tries' = [tries EXCEPT ![s] = @ + 1]
    /\ abandoned' = FALSE
    /\ Occupy
    /\ segment' = s
    /\ bytesToDownload' = -1 /\ numChunks' = InitialChunks
    /\ hadLoss' = FALSE /\ statsOutputTimer' = TRUE
    /\ validPackets' = 0 /\ nacks' = 0
    /\ RequestChunk(s, 0,
           [c \in Cells |-> IF c < InitialChunks THEN NotInitiated ELSE chunkStatus[c]],
           InitialChunks, {},
           [c \in Cells |-> IF c \in registered THEN orphans[c] + 1 ELSE orphans[c]],
           0, scheduleDownloadTimer, FALSE)
    /\ overlapped' = (overlapped \/ StillAsking)
    /\ UNCHANGED cwnd

\* What abortDownload leaves in the status vector: cells past its size are
\* out of the loop's reach.
AbortedStatus ==
    [c \in Cells |-> IF c < numChunks /\ chunkStatus[c] # Received THEN Aborted
                     ELSE chunkStatus[c]]

\* The whole of abortDownload apart from the flags its callers go on to set.
abortDownload ==
    /\ scheduleDownloadTimer' = NoTimer
    /\ statsOutputTimer' = FALSE
    /\ registered' = {}
    /\ chunkStatus' = AbortedStatus
    /\ finished' = FALSE
    /\ abandoned' = TRUE
    /\ UNCHANGED <<segment, bytesToDownload, numChunks, orphans, packetsInflight,
                   soonFinishedAlreadyFired, hadLoss, cwnd, tries, overlapped>>

\* DownloadManager::stop gives up a download and leaves its downloader bussy.
Stop ==
    /\ abortDownload
    /\ message' = "none"
    /\ UNCHANGED <<bussy, lastDownloadSuccessful, counters, network>>

\* Mutant of AbortAndReset: lastDownloadSuccessful is not reset.
AbortAndRelease ==
    /\ bussy /\ ~finished
    /\ abortDownload
    /\ bussy' = FALSE
    /\ message' = "none"
    /\ UNCHANGED <<lastDownloadSuccessful, counters, network>>

\* A layer below failed, or the player wants what there is.
AbortAndReset ==
    /\ bussy /\ ~finished
    /\ abortDownload
    /\ bussy' = FALSE /\ lastDownloadSuccessful' = TRUE
    /\ message' = "none"
    /\ UNCHANGED <<counters, network>>

\* The manager fetches the result of a finished download.
reset ==
    /\ bussy /\ finished /\ lastDownloadSuccessful
    /\ bussy' = FALSE /\ finished' = FALSE
    /\ scheduleDownloadTimer' = NoTimer
    /\ message' = "none"
    /\ UNCHANGED <<lastDownloadSuccessful, segment, chunks, timers, packetsInflight,
                   soonFinishedAlreadyFired, pacing, counters, network, history>>
-----------------------------------------------------------------------------
(* Timers.                                                                  *)

SendChunk(c) ==
    RequestChunk(segment, c, chunkStatus, numChunks, registered, orphans, packetsInflight,
                 NoTimer, soonFinishedAlreadyFired)

\* The paced request of one chunk.  If that chunk has arrived meanwhile the
\* lowest needed one takes its place; with none left the observer is told,
\* and may be told again, for the flag is not set here.
DownloadTimerFires ==
    LET needed == NeededChunks(chunkStatus, numChunks)
        n == scheduleDownloadTimer
    IN
    /\ n # NoTimer
    /\ \/ bytesToDownload # 0 /\ chunkStatus[n] # Received /\ SendChunk(n)
       \/ /\ bytesToDownload # 0 /\ chunkStatus[n] = Received
          /\ \E c \in Cells : IsNextNeeded(c, needed) /\ SendChunk(c)
       \/ /\ bytesToDownload = 0 \/ (chunkStatus[n] = Received /\ needed = {})
          /\ scheduleDownloadTimer' = NoTimer
          /\ message' = IF needed = {} /\ ~soonFinishedAlreadyFired
                        THEN "SoonFinished" ELSE "none"
          /\ UNCHANGED <<chunkStatus, timers, packetsInflight,
                         soonFinishedAlreadyFired, network>>
    /\ UNCHANGED <<flags, segment, bytesToDownload, numChunks, pacing, counters, history>>

\* A loss shrinks the window if the last one is more than an RTO ago.
Penalise(longAgo, inflight) ==
    /\ hadLoss' = (longAgo \/ hadLoss)
    /\ cwnd' = IF longAgo THEN SetThreshold(DecreaseWindow(CwndType, cwnd), inflight)
               ELSE cwnd
    /\ UNCHANGED statsOutputTimer

\* Mutant of MarkTimeout: the chunk stays Requested.
KeepStatus(c) == chunkStatus

\* The status that makes the chunk needed again.
MarkTimeout(c) == [chunkStatus EXCEPT ![c] = Timeout]

\* OnTimeout, whichever request the event was armed for.
OnTimeout(c) ==
    IF chunkStatus[c] = Requested
    THEN LET status == MarkTimeout(c) IN
         /\ packetsInflight' = packetsInflight - 1
         /\ \E longAgo \in BOOLEAN : Penalise(longAgo, packetsInflight - 1)
         /\ chunkStatus' = status
         /\ ScheduleNextChunkDownload(status, numChunks, scheduleDownloadTimer,
                                      soonFinishedAlreadyFired)
    ELSE /\ message' = "none"
         /\ UNCHANGED <<chunkStatus, packetsInflight, pacing, scheduleDownloadTimer,
                        soonFinishedAlreadyFired>>

CheckRetrieveTimeout(c) ==
    /\ c \in registered
    /\ registered' = registered \ {c}
    /\ OnTimeout(c)
    /\ UNCHANGED <<flags, segment, bytesToDownload, numChunks, orphans, counters,
                   network, history>>

\* The event of a request whose map entry is gone.
OrphanedTimeout(c) ==
    /\ orphans[c] > 0
    /\ orphans' = [orphans EXCEPT ![c] = @ - 1]
    /\ OnTimeout(c)
    /\ UNCHANGED <<flags, segment, bytesToDownload, numChunks, registered, counters,
                   network, history>>

collectStats ==
    /\ statsOutputTimer /\ hadLoss
    /\ hadLoss' = FALSE
    /\ message' = "none"
    /\ UNCHANGED <<flags, segment, chunks, timers, scheduleDownloadTimer, packetsInflight,
                   soonFinishedAlreadyFired, statsOutputTimer, cwnd, counters, network,
                   history>>
-----------------------------------------------------------------------------
(* Answers of the network.                                                  *)

\* Chunk 0 carries the size; the provider answers every chunk with payload,
\* and one empty chunk more when the payload fills its last chunk.
Answered(s, c) == c <= Size[s] \/ (s \in EmptyTail /\ c = Size[s] + 1)

\* Mutant of NumChunks: the chunk with the size is counted twice.
NumChunksPlusMeta(s) == Size[s] + 2

\* What chunk 0 announces: the chunks, itself included, and the payload, plus
\* one to make up for the -1 bytesToDownload starts from.
NumChunks(s) == Size[s] + 1

\* Mutant of SizeAnnounced: without making up for the -1.
SizeAlone(s) == Size[s]

SizeAnnounced(s) == Size[s] + 1

PayloadOf(s, c) == IF c \in 1 .. Size[s] THEN 1 ELSE 0

Arrives(s, c) ==
    /\ <<s, c>> \in network
    /\ network' = network \ {<<s, c>>}

DataArrives(s, c) ==
    /\ <<s, c>> \in network
    /\ network' = network \ {<<s, c>>} \/ (Duplication /\ network' = network)
    /\ Answered(s, c)

\* NackCountingSVCDownloader counts every Data, of whatever segment.
CountData ==
    /\ validPackets' = IF Kind = "NACKCountingSVC" THEN validPackets + 1 ELSE validPackets
    /\ UNCHANGED nacks

DropForeignData(s, c) ==
    /\ s # segment
    /\ DataArrives(s, c)
    /\ CountData
    /\ message' = "none"
    /\ UNCHANGED <<flags, segment, chunks, timers, scheduleDownloadTimer, packetsInflight,
                   soonFinishedAlreadyFired, pacing, history>>

\* vector::resize: cells it adds are initialised, cells it drops keep their
\* value in memory.
Resize(status, old, new) ==
    [c \in Cells |-> IF old <= c /\ c < new THEN NotInitiated ELSE status[c]]

Acknowledge ==
    /\ \/ UNCHANGED cwnd
       \/ ~hadLoss /\ cwnd' = IncreaseWindow(CwndType, cwnd)
    /\ UNCHANGED <<hadLoss, statsOutputTimer>>

\* The end of OnData: either the last byte was there, and the observer is told,
\* or another request is scheduled if none is.
FinishOrContinue(bytes, status, num) ==
    \/ /\ bytes = 0
       /\ scheduleDownloadTimer' = NoTimer
       /\ finished' = TRUE /\ lastDownloadSuccessful' = TRUE
       /\ message' = "SegmentReceived"
       /\ UNCHANGED <<bussy, soonFinishedAlreadyFired>>
    \/ /\ bytes # 0 /\ scheduleDownloadTimer = NoTimer
       /\ ScheduleNextChunkDownload(status, num, NoTimer, soonFinishedAlreadyFired)
       /\ UNCHANGED flags
    \/ /\ bytes # 0 /\ scheduleDownloadTimer # NoTimer
       /\ message' = "none"
       /\ UNCHANGED <<flags, scheduleDownloadTimer, soonFinishedAlreadyFired>>

\* Mutant of InflightAfterData: late Data counts as an answer as well.
OneLess(c) == packetsInflight - 1

\* A chunk that had timed out is not in flight any more.
InflightAfterData(c) ==
    IF chunkStatus[c] = Requested THEN packetsInflight - 1 ELSE packetsInflight

\* Mutant of BytesAfterData: a chunk received before is subtracted again.
BytesAfterEveryData(c) ==
    IF c = 0 /\ chunkStatus[c] # Received THEN bytesToDownload + SizeAnnounced(segment)
    ELSE bytesToDownload - PayloadOf(segment, c)

BytesAfterData(c) ==
    IF chunkStatus[c] = Received THEN bytesToDownload
    ELSE IF c = 0 THEN bytesToDownload + SizeAnnounced(segment)
    ELSE bytesToDownload - PayloadOf(segment, c)

\* Data of the current segment.  A chunk received before only has its timeout
\* cancelled; chunk 0 sets the number of chunks.
OnData(c) ==
    LET duplicate == chunkStatus[c] = Received
        first == c = 0 /\ ~duplicate
        num == IF first THEN NumChunks(segment) ELSE numChunks
        status == [chunkStatus EXCEPT ![c] = Received]
        status1 == IF first THEN Resize(status, numChunks, num) ELSE status
        bytes == BytesAfterData(c)
    IN
    /\ DataArrives(segment, c)
    /\ CountData
    /\ packetsInflight' = InflightAfterData(c)
    /\ IF duplicate THEN UNCHANGED pacing ELSE Acknowledge
    /\ registered' = registered \ {c}
    /\ bytesToDownload' = bytes /\ numChunks' = num /\ chunkStatus' = status1
    /\ FinishOrContinue(bytes, status1, num)
    /\ UNCHANGED <<segment, orphans, history>>

\* WindowNDNDownloader::OnNack, which never compares the segment's name.
\* The threshold is set before the request leaves packetsInflight.
BaseOnNack(c) ==
    IF chunkStatus[c] = Requested
    THEN LET status == MarkTimeout(c) IN
         /\ \E longAgo \in BOOLEAN : Penalise(longAgo, packetsInflight)
         /\ registered' = registered \ {c}
         /\ packetsInflight' = packetsInflight - 1
         /\ chunkStatus' = status
         /\ ScheduleNextChunkDownload(status, numChunks, scheduleDownloadTimer,
                                      soonFinishedAlreadyFired)
         /\ UNCHANGED <<flags, segment, bytesToDownload, numChunks, orphans>>
    ELSE /\ message' = "none"
         /\ UNCHANGED <<flags, segment, chunks, timers, scheduleDownloadTimer,
                        packetsInflight, soonFinishedAlreadyFired, pacing>>

\* The plain downloader treats every NACK alike.
OnNack(s, c) ==
    /\ Kind = "WindowNDN"
    /\ Arrives(s, c)
    /\ BaseOnNack(c)
    /\ UNCHANGED <<counters, history>>

\* The SVC classes drop a NACK of another segment.
DropForeignNack(s, c) ==
    /\ Kind # "WindowNDN" /\ s # segment
    /\ Arrives(s, c)
    /\ message' = "none"
    /\ UNCHANGED <<flags, segment, chunks, timers, scheduleDownloadTimer, packetsInflight,
                   soonFinishedAlreadyFired, pacing, counters, history>>

\* checkAbortDownload: enough NACKs, and few Data or more than half as many NACKs.
checkAbortDownload(n, valid) ==
    n >= NackLimit /\ (valid < NackLimit \/ 2 * n > valid)

\* Every NACK of an enhancement layer counts for NackCountingSVCDownloader.
CountNack ==
    /\ nacks' = IF Kind = "NACKCountingSVC" /\ Level[segment] # 0 THEN nacks + 1 ELSE nacks
    /\ UNCHANGED validPackets

\* A node on the path drops the layer on purpose: by a tag the SVC class reads,
\* or by as many NACKs as the counting class tolerates.
LayerGivenUp(tagged) ==
    /\ Level[segment] # 0
    /\ \/ Kind = "SVCWindowNDN" /\ tagged
       \/ Kind = "NACKCountingSVC" /\ checkAbortDownload(nacks', validPackets')

OnLayerNack(c, tagged) ==
    /\ Kind # "WindowNDN"
    /\ Arrives(segment, c)
    /\ CountNack
    /\ \/ /\ LayerGivenUp(tagged)
          /\ abortDownload
          /\ lastDownloadSuccessful' = FALSE
          /\ message' = "NackReceived"
          /\ UNCHANGED bussy
       \/ /\ ~LayerGivenUp(tagged)
          /\ BaseOnNack(c)
          /\ UNCHANGED history

\* The interest's lifetime ends unanswered.
Lose(s, c) ==
    /\ Arrives(s, c)
    /\ message' = "none"
    /\ UNCHANGED <<flags, segment, chunks, timers, scheduleDownloadTimer, packetsInflight,
                   soonFinishedAlreadyFired, pacing, counters, history>>
-----------------------------------------------------------------------------
Manager ==
    \/ \E s \in Segments : download(s)
    \/ Stop
    \/ AbortAndReset
    \/ reset

Timer ==
    \/ DownloadTimerFires
    \/ \E c \in Cells : CheckRetrieveTimeout(c)
    \/ \E c \in Cells : OrphanedTimeout(c)
    \/ collectStats

Network ==
    \/ \E c \in Cells : OnData(c)
    \/ \E c \in Cells, tagged \in BOOLEAN : OnLayerNack(c, tagged)
    \/ \E s \in Segments, c \in Cells :
          DropForeignData(s, c) \/ OnNack(s, c) \/ DropForeignNack(s, c) \/ Lose(s, c)

Next == Manager \/ Timer \/ Network

Spec == Init /\ [][Next]_vars

\* Timers fire; an interest that is repeated for ever is answered for ever and
\* one of the answers is the Data.  The manager's calls, NACKs and losses are
\* not forced.
Fairness ==
    /\ WF_vars(DownloadTimerFires)
    /\ \A c \in Cells :
          /\ WF_vars(CheckRetrieveTimeout(c))
          /\ SF_vars(OnData(c))

FairSpec == Spec /\ Fairness
-----------------------------------------------------------------------------
(* Safety.                                                                  *)

\* Seen through IDownloader's flags and messages the downloader only does what
\* the DownloadManager was written for.
Contract == INSTANCE IDownloader WITH Layered <- Kind # "WindowNDN"

ImplementsIDownloader == Contract!Spec

\* Losses and acknowledgements, in whatever order, keep the window between the
\* minimum and what the link carries.
WindowInBounds == InBounds(cwnd)

\* No interest is waited for without a timeout: every chunk of the segment
\* that is marked Requested has a pending event that will free it again.
EveryRequestGuarded ==
    \A c \in Cells :
        c < numChunks /\ chunkStatus[c] = Requested => c \in registered \/ orphans[c] > 0

\* The cells the current download may have marked: those it started with and
\* those it grew to.
Visible == {c \in Cells : c < InitialChunks \/ c < numChunks}

Live == bussy /\ ~abandoned

\* packets_inflight, which sets the threshold after a loss, is the number of
\* chunks marked Requested, under timeouts, late Data and NACKs, leftover
\* timers and the vector's resizing.  Not so for a download that was given up,
\* nor after one was started on top of another, whose timer asks for a chunk
\* once more.
InflightAccounting ==
    segment # NoSegment /\ ~abandoned /\ ~overlapped =>
        packetsInflight = Cardinality({c \in Visible : chunkStatus[c] = Requested})

\* bytesToDownload reaches 0 only with the last chunk: a download that counts
\* as finished has every chunk of the segment.
FinishedIsComplete ==
    segment # NoSegment /\ bytesToDownload = 0 =>
        \A c \in 0 .. Size[segment] : chunkStatus[c] = Received

\* It is so when the segment is asked for the first time, given up or not, and
\* no download was started on top of another: no chunk is counted twice, in
\* whatever order Data comes, and none past the end counts.
FirstDownloadIsComplete ==
    segment # NoSegment /\ tries[segment] <= 1 /\ ~overlapped => FinishedIsComplete

\* What is reported as given up is never the base layer, not even by NACKs that
\* come when the downloader is already working on something else.
OnlyEnhancementsGivenUp ==
    ~lastDownloadSuccessful => segment # NoSegment /\ Level[segment] > 0
-----------------------------------------------------------------------------
(* Liveness.                                                                *)

\* A download that nobody interrupts receives its last byte, although the
\* network loses, delays and refuses interests.
DownloadFinishes == Live ~> bytesToDownload = 0 \/ ~Live
=============================================================================
