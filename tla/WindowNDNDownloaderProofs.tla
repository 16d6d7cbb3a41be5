---------------------- MODULE WindowNDNDownloaderProofs ----------------------
(***************************************************************************)
(* Proofs about the downloader: its types and the bounds of its window,    *)
(* proved together as the window stays in Window because it stays within   *)
(* its limits; that no request is without a timeout; that it implements    *)
(* the contract IDownloader and gives only enhancement layers up; and that *)
(* its accounts, of packets in flight and of bytes to download, add up.    *)
(***************************************************************************)
EXTENDS WindowNDNDownloader, TLAPS, FiniteSetTheorems

(* What the operations on a congestion window keep, whatever its values.    *)

\* Any size asked for is brought within the limits, if these leave room
\* (SetWindowSize).
LEMMA SetSizeInBounds ==
    ASSUME NEW w \in Window, CONG_WINDOW_MIN <= w.recv, NEW size \in Int
    PROVE  SetWindowSize(w, size) \in Window /\ InBounds(SetWindowSize(w, size))
<1> DEFINE new == Smaller(Larger(size, CONG_WINDOW_MIN), w.recv)
<1>1. new \in Int /\ CONG_WINDOW_MIN <= new /\ new <= w.recv
  BY DEF Window, Smaller, Larger, CONG_WINDOW_MIN
<1>2. SetWindowSize(w, size) = [w EXCEPT !.size = new]
  BY DEF SetWindowSize
<1> HIDE DEF new
<1> QED
  BY <1>1, <1>2 DEF Window, InBounds

\* The threshold is no limit of the window (SetThreshold).
LEMMA ThresholdKeepsBounds ==
    ASSUME NEW w \in Window, InBounds(w), NEW threshold \in Int
    PROVE  SetThreshold(w, threshold) \in Window /\ InBounds(SetThreshold(w, threshold))
BY DEF SetThreshold, Window, InBounds

\* The window a link of at least two packets gives is within its limits
\* (setNodeForNDN).
LEMMA WindowOfLinkInBounds ==
    ASSUME NEW maxPackets \in Nat, maxPackets >= CONG_WINDOW_MIN
    PROVE  WindowOfLink(maxPackets) \in Window /\ InBounds(WindowOfLink(maxPackets))
<1> DEFINE start == [size |-> CONG_WINDOW_MIN, threshold |-> 64, recv |-> maxPackets]
           full == SetWindowSize(start, maxPackets)
<1>1. start \in Window /\ CONG_WINDOW_MIN <= start.recv
  BY DEF Window, CONG_WINDOW_MIN
<1> HIDE DEF start
<1>2. full \in Window /\ InBounds(full)
  BY <1>1, SetSizeInBounds
<1>3. WindowOfLink(maxPackets) = SetThreshold(full, maxPackets \div 2)
  BY DEF WindowOfLink, start
<1>4. maxPackets \div 2 \in Int
  OBVIOUS
<1> HIDE DEF full
<1> QED
  BY <1>2, <1>3, <1>4, ThresholdKeepsBounds

\* Growing never passes the receiver window (IncreaseWindow).
LEMMA IncreaseInBounds ==
    ASSUME NEW type \in CwndTypes, NEW w \in Window, InBounds(w)
    PROVE  IncreaseWindow(type, w) \in Window /\ InBounds(IncreaseWindow(type, w))
<1> DEFINE doubled == w.size * CONG_WINDOW_MULTIPLICATOR
           grown == IF doubled > w.threshold THEN w.size + 1 ELSE doubled
           new == Smaller(grown, w.recv)
<1>1. w.size \in Int /\ w.recv \in Int /\ w.threshold \in Int
  BY DEF Window
<1>2. new \in Int /\ CONG_WINDOW_MIN <= new /\ new <= w.recv
  BY <1>1 DEF InBounds, Smaller, CONG_WINDOW_MIN, CONG_WINDOW_MULTIPLICATOR
<1>3. IncreaseWindow(type, w) = w \/ IncreaseWindow(type, w) = [w EXCEPT !.size = new]
  BY DEF IncreaseWindow
<1> HIDE DEF new
<1> QED
  BY <1>2, <1>3 DEF Window, InBounds

\* Shrinking never passes the minimum, and a receiver window that has room for
\* the minimum still holds the result (DecreaseWindow).
LEMMA DecreaseInBounds ==
    ASSUME NEW type \in CwndTypes, NEW w \in Window, InBounds(w)
    PROVE  DecreaseWindow(type, w) \in Window /\ InBounds(DecreaseWindow(type, w))
<1> DEFINE new == Larger(w.size \div 2, CONG_WINDOW_MIN)
<1>1. w.size \in Int /\ w.recv \in Int
  BY DEF Window
<1>2. new \in Int /\ CONG_WINDOW_MIN <= new /\ new <= w.recv
  BY <1>1 DEF InBounds, Larger, CONG_WINDOW_MIN
<1>3. DecreaseWindow(type, w) = w \/ DecreaseWindow(type, w) = [w EXCEPT !.size = new]
  BY DEF DecreaseWindow
<1> HIDE DEF new
<1> QED
  BY <1>2, <1>3 DEF Window, InBounds
-----------------------------------------------------------------------------

\* What the proofs use of the constants.
LEMMA Constants ==
    /\ NoTimer \notin Cells /\ 0 \in Cells /\ 1 \in Cells
    /\ Cells \subseteq Nat
    /\ InitialChunks \in Nat /\ Cap \in Nat /\ CwndType \in CwndTypes
    /\ (0 .. InitialChunks - 1) \subseteq Cells
    /\ \A s \in Segments : Size[s] \in Nat /\ (0 .. NumChunks(s) - 1) \subseteq Cells
BY ConstantsOK DEF ConstantsOK, Cells, NoTimer, NumChunks

\* Scheduling arms the timer for a chunk or leaves it alone
\* (ScheduleNextChunkDownload).
LEMMA ScheduleType ==
    ASSUME NEW status, NEW num, NEW timer \in Cells \cup {NoTimer}, NEW fired \in BOOLEAN,
           ScheduleNextChunkDownload(status, num, timer, fired)
    PROVE  /\ scheduleDownloadTimer' \in Cells \cup {NoTimer}
           /\ soonFinishedAlreadyFired' \in BOOLEAN
           /\ message' \in {"none", "SoonFinished"}
BY DEF ScheduleNextChunkDownload

\* A request keeps the types of the chunks and of their timeouts
\* (prepareInterestForDownload).
LEMMA RequestType ==
    ASSUME NEW s \in Segments, NEW c \in Cells, NEW status \in [Cells -> Status],
           NEW num, NEW reg \in SUBSET Cells, NEW orph \in [Cells -> Nat],
           NEW inflight \in Int, NEW timer \in Cells \cup {NoTimer}, NEW fired \in BOOLEAN,
           network \in SUBSET (Segments \X Cells),
           RequestChunk(s, c, status, num, reg, orph, inflight, timer, fired)
    PROVE  /\ chunkStatus' \in [Cells -> Status]
           /\ registered' \in SUBSET Cells /\ orphans' \in [Cells -> Nat]
           /\ packetsInflight' \in Int
           /\ network' \in SUBSET (Segments \X Cells)
           /\ scheduleDownloadTimer' \in Cells \cup {NoTimer}
           /\ soonFinishedAlreadyFired' \in BOOLEAN
           /\ message' \in {"none", "SoonFinished"}
<1>1. /\ chunkStatus' \in [Cells -> Status]
      /\ registered' \in SUBSET Cells
      /\ packetsInflight' \in Int
      /\ network' \in SUBSET (Segments \X Cells)
  BY DEF RequestChunk, Status
<1>2. orphans' \in [Cells -> Nat]
  BY DEF RequestChunk
<1>3. /\ scheduleDownloadTimer' \in Cells \cup {NoTimer}
      /\ soonFinishedAlreadyFired' \in BOOLEAN
      /\ message' \in {"none", "SoonFinished"}
  <2>1. CASE timer = NoTimer
    BY <2>1, ScheduleType DEF RequestChunk
  <2>2. CASE timer # NoTimer
    BY <2>2 DEF RequestChunk
  <2> QED  BY <2>1, <2>2
<1> QED  BY <1>1, <1>2, <1>3

\* A loss leaves a window within its limits (OnTimeout, OnNack).
LEMMA PenaliseType ==
    ASSUME TypeOK, WindowInBounds, NEW longAgo \in BOOLEAN, NEW inflight \in Int,
           Penalise(longAgo, inflight)
    PROVE  /\ hadLoss' \in BOOLEAN /\ statsOutputTimer' \in BOOLEAN
           /\ cwnd' \in Window /\ InBounds(cwnd')
<1>1. hadLoss' \in BOOLEAN /\ statsOutputTimer' \in BOOLEAN
  BY DEF Penalise, TypeOK
<1>2. cwnd \in Window /\ InBounds(cwnd) /\ CwndType \in CwndTypes
  BY Constants DEF TypeOK, WindowInBounds
<1>3. /\ DecreaseWindow(CwndType, cwnd) \in Window
      /\ InBounds(DecreaseWindow(CwndType, cwnd))
  BY <1>2, DecreaseInBounds
<1>4. cwnd' \in Window /\ InBounds(cwnd')
  BY <1>2, <1>3, ThresholdKeepsBounds DEF Penalise
<1> QED  BY <1>1, <1>4

\* An acknowledgement leaves a window within its limits (OnData).
LEMMA AcknowledgeType ==
    ASSUME TypeOK, WindowInBounds, Acknowledge
    PROVE  /\ hadLoss' \in BOOLEAN /\ statsOutputTimer' \in BOOLEAN
           /\ cwnd' \in Window /\ InBounds(cwnd')
BY Constants, IncreaseInBounds DEF Acknowledge, TypeOK, WindowInBounds
-----------------------------------------------------------------------------
\* The part of the type invariant a timeout or a NACK may touch.
LossType ==
    /\ chunkStatus \in [Cells -> Status]
    /\ packetsInflight \in Int
    /\ scheduleDownloadTimer \in Cells \cup {NoTimer}
    /\ soonFinishedAlreadyFired \in BOOLEAN
    /\ hadLoss \in BOOLEAN /\ statsOutputTimer \in BOOLEAN
    /\ cwnd \in Window /\ InBounds(cwnd)
    /\ message \in Messages

\* A chunk timed out is a chunk whose status changed (OnTimeout).
LEMMA MarkTimeoutType ==
    ASSUME TypeOK, NEW c \in Cells
    PROVE  MarkTimeout(c) \in [Cells -> Status]
BY DEF MarkTimeout, TypeOK, Status, Timeout

\* OnTimeout keeps the types of what it touches.
LEMMA OnTimeoutType ==
    ASSUME TypeOK, WindowInBounds, NEW c \in Cells, OnTimeout(c)
    PROVE  LossType'
<1>1. CASE chunkStatus[c] = Requested
  <2>1. PICK longAgo \in BOOLEAN : Penalise(longAgo, packetsInflight - 1)
    BY <1>1 DEF OnTimeout
  <2>2. packetsInflight' \in Int /\ packetsInflight - 1 \in Int
    BY <1>1 DEF OnTimeout, TypeOK
  <2>3. /\ hadLoss' \in BOOLEAN /\ statsOutputTimer' \in BOOLEAN
        /\ cwnd' \in Window /\ InBounds(cwnd')
    BY <2>1, <2>2, PenaliseType
  <2>4. chunkStatus' \in [Cells -> Status]
    BY <1>1, MarkTimeoutType DEF OnTimeout
  <2>5. ScheduleNextChunkDownload(MarkTimeout(c), numChunks, scheduleDownloadTimer,
                                  soonFinishedAlreadyFired)
    BY <1>1 DEF OnTimeout
  <2>6. /\ scheduleDownloadTimer' \in Cells \cup {NoTimer}
        /\ soonFinishedAlreadyFired' \in BOOLEAN
        /\ message' \in Messages
    BY <2>5, ScheduleType DEF TypeOK, Messages
  <2> QED  BY <2>2, <2>3, <2>4, <2>6 DEF LossType
<1>2. CASE chunkStatus[c] # Requested
  BY <1>2 DEF OnTimeout, LossType, TypeOK, WindowInBounds, Messages, pacing
<1> QED  BY <1>1, <1>2

\* So does OnNack of the base class.
LEMMA BaseOnNackType ==
    ASSUME TypeOK, WindowInBounds, NEW c \in Cells, BaseOnNack(c)
    PROVE  LossType' /\ registered' \in SUBSET Cells
<1>1. CASE chunkStatus[c] = Requested
  <2>1. PICK longAgo \in BOOLEAN : Penalise(longAgo, packetsInflight)
    BY <1>1 DEF BaseOnNack
  <2>2. packetsInflight' \in Int /\ packetsInflight \in Int
    BY <1>1 DEF BaseOnNack, TypeOK
  <2>3. /\ hadLoss' \in BOOLEAN /\ statsOutputTimer' \in BOOLEAN
        /\ cwnd' \in Window /\ InBounds(cwnd')
    BY <2>1, <2>2, PenaliseType
  <2>4. chunkStatus' \in [Cells -> Status] /\ registered' \in SUBSET Cells
    BY <1>1, MarkTimeoutType DEF BaseOnNack, TypeOK
  <2>5. ScheduleNextChunkDownload(MarkTimeout(c), numChunks, scheduleDownloadTimer,
                                  soonFinishedAlreadyFired)
    BY <1>1 DEF BaseOnNack
  <2>6. /\ scheduleDownloadTimer' \in Cells \cup {NoTimer}
        /\ soonFinishedAlreadyFired' \in BOOLEAN
        /\ message' \in Messages
    BY <2>5, ScheduleType DEF TypeOK, Messages
  <2> QED  BY <2>2, <2>3, <2>4, <2>6 DEF LossType
<1>2. CASE chunkStatus[c] # Requested
  BY <1>2 DEF BaseOnNack, LossType, TypeOK, WindowInBounds, Messages, pacing, chunks,
              timers
<1> QED  BY <1>1, <1>2

\* What abortDownload leaves behind is well typed.
LEMMA AbortType ==
    ASSUME TypeOK, abortDownload
    PROVE  /\ scheduleDownloadTimer' \in Cells \cup {NoTimer}
           /\ chunkStatus' \in [Cells -> Status]
           /\ registered' \in SUBSET Cells
           /\ finished' \in BOOLEAN /\ abandoned' \in BOOLEAN
           /\ statsOutputTimer' \in BOOLEAN
BY DEF abortDownload, AbortedStatus, TypeOK, Status
-----------------------------------------------------------------------------
(* The operations, one by one.                                              *)

\* Nothing runs before the first download.
IdleBeforeFirst ==
    segment = NoSegment =>
        /\ scheduleDownloadTimer = NoTimer
        /\ registered = {} /\ \A c \in Cells : orphans[c] = 0
        /\ network = {}

TypeInv == TypeOK /\ WindowInBounds /\ IdleBeforeFirst

\* The first state (the constructor, then setNodeForNDN).
LEMMA InitType == Init => TypeInv
<1> SUFFICES ASSUME Init PROVE TypeInv
  OBVIOUS
<1>1. cwnd \in Window /\ InBounds(cwnd)
  BY ConstantsOK, WindowOfLinkInBounds DEF ConstantsOK, Init
<1>2. /\ bytesToDownload \in Int /\ packetsInflight \in Int
      /\ validPackets \in Nat /\ nacks \in Nat
      /\ numChunks \in Nat /\ (0 .. numChunks - 1) \subseteq Cells
      /\ tries \in [Segments -> 0 .. MaxTries]
      /\ orphans \in [Cells -> Nat]
  BY ConstantsOK DEF Init, ConstantsOK
<1>3. /\ bussy \in BOOLEAN /\ finished \in BOOLEAN /\ lastDownloadSuccessful \in BOOLEAN
      /\ soonFinishedAlreadyFired \in BOOLEAN
      /\ hadLoss \in BOOLEAN /\ statsOutputTimer \in BOOLEAN
      /\ abandoned \in BOOLEAN /\ overlapped \in BOOLEAN
  BY DEF Init
<1>4. /\ chunkStatus \in [Cells -> Status] /\ registered \in SUBSET Cells
      /\ segment \in Segments \cup {NoSegment}
      /\ scheduleDownloadTimer \in Cells \cup {NoTimer}
      /\ network \in SUBSET (Segments \X Cells) /\ message \in Messages
  BY DEF Init, Status, Messages
<1>5. TypeOK
  BY <1>1, <1>2, <1>3, <1>4 DEF TypeOK
<1>6. IdleBeforeFirst
  BY DEF Init, IdleBeforeFirst
<1> QED  BY <1>1, <1>5, <1>6 DEF TypeInv, WindowInBounds

\* download: a new status vector, a request for chunk 0.
LEMMA DownloadType ==
    ASSUME TypeInv, NEW s \in Segments, download(s)
    PROVE  TypeInv'
<1> DEFINE status == [c \in Cells |->
                        IF c < InitialChunks THEN NotInitiated ELSE chunkStatus[c]]
           orph == [c \in Cells |->
                        IF c \in registered THEN orphans[c] + 1 ELSE orphans[c]]
<1> USE DEF TypeInv
<1>1. status \in [Cells -> Status] /\ orph \in [Cells -> Nat]
  BY DEF TypeOK, Status
<1>2. RequestChunk(s, 0, status, InitialChunks, {}, orph, 0, scheduleDownloadTimer, FALSE)
  BY DEF download, Occupy
<1>3. /\ 0 \in Cells /\ {} \in SUBSET Cells /\ 0 \in Int /\ FALSE \in BOOLEAN
      /\ scheduleDownloadTimer \in Cells \cup {NoTimer}
      /\ network \in SUBSET (Segments \X Cells)
  BY Constants DEF TypeOK
<1> HIDE DEF status, orph
<1>4. /\ chunkStatus' \in [Cells -> Status]
      /\ registered' \in SUBSET Cells /\ orphans' \in [Cells -> Nat]
      /\ packetsInflight' \in Int
      /\ network' \in SUBSET (Segments \X Cells)
      /\ scheduleDownloadTimer' \in Cells \cup {NoTimer}
      /\ soonFinishedAlreadyFired' \in BOOLEAN
      /\ message' \in {"none", "SoonFinished"}
  BY <1>1, <1>2, <1>3, RequestType
<1>5. tries' \in [Segments -> 0 .. MaxTries]
  BY ConstantsOK DEF ConstantsOK, download, Occupy, TypeOK
<1>6. WindowInBounds' /\ IdleBeforeFirst'
  BY ConstantsOK DEF download, Occupy, WindowInBounds, IdleBeforeFirst, ConstantsOK
<1>7. /\ bussy' \in BOOLEAN /\ finished' \in BOOLEAN /\ lastDownloadSuccessful' \in BOOLEAN
      /\ segment' \in Segments \cup {NoSegment}
      /\ hadLoss' \in BOOLEAN /\ statsOutputTimer' \in BOOLEAN
      /\ cwnd' \in Window
      /\ abandoned' \in BOOLEAN /\ overlapped' \in BOOLEAN
  BY DEF download, Occupy, TypeOK
<1>8. /\ numChunks' \in Nat /\ (0 .. numChunks' - 1) \subseteq Cells
      /\ bytesToDownload' \in Int /\ validPackets' \in Nat /\ nacks' \in Nat
  BY Constants DEF download, Occupy
<1> QED  BY <1>4, <1>5, <1>6, <1>7, <1>8 DEF TypeOK, Messages

\* The manager's stop, abort and reset.
LEMMA GiveUpType ==
    ASSUME TypeInv, Stop \/ AbortAndReset \/ reset
    PROVE  TypeInv'
<1> USE DEF TypeInv
<1>1. CASE Stop \/ AbortAndReset
  <2>1. abortDownload
    BY <1>1 DEF Stop, AbortAndReset
  <2>2. bussy' \in BOOLEAN /\ lastDownloadSuccessful' \in BOOLEAN /\ message' \in Messages
    BY <1>1 DEF Stop, AbortAndReset, TypeOK, Messages
  <2>3. UNCHANGED <<counters, network>>
    BY <1>1 DEF Stop, AbortAndReset
  <2>4. WindowInBounds' /\ IdleBeforeFirst'
    BY <2>1, <2>3 DEF abortDownload, WindowInBounds, IdleBeforeFirst
  <2> QED
    BY <2>1, <2>2, <2>3, <2>4, AbortType DEF abortDownload, TypeOK, counters
<1>2. CASE reset
  BY <1>2 DEF reset, TypeOK, Messages, WindowInBounds, IdleBeforeFirst, chunks, timers,
              pacing, counters, history
<1> QED  BY <1>1, <1>2
\* The paced request.
LEMMA DownloadTimerType ==
    ASSUME TypeInv, DownloadTimerFires
    PROVE  TypeInv'
<1> DEFINE send(c) ==
        RequestChunk(segment, c, chunkStatus, numChunks, registered, orphans,
                     packetsInflight, NoTimer, soonFinishedAlreadyFired)
<1> USE DEF TypeInv
<1>1. UNCHANGED <<flags, segment, bytesToDownload, numChunks, pacing, counters, history>>
  BY DEF DownloadTimerFires, SendChunk
<1>2. scheduleDownloadTimer \in Cells /\ segment # NoSegment /\ segment \in Segments
  BY DEF DownloadTimerFires, SendChunk, IdleBeforeFirst, TypeOK
<1>3. WindowInBounds' /\ IdleBeforeFirst'
  BY <1>1, <1>2 DEF WindowInBounds, pacing, IdleBeforeFirst
<1>4. \/ \E c \in Cells : send(c)
      \/ /\ scheduleDownloadTimer' = NoTimer
         /\ message' \in {"none", "SoonFinished"}
         /\ UNCHANGED <<chunkStatus, timers, packetsInflight, soonFinishedAlreadyFired,
                        network>>
  BY <1>2 DEF DownloadTimerFires, SendChunk
<1>5. /\ chunkStatus' \in [Cells -> Status]
      /\ registered' \in SUBSET Cells /\ orphans' \in [Cells -> Nat]
      /\ packetsInflight' \in Int
      /\ network' \in SUBSET (Segments \X Cells)
      /\ scheduleDownloadTimer' \in Cells \cup {NoTimer}
      /\ soonFinishedAlreadyFired' \in BOOLEAN
      /\ message' \in {"none", "SoonFinished"}
  <2>1. CASE \E c \in Cells : send(c)
    <3>1. PICK c \in Cells : send(c)
      BY <2>1
    <3>2. /\ chunkStatus \in [Cells -> Status] /\ registered \in SUBSET Cells
          /\ orphans \in [Cells -> Nat] /\ packetsInflight \in Int
          /\ soonFinishedAlreadyFired \in BOOLEAN
          /\ network \in SUBSET (Segments \X Cells)
      BY DEF TypeOK
    <3> QED  BY <1>2, <3>1, <3>2, RequestType
  <2>2. CASE /\ scheduleDownloadTimer' = NoTimer
             /\ message' \in {"none", "SoonFinished"}
             /\ UNCHANGED <<chunkStatus, timers, packetsInflight, soonFinishedAlreadyFired,
                            network>>
    BY <2>2 DEF TypeOK, timers
  <2> QED  BY <1>4, <2>1, <2>2
<1> QED
  BY <1>1, <1>3, <1>5 DEF TypeOK, Messages, flags, pacing, counters, history

\* Timeouts, of a request the map knows or not.
LEMMA TimeoutType ==
    ASSUME TypeInv, NEW c \in Cells, CheckRetrieveTimeout(c) \/ OrphanedTimeout(c)
    PROVE  TypeInv'
<1> USE DEF TypeInv
<1>1. OnTimeout(c)
  BY DEF CheckRetrieveTimeout, OrphanedTimeout
<1>2. LossType'
  BY <1>1, OnTimeoutType
<1>3. registered' \in SUBSET Cells /\ orphans' \in [Cells -> Nat]
  BY DEF CheckRetrieveTimeout, OrphanedTimeout, TypeOK
<1>4. UNCHANGED <<flags, segment, bytesToDownload, numChunks, counters, network, history>>
  BY DEF CheckRetrieveTimeout, OrphanedTimeout
<1>5. segment # NoSegment
  BY DEF CheckRetrieveTimeout, OrphanedTimeout, IdleBeforeFirst, TypeOK
<1>6. WindowInBounds' /\ IdleBeforeFirst'
  BY <1>2, <1>4, <1>5 DEF LossType, WindowInBounds, IdleBeforeFirst
<1> QED
  BY <1>2, <1>3, <1>4, <1>6 DEF LossType, TypeOK, flags, counters, history

\* The periodic statistics.
LEMMA StatsType ==
    ASSUME TypeInv, collectStats
    PROVE  TypeInv'
BY DEF TypeInv, collectStats, TypeOK, Messages, WindowInBounds, IdleBeforeFirst, flags,
       chunks, timers, counters, history

\* Answers that are dropped or lost.
LEMMA DroppedType ==
    ASSUME TypeInv, NEW s \in Segments, NEW c \in Cells,
           DropForeignData(s, c) \/ DropForeignNack(s, c) \/ Lose(s, c)
    PROVE  TypeInv'
<1> USE DEF TypeInv
<1>1. /\ network' \in SUBSET (Segments \X Cells) /\ segment # NoSegment
      /\ message' = "none"
      /\ UNCHANGED <<flags, segment, chunks, timers, scheduleDownloadTimer,
                     packetsInflight, soonFinishedAlreadyFired, pacing, history>>
  BY DEF DropForeignData, DropForeignNack, Lose, DataArrives, Arrives, TypeOK,
         IdleBeforeFirst
<1>2. validPackets' \in Nat /\ nacks' \in Nat
  BY DEF DropForeignData, DropForeignNack, Lose, CountData, TypeOK, counters
<1> QED
  BY <1>1, <1>2 DEF TypeOK, Messages, WindowInBounds, IdleBeforeFirst, flags, chunks,
                    timers, pacing, history
\* The network only answers interests that were sent.
LEMMA AnswerOfRequest ==
    ASSUME TypeInv, NEW s, NEW c, <<s, c>> \in network
    PROVE  s \in Segments /\ c \in Cells /\ segment \in Segments
BY DEF TypeInv, TypeOK, IdleBeforeFirst

\* The end of OnData: finished, or the next request scheduled.
LEMMA FinishOrContinueType ==
    ASSUME TypeOK, NEW bytes, NEW status, NEW num, FinishOrContinue(bytes, status, num)
    PROVE  /\ bussy' \in BOOLEAN /\ finished' \in BOOLEAN
           /\ lastDownloadSuccessful' \in BOOLEAN
           /\ scheduleDownloadTimer' \in Cells \cup {NoTimer}
           /\ soonFinishedAlreadyFired' \in BOOLEAN
           /\ message' \in Messages
<1>1. CASE ScheduleNextChunkDownload(status, num, NoTimer, soonFinishedAlreadyFired)
           /\ UNCHANGED flags
  BY <1>1, ScheduleType DEF TypeOK, Messages, flags
<1>2. CASE ~(ScheduleNextChunkDownload(status, num, NoTimer, soonFinishedAlreadyFired)
             /\ UNCHANGED flags)
  BY <1>2 DEF FinishOrContinue, TypeOK, Messages, flags
<1> QED  BY <1>1, <1>2

\* Data of the current segment.
LEMMA OnDataType ==
    ASSUME TypeInv, NEW c \in Cells, OnData(c)
    PROVE  TypeInv'
<1> DEFINE duplicate == chunkStatus[c] = Received
           first == c = 0 /\ ~duplicate
           num == IF first THEN NumChunks(segment) ELSE numChunks
           status == [chunkStatus EXCEPT ![c] = Received]
           status1 == IF first THEN Resize(status, numChunks, num) ELSE status
<1> USE DEF TypeInv
<1>1. /\ DataArrives(segment, c) /\ CountData
      /\ packetsInflight' = InflightAfterData(c)
      /\ IF duplicate THEN UNCHANGED pacing ELSE Acknowledge
      /\ registered' = registered \ {c}
      /\ bytesToDownload' = BytesAfterData(c) /\ numChunks' = num /\ chunkStatus' = status1
      /\ FinishOrContinue(BytesAfterData(c), status1, num)
      /\ UNCHANGED <<segment, orphans, history>>
  BY DEF OnData
<1>2. segment \in Segments /\ segment # NoSegment
  BY <1>1, AnswerOfRequest, ConstantsOK DEF DataArrives, ConstantsOK
<1>3. num \in Nat /\ (0 .. num - 1) \subseteq Cells
  BY <1>2, Constants DEF TypeOK, NumChunks
<1>4. status1 \in [Cells -> Status]
  <2>1. status \in [Cells -> Status]
    BY DEF TypeOK, Status
  <2> HIDE DEF status
  <2>2. Resize(status, numChunks, num) \in [Cells -> Status]
    BY <2>1 DEF Resize, Status
  <2> QED  BY <2>1, <2>2
<1>5. bytesToDownload' \in Int /\ packetsInflight' \in Int
  <2>1. SizeAnnounced(segment) \in Int /\ PayloadOf(segment, c) \in Int
    BY <1>2, Constants DEF SizeAnnounced, PayloadOf
  <2> QED
    BY <1>1, <2>1 DEF BytesAfterData, InflightAfterData, TypeOK
<1>6. /\ hadLoss' \in BOOLEAN /\ statsOutputTimer' \in BOOLEAN
      /\ cwnd' \in Window /\ InBounds(cwnd')
  <2>1. CASE Acknowledge
    BY <2>1, AcknowledgeType
  <2>2. CASE UNCHANGED pacing
    BY <2>2 DEF pacing, TypeOK, WindowInBounds
  <2> QED  BY <1>1, <2>1, <2>2
<1>7. /\ network' \in SUBSET (Segments \X Cells)
      /\ validPackets' \in Nat /\ nacks' \in Nat
      /\ registered' \in SUBSET Cells
  BY <1>1 DEF DataArrives, CountData, TypeOK
<1> HIDE DEF num, status1
<1>8. /\ bussy' \in BOOLEAN /\ finished' \in BOOLEAN
      /\ lastDownloadSuccessful' \in BOOLEAN
      /\ scheduleDownloadTimer' \in Cells \cup {NoTimer}
      /\ soonFinishedAlreadyFired' \in BOOLEAN
      /\ message' \in Messages
  BY <1>1, FinishOrContinueType
<1>9. /\ segment' \in Segments \cup {NoSegment}
      /\ orphans' \in [Cells -> Nat] /\ tries' \in [Segments -> 0 .. MaxTries]
      /\ abandoned' \in BOOLEAN /\ overlapped' \in BOOLEAN
  BY <1>1 DEF TypeOK, history
<1>10. WindowInBounds' /\ IdleBeforeFirst'
  BY <1>1, <1>2, <1>6 DEF WindowInBounds, IdleBeforeFirst
<1>11. numChunks' \in Nat /\ (0 .. numChunks' - 1) \subseteq Cells
  BY <1>1, <1>3
<1>12. chunkStatus' \in [Cells -> Status]
  BY <1>1, <1>4
<1> QED
  BY <1>5, <1>6, <1>7, <1>8, <1>9, <1>10, <1>11, <1>12 DEF TypeOK

\* A NACK the base class handles, whichever class received it.
LEMMA BaseNackType ==
    ASSUME TypeInv, NEW s, NEW c \in Cells, Arrives(s, c), BaseOnNack(c),
           validPackets' \in Nat, nacks' \in Nat, UNCHANGED history
    PROVE  TypeInv'
<1> USE DEF TypeInv
<1>1. segment \in Segments /\ segment # NoSegment
  BY AnswerOfRequest, ConstantsOK DEF Arrives, ConstantsOK
<1>2. LossType' /\ registered' \in SUBSET Cells
  BY BaseOnNackType
<1>3. UNCHANGED <<flags, segment, bytesToDownload, numChunks, orphans>>
  BY DEF BaseOnNack, chunks, timers
<1>4. network' \in SUBSET (Segments \X Cells)
  BY DEF Arrives, TypeOK
<1>5. WindowInBounds' /\ IdleBeforeFirst'
  BY <1>1, <1>2, <1>3 DEF LossType, WindowInBounds, IdleBeforeFirst
<1> QED
  BY <1>2, <1>3, <1>4, <1>5 DEF LossType, TypeOK, flags, history

\* A NACK of the plain downloader.
LEMMA OnNackType ==
    ASSUME TypeInv, NEW s \in Segments, NEW c \in Cells, OnNack(s, c)
    PROVE  TypeInv'
<1>1. Arrives(s, c) /\ BaseOnNack(c) /\ UNCHANGED history
  BY DEF OnNack
<1>2. validPackets' \in Nat /\ nacks' \in Nat
  BY DEF OnNack, counters, TypeInv, TypeOK
<1> QED  BY <1>1, <1>2, BaseNackType

\* A NACK of the layered downloaders.
LEMMA OnLayerNackType ==
    ASSUME TypeInv, NEW c \in Cells, NEW tagged \in BOOLEAN, OnLayerNack(c, tagged)
    PROVE  TypeInv'
<1>1. Arrives(segment, c)
  BY DEF OnLayerNack
<1>2. validPackets' \in Nat /\ nacks' \in Nat
  BY DEF OnLayerNack, CountNack, TypeInv, TypeOK
<1>3. CASE /\ abortDownload /\ lastDownloadSuccessful' = FALSE
           /\ message' = "NackReceived" /\ UNCHANGED bussy
  <2> USE DEF TypeInv
  <2>1. segment # NoSegment
    BY <1>1, AnswerOfRequest, ConstantsOK DEF Arrives, ConstantsOK
  <2>2. network' \in SUBSET (Segments \X Cells)
    BY <1>1 DEF Arrives, TypeOK
  <2>3. WindowInBounds' /\ IdleBeforeFirst'
    BY <1>3, <2>1 DEF abortDownload, WindowInBounds, IdleBeforeFirst
  <2> QED
    BY <1>2, <1>3, <2>2, <2>3, AbortType DEF abortDownload, TypeOK, Messages
<1>4. CASE BaseOnNack(c) /\ UNCHANGED history
  BY <1>1, <1>2, <1>4, BaseNackType
<1> QED  BY <1>3, <1>4 DEF OnLayerNack
-----------------------------------------------------------------------------
LEMMA NextType == TypeInv /\ [Next]_vars => TypeInv'
<1> SUFFICES ASSUME TypeInv, [Next]_vars PROVE TypeInv'
  OBVIOUS
<1>1. CASE Manager
  BY <1>1, DownloadType, GiveUpType DEF Manager
<1>2. CASE Timer
  BY <1>2, DownloadTimerType, TimeoutType, StatsType DEF Timer
<1>3. CASE Network
  BY <1>3, OnDataType, OnLayerNackType, OnNackType, DroppedType DEF Network
<1>4. CASE UNCHANGED vars
  BY <1>4 DEF TypeInv, TypeOK, WindowInBounds, IdleBeforeFirst, vars, flags, chunks,
              timers, pacing, counters, history
<1> QED  BY <1>1, <1>2, <1>3, <1>4 DEF Next

\* The state stays well typed, the window within its limits, and nothing runs
\* before the first download.
THEOREM TypeInvariant == Spec => []TypeInv
BY InitType, NextType, PTL DEF Spec

\* The downloader's state is well typed.
THEOREM TypeCorrect == Spec => []TypeOK
BY TypeInvariant, PTL DEF TypeInv

\* Losses and acknowledgements, in whatever order, keep the window between the
\* minimum and what the link carries.
THEOREM WindowStaysInBounds == Spec => []WindowInBounds
BY TypeInvariant, PTL DEF TypeInv
-----------------------------------------------------------------------------
(* No request is without a timeout.                                         *)

\* EveryRequestGuarded of values a handler has computed so far.
Guarded(status, num, reg, orph) ==
    \A c \in Cells : c < num /\ status[c] = Requested => c \in reg \/ orph[c] > 0

LEMMA GuardedIsInvariant ==
    EveryRequestGuarded <=> Guarded(chunkStatus, numChunks, registered, orphans)
BY DEF EveryRequestGuarded, Guarded

\* A request brings its own timeout, and takes none away: the one it replaces
\* in the map stays scheduled (prepareInterestForDownload).
LEMMA RequestGuarded ==
    ASSUME NEW s, NEW c \in Cells, NEW status \in [Cells -> Status],
           NEW num, NEW reg \in SUBSET Cells, NEW orph \in [Cells -> Nat],
           NEW inflight, NEW timer, NEW fired,
           Guarded(status, num, reg, orph),
           RequestChunk(s, c, status, num, reg, orph, inflight, timer, fired)
    PROVE  Guarded(chunkStatus', num, registered', orphans')
<1>1. /\ chunkStatus' = [status EXCEPT ![c] = Requested]
      /\ registered' = reg \cup {c}
      /\ orphans' = IF c \in reg THEN [orph EXCEPT ![c] = @ + 1] ELSE orph
  BY DEF RequestChunk
<1>2. ASSUME NEW k \in Cells, k < num, chunkStatus'[k] = Requested
      PROVE  k \in registered' \/ orphans'[k] > 0
  <2>1. CASE k = c
    BY <1>1, <2>1
  <2>2. CASE k # c
    <3>1. status[k] = Requested
      BY <1>1, <1>2, <2>2
    <3>2. k \in reg \/ orph[k] > 0
      BY <1>2, <3>1 DEF Guarded
    <3>3. orphans'[k] = orph[k]
      BY <1>1, <2>2
    <3> QED  BY <1>1, <3>2, <3>3
  <2> QED  BY <2>1, <2>2
<1> QED  BY <1>2 DEF Guarded

\* A timeout or a NACK leaves its chunk unrequested and the others alone.
LEMMA TimeoutFrees ==
    ASSUME TypeOK, NEW c \in Cells, OnTimeout(c) \/ BaseOnNack(c)
    PROVE  /\ chunkStatus'[c] # Requested
           /\ \A k \in Cells : k # c => chunkStatus'[k] = chunkStatus[k]
<1>1. chunkStatus' = MarkTimeout(c) \/ (chunkStatus' = chunkStatus /\ chunkStatus[c] # Requested)
  BY DEF OnTimeout, BaseOnNack, chunks
<1>2. chunkStatus \in [Cells -> Status]
  BY DEF TypeOK
<1> QED  BY <1>1, <1>2 DEF MarkTimeout, Timeout, Requested
-----------------------------------------------------------------------------
LEMMA InitGuarded == Init => EveryRequestGuarded
BY DEF Init, EveryRequestGuarded, NotInitiated, Requested

LEMMA ManagerGuarded ==
    ASSUME TypeInv, EveryRequestGuarded, Manager
    PROVE  EveryRequestGuarded'
<1>1. ASSUME NEW s \in Segments, download(s)
      PROVE  EveryRequestGuarded'
  <2> DEFINE status == [c \in Cells |->
                          IF c < InitialChunks THEN NotInitiated ELSE chunkStatus[c]]
             orph == [c \in Cells |->
                          IF c \in registered THEN orphans[c] + 1 ELSE orphans[c]]
  <2>1. RequestChunk(s, 0, status, InitialChunks, {}, orph, 0, scheduleDownloadTimer, FALSE)
    BY <1>1 DEF download, Occupy
  <2>2. status \in [Cells -> Status] /\ orph \in [Cells -> Nat] /\ 0 \in Cells
    BY Constants DEF TypeInv, TypeOK, Status
  <2>3. Guarded(status, InitialChunks, {}, orph)
    BY DEF Guarded, NotInitiated, Requested
  <2> HIDE DEF status, orph
  <2>4. Guarded(chunkStatus', InitialChunks, registered', orphans')
    BY <2>1, <2>2, <2>3, RequestGuarded
  <2> QED
    BY <1>1, <2>4 DEF download, Occupy, Guarded, EveryRequestGuarded
<1>2. CASE Stop \/ AbortAndReset
  <2>1. chunkStatus' = AbortedStatus /\ numChunks' = numChunks
    BY <1>2 DEF Stop, AbortAndReset, abortDownload
  <2> QED
    BY <2>1 DEF AbortedStatus, EveryRequestGuarded, Aborted, Requested, Received
<1>3. CASE reset
  BY <1>3 DEF reset, chunks, timers, EveryRequestGuarded
<1> QED  BY <1>1, <1>2, <1>3 DEF Manager
\* A chunk whose timeout goes is not requested any more.
LEMMA FreedGuarded ==
    ASSUME TypeInv, EveryRequestGuarded, NEW c \in Cells,
           numChunks' = numChunks,
           chunkStatus'[c] # Requested,
           \A k \in Cells : k # c => chunkStatus'[k] = chunkStatus[k],
           registered \ {c} \subseteq registered',
           \A k \in Cells : k # c => orphans'[k] = orphans[k]
    PROVE  EveryRequestGuarded'
<1> SUFFICES ASSUME NEW k \in Cells, k < numChunks', chunkStatus'[k] = Requested
             PROVE  k \in registered' \/ orphans'[k] > 0
  BY DEF EveryRequestGuarded
<1>1. k # c
  OBVIOUS
<1>2. chunkStatus[k] = Requested /\ k < numChunks /\ orphans'[k] = orphans[k]
  BY <1>1
<1> QED  BY <1>1, <1>2 DEF EveryRequestGuarded

LEMMA TimerGuarded ==
    ASSUME TypeInv, EveryRequestGuarded, Timer
    PROVE  EveryRequestGuarded'
<1>1. CASE DownloadTimerFires
  <2> DEFINE send(c) ==
          RequestChunk(segment, c, chunkStatus, numChunks, registered, orphans,
                       packetsInflight, NoTimer, soonFinishedAlreadyFired)
  <2>1. numChunks' = numChunks
    BY <1>1 DEF DownloadTimerFires, SendChunk
  <2>2. scheduleDownloadTimer \in Cells
    BY <1>1 DEF DownloadTimerFires, SendChunk, TypeInv, TypeOK
  <2>3. (\E c \in Cells : send(c)) \/ UNCHANGED <<chunkStatus, timers>>
    BY <1>1, <2>2 DEF DownloadTimerFires, SendChunk
  <2>4. CASE \E c \in Cells : send(c)
    <3>1. PICK c \in Cells : send(c)
      BY <2>4
    <3>2. /\ chunkStatus \in [Cells -> Status] /\ registered \in SUBSET Cells
          /\ orphans \in [Cells -> Nat]
      BY DEF TypeInv, TypeOK
    <3>3. Guarded(chunkStatus', numChunks, registered', orphans')
      BY <3>1, <3>2, GuardedIsInvariant, RequestGuarded
    <3> QED  BY <2>1, <3>3 DEF Guarded, EveryRequestGuarded
  <2>5. CASE UNCHANGED <<chunkStatus, timers>>
    BY <2>1, <2>5 DEF timers, EveryRequestGuarded
  <2> QED  BY <2>3, <2>4, <2>5
<1>2. ASSUME NEW c \in Cells, CheckRetrieveTimeout(c) \/ OrphanedTimeout(c)
      PROVE  EveryRequestGuarded'
  <2>1. OnTimeout(c) /\ numChunks' = numChunks
    BY <1>2 DEF CheckRetrieveTimeout, OrphanedTimeout
  <2>2. /\ registered \ {c} \subseteq registered'
        /\ \A k \in Cells : k # c => orphans'[k] = orphans[k]
    BY <1>2 DEF CheckRetrieveTimeout, OrphanedTimeout, TypeInv, TypeOK
  <2> QED  BY <2>1, <2>2, TimeoutFrees, FreedGuarded DEF TypeInv
<1>3. CASE collectStats
  BY <1>3 DEF collectStats, chunks, timers, EveryRequestGuarded
<1> QED  BY <1>1, <1>2, <1>3 DEF Timer

\* Chunks the vector grows by are not requested.
LEMMA DataGuarded ==
    ASSUME TypeInv, EveryRequestGuarded, NEW c \in Cells, OnData(c)
    PROVE  EveryRequestGuarded'
<1>1. orphans' = orphans /\ registered' = registered \ {c}
  BY DEF OnData
<1>2. \A k \in Cells : k < numChunks' /\ chunkStatus'[k] = Requested
          => k # c /\ chunkStatus[k] = Requested /\ k < numChunks
  <2> SUFFICES ASSUME NEW k \in Cells, k < numChunks', chunkStatus'[k] = Requested
               PROVE  k # c /\ chunkStatus[k] = Requested /\ k < numChunks
    OBVIOUS
  <2> DEFINE status == [chunkStatus EXCEPT ![c] = Received]
             first == c = 0 /\ ~(chunkStatus[c] = Received)
  <2>1. /\ status \in [Cells -> Status] /\ status[c] = Received
        /\ \A j \in Cells : j # c => status[j] = chunkStatus[j]
        /\ numChunks \in Nat /\ k \in Nat
    BY Constants DEF TypeInv, TypeOK, Status
  <2>2. CASE ~first
    <3>1. chunkStatus' = status /\ numChunks' = numChunks
      BY <2>2 DEF OnData
    <3> QED  BY <2>1, <3>1 DEF Received, Requested
  <2>3. CASE first
    <3>1. /\ numChunks' = NumChunks(segment)
          /\ chunkStatus' = Resize(status, numChunks, NumChunks(segment))
      BY <2>3 DEF OnData
    <3> HIDE DEF status
    <3>2. /\ chunkStatus'[k] = IF numChunks <= k THEN NotInitiated ELSE status[k]
      BY <3>1 DEF Resize
    <3>3. ~(numChunks <= k) /\ status[k] = Requested
      BY <3>2 DEF NotInitiated, Requested
    <3> QED  BY <2>1, <3>3 DEF Received, Requested
  <2> QED  BY <2>2, <2>3
<1> QED  BY <1>1, <1>2 DEF EveryRequestGuarded

LEMMA NetworkGuarded ==
    ASSUME TypeInv, EveryRequestGuarded, Network
    PROVE  EveryRequestGuarded'
<1>1. ASSUME NEW c \in Cells, OnData(c)
      PROVE  EveryRequestGuarded'
  BY <1>1, DataGuarded
<1>2. ASSUME NEW c \in Cells, BaseOnNack(c)
      PROVE  EveryRequestGuarded'
  <2>1. numChunks' = numChunks /\ orphans' = orphans /\ registered \ {c} \subseteq registered'
    BY <1>2 DEF BaseOnNack, chunks, timers
  <2> QED  BY <1>2, <2>1, TimeoutFrees, FreedGuarded DEF TypeInv
<1>3. ASSUME NEW c \in Cells, NEW tagged \in BOOLEAN, OnLayerNack(c, tagged)
      PROVE  EveryRequestGuarded'
  <2>1. CASE abortDownload
    BY <2>1 DEF abortDownload, AbortedStatus, EveryRequestGuarded, Aborted, Requested, Received
  <2> QED  BY <1>2, <1>3, <2>1 DEF OnLayerNack
<1>4. ASSUME NEW s \in Segments, NEW c \in Cells,
             DropForeignData(s, c) \/ OnNack(s, c) \/ DropForeignNack(s, c) \/ Lose(s, c)
      PROVE  EveryRequestGuarded'
  <2>1. CASE OnNack(s, c)
    BY <1>2, <2>1 DEF OnNack
  <2>2. CASE DropForeignData(s, c) \/ DropForeignNack(s, c) \/ Lose(s, c)
    BY <2>2 DEF DropForeignData, DropForeignNack, Lose, chunks, timers, EveryRequestGuarded
  <2> QED  BY <1>4, <2>1, <2>2
<1> QED  BY <1>1, <1>3, <1>4 DEF Network

\* No interest is waited for without a timeout: whatever clears, overwrites or
\* outlives the map of timeout events, each requested chunk of the segment has
\* a pending event that frees it.
THEOREM RequestsStayGuarded == Spec => []EveryRequestGuarded
<1>1. TypeInv /\ EveryRequestGuarded /\ [Next]_vars => EveryRequestGuarded'
  <2>1. CASE UNCHANGED vars
    BY <2>1 DEF vars, chunks, timers, EveryRequestGuarded
  <2> QED  BY <2>1, ManagerGuarded, TimerGuarded, NetworkGuarded DEF Next
<1> QED  BY <1>1, InitGuarded, TypeInvariant, PTL DEF Spec
-----------------------------------------------------------------------------
(* The contract.                                                            *)

\* Handlers that touch neither flags nor segment are progress the manager does
\* not see.
LEMMA ProgressOfContract ==
    ASSUME UNCHANGED <<flags, segment>>, message' \in {"none", "SoonFinished"}
    PROVE  Contract!Next
BY DEF Contract!Next, Contract!Progress, flags

\* download tells the observer nothing: the manager is not entered again while
\* it starts a download, because chunk 1 is still to be requested.
LEMMA DownloadIsSilent ==
    ASSUME TypeInv, NEW s \in Segments, download(s)
    PROVE  message' = "none"
<1> DEFINE status == [c \in Cells |->
                        IF c < InitialChunks THEN NotInitiated ELSE chunkStatus[c]]
           orph == [c \in Cells |->
                        IF c \in registered THEN orphans[c] + 1 ELSE orphans[c]]
           status1 == [status EXCEPT ![0] = Requested]
<1>1. RequestChunk(s, 0, status, InitialChunks, {}, orph, 0, scheduleDownloadTimer, FALSE)
  BY DEF download, Occupy
<1>2. 1 \in Cells /\ 0 \in Cells /\ 1 < InitialChunks
  BY Constants, ConstantsOK DEF ConstantsOK
<1>3. status1[1] = NotInitiated
  BY <1>2
<1> HIDE DEF status, orph
<1>4. \/ ScheduleNextChunkDownload(status1, InitialChunks, scheduleDownloadTimer, FALSE)
      \/ message' = "none"
  BY <1>1 DEF RequestChunk
<1> HIDE DEF status1
<1>5. NeededChunks(status1, InitialChunks) # {}
  BY <1>2, <1>3 DEF NeededChunks, NotInitiated, Received, Requested, Aborted
<1> QED  BY <1>4, <1>5 DEF ScheduleNextChunkDownload

LEMMA ManagerContract ==
    ASSUME TypeInv, Manager
    PROVE  Contract!Next
<1>1. ASSUME NEW s \in Segments, download(s)
      PROVE  Contract!Next
  <2>1. Contract!Download(s)
    BY <1>1, DownloadIsSilent DEF download, Occupy, Contract!Download
  <2> QED  BY <2>1 DEF Contract!Next
<1>2. CASE Stop
  BY <1>2 DEF Stop, abortDownload, Contract!Next, Contract!Abort
<1>3. CASE AbortAndReset
  BY <1>3 DEF AbortAndReset, abortDownload, Contract!Next, Contract!AbortAndReset,
              TypeInv, TypeOK
<1>4. CASE reset
  BY <1>4 DEF reset, Contract!Next, Contract!Reset
<1> QED  BY <1>1, <1>2, <1>3, <1>4 DEF Manager

LEMMA TimerContract ==
    ASSUME TypeInv, Timer
    PROVE  Contract!Next
<1>1. CASE DownloadTimerFires
  <2> DEFINE send(c) ==
          RequestChunk(segment, c, chunkStatus, numChunks, registered, orphans,
                       packetsInflight, NoTimer, soonFinishedAlreadyFired)
  <2>1. scheduleDownloadTimer \in Cells /\ UNCHANGED <<flags, segment>>
    BY <1>1 DEF DownloadTimerFires, SendChunk, TypeInv, TypeOK
  <2>2. (\E c \in Cells : send(c)) \/ message' \in {"none", "SoonFinished"}
    BY <1>1, <2>1 DEF DownloadTimerFires, SendChunk
  <2>3. ASSUME NEW c \in Cells, send(c)
        PROVE  message' \in {"none", "SoonFinished"}
    BY <2>3 DEF RequestChunk, ScheduleNextChunkDownload
  <2> QED  BY <2>1, <2>2, <2>3, ProgressOfContract
<1>2. ASSUME NEW c \in Cells, CheckRetrieveTimeout(c) \/ OrphanedTimeout(c)
      PROVE  Contract!Next
  <2>1. UNCHANGED <<flags, segment>> /\ OnTimeout(c)
    BY <1>2 DEF CheckRetrieveTimeout, OrphanedTimeout
  <2>2. message' \in {"none", "SoonFinished"}
    BY <2>1 DEF OnTimeout, ScheduleNextChunkDownload
  <2> QED  BY <2>1, <2>2, ProgressOfContract
<1>3. CASE collectStats
  BY <1>3, ProgressOfContract DEF collectStats
<1> QED  BY <1>1, <1>2, <1>3 DEF Timer

LEMMA NetworkContract ==
    ASSUME TypeInv, Network
    PROVE  Contract!Next
<1>1. ASSUME NEW c \in Cells, OnData(c)
      PROVE  Contract!Next
  <2>1. segment # NoSegment /\ segment' = segment
    BY <1>1, AnswerOfRequest, ConstantsOK DEF OnData, DataArrives, ConstantsOK
  <2>2. PICK bytes, status, num : FinishOrContinue(bytes, status, num)
    BY <1>1 DEF OnData
  <2>3. CASE /\ finished' = TRUE /\ lastDownloadSuccessful' = TRUE
             /\ message' = "SegmentReceived" /\ UNCHANGED bussy
    BY <2>1, <2>3 DEF Contract!Next, Contract!Complete
  <2>4. CASE UNCHANGED flags
             /\ (ScheduleNextChunkDownload(status, num, NoTimer, soonFinishedAlreadyFired)
                 \/ message' = "none")
    <3>1. message' \in {"none", "SoonFinished"}
      BY <2>4 DEF ScheduleNextChunkDownload
    <3> QED  BY <2>1, <2>4, <3>1, ProgressOfContract
  <2> QED  BY <2>2, <2>3, <2>4 DEF FinishOrContinue
<1>2. ASSUME NEW c \in Cells, BaseOnNack(c)
      PROVE  Contract!Next
  <2>1. UNCHANGED <<flags, segment>> /\ message' \in {"none", "SoonFinished"}
    BY <1>2 DEF BaseOnNack, ScheduleNextChunkDownload
  <2> QED  BY <2>1, ProgressOfContract
<1>3. ASSUME NEW c \in Cells, NEW tagged \in BOOLEAN, OnLayerNack(c, tagged)
      PROVE  Contract!Next
  <2>1. CASE BaseOnNack(c)
    BY <1>2, <2>1
  <2>2. CASE /\ LayerGivenUp(tagged) /\ abortDownload
             /\ lastDownloadSuccessful' = FALSE
             /\ message' = "NackReceived" /\ UNCHANGED bussy
    <3>1. segment # NoSegment
      BY <1>3, AnswerOfRequest, ConstantsOK DEF OnLayerNack, Arrives, ConstantsOK
    <3> QED
      BY <1>3, <2>2, <3>1 DEF OnLayerNack, LayerGivenUp, abortDownload, Contract!Next,
                              Contract!GiveUp
  <2> QED  BY <1>3, <2>1, <2>2 DEF OnLayerNack
<1>4. ASSUME NEW s \in Segments, NEW c \in Cells,
             DropForeignData(s, c) \/ OnNack(s, c) \/ DropForeignNack(s, c) \/ Lose(s, c)
      PROVE  Contract!Next
  <2>1. CASE OnNack(s, c)
    BY <1>2, <2>1 DEF OnNack
  <2>2. CASE DropForeignData(s, c) \/ DropForeignNack(s, c) \/ Lose(s, c)
    BY <2>2, ProgressOfContract DEF DropForeignData, DropForeignNack, Lose
  <2> QED  BY <1>4, <2>1, <2>2
<1> QED  BY <1>1, <1>3, <1>4 DEF Network

\* The flags and messages of the downloader are those IDownloader promises: each
\* handler, with all its timers and chunks, is one step of the contract.
THEOREM ContractImplemented == Spec => ImplementsIDownloader
<1>1. Init => Contract!Init
  BY DEF Init, Contract!Init
<1>2. TypeInv /\ [Next]_vars => [Contract!Next]_(Contract!vars)
  <2>1. CASE UNCHANGED vars
    BY <2>1 DEF vars, flags, Contract!vars
  <2> QED  BY <2>1, ManagerContract, TimerContract, NetworkContract DEF Next
<1> QED  BY <1>1, <1>2, TypeInvariant, PTL DEF Spec, ImplementsIDownloader, Contract!Spec
-----------------------------------------------------------------------------
\* What is reported as given up is never the base layer: the contract's steps
\* keep this, so the downloader's do.
THEOREM BaseLayerNeverGivenUp == Spec => []OnlyEnhancementsGivenUp
<1>1. Init => OnlyEnhancementsGivenUp
  BY DEF Init, OnlyEnhancementsGivenUp
<1>2. TypeInv /\ OnlyEnhancementsGivenUp /\ [Next]_vars => OnlyEnhancementsGivenUp'
  <2> SUFFICES ASSUME TypeInv, OnlyEnhancementsGivenUp, [Next]_vars
               PROVE  OnlyEnhancementsGivenUp'
    OBVIOUS
  <2>1. Contract!Next \/ UNCHANGED <<lastDownloadSuccessful, segment>>
    BY ManagerContract, TimerContract, NetworkContract DEF Next, vars, flags
  <2>2. segment # NoSegment => Level[segment] \in Nat
    BY ConstantsOK DEF ConstantsOK, TypeInv, TypeOK
  <2> QED
    BY <2>1, <2>2
    DEF OnlyEnhancementsGivenUp, Contract!Next, Contract!Download, Contract!Complete,
        Contract!GiveUp, Contract!Progress, Contract!Abort, Contract!AbortAndReset,
        Contract!Reset
<1> QED  BY <1>1, <1>2, TypeInvariant, PTL DEF Spec
-----------------------------------------------------------------------------
(* The accounts of the downloader.                                          *)

\* The vector has its first size until chunk 0 has come.
VectorSize ==
    segment # NoSegment =>
        numChunks = IF chunkStatus[0] = Received THEN NumChunks(segment) ELSE InitialChunks

\* What is requested, or about to be, is a chunk of the current download, and
\* the timer is for a chunk nobody waits for.
InSight ==
    ~overlapped =>
        /\ \A c \in Cells : chunkStatus[c] = Requested => c \in Visible
        /\ scheduleDownloadTimer # NoTimer =>
              scheduleDownloadTimer \in Visible /\ chunkStatus[scheduleDownloadTimer] # Requested

\* A download that is the first one of its segment.
Once == segment # NoSegment /\ tries[segment] <= 1 /\ ~overlapped

\* Only segments that were asked for are; and chunks past the first size only
\* after chunk 0 has told of them.
AskedInOrder ==
    /\ \A s \in Segments, c \in Cells : <<s, c>> \in network => tries[s] > 0
    /\ segment # NoSegment => tries[segment] > 0
    /\ Once /\ chunkStatus[0] # Received =>
          \A c \in Cells : <<segment, c>> \in network => c < InitialChunks

\* The chunks with payload there are.
Here == {c \in 1 .. Size[segment] : c < numChunks /\ chunkStatus[c] = Received}

\* Each of them was subtracted once.
BytesAccounting ==
    Once => bytesToDownload =
                (IF chunkStatus[0] = Received THEN Size[segment] ELSE -1) - Cardinality(Here)

AccountInv ==
    VectorSize /\ InSight /\ InflightAccounting /\ AskedInOrder /\ BytesAccounting
-----------------------------------------------------------------------------
(* What a step may do to the accounts.                                      *)

Armed ==
    \/ scheduleDownloadTimer' = NoTimer
    \/ /\ scheduleDownloadTimer' \in Cells /\ scheduleDownloadTimer' < numChunks'
       /\ chunkStatus'[scheduleDownloadTimer'] # Requested

TimerMoves == Armed \/ UNCHANGED scheduleDownloadTimer

SameDownload == UNCHANGED <<segment, tries, abandoned, overlapped>>

Starts(s) ==
    /\ chunkStatus' = [[c \in Cells |-> IF c < InitialChunks THEN NotInitiated ELSE chunkStatus[c]]
                          EXCEPT ![0] = Requested]
    /\ packetsInflight' = 1 /\ bytesToDownload' = -1 /\ numChunks' = InitialChunks
    /\ network' = network \cup {<<s, 0>>}
    /\ segment' = s /\ tries' = [tries EXCEPT ![s] = @ + 1]
    /\ abandoned' = FALSE /\ overlapped' = (overlapped \/ StillAsking)
    /\ TimerMoves

Requests(c) ==
    /\ segment # NoSegment
    /\ chunkStatus[c] # Received
    /\ ~overlapped => c \in Visible /\ chunkStatus[c] # Requested
    /\ chunkStatus' = [chunkStatus EXCEPT ![c] = Requested]
    /\ packetsInflight' = packetsInflight + 1
    /\ network' = network \cup {<<segment, c>>}
    /\ UNCHANGED <<bytesToDownload, numChunks>> /\ SameDownload
    /\ Armed

Frees(c) ==
    /\ chunkStatus[c] = Requested
    /\ chunkStatus' = [chunkStatus EXCEPT ![c] = Timeout]
    /\ packetsInflight' = packetsInflight - 1
    /\ network' \subseteq network
    /\ UNCHANGED <<bytesToDownload, numChunks>> /\ SameDownload
    /\ TimerMoves

Opens(c) == c = 0 /\ chunkStatus[c] # Received

Receives(c) ==
    /\ <<segment, c>> \in network /\ network' \subseteq network
    /\ chunkStatus' = [k \in Cells |->
                          IF k = c THEN Received
                          ELSE IF Opens(c) /\ numChunks <= k /\ k < NumChunks(segment)
                               THEN NotInitiated ELSE chunkStatus[k]]
    /\ numChunks' = IF Opens(c) THEN NumChunks(segment) ELSE numChunks
    /\ packetsInflight' = InflightAfterData(c) /\ bytesToDownload' = BytesAfterData(c)
    /\ SameDownload
    /\ TimerMoves

GivesUp ==
    /\ chunkStatus' = AbortedStatus
    /\ abandoned' = TRUE /\ network' \subseteq network
    /\ UNCHANGED <<bytesToDownload, numChunks, segment, tries, overlapped>>
    /\ scheduleDownloadTimer' = NoTimer

Keeps ==
    /\ network' \subseteq network
    /\ UNCHANGED <<chunkStatus, packetsInflight, bytesToDownload, numChunks>> /\ SameDownload
    /\ scheduleDownloadTimer' \in {scheduleDownloadTimer, NoTimer}

\* The timer is armed for a chunk that is missing (ScheduleNextChunkDownload).
LEMMA ScheduleArms ==
    ASSUME NEW timer, NEW fired,
           ScheduleNextChunkDownload(chunkStatus', numChunks', timer, fired)
    PROVE  Armed \/ scheduleDownloadTimer' = timer
BY DEF ScheduleNextChunkDownload, IsNextNeeded, NeededChunks, Armed

LEMMA StartsEffect ==
    ASSUME TypeInv, NEW s \in Segments, download(s)
    PROVE  Starts(s)
<1> DEFINE status == [c \in Cells |-> IF c < InitialChunks THEN NotInitiated ELSE chunkStatus[c]]
           orph == [c \in Cells |-> IF c \in registered THEN orphans[c] + 1 ELSE orphans[c]]
<1>1. RequestChunk(s, 0, status, InitialChunks, {}, orph, 0, scheduleDownloadTimer, FALSE)
  BY DEF download, Occupy
<1>2. /\ numChunks' = InitialChunks /\ bytesToDownload' = -1 /\ segment' = s
      /\ tries' = [tries EXCEPT ![s] = @ + 1]
      /\ abandoned' = FALSE /\ overlapped' = (overlapped \/ StillAsking)
  BY DEF download, Occupy
<1> HIDE DEF status, orph
<1>3. /\ chunkStatus' = [status EXCEPT ![0] = Requested]
      /\ packetsInflight' = 1 /\ network' = network \cup {<<s, 0>>}
  BY <1>1 DEF RequestChunk
<1>4. TimerMoves
  <2>1. CASE ScheduleNextChunkDownload(chunkStatus', numChunks', scheduleDownloadTimer, FALSE)
    BY <2>1, ScheduleArms DEF TimerMoves
  <2>2. CASE scheduleDownloadTimer' = scheduleDownloadTimer
    BY <2>2 DEF TimerMoves
  <2> QED  BY <1>1, <1>2, <1>3, <2>1, <2>2 DEF RequestChunk
<1> QED  BY <1>2, <1>3, <1>4 DEF Starts, status

LEMMA TimerEffect ==
    ASSUME TypeInv, InSight, DownloadTimerFires
    PROVE  Keeps \/ \E c \in Cells : Requests(c)
<1> DEFINE send(c) ==
        RequestChunk(segment, c, chunkStatus, numChunks, registered, orphans,
                     packetsInflight, NoTimer, soonFinishedAlreadyFired)
<1>1. UNCHANGED <<segment, bytesToDownload, numChunks, tries, abandoned, overlapped>>
  BY DEF DownloadTimerFires, SendChunk, history
<1>2. ASSUME NEW c \in Cells, chunkStatus[c] # Received, send(c),
             segment # NoSegment,
             ~overlapped => c \in Visible /\ chunkStatus[c] # Requested
      PROVE  Requests(c)
  <2>1. /\ chunkStatus' = [chunkStatus EXCEPT ![c] = Requested]
        /\ packetsInflight' = packetsInflight + 1 /\ network' = network \cup {<<segment, c>>}
        /\ ScheduleNextChunkDownload(chunkStatus', numChunks', NoTimer, soonFinishedAlreadyFired)
    BY <1>1, <1>2 DEF RequestChunk
  <2>2. Armed
    BY <2>1, ScheduleArms DEF Armed
  <2> QED  BY <1>1, <1>2, <2>1, <2>2 DEF Requests, SameDownload
<1>3. /\ scheduleDownloadTimer \in Cells /\ scheduleDownloadTimer # NoTimer
      /\ segment # NoSegment
  BY DEF DownloadTimerFires, SendChunk, TypeInv, TypeOK, IdleBeforeFirst
<1>4. CASE chunkStatus[scheduleDownloadTimer] # Received /\ send(scheduleDownloadTimer)
  BY <1>2, <1>3, <1>4 DEF InSight
<1>5. CASE \E c \in Cells : IsNextNeeded(c, NeededChunks(chunkStatus, numChunks)) /\ send(c)
  <2>1. PICK c \in Cells : IsNextNeeded(c, NeededChunks(chunkStatus, numChunks)) /\ send(c)
    BY <1>5
  <2>2. c \in Visible /\ chunkStatus[c] # Requested /\ chunkStatus[c] # Received
    BY <2>1 DEF IsNextNeeded, NeededChunks, Visible
  <2> QED  BY <1>2, <1>3, <2>1, <2>2
<1>6. CASE /\ scheduleDownloadTimer' = NoTimer
           /\ UNCHANGED <<chunkStatus, packetsInflight, network>>
  BY <1>1, <1>6 DEF Keeps, SameDownload
<1> QED  BY <1>4, <1>5, <1>6 DEF DownloadTimerFires, SendChunk

\* A chunk timed out or refused, when the rest of the step is as it should be.
LEMMA FreesEffect ==
    ASSUME TypeInv, NEW c \in Cells, OnTimeout(c) \/ BaseOnNack(c), network' \subseteq network,
           SameDownload, UNCHANGED <<bytesToDownload, numChunks>>
    PROVE  Keeps \/ Frees(c)
<1>1. CASE chunkStatus[c] = Requested
  <2>1. /\ chunkStatus' = MarkTimeout(c) /\ packetsInflight' = packetsInflight - 1
        /\ ScheduleNextChunkDownload(chunkStatus', numChunks', scheduleDownloadTimer,
                                     soonFinishedAlreadyFired)
    BY <1>1 DEF OnTimeout, BaseOnNack
  <2>2. TimerMoves
    BY <2>1, ScheduleArms DEF TimerMoves
  <2> QED  BY <1>1, <2>1, <2>2 DEF Frees, MarkTimeout
<1>2. CASE chunkStatus[c] # Requested
  BY <1>2 DEF OnTimeout, BaseOnNack, chunks, Keeps
<1> QED  BY <1>1, <1>2

LEMMA DataEffect ==
    ASSUME TypeInv, VectorSize, NEW c \in Cells, OnData(c)
    PROVE  Receives(c)
<1> DEFINE status == [chunkStatus EXCEPT ![c] = Received]
           status1 == IF Opens(c) THEN Resize(status, numChunks, NumChunks(segment)) ELSE status
           num == IF Opens(c) THEN NumChunks(segment) ELSE numChunks
<1>1. /\ DataArrives(segment, c) /\ packetsInflight' = InflightAfterData(c)
      /\ bytesToDownload' = BytesAfterData(c) /\ numChunks' = num /\ chunkStatus' = status1
      /\ FinishOrContinue(BytesAfterData(c), status1, num)
      /\ SameDownload
  BY DEF OnData, Opens, SameDownload, history
<1>2. segment \in Segments /\ segment # NoSegment
  BY <1>1, AnswerOfRequest, ConstantsOK DEF DataArrives, ConstantsOK
<1>3. chunkStatus' = [k \in Cells |->
                         IF k = c THEN Received
                         ELSE IF Opens(c) /\ numChunks <= k /\ k < NumChunks(segment)
                              THEN NotInitiated ELSE chunkStatus[k]]
  <2>1. Opens(c) => ~(numChunks <= c)
    BY <1>2, ConstantsOK DEF Opens, VectorSize, ConstantsOK
  <2>2. chunkStatus \in [Cells -> Status]
    BY DEF TypeInv, TypeOK
  <2> QED  BY <1>1, <2>1, <2>2 DEF Resize
<1>4. TimerMoves
  <2> HIDE DEF status1, num
  <2>1. CASE ScheduleNextChunkDownload(status1, num, NoTimer, soonFinishedAlreadyFired)
    BY <1>1, <2>1, ScheduleArms DEF TimerMoves, Armed
  <2> QED  BY <1>1, <2>1 DEF FinishOrContinue, TimerMoves, Armed
<1> QED  BY <1>1, <1>3, <1>4 DEF Receives, DataArrives

\* Every step is one of these.
LEMMA NextEffect ==
    ASSUME TypeInv, VectorSize, InSight, [Next]_vars
    PROVE  \/ Keeps \/ GivesUp \/ \E s \in Segments : Starts(s)
           \/ \E c \in Cells : Requests(c) \/ Frees(c) \/ Receives(c)
<1>1. CASE Manager
  <2>1. CASE Stop \/ AbortAndReset
    BY <2>1 DEF Stop, AbortAndReset, abortDownload, GivesUp
  <2>2. CASE reset
    BY <2>2 DEF reset, Keeps, SameDownload, chunks, history
  <2> QED  BY <1>1, <2>1, <2>2, StartsEffect DEF Manager
<1>2. CASE Timer
  <2>1. ASSUME NEW c \in Cells, CheckRetrieveTimeout(c) \/ OrphanedTimeout(c)
        PROVE  Keeps \/ Frees(c)
    <3>1. /\ OnTimeout(c) /\ network' \subseteq network /\ SameDownload
          /\ UNCHANGED <<bytesToDownload, numChunks>>
      BY <2>1 DEF CheckRetrieveTimeout, OrphanedTimeout, SameDownload, history
    <3> QED  BY <3>1, FreesEffect
  <2>2. CASE collectStats
    BY <2>2 DEF collectStats, Keeps, SameDownload, chunks, history
  <2> QED  BY <1>2, <2>1, <2>2, TimerEffect DEF Timer
<1>3. CASE Network
  <2>1. ASSUME NEW s, NEW c \in Cells, BaseOnNack(c), Arrives(s, c), UNCHANGED history
        PROVE  Keeps \/ Frees(c)
    <3>1. /\ network' \subseteq network /\ SameDownload
          /\ UNCHANGED <<bytesToDownload, numChunks>>
      BY <2>1 DEF Arrives, BaseOnNack, SameDownload, history, chunks
    <3> QED  BY <2>1, <3>1, FreesEffect
  <2>2. ASSUME NEW c \in Cells, NEW tagged \in BOOLEAN, OnLayerNack(c, tagged)
        PROVE  Keeps \/ Frees(c) \/ GivesUp
    <3>1. CASE BaseOnNack(c) /\ UNCHANGED history
      BY <2>1, <2>2, <3>1 DEF OnLayerNack
    <3>2. CASE abortDownload
      BY <2>2, <3>2 DEF OnLayerNack, Arrives, abortDownload, GivesUp
    <3> QED  BY <2>2, <3>1, <3>2 DEF OnLayerNack
  <2>3. ASSUME NEW s \in Segments, NEW c \in Cells,
               DropForeignData(s, c) \/ DropForeignNack(s, c) \/ Lose(s, c)
        PROVE  Keeps
    BY <2>3 DEF DropForeignData, DropForeignNack, Lose, DataArrives, Arrives, Keeps,
                SameDownload, chunks, history
  <2>4. ASSUME NEW s \in Segments, NEW c \in Cells, OnNack(s, c)
        PROVE  Keeps \/ Frees(c)
    BY <2>1, <2>4 DEF OnNack
  <2> QED  BY <1>3, <2>2, <2>3, <2>4, DataEffect DEF Network
<1>4. CASE UNCHANGED vars
  BY <1>4 DEF vars, Keeps, SameDownload, chunks, history
<1> QED  BY <1>1, <1>2, <1>3, <1>4 DEF Next
-----------------------------------------------------------------------------
(* The accounts are kept.                                                   *)

Effect ==
    \/ Keeps \/ GivesUp \/ \E s \in Segments : Starts(s)
    \/ \E c \in Cells : Requests(c) \/ Frees(c) \/ Receives(c)

\* The segment of an effect that is no start is the current one.
LEMMA CurrentSegment ==
    ASSUME TypeInv, VectorSize, segment # NoSegment
    PROVE  /\ segment \in Segments /\ Size[segment] \in Nat \ {0}
           /\ numChunks \in Nat /\ 0 < numChunks /\ InitialChunks \in Nat /\ 2 <= InitialChunks
           /\ NumChunks(segment) = Size[segment] + 1
           /\ 0 \in Cells /\ Cells \subseteq Nat
           /\ chunkStatus \in [Cells -> Status]
BY ConstantsOK, Constants DEF TypeInv, TypeOK, VectorSize, ConstantsOK, NumChunks

LEMMA VectorSizeKept ==
    ASSUME TypeInv, VectorSize, Effect
    PROVE  VectorSize'
<1> SUFFICES ASSUME segment' # NoSegment
             PROVE  numChunks' = IF chunkStatus'[0] = Received THEN NumChunks(segment') ELSE InitialChunks
  BY DEF VectorSize
<1>0. chunkStatus \in [Cells -> Status] /\ 0 \in Cells /\ InitialChunks > 0
  BY ConstantsOK, Constants DEF ConstantsOK, TypeInv, TypeOK
<1>1. CASE \E s \in Segments : Starts(s)
  BY <1>0, <1>1 DEF Starts, Received, Requested
<1>2. CASE Keeps \/ GivesUp
  BY <1>0, <1>2 DEF Keeps, GivesUp, SameDownload, AbortedStatus, Aborted, Received, VectorSize
<1>3. ASSUME NEW c \in Cells, Requests(c) \/ Frees(c)
      PROVE  numChunks' = IF chunkStatus'[0] = Received THEN NumChunks(segment') ELSE InitialChunks
  BY <1>0, <1>3 DEF Requests, Frees, SameDownload, VectorSize, Received, Requested, Timeout
<1>4. ASSUME NEW c \in Cells, Receives(c)
      PROVE  numChunks' = IF chunkStatus'[0] = Received THEN NumChunks(segment') ELSE InitialChunks
  <2>1. segment' = segment /\ segment # NoSegment
    BY <1>4 DEF Receives, SameDownload
  <2>2. ~(numChunks <= 0)
    BY <2>1, CurrentSegment
  <2>3. CASE c = 0
    BY <1>0, <1>4, <2>1, <2>3 DEF Receives, Opens, VectorSize
  <2>4. CASE c # 0
    BY <1>0, <1>4, <2>1, <2>2, <2>4 DEF Receives, Opens, VectorSize
  <2> QED  BY <2>3, <2>4
<1> QED  BY <1>1, <1>2, <1>3, <1>4 DEF Effect

\* With a timer that is kept or moved, only the requested chunks are to be seen.
LEMMA TimerInSight ==
    ASSUME TypeInv, TypeInv', InSight, ~overlapped, TimerMoves,
           \A c \in Cells : c \in Visible => c \in Visible',
           \A c \in Cells : chunkStatus'[c] = Requested /\ c # scheduleDownloadTimer'
                => chunkStatus[c] = Requested \/ c \in Visible',
           scheduleDownloadTimer' = scheduleDownloadTimer /\ scheduleDownloadTimer # NoTimer
                => chunkStatus'[scheduleDownloadTimer] # Requested
    PROVE  InSight'
<1>1. \A c \in Cells : chunkStatus[c] = Requested => c \in Visible'
  BY DEF InSight
<1>2. scheduleDownloadTimer' # NoTimer =>
          /\ scheduleDownloadTimer' \in Visible'
          /\ chunkStatus'[scheduleDownloadTimer'] # Requested
  <2>1. CASE Armed
    BY <2>1 DEF Armed, Visible
  <2>2. CASE UNCHANGED scheduleDownloadTimer
    BY <2>2 DEF InSight, Visible
  <2> QED  BY <2>1, <2>2 DEF TimerMoves
<1>3. ASSUME NEW c \in Cells, chunkStatus'[c] = Requested
      PROVE  c \in Visible'
  <2>1. c # scheduleDownloadTimer'
    BY <1>2, <1>3, Constants
  <2> QED  BY <1>1, <1>3, <2>1
<1> QED  BY <1>2, <1>3 DEF InSight

LEMMA InSightKept ==
    ASSUME TypeInv, TypeInv', VectorSize, InSight, Effect
    PROVE  InSight'
<1> SUFFICES ASSUME ~overlapped'  PROVE InSight'
  BY DEF InSight
<1>0. chunkStatus \in [Cells -> Status] /\ 0 \in Cells /\ InitialChunks > 0
  BY ConstantsOK, Constants DEF ConstantsOK, TypeInv, TypeOK
<1>1. ASSUME NEW s \in Segments, Starts(s)
      PROVE  InSight'
  <2>1. ~overlapped /\ ~StillAsking
    BY <1>1 DEF Starts
  <2>2. /\ scheduleDownloadTimer = NoTimer
        /\ \A c \in Cells : c < numChunks => chunkStatus[c] \in {Received, Aborted}
    BY <2>1 DEF StillAsking
  <2>3. ASSUME NEW c \in Cells, chunkStatus'[c] = Requested
        PROVE  c \in Visible'
    <3>1. c = 0 \/ c < InitialChunks \/ chunkStatus[c] = Requested
      BY <1>0, <1>1, <2>3 DEF Starts
    <3>2. chunkStatus[c] = Requested => c < InitialChunks
      BY <2>1, <2>2 DEF InSight, Visible, Requested, Received, Aborted
    <3> QED  BY <1>0, <3>1, <3>2 DEF Visible
  <2>4. Armed \/ scheduleDownloadTimer' = NoTimer
    BY <1>1, <2>2 DEF Starts, TimerMoves
  <2>5. scheduleDownloadTimer' # NoTimer =>
          /\ scheduleDownloadTimer' \in Visible'
          /\ chunkStatus'[scheduleDownloadTimer'] # Requested
    BY <2>4 DEF Armed, Visible
  <2> QED  BY <2>3, <2>5 DEF InSight
<1>2. CASE Keeps
  <2>1. TimerMoves
    BY <1>2 DEF Keeps, TimerMoves, Armed
  <2>2. UNCHANGED <<chunkStatus, numChunks, overlapped>>
    BY <1>2 DEF Keeps, SameDownload
  <2>3. UNCHANGED Visible
    BY <2>2 DEF Visible
  <2> QED  BY <2>1, <2>2, <2>3, TimerInSight DEF InSight
<1>3. CASE GivesUp
  <2>1. UNCHANGED <<numChunks, overlapped>> /\ scheduleDownloadTimer' = NoTimer
        /\ chunkStatus' = AbortedStatus
    BY <1>3 DEF GivesUp
  <2>2. \A c \in Cells : chunkStatus'[c] = Requested => chunkStatus[c] = Requested
    BY <2>1 DEF AbortedStatus, Aborted, Requested
  <2>3. UNCHANGED Visible
    BY <2>1 DEF Visible
  <2> QED  BY <2>1, <2>2, <2>3 DEF InSight
<1>4. ASSUME NEW c \in Cells, Requests(c)
      PROVE  InSight'
  <2>1. /\ UNCHANGED <<numChunks, overlapped>> /\ Armed /\ c \in Visible
        /\ chunkStatus' = [chunkStatus EXCEPT ![c] = Requested]
    BY <1>4 DEF Requests, SameDownload
  <2>2. UNCHANGED Visible
    BY <2>1 DEF Visible
  <2>3. \A k \in Cells : chunkStatus'[k] = Requested => k \in Visible
    BY <1>0, <2>1 DEF InSight
  <2>4. scheduleDownloadTimer' # NoTimer =>
          /\ scheduleDownloadTimer' \in Visible'
          /\ chunkStatus'[scheduleDownloadTimer'] # Requested
    BY <2>1 DEF Armed, Visible
  <2> QED  BY <2>2, <2>3, <2>4 DEF InSight
<1>5. ASSUME NEW c \in Cells, Frees(c)
      PROVE  InSight'
  <2>1. /\ UNCHANGED <<numChunks, overlapped>> /\ TimerMoves
        /\ chunkStatus' = [chunkStatus EXCEPT ![c] = Timeout]
    BY <1>5 DEF Frees, SameDownload
  <2>2. UNCHANGED Visible
    BY <2>1 DEF Visible
  <2>3. \A k \in Cells : chunkStatus'[k] = Requested => chunkStatus[k] = Requested
    BY <1>0, <2>1 DEF Timeout, Requested
  <2>4. scheduleDownloadTimer \in Cells \cup {NoTimer}
    BY DEF TypeInv, TypeOK
  <2> QED  BY <2>1, <2>2, <2>3, <2>4, TimerInSight DEF InSight
<1>6. ASSUME NEW c \in Cells, Receives(c)
      PROVE  InSight'
  <2>1. /\ UNCHANGED overlapped /\ TimerMoves
        /\ numChunks' = IF Opens(c) THEN NumChunks(segment) ELSE numChunks
        /\ \A k \in Cells : chunkStatus'[k] = Requested => chunkStatus[k] = Requested
    BY <1>6 DEF Receives, SameDownload, Received, NotInitiated, Requested
  <2>2. Opens(c) => numChunks = InitialChunks
    BY <1>6 DEF Receives, Opens, VectorSize, TypeInv, IdleBeforeFirst
  <2>3. \A k \in Cells : k \in Visible => k \in Visible'
    BY <2>1, <2>2 DEF Visible
  <2>4. scheduleDownloadTimer \in Cells \cup {NoTimer}
    BY DEF TypeInv, TypeOK
  <2> QED  BY <2>1, <2>3, <2>4, TimerInSight DEF InSight
<1> QED  BY <1>1, <1>2, <1>3, <1>4, <1>5, <1>6 DEF Effect
-----------------------------------------------------------------------------
\* The chunks waited for.
Waiting == {c \in Cells : chunkStatus[c] = Requested}

LEMMA WaitingFinite == IsFiniteSet(Waiting)
<1>1. IsFiniteSet(Cells)
  BY ConstantsOK, FS_Interval DEF ConstantsOK, Cells
<1> QED  BY <1>1, FS_Subset DEF Waiting

LEMMA VisibleWaiting ==
    ASSUME InSight, ~overlapped
    PROVE  {c \in Visible : chunkStatus[c] = Requested} = Waiting
BY DEF InSight, Visible, Waiting

LEMMA InflightKept ==
    ASSUME TypeInv, VectorSize, InSight, InSight', InflightAccounting, Effect
    PROVE  InflightAccounting'
<1> SUFFICES ASSUME segment' # NoSegment, ~abandoned', ~overlapped'
             PROVE  packetsInflight' = Cardinality(Waiting')
  BY VisibleWaiting DEF InSight, InflightAccounting, Visible, Waiting
<1>0. chunkStatus \in [Cells -> Status] /\ 0 \in Cells /\ packetsInflight \in Int
  BY Constants DEF TypeInv, TypeOK
<1>1. ASSUME NEW s \in Segments, Starts(s)
      PROVE  packetsInflight' = Cardinality(Waiting')
  <2>1. packetsInflight' = 1 /\ ~overlapped /\ ~StillAsking
        /\ chunkStatus' = [[c \in Cells |-> IF c < InitialChunks THEN NotInitiated ELSE chunkStatus[c]]
                              EXCEPT ![0] = Requested]
    BY <1>1 DEF Starts
  <2>2. \A c \in Cells : c < numChunks => chunkStatus[c] # Requested
    BY <2>1 DEF StillAsking, Requested, Received, Aborted
  <2>3. \A c \in Cells : chunkStatus[c] = Requested => c < InitialChunks
    BY <2>1, <2>2 DEF InSight, Visible
  <2>4. Waiting' = {0}
    BY <1>0, <2>1, <2>3 DEF Waiting, NotInitiated, Requested
  <2> QED  BY <2>1, <2>4, FS_Singleton
<1>2. CASE ~ \E s \in Segments : Starts(s)
  <2>0. SameDownload \/ GivesUp
    BY <1>2 DEF Effect, Keeps, Requests, Frees, Receives
  <2>1. segment # NoSegment /\ ~abandoned /\ ~overlapped
    BY <2>0 DEF GivesUp, SameDownload
  <2>2. packetsInflight = Cardinality(Waiting) /\ IsFiniteSet(Waiting)
    BY <2>1, VisibleWaiting, WaitingFinite DEF InflightAccounting
  <2>3. CASE Keeps
    BY <2>2, <2>3 DEF Keeps, Waiting
  <2>4. CASE GivesUp
    BY <2>4 DEF GivesUp
  <2>5. ASSUME NEW c \in Cells, Requests(c)
        PROVE  packetsInflight' = Cardinality(Waiting')
    <3>1. Waiting' = Waiting \cup {c} /\ c \notin Waiting
      BY <1>0, <2>1, <2>5 DEF Requests, Waiting, Requested
    <3> QED  BY <2>2, <2>5, <3>1, FS_AddElement DEF Requests
  <2>6. ASSUME NEW c \in Cells, Frees(c)
        PROVE  packetsInflight' = Cardinality(Waiting')
    <3>1. Waiting' = Waiting \ {c} /\ c \in Waiting
      BY <1>0, <2>6 DEF Frees, Waiting, Requested, Timeout
    <3> QED  BY <2>2, <2>6, <3>1, FS_RemoveElement DEF Frees
  <2>7. ASSUME NEW c \in Cells, Receives(c)
        PROVE  packetsInflight' = Cardinality(Waiting')
    <3>1. packetsInflight' = IF c \in Waiting THEN packetsInflight - 1 ELSE packetsInflight
      BY <2>7 DEF Receives, InflightAfterData, Waiting
    <3>2. ASSUME NEW k \in Cells, Opens(c), numChunks <= k, chunkStatus[k] = Requested
          PROVE  FALSE
      <4>1. numChunks = InitialChunks /\ numChunks \in Nat /\ k \in Nat
        BY <2>1, <3>2, CurrentSegment DEF VectorSize, Opens
      <4> QED  BY <2>1, <3>2, <4>1 DEF InSight, Visible
    <3>3. Waiting' = Waiting \ {c}
      BY <1>0, <2>7, <3>2 DEF Receives, Waiting, Requested, Received, NotInitiated
    <3> QED  BY <2>2, <3>1, <3>3, FS_RemoveElement
  <2> QED  BY <1>2, <2>3, <2>4, <2>5, <2>6, <2>7 DEF Effect
<1> QED  BY <1>1, <1>2

LEMMA AskedInOrderKept ==
    ASSUME TypeInv, VectorSize, InSight, AskedInOrder, Effect
    PROVE  AskedInOrder'
<1>0. /\ tries \in [Segments -> 0 .. MaxTries] /\ MaxTries \in Nat
      /\ network \in SUBSET (Segments \X Cells) /\ segment \in Segments \cup {NoSegment}
      /\ chunkStatus \in [Cells -> Status]
  BY ConstantsOK DEF ConstantsOK, TypeInv, TypeOK
<1>1. ASSUME NEW s \in Segments, Starts(s)
      PROVE  AskedInOrder'
  <2>1. /\ network' = network \cup {<<s, 0>>} /\ segment' = s
        /\ tries' = [tries EXCEPT ![s] = @ + 1]
    BY <1>1 DEF Starts
  <2>2. \A q \in Segments : tries'[q] = IF q = s THEN tries[s] + 1 ELSE tries[q]
    BY <1>0, <2>1
  <2>3. ASSUME NEW q \in Segments, NEW c \in Cells, <<q, c>> \in network'
        PROVE  tries'[q] > 0
    BY <1>0, <2>1, <2>2, <2>3 DEF AskedInOrder
  <2>4. ASSUME NEW c \in Cells, Once', <<segment', c>> \in network'
        PROVE  c < InitialChunks
    <3>1. tries[s] = 0
      BY <1>0, <2>1, <2>2, <2>4 DEF Once
    <3>2. <<s, c>> \notin network
      BY <3>1 DEF AskedInOrder
    <3>3. c = 0
      BY <2>1, <2>4, <3>2
    <3> QED  BY <3>3, ConstantsOK DEF ConstantsOK
  <2>5. segment' # NoSegment => tries'[segment'] > 0
    BY <1>0, <2>1, <2>2
  <2> QED  BY <2>3, <2>4, <2>5 DEF AskedInOrder
<1>2. ASSUME network' \subseteq network, UNCHANGED <<segment, tries, overlapped>>,
             Once /\ chunkStatus'[0] # Received => chunkStatus[0] # Received
      PROVE  AskedInOrder'
  BY <1>2 DEF AskedInOrder, Once
<1>3. CASE Keeps
  BY <1>2, <1>3 DEF Keeps, SameDownload
<1>4. CASE GivesUp
  BY <1>0, <1>2, <1>4, Constants DEF GivesUp, AbortedStatus
<1>5. ASSUME NEW c \in Cells, Frees(c)
      PROVE  AskedInOrder'
  BY <1>0, <1>2, <1>5, Constants DEF Frees, SameDownload, Requested, Received
<1>6. ASSUME NEW c \in Cells, Receives(c)
      PROVE  AskedInOrder'
  <2>1. /\ network' \subseteq network /\ SameDownload /\ segment # NoSegment
        /\ chunkStatus'[0] = IF 0 = c THEN Received
                             ELSE IF Opens(c) /\ numChunks <= 0 /\ 0 < NumChunks(segment)
                                  THEN NotInitiated ELSE chunkStatus[0]
    BY <1>6, Constants DEF Receives, TypeInv, IdleBeforeFirst
  <2>2. chunkStatus'[0] # Received => chunkStatus[0] # Received
    BY <2>1, CurrentSegment
  <2> QED  BY <1>2, <2>1, <2>2 DEF SameDownload
<1>7. ASSUME NEW c \in Cells, Requests(c)
      PROVE  AskedInOrder'
  <2>1. /\ network' = network \cup {<<segment, c>>} /\ SameDownload /\ UNCHANGED numChunks
        /\ chunkStatus' = [chunkStatus EXCEPT ![c] = Requested] /\ chunkStatus[c] # Received
    BY <1>7 DEF Requests
  <2>2. chunkStatus'[0] # Received => chunkStatus[0] # Received
    BY <1>0, <2>1, Constants
  <2>3. segment \in Segments /\ tries[segment] > 0
    BY <1>0, <1>7 DEF Requests, AskedInOrder
  <2>4. ASSUME NEW q \in Segments, NEW k \in Cells, <<q, k>> \in network'
        PROVE  tries'[q] > 0
    BY <2>1, <2>3, <2>4 DEF AskedInOrder, SameDownload
  <2>5. ASSUME NEW k \in Cells, Once', chunkStatus'[0] # Received, <<segment', k>> \in network'
        PROVE  k < InitialChunks
    <3>1. Once /\ chunkStatus[0] # Received
      BY <2>1, <2>2, <2>5 DEF Once, SameDownload
    <3>2. c \in Visible /\ numChunks = InitialChunks
      BY <1>7, <3>1 DEF Requests, Once, VectorSize
    <3>3. k = c \/ <<segment, k>> \in network
      BY <2>1, <2>5 DEF SameDownload
    <3> QED  BY <3>1, <3>2, <3>3 DEF AskedInOrder, Visible
  <2> QED  BY <2>1, <2>3, <2>4, <2>5 DEF AskedInOrder, SameDownload
<1> QED  BY <1>1, <1>3, <1>4, <1>5, <1>6, <1>7 DEF Effect

LEMMA HereFinite == segment \in Segments => IsFiniteSet(Here)
<1> SUFFICES ASSUME segment \in Segments  PROVE IsFiniteSet(Here)
  OBVIOUS
<1>1. IsFiniteSet(1 .. Size[segment])
  BY Constants, FS_Interval
<1> QED  BY <1>1, FS_Subset DEF Here

LEMMA BytesKept ==
    ASSUME TypeInv, TypeInv', VectorSize, AskedInOrder, BytesAccounting, Effect
    PROVE  BytesAccounting'
<1> SUFFICES ASSUME Once'
             PROVE  bytesToDownload' = (IF chunkStatus'[0] = Received THEN Size[segment'] ELSE -1)
                                            - Cardinality(Here')
  BY DEF BytesAccounting
<1>0. /\ chunkStatus \in [Cells -> Status] /\ 0 \in Cells /\ Cells \subseteq Nat
      /\ tries \in [Segments -> 0 .. MaxTries] /\ MaxTries \in Nat
      /\ bytesToDownload \in Int
      /\ \A s \in Segments : Size[s] \in Nat /\ 1 .. Size[s] \subseteq Cells
  <2>1. \A s \in Segments : Size[s] \in Nat /\ Cap \in Nat /\ Cap >= Size[s] + 1
    BY ConstantsOK DEF ConstantsOK
  <2>2. \A s \in Segments : 1 .. Size[s] \subseteq Cells
    BY <2>1 DEF Cells
  <2> QED  BY <2>1, <2>2, ConstantsOK, Constants DEF TypeInv, TypeOK, ConstantsOK
<1>1. ASSUME NEW s \in Segments, Starts(s)
      PROVE  bytesToDownload' = (IF chunkStatus'[0] = Received THEN Size[segment'] ELSE -1)
                                    - Cardinality(Here')
  <2>1. /\ bytesToDownload' = -1 /\ segment' = s /\ numChunks' = InitialChunks
        /\ chunkStatus' = [[c \in Cells |-> IF c < InitialChunks THEN NotInitiated ELSE chunkStatus[c]]
                              EXCEPT ![0] = Requested]
    BY <1>1 DEF Starts
  <2>2. \A c \in Cells : c < InitialChunks => chunkStatus'[c] # Received
    BY <1>0, <2>1 DEF NotInitiated, Requested, Received
  <2>3. Here' = {}
    BY <1>0, <2>1, <2>2 DEF Here
  <2>4. chunkStatus'[0] # Received
    BY <2>2, <1>0, ConstantsOK DEF ConstantsOK
  <2> QED  BY <2>1, <2>3, <2>4, FS_EmptySet
<1>2. CASE ~ \E s \in Segments : Starts(s)
  <2>1. Once /\ UNCHANGED segment /\ segment \in Segments
    <3>1. SameDownload \/ GivesUp
      BY <1>2 DEF Effect, Keeps, Requests, Frees, Receives
    <3>2. UNCHANGED <<segment, tries, overlapped>>
      BY <3>1 DEF GivesUp, SameDownload
    <3> QED  BY <3>2 DEF Once, TypeInv, TypeOK
  <2>2. /\ bytesToDownload = (IF chunkStatus[0] = Received THEN Size[segment] ELSE -1)
                                 - Cardinality(Here)
        /\ IsFiniteSet(Here)
    BY <2>1, HereFinite DEF BytesAccounting
  <2>3. ASSUME UNCHANGED <<bytesToDownload, numChunks>>,
               \A c \in Cells : chunkStatus'[c] = Received <=> chunkStatus[c] = Received
        PROVE  bytesToDownload' = (IF chunkStatus'[0] = Received THEN Size[segment'] ELSE -1)
                                      - Cardinality(Here')
    <3>1. Here' = Here
      BY <1>0, <2>1, <2>3 DEF Here
    <3> QED  BY <1>0, <2>1, <2>2, <2>3, <3>1
  <2>4. CASE Keeps \/ GivesUp
    BY <1>0, <2>3, <2>4 DEF Keeps, GivesUp, AbortedStatus, Aborted, Received
  <2>5. ASSUME NEW c \in Cells, Requests(c) \/ Frees(c)
        PROVE  bytesToDownload' = (IF chunkStatus'[0] = Received THEN Size[segment'] ELSE -1)
                                      - Cardinality(Here')
    BY <1>0, <2>3, <2>5 DEF Requests, Frees, Received, Requested, Timeout
  <2>6. ASSUME NEW c \in Cells, Receives(c)
        PROVE  bytesToDownload' = (IF chunkStatus'[0] = Received THEN Size[segment'] ELSE -1)
                                      - Cardinality(Here')
    <3>1. /\ <<segment, c>> \in network
          /\ chunkStatus' = [k \in Cells |->
                                IF k = c THEN Received
                                ELSE IF Opens(c) /\ numChunks <= k /\ k < NumChunks(segment)
                                     THEN NotInitiated ELSE chunkStatus[k]]
          /\ numChunks' = IF Opens(c) THEN NumChunks(segment) ELSE numChunks
          /\ bytesToDownload' = BytesAfterData(c)
      BY <2>6 DEF Receives
    <3>2. /\ segment # NoSegment /\ Size[segment] \in Nat \ {0} /\ numChunks \in Nat
          /\ NumChunks(segment) = Size[segment] + 1 /\ SizeAnnounced(segment) = Size[segment] + 1
      BY <2>1, CurrentSegment DEF Once, SizeAnnounced
    <3>3. CASE chunkStatus[c] = Received
      <4>1. bytesToDownload' = bytesToDownload /\ numChunks' = numChunks
        BY <3>1, <3>3 DEF BytesAfterData, Opens
      <4>2. \A k \in Cells : chunkStatus'[k] = chunkStatus[k]
        BY <3>1, <3>3 DEF Opens
      <4> QED  BY <2>3, <4>1, <4>2
    <3>4. CASE chunkStatus[c] # Received /\ c = 0
      <4>1. Opens(c) /\ bytesToDownload' = bytesToDownload + Size[segment] + 1
        BY <1>0, <3>1, <3>2, <3>4 DEF Opens, BytesAfterData
      <4>2. numChunks' = Size[segment] + 1
        BY <3>1, <3>2, <4>1
      <4>3. \A k \in 1 .. Size[segment] :
               chunkStatus'[k] = Received <=> chunkStatus[k] = Received /\ k < numChunks
        BY <1>0, <2>1, <3>1, <3>2, <3>4, <4>1 DEF NotInitiated, Received
      <4>4. Here' = Here
        BY <2>1, <3>2, <4>2, <4>3 DEF Here
      <4>5. chunkStatus'[0] = Received
        BY <1>0, <3>1, <3>4
      <4>6. bytesToDownload = -1 - Cardinality(Here) /\ Cardinality(Here) \in Nat
        BY <2>2, <3>4, FS_CardinalityType
      <4> QED  BY <2>1, <3>2, <4>1, <4>4, <4>5, <4>6
    <3>5. CASE chunkStatus[c] # Received /\ c # 0
      <4>1. /\ numChunks' = numChunks /\ bytesToDownload' = bytesToDownload - PayloadOf(segment, c)
            /\ \A k \in Cells : chunkStatus'[k] = IF k = c THEN Received ELSE chunkStatus[k]
        BY <3>1, <3>5 DEF Opens, BytesAfterData
      <4>2. chunkStatus'[0] = chunkStatus[0]
        BY <1>0, <3>5, <4>1
      <4>3. CASE c \in 1 .. Size[segment]
        <5>1. c < numChunks
          <6>1. CASE chunkStatus[0] = Received
            BY <3>2, <4>3, <6>1 DEF VectorSize
          <6>2. CASE chunkStatus[0] # Received
            BY <2>1, <3>1, <3>2, <6>2 DEF VectorSize, AskedInOrder
          <6> QED  BY <6>1, <6>2
        <5>2. Here' = Here \cup {c} /\ c \notin Here
          BY <1>0, <2>1, <3>5, <4>1, <4>3, <5>1 DEF Here
        <5>3. Cardinality(Here') = Cardinality(Here) + 1 /\ Cardinality(Here) \in Nat
          BY <2>2, <5>2, FS_AddElement, FS_CardinalityType
        <5>4. PayloadOf(segment, c) = 1
          BY <4>3 DEF PayloadOf
        <5> QED  BY <1>0, <2>1, <2>2, <3>2, <4>1, <4>2, <5>3, <5>4
      <4>4. CASE c \notin 1 .. Size[segment]
        <5>1. Here' = Here
          BY <1>0, <2>1, <4>1, <4>4 DEF Here
        <5>2. PayloadOf(segment, c) = 0
          BY <4>4 DEF PayloadOf
        <5> QED  BY <1>0, <2>1, <2>2, <4>1, <4>2, <5>1, <5>2
      <4> QED  BY <4>3, <4>4
    <3> QED  BY <3>3, <3>4, <3>5
  <2> QED  BY <1>2, <2>4, <2>5, <2>6 DEF Effect
<1> QED  BY <1>1, <1>2
-----------------------------------------------------------------------------
LEMMA InitAccounts == Init => AccountInv
<1> SUFFICES ASSUME Init  PROVE AccountInv
  OBVIOUS
<1>1. segment = NoSegment /\ network = {} /\ scheduleDownloadTimer = NoTimer
      /\ chunkStatus = [c \in Cells |-> NotInitiated]
  BY DEF Init
<1>2. InSight
  BY <1>1 DEF InSight, NotInitiated, Requested
<1> QED  BY <1>1, <1>2 DEF AccountInv, VectorSize, InflightAccounting, AskedInOrder,
                           BytesAccounting, Once

LEMMA AccountsKept ==
    ASSUME TypeInv, TypeInv', AccountInv, [Next]_vars
    PROVE  AccountInv'
<1>1. VectorSize /\ InSight /\ InflightAccounting /\ AskedInOrder /\ BytesAccounting
  BY DEF AccountInv
<1>2. Effect
  BY <1>1, NextEffect DEF Effect
<1>3. VectorSize'
  BY <1>1, <1>2, VectorSizeKept
<1>4. InSight'
  BY <1>1, <1>2, InSightKept
<1>5. InflightAccounting'
  BY <1>1, <1>2, <1>4, InflightKept
<1>6. AskedInOrder'
  BY <1>1, <1>2, AskedInOrderKept
<1>7. BytesAccounting'
  BY <1>1, <1>2, BytesKept
<1> QED  BY <1>3, <1>4, <1>5, <1>6, <1>7 DEF AccountInv

\* The accounts hold in every reachable state.
THEOREM Accounts == Spec => []AccountInv
<1>1. Init => AccountInv
  BY InitAccounts
<1>2. TypeInv /\ TypeInv' /\ AccountInv /\ [Next]_vars => AccountInv'
  BY AccountsKept
<1> QED  BY <1>1, <1>2, TypeInvariant, PTL DEF Spec

\* packets_inflight is the number of chunks marked Requested, in every download
\* that is not given up and did not begin on top of another.
THEOREM InflightCounted == Spec => []InflightAccounting
<1>1. AccountInv => InflightAccounting
  BY DEF AccountInv
<1> QED  BY <1>1, Accounts, PTL

LEMMA AccountsComplete ==
    ASSUME TypeInv, AccountInv
    PROVE  FirstDownloadIsComplete
<1> SUFFICES ASSUME Once, bytesToDownload = 0
             PROVE  \A c \in 0 .. Size[segment] : chunkStatus[c] = Received
  BY DEF FirstDownloadIsComplete, FinishedIsComplete, Once
<1>1. segment \in Segments /\ Size[segment] \in Nat \ {0}
  BY CurrentSegment DEF Once, AccountInv
<1>2. IsFiniteSet(Here) /\ Cardinality(Here) \in Nat
  BY <1>1, HereFinite, FS_CardinalityType
<1>3. chunkStatus[0] = Received /\ Cardinality(Here) = Size[segment]
  BY <1>1, <1>2 DEF AccountInv, BytesAccounting
<1>4. IsFiniteSet(1 .. Size[segment]) /\ Cardinality(1 .. Size[segment]) = Size[segment]
  BY <1>1, FS_Interval
<1>5. Here = 1 .. Size[segment]
  <2>1. Here \subseteq 1 .. Size[segment]
    BY DEF Here
  <2> QED  BY <1>3, <1>4, <2>1, FS_Subset
<1> QED  BY <1>1, <1>3, <1>5 DEF Here

\* A segment that is downloaded for the first time counts as finished only with
\* every chunk of it.
THEOREM FirstDownloadWhole == Spec => []FirstDownloadIsComplete
<1> QED  BY AccountsComplete, TypeInvariant, Accounts, PTL
=============================================================================
