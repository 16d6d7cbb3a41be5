--------------------------- MODULE DownloadManager ---------------------------
(***************************************************************************)
(* The DownloadManager: it fetches a batch of segments, the layers of one  *)
(* stretch of video in ascending order, with a small pool of downloaders   *)
(* and reports to its player once the batch is done or cut short.          *)
(*                                                                         *)
(* A downloader is what IDownloader promises.  It notifies the manager,    *)
(* the manager the player, and the player may call the manager again, all  *)
(* inside one event of the simulator: such a chain is a sequence of steps  *)
(* here, and pc keeps every other event out until it ends.                 *)
(***************************************************************************)
EXTENDS Integers, Sequences, FiniteSets, SequencesExt

CONSTANTS
    DOWNLOADER_NUMBER,  \* size of the pool (2 in the code)
    Segments, NoSegment,
    Level,              \* Level[s]: quality level of s, 0 is the base layer
    Layered,            \* the downloaders give enhancement layers up
    Batches             \* sequence of the batches the player asks for

ASSUME ConstantsOK ==
    /\ DOWNLOADER_NUMBER \in Nat \ {0}
    /\ NoSegment \notin Segments
    /\ Level \in [Segments -> Nat]
    /\ Layered \in BOOLEAN
    /\ Batches \in Seq(Seq(Segments))
    /\ \A i \in DOMAIN Batches : Batches[i] # <<>> /\ IsInjective(Batches[i])

Downloaders == 1 .. DOWNLOADER_NUMBER

VARIABLES
    bussy, finished, lastDownloadSuccessful, segment,  \* per downloader
    window,             \* window[d]: owner of the congestion window object d uses
    lastDownloader,
    enquedSegments,     \* sequence, next to download first
    finishedSegments,   \* sequence, in order of completion
    hadSpecialNACK,
    pc,                 \* what runs next in the current event
    sender, message,    \* the notification being handled
    player,             \* idle, waiting for a report, stopped
    asked,              \* history: batches asked for so far
    received,           \* history: segments wholly received
    dropped,            \* history: segments of the batch a NACK took away
    late                \* history: a downloader reported while not bussy

downloaderVars == <<bussy, finished, lastDownloadSuccessful, segment>>
queueVars == <<enquedSegments, finishedSegments, hadSpecialNACK>>
windowVars == <<window, lastDownloader>>
historyVars == <<asked, received, dropped, late>>
vars == <<downloaderVars, windowVars, queueVars, pc, sender, message, player, historyVars>>

Messages == {"none", "SoonFinished", "SegmentReceived", "NackReceived"}

TypeOK ==
    /\ bussy \in [Downloaders -> BOOLEAN]
    /\ finished \in [Downloaders -> BOOLEAN]
    /\ lastDownloadSuccessful \in [Downloaders -> BOOLEAN]
    /\ segment \in [Downloaders -> Segments \cup {NoSegment}]
    /\ window \in [Downloaders -> Downloaders]
    /\ lastDownloader \in Downloaders
    /\ enquedSegments \in Seq(Segments) /\ finishedSegments \in Seq(Segments)
    /\ hadSpecialNACK \in BOOLEAN
    /\ pc \in {"idle", "update", "report", "reportNack", "resume"}
    /\ sender \in Downloaders /\ message \in Messages
    /\ player \in {"idle", "waiting", "stopped"}
    /\ asked \in 0 .. Len(Batches)
    /\ received \in SUBSET Segments /\ dropped \in SUBSET Segments
    /\ late \in BOOLEAN

Init ==
    /\ bussy = [d \in Downloaders |-> FALSE]
    /\ finished = [d \in Downloaders |-> FALSE]
    /\ lastDownloadSuccessful = [d \in Downloaders |-> TRUE]
    /\ segment = [d \in Downloaders |-> NoSegment]
    /\ window = [d \in Downloaders |-> d] /\ lastDownloader = 1
    /\ enquedSegments = <<>> /\ finishedSegments = <<>>
    /\ hadSpecialNACK \in BOOLEAN
    /\ pc = "idle" /\ sender = 1 /\ message = "none"
    /\ player = "idle"
    /\ asked = 0
    /\ received = {} /\ dropped = {} /\ late = FALSE
-----------------------------------------------------------------------------
(* What the downloaders do on their own.  Only a downloader that has had a  *)
(* segment is sent Data and NACKs.                                          *)

\* Mutant of Notify: Data for a downloader that never asked for any.
NotifyUnasked(d, m) ==
    /\ pc = "idle"
    /\ pc' = "update" /\ sender' = d /\ message' = m
    /\ late' = (late \/ (~bussy[d] /\ m # "SoonFinished"))
    /\ UNCHANGED <<bussy, segment, windowVars, queueVars, player, asked, dropped>>

Notify(d, m) ==
    /\ pc = "idle" /\ segment[d] # NoSegment
    /\ pc' = "update" /\ sender' = d /\ message' = m
    /\ late' = (late \/ (~bussy[d] /\ m # "SoonFinished"))
    /\ UNCHANGED <<bussy, segment, windowVars, queueVars, player, asked, dropped>>

Complete(d) ==
    /\ Notify(d, "SegmentReceived")
    /\ finished' = [finished EXCEPT ![d] = TRUE]
    /\ lastDownloadSuccessful' = [lastDownloadSuccessful EXCEPT ![d] = TRUE]
    /\ received' = received \cup {segment[d]}

GiveUp(d) ==
    /\ Layered
    /\ Notify(d, "NackReceived")
    /\ Level[segment[d]] # 0
    /\ finished' = [finished EXCEPT ![d] = FALSE]
    /\ lastDownloadSuccessful' = [lastDownloadSuccessful EXCEPT ![d] = FALSE]
    /\ UNCHANGED received

SoonFinished(d) ==
    /\ Notify(d, "SoonFinished")
    /\ UNCHANGED <<finished, lastDownloadSuccessful, received>>
-----------------------------------------------------------------------------
(* The manager.                                                             *)

Bussy == {d \in Downloaders : bussy[d]}
First(set) == CHOOSE d \in set : \A e \in set : d <= e

\* Mutant of NonBussy: every downloader is taken for free.
AnyDownloader == Downloaders

NonBussy == Downloaders \ Bussy

\* Mutant of InheritWindow: the downloader keeps its own window.
KeepWindow(d) == UNCHANGED window /\ lastDownloader' = d

\* setCongWindow: the object is shared from now on.
InheritWindow(d) ==
    /\ window' = [window EXCEPT ![d] = window[lastDownloader]]
    /\ lastDownloader' = d

\* Hands the first queued segment to the first free downloader, which takes
\* over the congestion window of the one used last.
downloadSegments(queue) ==
    LET d == First(NonBussy)
        s == Head(queue)
    IN  IF NonBussy = {}
        THEN /\ enquedSegments' = queue
             /\ UNCHANGED <<downloaderVars, windowVars, received>>
        ELSE /\ InheritWindow(d)
             /\ enquedSegments' = Tail(queue)
             /\ bussy' = [bussy EXCEPT ![d] = TRUE]
             /\ lastDownloadSuccessful' = [lastDownloadSuccessful EXCEPT ![d] = TRUE]
             /\ segment' = [segment EXCEPT ![d] = s]
             /\ received' = received \ {s}
             /\ UNCHANGED finished

\* Mutant of AbortAndReset: lastDownloadSuccessful is not reset.
AbortAndRelease(ds) ==
    /\ bussy' = [d \in Downloaders |-> bussy[d] /\ d \notin ds]
    /\ finished' = [d \in Downloaders |-> finished[d] /\ d \notin ds]
    /\ UNCHANGED <<lastDownloadSuccessful, segment>>

\* abortDownload and reset of a set of bussy, unfinished downloaders.
AbortAndReset(ds) ==
    /\ bussy' = [d \in Downloaders |-> bussy[d] /\ d \notin ds]
    /\ finished' = [d \in Downloaders |-> finished[d] /\ d \notin ds]
    /\ lastDownloadSuccessful' =
          [d \in Downloaders |-> lastDownloadSuccessful[d] \/ d \in ds]
    /\ UNCHANGED segment

soonFinished ==
    /\ pc = "update" /\ message = "SoonFinished"
    /\ pc' = "idle"
    /\ IF enquedSegments # <<>> THEN downloadSegments(enquedSegments)
       ELSE UNCHANGED <<downloaderVars, windowVars, enquedSegments, received>>
    /\ message' = "none"
    /\ UNCHANGED <<finishedSegments, hadSpecialNACK, sender, player, asked, dropped,
                   late>>

\* The layers still queued are forgotten whoever sent the NACK.  Then every
\* unfinished download of the given-up level or above is aborted; the player
\* is told at once unless a lower level is still downloading.
specialNACKreceived ==
    LET nacked == {d \in Bussy : ~finished[d] /\ ~lastDownloadSuccessful[d]}
        level == Level[segment[First(nacked)]]
        aborted == {d \in Bussy : ~finished[d] /\ Level[segment[d]] >= level}
        stillDownloading == \E d \in Bussy : Level[segment[d]] < level
    IN
    /\ pc = "update" /\ message = "NackReceived"
    /\ enquedSegments' = <<>> /\ hadSpecialNACK' = TRUE
    /\ IF nacked = {}
       THEN /\ pc' = "idle" /\ message' = "none"
            /\ dropped' = dropped \cup ToSet(enquedSegments)
            /\ UNCHANGED downloaderVars
       ELSE /\ AbortAndReset(aborted)
            /\ dropped' = dropped \cup ToSet(enquedSegments)
                                  \cup {segment[d] : d \in aborted}
            /\ pc' = IF stillDownloading THEN "idle" ELSE "reportNack"
            /\ message' = IF stillDownloading THEN "none" ELSE "NackReceived"
    /\ UNCHANGED <<finishedSegments, windowVars, sender, player, asked, received,
                   late>>

Finished == {d \in Bussy : finished[d] /\ lastDownloadSuccessful[d]}

\* Nothing queued, and d was the last bussy downloader.
BatchDone(d) == enquedSegments = <<>> /\ Bussy = {d}

\* Mutant of ReportOf: a cut batch is reported as a whole one.
AlwaysReceived == "SegmentReceived"

ReportOf == IF hadSpecialNACK THEN "NackReceived" ELSE "SegmentReceived"

\* The first downloader whose flags say so is taken for the one that finished;
\* the player is told when nothing is queued and no downloader is bussy.
segmentReceived ==
    LET d == First(Finished) IN
    /\ pc = "update" /\ message = "SegmentReceived"
    /\ IF Finished = {}
       THEN /\ pc' = "idle" /\ message' = "none"
            /\ UNCHANGED <<downloaderVars, finishedSegments>>
       ELSE /\ bussy' = [bussy EXCEPT ![d] = FALSE]
            /\ finished' = [finished EXCEPT ![d] = FALSE]
            /\ finishedSegments' = Append(finishedSegments, segment[d])
            /\ pc' = IF BatchDone(d) THEN "report" ELSE "resume"
            /\ message' = IF BatchDone(d) THEN ReportOf ELSE "none"
            /\ UNCHANGED <<lastDownloadSuccessful, segment>>
    /\ UNCHANGED <<enquedSegments, hadSpecialNACK, windowVars, sender, player, asked,
                   received, dropped, late>>

\* Mutant of resume: the rest of the queue is left to SoonFinished.
resumeNothing ==
    /\ pc = "resume"
    /\ pc' = "idle"
    /\ UNCHANGED <<downloaderVars, queueVars, windowVars, sender, message, player,
                   historyVars>>

\* The end of segmentReceived, after the player may have queued another batch.
resume ==
    /\ pc = "resume"
    /\ pc' = "idle"
    /\ IF Bussy = {} /\ enquedSegments # <<>> THEN downloadSegments(enquedSegments)
       ELSE UNCHANGED <<downloaderVars, windowVars, enquedSegments, received>>
    /\ UNCHANGED <<finishedSegments, hadSpecialNACK, sender, message, player, asked,
                   dropped, late>>
-----------------------------------------------------------------------------
(* Calls of the player.                                                     *)

\* The next batch replaces the queue; a download is started only if every
\* downloader is free.
enque ==
    LET segments == Batches[asked + 1] IN
    /\ asked < Len(Batches)
    /\ asked' = asked + 1
    /\ player' = "waiting"
    /\ hadSpecialNACK' = FALSE /\ finishedSegments' = <<>>
    /\ dropped' = {}
    /\ IF Bussy = {} THEN downloadSegments(segments)
       ELSE /\ enquedSegments' = segments
            /\ UNCHANGED <<downloaderVars, windowVars, received>>
    /\ UNCHANGED late

\* The player is told, at the end of specialNACKreceived or in the middle of
\* segmentReceived.  It asks for the next batch inside the notification, or
\* later, when its buffer has room.
Reporting == pc \in {"report", "reportNack"}

AfterReport ==
    /\ Reporting
    /\ pc' = IF pc = "report" THEN "resume" ELSE "idle"
    /\ message' = "none"
    /\ UNCHANGED sender

ReportAndEnque ==
    /\ AfterReport
    /\ player # "stopped"
    /\ enque

Report ==
    /\ AfterReport
    /\ player' = IF player = "waiting" THEN "idle" ELSE player
    /\ UNCHANGED <<downloaderVars, windowVars, queueVars, historyVars>>

EnqueLater ==
    /\ pc = "idle" /\ player = "idle"
    /\ enque
    /\ UNCHANGED <<pc, sender, message>>

\* The levels finished without a gap from the base layer up.
ContiguousLevels ==
    {s \in ToSet(finishedSegments) :
        \A l \in 0 .. Level[s] : \E t \in ToSet(finishedSegments) : Level[t] = l}

\* The player's buffer runs dry: it takes the layers there are, if the base
\* layer is among them, and the rest of the batch is given up.
retriveUnfinishedSegments ==
    /\ pc = "idle" /\ player = "waiting"
    /\ ContiguousLevels # {}
    /\ AbortAndReset({d \in Bussy : ~finished[d]})
    /\ enquedSegments' = <<>> /\ finishedSegments' = <<>>
    /\ player' = "idle"
    /\ UNCHANGED <<hadSpecialNACK, windowVars, pc, sender, message, historyVars>>

\* Downloads are aborted, and their downloaders stay bussy.
stop ==
    /\ pc = "idle" /\ player # "stopped"
    /\ finished' = [d \in Downloaders |-> FALSE]
    /\ enquedSegments' = <<>> /\ finishedSegments' = <<>>
    /\ player' = "stopped"
    /\ UNCHANGED <<bussy, lastDownloadSuccessful, segment, hadSpecialNACK, windowVars,
                   pc, sender, message, historyVars>>
-----------------------------------------------------------------------------
Downloading ==
    \E d \in Downloaders : Complete(d) \/ GiveUp(d) \/ SoonFinished(d)

Managing == soonFinished \/ specialNACKreceived \/ segmentReceived \/ resume

Playing ==
    \/ ReportAndEnque \/ Report \/ EnqueLater
    \/ retriveUnfinishedSegments \/ stop

Next == Downloading \/ Managing \/ Playing

Spec == Init /\ [][Next]_vars

Fairness ==
    /\ WF_vars(Managing) /\ WF_vars(ReportAndEnque \/ Report)
    /\ \A d \in Downloaders : SF_vars(bussy[d] /\ Complete(d))

FairSpec == Spec /\ Fairness
-----------------------------------------------------------------------------
(* Safety.  A downloader that is not bussy can still report, for interests  *)
(* of a download that was given up; most of what the manager promises holds *)
(* only while none has (~late), and FinishedWaitsForReset shows why.        *)

Batch == IF asked = 0 THEN <<>> ELSE Batches[asked]

\* A downloader as the contract IDownloader sees it: the message it sent last
\* is the one being handled.
Downloader(d) == INSTANCE IDownloader WITH
    bussy <- bussy[d], finished <- finished[d],
    lastDownloadSuccessful <- lastDownloadSuccessful[d], segment <- segment[d],
    message <- IF pc = "update" /\ sender = d THEN message ELSE "none"

\* The manager keeps to its side of the contract: it starts only a downloader
\* that is free, fetches only a finished download, and gives up only one that
\* is running - whichever of its downloaders a notification came from.
DownloadersUsedAsPromised ==
    /\ \A d \in Downloaders : Downloader(d)!Init
    /\ [][\A d \in Downloaders : Downloader(d)!Next \/ UNCHANGED Downloader(d)!vars]_vars

\* While the player waits, each segment of its batch is in exactly one place:
\* queued, loading, finished, or dropped on account of a NACK.
BatchAccounting ==
    pc = "idle" /\ player = "waiting" /\ ~late =>
        LET loading == {segment[d] : d \in Bussy} IN
        /\ ToSet(Batch) = ToSet(enquedSegments) \cup loading
                             \cup ToSet(finishedSegments) \cup dropped
        /\ Len(Batch) = Len(enquedSegments) + Cardinality(Bussy)
                             + Len(finishedSegments) + Cardinality(dropped)

\* A batch reported as received lacks nothing: a NACK anywhere in the batch is
\* remembered until the report.
ReportedIsWhole ==
    Reporting /\ message = "SegmentReceived" /\ ~late /\ player # "stopped"
        => ToSet(finishedSegments) = ToSet(Batch)

\* All downloaders in use pace themselves with one window: setCongWindow hands
\* the object on, not a copy of it.
SharedWindow == \A d \in Downloaders : segment[d] # NoSegment => window[d] = window[1]
-----------------------------------------------------------------------------
(* Liveness.                                                                *)

\* The player gets an answer about every batch, or stops.
BatchReported == player = "waiting" ~> player # "waiting"
-----------------------------------------------------------------------------
(* What the source says of itself and the code does not keep.               *)

\* update: "dwnl is still bussy BUT finished and waits for reset".  A segment
\* the manager counts as finished has wholly arrived.
FinishedWaitsForReset == ToSet(finishedSegments) \subseteq received
=============================================================================
