------------------------ MODULE DownloadManagerProofs ------------------------
(***************************************************************************)
(* Types, the shared congestion window, the use the manager makes of its   *)
(* downloaders, and where the segments of a batch are, for any pool and    *)
(* any batches.                                                            *)
(***************************************************************************)
EXTENDS DownloadManager, DataLemmas

\* Who has had a segment uses the window of the first downloader, as does the
\* one used last, from whom the next one will take it.
WindowInv ==
    /\ SharedWindow
    /\ window[lastDownloader] = window[1]

\* Whoever is bussy loads something: what a NACK drops are segments.
LoadsSegment == \A d \in Downloaders : bussy[d] => segment[d] # NoSegment

IInv == TypeOK /\ WindowInv /\ LoadsSegment
-----------------------------------------------------------------------------
\* Some downloader comes first.
LEMMA FirstIsOne ==
    ASSUME NEW S \in SUBSET Downloaders, S # {}
    PROVE  First(S) \in S
<1>1. S \in SUBSET Nat
  BY ConstantsOK DEF Downloaders
<1> QED  BY <1>1, LeastNatural DEF First
-----------------------------------------------------------------------------
(* What is a step of a downloader's contract.  A step of the manager leaves  *)
(* no message to be handled.                                                *)

Stays(d) ==
    /\ bussy'[d] = bussy[d] /\ finished'[d] = finished[d]
    /\ lastDownloadSuccessful'[d] = lastDownloadSuccessful[d] /\ segment'[d] = segment[d]

AllAsPromised == \A d \in Downloaders : Downloader(d)!Next

LEMMA StaysAsPromised ==
    ASSUME NEW d \in Downloaders, Stays(d),
           pc' # "update" \/ sender' # d \/ message' = "SoonFinished"
    PROVE  Downloader(d)!Next
BY DEF Stays, Downloader!Next, Downloader!Progress

LEMMA DownloadAsPromised ==
    ASSUME NEW d \in Downloaders, ~bussy[d], bussy'[d] = TRUE,
           lastDownloadSuccessful'[d] = TRUE, segment'[d] \in Segments,
           finished'[d] = finished[d], pc' # "update"
    PROVE  Downloader(d)!Next
BY DEF Downloader!Next, Downloader!Download

LEMMA AbortAsPromised ==
    ASSUME NEW d \in Downloaders, finished'[d] = FALSE, bussy'[d] = bussy[d],
           lastDownloadSuccessful'[d] = lastDownloadSuccessful[d], segment'[d] = segment[d],
           pc' # "update"
    PROVE  Downloader(d)!Next
BY DEF Downloader!Next, Downloader!Abort

LEMMA AbortAndResetAsPromised ==
    ASSUME NEW d \in Downloaders, bussy[d], ~finished[d], bussy'[d] = FALSE,
           lastDownloadSuccessful'[d] = TRUE, finished'[d] = finished[d],
           segment'[d] = segment[d], pc' # "update"
    PROVE  Downloader(d)!Next
BY DEF Downloader!Next, Downloader!AbortAndReset

LEMMA ResetAsPromised ==
    ASSUME NEW d \in Downloaders, bussy[d], finished[d], lastDownloadSuccessful[d],
           bussy'[d] = FALSE, finished'[d] = FALSE,
           lastDownloadSuccessful'[d] = lastDownloadSuccessful[d],
           segment'[d] = segment[d], pc' # "update"
    PROVE  Downloader(d)!Next
BY DEF Downloader!Next, Downloader!Reset
-----------------------------------------------------------------------------
\* What downloadSegments changes.
PoolInv ==
    /\ bussy \in [Downloaders -> BOOLEAN] /\ finished \in [Downloaders -> BOOLEAN]
    /\ lastDownloadSuccessful \in [Downloaders -> BOOLEAN]
    /\ segment \in [Downloaders -> Segments \cup {NoSegment}]
    /\ LoadsSegment

WindowTypes ==
    /\ window \in [Downloaders -> Downloaders] /\ lastDownloader \in Downloaders

\* The rest of the state, in two parts that steps rarely change together.
QueueTypes ==
    /\ enquedSegments \in Seq(Segments) /\ finishedSegments \in Seq(Segments)
    /\ hadSpecialNACK \in BOOLEAN

ControlTypes ==
    /\ pc \in {"idle", "update", "report", "reportNack", "resume"}
    /\ sender \in Downloaders /\ message \in Messages
    /\ player \in {"idle", "waiting", "stopped"}
    /\ asked \in 0 .. Len(Batches) /\ late \in BOOLEAN

HistoryTypes == received \in SUBSET Segments /\ dropped \in SUBSET Segments

LEMMA InvApart ==
    IInv => PoolInv /\ WindowTypes /\ QueueTypes /\ ControlTypes /\ HistoryTypes /\ WindowInv
BY DEF IInv, TypeOK, PoolInv, LoadsSegment, WindowTypes, QueueTypes, ControlTypes, HistoryTypes

LEMMA InvTogether ==
    ASSUME PoolInv', WindowTypes', QueueTypes', ControlTypes', HistoryTypes', WindowInv'
    PROVE  IInv'
BY DEF IInv, TypeOK, PoolInv, LoadsSegment, WindowTypes, QueueTypes, ControlTypes, HistoryTypes

LEMMA FirstDownloader == 1 \in Downloaders
BY ConstantsOK DEF Downloaders

\* A segment is handed to a free downloader, or nothing happens.
LEMMA DownloadSegmentsSafe ==
    ASSUME IInv, NEW queue \in Seq(Segments), queue # <<>>, downloadSegments(queue), pc' # "update"
    PROVE  /\ PoolInv' /\ WindowTypes' /\ WindowInv' /\ AllAsPromised
           /\ enquedSegments' \in Seq(Segments) /\ received' \in SUBSET Segments
<1> DEFINE d == First(NonBussy)
           s == Head(queue)
<1>1. /\ PoolInv /\ WindowTypes /\ HistoryTypes
      /\ s \in Segments /\ Tail(queue) \in Seq(Segments)
      /\ WindowInv
  BY InvApart
<1>2. CASE NonBussy = {}
  <2>1. UNCHANGED <<bussy, finished, lastDownloadSuccessful, segment, window, lastDownloader, received>>
        /\ enquedSegments' = queue
    BY <1>2 DEF downloadSegments, downloaderVars, windowVars
  <2>2. AllAsPromised
    BY <2>1, StaysAsPromised DEF AllAsPromised, Stays
  <2> QED
    BY <1>1, <2>1, <2>2 DEF PoolInv, LoadsSegment, WindowTypes, HistoryTypes, WindowInv, SharedWindow
<1>3. CASE NonBussy # {}
  <2>1. d \in Downloaders /\ ~bussy[d]
    BY <1>3, FirstIsOne DEF NonBussy, Bussy
  <2>2. /\ bussy' = [bussy EXCEPT ![d] = TRUE]
        /\ lastDownloadSuccessful' = [lastDownloadSuccessful EXCEPT ![d] = TRUE]
        /\ segment' = [segment EXCEPT ![d] = s]
        /\ window' = [window EXCEPT ![d] = window[lastDownloader]]
        /\ lastDownloader' = d
        /\ enquedSegments' = Tail(queue) /\ received' = received \ {s}
        /\ UNCHANGED finished
    BY <1>3 DEF downloadSegments, InheritWindow
  <2> HIDE DEF d, s
  <2>3. PoolInv' /\ WindowTypes'
    BY <1>1, <2>1, <2>2, ConstantsOK DEF PoolInv, LoadsSegment, WindowTypes
  <2>4. WindowInv'
    BY <1>1, <2>1, <2>2, FirstDownloader DEF WindowInv, SharedWindow, PoolInv, LoadsSegment, WindowTypes
  <2>5. AllAsPromised
    <3> SUFFICES ASSUME NEW e \in Downloaders  PROVE Downloader(e)!Next
      BY DEF AllAsPromised
    <3>1. CASE e = d
      BY <1>1, <2>1, <2>2, <3>1, DownloadAsPromised DEF PoolInv, LoadsSegment
    <3>2. CASE e # d
      BY <1>1, <2>1, <2>2, <3>2, StaysAsPromised DEF PoolInv, LoadsSegment, Stays
    <3> QED  BY <3>1, <3>2
  <2> QED  BY <1>1, <2>2, <2>3, <2>4, <2>5 DEF HistoryTypes
<1> QED  BY <1>2, <1>3

\* Running downloads are given up.
LEMMA AbortSafe ==
    ASSUME IInv, NEW ds \in SUBSET {d \in Bussy : ~finished[d]}, AbortAndReset(ds), pc' # "update"
    PROVE  PoolInv' /\ AllAsPromised /\ UNCHANGED segment
<1>1. PoolInv
  BY InvApart
<1>2. /\ bussy' = [d \in Downloaders |-> bussy[d] /\ d \notin ds]
      /\ finished' = [d \in Downloaders |-> finished[d] /\ d \notin ds]
      /\ lastDownloadSuccessful' = [d \in Downloaders |-> lastDownloadSuccessful[d] \/ d \in ds]
      /\ segment' = segment
  BY DEF AbortAndReset
<1>3. PoolInv'
  BY <1>1, <1>2 DEF PoolInv, LoadsSegment
<1>4. AllAsPromised
  <2> SUFFICES ASSUME NEW d \in Downloaders  PROVE Downloader(d)!Next
    BY DEF AllAsPromised
  <2>1. CASE d \in ds
    <3>1. bussy[d] /\ ~finished[d]
      BY <2>1 DEF Bussy
    <3>2. /\ bussy'[d] = FALSE /\ lastDownloadSuccessful'[d] = TRUE
          /\ finished'[d] = finished[d] /\ segment'[d] = segment[d]
      BY <1>1, <1>2, <2>1, <3>1 DEF PoolInv, LoadsSegment
    <3> QED  BY <3>1, <3>2, AbortAndResetAsPromised
  <2>2. CASE d \notin ds
    BY <1>1, <1>2, <2>2, StaysAsPromised DEF PoolInv, LoadsSegment, Stays
  <2> QED  BY <2>1, <2>2
<1> QED  BY <1>2, <1>3, <1>4

\* Nothing of the pool changes, and there is nothing for a downloader to see.
LEMMA PoolKept ==
    ASSUME IInv, UNCHANGED downloaderVars,
           pc' # "update" \/ message' = "SoonFinished"
    PROVE  PoolInv' /\ AllAsPromised
<1>1. PoolInv
  BY InvApart
<1> QED  BY <1>1, StaysAsPromised DEF downloaderVars, PoolInv, LoadsSegment, AllAsPromised, Stays

LEMMA WindowKept ==
    ASSUME IInv, UNCHANGED <<segment, windowVars>>
    PROVE  WindowTypes' /\ WindowInv'
<1>1. WindowTypes /\ WindowInv
  BY InvApart
<1> QED  BY <1>1 DEF windowVars, WindowTypes, WindowInv, SharedWindow
-----------------------------------------------------------------------------
LEMMA InitSafe == Init => IInv /\ \A d \in Downloaders : Downloader(d)!Init
<1> SUFFICES ASSUME Init  PROVE IInv /\ \A d \in Downloaders : Downloader(d)!Init
  OBVIOUS
<1>1. PoolInv
  BY DEF Init, PoolInv, LoadsSegment
<1>2. WindowTypes /\ WindowInv
  BY FirstDownloader DEF Init, WindowTypes, WindowInv, SharedWindow
<1>3. ControlTypes
  <2>1. 0 \in 0 .. Len(Batches)
    BY ConstantsOK
  <2> QED  BY <2>1, FirstDownloader DEF Init, ControlTypes, Messages
<1>4. QueueTypes /\ HistoryTypes
  BY DEF Init, QueueTypes, HistoryTypes
<1>5. \A d \in Downloaders : Downloader(d)!Init
  BY DEF Init, Downloader!Init
<1> QED  BY <1>1, <1>2, <1>3, <1>4, <1>5 DEF IInv, TypeOK, PoolInv, LoadsSegment, WindowTypes, QueueTypes, ControlTypes, HistoryTypes

LEMMA NotifyTypes ==
    ASSUME IInv, NEW d \in Downloaders, NEW m \in Messages, Notify(d, m)
    PROVE  /\ QueueTypes' /\ ControlTypes' /\ WindowTypes' /\ WindowInv'
           /\ dropped' \in SUBSET Segments
<1>1. QueueTypes /\ ControlTypes /\ HistoryTypes /\ PoolInv
  BY InvApart
<1>2. WindowTypes' /\ WindowInv'
  BY WindowKept DEF Notify
<1>3. late' \in BOOLEAN
  BY <1>1 DEF Notify, ControlTypes
<1> QED  BY <1>1, <1>2, <1>3 DEF Notify, queueVars, QueueTypes, ControlTypes, HistoryTypes

\* Each notification is a step of its sender.
LEMMA DownloadingSafe ==
    ASSUME IInv, Downloading
    PROVE  IInv' /\ AllAsPromised
<1> PICK d \in Downloaders : Complete(d) \/ GiveUp(d) \/ SoonFinished(d)
  BY DEF Downloading
<1>1. PoolInv /\ HistoryTypes
  BY InvApart
<1>2. CASE Complete(d)
  <2>1. /\ Notify(d, "SegmentReceived")
        /\ segment[d] # NoSegment
        /\ bussy' = bussy /\ segment' = segment
        /\ finished' = [finished EXCEPT ![d] = TRUE]
        /\ lastDownloadSuccessful' = [lastDownloadSuccessful EXCEPT ![d] = TRUE]
        /\ received' = received \cup {segment[d]}
        /\ pc' = "update" /\ sender' = d /\ message' = "SegmentReceived"
    BY <1>2 DEF Complete, Notify
  <2>2. PoolInv' /\ HistoryTypes'
    BY <1>1, <2>1, NotifyTypes DEF PoolInv, LoadsSegment, HistoryTypes, Messages
  <2>3. ASSUME NEW e \in Downloaders  PROVE Downloader(e)!Next
    <3>1. CASE e = d
      BY <1>1, <2>1, <3>1 DEF PoolInv, LoadsSegment, Downloader!Next, Downloader!Complete
    <3>2. CASE e # d
      BY <1>1, <2>1, <3>2, StaysAsPromised DEF PoolInv, LoadsSegment, Stays
    <3> QED  BY <3>1, <3>2
  <2> QED
    BY <2>1, <2>2, <2>3, NotifyTypes, InvTogether DEF AllAsPromised, Messages
<1>3. CASE GiveUp(d)
  <2>1. /\ Notify(d, "NackReceived") /\ Layered /\ Level[segment[d]] # 0
        /\ segment[d] # NoSegment
        /\ bussy' = bussy /\ segment' = segment /\ received' = received
        /\ finished' = [finished EXCEPT ![d] = FALSE]
        /\ lastDownloadSuccessful' = [lastDownloadSuccessful EXCEPT ![d] = FALSE]
        /\ pc' = "update" /\ sender' = d /\ message' = "NackReceived"
    BY <1>3 DEF GiveUp, Notify
  <2>2. PoolInv' /\ HistoryTypes'
    BY <1>1, <2>1, NotifyTypes DEF PoolInv, LoadsSegment, HistoryTypes, Messages
  <2>3. ASSUME NEW e \in Downloaders  PROVE Downloader(e)!Next
    <3>1. CASE e = d
      BY <1>1, <2>1, <3>1 DEF PoolInv, LoadsSegment, Downloader!Next, Downloader!GiveUp
    <3>2. CASE e # d
      BY <1>1, <2>1, <3>2, StaysAsPromised DEF PoolInv, LoadsSegment, Stays
    <3> QED  BY <3>1, <3>2
  <2> QED
    BY <2>1, <2>2, <2>3, NotifyTypes, InvTogether DEF AllAsPromised, Messages
<1>4. CASE SoonFinished(d)
  <2>1. /\ Notify(d, "SoonFinished") /\ UNCHANGED downloaderVars
        /\ message' = "SoonFinished" /\ UNCHANGED received
    BY <1>4 DEF SoonFinished, Notify, downloaderVars
  <2>2. PoolInv' /\ AllAsPromised
    BY <2>1, PoolKept
  <2> QED
    BY <1>1, <2>1, <2>2, NotifyTypes, InvTogether DEF HistoryTypes, Messages
<1> QED  BY <1>2, <1>3, <1>4
-----------------------------------------------------------------------------
\* What ToSet and the segments of the pool are made of.
LEMMA SetOfQueue == ASSUME NEW q \in Seq(Segments)  PROVE ToSet(q) \subseteq Segments
BY DEF ToSet

LEMMA SoonFinishedSafe ==
    ASSUME IInv, soonFinished
    PROVE  IInv' /\ AllAsPromised
<1>1. PoolInv /\ QueueTypes /\ ControlTypes /\ HistoryTypes
  BY InvApart
<1>2. ControlTypes' /\ pc' # "update"
  BY <1>1 DEF soonFinished, ControlTypes, Messages
<1>3. CASE enquedSegments # <<>>
  <2>1. downloadSegments(enquedSegments)
    BY <1>3 DEF soonFinished
  <2>2. /\ PoolInv' /\ WindowTypes' /\ WindowInv' /\ AllAsPromised
        /\ enquedSegments' \in Seq(Segments) /\ received' \in SUBSET Segments
    BY <1>1, <1>2, <1>3, <2>1, DownloadSegmentsSafe DEF QueueTypes
  <2>3. QueueTypes' /\ HistoryTypes'
    BY <1>1, <2>2 DEF soonFinished, QueueTypes, HistoryTypes
  <2> QED  BY <1>2, <2>2, <2>3, InvTogether
<1>4. CASE enquedSegments = <<>>
  <2>1. UNCHANGED <<downloaderVars, windowVars, enquedSegments, received>>
    BY <1>4 DEF soonFinished
  <2>2. PoolInv' /\ AllAsPromised /\ WindowTypes' /\ WindowInv'
    BY <1>2, <2>1, PoolKept, WindowKept DEF downloaderVars
  <2>3. QueueTypes' /\ HistoryTypes'
    BY <1>1, <2>1 DEF soonFinished, QueueTypes, HistoryTypes
  <2> QED  BY <1>2, <2>2, <2>3, InvTogether
<1> QED  BY <1>3, <1>4

LEMMA NackSafe ==
    ASSUME IInv, specialNACKreceived
    PROVE  IInv' /\ AllAsPromised
<1> DEFINE nacked == {d \in Bussy : ~finished[d] /\ ~lastDownloadSuccessful[d]}
           level == Level[segment[First(nacked)]]
           aborted == {d \in Bussy : ~finished[d] /\ Level[segment[d]] >= level}
<1>1. PoolInv /\ QueueTypes /\ ControlTypes /\ HistoryTypes
  BY InvApart
<1>2. /\ enquedSegments' = <<>> /\ hadSpecialNACK' = TRUE
      /\ pc' \in {"idle", "reportNack"} /\ message' \in {"none", "NackReceived"}
      /\ UNCHANGED <<finishedSegments, windowVars, sender, player, asked, received, late>>
      /\ \/ /\ UNCHANGED downloaderVars
            /\ dropped' = dropped \cup ToSet(enquedSegments)
         \/ /\ AbortAndReset(aborted)
            /\ dropped' = dropped \cup ToSet(enquedSegments) \cup {segment[d] : d \in aborted}
  BY Zenon DEF specialNACKreceived
<1>3. ControlTypes' /\ QueueTypes' /\ pc' # "update"
  BY <1>1, <1>2 DEF ControlTypes, QueueTypes, Messages
<1>4. ToSet(enquedSegments) \subseteq Segments
  BY <1>1, SetOfQueue DEF QueueTypes
<1> HIDE DEF level
<1>5. PoolInv' /\ AllAsPromised /\ UNCHANGED segment
  BY <1>2, <1>3, PoolKept, AbortSafe DEF downloaderVars
<1>6. WindowTypes' /\ WindowInv'
  BY <1>2, <1>5, WindowKept
<1>7. {segment[d] : d \in aborted} \subseteq Segments
  BY <1>1 DEF PoolInv, LoadsSegment, Bussy
<1>8. HistoryTypes'
  <2> HIDE DEF aborted
  <2> QED  BY <1>1, <1>2, <1>4, <1>7 DEF HistoryTypes
<1> QED  BY <1>3, <1>5, <1>6, <1>8, InvTogether

LEMMA SegmentReceivedSafe ==
    ASSUME IInv, segmentReceived
    PROVE  IInv' /\ AllAsPromised
<1> DEFINE d == First(Finished)
<1>1. PoolInv /\ QueueTypes /\ ControlTypes /\ HistoryTypes
  BY InvApart
<1>2. /\ pc' \in {"idle", "report", "resume"}
      /\ message' \in {"none", "NackReceived", "SegmentReceived"}
      /\ UNCHANGED <<enquedSegments, hadSpecialNACK, windowVars, sender, player, asked,
                     received, dropped, late>>
  BY Zenon DEF segmentReceived, ReportOf
<1>3. ControlTypes' /\ HistoryTypes' /\ pc' # "update"
  BY <1>1, <1>2 DEF ControlTypes, HistoryTypes, Messages
<1>4. CASE Finished = {}
  <2>1. UNCHANGED <<downloaderVars, finishedSegments>>
    BY <1>4 DEF segmentReceived
  <2>2. PoolInv' /\ AllAsPromised /\ WindowTypes' /\ WindowInv'
    BY <1>2, <1>3, <2>1, PoolKept, WindowKept DEF downloaderVars
  <2>3. QueueTypes'
    BY <1>1, <1>2, <2>1 DEF QueueTypes
  <2> QED  BY <1>3, <2>2, <2>3, InvTogether
<1>5. CASE Finished # {}
  <2>1. d \in Downloaders /\ bussy[d] /\ finished[d] /\ lastDownloadSuccessful[d]
    BY <1>5, FirstIsOne DEF Finished, Bussy
  <2>2. /\ bussy' = [bussy EXCEPT ![d] = FALSE] /\ finished' = [finished EXCEPT ![d] = FALSE]
        /\ finishedSegments' = Append(finishedSegments, segment[d])
        /\ UNCHANGED <<lastDownloadSuccessful, segment>>
    BY <1>5, Zenon DEF segmentReceived
  <2> HIDE DEF d
  <2>3. PoolInv'
    BY <1>1, <2>1, <2>2 DEF PoolInv, LoadsSegment
  <2>4. QueueTypes'
    <3>1. segment[d] \in Segments
      BY <1>1, <2>1 DEF PoolInv, LoadsSegment
    <3> QED  BY <1>1, <1>2, <2>2, <3>1 DEF QueueTypes
  <2>5. WindowTypes' /\ WindowInv'
    BY <1>2, <2>2, WindowKept
  <2>6. ASSUME NEW e \in Downloaders  PROVE Downloader(e)!Next
    <3>1. CASE e = d
      BY <1>1, <1>3, <2>1, <2>2, <3>1, ResetAsPromised DEF PoolInv
    <3>2. CASE e # d
      BY <1>1, <1>3, <2>2, <3>2, StaysAsPromised DEF PoolInv, Stays
    <3> QED  BY <3>1, <3>2
  <2> QED  BY <1>3, <2>3, <2>4, <2>5, <2>6, InvTogether DEF AllAsPromised
<1> QED  BY <1>4, <1>5

LEMMA ResumeSafe ==
    ASSUME IInv, resume
    PROVE  IInv' /\ AllAsPromised
<1>1. PoolInv /\ QueueTypes /\ ControlTypes /\ HistoryTypes
  BY InvApart
<1>2. ControlTypes' /\ pc' # "update"
  BY <1>1 DEF resume, ControlTypes
<1>3. CASE Bussy = {} /\ enquedSegments # <<>>
  <2>1. downloadSegments(enquedSegments)
    BY <1>3 DEF resume
  <2>2. /\ PoolInv' /\ WindowTypes' /\ WindowInv' /\ AllAsPromised
        /\ enquedSegments' \in Seq(Segments) /\ received' \in SUBSET Segments
    BY <1>1, <1>2, <1>3, <2>1, DownloadSegmentsSafe DEF QueueTypes
  <2>3. QueueTypes' /\ HistoryTypes'
    BY <1>1, <2>2 DEF resume, QueueTypes, HistoryTypes
  <2> QED  BY <1>2, <2>2, <2>3, InvTogether
<1>4. CASE ~(Bussy = {} /\ enquedSegments # <<>>)
  <2>1. UNCHANGED <<downloaderVars, windowVars, enquedSegments, received>>
    BY <1>4 DEF resume
  <2>2. PoolInv' /\ AllAsPromised /\ WindowTypes' /\ WindowInv'
    BY <1>2, <2>1, PoolKept, WindowKept DEF downloaderVars
  <2>3. QueueTypes' /\ HistoryTypes'
    BY <1>1, <2>1 DEF resume, QueueTypes, HistoryTypes
  <2> QED  BY <1>2, <2>2, <2>3, InvTogether
<1> QED  BY <1>3, <1>4
-----------------------------------------------------------------------------
\* The player asks for a batch, whatever else the same step does.
LEMMA EnqueSafe ==
    ASSUME IInv, enque, pc' \in {"idle", "resume"}, message' \in Messages, UNCHANGED sender
    PROVE  IInv' /\ AllAsPromised
<1> DEFINE segments == Batches[asked + 1]
<1>1. PoolInv /\ QueueTypes /\ ControlTypes /\ HistoryTypes
  BY InvApart
<1>2. asked < Len(Batches) /\ asked \in Nat /\ Len(Batches) \in Nat
  <2>1. Len(Batches) \in Nat
    BY ConstantsOK
  <2> QED  BY <1>1, <2>1 DEF enque, ControlTypes
<1>3. segments \in Seq(Segments) /\ segments # <<>>
  BY <1>2, ConstantsOK
<1>4. ControlTypes' /\ pc' # "update"
  BY <1>1, <1>2 DEF enque, ControlTypes
<1>5. hadSpecialNACK' \in BOOLEAN /\ finishedSegments' \in Seq(Segments) /\ dropped' = {}
  <2>1. <<>> \in Seq(Segments)
    OBVIOUS
  <2>2. hadSpecialNACK' = FALSE /\ finishedSegments' = <<>> /\ dropped' = {}
    BY DEF enque
  <2> QED  BY <2>1, <2>2
<1> HIDE DEF segments
<1>6. CASE Bussy = {}
  <2>1. downloadSegments(segments)
    BY <1>6 DEF enque, segments
  <2>2. /\ PoolInv' /\ WindowTypes' /\ WindowInv' /\ AllAsPromised
        /\ enquedSegments' \in Seq(Segments) /\ received' \in SUBSET Segments
    BY <1>3, <1>4, <2>1, DownloadSegmentsSafe
  <2>3. QueueTypes' /\ HistoryTypes'
    BY <1>5, <2>2 DEF QueueTypes, HistoryTypes
  <2> QED  BY <1>4, <2>2, <2>3, InvTogether
<1>7. CASE Bussy # {}
  <2>1. enquedSegments' = segments /\ UNCHANGED <<downloaderVars, windowVars, received>>
    BY <1>7 DEF enque, segments
  <2>2. PoolInv' /\ AllAsPromised /\ WindowTypes' /\ WindowInv'
    BY <1>4, <2>1, PoolKept, WindowKept DEF downloaderVars
  <2>3. QueueTypes' /\ HistoryTypes'
    BY <1>1, <1>3, <1>5, <2>1 DEF QueueTypes, HistoryTypes
  <2> QED  BY <1>4, <2>2, <2>3, InvTogether
<1> QED  BY <1>6, <1>7

LEMMA ReportSafe ==
    ASSUME IInv, Report
    PROVE  IInv' /\ AllAsPromised
<1>1. PoolInv /\ QueueTypes /\ ControlTypes /\ HistoryTypes
  BY InvApart
<1>2. ControlTypes' /\ pc' # "update"
  BY <1>1 DEF Report, AfterReport, historyVars, ControlTypes, Messages
<1>3. PoolInv' /\ AllAsPromised /\ WindowTypes' /\ WindowInv'
  BY <1>2, PoolKept, WindowKept DEF Report, downloaderVars
<1>4. QueueTypes' /\ HistoryTypes'
  BY <1>1 DEF Report, queueVars, historyVars, QueueTypes, HistoryTypes
<1> QED  BY <1>2, <1>3, <1>4, InvTogether

LEMMA RetriveSafe ==
    ASSUME IInv, retriveUnfinishedSegments
    PROVE  IInv' /\ AllAsPromised
<1> DEFINE ds == {d \in Bussy : ~finished[d]}
<1>1. PoolInv /\ QueueTypes /\ ControlTypes /\ HistoryTypes
  BY InvApart
<1>2. ControlTypes' /\ pc' # "update"
  BY <1>1 DEF retriveUnfinishedSegments, historyVars, ControlTypes
<1>3. PoolInv' /\ AllAsPromised /\ UNCHANGED segment
  <2>1. AbortAndReset(ds)
    BY DEF retriveUnfinishedSegments
  <2> QED  BY <1>2, <2>1, AbortSafe
<1>4. WindowTypes' /\ WindowInv'
  BY <1>3, WindowKept DEF retriveUnfinishedSegments
<1>5. QueueTypes' /\ HistoryTypes'
  BY <1>1 DEF retriveUnfinishedSegments, historyVars, QueueTypes, HistoryTypes
<1> QED  BY <1>2, <1>3, <1>4, <1>5, InvTogether

LEMMA StopSafe ==
    ASSUME IInv, stop
    PROVE  IInv' /\ AllAsPromised
<1>1. PoolInv /\ QueueTypes /\ ControlTypes /\ HistoryTypes
  BY InvApart
<1>2. ControlTypes' /\ pc' # "update"
  BY <1>1 DEF stop, historyVars, ControlTypes
<1>3. /\ finished' = [d \in Downloaders |-> FALSE]
      /\ UNCHANGED <<bussy, lastDownloadSuccessful, segment>>
  BY DEF stop
<1>4. PoolInv'
  BY <1>1, <1>3 DEF PoolInv, LoadsSegment
<1>5. AllAsPromised
  BY <1>2, <1>3, AbortAsPromised DEF AllAsPromised
<1>6. WindowTypes' /\ WindowInv'
  BY WindowKept DEF stop
<1>7. QueueTypes' /\ HistoryTypes'
  BY <1>1 DEF stop, historyVars, QueueTypes, HistoryTypes
<1> QED  BY <1>2, <1>4, <1>5, <1>6, <1>7, InvTogether

LEMMA PlayingSafe ==
    ASSUME IInv, Playing
    PROVE  IInv' /\ AllAsPromised
<1>1. CASE ReportAndEnque
  BY <1>1, EnqueSafe DEF ReportAndEnque, AfterReport, Messages
<1>2. CASE EnqueLater
  <2>1. message \in Messages
    BY DEF IInv, TypeOK
  <2> QED  BY <1>2, <2>1, EnqueSafe DEF EnqueLater
<1> QED  BY <1>1, <1>2, ReportSafe, RetriveSafe, StopSafe DEF Playing
-----------------------------------------------------------------------------
LEMMA NextSafe ==
    ASSUME IInv, [Next]_vars
    PROVE  IInv' /\ (AllAsPromised \/ UNCHANGED vars)
<1>1. CASE UNCHANGED vars
  BY <1>1 DEF vars, downloaderVars, windowVars, queueVars, historyVars, IInv, TypeOK,
              WindowInv, SharedWindow, LoadsSegment
<1> QED
  BY <1>1, DownloadingSafe, SoonFinishedSafe, NackSafe, SegmentReceivedSafe, ResumeSafe,
     PlayingSafe DEF Next, Managing

\* The inductive invariant: types, whose window is whose, and what is loaded.
THEOREM Invariance == Spec => []IInv
<1>1. Init => IInv
  BY InitSafe
<1>2. IInv /\ [Next]_vars => IInv'
  BY NextSafe
<1> QED  BY <1>1, <1>2, PTL DEF Spec

\* Every variable of the manager keeps its type, with a pool of any size.
THEOREM TypeCorrect == Spec => []TypeOK
BY Invariance, PTL DEF IInv

\* One congestion window serves every downloader that has been used.
THEOREM WindowStaysShared == Spec => []SharedWindow
BY Invariance, PTL DEF IInv, WindowInv

\* Each downloader is started, aborted and reset only as its contract allows.
THEOREM ContractKept == Spec => DownloadersUsedAsPromised
<1>1. Init => \A d \in Downloaders : Downloader(d)!Init
  BY InitSafe
<1>2. IInv /\ [Next]_vars =>
        [\A d \in Downloaders : Downloader(d)!Next \/ UNCHANGED Downloader(d)!vars]_vars
  BY NextSafe DEF AllAsPromised
<1> QED  BY Invariance, <1>1, <1>2, PTL DEF Spec, DownloadersUsedAsPromised
-----------------------------------------------------------------------------
(* Where the segments of a batch are.  The moves between the places they can *)
(* be in, one lemma each; ds are the bussy downloaders and seg their         *)
(* segments.                                                                 *)

Loading(ds, seg) == {seg[d] : d \in ds}

Accounts(batch, queue, ds, seg, done, drops) ==
    /\ IsInjective(queue) /\ IsInjective(done)
    /\ \A d, e \in ds : seg[d] = seg[e] => d = e
    /\ ToSet(batch) = ToSet(queue) \cup Loading(ds, seg) \cup ToSet(done) \cup drops
    /\ ToSet(queue) \cap Loading(ds, seg) = {}
    /\ (ToSet(queue) \cup Loading(ds, seg)) \cap ToSet(done) = {}
    /\ (ToSet(queue) \cup Loading(ds, seg) \cup ToSet(done)) \cap drops = {}

LEMMA EmptyApart == IsInjective(<<>>) /\ ToSet(<<>>) = {}
BY DEF IsInjective, ToSet

LEMMA MoveToQueue ==
    ASSUME NEW batch \in Seq(Segments), NEW seg, IsInjective(batch)
    PROVE  Accounts(batch, batch, {}, seg, <<>>, {})
BY EmptyApart DEF Accounts, Loading

LEMMA MoveToLoading ==
    ASSUME NEW batch, NEW queue \in Seq(Segments), queue # <<>>,
           NEW ds \in SUBSET Downloaders, NEW d \in Downloaders \ ds,
           NEW seg, DOMAIN seg = Downloaders, NEW done, NEW drops,
           Accounts(batch, queue, ds, seg, done, drops)
    PROVE  Accounts(batch, Tail(queue), ds \cup {d}, [seg EXCEPT ![d] = Head(queue)], done, drops)
<1> DEFINE s == Head(queue)
           new == [seg EXCEPT ![d] = s]
<1>1. /\ IsInjective(Tail(queue)) /\ ToSet(queue) = ToSet(Tail(queue)) \cup {s}
      /\ s \notin ToSet(Tail(queue))
  BY TailApart DEF Accounts
<1>2. Loading(ds \cup {d}, new) = Loading(ds, seg) \cup {s}
  BY DEF Loading
<1>3. s \notin Loading(ds, seg)
  BY <1>1 DEF Accounts
<1>4. \A a, b \in ds \cup {d} : new[a] = new[b] => a = b
  BY <1>3 DEF Loading, Accounts
<1> HIDE DEF s, new
<1>5. /\ ToSet(batch) = ToSet(queue) \cup Loading(ds, seg) \cup ToSet(done) \cup drops
      /\ ToSet(queue) \cap Loading(ds, seg) = {}
      /\ (ToSet(queue) \cup Loading(ds, seg)) \cap ToSet(done) = {}
      /\ (ToSet(queue) \cup Loading(ds, seg) \cup ToSet(done)) \cap drops = {}
      /\ IsInjective(done)
  BY DEF Accounts
<1>6. /\ ToSet(batch) = ToSet(Tail(queue)) \cup Loading(ds \cup {d}, new) \cup ToSet(done) \cup drops
      /\ ToSet(Tail(queue)) \cap Loading(ds \cup {d}, new) = {}
      /\ (ToSet(Tail(queue)) \cup Loading(ds \cup {d}, new)) \cap ToSet(done) = {}
      /\ (ToSet(Tail(queue)) \cup Loading(ds \cup {d}, new) \cup ToSet(done)) \cap drops = {}
  BY <1>1, <1>2, <1>3, <1>5
<1>7. Accounts(batch, Tail(queue), ds \cup {d}, new, done, drops)
  BY <1>1, <1>4, <1>5, <1>6 DEF Accounts
<1> QED  BY <1>7 DEF s, new

LEMMA MoveToFinished ==
    ASSUME NEW batch, NEW queue, NEW ds, NEW d \in ds, NEW seg, seg[d] \in Segments,
           NEW done \in Seq(Segments), NEW drops,
           Accounts(batch, queue, ds, seg, done, drops)
    PROVE  Accounts(batch, queue, ds \ {d}, seg, Append(done, seg[d]), drops)
<1>1. Loading(ds, seg) = Loading(ds \ {d}, seg) \cup {seg[d]} /\ seg[d] \notin Loading(ds \ {d}, seg)
  BY DEF Loading, Accounts
<1>2. IsInjective(Append(done, seg[d])) /\ ToSet(Append(done, seg[d])) = ToSet(done) \cup {seg[d]}
  BY <1>1, AppendApart DEF Accounts
<1>3. /\ ToSet(batch) = ToSet(queue) \cup Loading(ds, seg) \cup ToSet(done) \cup drops
      /\ ToSet(queue) \cap Loading(ds, seg) = {}
      /\ (ToSet(queue) \cup Loading(ds, seg)) \cap ToSet(done) = {}
      /\ (ToSet(queue) \cup Loading(ds, seg) \cup ToSet(done)) \cap drops = {}
      /\ IsInjective(queue) /\ \A a, b \in ds : seg[a] = seg[b] => a = b
  BY DEF Accounts
<1> DEFINE left == Loading(ds \ {d}, seg)
           new == Append(done, seg[d])
<1>4. \A a, b \in ds \ {d} : seg[a] = seg[b] => a = b
  BY <1>3
<1> DEFINE x == seg[d]
<1>5. /\ Loading(ds, seg) = left \cup {x} /\ x \notin left
       /\ ToSet(new) = ToSet(done) \cup {x}
  BY <1>1, <1>2
<1> HIDE DEF left, new, x
<1>6. /\ ToSet(batch) = ToSet(queue) \cup left \cup ToSet(new) \cup drops
      /\ ToSet(queue) \cap left = {} /\ (ToSet(queue) \cup left) \cap ToSet(new) = {}
      /\ (ToSet(queue) \cup left \cup ToSet(new)) \cap drops = {}
  BY <1>3, <1>5
<1>7. IsInjective(new)
  BY <1>2 DEF new
<1> QED  BY <1>3, <1>4, <1>6, <1>7 DEF Accounts, left, new

LEMMA MoveToDropped ==
    ASSUME NEW batch, NEW queue, NEW ds, NEW gone \in SUBSET ds, NEW seg, NEW done, NEW drops,
           Accounts(batch, queue, ds, seg, done, drops)
    PROVE  Accounts(batch, <<>>, ds \ gone, seg, done, drops \cup ToSet(queue) \cup Loading(gone, seg))
<1>1. Loading(ds, seg) = Loading(ds \ gone, seg) \cup Loading(gone, seg)
  BY DEF Loading
<1>2. Loading(ds \ gone, seg) \cap Loading(gone, seg) = {}
  BY DEF Loading, Accounts
<1> QED  BY <1>1, <1>2, EmptyApart DEF Accounts

\* Each place holds as many segments as it has room taken, and together they
\* hold the batch.
LEMMA SizesAddUp ==
    ASSUME NEW batch \in Seq(Segments), NEW queue \in Seq(Segments), NEW ds \in SUBSET Downloaders,
           NEW seg, NEW done \in Seq(Segments), NEW drops, IsInjective(batch),
           Accounts(batch, queue, ds, seg, done, drops)
    PROVE  Len(batch) = Len(queue) + Cardinality(ds) + Len(done) + Cardinality(drops)
<1> DEFINE L == Loading(ds, seg)
<1>1. /\ IsFiniteSet(ToSet(batch)) /\ Cardinality(ToSet(batch)) = Len(batch)
      /\ IsFiniteSet(ToSet(queue)) /\ Cardinality(ToSet(queue)) = Len(queue)
      /\ IsFiniteSet(ToSet(done)) /\ Cardinality(ToSet(done)) = Len(done)
  BY LengthIsSize DEF Accounts
<1>2. IsFiniteSet(ds)
  <2>1. IsFiniteSet(Downloaders)
    <3>1. DOWNLOADER_NUMBER \in Int /\ 1 \in Int
      BY ConstantsOK
    <3> QED  BY <3>1, FS_Interval DEF Downloaders
  <2> QED  BY <2>1, FS_Subset
<1>3. IsFiniteSet(L) /\ Cardinality(L) = Cardinality(ds)
  <2> DEFINE f == [d \in ds |-> seg[d]]
  <2>1. f \in [ds -> L] /\ (\A d, e \in ds : f[d] = f[e] => d = e) /\ \A x \in L : \E d \in ds : f[d] = x
    BY DEF Loading, Accounts
  <2> HIDE DEF f, L
  <2>2. f \in Bijection(ds, L)
    BY <2>1 DEF Bijection, Injection, Surjection, IsInjective
  <2> QED  BY <1>2, <2>2, FS_Bijection DEF ExistsBijection
<1>4. drops \subseteq ToSet(batch)
  BY DEF Accounts
<1>5. IsFiniteSet(drops) /\ Cardinality(drops) \in Nat /\ Cardinality(L) \in Nat
  BY <1>1, <1>3, <1>4, FS_Subset, FS_CardinalityType
<1>6. /\ ToSet(batch) = ((ToSet(queue) \cup L) \cup ToSet(done)) \cup drops
      /\ ToSet(queue) \cap L = {} /\ (ToSet(queue) \cup L) \cap ToSet(done) = {}
      /\ (ToSet(queue) \cup L \cup ToSet(done)) \cap drops = {}
  BY DEF Accounts
<1> HIDE DEF L
<1> DEFINE S1 == ToSet(queue) \cup L
           S2 == S1 \cup ToSet(done)
<1>7. Cardinality({}) = 0
  BY FS_EmptySet
<1>8. IsFiniteSet(S1) /\ Cardinality(S1) = Len(queue) + Cardinality(L)
  <2>1. IsFiniteSet(S1) /\ Cardinality(S1) = Len(queue) + Cardinality(L) - Cardinality({})
    <3>1. ToSet(queue) \cap L = {}
      BY <1>6
    <3> QED  BY <1>1, <1>3, <3>1, FS_Union
  <2> QED  BY <1>5, <1>7, <2>1
<1>9. IsFiniteSet(S2) /\ Cardinality(S2) = Len(queue) + Cardinality(L) + Len(done)
  <2>1. S1 \cap ToSet(done) = {}
    BY <1>6
  <2>2. IsFiniteSet(S2) /\ Cardinality(S2) = Cardinality(S1) + Len(done) - Cardinality({})
    <3> HIDE DEF S1
    <3> QED  BY <1>1, <1>8, <2>1, FS_Union DEF S2
  <2> QED  BY <1>5, <1>7, <1>8, <2>2
<1>10. Cardinality(ToSet(batch)) = Len(queue) + Cardinality(L) + Len(done) + Cardinality(drops)
  <2>1. S2 \cap drops = {} /\ ToSet(batch) = S2 \cup drops
    BY <1>6
  <2>2. Cardinality(ToSet(batch)) = Cardinality(S2) + Cardinality(drops) - Cardinality({})
    <3> HIDE DEF S2
    <3> QED  BY <1>5, <1>9, <2>1, FS_Union
  <2> QED  BY <1>5, <1>7, <1>9, <2>2
<1> QED  BY <1>1, <1>3, <1>10
-----------------------------------------------------------------------------
\* A flag is up only on the way from the downloader that raised it to the
\* manager, and that downloader is bussy.
FlagsInv ==
    \A d \in Downloaders :
        finished[d] \/ ~lastDownloadSuccessful[d] =>
            /\ pc = "update" /\ sender = d /\ bussy[d]
            /\ finished[d] => message = "SegmentReceived"
            /\ ~lastDownloadSuccessful[d] => message = "NackReceived"

\* With nothing asked for there is nothing to do, and the player is told only
\* when all is done: at once after a NACK, or with the news of the last segment.
RestInv ==
    /\ player = "idle" \/ Reporting => Bussy = {} /\ enquedSegments = <<>>
    /\ Reporting => player # "idle"
    /\ pc = "report" /\ message = "SegmentReceived" => ~hadSpecialNACK
    /\ pc = "reportNack" => message = "NackReceived"

\* A NACK that took a segment away is remembered.
DropsRemembered == dropped # {} => hadSpecialNACK

Accounted ==
    player = "waiting" =>
        Accounts(Batch, enquedSegments, Bussy, segment, finishedSegments, dropped)

BatchInv == DropsRemembered /\ (~late => FlagsInv /\ RestInv /\ Accounted)

\* What FlagsInv says while no notification is under way.
Quiet == \A d \in Downloaders : ~finished[d] /\ lastDownloadSuccessful[d]

LEMMA QuietFlags == Quiet => FlagsInv
BY DEF Quiet, FlagsInv

LEMMA FlagsQuiet == ASSUME FlagsInv, pc # "update"  PROVE Quiet
BY DEF Quiet, FlagsInv

LEMMA DownloadSegmentsQuiet ==
    ASSUME IInv, Quiet, NEW queue, downloadSegments(queue)
    PROVE  Quiet'
<1>1. PoolInv
  BY InvApart
<1>2. CASE NonBussy = {}
  BY <1>2 DEF downloadSegments, downloaderVars, Quiet
<1>3. CASE NonBussy # {}
  <2>1. lastDownloadSuccessful' = [lastDownloadSuccessful EXCEPT ![First(NonBussy)] = TRUE]
        /\ UNCHANGED finished
    BY <1>3 DEF downloadSegments
  <2> QED  BY <1>1, <2>1 DEF Quiet, PoolInv
<1> QED  BY <1>2, <1>3

\* A segment goes from a queue to a downloader, if one is free.
LEMMA DownloadSegmentsAccounts ==
    ASSUME IInv, NEW batch, NEW queue \in Seq(Segments), queue # <<>>,
           NEW done, NEW drops, downloadSegments(queue),
           Accounts(batch, queue, Bussy, segment, done, drops)
    PROVE  Accounts(batch, enquedSegments', Bussy', segment', done, drops)
<1> DEFINE d == First(NonBussy)
<1>1. PoolInv
  BY InvApart
<1>2. CASE NonBussy = {}
  BY <1>2 DEF downloadSegments, downloaderVars, Bussy
<1>3. CASE NonBussy # {}
  <2>1. d \in Downloaders \ Bussy
    BY <1>3, FirstIsOne DEF NonBussy
  <2>2. /\ bussy' = [bussy EXCEPT ![d] = TRUE]
        /\ lastDownloadSuccessful' = [lastDownloadSuccessful EXCEPT ![d] = TRUE]
        /\ segment' = [segment EXCEPT ![d] = Head(queue)]
        /\ enquedSegments' = Tail(queue) /\ UNCHANGED finished
    BY <1>3 DEF downloadSegments
  <2> HIDE DEF d
  <2>3. Bussy' = Bussy \cup {d}
    BY <1>1, <2>1, <2>2 DEF Bussy, PoolInv
  <2>4. Bussy \in SUBSET Downloaders /\ DOMAIN segment = Downloaders
    BY <1>1 DEF Bussy, PoolInv
  <2> QED  BY <2>1, <2>2, <2>3, <2>4, MoveToLoading
<1> QED  BY <1>2, <1>3

\* Nothing has moved.
LEMMA AccountsKept ==
    ASSUME Accounted, UNCHANGED <<bussy, segment, queueVars, player, asked, dropped>>
    PROVE  Accounted'
<1>1. Batch' = Batch /\ Bussy' = Bussy
  BY DEF Batch, Bussy
<1>2. UNCHANGED <<segment, enquedSegments, finishedSegments, player, dropped>>
  BY DEF queueVars
<1> QED  BY <1>1, <1>2 DEF Accounted

LEMMA DownloadingAccounts ==
    ASSUME IInv, BatchInv, Downloading
    PROVE  BatchInv'
<1> PICK d \in Downloaders : Complete(d) \/ GiveUp(d) \/ SoonFinished(d)
  BY DEF Downloading
<1>1. PICK m \in Messages : Notify(d, m)
  BY DEF Complete, GiveUp, SoonFinished, Messages
<1>2. PoolInv /\ ControlTypes
  BY InvApart
<1>3. /\ pc = "idle" /\ pc' = "update" /\ sender' = d
      /\ UNCHANGED <<bussy, segment, enquedSegments, finishedSegments, hadSpecialNACK, player,
                     asked, dropped>>
      /\ Bussy' = Bussy
  BY <1>1 DEF Notify, queueVars, Bussy
<1>4. DropsRemembered'
  BY <1>3 DEF BatchInv, DropsRemembered
<1> SUFFICES ASSUME ~late'  PROVE FlagsInv' /\ RestInv' /\ Accounted'
  BY <1>4 DEF BatchInv
<1>5. ~late
  BY <1>1, <1>2 DEF Notify, ControlTypes
<1>6. Quiet /\ RestInv /\ Accounted
  BY <1>3, <1>5, FlagsQuiet DEF BatchInv
<1>7. Accounted'
  BY <1>3, <1>6, AccountsKept DEF queueVars
<1>8. RestInv'
  BY <1>3, <1>6 DEF RestInv, Reporting
<1>9. CASE Complete(d)
  <2>1. /\ finished' = [finished EXCEPT ![d] = TRUE]
        /\ lastDownloadSuccessful' = [lastDownloadSuccessful EXCEPT ![d] = TRUE]
        /\ message' = "SegmentReceived" /\ late' = (late \/ ~bussy[d])
    BY <1>9 DEF Complete, Notify
  <2> QED  BY <1>2, <1>3, <1>6, <1>7, <1>8, <2>1 DEF FlagsInv, Quiet, PoolInv
<1>10. CASE GiveUp(d)
  <2>1. /\ finished' = [finished EXCEPT ![d] = FALSE]
        /\ lastDownloadSuccessful' = [lastDownloadSuccessful EXCEPT ![d] = FALSE]
        /\ message' = "NackReceived" /\ late' = (late \/ ~bussy[d])
    BY <1>10 DEF GiveUp, Notify
  <2> QED  BY <1>2, <1>3, <1>6, <1>7, <1>8, <2>1 DEF FlagsInv, Quiet, PoolInv
<1>11. CASE SoonFinished(d)
  BY <1>6, <1>7, <1>8, <1>11 DEF SoonFinished, FlagsInv, Quiet
<1> QED  BY <1>9, <1>10, <1>11

LEMMA SoonFinishedAccounts ==
    ASSUME IInv, BatchInv, soonFinished
    PROVE  BatchInv'
<1>1. /\ pc = "update" /\ message = "SoonFinished" /\ pc' = "idle"
      /\ UNCHANGED <<finishedSegments, hadSpecialNACK, sender, player, asked, dropped, late>>
      /\ Batch' = Batch
  BY DEF soonFinished, Batch
<1>2. DropsRemembered'
  BY <1>1 DEF BatchInv, DropsRemembered
<1> SUFFICES ASSUME ~late'  PROVE FlagsInv' /\ RestInv' /\ Accounted'
  BY <1>2 DEF BatchInv
<1>3. FlagsInv /\ RestInv /\ Accounted
  BY <1>1 DEF BatchInv
<1>4. Quiet
  BY <1>1, <1>3 DEF Quiet, FlagsInv
<1>5. CASE enquedSegments # <<>>
  <2>1. downloadSegments(enquedSegments) /\ enquedSegments \in Seq(Segments)
    BY <1>5 DEF soonFinished, IInv, TypeOK
  <2>2. player # "idle"
    BY <1>3, <1>5 DEF RestInv
  <2>3. RestInv'
    BY <1>1, <2>2 DEF RestInv, Reporting
  <2>4. FlagsInv'
    BY <1>4, <2>1, DownloadSegmentsQuiet DEF Quiet, FlagsInv
  <2>5. Accounted'
    BY <1>1, <1>3, <1>5, <2>1, DownloadSegmentsAccounts DEF Accounted
  <2> QED  BY <2>3, <2>4, <2>5
<1>6. CASE enquedSegments = <<>>
  <2>1. UNCHANGED <<downloaderVars, enquedSegments>>
    BY <1>6 DEF soonFinished
  <2>2. Accounted'
    BY <1>1, <1>3, <2>1, AccountsKept DEF downloaderVars, queueVars
  <2>3. FlagsInv'
    BY <1>4, <2>1 DEF FlagsInv, Quiet, downloaderVars
  <2>4. RestInv'
    BY <1>1, <1>3, <2>1 DEF RestInv, Reporting, Bussy, downloaderVars
  <2> QED  BY <2>2, <2>3, <2>4
<1> QED  BY <1>5, <1>6

\* Who gave up is found, its download and those of the levels above end, and
\* the player is told at once only if nothing is loading any more.
LEMMA NackAccounts ==
    ASSUME IInv, BatchInv, specialNACKreceived
    PROVE  BatchInv'
<1> DEFINE nacked == {d \in Bussy : ~finished[d] /\ ~lastDownloadSuccessful[d]}
           level == Level[segment[First(nacked)]]
           aborted == {d \in Bussy : ~finished[d] /\ Level[segment[d]] >= level}
           below == \E d \in Bussy : Level[segment[d]] < level
<1>1. PoolInv
  BY InvApart
<1>2. /\ pc = "update" /\ message = "NackReceived"
      /\ enquedSegments' = <<>> /\ hadSpecialNACK' = TRUE
      /\ UNCHANGED <<finishedSegments, player, late>> /\ Batch' = Batch
  BY DEF specialNACKreceived, Batch
<1>3. DropsRemembered'
  BY <1>2 DEF DropsRemembered
<1> SUFFICES ASSUME ~late'  PROVE FlagsInv' /\ RestInv' /\ Accounted'
  BY <1>3 DEF BatchInv
<1>4. FlagsInv /\ RestInv /\ Accounted
  BY <1>2 DEF BatchInv
<1>5. \A d \in Downloaders : ~finished[d] /\ (~lastDownloadSuccessful[d] => d = sender /\ bussy[d])
  BY <1>2, <1>4 DEF FlagsInv
<1>6. CASE nacked = {}
  <2>1. /\ pc' = "idle" /\ UNCHANGED downloaderVars
        /\ dropped' = dropped \cup ToSet(enquedSegments)
    BY <1>6 DEF specialNACKreceived
  <2>2. Bussy' = Bussy /\ UNCHANGED segment
    BY <2>1 DEF Bussy, downloaderVars
  <2>3. Quiet'
    BY <1>5, <1>6, <2>1 DEF Quiet, Bussy, downloaderVars
  <2>4. RestInv'
    BY <1>2, <1>4, <2>1, <2>2 DEF RestInv, Reporting
  <2>5. Accounted'
    <3> SUFFICES ASSUME player = "waiting"
                 PROVE  Accounts(Batch, <<>>, Bussy, segment, finishedSegments,
                                 dropped \cup ToSet(enquedSegments))
      BY <1>2, <2>1, <2>2 DEF Accounted
    <3>1. Accounts(Batch, enquedSegments, Bussy, segment, finishedSegments, dropped)
      BY <1>4 DEF Accounted
    <3>2. Accounts(Batch, <<>>, Bussy \ {}, segment, finishedSegments,
                   dropped \cup ToSet(enquedSegments) \cup Loading({}, segment))
      BY <3>1, MoveToDropped
    <3> QED  BY <3>2 DEF Loading
  <2> QED  BY <2>3, <2>4, <2>5, QuietFlags DEF Quiet, FlagsInv
<1>7. CASE nacked # {}
  <2>1. /\ AbortAndReset(aborted)
        /\ dropped' = dropped \cup ToSet(enquedSegments) \cup {segment[d] : d \in aborted}
        /\ pc' = IF below THEN "idle" ELSE "reportNack"
        /\ message' = IF below THEN "none" ELSE "NackReceived"
    BY <1>7, Zenon DEF specialNACKreceived
  <2>2. First(nacked) \in nacked /\ nacked \in SUBSET Downloaders
    BY <1>7, FirstIsOne DEF Bussy
  <2>3. level \in Nat /\ \A d \in Bussy : Level[segment[d]] \in Nat
    BY <1>1, <2>2, ConstantsOK DEF PoolInv, LoadsSegment, Bussy
  <2>4. sender = First(nacked) /\ sender \in aborted
    <3> DEFINE n == First(nacked)
    <3>1. n \in Bussy /\ ~finished[n] /\ ~lastDownloadSuccessful[n] /\ n \in Downloaders
      BY <2>2
    <3>2. level = Level[segment[n]]
      OBVIOUS
    <3> HIDE DEF n, level
    <3>3. sender = n /\ Level[segment[n]] >= level
      BY <1>5, <2>3, <3>1, <3>2
    <3> QED  BY <3>1, <3>3 DEF n
  <2>5. ~below => aborted = Bussy
    <3> HIDE DEF level
    <3>1. ASSUME ~below, NEW d \in Bussy  PROVE Level[segment[d]] >= level
      BY <2>3, <3>1
    <3>2. \A d \in Bussy : ~finished[d]
      BY <1>5 DEF Bussy
    <3> QED  BY <3>1, <3>2
  <2> HIDE DEF level, nacked
  <2>6. aborted \subseteq Bussy /\ Bussy' = Bussy \ aborted /\ UNCHANGED segment
    BY <1>1, <2>1 DEF AbortAndReset, Bussy, PoolInv
  <2> HIDE DEF aborted, below
  <2>7. Quiet'
    BY <1>1, <1>5, <2>1, <2>4 DEF Quiet, AbortAndReset, PoolInv
  <2>8. player # "idle"
    BY <1>4, <2>4, <2>6 DEF RestInv
  <2>9. RestInv'
    BY <1>2, <2>1, <2>5, <2>6, <2>8 DEF RestInv, Reporting
  <2>10. Accounted'
    <3> SUFFICES ASSUME player = "waiting"
                 PROVE  Accounts(Batch, <<>>, Bussy \ aborted, segment, finishedSegments,
                                 dropped \cup ToSet(enquedSegments) \cup Loading(aborted, segment))
      BY <1>2, <2>1, <2>6 DEF Accounted, Loading
    <3> QED  BY <1>4, <2>6, MoveToDropped DEF Accounted
  <2> QED  BY <2>7, <2>9, <2>10 DEF Quiet, FlagsInv
<1> QED  BY <1>6, <1>7

LEMMA SegmentReceivedAccounts ==
    ASSUME IInv, BatchInv, segmentReceived
    PROVE  BatchInv'
<1> DEFINE d == First(Finished)
<1>1. PoolInv /\ finishedSegments \in Seq(Segments)
  BY InvApart DEF QueueTypes
<1>2. /\ pc = "update" /\ message = "SegmentReceived"
      /\ UNCHANGED <<enquedSegments, hadSpecialNACK, sender, player, dropped, late>>
      /\ Batch' = Batch
  BY DEF segmentReceived, Batch
<1>3. DropsRemembered'
  BY <1>2 DEF BatchInv, DropsRemembered
<1> SUFFICES ASSUME ~late'  PROVE FlagsInv' /\ RestInv' /\ Accounted'
  BY <1>3 DEF BatchInv
<1>4. FlagsInv /\ RestInv /\ Accounted
  BY <1>2 DEF BatchInv
<1>5. \A e \in Downloaders : lastDownloadSuccessful[e] /\ (finished[e] => e = sender /\ bussy[e])
  BY <1>2, <1>4 DEF FlagsInv
<1>6. CASE Finished = {}
  <2>1. pc' = "idle" /\ UNCHANGED <<downloaderVars, finishedSegments>>
    BY <1>6 DEF segmentReceived
  <2>2. Bussy' = Bussy /\ UNCHANGED segment
    BY <2>1 DEF Bussy, downloaderVars
  <2>3. Quiet'
    BY <1>5, <1>6, <2>1 DEF Quiet, Finished, Bussy, downloaderVars
  <2>4. RestInv'
    BY <1>2, <1>4, <2>1, <2>2 DEF RestInv, Reporting
  <2>5. Accounted'
    BY <1>2, <1>4, <2>1, <2>2 DEF Accounted
  <2> QED  BY <2>3, <2>4, <2>5 DEF Quiet, FlagsInv
<1>7. CASE Finished # {}
  <2>1. d \in Downloaders /\ bussy[d] /\ finished[d]
    BY <1>7, FirstIsOne DEF Finished, Bussy
  <2>2. /\ bussy' = [bussy EXCEPT ![d] = FALSE] /\ finished' = [finished EXCEPT ![d] = FALSE]
        /\ finishedSegments' = Append(finishedSegments, segment[d])
        /\ pc' = IF BatchDone(d) THEN "report" ELSE "resume"
        /\ message' = IF BatchDone(d) THEN ReportOf ELSE "none"
        /\ UNCHANGED <<lastDownloadSuccessful, segment>>
    BY <1>7, Zenon DEF segmentReceived
  <2> HIDE DEF d
  <2>3. Bussy' = Bussy \ {d} /\ d \in Bussy
    BY <1>1, <2>1, <2>2 DEF Bussy, PoolInv
  <2>4. Quiet'
    BY <1>1, <1>5, <2>1, <2>2 DEF Quiet, PoolInv
  <2>5. player # "idle"
    BY <1>4, <2>3 DEF RestInv
  <2>6. RestInv'
    BY <1>2, <2>2, <2>3, <2>5 DEF RestInv, Reporting, BatchDone, ReportOf
  <2>7. segment[d] \in Segments
    BY <1>1, <2>1 DEF PoolInv, LoadsSegment
  <2>8. Accounted'
    BY <1>1, <1>2, <1>4, <2>2, <2>3, <2>7, MoveToFinished DEF Accounted
  <2> QED  BY <2>4, <2>6, <2>8 DEF Quiet, FlagsInv
<1> QED  BY <1>6, <1>7

LEMMA ResumeAccounts ==
    ASSUME IInv, BatchInv, resume
    PROVE  BatchInv'
<1>1. /\ pc = "resume" /\ pc' = "idle"
      /\ UNCHANGED <<finishedSegments, hadSpecialNACK, player, asked, dropped, late>>
      /\ Batch' = Batch
  BY DEF resume, Batch
<1>2. DropsRemembered'
  BY <1>1 DEF BatchInv, DropsRemembered
<1> SUFFICES ASSUME ~late'  PROVE FlagsInv' /\ RestInv' /\ Accounted'
  BY <1>2 DEF BatchInv
<1>3. Quiet /\ RestInv /\ Accounted
  BY <1>1, FlagsQuiet DEF BatchInv
<1>4. CASE Bussy = {} /\ enquedSegments # <<>>
  <2>1. downloadSegments(enquedSegments) /\ enquedSegments \in Seq(Segments)
    BY <1>4 DEF resume, IInv, TypeOK
  <2>2. RestInv'
    BY <1>1, <1>3, <1>4 DEF RestInv, Reporting
  <2>3. FlagsInv'
    BY <1>3, <2>1, DownloadSegmentsQuiet DEF Quiet, FlagsInv
  <2>4. Accounted'
    BY <1>1, <1>3, <1>4, <2>1, DownloadSegmentsAccounts DEF Accounted
  <2> QED  BY <2>2, <2>3, <2>4
<1>5. CASE ~(Bussy = {} /\ enquedSegments # <<>>)
  <2>1. UNCHANGED <<downloaderVars, enquedSegments>>
    BY <1>5 DEF resume
  <2>2. Accounted'
    BY <1>1, <1>3, <2>1, AccountsKept DEF downloaderVars, queueVars
  <2>3. FlagsInv'
    BY <1>3, <2>1 DEF FlagsInv, Quiet, downloaderVars
  <2>4. RestInv'
    BY <1>1, <1>3, <2>1 DEF RestInv, Reporting, Bussy, downloaderVars
  <2> QED  BY <2>2, <2>3, <2>4
<1> QED  BY <1>4, <1>5

\* The batch asked for is the one in the queue, or it is that but for the
\* segment the first downloader took at once.
LEMMA EnqueAccounts ==
    ASSUME IInv, BatchInv, enque, pc # "update", Reporting \/ player = "idle",
           pc' \in {"idle", "resume"}
    PROVE  BatchInv'
<1> DEFINE segments == Batches[asked + 1]
<1>1. /\ asked + 1 \in DOMAIN Batches /\ asked' = asked + 1
      /\ player' = "waiting" /\ late' = late
      /\ finishedSegments' = <<>> /\ dropped' = {}
  <2>1. Len(Batches) \in Nat /\ DOMAIN Batches = 1 .. Len(Batches) /\ asked \in Nat
    BY ConstantsOK DEF IInv, TypeOK
  <2> QED  BY <2>1 DEF enque
<1>2. segments \in Seq(Segments) /\ segments # <<>> /\ IsInjective(segments)
  BY <1>1, ConstantsOK
<1>3. Batch' = segments
  <2>1. asked \in Nat
    BY DEF IInv, TypeOK
  <2> QED  BY <1>1, <2>1 DEF Batch
<1>4. DropsRemembered'
  BY <1>1 DEF DropsRemembered
<1> SUFFICES ASSUME ~late'  PROVE FlagsInv' /\ RestInv' /\ Accounted'
  BY <1>4 DEF BatchInv
<1>5. Quiet /\ Bussy = {}
  BY <1>1, FlagsQuiet DEF BatchInv, RestInv
<1>6. downloadSegments(segments)
  BY <1>5 DEF enque
<1> HIDE DEF segments
<1>7. FlagsInv'
  BY <1>5, <1>6, DownloadSegmentsQuiet DEF Quiet, FlagsInv
<1>8. RestInv'
  BY <1>1 DEF RestInv, Reporting
<1>9. Accounts(segments, segments, Bussy, segment, <<>>, {})
  BY <1>2, <1>5, MoveToQueue
<1>10. Accounted'
  BY <1>1, <1>2, <1>3, <1>6, <1>9, DownloadSegmentsAccounts DEF Accounted
<1> QED  BY <1>7, <1>8, <1>10

LEMMA ReportAccounts ==
    ASSUME IInv, BatchInv, Report
    PROVE  BatchInv'
<1>1. /\ Reporting /\ pc' \in {"idle", "resume"}
      /\ player' = IF player = "waiting" THEN "idle" ELSE player
      /\ UNCHANGED <<bussy, finished, lastDownloadSuccessful, segment, enquedSegments,
                     finishedSegments, hadSpecialNACK, asked, dropped, late>>
  BY DEF Report, AfterReport, downloaderVars, queueVars, historyVars
<1>2. DropsRemembered' /\ Bussy' = Bussy
  BY <1>1 DEF BatchInv, DropsRemembered, Bussy
<1> SUFFICES ASSUME ~late'  PROVE FlagsInv' /\ RestInv' /\ Accounted'
  BY <1>2 DEF BatchInv
<1>3. Quiet /\ RestInv /\ Accounted
  BY <1>1, FlagsQuiet DEF BatchInv, Reporting
<1>4. FlagsInv'
  BY <1>1, <1>3 DEF Quiet, FlagsInv
<1>5. RestInv'
  BY <1>1, <1>2, <1>3 DEF RestInv, Reporting
<1>6. Accounted'
  BY <1>1 DEF Accounted
<1> QED  BY <1>4, <1>5, <1>6

LEMMA RetriveAccounts ==
    ASSUME IInv, BatchInv, retriveUnfinishedSegments
    PROVE  BatchInv'
<1> DEFINE ds == {d \in Bussy : ~finished[d]}
<1>1. /\ pc = "idle" /\ pc' = "idle" /\ AbortAndReset(ds)
      /\ enquedSegments' = <<>> /\ player' = "idle"
      /\ UNCHANGED <<hadSpecialNACK, dropped, late>>
  BY DEF retriveUnfinishedSegments, historyVars
<1>2. PoolInv
  BY InvApart
<1>3. DropsRemembered'
  BY <1>1 DEF BatchInv, DropsRemembered
<1> SUFFICES ASSUME ~late'  PROVE FlagsInv' /\ RestInv' /\ Accounted'
  BY <1>3 DEF BatchInv
<1>4. Quiet
  BY <1>1, FlagsQuiet DEF BatchInv
<1>5. Bussy' = {} /\ Quiet'
  BY <1>1, <1>2, <1>4 DEF AbortAndReset, Quiet, Bussy, PoolInv
<1>6. RestInv'
  BY <1>1, <1>5 DEF RestInv, Reporting
<1>7. Accounted'
  BY <1>1 DEF Accounted
<1> QED  BY <1>5, <1>6, <1>7 DEF Quiet, FlagsInv

LEMMA StopAccounts ==
    ASSUME IInv, BatchInv, stop
    PROVE  BatchInv'
<1>1. /\ pc = "idle" /\ pc' = "idle" /\ player' = "stopped"
      /\ finished' = [d \in Downloaders |-> FALSE]
      /\ UNCHANGED <<lastDownloadSuccessful, hadSpecialNACK, dropped, late>>
  BY DEF stop, historyVars
<1>2. DropsRemembered'
  BY <1>1 DEF BatchInv, DropsRemembered
<1> SUFFICES ASSUME ~late'  PROVE FlagsInv' /\ RestInv' /\ Accounted'
  BY <1>2 DEF BatchInv
<1>3. Quiet
  BY <1>1, FlagsQuiet DEF BatchInv
<1> QED  BY <1>1, <1>3 DEF Quiet, FlagsInv, RestInv, Reporting, Accounted
-----------------------------------------------------------------------------
LEMMA InitAccounts == Init => BatchInv
<1> SUFFICES ASSUME Init  PROVE BatchInv
  OBVIOUS
<1>1. Bussy = {} /\ Quiet
  BY DEF Init, Bussy, Quiet
<1> QED  BY <1>1, QuietFlags DEF Init, BatchInv, DropsRemembered, RestInv, Reporting, Accounted

LEMMA NextAccounts ==
    ASSUME IInv, BatchInv, [Next]_vars
    PROVE  BatchInv'
<1>1. CASE ReportAndEnque
  BY <1>1, EnqueAccounts DEF ReportAndEnque, AfterReport, Reporting
<1>2. CASE EnqueLater
  BY <1>2, EnqueAccounts DEF EnqueLater
<1>3. CASE UNCHANGED vars
  <2>1. UNCHANGED <<bussy, finished, lastDownloadSuccessful, segment, enquedSegments,
                    finishedSegments, hadSpecialNACK, pc, sender, message, player, asked,
                    dropped, late>>
    BY <1>3 DEF vars, downloaderVars, queueVars, historyVars
  <2>2. Bussy' = Bussy /\ Batch' = Batch
    BY <2>1 DEF Bussy, Batch
  <2> QED  BY <2>1, <2>2 DEF BatchInv, DropsRemembered, FlagsInv, RestInv, Reporting, Accounted
<1> QED
  BY <1>1, <1>2, <1>3, DownloadingAccounts, SoonFinishedAccounts, NackAccounts,
     SegmentReceivedAccounts, ResumeAccounts, ReportAccounts, RetriveAccounts, StopAccounts
  DEF Next, Managing, Playing

\* The inductive invariant about batches: where their segments are, what the
\* flags of the downloaders can say, and what a NACK leaves behind.
THEOREM Accounting == Spec => []BatchInv
<1>1. Init => BatchInv
  BY InitAccounts
<1>2. IInv /\ BatchInv /\ [Next]_vars => BatchInv'
  BY NextAccounts
<1> QED  BY <1>1, <1>2, Invariance, PTL DEF Spec

LEMMA BatchIsOne == ASSUME IInv  PROVE Batch \in Seq(Segments) /\ IsInjective(Batch)
<1>1. CASE asked = 0
  BY <1>1, EmptyApart DEF Batch
<1>2. CASE asked # 0
  <2>1. asked \in DOMAIN Batches
    <3>1. Len(Batches) \in Nat /\ DOMAIN Batches = 1 .. Len(Batches)
      BY ConstantsOK
    <3> QED  BY <1>2, <3>1 DEF IInv, TypeOK
  <2> QED  BY <1>2, <2>1, ConstantsOK DEF Batch
<1> QED  BY <1>1, <1>2

\* Each segment of the batch the player waits for is queued, loading, finished
\* or dropped, and in one of these places only.
THEOREM BatchAccounted == Spec => []BatchAccounting
<1>1. IInv /\ BatchInv => BatchAccounting
  <2> SUFFICES ASSUME IInv, BatchInv, player = "waiting", ~late
               PROVE  /\ ToSet(Batch) = ToSet(enquedSegments) \cup Loading(Bussy, segment)
                                            \cup ToSet(finishedSegments) \cup dropped
                      /\ Len(Batch) = Len(enquedSegments) + Cardinality(Bussy)
                                            + Len(finishedSegments) + Cardinality(dropped)
    BY DEF BatchAccounting, Loading
  <2>1. Accounts(Batch, enquedSegments, Bussy, segment, finishedSegments, dropped)
    BY DEF BatchInv, Accounted
  <2>2. /\ enquedSegments \in Seq(Segments) /\ finishedSegments \in Seq(Segments)
        /\ Bussy \in SUBSET Downloaders
    BY DEF IInv, TypeOK, Bussy
  <2>3. ToSet(Batch) = ToSet(enquedSegments) \cup Loading(Bussy, segment)
                          \cup ToSet(finishedSegments) \cup dropped
    BY <2>1 DEF Accounts
  <2> QED  BY <2>1, <2>2, <2>3, BatchIsOne, SizesAddUp
<1> QED  BY <1>1, Invariance, Accounting, PTL

\* What is reported as received is the whole batch.
THEOREM ReportedWhole == Spec => []ReportedIsWhole
<1>1. IInv /\ BatchInv => ReportedIsWhole
  <2> SUFFICES ASSUME IInv, BatchInv, Reporting, message = "SegmentReceived", ~late,
                      player # "stopped"
               PROVE  ToSet(finishedSegments) = ToSet(Batch)
    BY DEF ReportedIsWhole
  <2>1. /\ pc = "report" /\ ~hadSpecialNACK /\ Bussy = {} /\ enquedSegments = <<>>
        /\ player = "waiting"
    BY DEF BatchInv, RestInv, Reporting, IInv, TypeOK
  <2>2. dropped = {} /\ Accounts(Batch, <<>>, {}, segment, finishedSegments, {})
    BY <2>1 DEF BatchInv, DropsRemembered, Accounted
  <2> QED  BY <2>2, EmptyApart DEF Accounts, Loading
<1> QED  BY <1>1, Invariance, Accounting, PTL
=============================================================================
