---------------------------- MODULE IDownloader ----------------------------
(***************************************************************************)
(* What a downloader promises the DownloadManager: the three flags of      *)
(* utils/idownloader.h, the segment they are about, and the messages it    *)
(* notifies its observer of.  Chunks, timers and the network are hidden.   *)
(*                                                                         *)
(* A downloader may report a completion or a deliberate NACK even when it  *)
(* is not bussy: interests of a download that was given up are answered    *)
(* later.                                                                  *)
(***************************************************************************)
CONSTANTS Segments, NoSegment, Level, Layered

VARIABLES bussy, finished, lastDownloadSuccessful, segment, message

vars == <<bussy, finished, lastDownloadSuccessful, segment, message>>

Init ==
    /\ bussy = FALSE /\ finished = FALSE /\ lastDownloadSuccessful = TRUE
    /\ segment = NoSegment
    /\ message = "none"

\* Called only on a downloader that is not bussy; finished is not reset.
Download(s) ==
    /\ ~bussy
    /\ bussy' = TRUE /\ lastDownloadSuccessful' = TRUE
    /\ segment' = s
    /\ message' = "none"
    /\ UNCHANGED finished

\* The last byte has arrived.
Complete ==
    /\ segment # NoSegment
    /\ finished' = TRUE /\ lastDownloadSuccessful' = TRUE
    /\ message' = "SegmentReceived"
    /\ UNCHANGED <<bussy, segment>>

\* A layered downloader gives an enhancement layer up.
GiveUp ==
    /\ Layered /\ segment # NoSegment /\ Level[segment] # 0
    /\ finished' = FALSE /\ lastDownloadSuccessful' = FALSE
    /\ message' = "NackReceived"
    /\ UNCHANGED <<bussy, segment>>

\* Progress the manager cannot see, or the news that no request is left.
Progress ==
    /\ message' \in {"none", "SoonFinished"}
    /\ UNCHANGED <<bussy, finished, lastDownloadSuccessful, segment>>

Abort ==
    /\ finished' = FALSE
    /\ message' = "none"
    /\ UNCHANGED <<bussy, lastDownloadSuccessful, segment>>

AbortAndReset ==
    /\ bussy /\ ~finished
    /\ bussy' = FALSE /\ lastDownloadSuccessful' = TRUE
    /\ message' = "none"
    /\ UNCHANGED <<finished, segment>>

Reset ==
    /\ bussy /\ finished /\ lastDownloadSuccessful
    /\ bussy' = FALSE /\ finished' = FALSE
    /\ message' = "none"
    /\ UNCHANGED <<lastDownloadSuccessful, segment>>

Next ==
    \/ \E s \in Segments : Download(s)
    \/ Complete \/ GiveUp \/ Progress
    \/ Abort \/ AbortAndReset \/ Reset

Spec == Init /\ [][Next]_vars
=============================================================================
