-------------------------- MODULE CongestionWindow --------------------------
(***************************************************************************)
(* The congestion window a downloader paces its interests with             *)
(* (utils/congestionwindow and utils/staticcongestionwindow).  A window is *)
(* a record: size and threshold change while a download runs, recv is the  *)
(* receiver window that setNodeForNDN derives once from the link's bitrate.*)
(***************************************************************************)
EXTENDS Integers

CONG_WINDOW_MULTIPLICATOR == 2
CONG_WINDOW_MIN == 2

CwndTypes == {"tcp", "static"}

Larger(a, b) == IF a >= b THEN a ELSE b
Smaller(a, b) == IF a <= b THEN a ELSE b

\* First raised to the minimum, then cut to the receiver window: a receiver
\* window below the minimum wins.
SetWindowSize(w, size) ==
    [w EXCEPT !.size = Smaller(Larger(size, CONG_WINDOW_MIN), w.recv)]

SetThreshold(w, threshold) == [w EXCEPT !.threshold = threshold]

\* Mutant of IncreaseWindow: without the comparison with the receiver window.
IncreaseUnlimited(type, w) ==
    IF type = "static" THEN w
    ELSE [w EXCEPT !.size = IF @ * CONG_WINDOW_MULTIPLICATOR > w.threshold
                            THEN @ + 1 ELSE @ * CONG_WINDOW_MULTIPLICATOR]

\* Slow start doubles the window while that stays below the threshold;
\* congestion avoidance adds one.  A static window ignores the call.
IncreaseWindow(type, w) ==
    IF type = "static" THEN w
    ELSE LET doubled == w.size * CONG_WINDOW_MULTIPLICATOR
             grown == IF doubled > w.threshold THEN w.size + 1 ELSE doubled
         IN  [w EXCEPT !.size = Smaller(grown, w.recv)]

\* Halved, never below the minimum, and not compared with the receiver window.
DecreaseWindow(type, w) ==
    IF type = "static" THEN w
    ELSE [w EXCEPT !.size = Larger(w.size \div 2, CONG_WINDOW_MIN)]

\* The window setNodeForNDN leaves behind when the link carries maxPackets.
WindowOfLink(maxPackets) ==
    SetThreshold(
        SetWindowSize([size |-> CONG_WINDOW_MIN, threshold |-> 64,
                       recv |-> maxPackets], maxPackets),
        maxPackets \div 2)

\* The window never leaves the range its two limits describe.
InBounds(w) == CONG_WINDOW_MIN <= w.size /\ w.size <= w.recv

Window == [size : Int, threshold : Int, recv : Int]
=============================================================================
