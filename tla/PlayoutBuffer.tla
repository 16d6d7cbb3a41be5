---------------------------- MODULE PlayoutBuffer ----------------------------
(***************************************************************************)
(* The Buffer of the SVC and the DASH player, as operators on the seconds  *)
(* of video it holds.                                                      *)
(***************************************************************************)
EXTENDS Integers

CONSTANTS
    MaxSize,    \* seconds the buffer is made for
    Duration    \* seconds of a segment

\* The requesters make a buffer of 30 seconds, for segments of a few.
ASSUME BufferAssumption == MaxSize \in Nat /\ Duration \in 1 .. MaxSize - 1

\* Room is wanted for one second more than there is.
addData(cur, seconds) == IF cur + seconds < MaxSize THEN cur + seconds ELSE cur

CanConsume(cur, seconds) == cur >= seconds

\* Whether fillPercentage is above, or below, num / den.
FilledAbove(cur, num, den) == den * cur > num * MaxSize
FilledBelow(cur, num, den) == den * cur < num * MaxSize

\* Mutant of MustWait: off by one.
MustWaitLonger(cur) == cur > MaxSize - Duration

\* The players wait before they ask for a segment that may not fit.
MustWait(cur) == cur >= MaxSize - Duration
=============================================================================
