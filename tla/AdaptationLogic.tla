-------------------------- MODULE AdaptationLogic --------------------------
(***************************************************************************)
(* Which segment of which level a Player asks for next: the two logics     *)
(* that work on a LayeredBuffer, as operators on the buffer and the number *)
(* of the segment consumed last (-1 before the first).                     *)
(***************************************************************************)
EXTENDS LayeredBuffer

CONSTANTS
    NumberOfSegments,   \* of the period
    MaxLevel,           \* number of representations, less one
    BUFFER_MIN_SIZE,    \* gamma of LayeredAdaptationLogic (3 in the code)
    BUFFER_ALPHA,       \* alpha of LayeredAdaptationLogic (3 in the code)
    DESIRED_BUFFER_SIZE \* of SimpleBufferLogic (15 in the code)

\* The logics resolveAdaptation knows.
Logics == {"LayerdSieber", "SimpleBuffer"}

ASSUME LogicConstantsOK ==
    /\ NumberOfSegments \in Nat \ {0}
    /\ MaxLevel \in Nat
    /\ BUFFER_MIN_SIZE \in Nat \ {0}
    /\ BUFFER_ALPHA \in Nat
    /\ DESIRED_BUFFER_SIZE \in Nat /\ DESIRED_BUFFER_SIZE >= 3

Levels == 0 .. MaxLevel

\* What an enhancement level with an empty buffer skips, after the segment
\* consumed last.
OFFSET(logic) ==
    IF logic = "LayerdSieber" THEN BUFFER_MIN_SIZE ELSE DESIRED_BUFFER_SIZE \div 3

\* Mutant of getNextNeededSegmentNumber: it goes by the playback alone.
NextAfterPlayback(logic, buf, consumed, l) ==
    IF l = 0 THEN consumed + 1 ELSE consumed + OFFSET(logic)

\* Mutant of getNextNeededSegmentNumber: the base layer skips like any other.
NextSkipping(logic, buf, consumed, l) ==
    IF BufferSize(buf, l) = 0 THEN consumed + OFFSET(logic)
    ELSE LastSegmentNumber(buf, l) + 1

getNextNeededSegmentNumber(logic, buf, consumed, l) ==
    IF BufferSize(buf, l) = 0
    THEN IF l = 0 THEN consumed + 1 ELSE consumed + OFFSET(logic)
    ELSE LastSegmentNumber(buf, l) + 1

\* Nothing to ask for.
Idle == [level |-> -1, number |-> -1]

Request(logic, buf, consumed, l) ==
    [level |-> l, number |-> getNextNeededSegmentNumber(logic, buf, consumed, l)]

\* Mutant of HasNext: never tested.
HasNextAnyway(logic, buf, consumed, l) == TRUE

\* Mutant of HasNext: the last segment is left out.
HasNextButLast(logic, buf, consumed, l) ==
    getNextNeededSegmentNumber(logic, buf, consumed, l) < NumberOfSegments - 1

\* Whether the period has the segment a level needs next.
HasNext(logic, buf, consumed, l) ==
    getNextNeededSegmentNumber(logic, buf, consumed, l) < NumberOfSegments

\* Mutant of desired_buffer_size: the same for every level.
SameSize(l, top) == BUFFER_MIN_SIZE

\* The lower the level, the more of it is kept.
desired_buffer_size(l, top) == BUFFER_MIN_SIZE + (top - l) * BUFFER_ALPHA

\* i_curr: the highest level with something in its buffer, or 0.
CurrentLevel(buf) ==
    CHOOSE top \in Levels :
        /\ top = 0 \/ BufferSize(buf, top) > 0
        /\ \A l \in Levels : l > top => BufferSize(buf, l) = 0

\* The levels in use that hold less than they should below a given top level.
Wanting(buf, consumed, top) ==
    {l \in Levels : l <= CurrentLevel(buf) /\ HasNext("LayerdSieber", buf, consumed, l)
                    /\ BufferSize(buf, l) < desired_buffer_size(l, top)}

Lowest(ls) == CHOOSE l \in ls : \A k \in ls : l <= k

\* LayeredAdaptationLogic: keep the levels in use steady, then let them grow,
\* then try one level more.  allowedPhase is Upswitching from the start, and
\* segmentFailed, the one handler that could lower it, does nothing.
NextOfLayered(buf, consumed) ==
    LET top == CurrentLevel(buf)
        steady == Wanting(buf, consumed, top)
        growing == Wanting(buf, consumed, top + 2)
        request(l) == Request("LayerdSieber", buf, consumed, l)
    IN  IF steady # {} THEN request(Lowest(steady))
        ELSE IF growing # {} THEN request(Lowest(growing))
        ELSE IF top + 1 \in Levels /\ HasNext("LayerdSieber", buf, consumed, top + 1)
             THEN request(top + 1)
        ELSE Idle

\* SimpleBufferLogic: the lowest level that is not full, even when the period
\* has no more segments for it.
NextOfSimple(buf, consumed) ==
    LET open == {l \in Levels : BufferSize(buf, l) < DESIRED_BUFFER_SIZE}
    IN  IF open # {} /\ HasNext("SimpleBuffer", buf, consumed, Lowest(open))
        THEN Request("SimpleBuffer", buf, consumed, Lowest(open))
        ELSE Idle

getNextSegments(logic, buf, consumed) ==
    IF logic = "LayerdSieber" THEN NextOfLayered(buf, consumed)
    ELSE NextOfSimple(buf, consumed)
=============================================================================
