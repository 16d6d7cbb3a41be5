--------------------------- MODULE LayeredBuffer ---------------------------
(***************************************************************************)
(* The playout buffer of Player, as operators on its two parts: m_buffer,  *)
(* which maps a level to the numbers of its segments in order of arrival,  *)
(* and the levels m_buffer has an entry for.                               *)
(***************************************************************************)
EXTENDS Integers, Sequences, SequencesExt

\* Mutant of AddToBuffer: at the wrong end.
AddInFront(buf, n, l) == [buf EXCEPT ![l] = <<n>> \o @]

\* The entry of a level is created by its first segment, and never removed.
AddToBuffer(buf, n, l) == [buf EXCEPT ![l] = Append(@, n)]

IsInBuffer(buf, n, l) == Contains(buf[l], n)

\* One level after segment n has been erased, wherever it stands.
ConsumeFromBuffer(buf, n, l) == RemoveFirst(buf[l], n)

BufferSize(buf, l) == Len(buf[l])

\* Read from a level that is not empty.
LastSegmentNumber(buf, l) == Last(buf[l])
=============================================================================
