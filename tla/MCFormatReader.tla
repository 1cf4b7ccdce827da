--------------------------- MODULE MCFormatReader ---------------------------
(***************************************************************************)
(* Recordings of two threads with up to two frames that are not as they    *)
(* should be, for TLC.                                                     *)
(***************************************************************************)
EXTENDS FormatReader

CONSTANT LastTime  \* time of the last frames

Clean(q) == [thread |-> (q - 1) % 2, time |-> 1 + (q - 1) \div 2, invalid |-> FALSE]
Length == 2 * LastTime

\* The frame is missing, marked invalid, of another time or, once the interval has
\* started, of another thread.
Faults(q) ==
  {<<>>, <<[Clean(q) EXCEPT !.invalid = TRUE]>>, <<[Clean(q) EXCEPT !.time = 50]>>,
   <<[Clean(q) EXCEPT !.time = 1]>>}
  \cup IF Clean(q).time > 2 THEN {<<[Clean(q) EXCEPT !.thread = 7]>>} ELSE {}

\* Frame a is not as it should be, and perhaps the next one is missing or invalid.
WithFaults(a, x, y) ==
  FlattenSeq([q \in 1 .. Length |-> IF q = a THEN x ELSE IF q = a + 1 THEN y ELSE <<Clean(q)>>])
NextFrame(q) == {<<Clean(q)>>, <<>>, <<[Clean(q) EXCEPT !.invalid = TRUE]>>}
Faulty == UNION {{WithFaults(a, x, y) : x \in Faults(a), y \in NextFrame(a + 1)} : a \in 1 .. Length - 1}

\* Recordings that end early, start late or have a gap in both threads or in one.
Whole2 == [q \in 1 .. Length |-> Clean(q)]
Cut == {SubSeq(Whole2, a, b) : a \in 1 .. Length, b \in 1 .. Length}
Gaps == {SubSeq(Whole2, 1, a) \o SubSeq(Whole2, b, Length) : a \in 1 .. Length, b \in 3 .. Length}
OneThread(t) == SelectSeq(Whole2, LAMBDA f : f.thread = t)
Behind == {<<>>} \cup {OneThread(0), OneThread(1), OneThread(0) \o OneThread(1)}

\* The first frames are of another thread, more of them than are passed over at once.
BadStart ==
  {[q \in 1 .. Length |-> IF q <= n THEN [Clean(q) EXCEPT !.thread = 7] ELSE Clean(q)] :
     n \in 0 .. Length}
MCRecordings == Faulty \cup Cut \cup Gaps \cup Behind \cup BadStart

\* Three channels, two of them with the data of the same thread.
SharedThread == <<0, 1, 1>>

Overlapping == <<[start |-> 2, stop |-> 6, leave |-> 5], [start |-> 5, stop |-> 8, leave |-> 9]>>

ASSUME RecordingsOfThisStation == NoStrayCopies /\ GivesUpEarly
=============================================================================
