---------------------------- MODULE HeaderSearch ----------------------------
(***************************************************************************)
(* What the readers of Mark5A and VLBA recordings share.  A word has a bit *)
(* for each track and takes n bytes.  In each frame all tracks have ones   *)
(* for some words of the header.  A reader looks for these at the start    *)
(* and after damage; the order of the bytes of a header and its CRC then   *)
(* tell whether it is whole.  The tracks are alike: which of them are      *)
(* looked at (the mask) makes no difference.                               *)
(***************************************************************************)
EXTENDS BlockingReader

CONSTANTS
  OnesWords,      \* words of ones in a header
  TrailWords,     \* words of a header after its ones
  FrameBytes,     \* SIZE_MK5A_FRAME, SIZE_VLBA_FRAME: the bytes of a frame if a word is a byte
  WindowFrames,   \* RESYNC_MAX_DATA_FRAMES
  FrameTime,      \* time_between_headers, in units of 250 microseconds
  DayFrames,      \* frames in a day
  SkipFrames,     \* frames in a second
  FirstDay, FirstFrame   \* number of the day and frame of the day of the first frame

ASSUME SearchAssumption ==
  /\ {OnesWords, TrailWords, WindowFrames, FrameTime, DayFrames, FirstDay} \subseteq Nat \ {0}
  /\ SkipFrames \in Nat \ {0, 1}
  /\ FirstFrame \in 0 .. DayFrames - 1
  /\ FrameBytes \in Nat /\ FrameBytes % 2 = 0

\* A recording: its bytes, n, the size of a frame, where in it the ones begin, and how many
\* bytes at the end of a buffer are not looked at.
Frame(rec, byte) == byte \div rec.size

\* When a frame was recorded.
DayTime == DayFrames * FrameTime
DayOfFrame(frame) == FirstDay + ((FirstFrame + frame) \div DayFrames)
TimeOfFrame(frame) == ((FirstFrame + frame) % DayFrames) * FrameTime

\* Bytes that became ones by damage.
Ones == -2
IsOnes(rec, byte) ==
  \/ byte = Ones
  \/ byte >= 0 /\ (byte % rec.size) - rec.lead \in 0 .. OnesWords * rec.n - 1

\* The bytes of a frame from one place on are there in their order.
Follow(rec, bytes, from) ==
  /\ bytes[1] >= 0 /\ bytes[1] % rec.size = from
  /\ \A i \in DOMAIN bytes : bytes[i] = bytes[1] + i - 1

\* The ones are looked for from a place on: the last byte of the window tells how far
\* it can move.
RECURSIVE FindOnes(_, _, _)
FindOnes(rec, buffer, byte) ==
  LET n == OnesWords * rec.n IN
  IF byte >= Len(buffer) - rec.unsearched THEN Noise
  ELSE IF \A i \in 1 .. n : IsOnes(rec, buffer[byte + i]) THEN byte
  ELSE FindOnes(rec, buffer, byte + (IF IsOnes(rec, buffer[byte + n]) THEN 1 ELSE n))

-----------------------------------------------------------------------------
\* A search: the place in the recording, the buffer and where to look in it, how much has
\* been read (and may be), and where a header was found.
Searching(pos, buffer, read, max) ==
  [pos |-> pos, buffer |-> buffer, byte |-> 0, read |-> read, max |-> max, found |-> Noise]

\* The buffer from a place on, and new bytes at its end.
Moved(s, start) == [s EXCEPT !.buffer = ReadInto(@, 0, SubSeq(@, start + 1, Len(@)))]
Refill(rec, s, n) ==
  [s EXCEPT !.buffer = ReadInto(@, Len(@) - n, GetWords(rec.bytes, s.pos, n)), !.pos = AfterRead(rec.bytes, @, n)]

\* Mutant: the end of the buffer is not kept.
SlideAll(rec, s) ==
  LET n == Len(s.buffer) IN
  [s EXCEPT !.buffer = ReadInto(s.buffer, 0, GetWords(rec.bytes, s.pos, n)),
            !.pos = AfterRead(rec.bytes, @, n), !.byte = 0, !.read = @ + n]
\* The last half of a frame of one byte per word is kept, and read on behind it.
Slide(rec, s) ==
  LET keep == FrameBytes \div 2
      n == Len(s.buffer) - keep
      kept == ReadInto(s.buffer, 0, SubSeq(s.buffer, n + 1, Len(s.buffer)))
  IN  [s EXCEPT !.buffer = ReadInto(kept, keep, GetWords(rec.bytes, s.pos, n)),
                !.pos = AfterRead(rec.bytes, @, n), !.byte = 0, !.read = @ + n]

\* find_start_of_header before its first turn: half a frame has been read.
BeginSearch(rec) ==
  LET half == FrameBytes \div 2 IN
  Searching(AfterRead(rec.bytes, 0, half), ReadInto(Unread(FrameBytes), half, GetWords(rec.bytes, 0, half)),
            half, WindowFrames * FrameBytes)
TooShort(rec) == Len(rec.bytes) < FrameBytes \div 2
=============================================================================
