---------------------------- MODULE Mark5aReader ----------------------------
(***************************************************************************)
(* The reader of Mark5A recordings.  A frame begins with its header, which *)
(* takes the place of data, and has the day of the year.  The offset of    *)
(* the station is zero.                                                    *)
(* A recording has a good header in the part searched for its start: in a  *)
(* short one without a header the code searches for ever.                  *)
(***************************************************************************)
EXTENDS HeaderSearch

CONSTANTS
  LeadWords,    \* words of a header before its ones
  Unsearched,   \* bytes at the end of a buffer in which no header is looked for
  YearDays      \* days in the year of the first frame

ASSUME Mark5aAssumption ==
  /\ {LeadWords, Unsearched} \subseteq Nat \ {0}
  /\ YearDays \in Nat /\ FirstDay \in 1 .. YearDays
  /\ FrameBytes > 2 * (LeadWords + OnesWords + TrailWords)
  /\ (FrameTime * DayFrames) % 40 = 0      \* a day is a multiple of 10 ms
  /\ FrameTime % 5 = 0                     \* no header has a time with 4 or 9 ms

\* A recording of n bytes in a word; in some frames (unset) the header holds no time.
Mark5aRecording(n, bytes, unset) ==
  [n |-> n, size |-> n * FrameBytes, lead |-> LeadWords * n, unsearched |-> Unsearched,
   bytes |-> bytes, unset |-> unset]

\* Mark5a_header::check_header
HeaderBytes(rec) == (LeadWords + OnesWords + TrailWords) * rec.n
CheckMark5a(rec, buffer) == Follow(rec, SubSeq(buffer, 1, HeaderBytes(rec)), 0)

-----------------------------------------------------------------------------
\* The time in a header is in milliseconds; the rest follows from the last digit.
TimeWritten(frame) == TimeOfFrame(frame) \div 4
Microseconds == <<0, 1, 2, 3, Noise, 0, 1, 2, 3, Noise>>
TimeInHeader(frame) == 4 * TimeWritten(frame) + Microseconds[(TimeWritten(frame) % 10) + 1]
DayInHeader(frame) == ((DayOfFrame(frame) - 1) % YearDays) + 1

\* What a read leaves: the last block and its time.
Mark5aStates ==
  [ok : BOOLEAN, pos : Int, day : Nat, date : Nat, time : Nat, words : Seq(Int)]

\* A block of which the header is good.  The day goes on when that of the header changes.
NoTime(rec, s, pos) == [s EXCEPT !.ok = FALSE, !.pos = pos, !.time = @ + FrameTime]
TimedBlock(rec, s, pos, buffer) ==
  LET frame == Frame(rec, buffer[1])
      date == IF DayInHeader(frame) # s.day THEN s.date + 1 ELSE s.date
  IN  IF frame \in rec.unset THEN NoTime(rec, s, pos)
      ELSE [ok |-> TRUE, pos |-> pos, day |-> DayInHeader(frame), date |-> date,
            time |-> date * DayTime + TimeInHeader(frame), words |-> buffer]

-----------------------------------------------------------------------------
\* One pass over the buffer.  A header that is not good is passed over; the bytes in
\* front of it have made place for as many new ones.
RECURSIVE Look(_, _), HeaderAt(_, _, _)
Look(rec, s) ==
  LET at == FindOnes(rec, s.buffer, s.byte) IN
  IF at = Noise THEN s ELSE HeaderAt(rec, [s EXCEPT !.byte = (LeadWords + OnesWords) * rec.n], at - LeadWords * rec.n)
HeaderAt(rec, s, start) ==
  CASE start < 0 -> Look(rec, s)
    [] start >= 0 /\ CheckMark5a(rec, Moved(s, start).buffer) -> [Moved(s, start) EXCEPT !.found = start]
    [] OTHER -> IF s.read >= s.max THEN s ELSE Look(rec, Refill(rec, [Moved(s, start) EXCEPT !.read = @ + start], start))

\* The buffer is moved on until a header is found in it or enough has been read.
RECURSIVE NextHeader(_, _)
NextHeader(rec, looked) ==
  IF looked.found # Noise \/ looked.read >= looked.max THEN looked
  ELSE NextHeader(rec, Look(rec, Slide(rec, looked)))

\* resync_header, with a block in the buffer.
ResyncMark5a(rec, pos, buffer) ==
  NextHeader(rec, Look(rec, Searching(pos, buffer, 0, WindowFrames * rec.size)))

-----------------------------------------------------------------------------
\* read_new_block
Resynced(rec, s, header) ==
  IF header.found = Noise THEN NoTime(rec, s, header.pos)
  ELSE LET block == Refill(rec, header, header.found) IN TimedBlock(rec, s, block.pos, block.buffer)
ReadMark5aBlock(rec, s) ==
  LET bytes == GetWords(rec.bytes, s.pos, rec.size)
      pos == AfterRead(rec.bytes, s.pos, rec.size)
  IN  CASE Len(bytes) < rec.size -> NoTime(rec, s, pos)
        [] Len(bytes) = rec.size /\ CheckMark5a(rec, bytes) -> TimedBlock(rec, s, pos, bytes)
        [] OTHER -> Resynced(rec, s, ResyncMark5a(rec, pos, bytes))

\* open_input_stream; the year of the job is that of the first frame.  The
\* start is searched in a buffer for the frame of one byte per word.
OpenedAt(rec, header) ==
  LET more == (rec.n - 1) * FrameBytes
      block == Refill(rec, [header EXCEPT !.buffer = @ \o Unread(more)], header.found + more)
      day == DayInHeader(Frame(rec, block.buffer[1]))
  IN  [ok |-> TRUE, pos |-> block.pos, day |-> day, date |-> day,
       time |-> day * DayTime + TimeInHeader(Frame(rec, block.buffer[1])), words |-> block.buffer]
OpenMark5a(rec) ==
  LET header == NextHeader(rec, Look(rec, Slide(rec, BeginSearch(rec)))) IN
  IF TooShort(rec) \/ header.found = Noise THEN [ok |-> FALSE] ELSE OpenedAt(rec, header)

\* The blocks of a recording, read errors passed over as in do_task.
ReadMark5aBlocks(rec, opened) ==
  LET from[s \in Mark5aStates] ==
        (IF s.ok THEN <<s>> ELSE <<>>)
          \o (IF s.pos = Ended THEN <<>> ELSE from[ReadMark5aBlock(rec, s)])
  IN  from[opened]

-----------------------------------------------------------------------------
\* goto_time.  Data that come through a socket are read block by block.
ReadMark5aTo(rec, time, last) ==
  LET from[s \in Mark5aStates] ==
        LET next == ReadMark5aBlock(rec, s) IN
        IF time > s.time /\ next.ok THEN from[next] ELSE IF time > s.time THEN next ELSE s
  IN  from[last]

\* In a file blocks are passed over, but for the last; if it has ended nothing is read.
Short(rec, s, blocks) == ~CanSkip(s.pos, (blocks - 1) * rec.size)
SkipMark5a(rec, s, blocks) ==
  IF Short(rec, s, blocks) THEN [s EXCEPT !.ok = FALSE]
  ELSE ReadMark5aBlock(rec, [s EXCEPT !.pos = @ + (blocks - 1) * rec.size])

SeekMark5aTo(rec, time, last) ==
  LET from[s \in Mark5aStates] ==
        LET blocks == Min({SkipFrames, (time - s.time) \div FrameTime}) IN
        CASE blocks <= 0 -> s
          [] blocks = SkipFrames /\ ~Short(rec, s, blocks) -> from[SkipMark5a(rec, s, blocks)]
          [] OTHER -> SkipMark5a(rec, s, blocks)
  IN  from[last]

GotoMark5a(rec, seekable, time, last) ==
  CASE time <= last.time -> last
    [] time > last.time /\ seekable -> SeekMark5aTo(rec, time, last)
    [] OTHER -> ReadMark5aTo(rec, time, last)
=============================================================================
