----------------------------- MODULE VlbaReader -----------------------------
(***************************************************************************)
(* The reader of VLBA recordings.  A frame is an auxiliary header, of      *)
(* which nothing is used, a header that begins with ones, and the data,    *)
(* which are read apart.  A header has the last digits of the number of    *)
(* its day.  The reference day of the job is that of the first frame.      *)
(* A recording ends with a whole frame: at the end of one that is cut      *)
(* short the code takes an old header for the rest, or searches for ever.  *)
(* It has not ended yet when its last frame has been read: another block   *)
(* follows, with the header of that frame and without data.                *)
(***************************************************************************)
EXTENDS HeaderSearch

CONSTANTS
  AuxWords,       \* SIZE_VLBA_AUX_HEADER
  MostHeaders,    \* bytes at the end of a buffer in which no header is looked for
  DaysWritten     \* 1000, the numbers that three digits can hold

ASSUME VlbaAssumption ==
  /\ {AuxWords, MostHeaders, DaysWritten} \subseteq Nat \ {0}
  /\ FrameBytes > 2 * MostHeaders

\* A recording of n bytes in a word, and the sizes of its header and of the data of a frame.
VlbaRecording(n, bytes) ==
  [n |-> n, size |-> n * (AuxWords + OnesWords + TrailWords + FrameBytes), lead |-> AuxWords * n,
   unsearched |-> MostHeaders, bytes |-> bytes]
VlbaHeader(rec) == (OnesWords + TrailWords) * rec.n

\* VLBA_header::check_header
CheckVlba(rec, header) == Follow(rec, header, rec.lead)

\* What a read leaves: the last block, its time, and the header that was looked at last.
VlbaStates ==
  [ok : BOOLEAN, pos : Int, day : Nat, time : Nat, words : Seq(Int), header : Seq(Int)]

\* A block of which the header is good.  The day goes on when its digits change.
Overdue(s) == [s EXCEPT !.ok = FALSE, !.time = @ + FrameTime]
VlbaBlock(rec, s, pos, header, data) ==
  LET frame == Frame(rec, header[1])
      day == IF DayOfFrame(frame) % DaysWritten # s.day % DaysWritten THEN s.day + 1 ELSE s.day
  IN  [ok |-> TRUE, pos |-> pos, day |-> day, time |-> day * DayTime + TimeOfFrame(frame),
       words |-> data, header |-> header]

-----------------------------------------------------------------------------
\* One pass over the buffer.  What looks like a header, good or not, and what is in front
\* of it make place for new bytes; a good one ends the search.  Opening counts the bytes
\* that stay as read.
RECURSIVE LookVlba(_, _), HeaderFound(_, _, _)
LookVlba(rec, s) ==
  LET at == FindOnes(rec, s.buffer, s.byte) IN
  IF at = Noise THEN s
  ELSE HeaderFound(rec, [s EXCEPT !.byte = 0, !.header = SubSeq(s.buffer, at + 1, at + VlbaHeader(rec))], at)
HeaderFound(rec, s, at) ==
  LET passed == at + VlbaHeader(rec)
      read == IF s.opening THEN Len(s.buffer) - passed ELSE passed
  IN  CASE CheckVlba(rec, s.header) -> [Moved(s, passed) EXCEPT !.found = passed]
        [] ~CheckVlba(rec, s.header) /\ s.read < s.max ->
             LookVlba(rec, Refill(rec, [Moved(s, passed) EXCEPT !.read = @ + read], passed))
        [] OTHER -> s

RECURSIVE NextVlbaHeader(_, _)
NextVlbaHeader(rec, looked) ==
  IF looked.found # Noise \/ looked.read >= looked.max THEN looked
  ELSE NextVlbaHeader(rec, LookVlba(rec, Slide(rec, looked)))

\* A search also knows whether it opens the recording, and keeps the last header it has
\* looked at.
Opening(search, opening, header) == [opening |-> opening, header |-> header] @@ search
ResyncVlba(rec, pos, header, data) ==
  NextVlbaHeader(rec, LookVlba(rec,
    Opening(Searching(pos, data, 0, WindowFrames * rec.n * FrameBytes), FALSE, header)))

-----------------------------------------------------------------------------
\* read_new_block
ResyncedVlba(rec, s, search) ==
  IF search.found = Noise THEN Overdue([s EXCEPT !.pos = search.pos, !.header = search.header])
  ELSE LET block == Refill(rec, search, search.found)
       IN  VlbaBlock(rec, s, block.pos, search.header, block.buffer)
ReadVlbaBlock(rec, s) ==
  LET n == rec.lead + VlbaHeader(rec)
      header == ReadInto(s.header, -rec.lead, GetWords(rec.bytes, s.pos, n))
      at == AfterRead(rec.bytes, s.pos, n)
      data == ReadInto(Unread(rec.n * FrameBytes), 0, GetWords(rec.bytes, at, rec.n * FrameBytes))
      pos == AfterRead(rec.bytes, at, rec.n * FrameBytes)
  IN  CASE s.pos = Ended -> Overdue(s)
        [] s.pos # Ended /\ CheckVlba(rec, header) -> VlbaBlock(rec, s, pos, header, data)
        [] OTHER -> ResyncedVlba(rec, s, ResyncVlba(rec, pos, header, data))

\* open_input_stream.  A day before that of the job is taken for one after it.
OpenedVlba(rec, header) ==
  LET more == (rec.n - 1) * FrameBytes
      block == Refill(rec, [header EXCEPT !.buffer = @ \o Unread(more)], header.found + more)
      ahead == (DayOfFrame(Frame(rec, header.header[1])) - FirstDay) % DaysWritten
  IN  VlbaBlock(rec, [day |-> FirstDay + ahead], block.pos, header.header, block.buffer)
OpenVlba(rec) ==
  LET header == NextVlbaHeader(rec, LookVlba(rec, Opening(Slide(rec, BeginSearch(rec)), TRUE, <<>>))) IN
  IF TooShort(rec) \/ header.found = Noise THEN [ok |-> FALSE] ELSE OpenedVlba(rec, header)

\* The blocks of a recording, read errors passed over as in do_task.
ReadVlbaBlocks(rec, opened) ==
  LET from[s \in VlbaStates] ==
        (IF s.ok THEN <<s>> ELSE <<>>)
          \o (IF s.pos = Ended THEN <<>> ELSE from[ReadVlbaBlock(rec, s)])
  IN  from[opened]

-----------------------------------------------------------------------------
\* goto_time.  Data that come through a socket are read block by block.
ReadVlbaTo(rec, time, last) ==
  LET from[s \in VlbaStates] ==
        LET next == ReadVlbaBlock(rec, s) IN
        IF time > s.time /\ next.ok THEN from[next] ELSE IF time > s.time THEN next ELSE s
  IN  from[last]

\* In a file frames are passed over, but for the last, which is read; if it has ended
\* the program ends.  A single frame is not passed over, and not read either.
SkipVlba(rec, s, frames) == ReadVlbaBlock(rec, [s EXCEPT !.pos = @ + (frames - 1) * rec.size])
SeekVlbaTo(rec, time, last) ==
  LET from[s \in VlbaStates] ==
        LET frames == Min({SkipFrames, (time - s.time) \div FrameTime}) IN
        CASE frames <= 1 -> s
          [] frames > 1 /\ ~CanSkip(s.pos, (frames - 1) * rec.size) -> Aborted
          [] OTHER -> IF frames = SkipFrames THEN from[SkipVlba(rec, s, frames)] ELSE SkipVlba(rec, s, frames)
  IN  from[last]

GotoVlba(rec, seekable, time, last) ==
  CASE time <= last.time -> last
    [] time > last.time /\ seekable -> SeekVlbaTo(rec, time, last)
    [] OTHER -> ReadVlbaTo(rec, time, last)
=============================================================================
