---------------------------- MODULE Mark5bReader ----------------------------
(***************************************************************************)
(* The reader of Mark5B recordings: it takes a number of frames at a time, *)
(* each behind a header, and looks for the next header when it finds none  *)
(* where one should be.  A header is a sync word, the number of the frame  *)
(* in its second, the second, and a CRC with the digits within the second. *)
(* The CRC does not cover the number, and not every recorder writes it.    *)
(* Time is counted in frames, from a second that starts with frame 0.  The *)
(* day does not change, and no second is spoiled that no CRC covers.       *)
(***************************************************************************)
EXTENDS BlockingReader

CONSTANTS
  FrameWords,   \* SIZE_MK5B_FRAME
  BlockFrames,  \* N_MK5B_BLOCKS_TO_READ
  SecondBlocks, \* blocks in a second
  MaxBlocks     \* RESYNC_MAX_DATA_FRAMES

HeaderWords == 4    \* SIZE_MK5B_HEADER

ASSUME Mark5bAssumption ==
  /\ {BlockFrames, SecondBlocks, MaxBlocks} \subseteq Nat \ {0}
  /\ FrameWords \in Nat /\ FrameWords > 2 * HeaderWords
  /\ SecondBlocks > 1       \* goto_time would not move otherwise

\* A recording: its words, and what its recorder wrote at the end of a header: the "CRC"
\* and the digits within the second, "NO_CRC" but zero, or "NO_DIGITS" and a wrong CRC.
Period == HeaderWords + FrameWords
SecondFrames == SecondBlocks * BlockFrames
IsPart(word, part) == word >= 0 /\ word % Period = part - 1
IsSync(word) == IsPart(word, 1)

\* The number that a word gives where that of a frame should be: a spoiled one, -1 - k,
\* gives k.
FrameNr(word) == IF word < 0 THEN -1 - word ELSE (word \div Period) % SecondFrames

\* The digits of a header, as a number of frames.
Digits(rec, header) == IF rec.recorder = "NO_DIGITS" THEN 0 ELSE (header[4] \div Period) % SecondFrames

\* check_header: a CRC of zero is not checked, nor that of a header of which the digits are
\* zero and the number is not.  No other word looks like a CRC of zero or like digits of zero.
CheckHeader(rec, header) ==
  /\ IsSync(header[1])
  /\ IsPart(header[4], 4)
  /\ \/ rec.recorder = "NO_CRC"
     \/ Digits(rec, header) = 0 /\ FrameNr(header[2]) # 0
     \/ rec.recorder = "CRC" /\ header[3] = header[4] - 1

-----------------------------------------------------------------------------
\* What a read leaves: the place, the block and its time, the header of the block, the
\* header read last, and whether the numbers of the frames are used (frame_nr_valid).
Mark5bStates ==
  [ok : BOOLEAN, pos : Int, time : Int, words : Seq(Int), current : Seq(Int), header : Seq(Int), valid : BOOLEAN]
NotRead ==
  [ok |-> FALSE, pos |-> 0, time |-> 0, words |-> Unread(FrameWords), current |-> Unread(HeaderWords),
   header |-> Unread(HeaderWords), valid |-> TRUE]

\* The nearest block.
Nearest(frames) == (2 * frames + BlockFrames) \div (2 * BlockFrames)

\* get_current_time, from the number of the frame or from the digits.
TimeInSecond(rec, header, valid) ==
  IF valid THEN FrameNr(header[2]) ELSE BlockFrames * Nearest(Digits(rec, header))

\* A header becomes the current one.  After a number that leads out of the second no
\* number is used any more.
Accept(rec, s) ==
  LET valid == s.valid /\ FrameNr(s.header[2]) <= SecondFrames
      second == SecondFrames * ((s.header[3] \div Period) \div SecondFrames)
  IN  [s EXCEPT !.ok = TRUE, !.current = s.header, !.valid = valid,
                !.time = second + TimeInSecond(rec, s.header, valid)]

\* Whether blocks begin with the frame of a header.
StartsBlock(header) == FrameNr(header[2]) % BlockFrames = 0

\* A header and a frame; of the frames of a block after the first the header is not
\* looked at.
ReadHeader(rec, s) ==
  [s EXCEPT !.header = ReadInto(@, 0, GetWords(rec.words, s.pos, HeaderWords)),
            !.pos = AfterRead(rec.words, @, HeaderWords)]
ReadFrame(rec, s, before) ==
  [s EXCEPT !.words = before \o ReadInto(Unread(FrameWords), 0, GetWords(rec.words, s.pos, FrameWords)),
            !.pos = AfterRead(rec.words, @, FrameWords)]
OtherFrames(rec, s) ==
  LET upTo[i \in 1 .. BlockFrames] ==
        IF i = 1 THEN s ELSE ReadFrame(rec, ReadHeader(rec, upTo[i - 1]), upTo[i - 1].words)
  IN  upTo[BlockFrames]

-----------------------------------------------------------------------------
\* The search of resync_header, with one frame of the buffer.
SyncWords(buffer) == {i \in 1 .. FrameWords - HeaderWords : IsSync(buffer[i])}

\* Mutant: nothing is kept.
KeepNone(buffer) == buffer
\* The last words are kept: a header may begin in them.
KeepLast(buffer) == ReadInto(buffer, 0, SubSeq(buffer, FrameWords - HeaderWords + 1, FrameWords))

\* What follows the first sync word of the buffer, or its last words, is read as a header
\* and its frame.
UpToHeader(buffer) == Min(SyncWords(buffer) \cup {FrameWords - HeaderWords + 1}) + HeaderWords - 1
Candidate(rec, s) ==
  LET n == UpToHeader(s.words)
      rest == SubSeq(s.words, n + 1, FrameWords)
  IN  [s EXCEPT !.header = SubSeq(s.words, n - HeaderWords + 1, n),
                !.words = ReadInto(ReadInto(s.words, 0, rest), Len(rest), GetWords(rec.words, s.pos, n)),
                !.pos = AfterRead(rec.words, @, n)]

\* Each step reads a window and looks in it.  Once a sync word was found (syncword_found)
\* all that is read is taken for a header.
Failed(s) == [s EXCEPT !.ok = FALSE]
RECURSIVE Search(_, _, _, _)
Search(rec, s, found, read) ==
  LET n == FrameWords - HeaderWords
      window == GetWords(rec.words, s.pos, n)
      looked == [s EXCEPT !.words = ReadInto(@, HeaderWords, window), !.pos = AfterRead(rec.words, @, n)]
      now == found \/ SyncWords(looked.words) # {}
      next == Candidate(rec, looked)
      more == Len(GetWords(rec.words, looked.pos, UpToHeader(looked.words)))
  IN  CASE read >= MaxBlocks * BlockFrames * FrameWords -> Failed(s)
        [] read < MaxBlocks * BlockFrames * FrameWords /\ window = <<>> -> Failed(looked)
        [] read < MaxBlocks * BlockFrames * FrameWords /\ window # <<>> /\ ~now ->
             Search(rec, [looked EXCEPT !.words = KeepLast(@)], FALSE, read + Len(window))
        [] OTHER ->
             IF CheckHeader(rec, next.header) /\ StartsBlock(next.header)
             THEN OtherFrames(rec, Accept(rec, next))
             ELSE Search(rec, next, TRUE, read + Len(window) + more)

ResyncHeader(rec, s) ==
  Search(rec, [s EXCEPT !.words = ReadInto(Unread(FrameWords), 0, GetWords(rec.words, s.pos, HeaderWords)),
                        !.pos = AfterRead(rec.words, @, HeaderWords)], FALSE, 0)

-----------------------------------------------------------------------------
\* read_new_block.  A block that the end of the recording cuts is refused, but its
\* header is the current one.
ReadNewBlock(rec, s) ==
  LET header == ReadHeader(rec, s)
      block == OtherFrames(rec, ReadFrame(rec, Accept(rec, header), <<>>))
  IN  IF CheckHeader(rec, header.header) /\ (s.valid => StartsBlock(header.header))
      THEN [block EXCEPT !.ok = block.pos # Ended]
      ELSE ResyncHeader(rec, header)

\* The blocks of a recording, read errors passed over as in do_task.
ReadAll(rec) ==
  LET from[s \in Mark5bStates] ==
        (IF s.ok THEN <<s>> ELSE <<>>) \o (IF s.pos = Ended THEN <<>> ELSE from[ReadNewBlock(rec, s)])
  IN  from[NotRead]

-----------------------------------------------------------------------------
\* goto_time, with the block that was read last.  Data that come through a socket are
\* read block by block.
ReadTo(rec, time, last) ==
  LET from[s \in Mark5bStates] ==
        LET next == ReadNewBlock(rec, s) IN
        IF time > s.time /\ next.ok THEN from[next] ELSE IF time > s.time THEN next ELSE s
  IN  from[last]

\* In a file one second is passed over at a time, but for its last block.
Passed(blocks) == (blocks - 1) * BlockFrames * Period
Skip(rec, s, blocks) == ReadNewBlock(rec, [s EXCEPT !.pos = @ + Passed(blocks)])

Seconds(rec, time, last) ==
  LET from[s \in Mark5bStates] ==
        IF time - s.time < SecondFrames \/ s.pos = Ended THEN s ELSE from[Skip(rec, s, SecondBlocks)]
  IN  from[last]

\* Then the blocks that are left.  The program ends with a block that begins with another
\* frame than blocks do.
SeekTo(rec, time, last) ==
  LET near == Seconds(rec, time, last)
      blocks == Nearest(time - near.time)
      found == Skip(rec, near, blocks)
  IN  CASE time - near.time >= SecondFrames \/ blocks <= 0 \/ ~CanSkip(near.pos, Passed(blocks)) -> near
        [] OTHER -> IF StartsBlock(found.current) THEN found ELSE Aborted

GotoTime(rec, seekable, time, last) ==
  CASE time <= last.time -> last
    [] time > last.time /\ seekable -> SeekTo(rec, time, last)
    [] OTHER -> ReadTo(rec, time, last)
=============================================================================
