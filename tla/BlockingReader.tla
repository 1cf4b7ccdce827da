--------------------------- MODULE BlockingReader ---------------------------
(***************************************************************************)
(* Reading from a recording into a buffer, for the readers that look for   *)
(* headers.  A recording is a sequence of words (bytes), each given by its *)
(* place in the recording as it was made; Noise is a word that is not what *)
(* it was.  The search for words that the recorder filled in comes last.   *)
(***************************************************************************)
EXTENDS Integers, SequencesExt, FiniteSetsExt

Noise == -1

\* Data_reader_blocking::get_bytes_s: n words, or what is left.  The recording has ended
\* when more has been asked for than was left, not before.
Ended == -1
GetWords(recording, pos, n) ==
  IF pos = Ended THEN <<>> ELSE SubSeq(recording, pos + 1, Min({pos + n, Len(recording)}))
AfterRead(recording, pos, n) == IF pos = Ended \/ pos + n > Len(recording) THEN Ended ELSE pos + n

\* Without a buffer the words are passed over, to where there are none if need be.
CanSkip(pos, n) == pos # Ended \/ n = 0

\* The program ends while it looks for a time.
Aborted == [ok |-> FALSE, time |-> Noise]

\* A buffer into which words have been read from a place on; the others stay.
ReadInto(buffer, at, words) ==
  [i \in DOMAIN buffer |-> IF i - at \in DOMAIN words THEN words[i - at] ELSE buffer[i]]
Unread(n) == [i \in 1 .. n |-> Noise]

-----------------------------------------------------------------------------
\* Input_data_format_reader::find_fill_pattern: where the recorder found no data it
\* wrote words of a fixed pattern, which are marked invalid.  The words of a block are
\* not all looked at: the search goes in steps of the length of a lost packet, and
\* halves the step where the pattern begins or ends.  A block is a sequence that tells
\* which words are fill.

CONSTANT FillWords      \* MARK5_FILLPATTERN_NWORDS
ASSUME FillAssumption == FillWords \in Nat \ {0}

\* Mutant: a step passes over a whole packet of fill words.
FillStepOver(fill, at) == IF FillWords + 1 < Len(fill) - at THEN FillWords + 1 ELSE Len(fill) - at
FillStep(fill, at) == IF FillWords < Len(fill) - at THEN FillWords ELSE Len(fill) - at

\* The last word of a stretch of words that are all fill, or all not, as far as the
\* steps tell.
RECURSIVE LastAlike(_, _, _)
LastAlike(fill, at, step) ==
  IF step = 0 THEN at
  ELSE IF fill[at + step] = fill[at]
       THEN LastAlike(fill, at + step, IF step < Len(fill) - at - step THEN step ELSE Len(fill) - at - step)
       ELSE LastAlike(fill, at, step \div 2)

\* The stretches of fill from a word on.
RECURSIVE FindFill(_, _)
FindFill(fill, from) ==
  IF from > Len(fill) THEN <<>>
  ELSE LET first == IF fill[from] THEN from ELSE LastAlike(fill, from, FillStep(fill, from)) + 1
           last == LastAlike(fill, first, FillStep(fill, first))
       IN  IF first > Len(fill) THEN <<>>
           ELSE <<[first |-> first, last |-> last]>> \o FindFill(fill, last + 1)
=============================================================================
