---------------------------- MODULE MCAlgorithms ----------------------------
(***************************************************************************)
(* The pure algorithms on all inputs of a small size, each against a       *)
(* reference definition.                                                   *)
(***************************************************************************)
EXTENDS Algorithms, Tracks, Mark5bReader, Mark5aReader, VlbaReader

CONSTANTS
  Samples,      \* length of the interval in which the delay changes
  Length,       \* invalid intervals are in the first Length samples
  BlocksMade,   \* blocks of a Mark5B recording as it was made
  FramesMade,   \* frames of a Mark5A or VLBA recording as it was made
  BlockWords    \* words of a block that may hold fill

-----------------------------------------------------------------------------
\* The dates for which get_date is meant, and the calendar itself.
Years == 1901 .. 2099
Leap(y) == y % 4 = 0 /\ (y % 100 # 0 \/ y % 400 = 0)
DaysInMonth(m, y) ==
  IF m = 2 /\ Leap(y) THEN 29
  ELSE <<31, 28, 31, 30, 31, 30, 31, 31, 30, 31, 30, 31>>[m]
DayOfYear[m \in 1 .. 12, y \in Years] ==
  IF m = 1 THEN 1 ELSE DayOfYear[m - 1, y] + DaysInMonth(m - 1, y)
LeapYearsBefore(y) == Cardinality({l \in 1901 .. y - 1 : Leap(l)})
Dates == {<<y, m, d>> \in Years \X (1 .. 12) \X (1 .. 31) : d <= DaysInMonth(m, y)}

\* Delays that rise, fall or turn, by less than one sample per sample.
Curves ==
  {c \in [constant : {-31, -7, 0, 29, 30, 44}, linear : -40 .. 40, quadratic : -1 .. 1] :
     \A t \in {0, Samples} : Rate(c, t) \in -(Fraction - 2) .. Fraction - 2}

\* All lists of up to three intervals that do not overlap.
Intervals == {<<s, n>> \in (0 .. Length - 1) \X (1 .. Length) : s + n <= Length}
Lists ==
  {<<>>} \cup {<<a>> : a \in Intervals}
    \cup {l \in Intervals \X Intervals : l[1][1] + l[1][2] <= l[2][1]}
    \cup {l \in Intervals \X Intervals \X Intervals :
            l[1][1] + l[1][2] <= l[2][1] /\ l[2][1] + l[2][2] <= l[3][1]}

-----------------------------------------------------------------------------
\* Small jobs for the setup of channels: the channels of two stations, and
\* recordings of up to four channels in every form.

\* A BBC for each channel, with the number that is given, and an IF for each
\* polarisation.
Vex(defs, number) ==
  [freq |-> [i \in DOMAIN defs |->
     [freq |-> defs[i].freq, side |-> defs[i].side, bw |-> defs[i].bw,
      name |-> defs[i].name, bbc |-> i]],
   bbc |-> [i \in DOMAIN defs |-> [label |-> i, nr |-> number[i], if |-> defs[i].pol]],
   if |-> <<[name |-> "R", pol |-> "R"], [name |-> "L", pol |-> "L"]>>]

InOrder(defs) == [i \in DOMAIN defs |-> i]
Channel(kind, bw) == [freq |-> kind[1], side |-> kind[2], bw |-> bw, pol |-> kind[3], name |-> kind]

-----------------------------------------------------------------------------
\* The setup station observes up to three different channels, or both
\* polarisations of two frequencies; the other station some of them: with the
\* same bandwidth, or with half of it and in the opposite order.
Kinds == {0, 8} \X {"U", "L"} \X {"R", "L"}
Crossings == {0, 8} \X {"U"} \X {"R", "L"}
Observed ==
  {own \in UNION {[1 .. n -> Kinds] : n \in 1 .. 3} \cup [1 .. 4 -> Crossings] :
     own[1] = <<0, "U", "R">> /\ IsInjective(own)}

\* A thread for each channel, a recording that all ways of counting agree on.
Threads(vex) ==
  [freq |-> vex.freq, bbc |-> vex.bbc, if |-> vex.if, transport |-> "None", rack |-> "DBBC",
   threads |-> [i \in DOMAIN vex.freq |-> [id |-> i - 1, bits |-> 2]],
   chans |-> [i \in DOMAIN vex.freq |-> [name |-> vex.freq[i].name, thread |-> i - 1, index |-> 0]]]

Jobs ==
  UNION {{
    Named([channels |-> own, stations |-> <<"A", "B">>, setup |-> "A", scan |-> scan, cross |-> cross,
     vex |-> [s \in {"A", "B"} |->
       LET defs == SelectSeq(own, LAMBDA k : s = "A" \/ k \in some)
           half == s = "B" /\ narrow
           channels == [i \in DOMAIN defs |-> Channel(defs[i], IF half THEN 2 ELSE 4)]
           ordered == IF half THEN Reverse(channels) ELSE channels
       IN  Threads(Vex(ordered, InOrder(ordered)))]]) :
      scan \in {<<"A", "B">>, <<"B">>}, cross \in BOOLEAN, narrow \in BOOLEAN,
      some \in SUBSET Range(own) \ {{}}} : own \in Observed}

-----------------------------------------------------------------------------
\* One station records one, two or four channels, in any order of the VEX file.
OfBbcs == {<<0, "U", "R">>, <<0, "L", "R">>, <<8, "U", "R">>, <<8, "L", "R">>}
Written == {w \in UNION {[1 .. n -> OfBbcs] : n \in {1, 2, 4}} : IsInjective(w)}
Forms ==
  ({"streams", "tracks", "standard", "packed"} \X {0} \X {0} \X {"DBBC"})
    \cup ({"fanout"} \X {1, 2, 4} \X {1, 2} \X {"Mark4", "VLBA4"})

Bits(bits) == IF bits = 2 THEN <<"sign", "mag">> ELSE <<"sign">>

\* The order of the recorder, from the BBC numbers 1 .. n of n channels: the lower
\* sidebands come after all the upper ones.
Place(vex, i) == vex.bbc[i].nr + IF vex.freq[i].side = "L" THEN Len(vex.freq) ELSE 0
StreamOf(vex, i, bits, b) ==
  Cardinality({j \in DOMAIN vex.freq : Place(vex, j) < Place(vex, i)}) * bits + b - 1
EachBit(vex, bits, F(_, _)) ==
  FlattenSeq([i \in DOMAIN vex.freq |-> [b \in 1 .. bits |-> F(i, b)]])

\* A channel has one track for each bit, or several in the fan-out: every second
\* track of a headstack, from the second half of the channels on of the other one.
FanoutTracks(vex, i, bits, b, fanout, heads) ==
  LET half == (Len(vex.freq) + 1) \div 2
      place == IF heads = 2 /\ i > half THEN i - half ELSE i
  IN  [name |-> vex.freq[i].name, bit |-> Bits(bits)[b],
       headstack |-> IF heads = 2 /\ i > half THEN 2 ELSE 1,
       tracks |-> [k \in 1 .. fanout |-> 2 * (((place - 1) * bits + b - 1) * fanout + k)]]

RecordedAs(form, vex, bits) ==
  LET stream(i, b) == [name |-> vex.freq[i].name, bit |-> Bits(bits)[b],
                       nr |-> StreamOf(vex, i, bits, b)]
      track(i, b) == [name |-> vex.freq[i].name, bit |-> Bits(bits)[b], headstack |-> 1,
                      tracks |-> <<StreamOf(vex, i, bits, b) + 2>>]
      fan(i, b) == FanoutTracks(vex, i, bits, b, form[2], form[3])
      with(transport, rack, frame, streams, tracks, threads) ==
        [freq |-> vex.freq, bbc |-> vex.bbc, if |-> vex.if, transport |-> transport,
         rack |-> rack, frame |-> frame, streams |-> streams, tracks |-> tracks,
         threads |-> threads,
         chans |-> [i \in DOMAIN vex.freq |->
                      [name |-> vex.freq[i].name, thread |-> 0, index |-> i - 1]]]
  IN  CASE form[1] = "streams" -> with("Mark5B", "DBBC", "none", EachBit(vex, bits, stream), <<>>, <<>>)
        [] form[1] = "tracks" -> with("Mark5B", "DBBC", "Mark5B", <<>>, EachBit(vex, bits, track), <<>>)
        [] form[1] = "standard" -> with("Mark5B", "DBBC", "none", <<>>, EachBit(vex, bits, track), <<>>)
        [] form[1] = "packed" -> with("Mark5C", "DBBC", "none", <<>>, <<>>, <<[id |-> 0, bits |-> bits]>>)
        [] OTHER -> with("Mark5A", form[4], "Mark4", <<>>, EachBit(vex, bits, fan), <<>>)

\* All channels are correlated, or all but the first.
RecordingOf(form, written, turned, bits, all) ==
  LET defs == [i \in DOMAIN written |-> Channel(written[i], 4)]
      number == IF turned THEN Reverse(InOrder(defs)) ELSE InOrder(defs)
  IN  Named([channels |-> IF all \/ Len(written) = 1 THEN written ELSE Tail(written),
       stations |-> <<"A">>, setup |-> "A", scan |-> <<"A">>, cross |-> FALSE,
       vex |-> [s \in {"A"} |-> RecordedAs(form, Vex(defs, number), bits)]])

\* A packed recording of one channel is one of a thread for each channel.
Recordings ==
  {r \in Forms \X Written \X BOOLEAN \X {1, 2} \X BOOLEAN :
     r[1][1] = "packed" => Len(r[2]) > 1}

-----------------------------------------------------------------------------
\* Small damaged recordings for the readers, and blocks for the search for fill.

\* The recording as it was made, and the same after words were lost or spoiled.
AllWords == [i \in 1 .. BlocksMade * BlockFrames * Period |-> i - 1]
Spoiled(words, d, as) == [i \in DOMAIN words |-> IF i - 1 \in d.at .. d.at + d.n - 1 THEN as ELSE words[i]]
Without(words, d) == SubSeq(words, 1, d.at) \o SubSeq(words, d.at + d.n + 1, Len(words))
Damaged(words, d) == IF d.lost THEN Without(words, d) ELSE Spoiled(words, d, d.as)

\* The first damage is in the second block, the other one, if there is one, in the third
\* or the fourth, in a header or next to it.  A spoiled number is that of a frame with which
\* no block begins, of one with which a block begins, or leads out of the second.  A second
\* is spoiled only where a CRC covers it.
Damage(at, lost, n, as) == [at |-> at, lost |-> lost, n |-> n, as |-> as]
NoDamage == Damage(0, TRUE, 0, Noise)
Losses(places, lengths) == {Damage(at, TRUE, n, Noise) : at \in places, n \in lengths}
Spoils(places, recorder) ==
  {Damage(at, FALSE, 1, Noise) : at \in {p \in places : IsPart(p, 3) => recorder = "CRC"}}
    \cup {Damage(at, FALSE, 1, -1 - nr) : at \in {p \in places : IsPart(p, 2)},
                                          nr \in {1, BlockFrames, SecondFrames + BlockFrames}}
BlockPeriod == BlockFrames * Period
FirstPlaces == BlockPeriod .. 2 * BlockPeriod - 1
SecondPlaces == {at \in 2 * BlockPeriod .. 4 * BlockPeriod - 1 : at % Period \in 0 .. HeaderWords}
DamagedRecordings ==
  UNION {
    {[words |-> Damaged(Damaged(AllWords, second), first), recorder |-> recorder] :
       first \in {NoDamage} \cup Losses(FirstPlaces, {1, 3, Period}) \cup Spoils(FirstPlaces, recorder),
       second \in {NoDamage} \cup (IF recorder = "CRC" THEN Losses(SecondPlaces, {3}) ELSE {})
                    \cup {d \in Spoils(SecondPlaces, recorder) : recorder = "CRC" \/ IsPart(d.at, 2)}} :
    recorder \in {"CRC", "NO_CRC", "NO_DIGITS"}}

BlockTimes == {b * BlockFrames : b \in 0 .. BlocksMade - 1}

\* The words a block should have, in the recording as it was made.
WordsOf(time) ==
  FlattenSeq([f \in 1 .. BlockFrames |->
    [i \in 1 .. FrameWords |-> (time + f - 1) * Period + HeaderWords + i - 1]])

\* The words from one place to another are all there and next to each other.
Together(words, from, to) ==
  \E p \in DOMAIN words :
    p + to - from <= Len(words) /\ \A i \in 0 .. to - from : words[p + i] = from + i
Undamaged(words, from, blocks) ==
  from >= 0 /\ Together(words, from * Period, (from + blocks * BlockFrames) * Period - 1)

\* The places at which one word does not follow the other.
Breaks(words) == {i \in 1 .. Len(words) - 1 : words[i + 1] # words[i] + 1}

-----------------------------------------------------------------------------
\* A Mark5A or VLBA recording begins anywhere in its first frame, and is damaged in its
\* second or third; a header of Mark5A may lack its time.
FrameSize(tape) == IF tape.vlba THEN VlbaRecording(tape.n, <<>>).size ELSE Mark5aRecording(tape.n, <<>>, {}).size
TapeBytes(tape) ==
  LET made == [i \in 1 .. FramesMade * FrameSize(tape) |-> i - 1]
      d == tape.damage
      bytes == CASE d.kind = "none" -> made
                 [] d.kind = "lost" -> Without(made, d)
                 [] d.kind = "noise" -> Spoiled(made, d, Noise)
                 [] d.kind = "ones" -> Spoiled(made, d, Ones)
  IN  SubSeq(bytes, tape.cut + 1, Len(bytes))

Tape(vlba, n, cut, kind, at, len) ==
  [vlba |-> vlba, n |-> n, cut |-> cut, damage |-> [kind |-> kind, at |-> at, n |-> len],
   unset |-> IF ~vlba /\ kind = "noise" THEN {4} ELSE {}]
Sparse(places, n, step) == {at \in places : n > 1 => at % step = 0}

CutTapes == UNION {
  {Tape(vlba, n, cut, "none", 0, 0) : cut \in Sparse(0 .. n * FrameBytes - 1, n, IF n = 8 THEN 5 ELSE 1)} :
  vlba \in BOOLEAN, n \in {1, 2, 8}}
MisreadTapes == UNION {
  {Tape(vlba, n, cut, "ones", at, OnesWords * n) :
     cut \in {0, FrameBytes \div 2}, at \in Sparse(0 .. 2 * n * FrameBytes, n, 4)} :
  vlba \in BOOLEAN, n \in {1, 2}}
BrokenTapes == UNION {
  {Tape(vlba, n, 0, k[1], at, k[2]) :
     at \in Sparse(n * FrameBytes .. 3 * n * FrameBytes - 1, n, 5),
     k \in {<<"lost", 1>>, <<"lost", 2 * n>>, <<"lost", n * FrameBytes>>, <<"noise", 1>>}} :
  vlba \in BOOLEAN, n \in {1, 2}}
Tapes == CutTapes \cup MisreadTapes \cup BrokenTapes

\* When a frame was recorded, the bytes of the block made from it, and whether all are there.
RecordedAt(frame) == (FirstDay * DayFrames + FirstFrame + frame) * FrameTime
BlockAt(tape, frame) ==
  LET start == frame * FrameSize(tape)
      before == IF tape.vlba THEN (AuxWords + OnesWords + TrailWords) * tape.n ELSE 0
  IN  [i \in 1 .. tape.n * FrameBytes |-> start + before + i - 1]
IntactUpTo(tape, frame, byte) ==
  /\ tape.cut <= frame * FrameSize(tape)
  /\ tape.damage.kind = "none" \/ byte < tape.damage.at \/ frame * FrameSize(tape) >= tape.damage.at + tape.damage.n
Intact(tape, frame) == IntactUpTo(tape, frame, (frame + 1) * FrameSize(tape) - 1)

-----------------------------------------------------------------------------
\* Every block of a few words, which may begin with words marked invalid already.
FilledBlocks == (UNION {[1 .. n -> BOOLEAN] : n \in 1 .. BlockWords}) \X (1 .. 3)

\* The stretches of words that are all alike.
StretchesOf(fill, value) ==
  {s \in (1 .. Len(fill)) \X (1 .. Len(fill)) :
     /\ s[1] <= s[2]
     /\ \A i \in s[1] .. s[2] : fill[i] = value
     /\ s[1] > 1 => fill[s[1] - 1] # value
     /\ s[2] < Len(fill) => fill[s[2] + 1] # value}

-----------------------------------------------------------------------------
VARIABLES input, output
vars == <<input, output>>

Nothing == <<>>
Init ==
  /\ input \in ({"date"} \X Dates) \cup ({"curve"} \X Curves) \cup ({"flags"} \X (Lists \X Lists))
       \cup ({"setup"} \X Jobs) \cup ({"recording"} \X Recordings)
       \cup ({"mark5b"} \X DamagedRecordings) \cup ({"fill"} \X FilledBlocks)
       \cup ({"tape"} \X Tapes)
  /\ output = Nothing

Pending(kind) == input[1] = kind /\ output = Nothing
Given == input[2]

ConvertDate ==
  /\ Pending("date")
  /\ LET days == Mjd(Given[3], Given[2], Given[1]) IN output' = <<days, GetDate(days)>>
  /\ UNCHANGED input

ListDelays ==
  /\ Pending("curve")
  /\ output' = DelayChanges(Given, Samples)
  /\ UNCHANGED input

FindFlagged ==
  /\ Pending("flags")
  /\ output' = FindInvalid(Given)
  /\ UNCHANGED input

SetUpChannels ==
  /\ Pending("setup")
  /\ output' = [ch \in Started(Given) |->
       [inputs |-> InputStreams(Given, ch), cross |-> CrossOf(Given, ch),
        streams |-> IF HasCross(Given, ch) THEN StationStreams(Given, ch) ELSE <<>>]]
  /\ UNCHANGED input

FindTracks ==
  /\ Pending("recording")
  /\ output' = InputChannels(RecordingOf(Given[1], Given[2], Given[3], Given[4], Given[5]), "A")
  /\ UNCHANGED input

\* Where goto_time ends: whether with a block, and of what time.
Position(block) == [ok |-> block.ok, time |-> block.time]

ReadMark5b ==
  /\ Pending("mark5b")
  /\ output' = [blocks |-> ReadAll(Given),
                found |-> [time \in BlockTimes |->
                  [seekable \in BOOLEAN |->
                     Position(GotoTime(Given, seekable, time, ReadNewBlock(Given, NotRead)))]]]
  /\ UNCHANGED input

\* The blocks of a tape and where goto_time ends, with 64 tracks only the opening.
FoundOnTape(Goto(_, _)) ==
  [time \in {RecordedAt(frame) : frame \in 1 .. FramesMade - 1} |->
     [seekable \in BOOLEAN |-> Position(Goto(seekable, time))]]
ReadMark5a ==
  /\ Pending("tape") /\ ~Given.vlba
  /\ LET rec == Mark5aRecording(Given.n, TapeBytes(Given), Given.unset)
         opened == OpenMark5a(rec)
         Goto(seekable, time) == GotoMark5a(rec, seekable, time, opened)
         read == opened.ok /\ Given.n <= 2
     IN  output' = [opened |-> opened,
                    blocks |-> IF read THEN ReadMark5aBlocks(rec, opened) ELSE <<>>,
                    found |-> IF read THEN FoundOnTape(Goto) ELSE <<>>]
  /\ UNCHANGED input

ReadVlba ==
  /\ Pending("tape") /\ Given.vlba
  /\ LET rec == VlbaRecording(Given.n, TapeBytes(Given))
         opened == OpenVlba(rec)
         Goto(seekable, time) == GotoVlba(rec, seekable, time, opened)
         read == opened.ok /\ Given.n <= 2
     IN  output' = [opened |-> opened,
                    blocks |-> IF read THEN ReadVlbaBlocks(rec, opened) ELSE <<>>,
                    found |-> IF read THEN FoundOnTape(Goto) ELSE <<>>]
  /\ UNCHANGED input

MarkFill ==
  /\ Pending("fill")
  /\ output' = [stretches |-> FindFill(Given[1], Given[2])]
  /\ UNCHANGED input

Next ==
  \/ ConvertDate \/ ListDelays \/ FindFlagged \/ SetUpChannels \/ FindTracks
  \/ ReadMark5b \/ ReadMark5a \/ ReadVlba \/ MarkFill
Spec == Init /\ [][Next]_vars

Result(kind) == input[1] = kind /\ output # Nothing

-----------------------------------------------------------------------------
\* mjd numbers the days without gap or overlap from 1 January 1901 on, agrees
\* with the way initialise_scan counts from the day of the year, and get_date
\* gives the date back, except on the last day of a leap year.
DatesRight ==
  Result("date") =>
    LET y == Given[1]
        doy == DayOfYear[Given[2], y] + Given[3] - 1
    IN  /\ output[1] = Mjd1901 + 365 * (y - 1901) + LeapYearsBefore(y) + doy - 1
        /\ output[1] = Mjd(1, 1, y) + doy - 1
        /\ doy # 366 => output[2] = <<y, doy>>

\* The delay the list gives for a time.
Listed(t) ==
  output[CHOOSE i \in DOMAIN output :
           output[i][1] <= t /\ (i < Len(output) => output[i + 1][1] > t)][2]

\* The delay turns here and is back one sample later.
Turns(t) ==
  /\ Delay(Given, t - 1) = Delay(Given, t + 1)
  /\ Delay(Given, t) # Delay(Given, t + 1)

\* The times of the list increase, and from one entry to the next the delay
\* changes by one sample, the only step write_delay and Bit2float_worker can
\* make; the list gives the delay of every sample, except in a turn of the delay
\* of one sample.
DelaysListed ==
  Result("curve") =>
    /\ \A i \in 1 .. Len(output) - 1 :
         /\ output[i][1] < output[i + 1][1]
         /\ output[i + 1][2] - output[i][2] \in {-1, 1}
    /\ \A t \in 0 .. Samples : Listed(t) = Delay(Given, t) \/ Turns(t)

SamplesOf(list) == UNION {list[k][1] .. list[k][1] + list[k][2] - 1 : k \in DOMAIN list}

\* Each stream has the number of samples flagged by the other alone, so that the
\* weight of the baseline counts the samples good in both.
FlaggedByOther ==
  Result("flags") => \A i \in Streams :
    output[i] = Cardinality(SamplesOf(Given[Other(i)]) \ SamplesOf(Given[i]))

\* The slices of one piece of time are as many as the parameters of each of them
\* say (slice_offset, by which the output is ordered), and every channel is in
\* exactly one of them, alone or with its other polarisation.
EachChannelOnce ==
  /\ Cardinality(DOMAIN output) = NumberCores(Given)
  /\ \A ch \in Channels(Given) :
       Cardinality({main \in DOMAIN output : ch \in {main, output[main].cross}}) = 1

\* What a data writer of a station has been set up for.
WrittenBy(in) == InputChannels(Given, in.station)[in.writer + 1].name

\* A writer of the second stream of a node sends to the second set of readers of
\* the correlator node (ConnectTo of Connect).
Reader(in) == InputOf(Given, in.station) + in.stream * Len(Given.stations)

\* Stations with a thread for each channel number the writers otherwise.
Numbered(station) ==
  \/ ~ThreadPerChannel(Given.vex[station])
  \/ \A ch \in Channels(Given) : Given.names[station][ch] # None

\* The correlator node takes each channel of a slice from the stream on which the
\* input node has been told to send it, with its polarisation, and takes no
\* stream on which nothing is sent.
TakenAsSent(slice) ==
  /\ {<<in.station, Reader(in)>> : in \in slice.inputs}
       = {<<s.station, s.stream>> : s \in Range(slice.streams)}
  /\ Cardinality(slice.inputs) = Len(slice.streams)
  /\ \A in \in slice.inputs, s \in Range(slice.streams) :
       Numbered(in.station) /\ in.station = s.station /\ Reader(in) = s.stream
         => s.channel = WrittenBy(in)

\* What the manager counts and hands out for a piece of time, and on which streams, is
\* what the control parameters say of each slice.
StreamsAgree ==
  Result("setup") =>
    /\ EachChannelOnce
    /\ \A ch \in DOMAIN output : HasCross(Given, ch) => TakenAsSent(output[ch])

\* The same recording in another form.
Otherwise(form) ==
  InputChannels(RecordingOf(form, Given[2], Given[3], Given[4], Given[5]), "A")

\* The bits of a word are shared out: no bit goes to two samples and, if all
\* channels are correlated, none is left; the channels have equally many samples,
\* so that the rate is that of the station; and the three descriptions of a
\* Mark5B recording give the same bits.
BitsOfChannels ==
  Result("recording") =>
    LET form == Given[1]
        bits == FlattenSeq([i \in DOMAIN output |-> output[i].tracks])
    IN  /\ IsInjective(bits)
        /\ Given[5] => Range(bits) = 0 .. Len(bits) - 1
        /\ \A i, j \in DOMAIN output : Len(output[i].tracks) = Len(output[j].tracks)
        /\ SampleRate(output, 32) = 32
        /\ form[1] \in {"streams", "tracks"} => output = Otherwise(<<"standard", 0, 0, "DBBC">>)

\* The header of a block is that of one frame, without damage.
FrameOf(block) == block.current[1] \div Period
WholeHeader(block) == \A i \in 1 .. HeaderWords - 1 : block.current[i + 1] = block.current[i] + 1

\* The time of a block is to be trusted: that of a whole header, from the number of its frame
\* or, once a number has led out of its second, from the digits, if there are any, of a
\* frame with which blocks begin.
Trusted(block) ==
  /\ WholeHeader(block)
  /\ block.valid \/ (Given.recorder # "NO_DIGITS" /\ FrameOf(block) % BlockFrames = 0)
NumbersTrusted(blocks) == \A i \in DOMAIN blocks : WholeHeader(blocks[i]) => Trusted(blocks[i])

\* The blocks read from a damaged Mark5B recording have the time of their frame, come in
\* the order of time, begin with a frame with which blocks begin, and have the words of
\* their time as far as the recording is whole; only the damage itself and two blocks after
\* it are lost.  This is so of the blocks whose header is whole: a spoiled number is not
\* seen, and moves its own block.  A recorder without digits loses the first block of
\* every second.
BlocksRead(blocks) ==
  LET trusted == SelectSeq(blocks, Trusted) IN
  /\ \A i \in DOMAIN trusted :
       LET time == trusted[i].time
           words == WordsOf(time)
       IN  /\ time = FrameOf(trusted[i]) /\ time \in BlockTimes
           /\ i > 1 => trusted[i - 1].time < time
           /\ \A j \in DOMAIN trusted[i].words :
                trusted[i].words[j] = words[j] \/ ~Together(Given.words, time * Period, words[j])
  /\ NumbersTrusted(blocks) =>
       \A time \in BlockTimes :
         Undamaged(Given.words, time - 2 * BlockFrames, 3) /\ (Given.recorder = "NO_DIGITS" => time % SecondFrames # 0)
           => \E i \in DOMAIN trusted : trusted[i].time = time

\* goto_time stops at the time it is asked for.  In a damaged recording, if it ends with
\* a block it has read, it stops no earlier; and if words are lost in one place, it
\* passes over at most one of the blocks that reading finds.
TimeFound(blocks, time, seekable) ==
  LET found == output.found[time][seekable]
      passed == {i \in DOMAIN blocks : time <= blocks[i].time /\ blocks[i].time < found.time}
  IN  /\ Given.words = AllWords /\ Given.recorder # "NO_DIGITS" => found.time = time
      /\ found.ok => time <= found.time
      /\ ~seekable => passed = {}
      /\ Cardinality(Breaks(Given.words)) <= 1 => Cardinality(passed) <= 1

\* A Mark5B recording is read and sought through damage without moving what is whole.
Mark5bInPlace ==
  Result("mark5b") =>
    LET blocks == output.blocks IN
    /\ BlocksRead(blocks)
    /\ (\A i \in DOMAIN blocks : Trusted(blocks[i])) =>
         \A time \in BlockTimes, seekable \in BOOLEAN : TimeFound(blocks, time, seekable)

\* A block has the time at which its frame was recorded, also after midnight and in the
\* new year: its bytes are those of the frame as far as they are there.
InTime(block) ==
  \E frame \in 0 .. FramesMade - 1 :
    LET bytes == BlockAt(Given, frame) IN
    /\ block.time = RecordedAt(frame)
    /\ Given.vlba \/ block.words[1] = bytes[1]
    /\ \A i \in DOMAIN bytes : IntactUpTo(Given, frame, bytes[i]) => block.words[i] = bytes[i]

\* The first frame that is whole is found, wherever in a frame a Mark5A or VLBA recording
\* begins and whatever looks like a header in front; with 64 tracks of Mark5A, where a header
\* may be longer than what is left of the buffer in which it is found, one frame may be lost.
FirstFound(opened) ==
  LET first == Min({f \in 0 .. FramesMade - 1 : Intact(Given, f)})
      last == IF ~Given.vlba /\ Given.n = 8 THEN first + 1 ELSE first
  IN  opened.ok /\ InTime(opened) /\ opened.time <= RecordedAt(last)

\* goto_time stops at the time it is asked for, in a VLBA file at the frame before if that
\* is where it is; in a damaged recording it passes over at most one block.
TimeOfTape(blocks, time, seekable) ==
  LET found == output.found[time][seekable]
      least == IF Given.vlba /\ seekable THEN time - FrameTime ELSE time
      passed == {i \in DOMAIN blocks : time <= blocks[i].time /\ blocks[i].time < found.time}
  IN  /\ Given.damage.kind = "none" => found.time \in {least, time}
      /\ found.ok => least <= found.time
      /\ ~seekable => passed = {}
      /\ Cardinality(passed) <= 1

\* A damaged Mark5A or VLBA recording is opened, read and sought without moving what is
\* whole in time; only damaged frames and the one that follows are lost.  At the end of a
\* VLBA recording there is one block more, with the time of the last frame: do_task drops
\* it as one of the past.
TapesInPlace ==
  Result("tape") =>
    LET blocks == output.blocks IN
    /\ FirstFound(output.opened)
    /\ \A i \in DOMAIN blocks :
         \/ InTime(blocks[i]) /\ (i > 1 => blocks[i - 1].time < blocks[i].time)
         \/ Given.vlba /\ i = Len(blocks) /\ blocks[i].pos = Ended /\ blocks[i].time = blocks[i - 1].time
    /\ blocks # <<>> =>
         /\ \A frame \in 1 .. FramesMade - 1 :
              Intact(Given, frame - 1) /\ Intact(Given, frame) /\ frame \notin Given.unset =>
                \E i \in DOMAIN blocks : blocks[i].time = RecordedAt(frame)
         /\ \A time \in DOMAIN output.found, seekable \in BOOLEAN : TimeOfTape(blocks, time, seekable)

\* What is marked as fill begins and ends with a stretch of fill; every stretch that
\* is as long as a lost packet is marked, and the data that are marked with it
\* are always less than that.
FillMarked ==
  Result("fill") =>
    LET fill == Given[1]
        marked == {i \in DOMAIN fill : \E k \in DOMAIN output.stretches :
                     output.stretches[k].first <= i /\ i <= output.stretches[k].last}
        looked == Given[2] .. Len(fill)
    IN  /\ \A k \in DOMAIN output.stretches :
             LET s == output.stretches[k] IN
             /\ s.first = Given[2] \/ ~fill[s.first - 1]
             /\ s.last = Len(fill) \/ ~fill[s.last + 1]
             /\ fill[s.first] /\ fill[s.last]
        /\ \A s \in StretchesOf(fill, TRUE) :
             Cardinality((s[1] .. s[2]) \cap looked) >= FillWords
               => (s[1] .. s[2]) \cap looked \subseteq marked
        /\ \A s \in StretchesOf(fill, FALSE) :
             s[2] - s[1] + 1 >= FillWords => (s[1] .. s[2]) \cap marked = {}
=============================================================================
