------------------------------- MODULE Tracks -------------------------------
(***************************************************************************)
(* Where the bits of a channel are in a recorded word: get_input_node_     *)
(* parameters for the four ways in which a VEX file describes a recording. *)
(* Further sections of a station:                                          *)
(*   transport, rack   of its DAS                                          *)
(*   tracks            fanout_def: [name, bit, headstack, tracks]          *)
(*   frame             track_frame_format                                  *)
(*   streams           stream_def: [name, bit, nr], or no section          *)
(*   threads           thread:     [id, bits]                              *)
(*   chans             channel of THREADS: [name, thread, index]           *)
(***************************************************************************)
EXTENDS ChannelSetup

\* data_format
DataFormat(v) ==
  CASE v.transport = "Mark5A" -> IF v.rack = "VLBA4" THEN "Mark4" ELSE v.rack
    [] v.transport = "Mark5B" /\ v.rack \in {"DVP", "RDBE2", "WIDAR"} -> "VDIF"
    [] v.transport = "Mark5C" /\ v.rack \in {"DBBC", "DVP", "RDBE2", "WIDAR"} -> "VDIF"
    [] v.transport = "None" /\ v.rack = "DBBC" -> "VDIF"
    [] OTHER -> v.transport

AnyMagnitude(defs) == \E d \in Range(defs) : d.bit = "mag"
BitsPerSample(v) ==
  IF DataFormat(v) = "VDIF" THEN v.threads[1].bits
  ELSE IF DataFormat(v) = "Mark5B" /\ v.streams # <<>>
       THEN IF AnyMagnitude(v.streams) THEN 2 ELSE 1
       ELSE IF AnyMagnitude(v.tracks) THEN 2 ELSE 1

\* What all the ways have in common; side, polarisation and frequency are those of
\* the channel of the job at the setup station.
ChannelParameters(job, ch, station, bits, tracks) ==
  [name |-> job.names[station][ch], bits |-> bits, tracks |-> tracks,
   side |-> Sideband(Setup(job), Name(job, ch)),
   pol |-> Polarisation(Setup(job), Name(job, ch)),
   frequency |-> FrequencyNumber(job, ch)]

\* The channels of the job that the station has.
Present(job, station) ==
  SelectSeq([i \in 1 .. Len(job.channels) |-> i - 1],
            LAMBDA ch : job.names[station][ch] # None)

-----------------------------------------------------------------------------
\* Mark4 and VLBA: a bit of a word for each track that is recorded, in the order of
\* headstack and track number.
TrackIndex(def, track) == 32 * (def.headstack - 1) + track - 2
Recorded(v) == UNION {{TrackIndex(d, t) : t \in Range(d.tracks)} : d \in Range(v.tracks)}

BitPosition(v, track) == Cardinality({t \in Recorded(v) : t < track})

TracksOf(v, name, bit) ==
  LET defs == SelectSeq(v.tracks, LAMBDA d : d.name = name /\ (d.bit = "sign") = (bit = "sign"))
  IN  FlattenSeq([i \in DOMAIN defs |->
        [j \in DOMAIN defs[i].tracks |-> BitPosition(v, TrackIndex(defs[i], defs[i].tracks[j]))]])

\* The bits of the samples of a word in the order of time, sign before magnitude.
Mark5ATracks(v, name) ==
  LET sign == TracksOf(v, name, "sign")
      mag == TracksOf(v, name, "mag")
  IN  IF mag = <<>> THEN sign
      ELSE FlattenSeq([i \in DOMAIN sign |-> <<sign[i], mag[i]>>])

Mark5AChannels(job, station) ==
  [i \in DOMAIN Present(job, station) |->
     LET ch == Present(job, station)[i]
         tracks == Mark5ATracks(job.vex[station], job.names[station][ch])
         two == TracksOf(job.vex[station], job.names[station][ch], "mag") # <<>>
     IN  ChannelParameters(job, ch, station, IF two THEN 2 ELSE 1, tracks)]

-----------------------------------------------------------------------------
\* Mark5B: a word holds as many samples of all bit streams as there is room for.
WordSize(n) == IF n <= 32 THEN 32 ELSE 64
Repeated(n, bits) ==
  FlattenSeq([i \in 1 .. WordSize(n) \div n |-> [b \in DOMAIN bits |-> bits[b] + (i - 1) * n]])

\* The streams of sign and, if there is one, magnitude of a channel: the last of
\* each, where nr has the number of each definition.
SignAndMagnitude(defs, nr, name) ==
  LET last(sign) == SelectLastInSeq(defs, LAMBDA d : d.name = name /\ (d.bit = "sign") = sign)
  IN  <<nr[last(TRUE)]>> \o IF last(FALSE) = 0 THEN <<>> ELSE <<nr[last(FALSE)]>>

StreamChannels(job, station, defs, nr) ==
  [i \in DOMAIN Present(job, station) |->
     LET ch == Present(job, station)[i]
         bits == SignAndMagnitude(defs, nr, job.names[station][ch])
     IN  ChannelParameters(job, ch, station, Len(bits), Repeated(Len(defs), bits))]

BitstreamChannels(job, station) ==
  LET defs == job.vex[station].streams
  IN  StreamChannels(job, station, defs, [k \in DOMAIN defs |-> defs[k].nr])
TrackChannels(job, station) ==
  LET defs == job.vex[station].tracks
  IN  StreamChannels(job, station, defs, [k \in DOMAIN defs |-> defs[k].tracks[1] - 2])

\* The standard mapping: the upper sidebands in the order of the BBC numbers, then
\* the lower ones.
BbcNumber(v, def) == v.bbc[SelectLastInSeq(v.bbc, LAMBDA a : a.label = def.bbc)].nr

\* Mutant: the channels in the order of the BBC numbers.
BeforeByBbc(v, i, j) ==
  LET nr(k) == BbcNumber(v, v.freq[k])
  IN  nr(i) < nr(j) \/ (nr(i) = nr(j) /\ i < j)

Before(v, i, j) ==
  LET lower(k) == IF v.freq[k].side = "L" THEN 1 ELSE 0
      nr(k) == BbcNumber(v, v.freq[k])
  IN  \/ lower(i) < lower(j)
      \/ lower(i) = lower(j) /\ (nr(i) < nr(j) \/ (nr(i) = nr(j) /\ i < j))

SubbandToTrack(v, name) ==
  Cardinality({i \in DOMAIN v.freq : Before(v, i, LastDef(v, name))})

\* The words are always of 32 bits here.
StandardChannels(job, station) ==
  LET v == job.vex[station]
      bits == BitsPerSample(v)
      n == Len(v.freq) * bits
      first(ch) == SubbandToTrack(v, job.names[station][ch]) * bits
      word(f) == (31 - f + n) \div n
  IN  [i \in DOMAIN Present(job, station) |->
         LET ch == Present(job, station)[i]
         IN  ChannelParameters(job, ch, station, bits,
               FlattenSeq([k \in 1 .. word(first(ch)) |->
                 [b \in 1 .. bits |-> first(ch) + (k - 1) * n + b - 1]]))]

Mark5BChannels(job, station) ==
  LET v == job.vex[station] IN
  CASE v.streams # <<>> -> BitstreamChannels(job, station)
    [] v.streams = <<>> /\ v.tracks # <<>> /\ v.frame = "Mark5B" -> TrackChannels(job, station)
    [] OTHER -> StandardChannels(job, station)

-----------------------------------------------------------------------------
\* VDIF: a thread for each channel, where a channel that the station lacks has its
\* place too, with thread -1 ...
ThreadPerChannel(v) == Len(v.threads) = Len(v.chans)
ThreadOf(v, name) ==
  LET k == SelectLastInSeq(v.chans, LAMBDA c : c.name = name)
  IN  IF k = 0 THEN -1 ELSE v.chans[k].thread
ThreadChannels(job, station) ==
  LET v == job.vex[station]
  IN  [i \in 1 .. Len(job.channels) |->
         ChannelParameters(job, i - 1, station, BitsPerSample(v),
           <<ThreadOf(v, job.names[station][i - 1]), -1>>)]

\* ... or all channels in the words of one thread, the magnitude first.
PackedTracks(v, name) ==
  LET bits == BitsPerSample(v)
      n == Len(v.chans) * bits
      copies == (IF n <= 32 THEN 32 ELSE n) \div n
      of == SelectSeq(v.chans, LAMBDA c : c.name = name)
  IN  FlattenSeq([i \in 1 .. copies |-> FlattenSeq([c \in DOMAIN of |->
        [b \in 1 .. bits |-> of[c].index * bits + bits - b + (i - 1) * n]])])
PackedChannels(job, station) ==
  LET v == job.vex[station]
  IN  [i \in DOMAIN Present(job, station) |->
         LET ch == Present(job, station)[i]
         IN  ChannelParameters(job, ch, station, BitsPerSample(v),
               PackedTracks(v, job.names[station][ch]))]

VdifChannels(job, station) ==
  IF ThreadPerChannel(job.vex[station])
  THEN ThreadChannels(job, station) ELSE PackedChannels(job, station)

-----------------------------------------------------------------------------
\* get_input_node_parameters
InputChannels(job, station) ==
  CASE DataFormat(job.vex[station]) = "VDIF" -> VdifChannels(job, station)
    [] DataFormat(job.vex[station]) \in {"Mark4", "VLBA"} -> Mark5AChannels(job, station)
    [] DataFormat(job.vex[station]) = "Mark5B" -> Mark5BChannels(job, station)

\* Input_node_parameters: samples of a channel in a word, and its sample rate, from
\* the rate of a track.
Subsamples(channels) == Len(channels[1].tracks) \div channels[1].bits
TrackBitRate(channels, rate) == rate \div Subsamples(channels)
SampleRate(channels, rate) == TrackBitRate(channels, rate) * Subsamples(channels)
=============================================================================
