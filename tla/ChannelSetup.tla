---------------------------- MODULE ChannelSetup ----------------------------
(***************************************************************************)
(* Which recorded channel of each station belongs to a channel of the job, *)
(* which channels are correlated together, and how the streams between the *)
(* nodes are numbered: by the manager when it sends the slices to the      *)
(* input nodes, and in the parameters that it sends to a correlator node.  *)
(*                                                                         *)
(* A job is a record                                                       *)
(*   channels   the names of the channels to correlate, from 0 in the code *)
(*   stations   the stations of the job, in the order of the control file  *)
(*   setup      the setup station                                          *)
(*   scan       the stations of the scan                                   *)
(*   cross      cross_polarize of the control file                         *)
(*   vex        for each station its sections of the mode (one mode):      *)
(*     freq     chan_def:   [freq, side, bw, name, bbc]                    *)
(*     bbc      BBC_assign: [label, nr, if]                                *)
(*     if       if_def:     [name, pol]                                    *)
(*   names      for each station the names of its channels (Named)         *)
(***************************************************************************)
EXTENDS Integers, SequencesExt

None == <<>>          \* no name, the empty string
NoFrequency == -1
Blank == " "          \* no polarisation
Setup(job) == job.vex[job.setup]
Channels(job) == 0 .. Len(job.channels) - 1
Name(job, ch) == job.channels[ch + 1]

-----------------------------------------------------------------------------
\* The channel of a station by its name: the loops that return take the first
\* one, those that assign the last one.
FirstDef(v, name) == SelectInSeq(v.freq, LAMBDA d : d.name = name)
LastDef(v, name) == SelectLastInSeq(v.freq, LAMBDA d : d.name = name)

\* From the channel to its BBC, to its IF, to the polarisation.
Polarisation(v, name) ==
  LET d == LastDef(v, name)
      b == SelectLastInSeq(v.bbc, LAMBDA a : d # 0 /\ a.label = v.freq[d].bbc)
      i == SelectInSeq(v.if, LAMBDA a : b # 0 /\ a.name = v.bbc[b].if)
  IN  IF i = 0 THEN Blank ELSE v.if[i].pol

Sideband(v, name) == LET d == LastDef(v, name) IN IF d = 0 THEN "x" ELSE v.freq[d].side
Frequency(v, name) == LET d == FirstDef(v, name) IN IF d = 0 THEN NoFrequency ELSE v.freq[d].freq
Bandwidth(v, name) == v.freq[FirstDef(v, name)].bw

\* The frequencies of a channel.
Band(freq, bw, side) == IF side = "L" THEN <<freq - bw, freq>> ELSE <<freq, freq + bw>>
Within(a, b) == b[1] <= a[1] /\ a[2] <= b[2]

\* The recorded channel of a station for a channel of the job: the first one of
\* the same polarisation that contains it or is contained in it.
FrequencyChannel(job, ch, station) ==
  LET own == Name(job, ch)
      s == Setup(job)
      v == job.vex[station]
      pol == Polarisation(s, own)
      band == Band(Frequency(s, own), Bandwidth(s, own), Sideband(s, own))
      d == SelectInSeq(v.freq, LAMBDA c :
             LET other == Band(c.freq, c.bw, c.side)
             IN  /\ Within(band, other) \/ Within(other, band)
                 /\ pol = Polarisation(v, c.name))
  IN  IF pol = Blank \/ d = 0 THEN None ELSE v.freq[d].name

\* The answers of frequency_channel, which all that follows asks for.
Named(job) ==
  [names |-> [s \in DOMAIN job.vex |-> [ch \in Channels(job) |-> FrequencyChannel(job, ch, s)]]]
    @@ job

\* The place of the frequency among the different ones of the setup station.
FrequencyNumber(job, ch) ==
  Cardinality({f \in {d.freq : d \in Range(Setup(job).freq)} :
                 f < Frequency(Setup(job), Name(job, ch))})

-----------------------------------------------------------------------------
\* The first other channel of the same frequency and sideband with another
\* polarisation, -1 if there is none.
CrossChannel(job, ch) ==
  LET s == Setup(job)
      n == Name(job, ch)
      i == SelectInSeq(job.channels, LAMBDA other :
             /\ other # n
             /\ Frequency(s, n) = Frequency(s, other)
             /\ Sideband(s, n) = Sideband(s, other)
             /\ Polarisation(s, n) # Polarisation(s, other))
  IN  IF Frequency(s, n) = NoFrequency \/ Polarisation(s, n) = Blank THEN -1 ELSE i - 1

CrossPolarize(job) == job.cross /\ \E ch \in Channels(job) : CrossChannel(job, ch) # -1

\* The number of slices of the output for each slice of time.
NumberCores(job) ==
  IF CrossPolarize(job)
  THEN Cardinality({ch \in Channels(job) :
                      CrossChannel(job, ch) = -1 \/ CrossChannel(job, ch) > ch})
  ELSE Len(job.channels)

-----------------------------------------------------------------------------
\* The manager: the channels with which it starts a slice.
Started(job) ==
  {ch \in Channels(job) :
     \/ ch = 0
     \/ ~CrossPolarize(job)
     \/ ~(CrossChannel(job, ch) >= 0 /\ CrossChannel(job, ch) < ch)}

\* The channel that is correlated together with ch.
CrossOf(job, ch) == IF CrossPolarize(job) THEN CrossChannel(job, ch) ELSE -1

\* ch_number_in_scan: the channels that a station has are numbered.
NumberInScan(job, ch, station) ==
  LET in(c) == station \in Range(job.scan) /\ job.names[station][c] # None
  IN  IF in(ch) THEN Cardinality({c \in 0 .. ch - 1 : in(c)}) ELSE -1

\* What the input nodes are told for a slice: the data writer that writes it and
\* the stream, 0 or 1 of those to the correlator node.
InputStreams(job, ch) ==
  LET cross == CrossOf(job, ch)
      has(c, station) == c # -1 /\ NumberInScan(job, c, station) >= 0
      told(station, c, stream) ==
        [station |-> station, writer |-> NumberInScan(job, c, station), stream |-> stream]
      stations == Range(job.stations)
  IN  {told(s, ch, 0) : s \in {t \in stations : has(ch, t)}}
        \cup {told(s, cross, IF has(ch, s) THEN 1 ELSE 0) : s \in {t \in stations : has(cross, t)}}

-----------------------------------------------------------------------------
\* get_correlation_parameters asks for the cross channel whenever there is one in
\* the job: the assertion in frequency_channel.
HasCross(job, ch) == CrossPolarize(job) => CrossChannel(job, ch) # -1

\* The stations of the scan, in its order, that have a channel.
StationsWith(job, ch) ==
  SelectSeq(job.scan, LAMBDA s :
    s \in Range(job.stations) /\ job.names[s][ch] # None)

\* The input stream of a station at a correlator node, as get_input_node_map has it.
InputOf(job, station) == SelectInSeq(job.stations, LAMBDA s : s = station) - 1

StationStream(job, ch, stream, station) ==
  [station |-> station, stream |-> stream, channel |-> job.names[station][ch],
   pol |-> Polarisation(job.vex[station], job.names[station][ch]),
   side |-> Sideband(job.vex[station], job.names[station][ch])]

\* Mutant: a second channel always comes on the second stream.
SecondStreamAlways(job, ch, station) == InputOf(job, station) + Len(job.stations)

\* The stream of the cross channel, the second one if the station has the first.
SecondStream(job, ch, station) ==
  IF station \in Range(StationsWith(job, ch))
  THEN InputOf(job, station) + Len(job.stations)
  ELSE InputOf(job, station)

\* station_streams of the parameters of a slice.
StationStreams(job, ch) ==
  LET first == StationsWith(job, ch)
      cross == CrossChannel(job, ch)
      second == IF CrossPolarize(job) THEN StationsWith(job, cross) ELSE <<>>
  IN  [i \in DOMAIN first |-> StationStream(job, ch, InputOf(job, first[i]), first[i])]
        \o [i \in DOMAIN second |->
              StationStream(job, cross, SecondStream(job, ch, second[i]), second[i])]
=============================================================================
