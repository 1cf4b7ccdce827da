----------------------------- MODULE DelayTable -----------------------------
(***************************************************************************)
(* The delay table of one station at a correlator node: at the start of    *)
(* every scan the manager reads the delays of the scan from the delay file *)
(* of the station and sends them, the node appends them to what it has,    *)
(* and takes a spline from it when it starts on a slice.  The node has a   *)
(* queue of slices: tables may come in while it is still at an earlier     *)
(* scan.                                                                   *)
(*                                                                         *)
(* Times are in units of 1 / Second seconds and count from the start of    *)
(* the job.                                                                *)
(***************************************************************************)
EXTENDS Integers, SequencesExt

CONSTANTS
  Second,       \* units of time in a second
  Observed,     \* the scans: a sequence of records [begin, end, sources, clock]
                \*   sources are the phase centres, the pointing centre first,
                \*   clock a pair <<start, offset>>
  SliceLength,  \* the integration time
  QueueLength   \* slices a node can have, the present one included

-----------------------------------------------------------------------------
\* Delay_table::open: reading the scans of one time range and source from the delay
\* file of a station.  The file is a sequence of blocks [source, begin, end], one for
\* each source (phase centre) of each scan of the station, with a line for every
\* second from the start of the scan to its end.  What a line says is
\* <<start of the block, source, time>>.

\* A line for each second of a range.
Lines(from, to) == [k \in 1 .. (to - from) \div Second + 1 |-> from + (k - 1) * Second]

\* The part of a Delay_table that open reads.  The fields times and delays of a
\* scan are numbers of elements before its own in the arrays, and its source an
\* index that counts from zero.
NothingRead ==
  [scans |-> <<>>, sources |-> <<>>, times |-> <<>>, delays |-> <<>>,
   done |-> FALSE, failed |-> FALSE]

\* Mutant: a single point is kept as a scan.
OnePoint(times) == FALSE

\* The last point of the scan before the one asked for is not a scan.
LonePoint(times) == Len(times) = 1

\* START_NEW_SCAN and READ_PHASE_CENTER: the lines of a block from some time on.
\* A further phase centre of a scan has the times of the first one.
ReadFrom(t, block, time) ==
  LET sources == IF Contains(t.sources, block.source) THEN t.sources
                                                      ELSE Append(t.sources, block.source)
      times == IF t.scans # <<>> /\ Last(t.scans).begin = time
               THEN SubSeq(t.times, 1, Last(t.scans).times) ELSE t.times
      lines == Lines(time, block.end)
      allTimes == times \o [k \in DOMAIN lines |-> lines[k] - time]
      scan == [begin |-> time, end |-> block.end,
               source |-> SelectInSeq(sources, LAMBDA s : s = block.source) - 1,
               times |-> Len(times), delays |-> Len(t.delays)]
  IN  [t EXCEPT !.sources = sources,
                !.scans = IF LonePoint(allTimes) THEN <<>> ELSE Append(@, scan),
                !.times = IF LonePoint(allTimes) THEN <<>> ELSE allTimes,
                !.delays = @ \o [k \in DOMAIN lines |-> <<block.begin, block.source, lines[k]>>],
                !.failed = ~LonePoint(allTimes) /\ block.end <= time]

\* READ_SCAN_HEADER, with SKIP_SCAN for a block of another source and FIND_TSTART
\* for one that starts too early.
ReadBlock(t, block, tstart, tstop, source) ==
  IF t.done \/ t.failed \/ source # block.source THEN t
  ELSE IF block.begin < tstart
       THEN IF block.end < tstart THEN t ELSE ReadFrom(t, block, tstart)
  ELSE IF block.begin >= tstop THEN [t EXCEPT !.done = TRUE]
  ELSE ReadFrom(t, block, block.begin)

Open(file, tstart, tstop, source) ==
  FoldLeft(LAMBDA t, block : ReadBlock(t, block, tstart, tstop, source), NothingRead, file)

-----------------------------------------------------------------------------
DefaultClock == <<0, 0>>

ASSUME DelayTableAssumption ==
  /\ Second \in Nat \ {0} /\ SliceLength \in Nat \ {0} /\ QueueLength \in Nat
  /\ \A i \in DOMAIN Observed :
       /\ Observed[i].begin % Second = 0 /\ Observed[i].end % Second = 0
       /\ Observed[i].end - Observed[i].begin >= 4 * Second
       /\ Observed[i].sources # <<>>
       /\ DefaultClock[1] < Observed[i].clock[1]
       /\ Observed[i].clock[1] <= Observed[i].begin
  /\ \A i \in 1 .. Len(Observed) - 1 : Observed[i].end <= Observed[i + 1].begin

VARIABLES
  table,      \* Delay_table: scans, points, clocks, scanNr, clockNr, nSources
  received,   \* number of tables received
  given,      \* end of the last slice given to this node
  queue,      \* slices, as <<scan, start>>; the first is the present one
  seeking,    \* the node is in create_akima_spline for the present slice
  spline,     \* Delay_table_akima of the present slice
  aborted     \* the job was ended with "time is not in delay table"

vars == <<table, received, given, queue, seeking, spline, aborted>>

NoSpline == [begin |-> 0, end |-> 0, sources |-> <<>>, points |-> <<>>, clock |-> DefaultClock]
EmptyTable == [scans |-> <<>>, sources |-> <<>>, times |-> <<>>, delays |-> <<>>,
               clocks |-> <<DefaultClock>>, scanNr |-> 1, clockNr |-> 1, nSources |-> 0]

Init ==
  /\ table = EmptyTable
  /\ received = 0 /\ given = 0
  /\ queue = <<>>
  /\ seeking = FALSE /\ spline = NoSpline /\ aborted = FALSE

-----------------------------------------------------------------------------
\* Delay_table::initialise_next_scan; the loops of the code count up to the
\* last source of the scan and down to the last clock that has started.

IsNextScan(t) == t.scanNr + t.nSources <= Len(t.scans)
LongEnough(s) == s.end - s.begin >= 4 * Second

SourcesFrom(t, n) ==
  Cardinality({i \in n .. Len(t.scans) : \A j \in n .. i : t.scans[j].begin = t.scans[n].begin})

ClockAt(t, time) == Max({1} \cup {i \in DOMAIN t.clocks : t.clocks[i][1] <= time})

NextScan(t) ==
  LET n == t.scanNr + t.nSources
  IN  [t EXCEPT !.scanNr = n,
                !.nSources = SourcesFrom(t, n),
                !.clockNr = ClockAt(t, t.scans[n].begin)]

\* The delay file of the station, made from the same schedule as the job.
File ==
  FlattenSeq([i \in DOMAIN Observed |->
    [s \in DOMAIN Observed[i].sources |->
       [source |-> Observed[i].sources[s], begin |-> Observed[i].begin, end |-> Observed[i].end]]])

\* Manager_node::initialise_scan: the time the last whole slice ends, and what is
\* read for the scan: the delays of its first source.
StopTime(i) == Observed[i].end - (Observed[i].end % SliceLength)
TableRead(i) == Open(File, Observed[i].begin, StopTime(i), Observed[i].sources[1])

\* The table as the node unpacks it.
TableFor(i) ==
  LET t == TableRead(i)
  IN  [EmptyTable EXCEPT !.scans = t.scans, !.sources = t.sources, !.times = t.times,
                         !.delays = t.delays, !.clocks = Append(@, Observed[i].clock)]

\* The scans of a table after those of another, with their places in the arrays.
Joined(t, o) ==
  [t EXCEPT
     !.scans = @ \o [i \in DOMAIN o.scans |->
                       [o.scans[i] EXCEPT !.source = @ + Len(t.sources),
                                          !.times = @ + Len(t.times),
                                          !.delays = @ + Len(t.delays)]],
     !.sources = @ \o o.sources, !.times = @ \o o.times, !.delays = @ \o o.delays]

\* Mutant: the places of the delays of the scans are not shifted.
AppendScansAsIs(t, o) ==
  [t EXCEPT !.scans = @ \o [i \in DOMAIN o.scans |->
                              [o.scans[i] EXCEPT !.source = @ + Len(t.sources)]],
            !.sources = @ \o o.sources, !.times = @ \o o.times, !.delays = @ \o o.delays,
            !.clocks = @ \o o.clocks]

\* Delay_table::add_scans.
AppendScans(t, o) == [Joined(t, o) EXCEPT !.clocks = @ \o o.clocks]

\* Messages are processed by an idle node and in the rounds of a slice, not
\* between the arrival of a slice at an idle node and its spline.
Listening == queue = <<>> \/ spline # NoSpline

\* A table comes in: Correlator_node::add_delay_table.  The manager has ended the
\* job if there was nothing to send.
ReceiveTable ==
  /\ Listening /\ ~aborted
  /\ received < Len(Observed)
  /\ received' = received + 1
  /\ IF TableRead(received').failed \/ TableRead(received').scans = <<>>
     THEN aborted' = TRUE /\ UNCHANGED table
     ELSE /\ table' = IF table.scans = <<>> THEN NextScan(TableFor(received'))
                                            ELSE AppendScans(table, TableFor(received'))
          /\ UNCHANGED aborted
  /\ UNCHANGED <<given, queue, seeking, spline>>

\* The manager gives this node some slice of the scan it is at.
ReceiveSlice ==
  /\ Listening /\ ~aborted
  /\ received > 0 /\ Len(queue) < QueueLength
  /\ LET scan == Observed[received]
         starts == {t \in scan.begin .. StopTime(received) - SliceLength :
                      t % SliceLength = 0 /\ t >= given}
     IN  \E t \in starts :
           /\ queue' = Append(queue, <<received, t>>)
           /\ given' = t + SliceLength
  /\ UNCHANGED <<table, received, seeking, spline, aborted>>

\* Correlator_node::set_parameters goes to the first slice of the queue.
SetParameters ==
  /\ queue # <<>> /\ ~seeking /\ spline = NoSpline
  /\ seeking' = TRUE
  /\ UNCHANGED <<table, received, given, queue, spline, aborted>>

Scan == table.scans[table.scanNr]
Start == Head(queue)[2]
Stop == Start + SliceLength

\* create_akima_spline: move to the scan, one call of initialise_next_scan.
\* If it fails the scan number may have been advanced, but the job ends.
MoveToScan ==
  /\ seeking /\ Stop > Scan.end
  /\ IF IsNextScan(table) /\ LongEnough(table.scans[table.scanNr + table.nSources])
     THEN table' = NextScan(table) /\ UNCHANGED <<seeking, aborted>>
     ELSE seeking' = FALSE /\ aborted' = TRUE /\ UNCHANGED table
  /\ UNCHANGED <<received, given, queue, spline>>

Whole(t) == (t \div Second) * Second
WholeUp(t) == Whole(t + Second - 1)

\* A range of points, within the scan and five in all.
Clamped(b0, e0, scan) ==
  LET b1 == IF b0 < scan.begin THEN scan.begin ELSE b0
      e1 == IF b0 < scan.begin /\ e0 - b1 < 4 * Second THEN b1 + 4 * Second ELSE e0
      e2 == IF e1 > scan.end THEN scan.end ELSE e1
      b2 == IF e1 > scan.end /\ e2 - b1 < 4 * Second THEN e2 - 4 * Second ELSE b1
  IN  <<b2, e2>>

\* Two more points on each side of the slice.
Interval == Clamped(Whole(Start) - 2 * Second, WholeUp(Stop) + 2 * Second, Scan)

\* What an array holds at index n; beyond its end it is undefined.
At(array, n) == IF n \in DOMAIN array THEN array[n] ELSE <<>>

\* The points <<time, delay>> of an interval for each source of the scan.
SplinePoints(interval) ==
  LET n == (interval[2] - interval[1]) \div Second + 1
      idx == (interval[1] - Scan.begin) \div Second
      point(scan, k) == <<At(table.times, scan.times + idx + k), At(table.delays, scan.delays + idx + k)>>
  IN  [s \in 1 .. table.nSources |-> [k \in 1 .. n |-> point(table.scans[table.scanNr + s - 1], k)]]
SplineSources ==
  [s \in 1 .. table.nSources |-> table.sources[table.scans[table.scanNr + s - 1].source + 1]]

CreateSpline ==
  /\ seeking /\ Stop <= Scan.end
  /\ spline' = [begin |-> Interval[1], end |-> Interval[2], sources |-> SplineSources,
                points |-> SplinePoints(Interval), clock |-> table.clocks[table.clockNr]]
  /\ seeking' = FALSE
  /\ UNCHANGED <<table, received, given, queue, aborted>>

\* The slice has been correlated.
Finish ==
  /\ spline # NoSpline
  /\ queue' = Tail(queue)
  /\ spline' = NoSpline
  /\ UNCHANGED <<table, received, given, seeking, aborted>>

Next ==
  \/ ReceiveTable \/ ReceiveSlice
  \/ SetParameters \/ MoveToScan \/ CreateSpline \/ Finish
  \/ (queue = <<>> \/ aborted) /\ UNCHANGED vars

Spec == Init /\ [][Next]_vars

-----------------------------------------------------------------------------
Slice == Observed[Head(queue)[1]]

\* Whatever tables have come in before and after, a slice gets the delays of
\* its own scan and source, each at its time, at the points of an interval that has
\* the whole slice in it and the five points the spline needs.  The manager finds every
\* scan in the delay file, no scan is lost by a node, and a slice is never beyond
\* the tables: the job is not ended.
DelaysOfScan ==
  /\ ~aborted
  /\ spline # NoSpline =>
    /\ spline.begin <= Start /\ Stop <= spline.end
    /\ spline.end - spline.begin >= 4 * Second
    /\ spline.sources = SubSeq(Slice.sources, 1, Len(spline.sources))
    /\ \A s \in DOMAIN spline.sources :
         LET lines == Lines(spline.begin, spline.end) IN
           spline.points[s] =
             [k \in DOMAIN lines |-> <<lines[k] - Slice.begin,
                                      <<Slice.begin, spline.sources[s], lines[k]>>>>]
=============================================================================
