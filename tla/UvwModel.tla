------------------------------ MODULE UvwModel ------------------------------
(***************************************************************************)
(* The UVW model of a station at a correlator node, beside its delay       *)
(* table: the manager reads it from the same delay file (the blocks of     *)
(* Uvw_model::open are those of Delay_table::open) and sends it after the  *)
(* delay table, the node appends it and interpolates the coordinates of a  *)
(* slice at the middle of the slice.  Unlike the spline of the delays, the *)
(* one of the coordinates is kept from slice to slice and made anew only   *)
(* when the time has run past its second.                                  *)
(***************************************************************************)
EXTENDS DelayTable

ASSUME UvwModelAssumption == SliceLength % 2 = 0

VARIABLES
  multiPhaseCenter,  \* the option of the control file
  uvw,          \* Uvw_model: scans, sources, times, model, scanNr, nSources
  uvwReceived,  \* number of UVW models received
  uvwSpline,    \* its splines: interval [begin, end], scan, sources, points
  uvwEnded      \* how the job was ended in get_uvw: "PREMATURE", "PHASE_CENTER", or "NOT"

uvwVars == <<multiPhaseCenter, uvw, uvwReceived, uvwSpline, uvwEnded>>
allVars == <<vars, uvwVars>>

NoUvwSpline == [begin |-> 0, end |-> 0, scan |-> 0, sources |-> <<>>, points |-> <<>>]
EmptyModel == [scans |-> <<>>, sources |-> <<>>, times |-> <<>>, delays |-> <<>>,
               scanNr |-> 1, nSources |-> 0]

UvwInit ==
  /\ Init
  /\ multiPhaseCenter \in BOOLEAN
  /\ uvw = EmptyModel /\ uvwReceived = 0 /\ uvwSpline = NoUvwSpline /\ uvwEnded = "NOT"

-----------------------------------------------------------------------------
\* Uvw_model::initialise_next_scan; there is no check of the length of the scan.
UvwIsNextScan(t) == t.scanNr <= Len(t.scans) - t.nSources
UvwNextScan(t) ==
  LET n == t.scanNr + t.nSources
  IN  [t EXCEPT !.scanNr = n, !.nSources = SourcesFrom(t, n)]

\* The model as the node unpacks it.
ModelFor(i) ==
  LET t == TableRead(i)
  IN  [EmptyModel EXCEPT !.scans = t.scans, !.sources = t.sources, !.times = t.times,
                         !.delays = t.delays]

\* Uvw_model::add_scans.
AddScans(t, o) == Joined(t, o)

\* The tables of a scan come from the manager one after the other, before any
\* slice of the scan.
ReceiveUvw ==
  /\ Listening /\ ~aborted
  /\ uvwReceived < received
  /\ uvwReceived' = uvwReceived + 1
  /\ uvw' = IF uvw.scans = <<>> THEN UvwNextScan(ModelFor(uvwReceived'))
                                ELSE AddScans(uvw, ModelFor(uvwReceived'))
  /\ UNCHANGED <<vars, multiPhaseCenter, uvwSpline, uvwEnded>>

Middle == Start + SliceLength \div 2

\* create_akima_spline: on to the scan of the time, or to the last one there is.
ModelAt(time) ==
  FoldLeft(LAMBDA t, s : IF t.scans[t.scanNr].end < time /\ UvwIsNextScan(t)
                         THEN UvwNextScan(t) ELSE t,
           uvw, uvw.scans)

\* Two points before the second of the time and two after it.
UvwPoints(scan, time) == Clamped(Whole(time) - 2 * Second, Whole(time) + 3 * Second, scan)

\* Mutant: a spline is used for three seconds, as far as its points would go.
SplineForThree(time) == Whole(time) + 3 * Second

\* interval_end: a spline is used for a second.
SplineUntil(time) == Whole(time) + Second

UvwSplineOf(t, time) ==
  LET first == t.scans[t.scanNr]
      range == UvwPoints(first, time)
      n == (range[2] - range[1]) \div Second + 1
      idx == (range[1] - first.begin) \div Second
      scan(s) == t.scans[t.scanNr + s - 1]
  IN  [begin |-> Whole(time), end |-> SplineUntil(time), scan |-> first.begin,
       sources |-> [s \in 1 .. t.nSources |-> t.sources[scan(s).source + 1]],
       points |-> [s \in 1 .. t.nSources |-> [k \in 1 .. n |->
                     <<At(t.times, scan(s).times + idx + k), At(t.delays, scan(s).delays + idx + k)>>]]]

\* Manager_node::start_next_timeslice_on_node, of the scan it is at.
PhaseCenters == IF multiPhaseCenter THEN Len(Slice.sources) ELSE 1

\* get_uvw, for one phase centre after the other: the first call makes the spline, and
\* each asserts that there is one for its centre.
GetUvw ==
  LET late == Middle > uvwSpline.end
  IN  /\ uvw' = IF late THEN ModelAt(Middle) ELSE uvw
      /\ IF late /\ uvw'.scans[uvw'.scanNr].end < Middle
         THEN uvwEnded' = "PREMATURE" /\ UNCHANGED uvwSpline
         ELSE /\ uvwSpline' = IF late THEN UvwSplineOf(uvw', Middle) ELSE uvwSpline
              /\ uvwEnded' = IF PhaseCenters <= Len(uvwSpline'.sources) THEN "NOT"
                                                                       ELSE "PHASE_CENTER"

\* Correlator_node::set_parameters has the delays first, then the coordinates.
CreateSplines == CreateSpline /\ GetUvw /\ UNCHANGED <<uvwReceived, multiPhaseCenter>>

UvwNext ==
  \/ /\ uvwEnded = "NOT"
     /\ \/ (ReceiveTable /\ uvwReceived = received) /\ UNCHANGED uvwVars
        \/ ReceiveUvw
        \/ (ReceiveSlice /\ uvwReceived = received) /\ UNCHANGED uvwVars
        \/ (SetParameters \/ MoveToScan \/ Finish) /\ UNCHANGED uvwVars
        \/ CreateSplines
  \/ (queue = <<>> \/ aborted \/ uvwEnded # "NOT") /\ UNCHANGED allVars

UvwSpec == UvwInit /\ [][UvwNext]_allVars

-----------------------------------------------------------------------------
\* The coordinates of a slice are interpolated between points of its own scan and
\* sources around its middle, also when the spline was made for an earlier slice
\* and the next scan follows at once; the model does not end before the slice.  Only
\* a job that asks for all the sources of a scan of several ends on the assertion that
\* there is a spline for the phase centre, since the tables are of the first source.
UvwOfScan ==
  spline # NoSpline =>
    /\ uvwEnded # "PREMATURE"
    /\ uvwEnded = "PHASE_CENTER" <=> multiPhaseCenter /\ Len(Slice.sources) > 1
    /\ uvwSpline.scan = Slice.begin
    /\ uvwSpline.sources = SubSeq(Slice.sources, 1, Len(uvwSpline.sources))
    /\ \A s \in DOMAIN uvwSpline.sources :
         LET points == uvwSpline.points[s]  n == Len(points) IN
           /\ n >= 5
           /\ points[1][2][3] <= Middle /\ Middle <= points[n][2][3]
           /\ \A k \in 1 .. n :
                LET time == points[1][2][3] + (k - 1) * Second IN
                points[k] = <<time - Slice.begin, <<Slice.begin, uvwSpline.sources[s], time>>>>
=============================================================================
