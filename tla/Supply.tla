------------------------------- MODULE Supply -------------------------------
(***************************************************************************)
(* The supply of the correlator nodes with data: the manager hands out     *)
(* time slices, the input nodes of all stations send their data over the   *)
(* streams, and a correlator node goes on when the data of all stations    *)
(* are there.  Everything has a limited size, so each may wait for others. *)
(*                                                                         *)
(* The messages between manager and correlator nodes are those of Schedule;*)
(* a node is in `ready` from its request on and gets slices at once.       *)
(***************************************************************************)
EXTENDS InputNode

CONSTANT Scans      \* the scans: start, stop (aligned) and stations

ASSUME SupplyAssumption ==
  /\ Scans \in Seq([start : Nat, stop : Nat, stations : SUBSET Stations])
  /\ \A i \in DOMAIN Scans :
       /\ Scans[i].start < Scans[i].stop
       /\ (Scans[i].stop - Scans[i].start) % IntegrationUnits = 0
       /\ Scans[i].stations # {}
       /\ i > 1 => Scans[i - 1].stop <= Scans[i].start

VARIABLES
  mScan, mTime, mChannels,   \* scan, time and channels left of the time slice
  ready,                     \* ready_correlator_nodes
  handed,                    \* handed[c]: slices of a node, the present one first
  fft,                       \* current_fft of the node
  hasRequested

sVars == <<mScan, mTime, mChannels, ready, handed, fft, hasRequested>>
vars == <<iVars, sVars>>

Init ==
  /\ InputInit
  /\ mScan = 0 /\ mTime = 0 /\ mChannels = Channels
  /\ ready = SetToSeq(Nodes)
  /\ handed = [c \in Nodes |-> <<>>]
  /\ fft = [c \in Nodes |-> 0]
  /\ hasRequested = [c \in Nodes |-> FALSE]

-----------------------------------------------------------------------------
Send(S, messages) == mail' = [s \in Stations |-> IF s \in S THEN mail[s] \o messages ELSE mail[s]]

SliceDone == mScan \in DOMAIN Scans /\ mTime >= Scans[mScan].stop

\* START_NEW_SCAN: track parameters and the time interval for its stations.
StartNewScan ==
  /\ mScan = 0 \/ SliceDone
  /\ mScan < Len(Scans)
  /\ mScan' = mScan + 1
  /\ mTime' = Scans[mScan'].start
  /\ mChannels' = Channels
  /\ Send(Scans[mScan'].stations,
          <<[type |-> "TRACK_PARAMETERS"], Interval(Scans[mScan'].start, Scans[mScan'].stop)>>)
  /\ UNCHANGED <<iStatus, reading, readTime, blocks, writer, active, wire,
                 ready, handed, fft, hasRequested>>

\* start_next_timeslice_on_node, and GOTO_NEXT_TIMESLICE after the last channel.
StartCorrelatorNode ==
  /\ mScan \in DOMAIN Scans /\ ~SliceDone
  /\ ready # <<>>
  /\ LET ch == Min(mChannels)
         c == Head(ready)
         S == Scans[mScan].stations
     IN  /\ Send(S, <<Slice(ch, c)>>)
         /\ handed' = [handed EXCEPT ![c] = Append(@, [channel |-> ch, time |-> mTime, stations |-> S])]
         /\ ready' = Tail(ready)
         /\ IF mChannels = {ch}
            THEN mTime' = mTime + IntegrationUnits /\ mChannels' = Channels
            ELSE mTime' = mTime /\ mChannels' = mChannels \ {ch}
  /\ UNCHANGED <<iStatus, reading, readTime, blocks, writer, active, wire, mScan, fft, hasRequested>>

\* Mutant: the nodes are terminated when all slices have been handed out.
EndNodesAtOnce ==
  /\ mScan = Len(Scans) /\ SliceDone
  /\ mScan' = mScan + 1
  /\ mTime' = 0
  /\ Send(Stations, <<EndNode>>)
  /\ UNCHANGED <<iStatus, reading, readTime, blocks, writer, active, wire,
                 mChannels, ready, handed, fft, hasRequested>>

\* All slices have been handed out and written: END_NODE to the input nodes.
EndNodes ==
  /\ mScan = Len(Scans) /\ SliceDone
  /\ \A c \in Nodes : handed[c] = <<>>
  /\ mScan' = mScan + 1
  /\ mTime' = 0
  /\ Send(Stations, <<EndNode>>)
  /\ UNCHANGED <<iStatus, reading, readTime, blocks, writer, active, wire,
                 mChannels, ready, handed, fft, hasRequested>>

-----------------------------------------------------------------------------
Present(c) == handed[c][1]
Take(c) == wire' = [s \in Stations |->
  IF s \in Present(c).stations THEN [wire[s] EXCEPT ![c] = Tail(@)] ELSE wire[s]]

Almost(n) == n >= (NumberFfts * 9) \div 10

\* An FFT, when all stations have sent its data, and at almost_finished the
\* request for the next slice.
Correlate(c) ==
  /\ handed[c] # <<>> /\ fft[c] < NumberFfts
  /\ \A s \in Present(c).stations : wire[s][c] # <<>>
  /\ Take(c)
  /\ fft' = [fft EXCEPT ![c] = @ + 1]
  /\ UNCHANGED <<mail, iStatus, reading, readTime, blocks, writer, active,
                 mScan, mTime, mChannels, ready, handed, hasRequested>>

Request(c) ==
  /\ handed[c] # <<>> /\ Almost(fft[c]) /\ ~hasRequested[c]
  /\ hasRequested' = [hasRequested EXCEPT ![c] = TRUE]
  /\ ready' = Append(ready, c)
  /\ UNCHANGED <<iVars, mScan, mTime, mChannels, handed, fft>>

FinishSlice(c) ==
  /\ handed[c] # <<>> /\ fft[c] = NumberFfts /\ hasRequested[c]
  /\ \A s \in Present(c).stations : wire[s][c] # <<>>
  /\ Take(c)
  /\ handed' = [handed EXCEPT ![c] = Tail(@)]
  /\ fft' = [fft EXCEPT ![c] = 0]
  /\ hasRequested' = [hasRequested EXCEPT ![c] = FALSE]
  /\ UNCHANGED <<mail, iStatus, reading, readTime, blocks, writer, active,
                 mScan, mTime, mChannels, ready>>

-----------------------------------------------------------------------------
ManagerStep == StartNewScan \/ StartCorrelatorNode \/ EndNodes
NodeStep(c) == Correlate(c) \/ Request(c) \/ FinishSlice(c)
InputStep(s) ==
  \/ MessageStep(s) /\ UNCHANGED sVars
  \/ ReaderStep(s) /\ UNCHANGED sVars
  \/ \E ch \in Channels : WriterStep(s, ch) /\ UNCHANGED sVars

AllEnded == \A s \in Stations : iStatus[s] = "END_NODE"

Next == ManagerStep \/ (\E c \in Nodes : NodeStep(c)) \/ (\E s \in Stations : InputStep(s))

Spec == Init /\ [][Next]_vars

\* Each node and each thread of an input node goes on when it can.
FairSpec ==
  /\ Spec
  /\ WF_vars(ManagerStep)
  /\ \A c \in Nodes : WF_vars(NodeStep(c))
  /\ \A s \in Stations :
       /\ WF_vars(MessageStep(s) /\ UNCHANGED sVars)
       /\ WF_vars(ReaderStep(s) /\ UNCHANGED sVars)
       /\ \A ch \in Channels : WF_vars(WriterStep(s, ch) /\ UNCHANGED sVars)

-----------------------------------------------------------------------------
\* The units of a slice on a stream, from 1 on.
UnitOf(slice, k) ==
  IF k <= NumberFfts THEN Unit(slice.channel, slice.time + k - 1) ELSE EndOfStream

\* The units that station s sends to node c before those of its i-th slice, and those of
\* the first slice that the node has read.
Before(s, c, i) ==
  Cardinality({j \in 1 .. i - 1 : s \in handed[c][j].stations}) * (NumberFfts + 1)
HasRead(s, c) == IF handed[c] # <<>> /\ s \in Present(c).stations THEN fft[c] ELSE 0

\* On each stream are the data of the slices its node was given, of the right
\* channel and time and in the order in which it was given them, though the
\* slices of a stream come from the threads of different channels, which no
\* message tells the time of the slice: the data of the interval for which an input
\* node "should output data" (input_node_tasklet.h, add_time_interval).
StreamsCarrySlices ==
  \A s \in Stations, c \in Nodes : \A p \in DOMAIN wire[s][c] :
    \E i \in DOMAIN handed[c], k \in 1 .. NumberFfts + 1 :
      /\ s \in handed[c][i].stations
      /\ HasRead(s, c) + p = Before(s, c, i) + k
      /\ wire[s][c][p] = UnitOf(handed[c][i], k)

\* A stream is never used by two channels at a time.
OneWriterPerStream ==
  \A s \in Stations, c \in Nodes :
    Cardinality({ch \in Channels :
      writer[s][ch].pc \in {"found", "write"} /\ Stream(writer[s][ch]) = c}) <= 1

\* The threads of the writers are cancelled when they have nothing left to write.
CancelledIdle ==
  [][\A s \in Stations, ch \in Channels :
       writer'[s][ch].pc = "cancelled" =>
         writer[s][ch].pc \in {"idle", "cancelled"} /\ writer[s][ch].slices = <<>>]_vars

\* All slices are correlated and the input nodes end: limited pools and
\* connections do not make the nodes wait for each other.
EventuallyEnded == <>AllEnded
=============================================================================
