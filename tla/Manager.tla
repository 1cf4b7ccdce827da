------------------------------ MODULE Manager ------------------------------
(***************************************************************************)
(* Manager_node: cuts the job into integration slices, scan by scan, and   *)
(* hands every (integration slice, channel) pair to the correlator node    *)
(* that asked first.  Time is counted in ticks from the start of the job.  *)
(***************************************************************************)
EXTENDS Mailboxes

CONSTANTS
  NumberChannels,   \* control_parameters.number_frequency_channels()
  CrossChannel,     \* cross_channel(ch): the other polarisation of ch, or -1
  IntegrationTime,  \* length of an integration slice
  StopTime,         \* stop time of the job
  ScanStart,        \* ScanStart[i], ScanStop[i]: the scans of the job in order,
  ScanStop,         \*   from the scan that holds the start time of the job
  StationStop,      \* StationStop[i]: when the first of its stations leaves scan i
  StationTimes      \* positions an input node may report when a scan starts

NumberScans == Len(ScanStart)
Channels == 0 .. NumberChannels - 1

ASSUME ManagerAssumption ==
  /\ NumberChannels \in Nat \ {0}
  /\ CrossChannel \in [Channels -> {-1} \cup Channels]
  /\ \A ch \in Channels : CrossChannel[ch] # ch
  /\ IntegrationTime \in Nat \ {0}
  /\ StopTime \in Nat
  /\ ScanStart \in Seq(Nat) /\ Len(ScanStart) > 0
  /\ ScanStop \in [1 .. NumberScans -> Nat]
  /\ StationStop \in [1 .. NumberScans -> Nat]
  /\ StationTimes \subseteq Nat /\ StationTimes # {}

VARIABLES
  mStatus,          \* Manager_node::status
  scan,             \* current_scan
  integration,      \* integration_slice_nr
  channel,          \* current_channel
  stopTimeScan,     \* stop_time_scan
  outputSlice,      \* output_slice_nr
  readyNodes,       \* ready_correlator_nodes
  dispatched        \* the slices handed out, in order: every input node gets its
                    \* ADD_TIME_SLICE messages in the order of this sequence

mVars == <<mStatus, scan, integration, channel, stopTimeScan, outputSlice,
           readyNodes, dispatched>>

MStatus == {"START_NEW_SCAN", "START_CORRELATION_TIME_SLICE",
            "START_CORRELATOR_NODES_FOR_TIME_SLICE", "GOTO_NEXT_TIMESLICE",
            "STOP_CORRELATING", "WAIT_FOR_OUTPUT_NODE", "END_NODE", "GONE"}

Dispatch == [scan : Nat, integration : Nat, channel : Channels]

ManagerTypeOK ==
  /\ mStatus \in MStatus
  /\ scan \in Nat
  /\ integration \in Nat
  /\ channel \in 0 .. NumberChannels
  /\ stopTimeScan \in Int
  /\ outputSlice \in Nat
  /\ readyNodes \in Seq(Correlators)
  /\ dispatched \in Seq(Dispatch)

ManagerInit ==
  /\ mStatus = "START_NEW_SCAN"
  /\ scan = 1
  /\ integration = 0
  /\ channel = 0
  /\ stopTimeScan = 0
  /\ outputSlice = 0
  /\ readyNodes = <<>>
  /\ dispatched = <<>>

-----------------------------------------------------------------------------
Lesser(a, b) == IF a < b THEN a ELSE b
Larger(a, b) == IF a > b THEN a ELSE b
StartOf(i) == IntegrationTime * i

\* Mutant: the first slice of a scan is rounded down.
FirstSliceRoundedDown ==
  IF StartOf(integration) < ScanStart[scan] THEN ScanStart[scan] \div IntegrationTime
                                            ELSE integration

\* initialise_scan: the first slice that starts inside the scan, and the end
\* of the last slice that fits in it.
FirstSliceOfScan ==
  IF StartOf(integration) < ScanStart[scan]
    THEN (ScanStart[scan] + IntegrationTime - 1) \div IntegrationTime
    ELSE integration
AlignedStopOfScan ==
  LET stop == Lesser(StopTime, ScanStop[scan]) IN stop - (stop % IntegrationTime)

\* The channel start_next_timeslice_on_node moves on to: a channel that was
\* already correlated as the cross channel of an earlier one is skipped.
\* Mutant: every channel that has a cross channel is skipped.
DoneAsCrossAlways(ch) == CrossChannel[ch] >= 0

DoneAsCross(ch) == CrossChannel[ch] >= 0 /\ CrossChannel[ch] < ch
NextChannel(ch) ==
  LET todo == {n \in ch + 1 .. NumberChannels - 1 : ~DoneAsCross(n)} IN
  IF todo = {} THEN NumberChannels ELSE CHOOSE n \in todo : \A m \in todo : n <= m

-----------------------------------------------------------------------------
\* process_event while the manager's loop runs: a correlator node asks for work.
ReceiveEnded(c) ==
  /\ mStatus \notin {"END_NODE", "GONE"}
  /\ ended[c] > 0
  /\ ended' = [ended EXCEPT ![c] = @ - 1]
  /\ readyNodes' = Append(readyNodes, c)
  /\ UNCHANGED <<mStatus, scan, integration, channel, stopTimeScan, outputSlice, dispatched>>
  /\ UNCHANGED <<parameters, endNode, endOutput, priority, ready, finished, stream, failed>>

\* process_event: the output node has written everything (end_correlation).
ReceiveFinished ==
  /\ mStatus \notin {"END_NODE", "GONE"}
  /\ finished > 0
  /\ finished' = finished - 1
  /\ SfxcAssert("end_correlation", mStatus = "WAIT_FOR_OUTPUT_NODE")
  /\ mStatus' = "END_NODE"
  /\ UNCHANGED <<scan, integration, channel, stopTimeScan, outputSlice, readyNodes, dispatched>>
  /\ UNCHANGED <<ended, parameters, endNode, endOutput, priority, ready, stream>>

\* case START_NEW_SCAN; t is the latest position the stations report.
StartNewScan ==
  /\ mStatus = "START_NEW_SCAN"
  /\ stopTimeScan' = AlignedStopOfScan
  /\ \E t \in StationTimes :
       integration' = Larger(FirstSliceOfScan, t \div IntegrationTime)
  /\ \/ /\ StopTime <= StartOf(integration')
        /\ mStatus' = "STOP_CORRELATING"
        /\ UNCHANGED failed
     \/ /\ StopTime > StartOf(integration')
        /\ mStatus' = "START_CORRELATION_TIME_SLICE"
        /\ SfxcAssert("input_node_set_time", /\ StartOf(integration') < stopTimeScan'
                                         /\ StartOf(integration') < StationStop[scan])
  /\ UNCHANGED <<scan, channel, outputSlice, readyNodes, dispatched>>
  /\ UNCHANGED <<ended, parameters, endNode, endOutput, priority, ready, finished, stream>>

\* case START_CORRELATION_TIME_SLICE
StartCorrelationTimeSlice ==
  /\ mStatus = "START_CORRELATION_TIME_SLICE"
  /\ channel' = 0
  /\ mStatus' = "START_CORRELATOR_NODES_FOR_TIME_SLICE"
  /\ UNCHANGED <<scan, integration, stopTimeScan, outputSlice, readyNodes, dispatched>>
  /\ UNCHANGED mailboxes

\* Mutant: output_slice_nr is not incremented.
StartCorrelatorNodeSameNumber ==
  /\ mStatus = "START_CORRELATOR_NODES_FOR_TIME_SLICE"
  /\ readyNodes # <<>>
  /\ parameters' = [parameters EXCEPT ![Head(readyNodes)] = Append(@, outputSlice)]
  /\ dispatched' = Append(dispatched, [scan |-> scan, integration |-> integration,
                                       channel |-> channel])
  /\ SfxcAssert("start_next_timeslice_on_node",
        CrossChannel[channel] = -1 \/ CrossChannel[channel] > channel)
  /\ readyNodes' = Tail(readyNodes)
  /\ channel' = NextChannel(channel)
  /\ mStatus' = IF channel' = NumberChannels THEN "GOTO_NEXT_TIMESLICE" ELSE mStatus
  /\ UNCHANGED <<scan, integration, stopTimeScan, outputSlice>>
  /\ UNCHANGED <<ended, endNode, endOutput, priority, ready, finished, stream>>

\* case START_CORRELATOR_NODES_FOR_TIME_SLICE with a correlator node ready,
\* and start_next_timeslice_on_node.
StartCorrelatorNode ==
  /\ mStatus = "START_CORRELATOR_NODES_FOR_TIME_SLICE"
  /\ readyNodes # <<>>
  /\ parameters' = [parameters EXCEPT ![Head(readyNodes)] = Append(@, outputSlice)]
  /\ dispatched' = Append(dispatched, [scan |-> scan, integration |-> integration,
                                       channel |-> channel])
  /\ SfxcAssert("start_next_timeslice_on_node",
        CrossChannel[channel] = -1 \/ CrossChannel[channel] > channel)
  /\ readyNodes' = Tail(readyNodes)
  /\ channel' = NextChannel(channel)
  /\ outputSlice' = outputSlice + 1
  /\ mStatus' = IF channel' = NumberChannels THEN "GOTO_NEXT_TIMESLICE" ELSE mStatus
  /\ UNCHANGED <<scan, integration, stopTimeScan>>
  /\ UNCHANGED <<ended, endNode, endOutput, priority, ready, finished, stream>>

\* case GOTO_NEXT_TIMESLICE
GotoNextTimeslice ==
  /\ mStatus = "GOTO_NEXT_TIMESLICE"
  /\ integration' = integration + 1
  /\ \/ /\ StartOf(integration' + 1) > StopTime
        /\ mStatus' = "STOP_CORRELATING"
        /\ UNCHANGED scan
     \/ /\ StartOf(integration' + 1) <= StopTime
        /\ StartOf(integration' + 1) > stopTimeScan
        /\ scan' = scan + 1
        /\ mStatus' = IF scan' > NumberScans THEN "STOP_CORRELATING" ELSE "START_NEW_SCAN"
     \/ /\ StartOf(integration' + 1) <= StopTime
        /\ StartOf(integration' + 1) <= stopTimeScan
        /\ mStatus' = "START_CORRELATION_TIME_SLICE"
        /\ UNCHANGED scan
  /\ UNCHANGED <<channel, stopTimeScan, outputSlice, readyNodes, dispatched>>
  /\ UNCHANGED mailboxes

\* Mutant: the manager does not wait for the output node.
StopCorrelatingAtOnce ==
  /\ mStatus = "STOP_CORRELATING"
  /\ ready' = Append(ready, outputSlice)
  /\ mStatus' = "END_NODE"
  /\ UNCHANGED <<scan, integration, channel, stopTimeScan, outputSlice, readyNodes, dispatched>>
  /\ UNCHANGED <<ended, parameters, endNode, endOutput, priority, finished, stream, failed>>

\* case STOP_CORRELATING: tell the output node how many slices there are.
StopCorrelating ==
  /\ mStatus = "STOP_CORRELATING"
  /\ ready' = Append(ready, outputSlice)
  /\ mStatus' = "WAIT_FOR_OUTPUT_NODE"
  /\ UNCHANGED <<scan, integration, channel, stopTimeScan, outputSlice, readyNodes, dispatched>>
  /\ UNCHANGED <<ended, parameters, endNode, endOutput, priority, finished, stream, failed>>

\* ~Manager_node: END_NODE to every node (input nodes are not modelled here).
TerminateNodes ==
  /\ mStatus = "END_NODE"
  /\ mStatus' = "GONE"
  /\ endNode' = [c \in Correlators |-> TRUE]
  /\ endOutput' = TRUE
  /\ UNCHANGED <<scan, integration, channel, stopTimeScan, outputSlice, readyNodes, dispatched>>
  /\ UNCHANGED <<ended, parameters, priority, ready, finished, stream, failed>>

ManagerLoop ==
  \/ StartNewScan
  \/ StartCorrelationTimeSlice
  \/ StartCorrelatorNode
  \/ GotoNextTimeslice
  \/ StopCorrelating
  \/ TerminateNodes

ManagerNext ==
  \/ \E c \in Correlators : ReceiveEnded(c)
  \/ ReceiveFinished
  \/ ManagerLoop
=============================================================================
