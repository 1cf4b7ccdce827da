----------------------------- MODULE InputNode -----------------------------
(***************************************************************************)
(* The input nodes of a job: the messages of the manager, the thread that  *)
(* reads and extracts the channels, and for each channel the thread of an  *)
(* Input_node_data_writer that cuts the data into slices.  The writers of  *)
(* a station share the memory pool of the extractor and the connections    *)
(* (streams) to the correlator nodes.                                      *)
(*                                                                         *)
(* The unit of time and of data is one FFT; a block holds one unit of one  *)
(* channel.  What happens within a block is the subject of DataWriter.     *)
(***************************************************************************)
EXTENDS Integers, SequencesExt

CONSTANTS
  Stations,       \* one input node for each
  Channels,       \* frequency channels
  Nodes,          \* correlator nodes, one stream of each input node for each
  NumberFfts,     \* number_ffts of a time slice
  IntegrationUnits,  \* integration time
  PoolSize,       \* elements of output_memory_pool_ when it has been doubled: with
                  \*   less than a slice of all channels the job may stop
  WireSize        \* units a connection holds: socket buffers and ring

ASSUME InputNodeAssumption ==
  /\ NumberFfts \in Nat \ {0} /\ IntegrationUnits \in Nat /\ IntegrationUnits >= NumberFfts
  /\ PoolSize \in Nat /\ WireSize \in Nat \ {0}
  /\ IsFiniteSet(Channels) /\ Channels # {} /\ Channels \subseteq Nat
  /\ IsFiniteSet(Nodes)

VARIABLES
  mail,        \* mail[s]: messages of the manager for the input node
  iStatus,     \* status of Input_node
  reading,     \* reading[s]: intervals of the reader, the present one first
  readTime,    \* current_time of the reader
  blocks,      \* blocks[s][ch]: the input_buffer_ of a data writer, times of blocks
  writer,      \* writer[s][ch]: the state of a data writer
  active,      \* active[s][c]: Data_writer::active of the stream to node c
  wire         \* wire[s][c]: units and ends of slices under way to node c

iVars == <<mail, iStatus, reading, readTime, blocks, writer, active, wire>>

Unit(ch, t) == <<ch, t>>
EndOfStream == <<"end">>

\* A data writer: the streams of its slices, its intervals, _current_time, the
\* stop time of its current_interval_, _slice_start, units left of the slice.
NewWriter ==
  [pc |-> "idle", slices |-> <<>>, intervals |-> <<>>, time |-> 0, stop |-> 0,
   start |-> 0, left |-> 0]

\* The current_interval_ of the reader before it has fetched one.
NoInterval == <<-1, -1>>

InputInit ==
  /\ mail = [s \in Stations |-> <<>>]
  /\ iStatus = [s \in Stations |-> "WAITING"]
  /\ reading = [s \in Stations |-> <<NoInterval>>]
  /\ readTime = [s \in Stations |-> 0]
  /\ blocks = [s \in Stations |-> [ch \in Channels |-> <<>>]]
  /\ writer = [s \in Stations |-> [ch \in Channels |-> NewWriter]]
  /\ active = [s \in Stations |-> [c \in Nodes |-> FALSE]]
  /\ wire = [s \in Stations |-> [c \in Nodes |-> <<>>]]


Interval(start, stop) == [type |-> "SET_TIME", start |-> start, stop |-> stop]
Slice(ch, c) == [type |-> "ADD_TIME_SLICE", channel |-> ch, stream |-> c]
EndNode == [type |-> "END_NODE"]

Used(s) == MapThenSumSet(LAMBDA ch : Len(blocks[s][ch]), Channels)

-----------------------------------------------------------------------------
\* Input_node_controller::process_event and Node::process_event.
Takes(s, type) ==
  /\ iStatus[s] \in {"WAITING", "WRITING"}
  /\ mail[s] # <<>> /\ Head(mail[s]).type = type
  /\ mail' = [mail EXCEPT ![s] = Tail(@)]

\* The first parameters start the threads.
ReceiveParameters(s) ==
  /\ Takes(s, "TRACK_PARAMETERS")
  /\ iStatus' = [iStatus EXCEPT ![s] = "WRITING"]
  /\ UNCHANGED <<reading, readTime, blocks, writer, active, wire>>

\* Input_node_data_writer::add_time_interval.
AddInterval(w, m) == [w EXCEPT !.intervals = Append(@, <<m.start, m.stop>>)]

\* add_time_interval: an interval for each writer and, up to the next header
\* after its stop time, one for the reader.
ReceiveTimeInterval(s) ==
  LET m == Head(mail[s])
  IN  /\ Takes(s, "SET_TIME")
      /\ writer' = [writer EXCEPT ![s] = [ch \in Channels |-> AddInterval(@[ch], m)]]
      /\ reading' = [reading EXCEPT ![s] = Append(@, <<m.start, m.stop + 1>>)]
      /\ UNCHANGED <<iStatus, readTime, blocks, active, wire>>

ReceiveTimeSlice(s) ==
  LET m == Head(mail[s])
  IN  /\ Takes(s, "ADD_TIME_SLICE")
      /\ writer' = [writer EXCEPT ![s][m.channel].slices = Append(@, m.stream)]
      /\ UNCHANGED <<iStatus, reading, readTime, blocks, active, wire>>

\* terminate: the reader gets an empty interval, the queues of the writers are
\* emptied and their threads are cancelled wherever they are.
ReceiveEndNode(s) ==
  /\ Takes(s, "END_NODE")
  /\ iStatus' = [iStatus EXCEPT ![s] = "TERMINATING"]
  /\ reading' = [reading EXCEPT ![s] = Append(@, <<0, 0>>)]
  /\ blocks' = [blocks EXCEPT ![s] = [ch \in Channels |-> <<>>]]
  /\ writer' = [writer EXCEPT ![s] = [ch \in Channels |-> [@[ch] EXCEPT !.pc = "cancelled"]]]
  /\ UNCHANGED <<readTime, active, wire>>

\* wait_termination: until the reader has come to the empty interval.
Terminated(s) ==
  /\ iStatus[s] = "TERMINATING"
  /\ reading[s] # <<>> /\ Head(reading[s]) = <<0, 0>>
  /\ iStatus' = [iStatus EXCEPT ![s] = "END_NODE"]
  /\ UNCHANGED <<mail, reading, readTime, blocks, writer, active, wire>>

-----------------------------------------------------------------------------
\* The reader and the extractor: a block of each channel, when there are
\* output elements for all.  When the extractor has been stopped the rest of
\* the interval stays with the reader.
ReadBlocks(s) ==
  /\ reading[s] # <<>> /\ readTime[s] < Head(reading[s])[2]
  /\ \/ /\ iStatus[s] = "WRITING"
        /\ Used(s) + Cardinality(Channels) <= PoolSize
        /\ blocks' = [blocks EXCEPT ![s] = [ch \in Channels |-> Append(@[ch], readTime[s])]]
     \/ iStatus[s] = "TERMINATING" /\ UNCHANGED blocks
  /\ readTime' = [readTime EXCEPT ![s] = @ + 1]
  /\ UNCHANGED <<mail, iStatus, reading, writer, active, wire>>

NextInterval(s) ==
  /\ Len(reading[s]) > 1 /\ readTime[s] >= Head(reading[s])[2]
  /\ reading' = [reading EXCEPT ![s] = Tail(@)]
  /\ readTime' = [readTime EXCEPT ![s] = Head(reading'[s])[1]]
  /\ UNCHANGED <<mail, iStatus, blocks, writer, active, wire>>

-----------------------------------------------------------------------------
\* The thread of a data writer; w is its state before the step.
Stream(w) == Head(w.slices)

\* has_work: the interval is over and there is a slice to be written.
FetchNextTimeInterval(s, ch) ==
  LET w == writer[s][ch]
  IN  /\ w.pc = "idle" /\ w.slices # <<>>
      /\ w.time >= w.stop /\ w.intervals # <<>>
      /\ writer' = [writer EXCEPT ![s][ch] =
           [w EXCEPT !.time = Head(w.intervals)[1], !.stop = Head(w.intervals)[2],
                     !.intervals = Tail(@)]]
      /\ UNCHANGED <<mail, iStatus, reading, readTime, blocks, active, wire>>

\* Mutant: the stream of another channel is not waited for.
FindWorkAlways(s, ch) ==
  LET w == writer[s][ch]
  IN  /\ w.pc = "idle" /\ w.slices # <<>> /\ w.time < w.stop
      /\ blocks[s][ch] # <<>>
      /\ writer' = [writer EXCEPT ![s][ch].pc = "found"]
      /\ UNCHANGED <<mail, iStatus, reading, readTime, blocks, active, wire>>

\* has_work: the stream is not in use by another channel.
FindWork(s, ch) ==
  LET w == writer[s][ch]
  IN  /\ w.pc = "idle" /\ w.slices # <<>> /\ w.time < w.stop
      /\ ~active[s][Stream(w)]
      /\ blocks[s][ch] # <<>>
      /\ writer' = [writer EXCEPT ![s][ch].pc = "found"]
      /\ UNCHANGED <<mail, iStatus, reading, readTime, blocks, active, wire>>

\* do_task, from here on: a new slice.  What activate returns is not looked at.
Activate(s, ch) ==
  LET w == writer[s][ch]
  IN  /\ w.pc = "found"
      /\ active' = [active EXCEPT ![s][Stream(w)] = TRUE]
      /\ writer' = [writer EXCEPT ![s][ch] =
           [w EXCEPT !.pc = "write", !.start = w.time, !.left = NumberFfts]]
      /\ UNCHANGED <<mail, iStatus, reading, readTime, blocks, wire>>

\* At the start of a slice: old data is left in the input queue.
Old(s, ch) ==
  writer[s][ch].left = NumberFfts /\ Head(blocks[s][ch]) < writer[s][ch].time

SkipOldBlock(s, ch) ==
  /\ writer[s][ch].pc = "write"
  /\ blocks[s][ch] # <<>> /\ Old(s, ch)
  /\ blocks' = [blocks EXCEPT ![s][ch] = Tail(@)]
  /\ UNCHANGED <<mail, iStatus, reading, readTime, writer, active, wire>>

\* put_bytes waits while the connection is full.
WriteBlock(s, ch) ==
  LET w == writer[s][ch]
      unit == <<Unit(ch, Head(blocks[s][ch]))>>
  IN  /\ w.pc = "write" /\ w.left > 0
      /\ blocks[s][ch] # <<>> /\ ~Old(s, ch)
      /\ Len(wire[s][Stream(w)]) < WireSize
      /\ wire' = [wire EXCEPT ![s][Stream(w)] = @ \o unit]
      /\ blocks' = [blocks EXCEPT ![s][ch] = Tail(@)]
      /\ writer' = [writer EXCEPT ![s][ch] = [w EXCEPT !.time = @ + 1, !.left = @ - 1]]
      /\ UNCHANGED <<mail, iStatus, reading, readTime, active>>

\* Mutant: the stream is not given free.
EndSliceActive(s, ch) ==
  LET w == writer[s][ch]
  IN  /\ w.pc = "write" /\ w.left = 0
      /\ Len(wire[s][Stream(w)]) < WireSize
      /\ wire' = [wire EXCEPT ![s][Stream(w)] = Append(@, EndOfStream)]
      /\ writer' = [writer EXCEPT ![s][ch] =
           [w EXCEPT !.pc = "idle", !.time = w.start + IntegrationUnits, !.slices = Tail(@)]]
      /\ UNCHANGED <<mail, iStatus, reading, readTime, blocks, active>>

\* Mutant: the clock is not resynchronised to a multiple of the integration time.
EndSliceNoResync(s, ch) ==
  LET w == writer[s][ch]
  IN  /\ w.pc = "write" /\ w.left = 0
      /\ Len(wire[s][Stream(w)]) < WireSize
      /\ wire' = [wire EXCEPT ![s][Stream(w)] = Append(@, EndOfStream)]
      /\ active' = [active EXCEPT ![s][Stream(w)] = FALSE]
      /\ writer' = [writer EXCEPT ![s][ch] = [w EXCEPT !.pc = "idle", !.slices = Tail(@)]]
      /\ UNCHANGED <<mail, iStatus, reading, readTime, blocks>>

\* All data of the slice are written: the clock goes to the next slice.
EndSlice(s, ch) ==
  LET w == writer[s][ch]
  IN  /\ w.pc = "write" /\ w.left = 0
      /\ Len(wire[s][Stream(w)]) < WireSize
      /\ wire' = [wire EXCEPT ![s][Stream(w)] = Append(@, EndOfStream)]
      /\ active' = [active EXCEPT ![s][Stream(w)] = FALSE]
      /\ writer' = [writer EXCEPT ![s][ch] =
           [w EXCEPT !.pc = "idle", !.time = w.start + IntegrationUnits, !.slices = Tail(@)]]
      /\ UNCHANGED <<mail, iStatus, reading, readTime, blocks>>

-----------------------------------------------------------------------------
MessageStep(s) ==
  \/ ReceiveParameters(s) \/ ReceiveTimeInterval(s) \/ ReceiveTimeSlice(s)
  \/ ReceiveEndNode(s) \/ Terminated(s)
ReaderStep(s) == ReadBlocks(s) \/ NextInterval(s)
WriterStep(s, ch) ==
  \/ FetchNextTimeInterval(s, ch) \/ FindWork(s, ch) \/ Activate(s, ch)
  \/ SkipOldBlock(s, ch) \/ WriteBlock(s, ch) \/ EndSlice(s, ch)
=============================================================================
