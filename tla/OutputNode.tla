----------------------------- MODULE OutputNode -----------------------------
(***************************************************************************)
(* Output_node: collects the slices of all correlator nodes and writes     *)
(* them to the output file in the order of their numbers.                  *)
(***************************************************************************)
EXTENDS Mailboxes

VARIABLES
  oStatus,          \* Output_node::status
  order,            \* input_streams_order: pairs <<slice number, stream>>
  sizes,            \* sizes[c]: Input_stream::slice_size, the slice each size is of
  currSlice,        \* curr_slice
  currStream,       \* curr_stream, {} when it is -1 and {c} otherwise
  numberOfSlices,   \* number_of_time_slices
  file              \* the slices in the output file

oVars == <<oStatus, order, sizes, currSlice, currStream, numberOfSlices, file>>

\* END_WRITING: terminate() has set END_NODE among the messages of a round in
\* WRITE_OUTPUT, and the rest of that round is still to come.
OStatus == {"STOPPED", "START_NEW_SLICE", "WRITE_OUTPUT", "END_WRITING", "END_SLICE",
            "END_NODE", "GONE"}

OutputTypeOK ==
  /\ oStatus \in OStatus
  /\ order \in SUBSET (Slices \X Correlators)
  /\ sizes \in [Correlators -> Seq(Slices)]
  /\ currSlice \in Nat
  /\ currStream \in SUBSET Correlators
  /\ numberOfSlices \in Nat \cup {-1}
  /\ file \in Seq(Slices)

OutputInit ==
  /\ oStatus = "STOPPED"
  /\ order = {}
  /\ sizes = [c \in Correlators |-> <<>>]
  /\ currSlice = 0
  /\ currStream = {}
  /\ numberOfSlices = -1
  /\ file = <<>>

-----------------------------------------------------------------------------
\* input_streams_order.begin()->first == s, for a non-empty map.
FirstIs(map, s) == (\E p \in map : p[1] = s) /\ (\A p \in map : p[1] >= s)

\* The status after a message: in STOPPED the loop looks whether the slice it
\* waits for has been announced, in WRITE_OUTPUT it goes on writing.
AfterMessage(st, map, n) ==
  IF oStatus # "STOPPED" THEN st
  ELSE IF currSlice = n THEN "END_NODE"
  ELSE IF FirstIs(map, currSlice) THEN "START_NEW_SLICE" ELSE st

Listening == oStatus \in {"STOPPED", "WRITE_OUTPUT", "END_WRITING"}

\* process_event of OUTPUT_STREAM_SLICE_SET_PRIORITY: set_weight_of_input_stream.
\* The map keeps the stream it already has for a slice number.
ReceivePriority(c) ==
  /\ Listening
  /\ priority[c] # <<>>
  /\ priority' = [priority EXCEPT ![c] = Tail(@)]
  /\ LET s == Head(priority[c])
         new == \A p \in order : p[1] # s IN
       /\ SfxcAssert("set_weight_of_input_stream",
                 new /\ (order # {} => s >= currSlice) /\ oStatus # "END_WRITING")
       /\ order' = IF new THEN order \cup {<<s, c>>} ELSE order
       /\ sizes' = [sizes EXCEPT ![c] = Append(@, s)]
  /\ oStatus' = AfterMessage(oStatus, order', numberOfSlices)
  /\ UNCHANGED <<currSlice, currStream, numberOfSlices, file>>
  /\ UNCHANGED <<ended, parameters, endNode, endOutput, ready, finished, stream>>

\* process_event of OUTPUT_NODE_CORRELATION_READY: set_number_of_time_slices.
ReceiveReady ==
  /\ Listening
  /\ ready # <<>>
  /\ ready' = Tail(ready)
  /\ numberOfSlices' = Head(ready)
  /\ oStatus' = AfterMessage(oStatus, order, numberOfSlices')
  /\ UNCHANGED <<order, sizes, currSlice, currStream, file>>
  /\ UNCHANGED <<ended, parameters, endNode, endOutput, priority, finished, stream, failed>>

\* Mutant: whatever stream has data is read.
ReadSliceOfAny ==
  \E c \in Correlators :
    /\ stream[c] # <<>>
    /\ file' = Append(file, Head(stream[c]))
    /\ stream' = [stream EXCEPT ![c] = Tail(@)]

\* Input_stream::read_bytes until end_of_slice: here a slice is read as a
\* whole, the bytes are in module OutputStream.
ReadSlice ==
  \E c \in currStream :
    /\ stream[c] # <<>>
    /\ file' = Append(file, Head(stream[c]))
    /\ stream' = [stream EXCEPT ![c] = Tail(@)]

\* process_event of END_NODE, terminate.
ReceiveEndOutput ==
  /\ oStatus \in {"STOPPED", "WRITE_OUTPUT"}
  /\ endOutput
  /\ ready = <<>>
  /\ endOutput' = FALSE
  /\ oStatus' = IF oStatus = "STOPPED" THEN AfterMessage("END_NODE", order, numberOfSlices)
                ELSE "END_WRITING"
  /\ UNCHANGED <<order, sizes, currSlice, currStream, numberOfSlices, file>>
  /\ UNCHANGED <<ended, parameters, endNode, priority, ready, finished, stream, failed>>

\* The rest of that round: the end of the slice sets the status once more.
EndWriting ==
  /\ oStatus = "END_WRITING"
  /\ \/ oStatus' = "END_NODE" /\ UNCHANGED <<file, stream>>
     \/ oStatus' = "END_SLICE" /\ ReadSlice
  /\ UNCHANGED <<order, sizes, currSlice, currStream, numberOfSlices>>
  /\ UNCHANGED <<ended, parameters, endNode, endOutput, priority, ready, finished, failed>>

\* case START_NEW_SLICE, with Input_stream::goto_next_slice
StartNewSlice ==
  /\ oStatus = "START_NEW_SLICE"
  /\ \E p \in order :
       /\ \A q \in order : p[1] <= q[1]
       /\ SfxcAssert("goto_next_slice", p[1] = currSlice /\ sizes[p[2]] # <<>>)
       /\ currStream' = {p[2]}
       /\ order' = order \ {p}
       /\ sizes' = [sizes EXCEPT ![p[2]] = IF @ = <<>> THEN @ ELSE Tail(@)]
  /\ oStatus' = "WRITE_OUTPUT"
  /\ UNCHANGED <<currSlice, numberOfSlices, file>>
  /\ UNCHANGED <<ended, parameters, endNode, endOutput, priority, ready, finished, stream>>

\* case WRITE_OUTPUT
WriteOutput ==
  /\ oStatus = "WRITE_OUTPUT"
  /\ ReadSlice
  /\ oStatus' = "END_SLICE"
  /\ UNCHANGED <<order, sizes, currSlice, currStream, numberOfSlices>>
  /\ UNCHANGED <<ended, parameters, endNode, endOutput, priority, ready, finished, failed>>

\* Mutant: the next slice is looked for only when a message comes.
EndSliceStops ==
  /\ oStatus = "END_SLICE"
  /\ currStream' = {}
  /\ currSlice' = currSlice + 1
  /\ oStatus' = IF currSlice' = numberOfSlices THEN "END_NODE" ELSE "STOPPED"
  /\ UNCHANGED <<order, sizes, numberOfSlices, file>>
  /\ UNCHANGED mailboxes

\* case END_SLICE
EndSlice ==
  /\ oStatus = "END_SLICE"
  /\ currStream' = {}
  /\ currSlice' = currSlice + 1
  /\ oStatus' = IF currSlice' = numberOfSlices THEN "END_NODE"
                ELSE IF FirstIs(order, currSlice') THEN "START_NEW_SLICE" ELSE "STOPPED"
  /\ UNCHANGED <<order, sizes, numberOfSlices, file>>
  /\ UNCHANGED mailboxes

\* The end of start() and the destructor, whose assertions count only when
\* END_NODE did not come from an assertion that failed elsewhere.
ShutDown ==
  /\ oStatus = "END_NODE"
  /\ oStatus' = "GONE"
  /\ finished' = finished + 1
  /\ SfxcAssert("~Output_node", failed # {} \/ order = {})
  /\ UNCHANGED <<order, sizes, currSlice, currStream, numberOfSlices, file>>
  /\ UNCHANGED <<ended, parameters, endNode, endOutput, priority, ready, stream>>

OutputLoop == StartNewSlice \/ WriteOutput \/ EndWriting \/ EndSlice \/ ShutDown
OutputNext ==
  \/ \E c \in Correlators : ReceivePriority(c)
  \/ ReceiveReady
  \/ ReceiveEndOutput
  \/ OutputLoop
=============================================================================
