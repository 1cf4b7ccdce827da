---------------------------- MODULE SampleReader ----------------------------
(***************************************************************************)
(* The input side of a correlator node for one stream: Reader_thread with  *)
(* its Correlator_node_data_reader_tasklet, which copies the stream into a *)
(* ring buffer, and Bit2float_worker, which another thread runs to turn    *)
(* the contents of the ring into the samples of a time slice.              *)
(***************************************************************************)
EXTENDS DataWriter

CONSTANTS
  RingBytes,       \* size of Channel_circular_input_buffer
  MinimumFree,     \* INPUT_BUFFER_MINIMUM_FREE
  FftSize,         \* fft_size, samples of an FFT of the delay correction
  NumberFfts,      \* n_ffts_per_integration
  MaxFfts          \* nfft_max, FFTs in one output element

ASSUME SampleReaderAssumption ==
  /\ RingBytes \in Nat /\ MinimumFree \in Nat /\ RingBytes > MinimumFree
  /\ FftSize \in Nat \ {0} /\ NumberFfts \in Nat \ {0} /\ MaxFfts \in Nat \ {0}
  /\ NumberFfts * FftSize <= SliceSamples

VARIABLES
  ring,            \* the bytes between read and write, as items of the stream
  jobs,            \* Reader_thread::queue_, how many
  newStream,       \* new_stream_available
  readerState,     \* state of the data reader tasklet
  toRead,          \* its bytes_left
  given,           \* slices whose parameters have reached the correlator node
  workerState,     \* state of Bit2float_worker
  bytesLeft,       \* its bytes_left
  invalidLeft,     \* invalid_left
  sampleInByte,    \* sample_in_byte
  curDelay,        \* cur_delay
  currentFft,      \* current_fft
  outIndex,        \* out_index
  rSlice,          \* the slice it works on, 0 before the first one
  out,             \* the samples it has made of this slice
  invalid,         \* the list of invalid samples, <<start, n_invalid>>
  failed           \* assertions that failed

rVars == <<ring, jobs, newStream, readerState, toRead, given>>
bVars == <<workerState, bytesLeft, invalidLeft, sampleInByte, curDelay, currentFft,
           outIndex, rSlice, out, invalid>>
vars == <<wire, wVars, rVars, bVars, failed>>

ReaderInit ==
  /\ ring = <<>>
  /\ jobs = 0 /\ given = 0
  /\ newStream = FALSE /\ readerState = "IDLE" /\ toRead = 0
  /\ workerState = "IDLE"
  /\ bytesLeft = 0 /\ invalidLeft = 0 /\ sampleInByte = 0 /\ curDelay = -1
  /\ currentFft = NumberFfts /\ outIndex = 0
  /\ rSlice = 0
  /\ out = <<>> /\ invalid = <<>>
  /\ failed = {}

SfxcAssert(name, holds) == failed' = IF holds THEN failed ELSE failed \cup {name}

-----------------------------------------------------------------------------
\* Correlator_node::receive_parameters: the reader thread is told at once, the
\* rest of the node when it is done with its present slice; the manager gives
\* a node at most one slice ahead.
ReceiveParameters ==
  /\ given < NumberSlices /\ given <= rSlice
  /\ given' = given + 1
  /\ jobs' = jobs + 1
  /\ UNCHANGED <<wire, wVars, ring, newStream, readerState, toRead, bVars, failed>>

\* Reader_thread::fetch_new_time_slice, when its reader is not active().
FetchNewTimeSlice ==
  /\ jobs > 0
  /\ readerState = "IDLE" /\ ~newStream
  /\ jobs' = jobs - 1
  /\ newStream' = TRUE
  /\ UNCHANGED <<wire, wVars, ring, readerState, toRead, given, bVars, failed>>

\* Bytes of an item: a header of one byte, and one or two bytes with it.
ItemBytes(i) ==
  CASE i.type \in {"DATA", "INVALID"} -> 3
    [] i.type = "DELAY" -> 2
    [] OTHER -> 1
BytesRead == FoldSeq(LAMBDA i, n : n + ItemBytes(i), 0, ring)
BytesFree == RingBytes - BytesRead

\* do_task of the reader for a header: what follows it is read at once.
ReadHeader ==
  /\ readerState = "PROCESSING_STREAM" \/ (readerState = "IDLE" /\ newStream)
  /\ wire # <<>>
  /\ BytesFree >= MinimumFree
  /\ newStream' = IF readerState = "IDLE" THEN FALSE ELSE newStream
  /\ SfxcAssert("ring", BytesFree > 3)
  /\ ring' = Append(ring, Head(wire))
  /\ wire' = Tail(wire)
  /\ readerState' = CASE Head(wire).type = "DATA" -> "RECEIVE_DATA"
                      [] Head(wire).type = "ENDSTREAM" -> "IDLE"
                      [] OTHER -> "PROCESSING_STREAM"
  /\ toRead' = IF Head(wire).type = "DATA" THEN Head(wire).value ELSE toRead
  /\ UNCHANGED <<wVars, jobs, given, bVars>>

\* do_task in RECEIVE_DATA: blocks until it has all the bytes that fit.
ReceiveData ==
  /\ readerState = "RECEIVE_DATA"
  /\ BytesFree >= MinimumFree
  /\ LET n == Lower(toRead, BytesFree - 1) IN
       /\ Len(wire) >= n
       /\ ring' = ring \o SubSeq(wire, 1, n)
       /\ wire' = SubSeq(wire, n + 1, Len(wire))
       /\ toRead' = toRead - n
  /\ readerState' = IF toRead' = 0 THEN "PROCESSING_STREAM" ELSE "RECEIVE_DATA"
  /\ UNCHANGED <<wVars, jobs, newStream, given, bVars, failed>>

-----------------------------------------------------------------------------
\* Correlator_node::set_parameters for the next slice, once the present one
\* has been correlated, and Bit2float_worker::set_parameters.
SetParameters ==
  /\ currentFft = NumberFfts
  /\ given > rSlice
  /\ rSlice' = rSlice + 1
  /\ currentFft' = 0 /\ outIndex' = 0
  /\ invalidLeft' = 0 /\ sampleInByte' = 0 /\ curDelay' = -1
  /\ out' = <<>> /\ invalid' = <<>>
  /\ UNCHANGED <<wire, wVars, rVars, workerState, bytesLeft, failed>>

FrameFfts == Lower(MaxFfts, NumberFfts - currentFft)
FrameSamples == FrameFfts * FftSize
Free == FrameSamples - outIndex
Working == currentFft < NumberFfts /\ outIndex < FrameSamples

\* IDLE, a header DATA.
StartData ==
  /\ Working /\ workerState = "IDLE" /\ BytesRead >= 3
  /\ Head(ring).type = "DATA"
  /\ bytesLeft' = Head(ring).value
  /\ workerState' = "SEND_DATA"
  /\ ring' = Tail(ring)
  /\ UNCHANGED <<wire, wVars, jobs, newStream, readerState, toRead, given, invalidLeft,
                 sampleInByte, curDelay, currentFft, outIndex, rSlice, out, invalid, failed>>

\* Mutant: a delay that falls from the start of a byte to the end of the one
\* before it drops a sample.
InsertAtMinusOne(diff) == diff = -1

\* One sample is inserted when the delay decreases, dropped when it increases.
Insert(diff) == diff = -1 \/ diff > 1

\* IDLE, a header DELAY: the first one says where in the first byte to start.
ChangeDelay ==
  /\ Working /\ workerState = "IDLE" /\ BytesRead >= 3
  /\ Head(ring).type = "DELAY"
  /\ curDelay' = Head(ring).value
  /\ \/ /\ curDelay < 0
        /\ sampleInByte' = curDelay'
        /\ UNCHANGED <<outIndex, out, failed>>
     \/ /\ curDelay >= 0 /\ Insert(curDelay' - curDelay)
        /\ out' = Append(out, <<"inserted">>)
        /\ outIndex' = outIndex + 1
        /\ UNCHANGED <<sampleInByte, failed>>
     \/ /\ curDelay >= 0 /\ ~Insert(curDelay' - curDelay)
        /\ SfxcAssert("remove", sampleInByte = 0)
        /\ sampleInByte' = 1
        /\ UNCHANGED <<outIndex, out>>
  /\ ring' = Tail(ring)
  /\ UNCHANGED <<wire, wVars, jobs, newStream, readerState, toRead, given, workerState,
                 bytesLeft, invalidLeft, currentFft, rSlice, invalid>>

\* IDLE, a header INVALID.
StartInvalid ==
  /\ Working /\ workerState = "IDLE" /\ BytesRead >= 3
  /\ Head(ring).type = "INVALID"
  /\ invalidLeft' = Head(ring).value
  /\ invalid' = Append(invalid, <<currentFft * FftSize + outIndex, invalidLeft'>>)
  /\ workerState' = "SEND_INVALID"
  /\ ring' = Tail(ring)
  /\ UNCHANGED <<wire, wVars, jobs, newStream, readerState, toRead, given, bytesLeft,
                 sampleInByte, curDelay, currentFft, outIndex, rSlice, out, failed>>

\* IDLE, the end of the stream: there were not enough samples.
UnexpectedEnd ==
  /\ Working /\ workerState = "IDLE" /\ BytesRead >= 3
  /\ Head(ring).type = "ENDSTREAM"
  /\ SfxcAssert("header", FALSE)
  /\ UNCHANGED <<wire, wVars, rVars, bVars>>

SendInvalid ==
  /\ Working /\ workerState = "SEND_INVALID"
  /\ LET room == Lower(Free, invalidLeft)
         drop == Lower(sampleInByte, room)
         n == room - drop
     IN  /\ sampleInByte' = sampleInByte - drop
         /\ out' = out \o [i \in 1 .. n |-> <<"invalid">>]
         /\ outIndex' = outIndex + n
         /\ invalidLeft' = invalidLeft - room
  /\ workerState' = IF invalidLeft' = 0 THEN "IDLE" ELSE "SEND_INVALID"
  /\ UNCHANGED <<wire, wVars, rVars, bytesLeft, curDelay, currentFft, rSlice, invalid, failed>>

\* The sample of the station at position i of the bytes at the head of the ring.
SampleAt(i) ==
  (ring[1 + (i \div SamplesPerByte)].value * SamplesPerByte) + (i % SamplesPerByte)

SendData ==
  /\ Working /\ workerState = "SEND_DATA"
  /\ ring # <<>>
  /\ LET bytes == Lower(BytesRead, bytesLeft)
         n == Lower(bytes * SamplesPerByte - sampleInByte, Free)
         used == (n + sampleInByte) \div SamplesPerByte
     IN  /\ out' = out \o [i \in 1 .. n |-> <<"sample", SampleAt(sampleInByte + i - 1)>>]
         /\ outIndex' = outIndex + n
         /\ bytesLeft' = bytesLeft - used
         /\ sampleInByte' = (n + sampleInByte) % SamplesPerByte
         /\ ring' = SubSeq(ring, used + 1, Len(ring))
  /\ workerState' = IF bytesLeft' = 0 THEN "IDLE" ELSE "SEND_DATA"
  /\ SfxcAssert("end of data", bytesLeft' = 0 => sampleInByte' = 0)
  /\ UNCHANGED <<wire, wVars, jobs, newStream, readerState, toRead, given, invalidLeft,
                 curDelay, currentFft, rSlice, invalid>>

\* PURGE_STREAM: the rest of the previous slice is thrown away.
PurgeBytes ==
  /\ Working /\ workerState = "PURGE_STREAM" /\ bytesLeft > 0
  /\ ring # <<>>
  /\ LET n == Lower(BytesRead, bytesLeft) IN
       /\ ring' = SubSeq(ring, n + 1, Len(ring))
       /\ bytesLeft' = bytesLeft - n
  /\ UNCHANGED <<wire, wVars, jobs, newStream, readerState, toRead, given, workerState,
                 invalidLeft, sampleInByte, curDelay, currentFft, outIndex, rSlice, out,
                 invalid, failed>>

PurgeHeader ==
  /\ Working /\ workerState = "PURGE_STREAM" /\ bytesLeft = 0
  /\ ring # <<>>
  /\ workerState' = IF Head(ring).type = "ENDSTREAM" THEN "IDLE" ELSE "PURGE_STREAM"
  /\ bytesLeft' = IF Head(ring).type = "DATA" THEN Head(ring).value ELSE 0
  /\ ring' = Tail(ring)
  /\ UNCHANGED <<wire, wVars, jobs, newStream, readerState, toRead, given, invalidLeft,
                 sampleInByte, curDelay, currentFft, outIndex, rSlice, out, invalid, failed>>

\* Mutant: the rest of the stream is not purged.
PushElementNoPurge ==
  /\ currentFft < NumberFfts /\ outIndex = FrameSamples
  /\ currentFft' = currentFft + FrameFfts
  /\ outIndex' = 0
  /\ UNCHANGED <<wire, wVars, rVars, workerState, bytesLeft, invalidLeft, sampleInByte,
                 curDelay, rSlice, out, invalid, failed>>

\* The end of do_task: the element is full and goes to the delay correction.
PushElement ==
  /\ currentFft < NumberFfts /\ outIndex = FrameSamples
  /\ currentFft' = currentFft + FrameFfts
  /\ outIndex' = 0
  /\ workerState' = IF currentFft' = NumberFfts THEN "PURGE_STREAM" ELSE workerState
  /\ UNCHANGED <<wire, wVars, rVars, bytesLeft, invalidLeft, sampleInByte, curDelay, rSlice,
                 out, invalid, failed>>

ReaderNext == ReceiveParameters \/ FetchNewTimeSlice \/ ReadHeader \/ ReceiveData
WorkerNext ==
  \/ SetParameters \/ StartData \/ ChangeDelay \/ StartInvalid \/ UnexpectedEnd
  \/ SendInvalid \/ SendData \/ PurgeBytes \/ PurgeHeader \/ PushElement
=============================================================================
