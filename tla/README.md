# SFXC: a TLA+ model of the distributed correlator

SFXC is the software correlator of JIVE.  It runs as an MPI program: a *manager
node* cuts a job into integration slices, *input nodes* (one for each station)
read the recordings, align them and cut them into slices, *correlator nodes*
correlate one slice of one frequency channel at a time, and an *output node*
writes the slices to the output file in the order of their numbers.  This
directory models those parts that make the program hard to test: the protocol
between the nodes, and the pipelines of threads, buffers and clocks that a sample
goes through between the recording and the correlation.

All definitions are translated from the code in `src/sfxc`; `PROJECT.json` says
for each definition which lines it stands for.

## 1. The system

### 1.1 Inventory

| Part (main source) | State it keeps | Operations | Hard to get right | What makes it correct |
|---|---|---|---|---|
| Manager node (`manager_node.cc`, `manager_node_controller.cc`, `abstract_manager_node.cc`) | status, scan, slice, channel, slice number, ready correlator nodes | one round of the loop per status; *slice ended* and *output finished* messages; END_NODE to all | three nested loops (scans, slices, channels), each with its own end; messages between any two rounds; shutdown while others work | slices inside their scans, each once, all channels; the job ends after the last slice is written |
| Correlator node (`correlator_node.cc`, `correlation_core.cc`) | status, queue of slices, `has_requested`, FFTs done | parameters in, a batch of FFTs, request at 9/10, result out, END_NODE | a request goes out before the slice is done; END_NODE in the middle of a round | exactly one request per node; END_NODE is never lost |
| Output node (`output_node.cc`, `output_node_controller.cc`) | order map, queue of sizes per stream, current slice and stream | weight in, number of slices in, bytes in, slice end, shutdown | sizes by MPI, bytes by TCP, in any order between nodes | file in slice order; nothing lost at the end |
| Output byte path (`data_reader2buffer.h`, `data_reader_buffer.h`, `data_reader.cc`, `output_node.cc:180-230`) | pool, queue of elements, bytes left of an element, of a slice and of a bin | socket read, `get_bytes`, `write_output` | reads end anywhere, also within the 4 byte bin number, and a writer is looked up all the same | every bin in its own file, all bytes in order, whatever number is left from before |
| Reader of the recording (`input_data_format_reader_tasklet.cc`, `vdif_reader.cc`) | current time and frames left per channel, element in hand | next interval, goto time, next frame, filling in | missing, late, invalid, foreign frames; end of file; a station that leaves | blocks follow each other in time; a good frame is neither lost nor moved |
| Readers of Mark5A, Mark5B and VLBA recordings (`mark5a_reader.cc`, `mark5b_reader.cc`, `vlba_reader.cc`, `input_data_format_reader.cc`) | place in the recording, buffer, current time and day | open, next block, goto time, search for a header, fill pattern | lost, spoiled or misread words anywhere, also in the frame number, which no CRC covers; a header across two windows of the search; midnight and New Year; where a file ends | each block at its time; only the damage and what follows at once is lost; fill is marked |
| Data writer (`input_node_data_writer.cc`), delay list (`input_node_tasklet.cc`) | current time, slice size left, delay index, position in the element | start of a slice, delay change, invalid run, data, end | the delay changes within a slice, data begin late or early | each sample at its time, invalid ones marked |
| Channel extractor (`channel_extractor_tasklet.cc`) | queue in, pool and queue out, sequence number | worker threads | several threads, one order, a finite pool | order kept, no deadlock |
| Input node (`input_node.cc`, `input_node_tasklet.cc`) | status, queue of intervals, a queue of slices per writer | times, slices and delays in; reader and writers in turn; END_NODE | two channels share the stream to a correlator node; a scan may hold no data | a slice goes whole to its stream, every slice is written, the node ends |
| Reader thread and bit2float worker (`correlator_node.h`, `correlator_node_data_reader_tasklet.cc`, `bit2float_worker.cc`) | ring buffer, headers half read, sample within a byte, output element | fetch slice, read header, read data; convert, insert, drop, mark | two threads on one ring; headers split over reads | as above, and no thread waits for ever |
| Delay tables (`delay_table_akima.cc`, `mpi_transfer.cc`) | scans, arrays and their indices, clocks | open a file, append a table, next scan, spline of a slice | tables come ahead of the slices that need them | delays and clock of the scan of the slice |
| UVW model (`uvw_model.cc`) | scans, arrays and their indices, the splines in use and the time they end | add scans, next scan, splines of a slice, coordinates of each phase centre | splines are kept from slice to slice | coordinates of the scan of the slice, for each phase centre it asks for |
| Control parameters (`control_parameters.cc`) | the control file, the VEX file | channels, streams and polarisations of a station and of a slice; bits of a channel in each recording format | the manager and the control parameters count the same things apart | both ends of a stream agree; no bit goes to two channels |
| Pure algorithms | none | `mjd`, `get_date`, `get_delays`, `find_invalid` | borders | agree with their definition |
| Connections (`*_controller.cc`, `data_reader_*.cc`, `data_writer_*.cc`) | listening ports, streams | handshakes at the start | who connects first, and whose connection is accepted | each stream to its node; no two nodes wait for each other |
| Containers and threads (`lib/containers`, `lib/common`) | free list, queue, condition variables | allocate, release, push, pop, close | missed wake-ups | no thread waits for ever |
| Numerics (`correlation_core*.cc`, `delay_correction.cc`, `sfxc_fft.cc`) | floating point arrays | FFT, fringe rotation, accumulation | | not modelled |
| Control file, VEX, log node, output header, GUI and utilities | | | | not modelled; see section 6 |

### 1.2 How the parts interact

    manager --parameters--> correlator --bytes (TCP)--> output
       ^  \                    |   \                      |
       |   '--intervals,       |    '--weight, size (MPI)-'
       |      delays, slices   '--"slice ended" (MPI)--> manager
       |           |
       |           v
       |        input --headers and bytes (TCP)--> correlator
       '------------------- "all written" (MPI) ---------- output

Each rank receives MPI messages from any source in one loop
(`Node::check_and_process_message`), either when it is idle or at the head of a
round of its work.  MPI orders the messages of one sender to one receiver and
nothing else.

## 2. Modules

    Mailboxes <- Manager, Correlator, OutputNode <- Schedule <- Abort
                                    OrderedOutput <- Schedule (refinement)
                                    Schedule <- ScanBroadcast
    Abort <- Schedule_proofs
    Schedule_proofs, ScanBroadcast <- ScheduleScans_proofs
    DataWriter <- SampleReader <- SampleStream
    OutputStream <- OutputStream_proofs
    DelayTable <- UvwModel
    ChannelSetup <- Tracks
    FormatReader <- FormatReader_proofs
    InputNode <- Supply <- Supply_proofs <- SupplyOrder_proofs
    Extraction <- Extraction_proofs
    Connect <- Connect_proofs
    BlockingReader <- Mark5bReader, HeaderSearch <- Mark5aReader, VlbaReader
    Algorithms, Tracks <- MCAlgorithms
    Mark5bReader, Mark5aReader, VlbaReader <- MCAlgorithms

**Mailboxes, Manager, Correlator, OutputNode, Schedule** are the core: the three
kinds of loop and the messages between them.  One action is one round of a loop
(a `case` of the `switch` with all that it calls) or the handling of one message.
Every FIFO of MPI (sender, receiver) that a job uses is a variable; messages that
carry no data are counters.  `failed` collects the assertions that fail, since
an assertion of the code ends the job.  `Manager` counts time in ticks; `StationTimes` is
what the stations may report as their position when a scan starts.  The status
`END_WRITING` of the output node is the rest of a round in which `terminate()` has
set `END_NODE`, which the code may overwrite before the round ends.

**OrderedOutput** is what a job promises: slices get numbers, the output is an
append-only log that takes them in the order of their numbers, and the job ends
only when all are in it.  `Schedule` implements it (`ImplementsOrderedOutput`) with
the refinement mapping `issued <- outputSlice`, `log <- file`.

**Abort** adds what follows a failed assertion of the manager: END_NODE to all the
nodes at once, wherever they are.

**ScanBroadcast** adds what may keep a node from going on.  At the start of a scan
the manager hands the tables to all correlator nodes with a collective `MPI_Bcast`, which
a node enters where it finds the message, also in the middle of a slice; and a node that has
correlated a slice writes it in its loop, and waits until the stream takes it.  `Above`
says which nodes a node depends on to be reached by the broadcast, `Capacity` how much
a stream holds that nobody reads.

**OutputStream** has the bytes that `OutputNode` abstracts to whole slices.  A byte
is its position in the stream, and in the number in front of a bin it also has a value; the files at the end are
sequences of positions.  The loop of
`do_get_bytes` is taken step by step (`NextElement`, `CopyBytes`), since the other thread goes on meanwhile.
`current_output_file` is kept byte by byte, from -1 on: a read that ends inside a number looks up a writer by what
is there (`AfterLookup`, with its assertion), and slices of other streams, which are written between two of this
one, leave any number in it (`LeftInCurrentFile`).

**DataWriter, SampleReader, SampleStream** follow one stream from the data writer
through the TCP connection and the ring buffer to the samples that are correlated.
A byte is its position in the recording, a sample its number, so the correct
result can be stated: sample *k* of a slice is the sample of the station at the time
of *k* plus the delay of that time.  An iteration of a loop of the code is a step of
the thread that runs it.

**FormatReader** is the tasklet that reads the recording, with a VDIF reader whose
threads are mapped to channels.  Frames are records of thread, time and validity;
`memory` says which frame each buffer holds now, so a buffer that is used again
while it is queued shows.

**InputNode, Supply** are the input nodes of a job and what they owe the correlator
nodes.  `InputNode` has the loop of an input node, its reader thread (an interval is a
sequence of blocks, which may be invalid) and its data writers with the slices they have in
hand; `Supply` composes several of them with the slices that the manager hands out, the
correlator nodes that read their streams, and the end of the job.  The bytes of
a slice, which are in `DataWriter`, are here a header and a number of units.

**Extraction** is the channel extractor: worker threads that take blocks from one
queue, take turns by sequence number, allocate outputs from a pool and push them to one
queue per channel.  A lock and the condition variable it goes with are one step where
the code holds the lock, and two where it waits; `Memory_pool` and
`Threadsafe_queue` keep their own rules on who is woken.

**Connect** is the start of a job: the manager sends the requests in the order of its code,
input, correlator and output nodes listen, connect and accept, and answer.  A port
keeps a backlog of connections in the order they came in.

**DelayTable** has the delays of one station from the delay file to the
splines of a slice.  A delay is the triple of scan, source and time it is for.

**UvwModel** adds the coordinates of the station, which come in tables like the delays, with
the splines that are kept until the time passes their second.  A slice asks for the coordinates of one phase centre
or, with `multi_phase_center`, of one for each source of its scan, and each call asserts that its spline is there.

**ChannelSetup, Tracks** are pure: which channels start a slice and which go with them,
the streams on which an input node sends them and those on which the correlator node
expects them, and the bits of each channel in the words of a Mark5A, VLBA, Mark5B or VDIF
recording.  `MCAlgorithms` has small jobs and recordings.  The name of a channel at a station
(`frequency_channel`) is found once and kept in the job.

**BlockingReader, Mark5bReader, HeaderSearch, Mark5aReader, VlbaReader** are the readers of
recordings on disk packs and tapes, from the opening over the reading of blocks and the seeking to the search for
the next header after damage.  A word (Mark5B) or byte is its place in the recording as it was made,
so that a word in the wrong block shows; damage makes it `Noise` or, where it may look like a
header, `Ones`.  A reader is a function of the recording and of where it is.  A recording has ended only after a read past its end (`Ended`), as with `eof()` of a file.
A header of Mark5B has its four words (sync, frame number, second, CRC and digits); `CheckHeader` checks what the
code does, which depends on what the recorder writes: a CRC, zero for the CRC, or no digits and a wrong CRC.
A spoiled frame number gives another number.  `HeaderSearch` has
what Mark5A and VLBA share.  `FindFill` of `BlockingReader` finds the stretches of fill in a
block, in steps that may miss short ones.  `MCAlgorithms` has the recordings and their damage.

**Algorithms** (dates, changes of delay, flagged samples) is pure; `MCAlgorithms` has the reference
definitions and runs them over all small inputs.  In the code `get_delays`
recurses over halves of an interval, in the model this is a recursive function.

## 3. Runs

| Run | Question | Result |
|---|---|---|
| `schedule` | Two scans with a gap, neither a multiple of the integration time, two channels, two correlator nodes, stations late or too late: are requests and slices right, what is in the file after a failed assertion, and who can outlive END_NODE? | holds |
| `schedule_live` | With broadcasts at the start of scans and streams that block: two adjacent scans of one integration each, four channels with crossed polarisations, slices of one FFT. Does the job end, in order, with all channels, without a failed assertion? | holds |
| `abort_correlators` | Does a failed assertion terminate all correlator nodes? | violated |
| `output_stream` | Are the bins written to their files, whatever the sizes of the reads, and where can the lookup of a writer fail? | holds |
| `samples` | About 350 inputs of a stream: samples in place, flagged ones marked, no thread stuck | holds |
| `delay_table` | Three scans, two adjacent, one with two sources; tables up to two scans ahead: are the delays and coordinates those of the slice, for one phase centre or all? | holds |
| `reader` | 543 recordings of two threads, three channels, two intervals that overlap by a frame | holds |
| `supply` | Two input nodes of two channels serve two correlator nodes: does each stream carry whole slices, and do the nodes end? | holds |
| `supply_adjacent` | The same with a second scan that begins where the first ends: does each stream carry the data of its slices? | violated |
| `extraction` | Two threads, two channels, a pool of four: order of the blocks, and end | holds |
| `connect` | Does each stream of a job lead to the node it is for, and do all handshakes end? | holds |
| `algorithms` | Dates, delay lists, flagged samples, channels, streams and bits of recordings, 9200 damaged Mark5B recordings of three kinds of recorder, 4200 damaged or cut Mark5A and VLBA recordings, and fill, against their definitions | holds |

### What they show

- *Requests* (`OneRequest`): request, answer, queue and work of a correlator node
  always add up to one.  It is what keeps the queue of a node at one slice ahead, although the
  request goes out early; with slices of a single FFT (`schedule_live`) `AlmostFinished` is true from
  the start, and the request goes out in the first round of a slice, before anything of it has been read.
- *Order* (`FileInOrder`, `ImplementsOrderedOutput`): weights, sizes
  and bytes come in any interleaving.
- *Shutdown* (`EndFindsIdle`, `EventuallyTerminated`): END_NODE finds all correlator
  nodes in STOPPED, where it cannot be lost.  This rests on the manager waiting for
  the output node: without it (the mutant of `StopCorrelating`) a node may still be busy.
- *Scans* (`SlicesOfScans`, `AllChannels`).
- *Broadcasts* (`schedule_live`): nodes wait in `write()` for the output node, the output node
  for the slice of another, and that one may be in `MPI_Bcast`.  The job ends all the same, if the
  broadcast reaches each node without the help of the others; see section 7 for a tree.
- *Survivors* (`SurvivorsFinishTheirSlice`): after a failed assertion the step in which a correlator node takes
  END_NODE takes it out of its loop, unless that very step finishes the slice in hand.  Nothing else loses
  the message, also not in a node that has finished slices before.
- *Delays and coordinates* (`DelaysOfScan`, `UvwOfScan`): each point of a
  spline belongs to the scan of the slice, the points surround the slice and are enough
  for a spline, and no scan of a table is skipped.  A scan of several sources ends the job if it is
  correlated for all of them, and nothing else does (section 7).
- *Output files* (`RightFiles`, `FailsOnlyAtStart`, `EventuallyWritten`): a bin goes to the file of its number whatever
  the reads are, also when a number is split and completes the one that was there before; with at most
  256 files, whose numbers differ in one byte, a lookup by such a mixture always finds some writer, and writes nothing
  to it.  The very first number of the stream is the exception, see section 7.
- *Channels* (`StreamsAgree`): the slices of a piece of time are as many as
  each of them says, with each channel in one; and the manager, which tells an input node on
  which stream to send a channel, agrees with the control parameters, from which the
  correlator node knows what is on a stream.
- *Bits* (`BitsOfChannels`): no bit of a word goes to two samples, none is left, and the three
  ways in which a VEX file describes a Mark5B recording give the same.
- *Damaged recordings* (`Mark5bInPlace`, `TapesInPlace`): what is behind a whole header is never moved in time, also
  after midnight and New Year.  In Mark5B only the damage and two blocks after it are lost, in Mark5A and
  VLBA only damaged frames and the one that follows; a seek passes over at most one more.  The first whole frame is found
  wherever a recording begins and whatever looks like a header in front of it.  Excepted, and in section
  7: a spoiled frame number of Mark5B is not seen and moves its own block; a recorder without digits loses the first
  block of each second; with 64 tracks of Mark5A one frame may be lost at the start; in a VLBA file a seek may end one
  frame early; and a VLBA recording ends with one block more, of the time of the last one.
- *Fill* (`FillMarked`): every stretch as long as a packet is marked whole, and no data as long as that with it.
- *Samples* (`SamplesInPlace`, `FlaggedIffInvalid`): up to the granularity of the code, which changes the delay at the
  start of a byte.  A sample is invalid only if the recording was, or for the
  one byte two slices share when its block has been popped.
- *Reader* (`BlocksFollow`, `FramesKept`, `BlocksHoldTheirFrameButLast`,
  `IntervalsFilled`).
- *Input nodes* (`StreamsCarrySlices`, `OneWriterPerStream`, `CancelledIdle`,
  `EventuallyEnded`): the writers of an input node take turns on a stream without
  asking each other; what keeps a slice whole is that a correlator node has at most
  one slice ahead.  Each unit on a stream is of the channel and the time that the slices of its
  node ask for, given a gap between scans; the run `supply_adjacent` shows why (section 4).
- *Extraction* (`TakenInOrder`, `EventuallyJoined`): threads that finish out of
  order hand on in order, and none is left waiting when the queue is closed.
- *Connections* (`RightPeers`, `EventuallyConnected`): a node that accepts does not
  ask who connected, so the order of the manager's messages decides.

### Bounds, and why they are enough

- `schedule`: two correlator nodes are needed for slices to overtake each
  other; two scans with a gap for a jump of the slice number, and a stop time of the
  job within a scan.  Stations are on time, four ticks late, or so late that nothing of the
  second scan is left and the manager's assertion fails while the first is being correlated.  `NumberFfts = 2` separates the request (nine tenths of two is 1)
  from the end of a slice; `schedule_live` has `NumberFfts = 1`, where the request goes out before the first input.
- `schedule_live`: two tables in each broadcast round, streams that hold nothing (`Capacity = 0`, the
  worst case), two adjacent scans of one integration, that is two slices for two nodes each, so that the second broadcast
  meets nodes that are busy with the first scan; channels 0 and 3, 1 and 2 cross.
- `output_stream`: numbers of 2 bytes instead of 4, whose bytes have four values, and elements of 4
  bytes: a number may be split, an element may hold the end of a bin, and slices differ in their
  number of bins.  Three files, and any of their numbers left over from other streams, so that the number
  in hand may be right, wrong or -1 when the next one begins.  No slice is smaller than an element (see section 7).
- `samples`: blocks of 5 bytes, slices of 4 bytes, a ring of 9 bytes with 4 kept free:
  blocks, slices and the ring wrap at different places.  Delays from -3 to 5 samples
  have each residue modulo the 4 samples of a byte, and rise, fall or turn.
  The ring's 4 bytes are the least the code can work with (section 7).
- `delay_table`: ticks of a quarter of a second, slices of 1.5 s that do not start on seconds, scans
  of 10 and 11 s, the second right after the first and the third after a gap; a queue of three
  slices lets tables run two scans ahead.  The second scan has two sources, the others one, and the job has
  `multi_phase_center` or not.
- `reader`: 8 frames per thread, intervals of 4 and 3 frames, at most one restart of a
  read (256 in the code) and a skip of 3 frames.  One or two faults (missing, invalid, of
  another time, of an unwanted thread), or cuts and gaps at every place.
- `supply`: two input nodes of two channels, two correlator nodes, three units in a slice, a
  pool of six blocks and a stream that holds one unit; two scans with a gap, of which one station
  observes both and the other the first only.  `supply_adjacent` has no gap.
  Deadlock is not checked because the job ends; `EventuallyEnded` finds a
  node that does not.
- `extraction`: two worker threads, two channels that come from one, three blocks, an
  input queue of two and a pool of four, the least with which it ends
  (threads times channels).
- `connect`: two stations, two correlator nodes, crossed polarisations.  With
  three correlator nodes the run takes four minutes and holds too.
- `algorithms`: every day of 1901 to 2099; lists of up to three invalid intervals; two stations
  with up to three channels out of two frequencies, sidebands and polarisations, or both
  polarisations of two frequencies, the second station with any of them, the same or half
  the bandwidth; recordings of one, two or four channels in any order, of one or two bits,
  fan-out of one, two and four, one or two headstacks.
  Mark5B: seven blocks of two frames (8 in the code, for which the arithmetic is the same), headers of four words as they are, frames of nine, a search of
  two blocks.  Lost are one word, three, or as many as a frame with its header, at every place of the second block, or a word is
  spoiled there; a frame number becomes that of another frame, of the start of another block, or
  one beyond the second.  A second damage is in or beside one of the headers of the next two blocks; without a
  CRC it is a spoiled number.  In these recordings the second is not spoiled (section 6).
  Mark5A and VLBA: six frames of 96 bytes for each byte of a word, which has 1, 2 or 8 (opening
  only); headers of five words or, in VLBA, two and three, in the proportions of the code (64, 32, 64 and 64, 96); eight frames
  in a day, so that midnight and, in Mark5A, New Year fall within a recording.  It begins at
  any place of the first frame and is damaged at any place of the second and third (with two bytes
  per word at every fifth): lost are one byte, two words or a frame; one byte is spoiled; or a run of ones appears.
  Fill: all blocks of up to 11 words, a packet of 4.

### Fairness

`Schedule`: weak fairness of each loop and of each mailbox: each rank is a process of
its own, loops poll and MPI delivers.  Correlating goes on because the input data are
assumed to arrive (`Correlate`); the pipeline that delivers them is examined in
`SampleStream`, under weak fairness of each of its three threads, which run
whenever `has_work()` says so.  `OutputStream`: weak fairness of the reading thread
and of the output node.  `FormatReader` is one thread that never blocks on data
(the end of a file is an answer, and the pool downstream is emptied by others).
`Supply`: weak fairness of each thread of an input node and of each reading correlator node.
`Extraction`: weak fairness of each worker, of the reader that fills the queue and of the
writers that empty it.  `Connect`: weak fairness of each node, which is a process.
`ScanBroadcast`: that of `Schedule` where a loop can go on; the manager leaves `MPI_Bcast` at
the latest when all nodes have entered it, all that MPI promises of a collective call.
`Abort` takes the fairness of `Schedule`, after the failed assertion also.

## 4. Findings

`abort_correlators`: END_NODE taken in the round in which a slice ends is
overwritten by the status set at the end of the round (`correlator_node.cc:176`).
The node never leaves its loop and the barrier at the end is never passed.

`supply_adjacent`: if a scan begins where the one before ends, as `manager_node.cc` allows, the frame
that the reader has in hand at the end of the first scan is at the very start of the second.  The reader
pushes it as the last block of the first interval and, since `goto_time` has nothing to skip, again as the first
block of the second (`input_data_format_reader_tasklet.cc:193`, `:219`).  The data writer takes the first of the two for the first block of
the new interval, counts time on from it by blocks (`input_node_data_writer.cc:150`), and so takes the second for
the block after: the first slice of the second scan is made of data of a block too early, in place of what `add_time_interval`
announces (`input_node_tasklet.h`: the times for which the node should output data).
With a gap between scans `goto_time` drops the frame.

## 5. Proofs

All theorems hold for every value of the constants that satisfies the named assumptions of the
modules (`ManagerAssumption`, `CorrelatorAssumption`, `CorrelatorsAssumption`, `OutputStreamAssumption`, `FileAssumption`,
`ExtractionAssumption`, `FormatReaderAssumption`, `InputNodeAssumption`, `SupplyAssumption`,
`ConnectAssumption`), which TLC evaluates in the runs.  Nine
theorems have conditions as
hypotheses of their own, because the code relies on it and does not check it; the instances of the runs
satisfy them (`ASSUME` of `MCScanBroadcast` and `MCFormatReader`; `NumberFfts = 2` and the scans of `MCSupply.cfg`).

| Theorem | Module | Says | Hypothesis |
|---|---|---|---|
| `TypeCorrect` | `Schedule_proofs` | `TypeOK` | |
| `OneRequestPerNode` | `Schedule_proofs` | `OneRequest`, `ReadyOnce` | |
| `OutputInOrder` | `Schedule_proofs` | `FileInOrder` | |
| `EndNodeFindsIdle` | `Schedule_proofs` | `EndFindsIdle` | |
| `NoSliceLost` | `Schedule_proofs` | `SlicesKept` | |
| `ProtocolAssertionsHold` | `Schedule_proofs` | no assertion on the order of messages fails | |
| `ImplementsTheLog` | `Schedule_proofs` | the steps of the job are steps of `OrderedOutput` | |
| `SlicesInScans` | `ScheduleScans_proofs` | `SlicesOfScans` | |
| `AllChannelsHandedOut` | `ScheduleScans_proofs` | `AllChannels` | `ChannelsPaired` |
| `NoAssertionFails` | `ScheduleScans_proofs` | `AssertionsHold` | `ScansHoldASlice` |
| `BroadcastsAddNothing`, ... | `ScheduleScans_proofs` | `BroadcastSpec => Spec`, and what follows | |
| `TypesAfterAbort`, `OnlyFinishersSurvive`, `FileIsPrefix` | `Schedule_proofs` | types and requests, `SurvivorsFinishTheirSlice`, `PrefixAfterAbort` | |
| `DataInFiles` | `OutputStream_proofs` | `RightFiles` | |
| `FailureAtStart` | `OutputStream_proofs` | `FailsOnlyAtStart` | |
| `ConnectedAsAsked` | `Connect_proofs` | `RightPeers` | |
| `BlocksTakenInOrder` | `Extraction_proofs` | `TakenInOrder` | |
| `BlocksInOrder` | `FormatReader_proofs` | `BlocksFollow` | `NoStrayCopies` |
| `FramesInPlace` | `FormatReader_proofs` | `BlocksHoldTheirFrameButLast` | `NoStrayCopies`, `GivesUpEarly` |
| `FramesReachOutput` | `FormatReader_proofs` | `FramesKept` | `NoStrayCopies` |
| `SupplyInvariant` | `Supply_proofs` | the invariant below | `SeveralFfts` |
| `StreamsNotShared` | `Supply_proofs` | `OneWriterPerStream` | `SeveralFfts` |
| `NothingCutOff` | `Supply_proofs` | `CancelledIdle` | `SeveralFfts` |
| `DataInOrder` | `SupplyOrder_proofs` | `StreamsCarrySlices` | `SeveralFfts`, `ScansApart` |

**Types and requests** (`Schedule_proofs`).  The invariant is

    IInv == TypeOK /\ InBounds /\ ReadyOnce /\ OneRequest

`InBounds` (the scan and the channel are in range in the states that use them) is
needed for the types of what the manager takes from its tables.  `OneRequest`
counts whether a node *is* in `readyNodes`, so it says nothing of a node that is there twice:
`ReadyOnce` is needed for taking the head of the queue to remove it, and in turn follows from
`OneRequest` (a node with a request under way is not in the queue).  The proof has a
lemma for the steps of each kind of node, for types and for requests, over lemmas on
mailboxes (`MailboxAppend`, `MailboxTail`) and on `NextChannel`; the proof
of the last needs that a set of naturals has a least element (`LeastNatural`, from
the well-founded order of the library).

**Order of the output** (`Schedule_proofs`).  `FileInOrder` speaks of the file only; the invariant
says where every slice is that is not in it yet:

    OrderInv == SlicesKept /\ AnnouncedIsBegun /\ OrderIsSizes /\ Writing /\ Ending /\ ProtocolHolds

- `SlicesKept`: the numbers from the length of the file up to the number handed out are *shared out* over the
  correlator nodes: what is on the stream of a node, in its hands, in its queue or under way to it is an increasing
  sequence, no number is with two nodes and none is missing.  So the next number of the file is the first of some node.
- `AnnouncedIsBegun`: the slices that the output node knows or will be told of a stream are those on the
  stream with the one in work, in that order, although one goes by MPI and the other by TCP.
- `OrderIsSizes`: the map of the output node and the sizes of the streams hold the same slices.
- `Writing`: in each state of its loop, which slice the output node is at.
- `Ending`: the order in which the job ends; it gives `EndFindsIdle`.
- `ProtocolHolds`: the assertions are not conclusions only: a slice whose assertion failed would be lost.

Queues are joined by an operator of its own (`Then`) with a few laws, since each step moves a slice from the head of
one queue to the end of the next, and the sequence of a node stays the same (`SharedOut` of the same
sequences).  `ImplementsTheLog` takes the steps one by one: `StartCorrelatorNode` issues a
number, `WriteOutput` appends one at the end of a slice, `StopCorrelating` closes the log, `TerminateNodes` ends it,
and everything else stutters.

**Scans, channels and assertions** (`ScheduleScans_proofs`).

    ScanInv == InsideScan /\ AfterLastScan /\ Earlier /\ SlicesOfScans /\ ChannelToDo

`InsideScan` and `AfterLastScan` tie the three counters of the manager to the scan (multiples of the
integration time, rounded up at the start and down at the end), `Earlier` says that what has been handed out is before
what comes, and `ChannelToDo` that the loop over the channels stops at channels that are still to be done.
`ChannelsInv` has, for each started time slice, the channels behind the loop.
`ChannelsPaired` (no channel is the cross polarisation of two others) is needed: a channel may otherwise be skipped for
one that is itself skipped.  `ScansHoldASlice` is what `input_node_set_time` asserts, stated on the schedule.

**Broadcasts** (the end of `ScheduleScans_proofs`).  Each step of `ScanBroadcast` is a step of `Schedule` or changes none of its
variables, so all theorems on a job hold of it.

**Abort** (`Schedule_proofs`).

    AbortInv == /\ IInv
                /\ failed = {} => OrderInv
                /\ OrderInv \/ AfterFailure

Until an assertion fails the job is any other job.  After it, END_NODE drops slices that nodes have in hand, so what is
announced and what is on a stream may differ by that one slice (`Follows`), and the file is a prefix as long as the output node
reads (`OnTheWay`) or for good when it has stopped (`Still`).
`SurvivorsFinishTheirSlice` is a property of steps: only the node itself takes END_NODE, in one step, and
there the end of a slice is the one branch that leaves another status than END_CORRELATING.

**Bytes to files** (`OutputStream_proofs`).  `RightFiles` says what is in the files; that the next byte goes to the
right one rests on everything in front of it:

    OutputInv == Types /\ InRow /\ InPhase /\ InBin /\ RightFiles /\ KnownFile /\ FailsOnlyAtStart

- `InRow`: the bytes of the buffer, of the element in hand and of the queued elements follow each other from the last byte in a file
  (`Taken`) up to the last received; its laws are those of cutting and joining rows (`RowCut`, `RowJoined`) and of the queue (`ChainGrows`, `ChainTaken`).
- `InPhase`: which bytes `total_bytes_written` counts in which state of the loop, so that `index_in_file` is the place in the
  bin of the next byte of the buffer.
- `InBin`: how much of the number in front of the bin has been read, and that as many bytes of `current_output_file` are
  those of its file: behind the number, all of them.
- `KnownFile`: once the first number has been read, `current_output_file` is the number of some file, also in the middle of
  a number.  If the numbers differ in their first byte only (`FewFiles`, in the property), the first byte that comes
  makes it the new number and the others change nothing; so the lookup never fails again.

`ByteOfSlice` says what byte *o* of slice *k* is.  It needs that the slices end in order: `SliceEnd` is defined by recursion, and what it is
for every number of slices (`EndsDefined`, `SliceEnds`, `EndsAscend`) is proved by the least number for which it
would be otherwise, which takes the place of an induction.

**Extraction** (`Extraction_proofs`).

    EInv == TakenInOrder /\ (writing => Working)

`Working` says that a thread in its turn has the block after `seqno` (`Turn`, `PoppedOnce`), that the elements it holds have the data of
its block (`Extracted`, `HoldsAll`), that no two threads hold an element and none that is still queued is filled
(`HeldOnce`, `QueuedLater`), and that the references of an element are the thread and the queues that have it
(`Counted`), so that it returns to the pool when the last of the channels that share it is done.  The last needs the cardinality of
finite sets; the size of the pool does not matter for the order.

**Reader** (`FormatReader_proofs`).

    FInv == Types /\ Clocks
    HInv == FInv /\ Opened /\ InHand /\ Queues

`Clocks` ties the last block of a channel to its `current` time, per interval.  It holds of the channels a thread is mapped to
(`Main`); that a read hands an element to such a channel is `NoStrayCopies` (section 7).
For the data of the blocks the invariant follows the element in hand, whose buffer `goto_time` reads into: `Opened` (some
wanted frame has been read), `InHand` (between two intervals the element holds the frame of its time, is marked invalid, or
lies before the interval), and `Queues` (every queued block holds its frame, or is the last one of an interval that is over; a
valid block in the buffer in hand is the last of its interval).
The steps that read use that the minimum of a set of integers is in it (`MinNatural`, `MinOfTwo`), and `GaveUp` says what a failing read
has passed over; with `GivesUpEarly` that is before the interval.

    KInv == Sound(recording) => NotYet, Searching or Filling, by the state of the reader

`FramesKept` is the converse: what *must* be in the output.  It speaks of recordings that are `Sound`: in order, no frame of a channel twice, no
run of unwanted frames longer than a read passes over (`Readable`).  A read then finds the next wanted frame (`NextWanted`), so none is
skipped unseen, and what can lose one is that its channel is already past its time.  The invariant bounds the channels by the recording: while the
last frame read is of time *t*, no channel is past *t* + 1, one that is there has had its frame of *t*, and `minLeft` agrees (`Room`).
The step that disturbs this is the skew: a channel that lags gets invalid blocks, up to `2 * NSKEW` behind the first, and as that is at
least 2 and no channel is past *t* + 1, it stays behind *t*.  That is why the claim ends one frame time before the interval or the scan of the station:
there the skew allowed shrinks to nothing and a channel may be filled up before its last frame is read.
The first frame found is excepted, since `goto_time` keeps the mark of an invalid frame that it has passed over.

**Supply** (`Supply_proofs`).  `OneWriterPerStream` is not inductive: a slice comes to a data writer by a message, the writer finds
the stream free in one step and marks it in another, and nothing there keeps a second writer out.  What does is
that a node gets its next slice only when it has read of the present one, so the invariant follows all slices:

    SInv == Types /\ Streams /\ ReadyOnce /\ Requests /\ ReadyIdle /\ WriterStates /\ Endings

`Streams` says three things of each stream.  At most one slice for it waits, in the mail of the station or with a writer
(`OneWaits`); it is active exactly as long as some writer writes on it, which is one only, and a writer that has found it free is
still right (`OneWrites`); and the units on the connection, those left of the slice in work and the slice that waits make up
what the node has not read of the one or two slices it has been given (`Balance`, `Owed`).  `Requests` ties a node's slices to its
place in the queue of the manager.  `ReadyIdle` is the key: a node in that queue waits for no station.  When
a node goes into it, it has read at least one FFT of the slice it has, so by `Balance` less is owed than a whole
slice would add, and none waits.  That is where `SeveralFfts` (two FFTs or more in a slice) is used: with one
FFT a node asks for the next slice before it has read of the present one (`AlmostFinished` of 0 is true), two
channels may find its stream free, and TLC finds `OneWriterPerStream` violated (section 7).
`NothingCutOff` adds `Endings`: END_NODE is sent when the nodes have read everything, so by `Balance` nothing is left with a
writer.  The proof has a lemma for what each kind of step does to the queues of a station (`QueueAdded`, `QueueBegun`,
`QueueEnded`, ...), and one step per action over them.

**Order of the data** (`SupplyOrder_proofs`).  `SInv` counts the units on a stream.  That each is the right one,
of the channel and the time that its place asks for (`StreamsCarrySlices`), rests on the clocks of five parties that never
compare them: the manager, which hands slices and intervals out, the reader, which cuts the recording into
blocks, and the data writers, which count time on from block to block.

    Order == Clocks /\ SlicesInTurn /\ RightChannels /\ RightSlices /\ Feeds /\ Contents

- `Clocks`: the manager, each writer and each reader are in a scan, at a multiple of the slice; the intervals on the way
  to a station, in its queue and in hand are its scans in order, with none left out.
- `SlicesInTurn`: the slices of a channel that a station has in the mail and in its queue follow each other from the clock of the writer
  to the next one of the manager; between scans the writer jumps as far as the manager did.
- `RightChannels`, `RightSlices`: what waits for a stream is of the channel of the last slice given to the node,
  and what is being written is of the channel and the time of that slice or, if one waits, of the one before.
- `Feeds`: the blocks queued for a writer follow each other, and none that it still needs has been passed over.
- `Contents`: each unit on a connection is the one its place asks for.

The intervals of a station and the slices of a channel lie in several queues end to end (the mail, the queue, what is in hand), between messages
for others.  Both orders are one notion, `Chain`: the values of one kind on a line follow each other by a given relation, up to
what the manager hands out next.  Its laws are those of adding at the end, taking from the front and
moving from one queue to the next.
`ScansApart` (a gap between the scans of a station) is used for `Feeds` only, where it lets the reader drop the frame in
hand; without it the finding `supply_adjacent` contradicts the theorem.

**Connections** (`Connect_proofs`).  `RightPeers` says whom a stream leads to and that it is there when a slice or a weight
asks for it.  What keeps it is the handshake, and the manager's wait for the answers:

    ConnectInv == TypeOK /\ Working /\ AskedOnce /\ Announcing /\ Connecting /\ Queued
                  /\ Paired /\ Ordered /\ RightPeers

- `AskedOnce`: a connection that is still to be asked for, on its way or in hand has not been made, so that no stream is given
  out twice.  It starts from the manager's calls: they ask for each connection once, and for
  slices only behind the wait.  `Part` has what is shown of a part of the calls; `FlattenIn`, `PartConcat` and
  `PartEach` join the parts.
- `Announcing`, `Connecting`, `Queued`: the peer that announces itself is in a synchronous send until the announcement is
  received, so the node that accepts waits for the one connection that comes in on its port.  Here a
  buffered send would break the proof, as it breaks the run (mutant `AnnounceBuffered`).
- `Paired`: when one end has its stream, the other has its own, or has the connection waiting on its port.
- `Ordered`: `established` counts the connections made.  There are no more of them than `Requests` (`RequestCount`, by
  the cardinality of products and of images), so that after the wait all of them are made, and by `Paired` both
  ends are there.

The fold over the parts and the recursion under it have no induction theorem to cite; `FlattenIn` takes the first
part for which the claim fails (`LeastNatural`) and contradicts it.

### What is only model-checked, and why

- Liveness (`EventuallyTerminated`, `IntervalsFilled`, `EventuallyEnded`, `EventuallyJoined`, `EventuallyConnected`, ...) and the fairness
  of the refinement: `ImplementsTheLog` has its safety part, `ImplementsOrderedOutput` is checked as a whole.
- What the sample stream, the tables, the recordings of other formats and the pure algorithms compute: it is defined by
  recursion or by folds over the data, and their induction is out of the prover's reach.

## 6. What is not modelled

- Floating point: transforms, delay correction, accumulation, splines.  The models
  say which samples and which delays go in.
- Formatting and parsing: control file, VEX, headers of the output file, log.
- The end of connections, and an abort while they are made or in the middle of a scan of an
  input node.
- Tone extraction (`do_phasecal`), pulsar and phased-array modes.
- In VDIF, modulation and several frames per block; in Mark5B, the numbering of 4 Gb/s, a
  change of day, and spoiled seconds in recordings without a CRC; recordings of several files, and sockets that end otherwise than files; in Mark5A and VLBA, tracks that differ, the sum of the CRC (a header is whole or not), and recordings that end
  before a header is found or, in VLBA, within a frame.  `Data_reader_udp` is compiled but nothing creates one.
- Third-party code, generated code, scripts and the GUI.

## 7. Observations that no run checks

- `delay_table_akima.cc:423`, `:398`: the clocks of all tables are appended to one list that is
  searched for the last that has started; if the table of a later scan has come in and its
  clock starts later, the default clock (offset 0) in front of it is taken.
- `output_node.cc:204`: `write_output` looks up a writer after each piece of a chunk, also if the chunk ends inside the
  number of a bin and there is nothing to write.  If the first read of the job ends there, the
  number is made of the bytes that came and of what is left of the -1 of the constructor (`:21`), and the assertion of
  `get_data_writer` (`multiple_data_writers_controller.cc:56`) ends the job: TLC finds it if asked for the status
  ABORTED in `OutputStream`.  It takes a TCP segment of less than four bytes at the start of the first slice;
  `FailsOnlyAtStart` says that it cannot happen later.
- `manager_node.cc:545`, `:620`: `initialise_scan` reads the delays and the coordinates of the first source of a scan only,
  while with `multi_phase_center`, which `control_parameters.cc:137-150` sets by itself if a scan
  has two sources, a slice has as many phase centres as its scan has sources (`:340-341`).  The
  assertion of `get_uvw` on the second one fails (`uvw_model.cc:326`); `UvwOfScan` says that just these jobs end there.
- `input_data_format_reader_tasklet.cc:299`: `goto_time` reads frames into the buffer of
  the last block of the interval before, which is still queued.  `BlocksHoldTheirFrameButLast`
  excepts this one block.
- `vdif_reader.cc:142-147`, `:50-57`: the reads of a search all add to the list of invalid blocks of one element, so the
  first frame of an interval is marked invalid if a frame passed over was.  `FramesKept` excepts it.
- `vdif_reader.cc:142-147` with `input_data_format_reader_tasklet.cc:166-169`: a frame that is marked invalid is
  given to the first channel if its thread is one nobody asked for.  If the first channel only gets
  copies (it shares its thread with a later one), the later channel gets a copy of that frame, and
  its time steps back: TLC finds `BlocksFollow` violated with the threads 1, 0, 1, a frame missing and one of these.
- `vdif_reader.cc:50-57`, `:156-162`: a search for the start of an interval that gives up (after 256 frames of other
  threads, or at the end) at a frame that lies within the interval takes it for a valid frame of the channel of the
  last frame before it.  TLC finds `BlocksHoldTheirFrameButLast` violated when the recording goes on with two
  frames of an unwanted thread just where an interval begins.
- `channel_extractor_tasklet.cc`: the mask of a channel is looked up by the logical
  channel in one place and by the recorded one in another; with a channel that is used twice
  they differ.
- `mpi_transfer.cc:247`: an MPI that sends a broadcast through a tree may let a job of three
  correlator nodes stand still.  Node B, which is reached through C, has entered `MPI_Bcast` or
  waits in `write()` for the output node; the output node waits for the slice of C, which is earlier;
  and C is in `MPI_Bcast`, in the middle of that slice, until B has entered.  With `Above` a chain TLC
  finds it in `ScanBroadcast`; the repository does not say which MPI it is for.
- `control_parameters.cc:1318-1336`: with a VDIF thread for each channel `get_vdif_tracks` lists every channel
  of the job, also those the station lacks, while `manager_node.cc:652` numbers only those it has.
  `StreamsAgree` excepts these stations (`Numbered`).
- A job with cross polarisations in which one channel has no second polarisation ends on an assertion
  of `frequency_channel`, although `number_correlation_cores_per_timeslice` and `manager_node.cc:297`
  provide for it (`HasCross`).
- A channel that is listed twice (frequency, sideband and polarisation) with cross polarisations on
  is taken for the cross channel of the other and is not correlated with itself.
- `control_parameters.cc:1377-1481` takes a word of a standard Mark5B recording for 32 bits, also with 64 bit streams.
- `control_parameters.cc:178-188`: the default of the sub-integration time is rounded up and may fail the
  check at `:270-280`.
- `mpi_transfer.cc:690` declares an array of `source_len` before `source_len` is read.
- `mpi_transfer.cc:1130` unpacks four bytes into `normalize`, a `bool` (`control_parameters.h:111`).
- `mark5a_reader.cc:187`, `:379`: `buffer[i] & mask == mask` is `buffer[i] & 1` by the precedence of C: the
  sync word is looked for in one track, whatever mask has been chosen.
- `vlba_reader.cc:77`: a seek with one frame left to go neither skips nor reads it (`bytes_data_to_read` is 0),
  so it ends one frame before the time that the comment above names.  `TapesInPlace` excepts this frame.
- `vlba_reader.cc:131`: a recording that ends within an auxiliary header is read as one more frame with the
  header of the last; and after one that ends within a header `resync_header` goes on for ever, since
  `data_read` does not grow at the end (`:226`).  `mark5a_reader.cc:362` does so with a recording
  shorter than 16 frames in which no header is found.
- `mark5a_reader.cc:195`, `:388` call the data in the buffer enough for a complete header; with 64 tracks a header
  takes 768 bytes after its ones and 512 are kept, so a good header may be refused.
- `mark5a_reader.cc:41`, `:56` return the time without the offset of the station.
- `mark5a_header.cc:182-190` shifts an `int` by up to 56 bits with 64 tracks, which is undefined.
- `mark5a_reader.cc:76` takes the year of the job: a recording that begins on the last day of the year before is dated a
  year late; `vlba_reader.cc:27` dates one that begins the day before the job 999 days late.
- `mark5b_reader.cc:254`: `resync_header` does not ask for the end of the recording, and its
  last block may hold words of the one before.  The comment at `:100` says the nearest frame, the code
  rounds to a block.
- `mark5b_reader.cc:82`: `goto_time` returns the `bool` of `resync_header` as a time, and the assertion of its
  caller (`input_data_format_reader_tasklet.cc:300`) ends the program (`Aborted`).
- `mark5b_reader.cc:212-239`: the CRC does not cover the frame number.  A block whose number is spoiled gets the time of
  another one if the number is that of a block; a number beyond the second (`:93`) switches to the digits within the
  second for the rest of the job.  From then on a block may start with any frame and is rounded to a wrong
  time, and if the recorder writes no digits all blocks of a second have the same time.  `Mark5bInPlace` speaks of
  the blocks that can be trusted (`Trusted`).
- `mark5b_reader.cc:224`: a recorder that writes no digits and a wrong CRC (the comment names Fila10G) loses the first
  block of each second, since the CRC of a header with number 0 is checked.
- `mark5b_reader.cc:146`, `:311`: a spoiled day in a header that no CRC covers moves the day of the job on by one,
  and each block after it does so again.
- `vlba_reader.cc:126`, `:142`: `eof()` is false when the last frame of a file has been read.  One block more is returned, with
  the header of the last and what the buffer held; its time is that of the last, so
  `input_data_format_reader_tasklet.cc:142` drops it.
- `input_node_tasklet.cc`: an abort in the middle of a scan stops the extractor while the reader
  finishes its interval; the reader blocks in `allocate` and is never joined.
- `channel_extractor_tasklet.cc`: the pool must hold an element for each thread and channel;
  with fewer the threads wait for each other.  A node that is given two channels in turn needs
  a pool larger than a slice of all of them.
- `input_node_data_writer.cc:88`: with one FFT in a slice the next request goes out in its
  first round, before anything of it has been read, and two writers could be on one stream.
- `multiple_data_writers_controller.cc`: the handler of CONNECTED_TO (which no node sends)
  would answer to the writer itself.
- `manager_node.cc:177-179` compares the start of a scan with the stop time of the whole
  job: a scan in which no whole slice fits makes `input_node_set_time` assert
  (`abstract_manager_node.cc:328`).  It is the way in which the jobs of `MCSchedule` fail.
- `output_node.cc:114` overwrites END_NODE in the same way as finding 1.
- `data_reader_buffer.h:66` returns nothing when the queue is empty even if
  bytes of the element in hand are left: a slice smaller than an element (5000
  bytes) that comes in one read with the end of the one before waits for the next.
- `correlator_time.cc:82`: 31 December of a leap year becomes the first day of the
  next year; `DatesRight` excepts that day.
- `input_data_format_reader_tasklet.cc:219` pushes the first frame of an interval for the
  main channel of its thread only; a channel that shares the thread lacks it.
- `vdif_reader.cc:63` knows no time while `is_open_` is false, and only the first read of
  an interval can set it: after a bad start the rest of the interval is lost.
- `delay_table_akima.cc:414` refuses scans shorter than 4 s; it ends the job.
- `input_node_data_writer.cc:273-283` (`do_phasecal`) misses an invalid run that
  adjoins the one before.
- The comment on `INPUT_BUFFER_MINIMUM_FREE` calls 3 bytes the minimum; the assertion of
  the reader needs 4 (the value used is 1000).

## 8. Plan

Done: the core with its abstract specification, the broadcasts, the byte path, the
sample stream, the delay and uvw tables, the reader, the algorithms, the channels and their bits, the
input nodes, the channel extractor, the connections, the readers of other formats; and the proofs of
section 5.  Left, in this order:

1. Proofs: lemmas on `Interval` of `DelayTable` (part of `DelaysOfScan`, for all scans of at least four seconds).
2. **Phasecal**, pulsar and phased-array modes.
3. The checks of the control file.
