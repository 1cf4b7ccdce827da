----------------------------- MODULE DataWriter -----------------------------
(***************************************************************************)
(* Input_node_data_writer: the thread of an input node that cuts the data  *)
(* of one frequency channel into slices, shifts them by the integer delay  *)
(* of the station and writes them to a correlator node as a stream of      *)
(* headers and bytes.                                                      *)
(*                                                                         *)
(* Time is counted in samples from the start of the time interval.  The    *)
(* input is a sequence of blocks of BlockBytes bytes that follow each      *)
(* other without gaps; a byte is its position, byte b holds the samples    *)
(* b * SamplesPerByte, ... of the station, and the first block starts with *)
(* byte input.first.  A delay d makes sample t of the slice sample t + d   *)
(* of the station.                                                         *)
(***************************************************************************)
EXTENDS Integers, SequencesExt

CONSTANTS
  SamplesPerByte,      \* 8 / bits_per_sample
  BlockBytes,          \* size of an element of the input buffer
  Inputs,              \* what a station may deliver in a time interval: a set of records
                       \*   first, the first byte of the first element,
                       \*   invalid[b], the <<invalid_begin, nr_invalid>> of element b,
                       \*   delays, the <<time, delay>> where the integer delay changes
  SliceSamples,        \* size_slice of Input_node_tasklet
  IntegrationSamples,  \* integration_time
  NumberSlices         \* time slices given to this channel

ASSUME DataWriterAssumption ==
  /\ SamplesPerByte \in {4, 8}
  /\ BlockBytes \in Nat \ {0}
  /\ \A s \in Inputs :
       /\ s.first \in Int
       /\ DOMAIN s.invalid \subseteq Nat
       /\ Len(s.delays) > 0 /\ s.delays[1][1] = 0
  /\ SliceSamples \in Nat \ {0} /\ IntegrationSamples >= SliceSamples
  /\ IntegrationSamples % SamplesPerByte = 0
  /\ NumberSlices \in Nat

VARIABLES
  input,         \* the input of this time interval
  wire,          \* the TCP connection: headers and bytes not read yet
  phase,         \* where do_task is: "idle", "sync", "initial" or "write"
  wSlice,        \* slices started
  currentTime,   \* _current_time
  sliceStart,    \* _slice_start
  sliceSize,     \* slice_size of the front data writer
  delayIndex,    \* delay_index, from 1
  block,         \* number of the element at the front of input_buffer_
  task           \* the loop over the element: byte_offset, index, end_index,
                 \*   next_delay_pos, invalid_index (from 1)

wVars == <<input, phase, wSlice, currentTime, sliceStart, sliceSize, delayIndex, block, task>>

\* What goes over the connection; value is the delay, a number of samples, a
\* number of bytes, or the byte itself.
Item(t, v) == [type |-> t, value |-> v]
EndOfStream == Item("ENDSTREAM", 0)

\* get_delay: the delay in whole bytes and the samples that remain.
DelayBytes(i) == input.delays[i][2] \div SamplesPerByte
DelayRest(i) == input.delays[i][2] % SamplesPerByte
TimeOfChange(i) == input.delays[i][1]
NumberDelays == Len(input.delays)

InvalidOf(b) == IF b \in DOMAIN input.invalid THEN input.invalid[b] ELSE <<>>
BlockStart(b) == (input.first + b * BlockBytes) * SamplesPerByte
Lower(a, b) == IF a < b THEN a ELSE b
BytesFor(n) == (n + SamplesPerByte - 1) \div SamplesPerByte

WriterInit ==
  /\ input \in Inputs
  /\ wire = <<>>
  /\ phase = "idle"
  /\ wSlice = 0
  /\ currentTime = 0 /\ sliceStart = 0 /\ sliceSize = 0
  /\ delayIndex = 1
  /\ block = 0
  /\ task = [offset |-> 0, index |-> 0, end |-> 0, nextDelay |-> 0, invalid |-> 1]

-----------------------------------------------------------------------------
\* has_work and the start of do_task: a new slice.
Activate ==
  /\ phase = "idle"
  /\ wSlice < NumberSlices
  /\ phase' = "sync"
  /\ wSlice' = wSlice + 1
  /\ sliceStart' = currentTime
  /\ sliceSize' = SliceSamples
  /\ UNCHANGED <<input, wire, currentTime, delayIndex, block, task>>

AtLeastZero(n) == IF n < 0 THEN 0 ELSE n

\* get_next_delay_pos, in bytes from the time now.
NextDelayPos(i, now) ==
  IF i < NumberDelays THEN AtLeastZero((TimeOfChange(i + 1) - now) \div SamplesPerByte)
                      ELSE BlockBytes + 1

\* The start of the loop over an element, from byte offset on.
Begin(offset, i, now, size) ==
  [offset |-> offset, index |-> offset,
   end |-> offset + Lower(BlockBytes - offset, BytesFor(size)),
   nextDelay |-> offset + NextDelayPos(i, now),
   invalid |-> 1]

\* do_task with sync_stream: go to the delay of the present time and find the
\* byte of the element the slice starts with.
DelayNow ==
  LET passed == {i \in delayIndex + 1 .. NumberDelays :
                   TimeOfChange(i) <= currentTime + SamplesPerByte}
  IN  IF passed = {} THEN delayIndex ELSE Max(passed)
OffsetWith(i) == (currentTime - BlockStart(block)) \div SamplesPerByte + DelayBytes(i)

SkipOldElement ==
  /\ phase = "sync"
  /\ OffsetWith(DelayNow) >= BlockBytes
  /\ delayIndex' = DelayNow
  /\ block' = block + 1
  /\ UNCHANGED <<input, wire, phase, wSlice, currentTime, sliceStart, sliceSize, task>>

StartInElement ==
  /\ phase = "sync"
  /\ OffsetWith(DelayNow) \in 0 .. BlockBytes - 1
  /\ delayIndex' = DelayNow
  /\ wire' = Append(wire, Item("DELAY", DelayRest(DelayNow)))
  /\ sliceSize' = sliceSize + DelayRest(DelayNow)
  /\ currentTime' = currentTime - DelayRest(DelayNow)
  /\ task' = Begin(OffsetWith(DelayNow), DelayNow, currentTime', sliceSize')
  /\ phase' = "write"
  /\ UNCHANGED <<input, wSlice, sliceStart, block>>

\* write_initial_invalid_data: the slice starts before the input data.  Its
\* loop is the next three actions, task.index is its counter "written".
StartBeforeInput ==
  /\ phase = "sync"
  /\ OffsetWith(DelayNow) < 0
  /\ delayIndex' = DelayNow
  /\ wire' = Append(wire, Item("DELAY", DelayRest(DelayNow)))
  /\ sliceSize' = sliceSize + DelayRest(DelayNow)
  /\ task' = [task EXCEPT !.offset = OffsetWith(DelayNow), !.index = 0,
                          !.end = DelayRest(DelayNow)]
  /\ phase' = "initial"
  /\ UNCHANGED <<input, wSlice, currentTime, sliceStart, block>>

InitialInvalid == Lower(-task.offset * SamplesPerByte, sliceSize)
InitialDelayPos ==
  IF delayIndex < NumberDelays THEN TimeOfChange(delayIndex + 1) - currentTime
                               ELSE sliceSize * 2

\* At a delay change the number of samples that must be sent changes by one.
SizeAfterChange(i) ==
  LET d == DelayRest(i) - DelayRest(i - 1)
  IN  IF d > 1 \/ d = -1 THEN sliceSize - 1 ELSE sliceSize + 1

WriteInitialDelay ==
  /\ phase = "initial"
  /\ task.index < InitialInvalid /\ task.index = InitialDelayPos
  /\ delayIndex' = delayIndex + 1
  /\ wire' = Append(wire, Item("DELAY", DelayRest(delayIndex')))
  /\ sliceSize' = SizeAfterChange(delayIndex')
  /\ UNCHANGED <<input, phase, wSlice, currentTime, sliceStart, block, task>>

WriteInitialInvalid ==
  /\ phase = "initial"
  /\ task.index < InitialInvalid /\ task.index # InitialDelayPos
  /\ LET n == Lower(InitialDelayPos, InitialInvalid) - task.index IN
       /\ wire' = Append(wire, Item("INVALID", n))
       /\ task' = [task EXCEPT !.index = @ + n]
  /\ UNCHANGED <<input, phase, wSlice, currentTime, sliceStart, sliceSize, delayIndex, block>>

EndInitial ==
  /\ phase = "initial"
  /\ task.index >= InitialInvalid
  /\ sliceSize' = sliceSize - InitialInvalid
  /\ currentTime' = currentTime + InitialInvalid - task.end
  /\ task' = Begin(0, delayIndex, currentTime', sliceSize')
  /\ phase' = "write"
  /\ UNCHANGED <<input, wire, wSlice, sliceStart, delayIndex, block>>

-----------------------------------------------------------------------------
\* The loop of do_task over the bytes of the element.
Looping == phase = "write" /\ task.index < task.end
\* Mutant: the first byte of a run of invalid bytes is missed.
NextInvalidLate ==
  IF task.invalid <= Len(InvalidOf(block)) THEN InvalidOf(block)[task.invalid][1] + 1
                                           ELSE BlockBytes + 1

NextInvalid ==
  IF task.invalid <= Len(InvalidOf(block)) THEN InvalidOf(block)[task.invalid][1]
                                           ELSE BlockBytes + 1

\* Mutant: the size of the slice is not adjusted at a delay change.
WriteDelayKeepSize ==
  /\ Looping
  /\ task.index >= task.nextDelay
  /\ delayIndex' = delayIndex + 1
  /\ wire' = Append(wire, Item("DELAY", DelayRest(delayIndex')))
  /\ task' = [task EXCEPT
                !.nextDelay = task.offset + NextDelayPos(delayIndex', currentTime)]
  /\ UNCHANGED <<input, phase, wSlice, currentTime, sliceStart, sliceSize, block>>

WriteDelay ==
  /\ Looping
  /\ task.index >= task.nextDelay
  /\ delayIndex' = delayIndex + 1
  /\ wire' = Append(wire, Item("DELAY", DelayRest(delayIndex')))
  /\ sliceSize' = SizeAfterChange(delayIndex')
  /\ task' = [Begin(task.offset, delayIndex', currentTime, sliceSize') EXCEPT
                !.index = task.index, !.invalid = task.invalid]
  /\ UNCHANGED <<input, phase, wSlice, currentTime, sliceStart, block>>

WriteInvalid ==
  /\ Looping
  /\ task.index < task.nextDelay /\ task.index >= NextInvalid
  /\ LET stop == NextInvalid + InvalidOf(block)[task.invalid][2]
         upTo == Lower(stop, task.nextDelay)
         n == Lower(AtLeastZero(upTo - task.index), task.end - task.index)
     IN  /\ wire' = IF n > 0 THEN Append(wire, Item("INVALID", n * SamplesPerByte)) ELSE wire
         /\ task' = [task EXCEPT !.index = @ + n,
                                 !.invalid = IF upTo = stop THEN @ + 1 ELSE @]
  /\ UNCHANGED <<input, phase, wSlice, currentTime, sliceStart, sliceSize, delayIndex, block>>

\* write_data, a header and the bytes.
WriteData ==
  /\ Looping
  /\ task.index < task.nextDelay /\ task.index < NextInvalid
  /\ LET n == Min({task.nextDelay, task.end, NextInvalid}) - task.index
         first == input.first + block * BlockBytes + task.index
     IN  /\ wire' = wire \o <<Item("DATA", n)>> \o [i \in 1 .. n |-> Item("BYTE", first + i - 1)]
         /\ task' = [task EXCEPT !.index = @ + n]
  /\ UNCHANGED <<input, phase, wSlice, currentTime, sliceStart, sliceSize, delayIndex, block>>

\* After the loop: an element that is used up is popped, and a slice that has
\* all its samples is ended.
EndTask ==
  /\ phase = "write"
  /\ task.index >= task.end
  /\ block' = IF task.index >= BlockBytes THEN block + 1 ELSE block
  /\ LET n == (task.end - task.offset) * SamplesPerByte IN
       /\ sliceSize' = sliceSize - n
       /\ \/ /\ sliceSize' <= 0
             /\ wire' = Append(wire, EndOfStream)
             /\ currentTime' = sliceStart + IntegrationSamples
             /\ phase' = "idle"
             /\ UNCHANGED task
          \/ /\ sliceSize' > 0
             /\ currentTime' = currentTime + n
             /\ task' = Begin(0, delayIndex, currentTime', sliceSize')
             /\ UNCHANGED <<wire, phase>>
  /\ UNCHANGED <<input, wSlice, sliceStart, delayIndex>>

WriterNext ==
  \/ Activate \/ SkipOldElement \/ StartInElement \/ StartBeforeInput
  \/ WriteInitialDelay \/ WriteInitialInvalid \/ EndInitial
  \/ WriteDelay \/ WriteInvalid \/ WriteData \/ EndTask
=============================================================================
