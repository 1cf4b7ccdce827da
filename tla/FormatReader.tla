---------------------------- MODULE FormatReader ----------------------------
(***************************************************************************)
(* The thread of an input node that reads the recording of its station:    *)
(* Input_data_format_reader_tasklet with a VDIF_reader.  It turns what is  *)
(* left of the recording, with frames missing, late, invalid or of threads *)
(* nobody asked for, into blocks that follow each other in time, for each  *)
(* channel and for each of the time intervals the manager sends.           *)
(*                                                                         *)
(* Time is counted in frames (time_between_headers).  A buffer of the      *)
(* memory pool holds a frame of the recording, given by its index.         *)
(***************************************************************************)
EXTENDS Integers, SequencesExt, FiniteSetsExt

CONSTANTS
  Recordings,    \* sequences of frames [thread, time, invalid]
  Threads,       \* tracks[0] of each channel: the thread that has its data
  Intervals,     \* the time intervals of the manager, [start, stop, leave]
  MaxRestarts,   \* max_restarts of read_new_block
  NSkip, NSkew,  \* NSKIP, NSKEW
  Now            \* the present, frames dated later are not believed

Frames == [thread : Nat, time : Nat, invalid : BOOLEAN]
Times == [start : Nat, stop : Nat, leave : Nat]

ASSUME FormatReaderAssumption ==
  /\ \A r \in Recordings : r \in Seq(Frames)
  /\ Threads \in Seq(Nat) /\ Threads # <<>>
  /\ Intervals \in Seq(Times)
  /\ \A k \in DOMAIN Intervals :
       /\ 0 < Intervals[k].start
       /\ Intervals[k].start < Intervals[k].stop /\ Intervals[k].start < Intervals[k].leave
       /\ k > 1 => Intervals[k - 1].start < Intervals[k].start
  /\ {MaxRestarts, NSkip, NSkew, Now} \subseteq Nat /\ NSkew > 0

VARIABLES
  recording,    \* the recording of this station
  pos,          \* frames read; current_header is the header of the last one
  eof,          \* a read went past the end
  isOpen,       \* is_open_
  pc,           \* "fetch", "goto" or "task"
  interval,     \* number of current_interval_, 0 before the first
  current,      \* current_time of each channel
  left,         \* nframes_left of each channel
  minLeft,      \* min_frames_left
  element,      \* input_element_: start_time, channel, invalid, buffer
  memory,       \* the frame in each buffer, 0 if none
  output        \* the blocks pushed for each channel, not used yet downstream

vars == <<recording, pos, eof, isOpen, pc, interval, current, left, minLeft,
          element, memory, output>>
readerVars == <<pos, eof, memory>>
timeVars == <<current, left, minLeft>>

Channels == DOMAIN Threads
Interval == Intervals[interval]
\* thread_map; with two channels of one thread it holds the last.
MainChannel(t) == Max({c \in Channels : Threads[c] = t})
Duplicates(c) == {d \in Channels \ {c} : Threads[d] = Threads[c]}
NoTime == 0

Init ==
  /\ recording \in Recordings
  /\ pos = 0 /\ eof = FALSE /\ isOpen = FALSE
  /\ pc = "fetch"
  /\ interval = 0
  /\ current = [c \in Channels |-> NoTime]
  /\ left = [c \in Channels |-> 0]
  /\ minLeft = 0
  /\ element = [start |-> NoTime, channel |-> 1, invalid |-> FALSE, buffer |-> 1]
  /\ memory = <<0>>
  /\ output = [c \in Channels |-> <<>>]

-----------------------------------------------------------------------------
\* VDIF_reader::read_new_block: the next frame of a wanted thread, or any frame
\* marked invalid.  Others are passed over, MaxRestarts at most.
Wanted(f) == f.invalid \/ \E c \in Channels : Threads[c] = f.thread
Candidates ==
  {q \in pos + 1 .. pos + MaxRestarts : q <= Len(recording) /\ Wanted(recording[q])}
ReadTo == Min(Candidates \cup {Len(recording) + 1, pos + MaxRestarts + 1})
ReadAtEnd == ReadTo > Len(recording)
ReadOk == ~ReadAtEnd /\ Wanted(recording[ReadTo])
LastRead == Min({ReadTo, Len(recording)})
Header == recording[pos].time

\* Mutant: the thread of a frame is ignored.
ChannelOne(f) == 1
ChannelOf(f) == IF \E c \in Channels : Threads[c] = f.thread THEN MainChannel(f.thread) ELSE 1

\* What the read leaves in the reader and in the buffer e.buffer.
Read(e) ==
  /\ pos' = LastRead
  /\ eof' = ReadAtEnd
  /\ memory' = IF LastRead > pos
               THEN [memory EXCEPT ![e.buffer] = LastRead] ELSE memory

\* The element after a read that succeeds.  get_current_time knows no time before
\* the stream has been opened.
Filled(e) ==
  [e EXCEPT !.start = IF isOpen' THEN recording[ReadTo].time ELSE NoTime,
            !.channel = ChannelOf(recording[ReadTo]),
            !.invalid = @ \/ recording[ReadTo].invalid]

-----------------------------------------------------------------------------
\* push_element, for blocks[c] in each channel.
Block(e) == [start |-> e.start, invalid |-> e.invalid, buffer |-> e.buffer, interval |-> interval']

Push(blocks, cur, lft, low) ==
  LET after(c) == lft[c] - Len(blocks[c]) IN
  /\ output' = [c \in Channels |-> output[c] \o blocks[c]]
  /\ current' = [c \in Channels |-> cur[c] + Len(blocks[c])]
  /\ left' = [c \in Channels |-> after(c)]
  /\ minLeft' = Min({low} \cup {after(c) : c \in {d \in Channels : blocks[d] # <<>>}})

InChannel(c, blocks) == [d \in Channels |-> IF d = c THEN blocks ELSE <<>>]

\* push_random_blocks.
Random(e, c, n) ==
  [i \in 1 .. n |-> Block([e EXCEPT !.start = current[c] + i - 1, !.invalid = TRUE])]
LastRandom(e, c, n) ==
  IF n > 0 THEN [e EXCEPT !.start = current[c] + n - 1, !.channel = c, !.invalid = TRUE] ELSE e

PushRandom(e, c, n) ==
  /\ Push(InChannel(c, Random(e, c, n)), current, left, minLeft)
  /\ element' = LastRandom(e, c, n)

-----------------------------------------------------------------------------
\* fetch_next_time_interval.
Fetch ==
  /\ pc = "fetch"
  /\ interval < Len(Intervals)
  /\ interval' = interval + 1

\* A new interval sets all channels to the same time and pushes a first block.
StartAt(time, e) ==
  /\ Push(InChannel(e.channel, <<Block(e)>>), [c \in Channels |-> time],
          [c \in Channels |-> Intervals[interval'].stop - time],
          Intervals[interval'].stop - time)
  /\ element' = e

\* The time found lies after the interval: a random block ends it.
StartWith(time, e) ==
  LET stop == Intervals[interval'].stop IN
  IF time > stop
  THEN StartAt(stop - 1, [e EXCEPT !.start = stop - 1, !.channel = 1, !.invalid = TRUE])
  ELSE StartAt(time, e)

OpenFails ==
  /\ Fetch
  /\ ~isOpen /\ ~ReadOk
  /\ Read(element)
  /\ current' = [c \in Channels |-> Intervals[interval'].start]
  /\ left' = [c \in Channels |-> Intervals[interval'].stop - Intervals[interval'].start]
  /\ minLeft' = Intervals[interval'].stop - Intervals[interval'].start
  /\ pc' = "task"
  /\ UNCHANGED <<recording, isOpen, element, output>>

OpenInputStream ==
  /\ Fetch
  /\ ~isOpen /\ ReadOk
  /\ isOpen' = TRUE
  /\ Read(element)
  /\ \/ /\ Intervals[interval'].start <= recording[ReadTo].time
        /\ StartWith(recording[ReadTo].time, Filled(element))
        /\ pc' = "task"
     \/ /\ Intervals[interval'].start > recording[ReadTo].time
        /\ element' = Filled(element)
        /\ pc' = "goto"
        /\ UNCHANGED <<timeVars, output>>
  /\ UNCHANGED <<recording>>

NextInterval ==
  /\ Fetch
  /\ isOpen
  /\ \/ /\ Intervals[interval'].start <= element.start
        /\ StartWith(element.start, element)
        /\ pc' = "task"
     \/ /\ Intervals[interval'].start > element.start
        /\ pc' = "goto"
        /\ UNCHANGED <<timeVars, element, output>>
  /\ UNCHANGED <<recording, readerVars, isOpen>>

\* goto_time reads until the start of the interval; the element is used as it is.
GotoRead ==
  /\ pc = "goto"
  /\ Interval.start > Header
  /\ ReadOk
  /\ UNCHANGED <<recording, isOpen, pc, interval, timeVars, output>>
  /\ Read(element)
  /\ element' = Filled(element)

ReachedTime(time) == IF time < Interval.start THEN Interval.start ELSE time

\* Mutant: a read that fails is tried again.
GotoFailsRetry ==
  /\ pc = "goto"
  /\ Interval.start > Header
  /\ ~ReadOk
  /\ Read(element)
  /\ UNCHANGED <<recording, isOpen, pc, interval, timeVars, element, output>>

GotoFails ==
  /\ pc = "goto"
  /\ Interval.start > Header
  /\ ~ReadOk
  /\ Read(element)
  /\ UNCHANGED interval
  /\ LET time == recording[LastRead].time
     IN  StartWith(ReachedTime(time), [element EXCEPT !.start = time])
  /\ pc' = "task"
  /\ UNCHANGED <<recording, isOpen>>

GotoDone ==
  /\ pc = "goto"
  /\ Interval.start <= Header
  /\ UNCHANGED interval
  /\ StartWith(ReachedTime(Header), [element EXCEPT !.start = Header])
  /\ pc' = "task"
  /\ UNCHANGED <<recording, readerVars, isOpen>>

-----------------------------------------------------------------------------
\* do_task, on an element with a buffer of its own.
Allocated == [start |-> NoTime, channel |-> 1, invalid |-> FALSE, buffer |-> Len(memory) + 1]

Task ==
  /\ pc = "task"
  /\ \E c \in Channels : current[c] < Interval.stop
  /\ UNCHANGED <<recording, isOpen, pc, interval>>

TaskEof ==
  /\ Task
  /\ eof
  /\ LET late == {c \in Channels : current[c] < Interval.stop}
         e == Allocated
     IN  /\ Push([c \in Channels |-> IF c \in late THEN Random(e, c, 1) ELSE <<>>],
                 current, left, minLeft)
         /\ element' = LastRandom(e, Max(late), 1)
         /\ memory' = Append(memory, 0)
  /\ UNCHANGED <<pos, eof>>

\* A channel that lags behind the first by more than the skew allowed.
\* Mutant: no skew is allowed.
SkewNone(c) == 0
Skew(c) == Max({0, Min({2 * NSkew, left[c] - 1})})
Lagging == {c \in Channels : left[c] > minLeft + Skew(c)}

TaskSkew ==
  /\ Task
  /\ ~eof /\ Lagging # {}
  /\ LET c == Min(Lagging) IN PushRandom(Allocated, c, left[c] - minLeft - Skew(c))
  /\ memory' = Append(memory, 0)
  /\ UNCHANGED <<pos, eof>>

TaskRead ==
  /\ Task
  /\ ~eof /\ Lagging = {}
  /\ pos' = LastRead
  /\ eof' = ReadAtEnd
  /\ memory' = Append(memory, IF LastRead > pos THEN LastRead ELSE 0)

SkipFrames == Max({0, Min({NSkip, left[1]})})
TaskReadFails ==
  /\ TaskRead
  /\ ~ReadOk
  /\ PushRandom(Allocated, 1, SkipFrames)

Got == Filled(Allocated)

\* The station has left the scan.
TaskLeft ==
  /\ TaskRead
  /\ ReadOk
  /\ current[Got.channel] >= Interval.leave
  /\ PushRandom(Got, Got.channel, SkipFrames)

Missing == Min({Got.start - current[Got.channel], left[Got.channel]})
InScan == ReadOk /\ current[Got.channel] < Interval.leave

TaskFuture ==
  /\ TaskRead
  /\ InScan
  /\ Missing > 0 /\ Got.start > Now
  /\ PushRandom(Got, Got.channel, 1)

TaskPast ==
  /\ TaskRead
  /\ InScan
  /\ Got.start # current[Got.channel] /\ Missing < 0
  /\ element' = Got
  /\ UNCHANGED <<timeVars, output>>

\* Frames are missing up to the end of the interval: this one lies beyond.
TaskBeyond ==
  /\ TaskRead
  /\ InScan
  /\ Got.start # current[Got.channel]
  /\ Missing >= 0 /\ Missing = left[Got.channel]
  /\ Missing > 0 => Got.start <= Now
  /\ Push(InChannel(Got.channel, Random(Got, Got.channel, Missing)), current, left, minLeft)
  /\ element' = Got

\* Mutant: the frames that are missing are not made up for.
NoFill == <<>>
Fill == Random(Got, Got.channel, Missing)

\* The frame comes next, after those missing; channels of the same thread get it too.
TaskFrame ==
  /\ TaskRead
  /\ InScan
  /\ \/ Got.start = current[Got.channel]
     \/ Missing > 0 /\ Missing < left[Got.channel] /\ Got.start <= Now
  /\ LET fill == IF Got.start = current[Got.channel] THEN <<>> ELSE Fill
         copies == Duplicates(Got.channel)
     IN  /\ Push([c \in Channels |-> IF c = Got.channel THEN Append(fill, Block(Got))
                                     ELSE IF c \in copies THEN <<Block(Got)>> ELSE <<>>],
                 current, left, minLeft)
         /\ element' = IF copies = {} THEN Got ELSE [Got EXCEPT !.channel = Max(copies)]

IntervalDone ==
  /\ pc = "task"
  /\ \A c \in Channels : current[c] >= Interval.stop
  /\ pc' = "fetch"
  /\ UNCHANGED <<recording, readerVars, isOpen, interval, timeVars, element, output>>

ReaderStep ==
  \/ OpenFails \/ OpenInputStream \/ NextInterval \/ GotoRead \/ GotoFails \/ GotoDone
  \/ TaskEof \/ TaskSkew \/ TaskReadFails \/ TaskLeft \/ TaskFuture \/ TaskPast
  \/ TaskBeyond \/ TaskFrame \/ IntervalDone

Done ==
  /\ pc = "fetch" /\ interval = Len(Intervals)
  /\ UNCHANGED vars

Next == ReaderStep \/ Done

Spec == Init /\ [][Next]_vars
FairSpec == Spec /\ WF_vars(ReaderStep)

-----------------------------------------------------------------------------
\* Channels that are the only one of their thread, and those whose thread is
\* mapped to them.
Main == {c \in Channels : MainChannel(Threads[c]) = c}

\* A frame of a thread that is not wanted goes to the first channel if it is marked
\* invalid.  Should that channel only get copies of what another one gets, the other
\* one gets a copy of this frame, whatever its time is.
NoStrayCopies ==
  \/ 1 \in Main
  \/ \A r \in Recordings : \A q \in DOMAIN r :
       r[q].invalid => \E c \in Channels : Threads[c] = r[q].thread

\* The blocks of a channel in an interval follow each other without gap, overlap
\* or step back, whatever happened to the recording: the data writer counts
\* blocks and looks at their time at the start of a slice only.
BlocksFollow ==
  \A c \in Main : \A i \in 1 .. Len(output[c]) - 1 :
    LET a == output[c][i]  b == output[c][i + 1] IN
    a.interval = b.interval /\ a.start >= Intervals[a.interval].start
      => b.start = a.start + 1

\* A block that is not marked invalid holds the frame of its time and its thread,
\* from the moment it is pushed until it has been used.
Whole(c, b) ==
  b.invalid \/ b.start < Intervals[b.interval].start
    \/ /\ memory[b.buffer] # 0
       /\ recording[memory[b.buffer]].time = b.start
       /\ recording[memory[b.buffer]].thread = Threads[c]

\* goto_time gives up, in the end or after MaxRestarts frames of other threads, at a
\* frame q that lies before the interval it looks for.  Otherwise it takes the time of
\* that frame, and its data, for those of the channel of the last frame p before.
GivesUpEarly ==
  \A r \in Recordings : \A p, q \in DOMAIN r : \A k \in DOMAIN Intervals :
    /\ \E w \in 1 .. p : Wanted(r[w])
    /\ r[p].time < Intervals[k].start
    /\ p < q /\ (q = Len(r) \/ q = p + MaxRestarts + 1)
    /\ \A x \in p + 1 .. q : ~Wanted(r[x])
    => r[q].time < Intervals[k].start

\* This holds but for the last block of an interval, once the next has begun:
\* goto_time then reads into the buffer of that block, which is still queued.
LastOfInterval(c, i) ==
  \A j \in i + 1 .. Len(output[c]) : output[c][j].interval # output[c][i].interval
BlocksHoldTheirFrameButLast ==
  \A c \in Main : \A i \in DOMAIN output[c] :
    \/ Whole(c, output[c][i])
    \/ output[c][i].interval < interval /\ LastOfInterval(c, i)

\* In a recording that is in order, without frames that come twice and without a long
\* run of unwanted frames, the valid frames of the first interval reach the output, also
\* if other frames are missing or bad: all but the first one found, those of the last
\* frame time, and those dated after the station leaves or later than now.
InOrder(r) == \A p, q \in DOMAIN r : p < q => r[p].time <= r[q].time
Readable(r) == \A q \in 1 .. Len(r) - MaxRestarts : \E p \in q .. q + MaxRestarts : Wanted(r[p])
ComeOnce(r) ==
  \A p, q \in DOMAIN r : p # q /\ Wanted(r[p]) /\ Wanted(r[q]) /\ r[p].time = r[q].time
    => ChannelOf(r[p]) # ChannelOf(r[q])
Sound(r) == InOrder(r) /\ Readable(r) /\ ComeOnce(r)

First == Intervals[1]
Expected(time) == time < First.stop - 1 /\ time < First.leave - 1 /\ time <= Now
\* Another frame has been found in the interval before frame q.
NotFirst(r, q) == \E p \in 1 .. q - 1 : Wanted(r[p]) /\ r[p].time >= First.start
InOutput(f) ==
  \E i \in DOMAIN output[ChannelOf(f)] :
    output[ChannelOf(f)][i].start = f.time /\ ~output[ChannelOf(f)][i].invalid
FramesKept ==
  pc = "fetch" /\ interval = 1 /\ Sound(recording) =>
    \A q \in DOMAIN recording :
      /\ Wanted(recording[q]) /\ ~recording[q].invalid
      /\ Expected(recording[q].time) /\ NotFirst(recording, q)
      => InOutput(recording[q])

\* A recording that ends or cannot be read does not stop the correlation: every
\* interval is filled to its end.
IntervalsFilled == <>(pc = "fetch" /\ interval = Len(Intervals))
=============================================================================
