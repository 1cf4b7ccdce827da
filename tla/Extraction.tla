----------------------------- MODULE Extraction -----------------------------
(***************************************************************************)
(* The threads of a channel extractor: they take blocks from the queue of  *)
(* the reader, and hand on the data of each channel, in the order of the   *)
(* blocks, to the queues of the data writers.  A recorded subband may be   *)
(* wanted for several channels; they share one element of the pool.        *)
(*                                                                         *)
(* The queues are Threadsafe_queues and the pools are Memory_pools; a      *)
(* critical section is a step, and a thread in a condition wait goes on    *)
(* only when it has been woken.                                            *)
(***************************************************************************)
EXTENDS Integers, SequencesExt

CONSTANTS
  Threads, Main,     \* Main runs do_execute, the others run process
  SubbandMap,        \* subbandmap: the recorded subband of each channel
  Blocks,            \* blocks the reader has, 1 .. Blocks
  InputSize,         \* elements of the pool of the reader
  PoolSize           \* elements of output_memory_pool_

Channels == DOMAIN SubbandMap
Recorded == Max(Range(SubbandMap))
Elements == 1 .. PoolSize

\* Each thread can hold all elements of a block when the queues are not emptied.
ASSUME ExtractionAssumption ==
  /\ IsFiniteSet(Threads) /\ Main \in Threads
  /\ SubbandMap \in Seq(Nat) /\ Recorded \in Nat \ {0}
  /\ Range(SubbandMap) = 1 .. Recorded
  /\ Blocks \in Nat /\ InputSize \in Nat \ {0}
  /\ PoolSize \in Nat /\ PoolSize >= Cardinality(Threads) * Len(SubbandMap)

VARIABLES
  inputs, pushed, closed,    \* input_buffer_: numbers of blocks
  running,                   \* isrunning_
  pc, held, block,           \* of each thread: output_elements, input_element
  seqno,                     \* blocks handed on
  free, refs, content,       \* the pool: free elements, references, data of a block
  queue,                     \* output_buffers_
  taken,                     \* taken[ch]: blocks the data writer has got
  writing                    \* the data writers have not been stopped

vars == <<inputs, pushed, closed, running, pc, held, block, seqno, free, refs,
          content, queue, taken, writing>>

Init ==
  /\ inputs = <<>> /\ pushed = 0 /\ closed = FALSE
  /\ running = TRUE
  /\ pc = [t \in Threads |-> "test"]
  /\ held = [t \in Threads |-> <<>>]
  /\ block = [t \in Threads |-> 0]
  /\ seqno = 0
  /\ free = Elements
  /\ refs = [e \in Elements |-> 0]
  /\ content = [e \in Elements |-> 0]
  /\ queue = [ch \in Channels |-> <<>>]
  /\ taken = [ch \in Channels |-> <<>>]
  /\ writing = TRUE

-----------------------------------------------------------------------------
\* Threads p after all those that wait for `what` have been woken.
Broadcast(p, what) ==
  [t \in Threads |-> IF p[t] = what.waiting THEN what.woken ELSE p[t]]
OnPool == [waiting |-> "wait pool", woken |-> "allocate"]
OnQueue == [waiting |-> "wait queue", woken |-> "woken"]
OnSeqno == [waiting |-> "wait seqno", woken |-> "order"]

\* Mutant: one thread is woken where the code wakes all.
WakeOne(p) ==
  IF \E t \in Threads : p[t] = OnPool.waiting
  THEN [p EXCEPT ![CHOOSE t \in Threads : p[t] = OnPool.waiting] = OnPool.woken]
  ELSE p

WakeOneOnRelease(p) == IF free = {} THEN WakeOne(p) ELSE p

\* Memory_pool::release wakes the waiting threads when the pool was empty.
WakeOnRelease(p) == IF free = {} THEN Broadcast(p, OnPool) ELSE p

\* References to the elements in es are dropped, one for each occurrence, and an
\* element is released with the last.  p are the threads otherwise.
Drop(es, p) ==
  LET left == [e \in Elements |-> refs[e] - Cardinality({i \in DOMAIN es : es[i] = e})]
      released == {e \in Range(es) : left[e] = 0}
  IN  /\ refs' = left
      /\ free' = free \cup released
      /\ pc' = IF released # {} THEN WakeOnRelease(p) ELSE p

-----------------------------------------------------------------------------
\* The reader: blocks are given back to its pool when they have been extracted.
InUse == Len(inputs) + Cardinality({t \in Threads : block[t] # 0})

\* Threadsafe_queue::push signals one of the threads that wait.
ReadBlock ==
  /\ ~closed /\ pushed < Blocks /\ InUse < InputSize
  /\ pushed' = pushed + 1
  /\ inputs' = Append(inputs, pushed')
  /\ LET waiting == {t \in Threads : pc[t] = "wait queue"}
     IN  IF waiting = {} THEN pc' = pc
         ELSE \E t \in waiting : pc' = [pc EXCEPT ![t] = "woken"]
  /\ UNCHANGED <<closed, running, held, block, seqno, free, refs, content, queue, taken, writing>>

\* The empty interval of the end of the job.
CloseQueue ==
  /\ ~running /\ ~closed /\ pushed = Blocks
  /\ closed' = TRUE
  /\ pc' = Broadcast(pc, OnQueue)
  /\ UNCHANGED <<inputs, pushed, running, held, block, seqno, free, refs, content,
                 queue, taken, writing>>

-----------------------------------------------------------------------------
\* The loops of do_execute and of process.
TestLoop(t) ==
  /\ pc[t] = "test"
  /\ pc' = [pc EXCEPT ![t] = IF running /\ (t = Main => ~closed) THEN "allocate" ELSE "ended"]
  /\ UNCHANGED <<inputs, pushed, closed, running, held, block, seqno, free, refs, content,
                 queue, taken, writing>>

\* do_task: an element for each channel, before the block is taken; those of the
\* channels that share a subband are not all used.
Allocate(t) ==
  /\ pc[t] = "allocate"
  /\ IF free = {}
     THEN pc' = [pc EXCEPT ![t] = "wait pool"] /\ UNCHANGED <<held, free, refs>>
     ELSE /\ held' = [held EXCEPT ![t] = Append(@, Min(free))]
          /\ refs' = [refs EXCEPT ![Min(free)] = 1]
          /\ free' = free \ {Min(free)}
          /\ pc' = [pc EXCEPT ![t] = IF Len(held'[t]) = Len(SubbandMap) THEN "pop" ELSE @]
  /\ UNCHANGED <<inputs, pushed, closed, running, block, seqno, content, queue, taken, writing>>

\* front_and_pop.  A thread that has been woken looks whether the queue is closed
\* before it looks whether there is a block.  The data are extracted to its elements.
Pop(t) ==
  /\ \/ pc[t] = "pop"
     \/ pc[t] = "woken" /\ ~closed
  /\ inputs # <<>>
  /\ block' = [block EXCEPT ![t] = Head(inputs)]
  /\ inputs' = Tail(inputs)
  /\ content' = [e \in Elements |-> IF \E k \in 1 .. Recorded : held[t][k] = e THEN Head(inputs) ELSE content[e]]
  /\ pc' = [pc EXCEPT ![t] = "order"]
  /\ UNCHANGED <<pushed, closed, running, held, seqno, free, refs, queue, taken, writing>>

WaitForBlock(t) ==
  /\ pc[t] \in {"pop", "woken"}
  /\ inputs = <<>> /\ ~closed
  /\ pc' = [pc EXCEPT ![t] = "wait queue"]
  /\ UNCHANGED <<inputs, pushed, closed, running, held, block, seqno, free, refs, content,
                 queue, taken, writing>>

\* QueueClosedException ends the loop of the thread.
QueueClosed(t) ==
  /\ closed
  /\ \/ pc[t] = "pop" /\ inputs = <<>>
     \/ pc[t] = "woken"
  /\ Drop(held[t], [pc EXCEPT ![t] = "ended"])
  /\ held' = [held EXCEPT ![t] = <<>>]
  /\ UNCHANGED <<inputs, pushed, closed, running, block, seqno, content, queue, taken, writing>>

\* Mutant: the blocks are handed on by whoever has one.
OrderAny(t) ==
  /\ pc[t] = "order"
  /\ pc' = [pc EXCEPT ![t] = "push"]
  /\ UNCHANGED <<inputs, pushed, closed, running, held, block, seqno, free, refs, content,
                 queue, taken, writing>>

\* Until the blocks before this one have been handed on.
Order(t) ==
  /\ pc[t] = "order"
  /\ pc' = [pc EXCEPT ![t] = IF block[t] = seqno + 1 THEN "push" ELSE "wait seqno"]
  /\ UNCHANGED <<inputs, pushed, closed, running, held, block, seqno, free, refs, content,
                 queue, taken, writing>>

\* The elements go to the queues; that of a subband wanted for several channels
\* goes to each of them.  The pushes to different queues are not told apart.
Push(t) ==
  /\ pc[t] = "push"
  /\ queue' = [ch \in Channels |-> Append(queue[ch], held[t][SubbandMap[ch]])]
  /\ refs' = [e \in Elements |->
       refs[e] + Cardinality({ch \in Channels : held[t][SubbandMap[ch]] = e})]
  /\ pc' = [pc EXCEPT ![t] = "advance"]
  /\ UNCHANGED <<inputs, pushed, closed, running, held, block, seqno, free, content,
                 taken, writing>>

Advance(t) ==
  /\ pc[t] = "advance"
  /\ seqno' = seqno + 1
  /\ pc' = Broadcast([pc EXCEPT ![t] = "release"], OnSeqno)
  /\ UNCHANGED <<inputs, pushed, closed, running, held, block, free, refs, content, queue,
                 taken, writing>>

\* The end of do_task: its references to the elements and to the block.
Release(t) ==
  /\ pc[t] = "release"
  /\ Drop(held[t], [pc EXCEPT ![t] = "test"])
  /\ held' = [held EXCEPT ![t] = <<>>]
  /\ block' = [block EXCEPT ![t] = 0]
  /\ UNCHANGED <<inputs, pushed, closed, running, seqno, content, queue, taken, writing>>

\* The end of do_execute: join, empty the input and close the output.
Join ==
  /\ \A t \in Threads : pc[t] = "ended"
  /\ inputs' = <<>>
  /\ pc' = [pc EXCEPT ![Main] = "joined"]
  /\ UNCHANGED <<pushed, closed, running, held, block, seqno, free, refs, content, queue,
                 taken, writing>>

-----------------------------------------------------------------------------
\* A data writer uses the head of its queue and pops it.
Take(ch) ==
  /\ writing /\ queue[ch] # <<>>
  /\ taken' = [taken EXCEPT ![ch] = Append(@, content[Head(queue[ch])])]
  /\ queue' = [queue EXCEPT ![ch] = Tail(@)]
  /\ Drop(<<Head(queue[ch])>>, pc)
  /\ UNCHANGED <<inputs, pushed, closed, running, held, block, seqno, content, writing>>

\* stop_tasklets: the job ends, at a time when the reader has no more blocks left
\* than its pool holds.  The data writers are stopped after the extractor.
Stop ==
  /\ running /\ Blocks - pushed <= InputSize - InUse
  /\ running' = FALSE
  /\ UNCHANGED <<inputs, pushed, closed, pc, held, block, seqno, free, refs, content, queue,
                 taken, writing>>

StopWriters ==
  /\ ~running /\ writing
  /\ writing' = FALSE
  /\ Drop(FlattenSeq([ch \in Channels |-> queue[ch]]), pc)
  /\ queue' = [ch \in Channels |-> <<>>]
  /\ UNCHANGED <<inputs, pushed, closed, running, held, block, seqno, content, taken>>

-----------------------------------------------------------------------------
Task(t) ==
  \/ TestLoop(t) \/ Allocate(t) \/ Pop(t) \/ WaitForBlock(t) \/ QueueClosed(t)
  \/ Order(t) \/ Push(t) \/ Advance(t) \/ Release(t)
Reader == ReadBlock \/ CloseQueue

Next ==
  \/ Reader \/ Stop \/ StopWriters \/ Join
  \/ \E t \in Threads : Task(t)
  \/ \E ch \in Channels : Take(ch)

Spec == Init /\ [][Next]_vars

AllTaken == \A ch \in Channels : Len(taken[ch]) = Blocks

\* Every thread goes on when it can, and the job is ended at the latest when all
\* data have been used.
FairSpec ==
  /\ Spec
  /\ WF_vars(Stop /\ AllTaken)
  /\ WF_vars(Reader) /\ WF_vars(StopWriters) /\ WF_vars(Join)
  /\ \A t \in Threads : WF_vars(Task(t))
  /\ \A ch \in Channels : WF_vars(Take(ch))

-----------------------------------------------------------------------------
\* A data writer gets the blocks in the order in which they were read, with the
\* data of the block: no thread overtakes another (seqno), and no element is used
\* again while a queue has it, though channels share elements.
TakenInOrder ==
  \A ch \in Channels : \A i \in DOMAIN taken[ch] : taken[ch][i] = i

\* The threads, the pools and the queues do not come to a stand before all blocks
\* are handed on, and stop_tasklets with wait_termination ends them whatever they
\* are doing then.
EventuallyJoined == <>(pc[Main] = "joined")
=============================================================================
