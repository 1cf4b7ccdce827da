------------------------- MODULE Extraction_proofs -------------------------
(***************************************************************************)
(* Proofs about the threads of a channel extractor, for any number of      *)
(* threads, channels, blocks and elements of the pools: whatever thread    *)
(* extracts a block, each data writer gets the blocks in order and whole.  *)
(***************************************************************************)
EXTENDS Extraction, FiniteSetTheorems, SequenceTheorems, WellFoundedInduction, TLAPS

\* What the proofs need of the configuration; the size of the pool does not matter.
Setup ==
  /\ SubbandMap \in Seq(Nat) /\ Recorded \in Nat \ {0}
  /\ Range(SubbandMap) = 1 .. Recorded
  /\ PoolSize \in Nat

\* How far a thread is with its block; the thread may be waiting to go on.
Phase(p) ==
  IF p \in {"test", "ended", "joined"} THEN "idle"
  ELSE IF p \in {"allocate", "wait pool"} THEN "filling"
  ELSE IF p \in {"pop", "wait queue", "woken"} THEN "filled"
  ELSE IF p \in {"order", "wait seqno"} THEN "ordering"
  ELSE p

Steps == {"test", "ended", "joined", "allocate", "wait pool", "pop", "wait queue", "woken",
          "order", "wait seqno", "push", "advance", "release"}

\* Phases in which a thread has a block, and those in which it has yet to hand it on.
HasBlock == {"ordering", "push", "advance", "release"}
InTurn == {"ordering", "push", "advance"}

Types ==
  /\ inputs \in Seq(Nat) /\ pushed \in Nat
  /\ pc \in [Threads -> Steps]
  /\ held \in [Threads -> Seq(Elements)]
  /\ block \in [Threads -> Nat]
  /\ seqno \in Nat
  /\ free \subseteq Elements
  /\ refs \in [Elements -> Int]
  /\ content \in [Elements -> Nat]
  /\ queue \in [Channels -> Seq(Elements)]
  /\ taken \in [Channels -> Seq(Nat)]

\* A thread has an element for each channel from the time it has got them all.
HoldsAll ==
  \A t \in Threads :
    /\ Phase(pc[t]) = "idle" => held[t] = <<>>
    /\ Phase(pc[t]) = "filling" => Len(held[t]) < Len(SubbandMap)
    /\ Phase(pc[t]) \notin {"idle", "filling"} => Len(held[t]) = Len(SubbandMap)

\* No element is in two places that threads fill.
HeldOnce ==
  \A t, u \in Threads : \A i \in DOMAIN held[t], j \in DOMAIN held[u] :
    held[t][i] = held[u][j] => t = u /\ i = j

Held(e) == \E t \in Threads : \E i \in DOMAIN held[t] : held[t][i] = e
Queued(ch, e) == \E i \in DOMAIN queue[ch] : queue[ch][i] = e
Queues(e) == {ch \in Channels : Queued(ch, e)}

\* An element is in the queues only when its thread has handed on its block.
QueuedLater ==
  \A t \in Threads : Phase(pc[t]) \notin {"advance", "release"} =>
    \A i \in DOMAIN held[t], ch \in Channels : \A j \in DOMAIN queue[ch] : queue[ch][j] # held[t][i]

\* The references count the thread and the queues that have the element, and
\* an element without references is free.
Counted ==
  \A e \in Elements :
    /\ refs[e] = Cardinality(Queues(e)) + (IF Held(e) THEN 1 ELSE 0)
    /\ e \in free => ~Held(e) /\ Queues(e) = {}

\* The blocks are popped in the order in which they were read, each by one thread.
Popped == pushed - Len(inputs)
PoppedOnce ==
  /\ Popped \in Nat
  /\ \A i \in DOMAIN inputs : inputs[i] = Popped + i
  /\ \A t \in Threads : Phase(pc[t]) \in InTurn => block[t] <= Popped
  /\ \A t, u \in Threads :
       Phase(pc[t]) \in InTurn /\ Phase(pc[u]) \in InTurn /\ block[t] = block[u] => t = u

\* The thread that hands on its block is the one whose turn it is.
Turn == \A t \in Threads : Phase(pc[t]) \in {"push", "advance"} => block[t] = seqno + 1

\* A thread that has a block has extracted it to its elements.
Extracted ==
  \A t \in Threads : Phase(pc[t]) \in HasBlock =>
    \A k \in 1 .. Recorded : content[held[t][k]] = block[t]

\* What has been taken from a queue, and what is in it, are the blocks handed on.
HandedOn == seqno + (IF \E t \in Threads : Phase(pc[t]) = "advance" THEN 1 ELSE 0)
QueuesInOrder ==
  \A ch \in Channels :
    /\ Len(taken[ch]) + Len(queue[ch]) = HandedOn
    /\ \A i \in DOMAIN queue[ch] : content[queue[ch][i]] = Len(taken[ch]) + i

\* The inductive invariant, as long as the data writers run.
Working ==
  /\ Types /\ HoldsAll /\ HeldOnce /\ QueuedLater /\ Counted /\ PoppedOnce /\ Turn
  /\ Extracted /\ QueuesInOrder

EInv == TakenInOrder /\ (writing => Working)

-----------------------------------------------------------------------------
\* The set of naturals below another one, and the least element of a set.
Less == {ss \in Nat \X Nat : ss[1] < ss[2]}

LEMMA LeastNatural ==
  ASSUME NEW T \in SUBSET Nat, T # {}
  PROVE  \E x \in T : \A y \in T : x <= y
<1>1. IsWellFoundedOn(Less, Nat)
  BY NatLessThanWellFounded, Zenon DEF OpToRel, Less
<1>2. PICK x \in T : \A y \in T : <<y, x>> \notin Less
  BY <1>1, WFMin
<1>3. ASSUME NEW y \in T PROVE x <= y
  <2>1. y < x => <<y, x>> \in Less
    <3> DEFINE s == <<y, x>>
    <3>1. s \in Nat \X Nat /\ s[1] = y /\ s[2] = x
      OBVIOUS
    <3> QED BY <3>1 DEF Less
  <2>2. x \in Nat /\ y \in Nat
    OBVIOUS
  <2> QED BY <1>2, <2>1, <2>2
<1> QED BY <1>3

\* The element Memory_pool::allocate takes is one of the free ones.
LEMMA MinFree ==
  ASSUME Setup, free \subseteq Elements, free # {}
  PROVE  Min(free) \in free
<1>1. PoolSize \in Nat
  BY DEF Setup
<1>2. free \in SUBSET Nat
  BY <1>1 DEF Elements
<1>3. \E x \in free : \A y \in free : x <= y
  BY <1>2, LeastNatural
<1> QED BY <1>3 DEF Min

\* The channels, and the recorded subbands they are taken from.
LEMMA ChannelFacts ==
  ASSUME Setup
  PROVE  /\ Len(SubbandMap) \in Nat \ {0} /\ Channels = 1 .. Len(SubbandMap)
         /\ Recorded \in Nat \ {0} /\ Recorded <= Len(SubbandMap)
         /\ \A ch \in Channels : SubbandMap[ch] \in 1 .. Recorded
         /\ IsFiniteSet(Channels)
<1>1. SubbandMap \in Seq(Nat) /\ Recorded \in Nat \ {0} /\ Range(SubbandMap) = 1 .. Recorded
  BY DEF Setup
<1>2. Len(SubbandMap) \in Nat /\ Channels = 1 .. Len(SubbandMap)
  BY <1>1, LenProperties DEF Channels
<1>3. SubbandMap \in [Channels -> 1 .. Recorded] /\ \A ch \in Channels : SubbandMap[ch] \in 1 .. Recorded
  BY <1>1, <1>2, LenProperties DEF Range, Channels
<1>4. IsFiniteSet(Channels) /\ Cardinality(Channels) = Len(SubbandMap)
  <2>1. PICK n \in Nat : n = Len(SubbandMap)
    BY <1>2
  <2>2. IsFiniteSet(1 .. n) /\ Cardinality(1 .. n) = IF 1 > n THEN 0 ELSE n - 1 + 1
    BY FS_Interval
  <2>3. Cardinality(1 .. n) = n
    BY <2>2
  <2> QED BY <1>2, <2>1, <2>2, <2>3
<1>5. \A k \in 1 .. Recorded : \E ch \in Channels : SubbandMap[ch] = k
  BY <1>1 DEF Range, Channels
<1>6. SubbandMap \in Surjection(Channels, 1 .. Recorded)
  BY <1>3, <1>5 DEF Surjection
<1>7. Cardinality(1 .. Recorded) <= Cardinality(Channels)
  BY <1>4, <1>6, FS_Surjection
<1>8. Cardinality(1 .. Recorded) = Recorded
  BY <1>1, FS_Interval
<1> QED BY <1>1, <1>2, <1>3, <1>4, <1>7, <1>8

-----------------------------------------------------------------------------
LEMMA Phases ==
  /\ Phase("test") = "idle" /\ Phase("ended") = "idle" /\ Phase("joined") = "idle"
  /\ Phase("allocate") = "filling" /\ Phase("wait pool") = "filling"
  /\ Phase("pop") = "filled" /\ Phase("wait queue") = "filled" /\ Phase("woken") = "filled"
  /\ Phase("order") = "ordering" /\ Phase("wait seqno") = "ordering"
  /\ Phase("push") = "push" /\ Phase("advance") = "advance" /\ Phase("release") = "release"
BY DEF Phase

\* Waking a thread that waits does not change how far it is.
LEMMA Wakes ==
  ASSUME NEW p \in [Threads -> Steps]
  PROVE  \A q \in {p, WakeOnRelease(p), Broadcast(p, OnQueue), Broadcast(p, OnSeqno)} :
           q \in [Threads -> Steps] /\ \A t \in Threads : Phase(q[t]) = Phase(p[t])
<1>1. ASSUME NEW w \in {OnPool, OnQueue, OnSeqno}
      PROVE  /\ Broadcast(p, w) \in [Threads -> Steps]
             /\ \A t \in Threads : Phase(Broadcast(p, w)[t]) = Phase(p[t])
  <2>1. w.woken \in Steps /\ Phase(w.waiting) = Phase(w.woken)
    <3>1. CASE w = OnPool
      BY <3>1, Phases DEF OnPool, Steps
    <3>2. CASE w = OnQueue
      BY <3>2, Phases DEF OnQueue, Steps
    <3>3. CASE w = OnSeqno
      BY <3>3, Phases DEF OnSeqno, Steps
    <3> QED BY <3>1, <3>2, <3>3
  <2> QED BY <2>1 DEF Broadcast
<1> QED BY <1>1 DEF WakeOnRelease

LEMMA DropIs ==
  ASSUME NEW es, NEW p \in [Threads -> Steps], Range(es) \subseteq Elements, Drop(es, p)
  PROVE  /\ refs' = [e \in Elements |-> refs[e] - Cardinality({i \in DOMAIN es : es[i] = e})]
         /\ free' = free \cup {e \in Range(es) : refs'[e] = 0}
         /\ pc' \in [Threads -> Steps]
         /\ \A t \in Threads : Phase(pc'[t]) = Phase(p[t])
<1>1. refs' = [e \in Elements |-> refs[e] - Cardinality({i \in DOMAIN es : es[i] = e})]
  BY DEF Drop
<1>2. free' = free \cup {e \in Range(es) : refs'[e] = 0}
  BY <1>1 DEF Drop
<1>3. pc' \in {p, WakeOnRelease(p)}
  BY DEF Drop
<1> QED BY <1>1, <1>2, <1>3, Wakes

\* The sequences of the state.
LEMMA TypeFacts ==
  ASSUME Setup, Types
  PROVE  /\ \A t \in Threads :
              /\ held[t] \in Seq(Elements) /\ DOMAIN held[t] = 1 .. Len(held[t])
              /\ Len(held[t]) \in Nat /\ \A i \in DOMAIN held[t] : held[t][i] \in Elements
         /\ \A ch \in Channels :
              /\ queue[ch] \in Seq(Elements) /\ DOMAIN queue[ch] = 1 .. Len(queue[ch])
              /\ Len(queue[ch]) \in Nat /\ \A i \in DOMAIN queue[ch] : queue[ch][i] \in Elements
         /\ \A ch \in Channels :
              /\ taken[ch] \in Seq(Nat) /\ DOMAIN taken[ch] = 1 .. Len(taken[ch])
              /\ Len(taken[ch]) \in Nat
         /\ DOMAIN inputs = 1 .. Len(inputs) /\ Len(inputs) \in Nat
         /\ \A e \in Elements : Cardinality(Queues(e)) \in Nat
                                /\ (Cardinality(Queues(e)) = 0 <=> Queues(e) = {})
<1>1. \A S, s : s \in Seq(S) =>
        DOMAIN s = 1 .. Len(s) /\ Len(s) \in Nat /\ \A i \in DOMAIN s : s[i] \in S
  BY LenProperties, ElementOfSeq
<1>2. ASSUME NEW e \in Elements
      PROVE  Cardinality(Queues(e)) \in Nat /\ (Cardinality(Queues(e)) = 0 <=> Queues(e) = {})
  <2>1. IsFiniteSet(Queues(e))
    <3>1. Queues(e) \in SUBSET Channels
      BY DEF Queues
    <3> QED BY <3>1, ChannelFacts, FS_Subset
  <2> QED BY <2>1, FS_CardinalityType, FS_EmptySet
<1>3. /\ \A t \in Threads : held[t] \in Seq(Elements)
      /\ \A ch \in Channels : queue[ch] \in Seq(Elements) /\ taken[ch] \in Seq(Nat)
      /\ inputs \in Seq(Nat)
  BY DEF Types
<1> QED BY <1>1, <1>2, <1>3

-----------------------------------------------------------------------------
\* A step that moves no thread on and touches no element.
LEMMA SamePhases ==
  ASSUME Setup, Working, pc' \in [Threads -> Steps],
         \A t \in Threads : Phase(pc'[t]) = Phase(pc[t]),
         UNCHANGED <<held, block, seqno, free, refs, content, queue, taken>>
  PROVE  /\ HoldsAll' /\ HeldOnce' /\ QueuedLater' /\ Counted' /\ Turn' /\ Extracted'
         /\ QueuesInOrder'
<1> USE DEF Working
<1>1. HoldsAll' /\ HeldOnce' /\ QueuedLater' /\ Turn'
  BY DEF HoldsAll, HeldOnce, QueuedLater, Turn
<1>2. Counted'
  <2>1. \A e \in Elements : (Held(e)' <=> Held(e)) /\ Queues(e)' = Queues(e)
    BY DEF Held, Queues, Queued
  <2> QED BY <2>1 DEF Counted
<1>3. Extracted'
  BY DEF Extracted
<1>4. HandedOn' = HandedOn
  BY DEF HandedOn
<1>5. QueuesInOrder'
  BY <1>4 DEF QueuesInOrder
<1> QED BY <1>1, <1>2, <1>3, <1>5

\* A thread that has no block after a step, and was not handing one on.
LEMMA WithoutBlock ==
  ASSUME Setup, Working, NEW t \in Threads,
         pc' \in [Threads -> Steps],
         \A u \in Threads : u # t => Phase(pc'[u]) = Phase(pc[u]) /\ held'[u] = held[u],
         Phase(pc[t]) # "advance", Phase(pc'[t]) \notin HasBlock,
         \A u \in Threads : u # t => block'[u] = block[u],
         UNCHANGED <<inputs, pushed, seqno, content, queue, taken>>
  PROVE  PoppedOnce' /\ Turn' /\ Extracted' /\ QueuesInOrder'
<1> USE DEF Working
<1>1. \A u \in Threads : Phase(pc'[u]) \in HasBlock =>
        u # t /\ Phase(pc'[u]) = Phase(pc[u]) /\ held'[u] = held[u] /\ block'[u] = block[u]
  OBVIOUS
<1>2. InTurn \subseteq HasBlock /\ {"push", "advance"} \subseteq HasBlock
  BY DEF InTurn, HasBlock
<1>3. Popped' = Popped
  BY DEF Popped
<1>4. PoppedOnce'
  BY <1>1, <1>2, <1>3 DEF PoppedOnce
<1>5. Turn'
  BY <1>1, <1>2 DEF Turn
<1>6. Extracted'
  BY <1>1 DEF Extracted
<1>7. HandedOn' = HandedOn
  <2>1. \A u \in Threads : Phase(pc'[u]) = "advance" <=> Phase(pc[u]) = "advance"
    BY <1>2
  <2> QED BY <2>1 DEF HandedOn
<1>8. QueuesInOrder'
  BY <1>7 DEF QueuesInOrder
<1> QED BY <1>4, <1>5, <1>6, <1>8

\* A thread drops the elements it holds.
LEMMA DropHeld ==
  ASSUME Setup, Working, NEW t \in Threads, NEW p \in [Threads -> Steps],
         Drop(held[t], p), held' = [held EXCEPT ![t] = <<>>], UNCHANGED queue
  PROVE  /\ refs' \in [Elements -> Int] /\ free' \subseteq Elements
         /\ held' \in [Threads -> Seq(Elements)] /\ held'[t] = <<>>
         /\ \A u \in Threads : u # t => held'[u] = held[u]
         /\ pc' \in [Threads -> Steps] /\ \A u \in Threads : Phase(pc'[u]) = Phase(p[u])
         /\ HeldOnce' /\ Counted'
<1> USE DEF Working
<1>1. /\ Types /\ held \in [Threads -> Seq(Elements)] /\ free \subseteq Elements
      /\ refs \in [Elements -> Int]
      /\ DOMAIN held[t] = 1 .. Len(held[t]) /\ Len(held[t]) \in Nat
      /\ \A i \in DOMAIN held[t] : held[t][i] \in Elements
      /\ \A u \in Threads : held[u] \in Seq(Elements)
  BY TypeFacts DEF Types
<1>2. Range(held[t]) \subseteq Elements
  BY <1>1 DEF Range
<1>3. /\ refs' = [e \in Elements |-> refs[e] - Cardinality({i \in DOMAIN held[t] : held[t][i] = e})]
      /\ free' = free \cup {e \in Range(held[t]) : refs'[e] = 0}
      /\ pc' \in [Threads -> Steps]
      /\ \A u \in Threads : Phase(pc'[u]) = Phase(p[u])
  BY <1>2, DropIs
<1>4. ASSUME NEW e \in Elements
      PROVE  refs'[e] = refs[e] - (IF e \in Range(held[t]) THEN 1 ELSE 0)
  <2>1. CASE e \in Range(held[t])
    <3>1. PICK i \in DOMAIN held[t] : held[t][i] = e
      BY <2>1 DEF Range
    <3>2. \A j \in DOMAIN held[t] : held[t][j] = e => j = i
      BY <3>1 DEF HeldOnce
    <3>3. {j \in DOMAIN held[t] : held[t][j] = e} = {i}
      BY <3>1, <3>2
    <3>4. Cardinality({i}) = 1
      BY FS_Singleton
    <3> QED BY <1>3, <2>1, <3>3, <3>4
  <2>2. CASE e \notin Range(held[t])
    <3>1. {j \in DOMAIN held[t] : held[t][j] = e} = {}
      BY <2>2 DEF Range
    <3>2. Cardinality({}) = 0
      BY FS_EmptySet
    <3> QED BY <1>3, <2>2, <3>1, <3>2
  <2> QED BY <2>1, <2>2
<1>5. <<>> \in Seq(Elements) /\ DOMAIN <<>> = {}
  BY EmptySeq
<1>6. /\ held' \in [Threads -> Seq(Elements)] /\ held'[t] = <<>>
      /\ \A u \in Threads : u # t => held'[u] = held[u]
  BY <1>1, <1>5
<1>7. refs' \in [Elements -> Int] /\ free' \subseteq Elements
  <2>1. ASSUME NEW e \in Elements PROVE refs'[e] \in Int
    <3>1. refs[e] \in Int /\ (IF e \in Range(held[t]) THEN 1 ELSE 0) \in Int
      BY <1>1
    <3> QED BY <1>4, <3>1
  <2> QED BY <1>1, <1>2, <1>3, <2>1
<1>8. HeldOnce'
  BY <1>5, <1>6 DEF HeldOnce
<1>9. ASSUME NEW e \in Elements
      PROVE  Held(e)' <=> (Held(e) /\ e \notin Range(held[t]))
  <2>1. ASSUME NEW u \in Threads, NEW i \in DOMAIN held'[u], held'[u][i] = e
        PROVE  Held(e) /\ e \notin Range(held[t])
    <3>1. u # t /\ i \in DOMAIN held[u] /\ held[u][i] = e
      BY <1>5, <1>6, <2>1
    <3>2. \A j \in DOMAIN held[t] : held[t][j] # e
      BY <3>1 DEF HeldOnce
    <3> QED BY <3>1, <3>2 DEF Held, Range
  <2>2. ASSUME NEW u \in Threads, NEW i \in DOMAIN held[u], held[u][i] = e, e \notin Range(held[t])
        PROVE  Held(e)'
    <3>1. u # t
      BY <2>2 DEF Range
    <3> QED BY <1>6, <2>2, <3>1 DEF Held
  <2> QED BY <2>1, <2>2 DEF Held
<1>10. ASSUME NEW e \in Elements
       PROVE  /\ refs'[e] = Cardinality(Queues(e)) + (IF Held(e)' THEN 1 ELSE 0)
              /\ e \in free' => ~Held(e)' /\ Queues(e) = {}
  <2>1. refs[e] = Cardinality(Queues(e)) + (IF Held(e) THEN 1 ELSE 0)
    BY DEF Counted
  <2>2. e \in Range(held[t]) => Held(e)
    BY DEF Held, Range
  <2>3. Cardinality(Queues(e)) \in Nat /\ (Cardinality(Queues(e)) = 0 <=> Queues(e) = {})
    BY <1>1, TypeFacts
  <2>4. refs'[e] = Cardinality(Queues(e)) + (IF Held(e)' THEN 1 ELSE 0)
    BY <1>4, <1>9, <2>1, <2>2, <2>3
  <2>5. ASSUME e \in free' PROVE ~Held(e)' /\ Queues(e) = {}
    <3>1. CASE e \in free
      BY <1>9, <3>1 DEF Counted
    <3>2. CASE e \in Range(held[t]) /\ refs'[e] = 0
      BY <1>9, <2>3, <2>4, <3>2
    <3> QED BY <1>3, <2>5, <3>1, <3>2
  <2> QED BY <2>4, <2>5
<1>11. Counted'
  <2>1. \A e \in Elements : Queues(e)' = Queues(e)
    BY DEF Queues, Queued
  <2> QED BY <1>10, <2>1 DEF Counted
<1> QED BY <1>3, <1>6, <1>7, <1>8, <1>11

-----------------------------------------------------------------------------
LEMMA InitWorking ==
  ASSUME Setup, Init
  PROVE  EInv
<1> USE DEF Init
<1>1. <<>> \in Seq(Elements) /\ <<>> \in Seq(Nat) /\ Len(<<>>) = 0 /\ DOMAIN <<>> = {}
  BY EmptySeq
<1>2. Types
  BY <1>1 DEF Types, Steps
<1>3. \A t \in Threads : Phase(pc[t]) = "idle"
  BY Phases
<1>4. HoldsAll /\ HeldOnce /\ QueuedLater
  BY <1>1, <1>3 DEF HoldsAll, HeldOnce, QueuedLater
<1>5. Counted
  <2>1. \A e \in Elements : ~Held(e) /\ Queues(e) = {}
    BY <1>1 DEF Held, Queues, Queued
  <2>2. Cardinality({}) = 0
    BY FS_EmptySet
  <2>3. ASSUME NEW e \in Elements
        PROVE  /\ refs[e] = Cardinality(Queues(e)) + (IF Held(e) THEN 1 ELSE 0)
               /\ ~Held(e) /\ Queues(e) = {}
    <3>1. refs[e] = 0
      OBVIOUS
    <3>2. Cardinality(Queues(e)) = 0
      BY <2>1, <2>2
    <3> QED BY <2>1, <3>1, <3>2
  <2> QED BY <2>3 DEF Counted
<1>6. PoppedOnce /\ Turn /\ Extracted
  BY <1>1, <1>3 DEF PoppedOnce, Popped, Turn, Extracted, InTurn, HasBlock
<1>7. QueuesInOrder
  <2>1. HandedOn = 0
    BY <1>3 DEF HandedOn
  <2> QED BY <1>1, <2>1 DEF QueuesInOrder
<1>8. TakenInOrder
  BY <1>1 DEF TakenInOrder
<1> QED BY <1>2, <1>4, <1>5, <1>6, <1>7, <1>8 DEF EInv, Working

-----------------------------------------------------------------------------
\* The steps of a thread.
LEMMA TestLoopWorking ==
  ASSUME Setup, Working, NEW t \in Threads, TestLoop(t)
  PROVE  Working'
<1> USE DEF Working
<1>1. /\ pc[t] = "test" /\ pc' \in [Threads -> Steps]
      /\ pc'[t] \in {"allocate", "ended"} /\ \A u \in Threads : u # t => pc'[u] = pc[u]
      /\ UNCHANGED <<inputs, pushed, held, block, seqno, free, refs, content, queue, taken>>
  BY DEF TestLoop, Types, Steps
<1>2. Phase(pc[t]) = "idle" /\ Phase(pc'[t]) \in {"filling", "idle"} /\ held[t] = <<>>
  BY <1>1, Phases DEF HoldsAll
<1>3. PoppedOnce' /\ Turn' /\ Extracted' /\ QueuesInOrder'
  BY <1>1, <1>2, WithoutBlock DEF HasBlock
<1>4. Types'
  BY <1>1 DEF Types
<1>5. Len(<<>>) = 0 /\ DOMAIN <<>> = {} /\ Len(SubbandMap) \in Nat \ {0}
  BY EmptySeq, ChannelFacts
<1>6. HoldsAll' /\ HeldOnce' /\ QueuedLater'
  BY <1>1, <1>2, <1>5 DEF HoldsAll, HeldOnce, QueuedLater
<1>7. Counted'
  <2>1. \A e \in Elements : (Held(e)' <=> Held(e)) /\ Queues(e)' = Queues(e)
    BY <1>1 DEF Held, Queues, Queued
  <2> QED BY <1>1, <2>1 DEF Counted
<1> QED BY <1>3, <1>4, <1>6, <1>7

LEMMA AllocateWorking ==
  ASSUME Setup, Working, NEW t \in Threads, Allocate(t)
  PROVE  Working'
<1> USE DEF Working
<1>1. /\ pc[t] = "allocate"
      /\ UNCHANGED <<inputs, pushed, block, seqno, content, queue, taken>>
      /\ Types
  BY DEF Allocate
<1>2. CASE free = {}
  <2>1. /\ pc' = [pc EXCEPT ![t] = "wait pool"]
        /\ UNCHANGED <<inputs, pushed, held, block, seqno, free, refs, content, queue, taken>>
    BY <1>2 DEF Allocate
  <2>2. pc' \in [Threads -> Steps] /\ \A u \in Threads : Phase(pc'[u]) = Phase(pc[u])
    BY <1>1, <2>1, Phases DEF Types, Steps
  <2>3. Types'
    BY <2>1, <2>2 DEF Types
  <2>4. Popped' = Popped
    BY <2>1 DEF Popped
  <2>5. PoppedOnce'
    BY <2>1, <2>2, <2>4 DEF PoppedOnce
  <2> QED BY <2>1, <2>2, <2>3, <2>5, SamePhases
<1>3. CASE free # {}
  <2>1. PICK m \in free : m = Min(free)
    BY <1>1, <1>3, MinFree DEF Types
  <2>2. PICK L \in Nat : L = Len(held[t])
    BY <1>1, TypeFacts
  <2>3. /\ held' = [held EXCEPT ![t] = Append(@, m)]
        /\ refs' = [refs EXCEPT ![m] = 1] /\ free' = free \ {m}
        /\ pc' = [pc EXCEPT ![t] = IF Len(held'[t]) = Len(SubbandMap) THEN "pop" ELSE @]
    BY <1>3, <2>1 DEF Allocate
  <2>4. m \in Elements /\ held[t] \in Seq(Elements) /\ DOMAIN held[t] = 1 .. L
    BY <1>1, <2>2, TypeFacts DEF Types
  <2>5. /\ held' \in [Threads -> Seq(Elements)]
        /\ \A u \in Threads : u # t => held'[u] = held[u]
        /\ Len(held'[t]) = L + 1 /\ DOMAIN held'[t] = 1 .. L + 1
        /\ \A i \in 1 .. L : held'[t][i] = held[t][i]
        /\ held'[t][L + 1] = m
    <3>1. PICK q \in Seq(Elements) : q = Append(held[t], m)
      BY <2>4, AppendProperties
    <3>2. Len(q) = L + 1 /\ (\A i \in 1 .. L : q[i] = held[t][i]) /\ q[L + 1] = m
      BY <2>2, <2>4, <3>1, AppendProperties
    <3>3. DOMAIN q = 1 .. L + 1
      BY <3>2, LenProperties
    <3>4. held' = [held EXCEPT ![t] = q] /\ held \in [Threads -> Seq(Elements)]
      BY <1>1, <2>3, <3>1 DEF Types
    <3> QED BY <3>2, <3>3, <3>4
  <2>6. /\ pc' \in [Threads -> Steps] /\ \A u \in Threads : u # t => pc'[u] = pc[u]
        /\ pc'[t] = IF L + 1 = Len(SubbandMap) THEN "pop" ELSE "allocate"
    BY <1>1, <2>3, <2>5 DEF Types, Steps
  <2>7. /\ Phase(pc[t]) = "filling"
        /\ Phase(pc'[t]) = IF L + 1 = Len(SubbandMap) THEN "filled" ELSE "filling"
    BY <1>1, <2>6, Phases
  <2>8. PoppedOnce' /\ Turn' /\ Extracted' /\ QueuesInOrder'
    BY <1>1, <2>5, <2>6, <2>7, WithoutBlock DEF HasBlock
  <2>9. Types'
    BY <1>1, <2>3, <2>4, <2>5, <2>6 DEF Types
  <2>10. HoldsAll'
    <3>1. L < Len(SubbandMap) /\ Len(SubbandMap) \in Nat
      BY <2>2, <2>7, ChannelFacts DEF HoldsAll
    <3> QED BY <2>5, <2>6, <2>7, <3>1 DEF HoldsAll
  <2>11. \A u \in Threads : \A i \in DOMAIN held[u] : held[u][i] # m
    BY <2>1, <2>4 DEF Counted, Held
  <2>12. \A i \in DOMAIN held'[t] :
          (i \in DOMAIN held[t] /\ held'[t][i] = held[t][i]) \/ i = L + 1
    BY <2>4, <2>5
  <2>13. HeldOnce'
    <3>1. ASSUME NEW i \in DOMAIN held'[t], NEW j \in DOMAIN held'[t], held'[t][i] = held'[t][j]
          PROVE  i = j
      BY <2>5, <2>11, <2>12, <3>1 DEF HeldOnce
    <3>2. ASSUME NEW u \in Threads, u # t, NEW i \in DOMAIN held'[t], NEW j \in DOMAIN held'[u],
                 held'[t][i] = held'[u][j]
          PROVE  FALSE
      BY <2>5, <2>11, <2>12, <3>2 DEF HeldOnce
    <3>3. ASSUME NEW u \in Threads, NEW v \in Threads, u # t, v # t,
                 NEW i \in DOMAIN held'[u], NEW j \in DOMAIN held'[v], held'[u][i] = held'[v][j]
          PROVE  u = v /\ i = j
      BY <2>5, <3>3 DEF HeldOnce
    <3> QED BY <3>1, <3>2, <3>3 DEF HeldOnce
  <2>14. QueuedLater'
    <3>1. \A ch \in Channels : \A j \in DOMAIN queue[ch] : queue[ch][j] # m
      BY <2>1, <2>4 DEF Counted, Queues, Queued
    <3>2. ASSUME NEW u \in Threads, Phase(pc'[u]) \notin {"advance", "release"},
                 NEW i \in DOMAIN held'[u], NEW ch \in Channels, NEW j \in DOMAIN queue[ch]
          PROVE  queue[ch][j] # held'[u][i]
      <4>1. CASE u = t
        <5>1. CASE i = L + 1
          BY <2>5, <3>1, <4>1, <5>1
        <5>2. CASE i # L + 1
          <6>1. i \in DOMAIN held[t] /\ held'[t][i] = held[t][i]
            BY <2>12, <3>2, <4>1, <5>2
          <6> QED BY <2>7, <4>1, <6>1 DEF QueuedLater
        <5> QED BY <5>1, <5>2
      <4>2. CASE u # t
        BY <2>5, <2>6, <3>2, <4>2 DEF QueuedLater
      <4> QED BY <4>1, <4>2
    <3> QED BY <1>1, <3>2 DEF QueuedLater
  <2>15. Counted'
    <3>1. \A e \in Elements : Queues(e)' = Queues(e)
      BY <1>1 DEF Queues, Queued
    <3>2. ASSUME NEW e \in Elements, e # m PROVE Held(e)' <=> Held(e)
      <4>1. ASSUME NEW u \in Threads, NEW i \in DOMAIN held'[u], held'[u][i] = e PROVE Held(e)
        BY <2>5, <2>12, <3>2, <4>1 DEF Held
      <4>2. ASSUME NEW u \in Threads, NEW i \in DOMAIN held[u], held[u][i] = e PROVE Held(e)'
        <5>1. i \in DOMAIN held'[u] /\ held'[u][i] = e
          BY <2>4, <2>5, <4>2
        <5> QED BY <5>1 DEF Held
      <4> QED BY <4>1, <4>2 DEF Held
    <3>3. Held(m)' /\ Queues(m) = {} /\ Cardinality({}) = 0
      <4>1. L + 1 \in DOMAIN held'[t]
        BY <2>5
      <4>2. Held(m)'
        BY <2>5, <4>1 DEF Held
      <4> QED BY <2>1, <2>4, <4>2, FS_EmptySet DEF Counted
    <3>4. refs'[m] = 1 /\ \A e \in Elements : e # m => refs'[e] = refs[e]
      BY <1>1, <2>3, <2>4 DEF Types
    <3>5. ASSUME NEW e \in Elements
          PROVE  /\ refs'[e] = Cardinality(Queues(e)) + (IF Held(e)' THEN 1 ELSE 0)
                 /\ e \in free' => ~Held(e)' /\ Queues(e) = {}
      <4>1. CASE e = m
        <5>1. Cardinality(Queues(m)) = 0 /\ Held(m)' /\ refs'[m] = 1 /\ m \notin free'
          BY <2>3, <3>3, <3>4
        <5> QED BY <4>1, <5>1
      <4>2. CASE e # m
        BY <2>3, <3>2, <3>4, <4>2 DEF Counted
      <4> QED BY <4>1, <4>2
    <3> QED BY <3>1, <3>5 DEF Counted
  <2> QED BY <2>8, <2>9, <2>10, <2>13, <2>14, <2>15
<1> QED BY <1>2, <1>3

\* A step that at most adds to the queue of the reader or empties it.
LEMMA StaysWorking ==
  ASSUME Setup, Working, NEW P \in Nat, Popped <= P, Popped' = P,
         inputs' \in Seq(Nat), pushed' \in Nat, \A i \in DOMAIN inputs' : inputs'[i] = P + i,
         pc' \in [Threads -> Steps], \A t \in Threads : Phase(pc'[t]) = Phase(pc[t]),
         UNCHANGED <<held, block, seqno, free, refs, content, queue, taken>>
  PROVE  Working'
<1> USE DEF Working
<1>1. /\ HoldsAll' /\ HeldOnce' /\ QueuedLater' /\ Counted' /\ Turn' /\ Extracted'
      /\ QueuesInOrder'
  BY SamePhases
<1>2. Types'
  BY DEF Types
<1>3. PoppedOnce'
  <2>1. Popped \in Nat /\ \A t \in Threads : Phase(pc[t]) \in InTurn => block[t] <= Popped
    BY DEF PoppedOnce
  <2>2. ASSUME NEW t \in Threads, Phase(pc'[t]) \in InTurn PROVE block'[t] <= P
    <3>1. block[t] \in Nat /\ block[t] <= Popped
      BY <2>1, <2>2 DEF Types
    <3> QED BY <2>1, <3>1
  <2>3. \A t, u \in Threads :
          Phase(pc'[t]) \in InTurn /\ Phase(pc'[u]) \in InTurn /\ block'[t] = block'[u] => t = u
    BY DEF PoppedOnce
  <2> QED BY <2>2, <2>3 DEF PoppedOnce
<1> QED BY <1>1, <1>2, <1>3

LEMMA ReadBlockWorking ==
  ASSUME Setup, Working, ReadBlock
  PROVE  Working'
<1> USE DEF Working
<1>1. /\ pushed' = pushed + 1 /\ inputs' = Append(inputs, pushed + 1)
      /\ UNCHANGED <<held, block, seqno, free, refs, content, queue, taken>>
  BY DEF ReadBlock
<1>2. pc' = pc \/ \E t \in Threads : pc[t] = "wait queue" /\ pc' = [pc EXCEPT ![t] = "woken"]
  BY DEF ReadBlock
<1>3. pc' \in [Threads -> Steps] /\ \A t \in Threads : Phase(pc'[t]) = Phase(pc[t])
  BY <1>2, Phases, ZenonT(60) DEF Types, Steps
<1>4. inputs \in Seq(Nat) /\ pushed \in Nat
  BY DEF Types
<1>5. PICK L \in Nat : L = Len(inputs) /\ DOMAIN inputs = 1 .. L
  BY TypeFacts
<1>6. PICK P \in Nat : P = pushed - L /\ P = Popped /\ \A i \in 1 .. L : inputs[i] = P + i
  BY <1>5 DEF PoppedOnce, Popped
<1>7. PICK q \in Seq(Nat) : q = inputs'
  BY <1>1, <1>4, AppendProperties, SMTT(30)
<1>8. /\ Len(q) = L + 1 /\ q[L + 1] = pushed + 1 /\ \A i \in 1 .. L : q[i] = inputs[i]
      /\ DOMAIN q = 1 .. L + 1
  <2>1. Len(q) = L + 1 /\ q[L + 1] = pushed + 1 /\ \A i \in 1 .. L : q[i] = inputs[i]
    BY <1>1, <1>4, <1>5, <1>7, AppendProperties
  <2> QED BY <2>1, LenProperties
<1>9. Popped' = P /\ \A i \in DOMAIN inputs' : inputs'[i] = P + i
  <2>1. Popped' = pushed + 1 - (L + 1)
    BY <1>1, <1>4, <1>7, <1>8 DEF Popped
  <2>2. \A i \in 1 .. L + 1 : i \in 1 .. L \/ i = L + 1
    BY <1>5
  <2>3. pushed + 1 = P + (L + 1)
    BY <1>4, <1>5, <1>6
  <2>4. \A i \in 1 .. L + 1 : q[i] = P + i
    BY <1>6, <1>8, <2>2, <2>3
  <2> QED BY <1>4, <1>5, <1>6, <1>7, <1>8, <2>1, <2>4
<1>10. pushed' \in Nat /\ Popped <= P
  BY <1>1, <1>4, <1>6
<1> QED BY <1>1, <1>3, <1>7, <1>9, <1>10, StaysWorking

\* The steps of a thread that leave the queue of the reader alone.
LEMMA WaitsWorking ==
  ASSUME Setup, Working, pc' \in [Threads -> Steps],
         \A t \in Threads : Phase(pc'[t]) = Phase(pc[t]),
         UNCHANGED <<inputs, pushed, held, block, seqno, free, refs, content, queue, taken>>
  PROVE  Working'
<1> USE DEF Working
<1>1. Popped' = Popped
  BY DEF Popped
<1>2. PICK P \in Nat : P = Popped
  BY DEF PoppedOnce
<1>3. \A i \in DOMAIN inputs' : inputs'[i] = P + i
  BY <1>2 DEF PoppedOnce
<1>4. inputs' \in Seq(Nat) /\ pushed' \in Nat
  BY DEF Types
<1>5. Popped <= P /\ Popped' = P
  BY <1>1, <1>2
<1> QED BY <1>3, <1>4, <1>5, StaysWorking

LEMMA CloseQueueWorking ==
  ASSUME Setup, Working, CloseQueue
  PROVE  Working'
<1>1. pc \in [Threads -> Steps]
  BY DEF Working, Types
<1>2. pc' \in [Threads -> Steps] /\ \A t \in Threads : Phase(pc'[t]) = Phase(pc[t])
  BY <1>1, Wakes DEF CloseQueue
<1> QED BY <1>2, WaitsWorking DEF CloseQueue

LEMMA WaitForBlockWorking ==
  ASSUME Setup, Working, NEW t \in Threads, WaitForBlock(t)
  PROVE  Working'
<1>1. pc \in [Threads -> Steps] /\ pc[t] \in {"pop", "woken"} /\ pc' = [pc EXCEPT ![t] = "wait queue"]
  BY DEF Working, Types, WaitForBlock
<1>2. pc' \in [Threads -> Steps] /\ \A u \in Threads : Phase(pc'[u]) = Phase(pc[u])
  BY <1>1, Phases DEF Steps
<1> QED BY <1>2, WaitsWorking DEF WaitForBlock

LEMMA StopWorking ==
  ASSUME Setup, Working, Stop
  PROVE  Working'
<1>1. pc \in [Threads -> Steps]
  BY DEF Working, Types
<1> QED BY <1>1, WaitsWorking DEF Stop

LEMMA JoinWorking ==
  ASSUME Setup, Working, Main \in Threads, Join
  PROVE  Working'
<1> USE DEF Working
<1>1. pc \in [Threads -> Steps] /\ pc[Main] = "ended" /\ pc' = [pc EXCEPT ![Main] = "joined"]
  BY DEF Types, Join
<1>2. pc' \in [Threads -> Steps] /\ \A u \in Threads : Phase(pc'[u]) = Phase(pc[u])
  BY <1>1, Phases DEF Steps
<1>3. /\ inputs' = <<>> /\ pushed' = pushed
      /\ UNCHANGED <<held, block, seqno, free, refs, content, queue, taken>>
  BY DEF Join
<1>4. inputs' \in Seq(Nat) /\ DOMAIN inputs' = {} /\ Len(inputs') = 0
  BY <1>3, EmptySeq
<1>5. pushed \in Nat /\ Len(inputs) \in Nat
  BY TypeFacts DEF Types
<1>6. Popped' = pushed /\ Popped <= pushed
  BY <1>3, <1>4, <1>5 DEF Popped
<1>7. \A i \in DOMAIN inputs' : inputs'[i] = pushed + i
  BY <1>4
<1> QED BY <1>2, <1>3, <1>4, <1>5, <1>6, <1>7, StaysWorking

LEMMA QueueClosedWorking ==
  ASSUME Setup, Working, NEW t \in Threads, QueueClosed(t)
  PROVE  Working'
<1> USE DEF Working
<1>1. /\ pc \in [Threads -> Steps] /\ pc[t] \in {"pop", "woken"}
      /\ Drop(held[t], [pc EXCEPT ![t] = "ended"]) /\ held' = [held EXCEPT ![t] = <<>>]
      /\ UNCHANGED <<inputs, pushed, block, seqno, content, queue, taken>>
  BY DEF Types, QueueClosed
<1> DEFINE p == [pc EXCEPT ![t] = "ended"]
<1>2. p \in [Threads -> Steps] /\ p[t] = "ended" /\ \A u \in Threads : u # t => p[u] = pc[u]
  <2>1. "ended" \in Steps
    BY DEF Steps
  <2> QED BY <1>1, <2>1
<1>3. /\ refs' \in [Elements -> Int] /\ free' \subseteq Elements
      /\ held' \in [Threads -> Seq(Elements)] /\ held'[t] = <<>>
      /\ \A u \in Threads : u # t => held'[u] = held[u]
      /\ pc' \in [Threads -> Steps] /\ \A u \in Threads : Phase(pc'[u]) = Phase(p[u])
      /\ HeldOnce' /\ Counted'
  BY <1>1, <1>2, DropHeld
<1>4. /\ Phase(pc[t]) = "filled" /\ Phase(pc'[t]) = "idle"
      /\ \A u \in Threads : u # t => Phase(pc'[u]) = Phase(pc[u])
  BY <1>1, <1>2, <1>3, Phases
<1>5. Types'
  BY <1>1, <1>3 DEF Types
<1>6. DOMAIN <<>> = {}
  BY EmptySeq
<1>7. HoldsAll' /\ QueuedLater'
  BY <1>1, <1>3, <1>4, <1>6 DEF HoldsAll, QueuedLater
<1>8. PoppedOnce' /\ Turn' /\ Extracted' /\ QueuesInOrder'
  BY <1>1, <1>3, <1>4, WithoutBlock DEF HasBlock
<1> QED BY <1>3, <1>5, <1>7, <1>8

LEMMA ReleaseWorking ==
  ASSUME Setup, Working, NEW t \in Threads, Release(t)
  PROVE  Working'
<1> USE DEF Working
<1>1. /\ pc \in [Threads -> Steps] /\ pc[t] = "release" /\ block \in [Threads -> Nat]
      /\ Drop(held[t], [pc EXCEPT ![t] = "test"]) /\ held' = [held EXCEPT ![t] = <<>>]
      /\ block' = [block EXCEPT ![t] = 0]
      /\ UNCHANGED <<inputs, pushed, seqno, content, queue, taken>>
  BY DEF Types, Release
<1> DEFINE p == [pc EXCEPT ![t] = "test"]
<1>2. p \in [Threads -> Steps] /\ p[t] = "test" /\ \A u \in Threads : u # t => p[u] = pc[u]
  <2>1. "test" \in Steps
    BY DEF Steps
  <2> QED BY <1>1, <2>1
<1>3. /\ refs' \in [Elements -> Int] /\ free' \subseteq Elements
      /\ held' \in [Threads -> Seq(Elements)] /\ held'[t] = <<>>
      /\ \A u \in Threads : u # t => held'[u] = held[u]
      /\ pc' \in [Threads -> Steps] /\ \A u \in Threads : Phase(pc'[u]) = Phase(p[u])
      /\ HeldOnce' /\ Counted'
  BY <1>1, <1>2, DropHeld
<1>4. /\ Phase(pc[t]) = "release" /\ Phase(pc'[t]) = "idle"
      /\ \A u \in Threads : u # t => Phase(pc'[u]) = Phase(pc[u])
  BY <1>1, <1>2, <1>3, Phases
<1>5. block' \in [Threads -> Nat] /\ \A u \in Threads : u # t => block'[u] = block[u]
  BY <1>1
<1>6. Types'
  BY <1>1, <1>3, <1>5 DEF Types
<1>7. DOMAIN <<>> = {}
  BY EmptySeq
<1>8. HoldsAll' /\ QueuedLater'
  BY <1>1, <1>3, <1>4, <1>7 DEF HoldsAll, QueuedLater
<1>9. PoppedOnce' /\ Turn' /\ Extracted' /\ QueuesInOrder'
  BY <1>1, <1>3, <1>4, <1>5, WithoutBlock DEF HasBlock
<1> QED BY <1>3, <1>6, <1>8, <1>9

\* A thread that is past filling its elements has one for each recorded subband.
LEMMA HeldFacts ==
  ASSUME Setup, Working
  PROVE  \A t \in Threads : Phase(pc[t]) \notin {"idle", "filling"} =>
           /\ 1 .. Recorded \subseteq DOMAIN held[t]
           /\ \A ch \in Channels : SubbandMap[ch] \in DOMAIN held[t]
<1>1. PICK N \in Nat : N = Len(SubbandMap)
  BY ChannelFacts
<1>2. PICK R \in Nat : R = Recorded /\ R <= N
  BY <1>1, ChannelFacts
<1>3. ASSUME NEW t \in Threads, Phase(pc[t]) \notin {"idle", "filling"}
      PROVE  DOMAIN held[t] = 1 .. N
  BY <1>1, <1>3, TypeFacts DEF Working, HoldsAll
<1>4. \A ch \in Channels : SubbandMap[ch] \in 1 .. R
  BY <1>2, ChannelFacts
<1>5. 1 .. R \subseteq 1 .. N
  BY <1>1, <1>2
<1> QED BY <1>2, <1>3, <1>4, <1>5

\* A step of a thread that touches neither its elements nor the queues.
LEMMA SameElements ==
  ASSUME Setup, Working, NEW t \in Threads, \A u \in Threads : u # t => Phase(pc'[u]) = Phase(pc[u]),
         Phase(pc[t]) \notin {"idle", "filling"}, Phase(pc'[t]) \notin {"idle", "filling"},
         Phase(pc[t]) \in {"advance", "release"} => Phase(pc'[t]) \in {"advance", "release"},
         UNCHANGED <<held, free, refs, queue>>
  PROVE  HoldsAll' /\ HeldOnce' /\ QueuedLater' /\ Counted'
<1> USE DEF Working
<1>1. HoldsAll'
  <2>1. ASSUME NEW u \in Threads
        PROVE  /\ Phase(pc'[u]) = "idle" => held[u] = <<>>
               /\ Phase(pc'[u]) = "filling" => Len(held[u]) < Len(SubbandMap)
               /\ Phase(pc'[u]) \notin {"idle", "filling"} => Len(held[u]) = Len(SubbandMap)
    BY DEF HoldsAll
  <2> QED BY <2>1 DEF HoldsAll
<1>2. HeldOnce'
  BY DEF HeldOnce
<1>3. QueuedLater'
  <2>1. \A u \in Threads : Phase(pc'[u]) \notin {"advance", "release"}
                           => Phase(pc[u]) \notin {"advance", "release"}
    OBVIOUS
  <2> QED BY <2>1 DEF QueuedLater
<1>4. Counted'
  <2>1. \A e \in Elements : (Held(e)' <=> Held(e)) /\ Queues(e)' = Queues(e)
    BY DEF Held, Queues, Queued
  <2> QED BY <2>1 DEF Counted
<1> QED BY <1>1, <1>2, <1>3, <1>4

LEMMA PopWorking ==
  ASSUME Setup, Working, NEW t \in Threads, Pop(t)
  PROVE  Working'
<1> USE DEF Working
<1>1. /\ pc \in [Threads -> Steps] /\ pc[t] \in {"pop", "woken"} /\ inputs # <<>>
      /\ block \in [Threads -> Nat] /\ content \in [Elements -> Nat]
      /\ inputs \in Seq(Nat) /\ pushed \in Nat
      /\ pc' = [pc EXCEPT ![t] = "order"]
      /\ UNCHANGED <<pushed, held, seqno, free, refs, queue, taken>>
  BY DEF Types, Pop
<1>2. /\ pc' \in [Threads -> Steps]
      /\ \A u \in Threads : u # t => pc'[u] = pc[u]
      /\ Phase(pc[t]) = "filled" /\ Phase(pc'[t]) = "ordering"
  BY <1>1, Phases DEF Steps
<1>3. PICK L \in Nat : L = Len(inputs) /\ DOMAIN inputs = 1 .. L
  BY TypeFacts
<1>4. L >= 1
  BY <1>1, <1>3, EmptySeq
<1>5. PICK P \in Nat : P = pushed - L /\ P = Popped /\ \A i \in 1 .. L : inputs[i] = P + i
  BY <1>3 DEF PoppedOnce, Popped
<1>6. PICK b \in Nat : b = P + 1
  BY <1>5
<1>7. Head(inputs) = b
  BY <1>1, <1>3, <1>4, <1>5, <1>6
<1>8. PICK q \in Seq(Nat) : q = inputs' /\ Len(q) = L - 1 /\ DOMAIN q = 1 .. L - 1
                            /\ \A i \in 1 .. L - 1 : q[i] = inputs[i + 1]
  <2>1. inputs' = Tail(inputs)
    BY DEF Pop
  <2>2. /\ Tail(inputs) \in Seq(Nat) /\ Len(Tail(inputs)) = L - 1
        /\ \A i \in 1 .. L - 1 : Tail(inputs)[i] = inputs[i + 1]
    BY <1>1, <1>3, HeadTailProperties
  <2>3. \A q \in Seq(Nat) : DOMAIN q = 1 .. Len(q)
    BY LenProperties
  <2> QED BY <2>1, <2>2, <2>3
<1>9. block' \in [Threads -> Nat] /\ block'[t] = b /\ \A u \in Threads : u # t => block'[u] = block[u]
  BY <1>1, <1>7 DEF Pop
<1>10. content' = [e \in Elements |-> IF \E k \in 1 .. Recorded : held[t][k] = e THEN b ELSE content[e]]
  BY <1>7 DEF Pop
<1>11. content' \in [Elements -> Nat]
  BY <1>1, <1>10
<1>12. Types'
  BY <1>1, <1>2, <1>8, <1>9, <1>11 DEF Types
<1>13. HoldsAll' /\ HeldOnce' /\ QueuedLater' /\ Counted'
  BY <1>1, <1>2, SameElements
<1>14. PoppedOnce'
  <2>1. Popped' = b
    BY <1>1, <1>5, <1>6, <1>3, <1>8 DEF Popped
  <2>2. \A i \in 1 .. L - 1 : q[i] = b + i
    <3>1. ASSUME NEW i \in 1 .. L - 1 PROVE i + 1 \in 1 .. L /\ P + (i + 1) = b + i
      <4>1. \A l, m, c, k \in Nat : c = m + 1 /\ k \in 1 .. l - 1 => k + 1 \in 1 .. l /\ m + (k + 1) = c + k
        OBVIOUS
      <4>2. i \in Nat
        OBVIOUS
      <4> QED BY <1>6, <4>1, <4>2
    <3> QED BY <1>5, <1>8, <3>1
  <2>3. \A u \in Threads : u # t /\ Phase(pc'[u]) \in InTurn => block'[u] = block[u] /\ block[u] <= P
    BY <1>2, <1>5, <1>9 DEF PoppedOnce
  <2>4. ASSUME NEW u \in Threads, Phase(pc'[u]) \in InTurn PROVE block'[u] <= b
    <3>1. block[u] \in Nat
      BY <1>1
    <3> QED BY <1>5, <1>6, <1>9, <2>3, <2>4, <3>1
  <2>5. \A u \in Threads : u # t /\ Phase(pc'[u]) \in InTurn => block'[u] # b
    <3>1. \A u \in Threads : block[u] \in Nat
      BY <1>1
    <3> QED BY <1>6, <2>3, <3>1
  <2>6. ASSUME NEW u \in Threads, NEW v \in Threads, Phase(pc'[u]) \in InTurn, Phase(pc'[v]) \in InTurn,
               block'[u] = block'[v]
        PROVE  u = v
    <3>1. CASE u = t \/ v = t
      BY <1>9, <2>5, <2>6, <3>1
    <3>2. CASE u # t /\ v # t
      BY <1>2, <1>9, <2>6, <3>2 DEF PoppedOnce
    <3> QED BY <3>1, <3>2
  <2> QED BY <1>8, <2>1, <2>2, <2>4, <2>6 DEF PoppedOnce
<1>15. Turn'
  BY <1>1, <1>2, <1>9 DEF Turn
<1>16. Extracted'
  <2>1. ASSUME NEW u \in Threads, Phase(pc'[u]) \in HasBlock, NEW k \in 1 .. Recorded
        PROVE  content'[held[u][k]] = block'[u]
    <3>1. Phase(pc[u]) \notin {"idle", "filling"}
      BY <1>2, <2>1 DEF HasBlock
    <3>2. k \in DOMAIN held[u] /\ \A j \in 1 .. Recorded : j \in DOMAIN held[t]
      BY <1>2, <3>1, HeldFacts
    <3>3. held[u][k] \in Elements
      BY <3>2, TypeFacts
    <3>4. CASE u = t
      BY <1>9, <1>10, <3>3, <3>4
    <3>5. CASE u # t
      <4>1. \A j \in 1 .. Recorded : held[t][j] # held[u][k]
        BY <3>2, <3>5 DEF HeldOnce
      <4>2. content'[held[u][k]] = content[held[u][k]]
        BY <1>10, <3>3, <4>1
      <4>3. content[held[u][k]] = block[u]
        BY <1>2, <2>1, <3>5 DEF Extracted
      <4> QED BY <1>9, <3>5, <4>2, <4>3
    <3> QED BY <3>4, <3>5
  <2> QED BY <1>1, <2>1 DEF Extracted
<1>17. QueuesInOrder'
  <2>1. HandedOn' = HandedOn
    <3>1. \A u \in Threads : Phase(pc'[u]) = "advance" <=> Phase(pc[u]) = "advance"
      BY <1>2
    <3> QED BY <1>1, <3>1 DEF HandedOn
  <2>2. ASSUME NEW ch \in Channels, NEW i \in DOMAIN queue[ch]
        PROVE  content'[queue[ch][i]] = content[queue[ch][i]]
    <3>1. queue[ch][i] \in Elements
      BY TypeFacts
    <3>2. \A k \in 1 .. Recorded : held[t][k] # queue[ch][i]
      BY <1>2, HeldFacts, SMTT(30) DEF QueuedLater
    <3> QED BY <1>10, <3>1, <3>2
  <2> QED BY <1>1, <2>1, <2>2 DEF QueuesInOrder
<1> QED BY <1>12, <1>13, <1>14, <1>15, <1>16, <1>17

LEMMA OrderWorking ==
  ASSUME Setup, Working, NEW t \in Threads, Order(t)
  PROVE  Working'
<1> USE DEF Working
<1>1. /\ pc \in [Threads -> Steps] /\ pc[t] = "order"
      /\ pc' = [pc EXCEPT ![t] = IF block[t] = seqno + 1 THEN "push" ELSE "wait seqno"]
      /\ UNCHANGED <<inputs, pushed, held, block, seqno, free, refs, content, queue, taken>>
  BY DEF Types, Order
<1>2. CASE block[t] # seqno + 1
  <2>1. pc' \in [Threads -> Steps] /\ \A u \in Threads : Phase(pc'[u]) = Phase(pc[u])
    BY <1>1, <1>2, Phases DEF Steps
  <2> QED BY <1>1, <2>1, WaitsWorking
<1>3. CASE block[t] = seqno + 1
  <2>1. /\ pc' \in [Threads -> Steps]
        /\ \A u \in Threads : u # t => pc'[u] = pc[u]
        /\ Phase(pc[t]) = "ordering" /\ Phase(pc'[t]) = "push"
    BY <1>1, <1>3, Phases DEF Steps
  <2>2. Types'
    BY <1>1, <2>1 DEF Types
  <2>3. HoldsAll' /\ HeldOnce' /\ QueuedLater' /\ Counted'
    BY <1>1, <2>1, SameElements
  <2>4. \A u \in Threads : (Phase(pc'[u]) \in InTurn <=> Phase(pc[u]) \in InTurn)
                           /\ (Phase(pc'[u]) \in HasBlock <=> Phase(pc[u]) \in HasBlock)
                           /\ (Phase(pc'[u]) = "advance" <=> Phase(pc[u]) = "advance")
    BY <2>1 DEF InTurn, HasBlock
  <2>5. Popped' = Popped
    BY <1>1 DEF Popped
  <2>6. PoppedOnce'
    BY <1>1, <2>4, <2>5 DEF PoppedOnce
  <2>7. Turn'
    BY <1>1, <1>3, <2>1 DEF Turn
  <2>8. Extracted'
    BY <1>1, <2>4 DEF Extracted
  <2>9. HandedOn' = HandedOn
    BY <1>1, <2>4 DEF HandedOn
  <2>10. QueuesInOrder'
    BY <1>1, <2>9 DEF QueuesInOrder
  <2> QED BY <2>2, <2>3, <2>6, <2>7, <2>8, <2>10
<1> QED BY <1>2, <1>3

LEMMA AdvanceWorking ==
  ASSUME Setup, Working, NEW t \in Threads, Advance(t)
  PROVE  Working'
<1> USE DEF Working
<1>1. /\ pc \in [Threads -> Steps] /\ pc[t] = "advance" /\ seqno \in Nat
      /\ seqno' = seqno + 1
      /\ UNCHANGED <<inputs, pushed, held, block, free, refs, content, queue, taken>>
  BY DEF Types, Advance
<1> DEFINE p == [pc EXCEPT ![t] = "release"]
<1>2. p \in [Threads -> Steps] /\ p[t] = "release" /\ \A u \in Threads : u # t => p[u] = pc[u]
  <2>1. "release" \in Steps
    BY DEF Steps
  <2> QED BY <1>1, <2>1
<1>3. pc' = Broadcast(p, OnSeqno)
  BY DEF Advance
<1> HIDE DEF p
<1>4. /\ pc' \in [Threads -> Steps]
      /\ \A u \in Threads : u # t => Phase(pc'[u]) = Phase(pc[u])
      /\ Phase(pc[t]) = "advance" /\ Phase(pc'[t]) = "release"
  <2>1. pc' \in [Threads -> Steps] /\ \A u \in Threads : Phase(pc'[u]) = Phase(p[u])
    BY <1>2, <1>3, Wakes
  <2> QED BY <1>1, <1>2, <2>1, Phases
<1>5. Types'
  BY <1>1, <1>4 DEF Types
<1>6. HoldsAll' /\ HeldOnce' /\ QueuedLater' /\ Counted'
  BY <1>1, <1>4, SameElements
<1>7. \A u \in Threads : Phase(pc'[u]) \in InTurn => u # t /\ Phase(pc[u]) \in InTurn
  BY <1>4 DEF InTurn
<1>8. Popped' = Popped
  BY <1>1 DEF Popped
<1>9. PoppedOnce'
  BY <1>1, <1>7, <1>8 DEF PoppedOnce
<1>10. \A u \in Threads : u # t => Phase(pc[u]) \notin {"push", "advance"}
  <2>1. ASSUME NEW u \in Threads, Phase(pc[u]) \in {"push", "advance"} PROVE u = t
    <3>1. block[u] = seqno + 1 /\ block[t] = seqno + 1
      BY <1>4, <2>1 DEF Turn
    <3>2. Phase(pc[u]) \in InTurn /\ Phase(pc[t]) \in InTurn
      BY <1>4, <2>1 DEF InTurn
    <3> QED BY <3>1, <3>2 DEF PoppedOnce
  <2> QED BY <2>1
<1>11. \A u \in Threads : Phase(pc'[u]) \notin {"push", "advance"}
  BY <1>4, <1>10
<1>12. Turn'
  BY <1>11 DEF Turn
<1>13. Extracted'
  <2>1. \A u \in Threads : Phase(pc'[u]) \in HasBlock => Phase(pc[u]) \in HasBlock
    BY <1>4 DEF HasBlock
  <2> QED BY <1>1, <2>1 DEF Extracted
<1>14. HandedOn' = HandedOn
  <2>1. HandedOn = seqno + 1
    BY <1>4 DEF HandedOn
  <2>2. HandedOn' = seqno + 1
    BY <1>1, <1>11 DEF HandedOn
  <2> QED BY <2>1, <2>2
<1>15. QueuesInOrder'
  BY <1>1, <1>14 DEF QueuesInOrder
<1> QED BY <1>5, <1>6, <1>9, <1>12, <1>13, <1>15

LEMMA PushWorking ==
  ASSUME Setup, Working, NEW t \in Threads, Push(t)
  PROVE  Working'
<1> USE DEF Working
<1>1. /\ pc \in [Threads -> Steps] /\ pc[t] = "push" /\ seqno \in Nat
      /\ refs \in [Elements -> Int] /\ queue \in [Channels -> Seq(Elements)]
      /\ pc' = [pc EXCEPT ![t] = "advance"]
      /\ UNCHANGED <<inputs, pushed, held, block, seqno, free, content, taken>>
  BY DEF Types, Push
<1>2. /\ pc' \in [Threads -> Steps]
      /\ \A u \in Threads : u # t => pc'[u] = pc[u]
      /\ Phase(pc[t]) = "push" /\ Phase(pc'[t]) = "advance"
  BY <1>1, Phases DEF Steps
<1>3. PICK new \in [Channels -> Elements] : \A ch \in Channels :
        new[ch] = held[t][SubbandMap[ch]] /\ SubbandMap[ch] \in DOMAIN held[t]
  <2>1. \A ch \in Channels : SubbandMap[ch] \in DOMAIN held[t]
    BY <1>2, HeldFacts
  <2>2. \A ch \in Channels : held[t][SubbandMap[ch]] \in Elements
    BY <2>1, TypeFacts
  <2> DEFINE new == [ch \in Channels |-> held[t][SubbandMap[ch]]]
  <2>3. new \in [Channels -> Elements] /\ \A ch \in Channels : new[ch] = held[t][SubbandMap[ch]]
    BY <2>2
  <2> HIDE DEF new
  <2> QED BY <2>1, <2>3
<1>4. queue' = [ch \in Channels |-> Append(queue[ch], new[ch])]
  BY <1>3 DEF Push
<1>5. refs' = [e \in Elements |-> refs[e] + Cardinality({ch \in Channels : new[ch] = e})]
  <2>1. \A e \in Elements : {ch \in Channels : held[t][SubbandMap[ch]] = e} = {ch \in Channels : new[ch] = e}
    BY <1>3
  <2>2. refs' = [e \in Elements |-> refs[e] + Cardinality({ch \in Channels : held[t][SubbandMap[ch]] = e})]
    BY DEF Push
  <2> QED BY <2>1, <2>2
<1>6. ASSUME NEW ch \in Channels
      PROVE  /\ queue'[ch] \in Seq(Elements) /\ Len(queue'[ch]) = Len(queue[ch]) + 1
             /\ DOMAIN queue'[ch] = 1 .. Len(queue[ch]) + 1
             /\ \A i \in DOMAIN queue[ch] : i \in DOMAIN queue'[ch] /\ queue'[ch][i] = queue[ch][i]
             /\ \A i \in DOMAIN queue'[ch] : i \in DOMAIN queue[ch] \/ i = Len(queue[ch]) + 1
             /\ Len(queue[ch]) + 1 \in DOMAIN queue'[ch] /\ queue'[ch][Len(queue[ch]) + 1] = new[ch]
  <2>1. PICK s \in Seq(Elements) : s = queue[ch]
    BY <1>1
  <2>2. PICK L \in Nat : L = Len(s) /\ DOMAIN s = 1 .. L
    BY <2>1, LenProperties
  <2>3. new[ch] \in Elements
    BY <1>3
  <2>4. PICK q \in Seq(Elements) : q = Append(s, new[ch])
    BY <2>3, AppendProperties
  <2>5. Len(q) = L + 1 /\ (\A i \in 1 .. L : q[i] = s[i]) /\ q[L + 1] = new[ch]
    BY <2>2, <2>3, <2>4, AppendProperties
  <2>6. DOMAIN q = 1 .. L + 1
    BY <2>5, LenProperties
  <2>7. queue'[ch] = q
    BY <1>4, <2>1, <2>4
  <2>8. (\A i \in 1 .. L + 1 : i \in 1 .. L \/ i = L + 1) /\ L + 1 \in 1 .. L + 1
        /\ \A i \in 1 .. L : i \in 1 .. L + 1
    BY <2>2
  <2> QED BY <2>1, <2>2, <2>5, <2>6, <2>7, <2>8
<1>7. Types'
  <2>1. refs' \in [Elements -> Int]
    <3>1. ASSUME NEW e \in Elements PROVE Cardinality({ch \in Channels : new[ch] = e}) \in Nat
      <4>1. {ch \in Channels : new[ch] = e} \in SUBSET Channels
        OBVIOUS
      <4> QED BY <4>1, ChannelFacts, FS_Subset, FS_CardinalityType
    <3>2. \A e \in Elements : refs[e] + Cardinality({ch \in Channels : new[ch] = e}) \in Int
      BY <1>1, <3>1
    <3> QED BY <1>5, <3>2
  <2>2. queue' \in [Channels -> Seq(Elements)]
    BY <1>4, <1>6
  <2> QED BY <1>1, <1>2, <2>1, <2>2 DEF Types
<1>8. HoldsAll' /\ HeldOnce'
  <2>1. HoldsAll'
    BY <1>1, <1>2 DEF HoldsAll
  <2>2. HeldOnce'
    BY <1>1 DEF HeldOnce
  <2> QED BY <2>1, <2>2
<1>9. QueuedLater'
  <2>1. ASSUME NEW u \in Threads, Phase(pc'[u]) \notin {"advance", "release"},
               NEW i \in DOMAIN held[u], NEW ch \in Channels, NEW j \in DOMAIN queue'[ch]
        PROVE  queue'[ch][j] # held[u][i]
    <3>1. u # t /\ Phase(pc[u]) \notin {"advance", "release"}
      BY <1>2, <2>1
    <3>2. \A k \in DOMAIN queue[ch] : queue[ch][k] # held[u][i]
      BY <3>1 DEF QueuedLater
    <3>3. new[ch] # held[u][i]
      BY <1>3, <3>1 DEF HeldOnce
    <3> QED BY <1>6, <3>2, <3>3
  <2> QED BY <1>1, <2>1 DEF QueuedLater
<1>10. Counted'
  <2>1. \A e \in Elements : Queues(e)' = Queues(e) \cup {ch \in Channels : new[ch] = e}
    <3>1. ASSUME NEW e \in Elements, NEW ch \in Channels
          PROVE  Queued(ch, e)' <=> (Queued(ch, e) \/ new[ch] = e)
      BY <1>6 DEF Queued
    <3> QED BY <3>1 DEF Queues
  <2>2. ASSUME NEW e \in Elements, NEW ch \in Channels, new[ch] = e
        PROVE  Queues(e) = {} /\ Held(e)
    <3>1. \A c \in Channels : \A j \in DOMAIN queue[c] : queue[c][j] # e
      BY <1>2, <1>3, <2>2 DEF QueuedLater
    <3> QED BY <1>3, <2>2, <3>1 DEF Queues, Queued, Held
  <2>3. \A e \in Elements : Held(e)' <=> Held(e)
    BY <1>1 DEF Held
  <2>4. ASSUME NEW e \in Elements
        PROVE  /\ refs'[e] = Cardinality(Queues(e)') + (IF Held(e) THEN 1 ELSE 0)
               /\ e \in free => ~Held(e) /\ Queues(e)' = {}
    <3>1. refs'[e] = refs[e] + Cardinality({ch \in Channels : new[ch] = e})
      BY <1>5
    <3>2. refs[e] = Cardinality(Queues(e)) + (IF Held(e) THEN 1 ELSE 0)
      BY DEF Counted
    <3>3. e \in free => ~Held(e) /\ Queues(e) = {}
      BY DEF Counted
    <3>4. PICK c \in Nat : c = Cardinality(Queues(e))
      BY TypeFacts
    <3>5. PICK h \in {0, 1} : h = IF Held(e) THEN 1 ELSE 0
      OBVIOUS
    <3>6. CASE {ch \in Channels : new[ch] = e} = {}
      <4>1. Queues(e)' = Queues(e) /\ Cardinality({ch \in Channels : new[ch] = e}) = 0
        BY <2>1, <3>6, FS_EmptySet
      <4> QED BY <3>1, <3>2, <3>3, <3>4, <3>5, <4>1
    <3>7. CASE {ch \in Channels : new[ch] = e} # {}
      <4>1. Queues(e) = {} /\ Held(e)
        BY <2>2, <3>7
      <4>2. Queues(e)' = {ch \in Channels : new[ch] = e}
        BY <2>1, <4>1
      <4>3. Queues(e)' \in SUBSET Channels
        BY <4>2
      <4>4. PICK d \in Nat : d = Cardinality(Queues(e)')
        BY <4>3, ChannelFacts, FS_Subset, FS_CardinalityType
      <4>5. c = 0 /\ h = 1
        BY <3>4, <3>5, <4>1, FS_EmptySet
      <4>6. refs'[e] = refs[e] + d /\ refs[e] = c + h
        BY <3>1, <3>2, <3>4, <3>5, <4>2, <4>4
      <4>7. refs'[e] = d + 1
        BY <4>5, <4>6
      <4> QED BY <3>3, <4>1, <4>4, <4>7
    <3> QED BY <3>6, <3>7
  <2> QED BY <1>1, <2>3, <2>4 DEF Counted
<1>11. \A u \in Threads : (Phase(pc'[u]) \in InTurn <=> Phase(pc[u]) \in InTurn)
                          /\ (Phase(pc'[u]) \in HasBlock <=> Phase(pc[u]) \in HasBlock)
                          /\ (Phase(pc'[u]) \in {"push", "advance"} => Phase(pc[u]) \in {"push", "advance"})
  BY <1>2 DEF InTurn, HasBlock
<1>12. Popped' = Popped
  BY <1>1 DEF Popped
<1>13. PoppedOnce' /\ Turn' /\ Extracted'
  <2>1. PoppedOnce'
    BY <1>1, <1>11, <1>12 DEF PoppedOnce
  <2>2. Turn'
    BY <1>1, <1>11 DEF Turn
  <2>3. Extracted'
    BY <1>1, <1>11 DEF Extracted
  <2> QED BY <2>1, <2>2, <2>3
<1>14. block[t] = seqno + 1
  BY <1>2 DEF Turn
<1>15. \A u \in Threads : Phase(pc[u]) # "advance"
  <2>1. ASSUME NEW u \in Threads, Phase(pc[u]) = "advance" PROVE u = t
    <3>1. block[u] = seqno + 1
      BY <2>1 DEF Turn
    <3>2. Phase(pc[u]) \in InTurn /\ Phase(pc[t]) \in InTurn
      BY <1>2, <2>1 DEF InTurn
    <3> QED BY <1>14, <3>1, <3>2 DEF PoppedOnce
  <2> QED BY <1>2, <2>1
<1>16. HandedOn = seqno /\ HandedOn' = seqno + 1
  BY <1>1, <1>2, <1>15 DEF HandedOn
<1>17. QueuesInOrder'
  <2>1. ASSUME NEW ch \in Channels
        PROVE  /\ Len(taken[ch]) + Len(queue'[ch]) = seqno + 1
               /\ \A i \in DOMAIN queue'[ch] : content[queue'[ch][i]] = Len(taken[ch]) + i
    <3>1. PICK T \in Nat : T = Len(taken[ch])
      BY TypeFacts
    <3>2. PICK L \in Nat : L = Len(queue[ch])
      BY TypeFacts
    <3>3. T + L = seqno
      BY <1>16, <3>1, <3>2 DEF QueuesInOrder
    <3>4. T + (L + 1) = seqno + 1
      <4>1. \A l, m \in Nat : l + (m + 1) = (l + m) + 1
        OBVIOUS
      <4> QED BY <3>3, <4>1
    <3>5. Len(queue'[ch]) = L + 1 /\ queue'[ch][L + 1] = new[ch]
      BY <1>6, <3>2
    <3>6. content[new[ch]] = seqno + 1
      <4>1. SubbandMap[ch] \in 1 .. Recorded
        BY ChannelFacts
      <4>2. Phase(pc[t]) \in HasBlock
        BY <1>2 DEF HasBlock
      <4> QED BY <1>3, <1>14, <4>1, <4>2 DEF Extracted
    <3>7. ASSUME NEW i \in DOMAIN queue'[ch] PROVE content[queue'[ch][i]] = T + i
      <4>1. CASE i \in DOMAIN queue[ch]
        <5>1. content[queue[ch][i]] = T + i
          BY <3>1, <4>1 DEF QueuesInOrder
        <5>2. queue'[ch][i] = queue[ch][i]
          BY <1>6, <4>1
        <5> QED BY <5>1, <5>2
      <4>2. CASE i = L + 1
        BY <3>4, <3>5, <3>6, <4>2
      <4> QED BY <1>6, <3>2, <4>1, <4>2
    <3> QED BY <3>1, <3>4, <3>5, <3>7
  <2> QED BY <1>1, <1>16, <2>1 DEF QueuesInOrder
<1> QED BY <1>7, <1>8, <1>9, <1>10, <1>13, <1>17

-----------------------------------------------------------------------------
\* A data writer takes the element at the head of its queue.
LEMMA TakeWorking ==
  ASSUME Setup, Working, NEW ch \in Channels, Take(ch)
  PROVE  /\ Working' /\ Len(taken[ch]) \in Nat
         /\ taken' = [taken EXCEPT ![ch] = Append(@, Len(taken[ch]) + 1)]
<1> USE DEF Working
<1>1. /\ pc \in [Threads -> Steps] /\ refs \in [Elements -> Int] /\ content \in [Elements -> Nat]
      /\ queue \in [Channels -> Seq(Elements)] /\ taken \in [Channels -> Seq(Nat)]
      /\ free \subseteq Elements
      /\ queue[ch] # <<>> /\ queue' = [queue EXCEPT ![ch] = Tail(@)]
      /\ UNCHANGED <<inputs, pushed, held, block, seqno, content>>
  BY DEF Types, Take
<1>2. PICK L \in Nat : L = Len(queue[ch]) /\ DOMAIN queue[ch] = 1 .. L
  BY TypeFacts
<1>3. L >= 1
  BY <1>1, <1>2, EmptySeq
<1>4. PICK e0 \in Elements : e0 = queue[ch][1] /\ e0 = Head(queue[ch])
  BY <1>1, <1>2, <1>3
<1>5. PICK q \in Seq(Elements) : q = queue'[ch] /\ Len(q) = L - 1 /\ DOMAIN q = 1 .. L - 1
                                 /\ \A i \in 1 .. L - 1 : q[i] = queue[ch][i + 1]
  <2>1. queue'[ch] = Tail(queue[ch])
    BY <1>1
  <2>2. /\ Tail(queue[ch]) \in Seq(Elements) /\ Len(Tail(queue[ch])) = L - 1
        /\ \A i \in 1 .. L - 1 : Tail(queue[ch])[i] = queue[ch][i + 1]
    BY <1>1, <1>2, HeadTailProperties
  <2>3. \A s \in Seq(Elements) : DOMAIN s = 1 .. Len(s)
    BY LenProperties
  <2> QED BY <2>1, <2>2, <2>3
<1>6. \A c \in Channels : c # ch => queue'[c] = queue[c]
  BY <1>1
<1>7. PICK T \in Nat : T = Len(taken[ch])
  BY TypeFacts
<1>8. \A i \in 1 .. L : content[queue[ch][i]] = T + i
  BY <1>2, <1>7 DEF QueuesInOrder
<1>9. content[e0] = T + 1 /\ 1 \in 1 .. L
  BY <1>2, <1>3, <1>4, <1>8
<1>10. taken' = [taken EXCEPT ![ch] = Append(@, T + 1)]
  BY <1>4, <1>9 DEF Take
<1>11. PICK s \in Seq(Nat) : s = taken'[ch] /\ Len(s) = T + 1
  <2>1. taken'[ch] = Append(taken[ch], T + 1) /\ taken[ch] \in Seq(Nat) /\ T + 1 \in Nat
    BY <1>1, <1>7, <1>10
  <2>2. Append(taken[ch], T + 1) \in Seq(Nat) /\ Len(Append(taken[ch], T + 1)) = T + 1
    BY <1>7, <2>1, AppendProperties
  <2> QED BY <2>1, <2>2
<1>12. \A c \in Channels : c # ch => taken'[c] = taken[c]
  BY <1>1, <1>10
<1>13. /\ refs' = [e \in Elements |-> refs[e] - Cardinality({i \in DOMAIN <<e0>> : <<e0>>[i] = e})]
       /\ free' = free \cup {e \in Range(<<e0>>) : refs'[e] = 0}
       /\ pc' \in [Threads -> Steps]
       /\ \A u \in Threads : Phase(pc'[u]) = Phase(pc[u])
  <2>1. Drop(<<e0>>, pc)
    BY <1>4 DEF Take
  <2>2. Range(<<e0>>) \subseteq Elements
    BY DEF Range
  <2> QED BY <1>1, <2>1, <2>2, DropIs
<1>14. refs' \in [Elements -> Int] /\ refs'[e0] = refs[e0] - 1
       /\ \A e \in Elements : e # e0 => refs'[e] = refs[e]
  <2>1. {i \in DOMAIN <<e0>> : <<e0>>[i] = e0} = {1} /\ Cardinality({1}) = 1
    <3>1. DOMAIN <<e0>> = {1} /\ <<e0>>[1] = e0
      OBVIOUS
    <3> QED BY <3>1, FS_Singleton
  <2>2. ASSUME NEW e \in Elements, e # e0
        PROVE  {i \in DOMAIN <<e0>> : <<e0>>[i] = e} = {} /\ Cardinality({}) = 0
    BY <2>2, FS_EmptySet
  <2>3. refs'[e0] = refs[e0] - 1
    BY <1>13, <2>1
  <2>4. \A e \in Elements : e # e0 => refs'[e] = refs[e]
    <3>1. ASSUME NEW e \in Elements, e # e0 PROVE refs'[e] = refs[e]
      <4>1. refs'[e] = refs[e] - 0 /\ refs[e] \in Int
        BY <1>1, <1>13, <2>2, <3>1
      <4> QED BY <4>1
    <3> QED BY <3>1
  <2>5. \A e \in Elements : refs[e] \in Int /\ refs[e] - 1 \in Int
    BY <1>1
  <2>6. \A e \in Elements : refs'[e] \in Int
    BY <2>3, <2>4, <2>5
  <2>7. refs' = [e \in Elements |-> refs'[e]]
    BY <1>13
  <2> QED BY <2>3, <2>4, <2>6, <2>7
<1>15. free' = free \cup (IF refs'[e0] = 0 THEN {e0} ELSE {})
  <2>1. Range(<<e0>>) = {e0}
    BY DEF Range
  <2> QED BY <1>13, <2>1
<1>16. ASSUME NEW i \in 1 .. L - 1
       PROVE  i + 1 \in 1 .. L /\ i \in Nat /\ T + (i + 1) = (T + 1) + i /\ i + 1 # 1
  <2>1. \A l, m, k \in Nat : k \in 1 .. l - 1 => k + 1 \in 1 .. l /\ m + (k + 1) = (m + 1) + k /\ k + 1 # 1
    OBVIOUS
  <2>2. i \in Nat
    OBVIOUS
  <2> QED BY <2>1, <2>2
<1>17. ASSUME NEW j \in 1 .. L, j # 1
       PROVE  \E i \in 1 .. L - 1 : j = i + 1
  <2>1. \A l, k \in Nat : k \in 1 .. l /\ k # 1 => \E i \in 1 .. l - 1 : k = i + 1
    <3>1. ASSUME NEW l \in Nat, NEW k \in Nat, k \in 1 .. l, k # 1
          PROVE  k - 1 \in 1 .. l - 1 /\ k = (k - 1) + 1
      BY <3>1
    <3> QED BY <3>1
  <2> QED BY <1>17, <2>1
<1>18. Types'
  <2>1. queue' \in [Channels -> Seq(Elements)]
    BY <1>1, <1>5, <1>6
  <2>2. taken' \in [Channels -> Seq(Nat)]
    BY <1>1, <1>10, <1>11, <1>12
  <2> QED BY <1>1, <1>13, <1>14, <1>15, <2>1, <2>2 DEF Types
<1>19. HoldsAll' /\ HeldOnce'
  <2>1. HoldsAll'
    BY <1>1, <1>13 DEF HoldsAll
  <2>2. HeldOnce'
    BY <1>1 DEF HeldOnce
  <2> QED BY <2>1, <2>2
<1>20. \A c \in Channels : \A i \in DOMAIN queue'[c] :
         \E j \in DOMAIN queue[c] : queue'[c][i] = queue[c][j]
  <2>1. ASSUME NEW i \in DOMAIN queue'[ch] PROVE \E j \in DOMAIN queue[ch] : queue'[ch][i] = queue[ch][j]
    BY <1>2, <1>5, <1>16
  <2>2. ASSUME NEW c \in Channels, c # ch, NEW i \in DOMAIN queue'[c]
        PROVE  \E j \in DOMAIN queue[c] : queue'[c][i] = queue[c][j]
    <3>1. i \in DOMAIN queue[c] /\ queue'[c][i] = queue[c][i]
      BY <1>6, <2>2
    <3> QED BY <3>1
  <2> QED BY <2>1, <2>2
<1>21. QueuedLater'
  <2>1. ASSUME NEW u \in Threads, Phase(pc[u]) \notin {"advance", "release"},
               NEW i \in DOMAIN held[u], NEW c \in Channels, NEW j \in DOMAIN queue'[c]
        PROVE  queue'[c][j] # held[u][i]
    BY <1>20, <2>1 DEF QueuedLater
  <2> QED BY <1>1, <1>13, <2>1 DEF QueuedLater
<1>22. \A i \in 1 .. L - 1 : q[i] # e0
  <2>1. ASSUME NEW i \in 1 .. L - 1 PROVE content[q[i]] # T + 1
    <3>1. i \in Nat /\ i >= 1
      BY <1>2
    <3>2. content[q[i]] = (T + 1) + i
      BY <1>5, <1>8, <1>16
    <3> QED BY <1>7, <3>1, <3>2
  <2> QED BY <1>9, <2>1
<1>23. Counted'
  <2>1. \A e \in Elements : Held(e)' <=> Held(e)
    BY <1>1 DEF Held
  <2>2. ASSUME NEW e \in Elements, NEW c \in Channels
        PROVE  Queued(c, e)' <=> Queued(c, e) /\ ~(c = ch /\ e = e0)
    <3>1. CASE c # ch
      BY <1>6, <3>1 DEF Queued
    <3>2. CASE c = ch
      <4>1. Queued(c, e) <=> \E j \in 1 .. L : queue[ch][j] = e
        BY <1>2, <3>2 DEF Queued
      <4>2. Queued(c, e)' <=> \E i \in 1 .. L - 1 : q[i] = e
        BY <1>5, <3>2 DEF Queued
      <4>3. CASE e = e0
        BY <1>22, <3>2, <4>2, <4>3
      <4>4. CASE e # e0
        <5>1. ASSUME NEW j \in 1 .. L, queue[ch][j] = e PROVE \E i \in 1 .. L - 1 : q[i] = e
          <6>1. j # 1
            BY <1>4, <4>4, <5>1
          <6>2. PICK i \in 1 .. L - 1 : j = i + 1
            BY <1>17, <6>1
          <6> QED BY <1>5, <5>1, <6>2
        <5>2. ASSUME NEW i \in 1 .. L - 1, q[i] = e PROVE \E j \in 1 .. L : queue[ch][j] = e
          BY <1>5, <1>16, <5>2
        <5> QED BY <4>1, <4>2, <4>4, <5>1, <5>2
      <4> QED BY <4>3, <4>4
    <3> QED BY <3>1, <3>2
  <2>3. ch \in Queues(e0)
    BY <1>2, <1>4, <1>9 DEF Queues, Queued
  <2>4. Queues(e0)' = Queues(e0) \ {ch}
    BY <2>2 DEF Queues
  <2>5. \A e \in Elements : e # e0 => Queues(e)' = Queues(e)
    BY <2>2 DEF Queues
  <2>6. PICK c \in Nat : c = Cardinality(Queues(e0)) /\ c - 1 = Cardinality(Queues(e0)')
                         /\ (c - 1 = 0 => Queues(e0)' = {})
    <3>1. Queues(e0) \in SUBSET Channels /\ Queues(e0)' \in SUBSET Channels
      BY <2>4 DEF Queues
    <3>2. IsFiniteSet(Queues(e0)) /\ IsFiniteSet(Queues(e0)')
      BY <3>1, ChannelFacts, FS_Subset
    <3>3. Cardinality(Queues(e0)') = Cardinality(Queues(e0)) - 1
      BY <2>3, <2>4, <3>2, FS_RemoveElement
    <3>4. Cardinality(Queues(e0)) \in Nat
      BY <3>2, FS_CardinalityType
    <3>5. Cardinality(Queues(e0)') = 0 => Queues(e0)' = {}
      BY <3>2, FS_EmptySet
    <3> QED BY <3>3, <3>4, <3>5
  <2>7. refs[e0] = c + (IF Held(e0) THEN 1 ELSE 0) /\ e0 \notin free
    BY <2>3, <2>6 DEF Counted
  <2>8. ASSUME NEW e \in Elements
        PROVE  /\ refs'[e] = Cardinality(Queues(e)') + (IF Held(e) THEN 1 ELSE 0)
               /\ e \in free' => ~Held(e) /\ Queues(e)' = {}
    <3>1. CASE e = e0
      <4>1. CASE Held(e0)
        <5>1. refs[e0] = c + 1
          BY <2>7, <4>1
        <5>2. refs'[e0] = (c - 1) + 1
          BY <1>14, <5>1
        <5>3. refs'[e0] # 0
          BY <2>3, <2>6, <5>2, TypeFacts
        <5> QED BY <1>15, <2>6, <2>7, <3>1, <4>1, <5>2, <5>3
      <4>2. CASE ~Held(e0)
        <5>1. refs[e0] = c
          BY <2>7, <4>2
        <5>2. refs'[e0] = c - 1
          BY <1>14, <5>1
        <5>3. refs'[e0] = (c - 1) + 0
          BY <5>2
        <5> QED BY <1>15, <2>6, <2>7, <3>1, <4>2, <5>2, <5>3
      <4> QED BY <4>1, <4>2
    <3>2. CASE e # e0
      BY <1>14, <1>15, <2>5, <3>2 DEF Counted
    <3> QED BY <3>1, <3>2
  <2> QED BY <2>1, <2>8 DEF Counted
<1>24. PoppedOnce' /\ Turn' /\ Extracted'
  <2>1. Popped' = Popped
    BY <1>1 DEF Popped
  <2>2. PoppedOnce'
    BY <1>1, <1>13, <2>1 DEF PoppedOnce
  <2>3. Turn'
    BY <1>1, <1>13 DEF Turn
  <2>4. Extracted'
    BY <1>1, <1>13 DEF Extracted
  <2> QED BY <2>2, <2>3, <2>4
<1>25. QueuesInOrder'
  <2>1. HandedOn' = HandedOn
    BY <1>1, <1>13 DEF HandedOn
  <2>2. Len(s) + Len(q) = HandedOn
    <3>1. T + L = HandedOn
      BY <1>2, <1>7 DEF QueuesInOrder
    <3>2. \A l, m \in Nat : (l + 1) + (m - 1) = l + m
      OBVIOUS
    <3> QED BY <1>5, <1>11, <3>1, <3>2
  <2>3. \A i \in DOMAIN q : content[q[i]] = Len(s) + i
    BY <1>5, <1>8, <1>11, <1>16, ZenonT(60)
  <2>4. ASSUME NEW c \in Channels
        PROVE  /\ Len(taken'[c]) + Len(queue'[c]) = HandedOn
               /\ \A i \in DOMAIN queue'[c] : content[queue'[c][i]] = Len(taken'[c]) + i
    <3>1. CASE c = ch
      BY <1>5, <1>11, <2>2, <2>3, <3>1
    <3>2. CASE c # ch
      <4>1. queue'[c] = queue[c] /\ taken'[c] = taken[c]
        BY <1>6, <1>12, <3>2
      <4>2. Len(taken[c]) + Len(queue[c]) = HandedOn
            /\ \A i \in DOMAIN queue[c] : content[queue[c][i]] = Len(taken[c]) + i
        BY DEF QueuesInOrder
      <4> QED BY <4>1, <4>2
    <3> QED BY <3>1, <3>2
  <2> QED BY <1>1, <2>1, <2>4 DEF QueuesInOrder
<1> QED BY <1>7, <1>10, <1>18, <1>19, <1>21, <1>23, <1>24, <1>25

-----------------------------------------------------------------------------
LEMMA NextWorking ==
  ASSUME Setup, Main \in Threads, Working, Next, ~StopWriters
  PROVE  Working'
<1>1. CASE ReadBlock
  BY <1>1, ReadBlockWorking
<1>2. CASE CloseQueue
  BY <1>2, CloseQueueWorking
<1>3. CASE Stop
  BY <1>3, StopWorking
<1>4. CASE Join
  BY <1>4, JoinWorking
<1>5. ASSUME NEW t \in Threads, Task(t) PROVE Working'
  <2>1. CASE TestLoop(t)
    BY <2>1, TestLoopWorking
  <2>2. CASE Allocate(t)
    BY <2>2, AllocateWorking
  <2>3. CASE Pop(t)
    BY <2>3, PopWorking
  <2>4. CASE WaitForBlock(t)
    BY <2>4, WaitForBlockWorking
  <2>5. CASE QueueClosed(t)
    BY <2>5, QueueClosedWorking
  <2>6. CASE Order(t)
    BY <2>6, OrderWorking
  <2>7. CASE Push(t)
    BY <2>7, PushWorking
  <2>8. CASE Advance(t)
    BY <2>8, AdvanceWorking
  <2>9. CASE Release(t)
    BY <2>9, ReleaseWorking
  <2> QED BY <1>5, <2>1, <2>2, <2>3, <2>4, <2>5, <2>6, <2>7, <2>8, <2>9 DEF Task
<1>6. ASSUME NEW ch \in Channels, Take(ch) PROVE Working'
  BY <1>6, TakeWorking
<1> QED BY <1>1, <1>2, <1>3, <1>4, <1>5, <1>6 DEF Next, Reader

\* The data writers get their blocks by Take only, and none after they were stopped.
LEMMA OtherSteps ==
  ASSUME [Next]_vars, \A ch \in Channels : ~Take(ch)
  PROVE  taken' = taken /\ (writing' = writing \/ StopWriters)
<1>1. CASE UNCHANGED vars
  BY <1>1 DEF vars
<1>2. CASE Reader \/ Stop \/ StopWriters \/ Join
  BY <1>2 DEF Reader, ReadBlock, CloseQueue, Stop, StopWriters, Join
<1>3. ASSUME NEW t \in Threads, Task(t) PROVE taken' = taken /\ writing' = writing
  BY <1>3 DEF Task, TestLoop, Allocate, Pop, WaitForBlock, QueueClosed, Order, Push, Advance, Release
<1> QED BY <1>1, <1>2, <1>3 DEF Next

LEMMA StepEInv ==
  ASSUME Setup, Main \in Threads, EInv, [Next]_vars
  PROVE  EInv'
<1>1. TakenInOrder'
  <2>1. ASSUME NEW ch \in Channels, Take(ch) PROVE TakenInOrder'
    <3>1. Working
      BY <2>1 DEF EInv, Take
    <3>2. PICK T \in Nat : T = Len(taken[ch]) /\ taken' = [taken EXCEPT ![ch] = Append(@, T + 1)]
      BY <2>1, <3>1, TakeWorking
    <3>3. taken \in [Channels -> Seq(Nat)] /\ DOMAIN taken[ch] = 1 .. T
      BY <3>1, <3>2, TypeFacts DEF Working, Types
    <3>4. PICK s \in Seq(Nat) : /\ s = taken'[ch] /\ Len(s) = T + 1 /\ s[T + 1] = T + 1
                                /\ \A i \in 1 .. T : s[i] = taken[ch][i]
      <4>1. taken'[ch] = Append(taken[ch], T + 1) /\ taken[ch] \in Seq(Nat) /\ T + 1 \in Nat
        BY <3>2, <3>3
      <4>2. /\ Append(taken[ch], T + 1) \in Seq(Nat) /\ Len(Append(taken[ch], T + 1)) = T + 1
            /\ Append(taken[ch], T + 1)[T + 1] = T + 1
            /\ \A i \in 1 .. T : Append(taken[ch], T + 1)[i] = taken[ch][i]
        BY <3>2, <4>1, AppendProperties
      <4> QED BY <4>1, <4>2
    <3>5. DOMAIN s = 1 .. T + 1
      BY <3>4, LenProperties
    <3>6. \A i \in 1 .. T + 1 : i \in 1 .. T \/ i = T + 1
      BY <3>2
    <3>7. \A i \in DOMAIN taken'[ch] : taken'[ch][i] = i
      <4>1. \A i \in 1 .. T : taken[ch][i] = i
        BY <3>3 DEF EInv, TakenInOrder
      <4> QED BY <3>4, <3>5, <3>6, <4>1
    <3>8. ASSUME NEW c \in Channels, c # ch PROVE \A i \in DOMAIN taken'[c] : taken'[c][i] = i
      <4>1. taken'[c] = taken[c]
        BY <3>2, <3>3, <3>8
      <4> QED BY <4>1 DEF EInv, TakenInOrder
    <3> QED BY <3>7, <3>8 DEF TakenInOrder
  <2>2. CASE \A ch \in Channels : ~Take(ch)
    BY <2>2, OtherSteps DEF EInv, TakenInOrder
  <2> QED BY <2>1, <2>2
<1>2. ASSUME writing' PROVE Working'
  <2>1. CASE UNCHANGED vars
    <3>1. UNCHANGED <<inputs, pushed, pc, held, block, seqno, free, refs, content, queue, taken, writing>>
      BY <2>1 DEF vars
    <3>2. pc \in [Threads -> Steps] /\ Working
      BY <1>2, <3>1 DEF EInv, Working, Types
    <3> QED BY <3>1, <3>2, WaitsWorking
  <2>2. CASE Next
    <3>1. ~StopWriters
      BY <1>2 DEF StopWriters
    <3>2. writing
      <4>1. CASE \E ch \in Channels : Take(ch)
        BY <4>1 DEF Take
      <4>2. CASE \A ch \in Channels : ~Take(ch)
        BY <1>2, <3>1, <4>2, OtherSteps
      <4> QED BY <4>1, <4>2
    <3> QED BY <2>2, <3>1, <3>2, NextWorking DEF EInv
  <2> QED BY <2>1, <2>2
<1> QED BY <1>1, <1>2 DEF EInv

\* Each data writer gets the blocks in the order in which the reader read them,
\* with the data of the block, for any number of threads, channels, blocks and
\* elements: the threads hand on in turn (seqno), and an element that a queue still
\* has is not filled again, though channels share elements (Memory_pool references).
THEOREM BlocksTakenInOrder == Spec => []TakenInOrder
<1>1. Setup /\ Main \in Threads
  BY ExtractionAssumption DEF Setup
<1>2. Init => EInv
  BY <1>1, InitWorking
<1>3. EInv /\ [Next]_vars => EInv'
  BY <1>1, StepEInv
<1>4. EInv => TakenInOrder
  BY DEF EInv
<1> QED BY <1>2, <1>3, <1>4, PTL DEF Spec
=============================================================================
