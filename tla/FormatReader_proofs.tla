------------------------ MODULE FormatReader_proofs ------------------------
(***************************************************************************)
(* Proofs about the reader of a recording, for all recordings, channels,   *)
(* intervals and limits: the blocks of a channel follow each other,        *)
(* whatever happened to the recording, and hold the frame of their time;   *)
(* the good frames of the first interval are all among them.               *)
(***************************************************************************)
EXTENDS FormatReader, SequenceTheorems, WellFoundedInduction, TLAPS

Blocks == [start : Int, invalid : BOOLEAN, buffer : Nat, interval : Nat]
Elements == [start : Int, channel : Channels, invalid : BOOLEAN, buffer : Nat]

\* The types, and where the reader is in the recording in each state.
Types ==
  /\ recording \in Recordings
  /\ pos \in 0 .. Len(recording)
  /\ isOpen \in BOOLEAN /\ (isOpen => pos > 0)
  /\ pc \in {"fetch", "goto", "task"} /\ (pc = "goto" => isOpen)
  /\ interval \in 0 .. Len(Intervals) /\ (pc # "fetch" => interval > 0)
  /\ current \in [Channels -> Int] /\ left \in [Channels -> Int] /\ minLeft \in Int
  /\ element \in Elements
  /\ memory \in Seq(Nat) /\ element.buffer \in 1 .. Len(memory)
  /\ output \in [Channels -> Seq(Blocks)]

\* The blocks s of a channel follow each other in each interval.
Consecutive(s) ==
  \A i \in 1 .. Len(s) - 1 :
    s[i].interval = s[i + 1].interval /\ s[i].start >= Intervals[s[i].interval].start
      => s[i + 1].start = s[i].start + 1

\* All blocks are of intervals before k.
Before(s, k) == \A i \in DOMAIN s : s[i].interval < k

\* All are of intervals up to k, and time comes next after the last one of k.
UpTo(s, k, time) ==
  /\ \A i \in DOMAIN s : s[i].interval <= k
  /\ s # <<>> /\ s[Len(s)].interval = k /\ s[Len(s)].start >= Intervals[k].start
       => time = s[Len(s)].start + 1

\* The blocks s of interval k are of the times from time on.
Run(s, k, time) ==
  \A i \in DOMAIN s : s[i].interval = k /\ s[i].start = time + (i - 1)

\* BlocksFollow says nothing of the block that comes next; current says what its
\* time will be.
Clocks ==
  \A c \in Main :
    /\ Consecutive(output[c])
    /\ pc = "goto" => Before(output[c], interval)
    /\ pc # "goto" => UpTo(output[c], interval, current[c])

FInv == Types /\ Clocks

-----------------------------------------------------------------------------
\* The order of the natural numbers, for the library's lemma on minimal elements.
Less == {x \in Nat \X Nat : x[1] < x[2]}

\* A set of natural numbers has a least element.
LEMMA LeastNatural ==
  ASSUME NEW T \in SUBSET Nat, T # {}
  PROVE  \E x \in T : \A y \in T : x <= y
<1>1. IsWellFoundedOn(Less, Nat)
  BY NatLessThanWellFounded, Zenon DEF OpToRel, Less
<1>2. PICK x \in T : \A y \in T : <<y, x>> \notin Less
  BY <1>1, WFMin
<1>3. ASSUME NEW y \in T PROVE x <= y
  <2>1. y < x => <<y, x>> \in Less
    <3> DEFINE s == <<y, x>>
    <3>1. s \in Nat \X Nat /\ s[1] = y /\ s[2] = x
      OBVIOUS
    <3> QED BY <3>1 DEF Less
  <2>2. x \in Nat /\ y \in Nat
    OBVIOUS
  <2> QED BY <1>2, <2>1, <2>2
<1> QED BY <1>3

\* Min of a set of natural numbers.
LEMMA MinNatural ==
  ASSUME NEW T \in SUBSET Nat, T # {}
  PROVE  Min(T) \in T /\ \A y \in T : Min(T) <= y
BY LeastNatural DEF Min

\* Min and Max of two integers.
LEMMA MinOfTwo ==
  ASSUME NEW a \in Int, NEW b \in Int
  PROVE  Min({a, b}) = IF a <= b THEN a ELSE b
<1> DEFINE m == IF a <= b THEN a ELSE b
<1>1. m \in {a, b} /\ \A y \in {a, b} : m <= y
  OBVIOUS
<1>2. \A x \in {a, b} : (\A y \in {a, b} : x <= y) => x = m
  OBVIOUS
<1> HIDE DEF m
<1>3. Min({a, b}) \in {a, b} /\ \A y \in {a, b} : Min({a, b}) <= y
  BY <1>1 DEF Min
<1>4. Min({a, b}) = m
  BY <1>2, <1>3
<1> QED BY <1>4 DEF m

LEMMA MaxOfTwo ==
  ASSUME NEW a \in Int, NEW b \in Int
  PROVE  Max({a, b}) = IF a >= b THEN a ELSE b
<1> DEFINE m == IF a >= b THEN a ELSE b
<1>1. m \in {a, b} /\ \A y \in {a, b} : m >= y
  OBVIOUS
<1>2. \A x \in {a, b} : (\A y \in {a, b} : x >= y) => x = m
  OBVIOUS
<1> HIDE DEF m
<1>3. Max({a, b}) \in {a, b} /\ \A y \in {a, b} : Max({a, b}) >= y
  BY <1>1 DEF Max
<1>4. Max({a, b}) = m
  BY <1>2, <1>3
<1> QED BY <1>4 DEF m

\* A set of numbers up to n has a greatest element.
LEMMA MaxUpTo ==
  ASSUME NEW n \in Nat, NEW T \in SUBSET (1 .. n), T # {}
  PROVE  Max(T) \in T /\ \A y \in T : Max(T) >= y
<1> DEFINE above == {k \in Nat : \A y \in T : y <= k}
<1>1. n \in above /\ above \in SUBSET Nat
  OBVIOUS
<1>2. PICK k \in above : \A j \in above : k <= j
  BY <1>1, LeastNatural
<1>3. k \in T
  <2>1. SUFFICES ASSUME k \notin T PROVE FALSE
    OBVIOUS
  <2>2. PICK x \in T : TRUE
    OBVIOUS
  <2>3. \A y \in T : y <= k - 1
    BY <1>2, <2>1
  <2>4. k - 1 \in above
    BY <1>2, <2>2, <2>3
  <2> QED BY <1>2, <2>4
<1>4. \A y \in T : k >= y
  BY <1>2
<1> QED BY <1>3, <1>4 DEF Max

\* Min of an integer and of some values of a function on channels is one of them.
LEMMA MinOfValues ==
  ASSUME NEW n \in Nat, NEW f \in [1 .. n -> Int], NEW D \in SUBSET (1 .. n), NEW low \in Int
  PROVE  /\ Min({low} \cup {f[c] : c \in D}) \in Int
         /\ Min({low} \cup {f[c] : c \in D}) \in {low} \cup {f[c] : c \in D}
         /\ Min({low} \cup {f[c] : c \in D}) <= low
<1> DEFINE T(k) == {low} \cup {f[c] : c \in {d \in D : d <= k}}
           Has(k) == \E x \in T(k) : \A y \in T(k) : x <= y
           bad == {k \in Nat : ~Has(k)}
<1>1. bad = {}
  <2>1. SUFFICES ASSUME bad # {} PROVE FALSE
    OBVIOUS
  <2>2. PICK k \in bad : \A j \in bad : k <= j
    BY <2>1, LeastNatural
  <2>3. T(0) = {low}
    OBVIOUS
  <2>4. k # 0
    BY <2>2, <2>3
  <2>5. k - 1 \in Nat /\ k \in Nat /\ ~(k <= k - 1)
    BY <2>4
  <2>6. k - 1 \notin bad
    BY <2>2, <2>5
  <2>7. Has(k - 1)
    BY <2>5, <2>6
  <2>8. PICK x \in T(k - 1) : \A y \in T(k - 1) : x <= y
    BY <2>7
  <2>9. x \in Int /\ T(k - 1) \subseteq T(k)
    OBVIOUS
  <2>10. CASE k \in D
    <3>1. \A y \in T(k) : y \in T(k - 1) \/ y = f[k]
      OBVIOUS
    <3>2. f[k] \in T(k) /\ f[k] \in Int
      BY <2>10
    <3>3. CASE x <= f[k]
      <4>1. \A y \in T(k) : x <= y
        BY <2>8, <3>1, <3>3
      <4> QED BY <2>2, <2>9, <4>1
    <3>4. CASE f[k] < x
      <4>1. \A y \in T(k - 1) : y \in Int
        OBVIOUS
      <4>2. \A y \in T(k) : f[k] <= y
        BY <2>8, <2>9, <3>1, <3>2, <3>4, <4>1
      <4> QED BY <2>2, <3>2, <4>2
    <3> QED BY <2>9, <3>2, <3>3, <3>4
  <2>11. CASE k \notin D
    <3>1. T(k) = T(k - 1)
      BY <2>2, <2>11
    <3> QED BY <2>2, <2>8, <3>1
  <2> QED BY <2>10, <2>11
<1>2. T(n) = {low} \cup {f[c] : c \in D}
  OBVIOUS
<1>3. Has(n)
  BY <1>1
<1>4. PICK x \in T(n) : \A y \in T(n) : x <= y
  BY <1>3
<1>5. Min(T(n)) \in T(n) /\ \A y \in T(n) : Min(T(n)) <= y
  BY <1>4 DEF Min
<1> QED BY <1>2, <1>5

-----------------------------------------------------------------------------
\* What the three predicates on the blocks of a channel say of its empty queue and
\* when blocks are pushed.
LEMMA RunPushed ==
  ASSUME NEW s \in Seq(Blocks), NEW bs \in Seq(Blocks), NEW k \in Nat, NEW time \in Int,
         Consecutive(s), UpTo(s, k, time), Run(bs, k, time)
  PROVE  Consecutive(s \o bs) /\ UpTo(s \o bs, k, time + Len(bs))
<1> DEFINE t == s \o bs
           n == Len(s)
           m == Len(bs)
<1>1. n \in Nat /\ m \in Nat /\ Len(t) = n + m
  OBVIOUS
<1>2. \A i \in 1 .. n : t[i] = s[i] /\ i \in DOMAIN s
  OBVIOUS
<1>3. \A i \in 1 .. m : t[n + i] = bs[i] /\ i \in DOMAIN bs
  OBVIOUS
<1>4. \A i \in 1 .. m : t[n + i].interval = k /\ t[n + i].start = time + (i - 1)
  BY <1>3 DEF Run
<1>5. \A i \in 1 .. n : t[i].interval <= k /\ t[i] \in Blocks
  BY <1>2 DEF UpTo
<1>6. n > 0 /\ t[n].interval = k /\ t[n].start >= Intervals[k].start => time = t[n].start + 1
  BY <1>1, <1>2 DEF UpTo
<1>10. \A i \in 1 .. n - 1 :
        s[i].interval = s[i + 1].interval /\ s[i].start >= Intervals[s[i].interval].start
          => s[i + 1].start = s[i].start + 1
  BY DEF Consecutive
<1>11. Len(t) = n + m /\ (n + m = 0 <=> t = <<>>)
  OBVIOUS
<1> HIDE DEF t, n, m
<1>7. \A i \in 1 .. n - 1 :
        t[i].interval = t[i + 1].interval /\ t[i].start >= Intervals[t[i].interval].start
          => t[i + 1].start = t[i].start + 1
  <2>1. ASSUME NEW i \in 1 .. n - 1
        PROVE  t[i].interval = t[i + 1].interval /\ t[i].start >= Intervals[t[i].interval].start
                 => t[i + 1].start = t[i].start + 1
    <3>1. t[i] = s[i] /\ t[i + 1] = s[i + 1]
      BY <1>1, <1>2
    <3> QED BY <1>10, <2>1, <3>1
  <2> QED BY <2>1
<1>8. Consecutive(t)
  <2>1. SUFFICES ASSUME NEW i \in 1 .. n + m - 1,
                        t[i].interval = t[i + 1].interval, t[i].start >= Intervals[t[i].interval].start
                 PROVE  t[i + 1].start = t[i].start + 1
    BY <1>1 DEF Consecutive
  <2>2. CASE i < n
    BY <1>1, <1>7, <2>1, <2>2
  <2>3. CASE i = n
    <3>1. t[n + 1].interval = k /\ t[n + 1].start = time + (1 - 1)
      BY <1>1, <1>4, <2>1, <2>3
    <3>2. time = t[n].start + 1
      BY <1>1, <1>6, <2>1, <2>3, <3>1
    <3> QED BY <2>3, <3>1, <3>2
  <2>4. CASE i > n
    <3>1. PICK j \in 1 .. m - 1 : i = n + j
      <4>1. i - n \in 1 .. m - 1 /\ i = n + (i - n)
        BY <1>1, <2>1, <2>4
      <4> QED BY <4>1
    <3>4. j \in 1 .. m /\ j + 1 \in 1 .. m
      BY <1>1
    <3>2. t[n + j].start = time + (j - 1) /\ t[n + (j + 1)].start = time + ((j + 1) - 1)
      BY <1>4, <3>4
    <3>3. i + 1 = n + (j + 1)
      BY <1>1, <3>1
    <3> QED BY <1>1, <3>1, <3>2, <3>3
  <2> QED BY <1>1, <2>1, <2>2, <2>3, <2>4
<1>9. UpTo(t, k, time + m)
  <2>1. \A i \in 1 .. n + m : t[i].interval <= k
    <3>1. SUFFICES ASSUME NEW i \in 1 .. n + m PROVE t[i].interval <= k
      OBVIOUS
    <3>2. CASE i <= n
      BY <1>1, <1>5, <3>2
    <3>3. CASE i > n
      <4>1. PICK j \in 1 .. m : i = n + j
        <5>1. i - n \in 1 .. m /\ i = n + (i - n)
          BY <1>1, <3>1, <3>3
        <5> QED BY <5>1
      <4> QED BY <1>4, <4>1
    <3> QED BY <1>1, <3>2, <3>3
  <2>2. CASE m = 0
    <3>1. t # <<>> => n > 0 /\ Len(t) = n
      BY <1>1, <1>11, <2>2
    <3> QED BY <1>1, <1>6, <1>11, <2>1, <2>2, <3>1 DEF UpTo
  <2>3. CASE m > 0
    <3>1. t[n + m].start = time + (m - 1)
      BY <1>1, <1>4, <2>3
    <3> QED BY <1>1, <1>11, <2>1, <3>1 DEF UpTo
  <2> QED BY <1>1, <2>2, <2>3
<1> QED BY <1>8, <1>9 DEF t, m

\* Nothing is of the next interval yet, so any time may come next.
LEMMA NothingYet ==
  ASSUME NEW s \in Seq(Blocks), NEW k \in Nat, NEW time \in Int, NEW later \in Int,
         UpTo(s, k, time)
  PROVE  Before(s, k + 1) /\ UpTo(s, k + 1, later)
<1>1. \A i \in DOMAIN s : s[i] \in Blocks
  OBVIOUS
<1>2. \A i \in DOMAIN s : s[i].interval \in Nat /\ s[i].interval <= k
  BY <1>1 DEF UpTo, Blocks
<1>3. Before(s, k + 1)
  BY <1>2 DEF Before
<1>4. \A i \in DOMAIN s : s[i].interval <= k + 1 /\ s[i].interval # k + 1
  BY <1>2
<1>5. s # <<>> => Len(s) \in DOMAIN s
  OBVIOUS
<1> QED BY <1>3, <1>4, <1>5 DEF UpTo

LEMMA NothingOfThis ==
  ASSUME NEW s \in Seq(Blocks), NEW k \in Nat, NEW time \in Int, Before(s, k)
  PROVE  UpTo(s, k, time)
<1>1. \A i \in DOMAIN s : s[i] \in Blocks
  OBVIOUS
<1>2. \A i \in DOMAIN s : s[i].interval \in Nat /\ s[i].interval <= k /\ s[i].interval # k
  BY <1>1 DEF Before, Blocks
<1>3. s # <<>> => Len(s) \in DOMAIN s
  OBVIOUS
<1> QED BY <1>2, <1>3 DEF UpTo

\* The first block of an interval is of the time the channels start at, or too early.
LEMMA FirstPushed ==
  ASSUME NEW s \in Seq(Blocks), NEW b \in Blocks, NEW k \in Nat, NEW time \in Int,
         Consecutive(s), Before(s, k), b.interval = k,
         b.start = time \/ b.start < Intervals[k].start, Intervals[k].start \in Int
  PROVE  Consecutive(s \o <<b>>) /\ UpTo(s \o <<b>>, k, time + 1)
<1>1. UpTo(s, k, time)
  BY NothingOfThis
<1>2. CASE b.start = time
  <2>1. Run(<<b>>, k, time)
    BY <1>2 DEF Run, Blocks
  <2>2. <<b>> \in Seq(Blocks) /\ Len(<<b>>) = 1
    OBVIOUS
  <2> QED BY <1>1, <2>1, <2>2, RunPushed
<1>3. CASE b.start < Intervals[k].start
  <2>1. Run(<<b>>, k, b.start)
    BY DEF Run, Blocks
  <2>2. <<b>> \in Seq(Blocks) /\ Len(<<b>>) = 1 /\ b.start \in Int
    BY DEF Blocks
  <2>3. UpTo(s, k, b.start)
    BY <2>2, NothingOfThis
  <2>4. Consecutive(s \o <<b>>) /\ UpTo(s \o <<b>>, k, b.start + 1)
    BY <2>1, <2>2, <2>3, RunPushed
  <2>5. LET t == s \o <<b>> IN t[Len(t)] = b
    OBVIOUS
  <2>6. ~(b.start >= Intervals[k].start)
    BY <1>3, <2>2
  <2>7. UpTo(s \o <<b>>, k, time + 1)
    BY <2>4, <2>5, <2>6 DEF UpTo
  <2> QED BY <2>4, <2>7
<1> QED BY <1>2, <1>3

-----------------------------------------------------------------------------
\* Channels, threads and frames.

LastThread == Len(Threads)

LEMMA ChannelSet ==
  /\ Channels = 1 .. LastThread /\ LastThread \in Nat \ {0} /\ 1 \in Channels
  /\ Threads \in Seq(Nat)
BY FormatReaderAssumption DEF Channels, LastThread

LEMMA IntervalTypes ==
  \A k \in DOMAIN Intervals :
    /\ k \in Nat /\ k > 0
    /\ Intervals[k].start \in Nat /\ Intervals[k].stop \in Nat /\ Intervals[k].leave \in Nat
    /\ 0 < Intervals[k].start /\ Intervals[k].start < Intervals[k].stop
<1>1. TAKE k \in DOMAIN Intervals
<1>2. Intervals[k] \in Times /\ k \in Nat /\ k > 0
  BY FormatReaderAssumption
<1>3. 0 < Intervals[k].start /\ Intervals[k].start < Intervals[k].stop
  BY FormatReaderAssumption
<1> QED BY <1>2, <1>3 DEF Times

\* thread_map has a channel for the thread of each channel, and gives that thread.
LEMMA MainOfThread ==
  \A c \in Channels :
    MainChannel(Threads[c]) \in Channels /\ Threads[MainChannel(Threads[c])] = Threads[c]
<1>1. TAKE c \in Channels
<1> DEFINE T == {d \in Channels : Threads[d] = Threads[c]}
<1>2. T \in SUBSET (1 .. LastThread) /\ T # {} /\ LastThread \in Nat
  BY ChannelSet
<1>3. Max(T) \in T
  BY <1>2, MaxUpTo
<1> QED BY <1>3 DEF MainChannel

LEMMA ChannelType ==
  ASSUME NEW f \in Frames
  PROVE  ChannelOf(f) \in Channels
<1>1. ASSUME NEW c \in Channels, Threads[c] = f.thread PROVE MainChannel(f.thread) \in Channels
  BY <1>1, MainOfThread
<1> QED BY <1>1, ChannelSet DEF ChannelOf

\* A frame that is read goes to a channel that does not only get copies.
LEMMA ChannelIsMain ==
  ASSUME NoStrayCopies, NEW r \in Recordings, NEW q \in DOMAIN r, Wanted(r[q])
  PROVE  ChannelOf(r[q]) \in Main
<1>1. ASSUME NEW c \in Channels, Threads[c] = r[q].thread PROVE ChannelOf(r[q]) \in Main
  <2>1. ChannelOf(r[q]) = MainChannel(Threads[c])
    BY <1>1 DEF ChannelOf
  <2>2. MainChannel(Threads[c]) \in Channels /\ Threads[MainChannel(Threads[c])] = Threads[c]
    BY MainOfThread
  <2> QED BY <2>1, <2>2 DEF Main
<1>2. CASE \E c \in Channels : Threads[c] = r[q].thread
  BY <1>1, <1>2
<1>3. CASE ~\E c \in Channels : Threads[c] = r[q].thread
  <2>1. r[q].invalid
    BY <1>3 DEF Wanted
  <2>2. 1 \in Main
    BY <1>3, <2>1 DEF NoStrayCopies
  <2> QED BY <1>3, <2>2 DEF ChannelOf
<1> QED BY <1>2, <1>3

\* Channels that share a thread have the same main channel, so the copies of what it
\* gets go to no other main channel.
LEMMA CopiesNotMain ==
  ASSUME NEW c \in Main, NEW d \in Duplicates(c)
  PROVE  d \in Channels /\ d \notin Main
BY DEF Main, Duplicates

\* Where a read ends.
LEMMA ReadResult ==
  ASSUME Types
  PROVE  /\ recording \in Seq(Frames)
         /\ LastRead \in pos .. Len(recording)
         /\ ReadOk => /\ ReadTo \in DOMAIN recording /\ LastRead = ReadTo /\ LastRead > pos
                      /\ Wanted(recording[ReadTo])
<1>1. recording \in Seq(Frames)
  BY FormatReaderAssumption DEF Types
<1> DEFINE n == Len(recording)
           T == Candidates \cup {n + 1, pos + MaxRestarts + 1}
<1>2. n \in Nat /\ pos \in 0 .. n
  BY <1>1 DEF Types
<1>3. MaxRestarts \in Nat
  BY FormatReaderAssumption
<1>4. T \in SUBSET Nat /\ \A q \in T : q > pos
  BY <1>2, <1>3 DEF Candidates
<1>5. ReadTo \in T
  BY <1>4, MinNatural DEF ReadTo
<1>6. ReadTo \in Nat /\ ReadTo > pos
  BY <1>4, <1>5
<1> HIDE DEF n
<1>7. LastRead = IF ReadTo <= n THEN ReadTo ELSE n
  BY <1>2, <1>6, MinOfTwo DEF LastRead, n
<1>8. LastRead \in pos .. n
  BY <1>2, <1>6, <1>7
<1>9. ReadOk => ReadTo \in 1 .. n /\ LastRead = ReadTo /\ LastRead > pos /\ Wanted(recording[ReadTo])
  BY <1>2, <1>6, <1>7 DEF ReadOk, ReadAtEnd, n
<1>10. DOMAIN recording = 1 .. n
  BY <1>1 DEF n
<1> QED BY <1>1, <1>8, <1>9, <1>10 DEF n

\* What a read of a frame makes of an element.
LEMMA FilledType ==
  ASSUME Types, ReadOk, NEW e \in Elements
  PROVE  /\ Filled(e) \in Elements /\ Filled(e).buffer = e.buffer
         /\ Filled(e).channel = ChannelOf(recording[ReadTo])
         /\ recording[ReadTo].time \in Nat
         /\ isOpen' => Filled(e).start = recording[ReadTo].time
<1> DEFINE f == recording[ReadTo]
<1>1. f \in Frames
  BY ReadResult
<1> HIDE DEF f
<1>2. ChannelOf(f) \in Channels
  BY <1>1, ChannelType
<1>3. f.time \in Nat /\ f.invalid \in BOOLEAN
  BY <1>1 DEF Frames
<1> DEFINE start == IF isOpen' THEN f.time ELSE NoTime
<1>4. start \in Int /\ (isOpen' => start = f.time)
  BY <1>3 DEF NoTime
<1>5. Filled(e) = [e EXCEPT !.start = start, !.channel = ChannelOf(f), !.invalid = @ \/ f.invalid]
  BY DEF Filled, f
<1> HIDE DEF start
<1>6. /\ Filled(e) \in Elements /\ Filled(e).buffer = e.buffer
      /\ Filled(e).channel = ChannelOf(f) /\ Filled(e).start = start
  BY <1>2, <1>3, <1>4, <1>5 DEF Elements
<1> QED BY <1>3, <1>4, <1>6 DEF f

\* A read leaves the types as they are.
LEMMA ReadTypes ==
  ASSUME Types, Read(element)
  PROVE  /\ pos' \in pos .. Len(recording)
         /\ memory' \in Seq(Nat) /\ Len(memory') = Len(memory)
         /\ ReadOk => pos' > 0
<1>1. LastRead \in pos .. Len(recording) /\ LastRead \in Nat /\ pos \in Nat
  BY ReadResult DEF Types
<1>2. pos' = LastRead /\ (ReadOk => LastRead > pos)
  BY ReadResult DEF Read
<1>3. memory' \in Seq(Nat) /\ Len(memory') = Len(memory)
  <2>1. CASE LastRead > pos
    <3>1. memory' = [memory EXCEPT ![element.buffer] = LastRead]
      BY <2>1 DEF Read
    <3>2. memory \in Seq(Nat) /\ element.buffer \in 1 .. Len(memory)
      BY DEF Types
    <3> QED BY <1>1, <3>1, <3>2
  <2>2. CASE ~(LastRead > pos)
    BY <2>2 DEF Read, Types
  <2> QED BY <2>1, <2>2
<1> QED BY <1>1, <1>2, <1>3

-----------------------------------------------------------------------------
\* What is pushed.
BlockLists == [Channels -> Seq(Blocks)]

LEMMA PushTypes ==
  ASSUME Types, NEW bs \in BlockLists, NEW cur \in [Channels -> Int], NEW lft \in [Channels -> Int],
         NEW low \in Int, Push(bs, cur, lft, low)
  PROVE  /\ output' \in BlockLists
         /\ current' \in [Channels -> Int] /\ left' \in [Channels -> Int] /\ minLeft' \in Int
         /\ \A c \in Channels :
              /\ output'[c] = output[c] \o bs[c] /\ current'[c] = cur[c] + Len(bs[c])
              /\ left'[c] = lft[c] - Len(bs[c])
         /\ minLeft' <= low /\ (minLeft' = low \/ \E c \in Channels : minLeft' = left'[c])
<1>1. output \in BlockLists
  BY DEF Types, BlockLists
<1>2. \A c \in Channels : bs[c] \in Seq(Blocks) /\ output[c] \in Seq(Blocks) /\ Len(bs[c]) \in Nat
  BY <1>1 DEF BlockLists
<1>3. \A c \in Channels : output[c] \o bs[c] \in Seq(Blocks)
  BY <1>2
<1>4. output' = [c \in Channels |-> output[c] \o bs[c]]
  BY DEF Push
<1>5. current' = [c \in Channels |-> cur[c] + Len(bs[c])]
  BY DEF Push
<1> DEFINE after == [c \in Channels |-> lft[c] - Len(bs[c])]
           D == {d \in Channels : bs[d] # <<>>}
<1>6. left' = after
  BY DEF Push
<1>7. minLeft' = Min({low} \cup {lft[c] - Len(bs[c]) : c \in D})
  BY DEF Push
<1>8. after \in [Channels -> Int]
  BY <1>2
<1>9. {lft[c] - Len(bs[c]) : c \in D} = {after[c] : c \in D}
  OBVIOUS
<1>10. D \in SUBSET (1 .. LastThread) /\ after \in [1 .. LastThread -> Int] /\ LastThread \in Nat
  BY <1>8, ChannelSet
<1>15. D \subseteq Channels /\ \A c \in Channels : after[c] = lft[c] - Len(bs[c])
  OBVIOUS
<1> HIDE DEF after, D
<1>11. /\ minLeft' \in Int /\ minLeft' <= low
       /\ minLeft' \in {low} \cup {after[c] : c \in D}
  BY <1>7, <1>9, <1>10, MinOfValues
<1>14. minLeft' = low \/ \E c \in Channels : minLeft' = left'[c]
  BY <1>6, <1>11, <1>15
<1>12. current' \in [Channels -> Int]
  BY <1>2, <1>5
<1>13. output' \in BlockLists
  BY <1>3, <1>4 DEF BlockLists
<1> QED BY <1>4, <1>5, <1>6, <1>8, <1>11, <1>12, <1>13, <1>14, <1>15

\* Within an interval: every main channel gets blocks of the times that come next.
LEMMA PushKeepsClocks ==
  ASSUME Types, Clocks, pc = "task", pc' = "task", interval' = interval,
         NEW bs \in BlockLists, Push(bs, current, left, minLeft),
         \A c \in Main : Run(bs[c], interval, current[c])
  PROVE  Clocks'
<1>1. SUFFICES ASSUME NEW c \in Main
               PROVE  Consecutive(output'[c]) /\ UpTo(output'[c], interval, current'[c])
  BY DEF Clocks, Consecutive, UpTo
<1>2. c \in Channels
  BY DEF Main
<1>3. output'[c] = output[c] \o bs[c] /\ current'[c] = current[c] + Len(bs[c])
  BY <1>2, PushTypes DEF Types
<1>4. Consecutive(output[c]) /\ UpTo(output[c], interval, current[c])
  BY DEF Clocks
<1>5. output[c] \in Seq(Blocks) /\ bs[c] \in Seq(Blocks) /\ current[c] \in Int /\ interval \in Nat
  BY <1>2 DEF Types, BlockLists
<1> QED BY <1>1, <1>3, <1>4, <1>5, RunPushed

\* At the start of an interval all channels go to one time, and one gets a block.
LEMMA StartKeepsClocks ==
  ASSUME Types, NEW e \in Elements, NEW time \in Int, interval' \in DOMAIN Intervals, pc' = "task",
         \A c \in Main : Consecutive(output[c]) /\ Before(output[c], interval'),
         e.start = time \/ e.start < Intervals[interval'].start,
         StartAt(time, e)
  PROVE  /\ Clocks' /\ element' = e
         /\ output' \in BlockLists
         /\ current' \in [Channels -> Int] /\ left' \in [Channels -> Int] /\ minLeft' \in Int
<1> DEFINE bs == InChannel(e.channel, <<Block(e)>>)
           cur == [c \in Channels |-> time]
           lft == [c \in Channels |-> Intervals[interval'].stop - time]
           low == Intervals[interval'].stop - time
<1>1. PICK k \in DOMAIN Intervals : k = interval'
  OBVIOUS
<1>2. Intervals[k].stop \in Nat /\ Intervals[k].start \in Nat /\ k \in Nat
  BY IntervalTypes
<1>3. Block(e) \in Blocks /\ Block(e).interval = k /\ Block(e).start = e.start
  BY <1>1, <1>2 DEF Block, Blocks, Elements
<1> DEFINE b == Block(e)
<1>4. b \in Blocks /\ b.interval = k /\ b.start = e.start
  BY <1>3
<1>5. bs = [d \in Channels |-> IF d = e.channel THEN <<b>> ELSE <<>>]
  BY DEF InChannel
<1> HIDE DEF b
<1>6. bs \in BlockLists
  <2>1. <<b>> \in Seq(Blocks) /\ <<>> \in Seq(Blocks)
    BY <1>4
  <2> HIDE DEF bs
  <2> QED BY <1>5, <2>1 DEF BlockLists
<1>7. cur \in [Channels -> Int] /\ lft \in [Channels -> Int] /\ low \in Int
  BY <1>1, <1>2
<1>8. Push(bs, cur, lft, low) /\ element' = e
  BY DEF StartAt, b
<1>9. \A c \in Channels : cur[c] = time
  OBVIOUS
<1> HIDE DEF bs, cur, lft, low
<1>10. /\ output' \in BlockLists
       /\ current' \in [Channels -> Int] /\ left' \in [Channels -> Int] /\ minLeft' \in Int
       /\ \A c \in Channels :
            output'[c] = output[c] \o bs[c] /\ current'[c] = cur[c] + Len(bs[c])
  <2>1. /\ output' \in BlockLists
        /\ current' \in [Channels -> Int] /\ left' \in [Channels -> Int] /\ minLeft' \in Int
        /\ \A c \in Channels :
             /\ output'[c] = output[c] \o bs[c] /\ current'[c] = cur[c] + Len(bs[c])
             /\ left'[c] = lft[c] - Len(bs[c])
        /\ minLeft' <= low /\ (minLeft' = low \/ \E c \in Channels : minLeft' = left'[c])
    BY <1>6, <1>7, <1>8, PushTypes
  <2> QED BY <2>1, Zenon
<1>11. ASSUME NEW c \in Main
       PROVE  Consecutive(output'[c]) /\ UpTo(output'[c], k, current'[c])
  <2>1. c \in Channels
    BY DEF Main
  <2>2. output[c] \in Seq(Blocks) /\ Consecutive(output[c]) /\ Before(output[c], k)
    BY <1>1, <2>1 DEF Types
  <2>3. CASE c = e.channel
    <3>1. output'[c] = output[c] \o <<b>> /\ current'[c] = time + 1
      BY <1>5, <1>9, <1>10, <2>1, <2>3
    <3>2. b.start = time \/ b.start < Intervals[k].start
      BY <1>1, <1>4
    <3> QED BY <1>2, <1>4, <2>2, <3>1, <3>2, FirstPushed
  <2>4. CASE c # e.channel
    <3>1. output'[c] = output[c] \o <<>> /\ current'[c] = time + 0
      BY <1>5, <1>9, <1>10, <2>1, <2>4
    <3>2. output'[c] = output[c] /\ current'[c] = time
      BY <2>2, <3>1
    <3> QED BY <1>2, <2>2, <3>2, NothingOfThis
  <2> QED BY <2>3, <2>4
<1>12. Clocks'
  BY <1>1, <1>11 DEF Clocks, Consecutive, UpTo
<1> QED BY <1>8, <1>10, <1>12

\* As StartKeepsClocks, if the time found may lie after the interval.
LEMMA StartWithKeepsClocks ==
  ASSUME Types, NEW e \in Elements, NEW time \in Int, interval' \in DOMAIN Intervals, pc' = "task",
         \A c \in Main : Consecutive(output[c]) /\ Before(output[c], interval'),
         e.start = time \/ e.start < Intervals[interval'].start,
         StartWith(time, e)
  PROVE  /\ Clocks' /\ element' \in Elements /\ element'.buffer = e.buffer
         /\ output' \in BlockLists
         /\ current' \in [Channels -> Int] /\ left' \in [Channels -> Int] /\ minLeft' \in Int
<1>1. PICK k \in DOMAIN Intervals : k = interval'
  OBVIOUS
<1>2. Intervals[k].stop \in Nat /\ Intervals[k].start \in Nat
  BY IntervalTypes
<1> DEFINE stop == Intervals[interval'].stop
           late == [e EXCEPT !.start = stop - 1, !.channel = 1, !.invalid = TRUE]
<1>3. stop - 1 \in Int
  BY <1>1, <1>2
<1>4. CASE time > stop
  <2>1. StartAt(stop - 1, late)
    BY <1>4 DEF StartWith
  <2>2. late \in Elements /\ late.start = stop - 1 /\ late.buffer = e.buffer
    BY <1>3, ChannelSet DEF Elements
  <2> HIDE DEF late, stop
  <2> QED BY <1>3, <2>1, <2>2, StartKeepsClocks
<1>5. CASE ~(time > stop)
  <2>1. StartAt(time, e)
    BY <1>5 DEF StartWith
  <2> QED BY <2>1, StartKeepsClocks
<1> QED BY <1>4, <1>5

\* The random blocks that make up for what is missing.
LEMMA RandomBlocks ==
  ASSUME Types, interval' = interval, NEW e \in Elements, NEW c \in Channels, NEW n \in Nat
  PROVE  /\ Random(e, c, n) \in Seq(Blocks) /\ Len(Random(e, c, n)) = n
         /\ Run(Random(e, c, n), interval, current[c])
         /\ LastRandom(e, c, n) \in Elements /\ LastRandom(e, c, n).buffer = e.buffer
<1> DEFINE from == current[c]
           b(i) == [start |-> from + i - 1, invalid |-> TRUE, buffer |-> e.buffer, interval |-> interval]
           s == [i \in 1 .. n |-> b(i)]
<1>1. from \in Int /\ interval \in Nat /\ e.buffer \in Nat /\ interval' = interval
  BY DEF Types, Elements
<1>2. \A i \in 1 .. n : Block([e EXCEPT !.start = from + i - 1, !.invalid = TRUE]) = b(i)
  BY <1>1 DEF Block, Elements
<1>3. Random(e, c, n) = s
  BY <1>2 DEF Random
<1> HIDE DEF from
<1>4. \A i \in 1 .. n : b(i) \in Blocks /\ b(i).interval = interval /\ b(i).start = from + (i - 1)
  BY <1>1 DEF Blocks
<1>5. s \in Seq(Blocks) /\ Len(s) = n /\ DOMAIN s = 1 .. n
  BY <1>4
<1>6. Run(s, interval, from)
  BY <1>4, <1>5 DEF Run
<1>7. LastRandom(e, c, n) \in Elements /\ LastRandom(e, c, n).buffer = e.buffer
  <2>1. PICK t \in Int : t = current[c] + n - 1
    BY <1>1 DEF from
  <2>2. LastRandom(e, c, n) = IF n > 0 THEN [e EXCEPT !.start = t, !.channel = c, !.invalid = TRUE] ELSE e
    BY <2>1 DEF LastRandom
  <2>3. CASE n > 0
    BY <2>2, <2>3 DEF Elements
  <2>4. CASE ~(n > 0)
    BY <2>2, <2>4
  <2> QED BY <2>3, <2>4
<1> HIDE DEF s
<1> QED BY <1>3, <1>5, <1>6, <1>7 DEF from

\* Random blocks for one channel.
LEMMA PushRandomKeepsClocks ==
  ASSUME Types, Clocks, pc = "task", pc' = "task", interval' = interval,
         NEW e \in Elements, NEW c \in Channels, NEW n \in Nat, PushRandom(e, c, n)
  PROVE  /\ Clocks' /\ element' \in Elements /\ element'.buffer = e.buffer
         /\ output' \in BlockLists
         /\ current' \in [Channels -> Int] /\ left' \in [Channels -> Int] /\ minLeft' \in Int
<1> DEFINE s == Random(e, c, n)
           bs == [d \in Channels |-> IF d = c THEN s ELSE <<>>]
<1>1. s \in Seq(Blocks) /\ Run(s, interval, current[c])
  BY RandomBlocks
<1>2. element' = LastRandom(e, c, n)
  BY DEF PushRandom
<1>3. element' \in Elements /\ element'.buffer = e.buffer
  BY <1>2, RandomBlocks
<1>4. Push(bs, current, left, minLeft)
  BY DEF PushRandom, InChannel
<1> HIDE DEF s
<1>5. bs \in BlockLists
  BY <1>1 DEF BlockLists
<1>6. Run(<<>>, interval, 0) /\ \A time : Run(<<>>, interval, time)
  BY DEF Run
<1>7. \A d \in Main : Run(bs[d], interval, current[d])
  BY <1>1, <1>6 DEF Main
<1>8. current \in [Channels -> Int] /\ left \in [Channels -> Int] /\ minLeft \in Int
  BY DEF Types
<1> HIDE DEF bs
<1>9. Clocks'
  BY <1>4, <1>5, <1>7, PushKeepsClocks
<1>10. /\ output' \in BlockLists
       /\ current' \in [Channels -> Int] /\ left' \in [Channels -> Int] /\ minLeft' \in Int
  BY <1>4, <1>5, <1>8, PushTypes
<1> QED BY <1>3, <1>9, <1>10

-----------------------------------------------------------------------------
\* The steps at the start of an interval.

Produced ==
  /\ Clocks' /\ element' \in Elements /\ element'.buffer = element.buffer
  /\ output' \in BlockLists
  /\ current' \in [Channels -> Int] /\ left' \in [Channels -> Int] /\ minLeft' \in Int

\* The next interval, of which there are no blocks yet.
LEMMA FetchedInterval ==
  ASSUME FInv, Fetch
  PROVE  /\ interval' \in DOMAIN Intervals /\ interval' \in 0 .. Len(Intervals) /\ interval' > 0
         /\ \A c \in Main : /\ Consecutive(output[c]) /\ Before(output[c], interval')
                            /\ \A time \in Int : UpTo(output[c], interval', time)
<1>1. interval \in 0 .. Len(Intervals) /\ interval < Len(Intervals) /\ interval' = interval + 1
  BY DEF FInv, Types, Fetch
<1>2. Len(Intervals) \in Nat /\ DOMAIN Intervals = 1 .. Len(Intervals)
  BY FormatReaderAssumption
<1>3. ASSUME NEW c \in Main
      PROVE  /\ Consecutive(output[c]) /\ Before(output[c], interval + 1)
             /\ \A time \in Int : UpTo(output[c], interval + 1, time)
  <2>1. Consecutive(output[c]) /\ UpTo(output[c], interval, current[c])
    BY DEF FInv, Clocks, Fetch
  <2>2. output[c] \in Seq(Blocks) /\ current[c] \in Int /\ interval \in Nat
    BY <1>1 DEF Main, FInv, Types
  <2> QED BY <2>1, <2>2, NothingYet
<1> QED BY <1>1, <1>2, <1>3

LEMMA OpenFailsKeeps == FInv /\ OpenFails => FInv'
<1>1. SUFFICES ASSUME FInv, OpenFails PROVE FInv'
  OBVIOUS
<1>2. Fetch /\ Types /\ Read(element)
  BY <1>1 DEF OpenFails, FInv
<1>3. pos' \in pos .. Len(recording) /\ memory' \in Seq(Nat) /\ Len(memory') = Len(memory)
  BY <1>2, ReadTypes
<1>4. PICK k \in DOMAIN Intervals : k = interval'
  BY <1>1, <1>2, FetchedInterval
<1>5. /\ pc' = "task" /\ isOpen' = isOpen /\ recording' = recording /\ ~isOpen
      /\ element' = element /\ output' = output
      /\ current' = [c \in Channels |-> Intervals[k].start]
      /\ left' = [c \in Channels |-> Intervals[k].stop - Intervals[k].start]
      /\ minLeft' = Intervals[k].stop - Intervals[k].start
  BY <1>1, <1>4 DEF OpenFails
<1>6. Intervals[k].stop \in Nat /\ Intervals[k].start \in Nat
  BY IntervalTypes
<1>7. Types'
  <2>1. current' \in [Channels -> Int] /\ left' \in [Channels -> Int] /\ minLeft' \in Int
    BY <1>5, <1>6
  <2>2. interval' \in 0 .. Len(Intervals) /\ interval' > 0
    BY <1>1, <1>2, FetchedInterval
  <2>3. pos' \in 0 .. Len(recording)
    BY <1>2, <1>3 DEF Types
  <2> QED BY <1>2, <1>3, <1>5, <2>1, <2>2, <2>3 DEF Types
<1>8. Clocks'
  <2>1. SUFFICES ASSUME NEW c \in Main
                 PROVE  Consecutive(output[c]) /\ UpTo(output[c], k, current'[c])
    BY <1>4, <1>5 DEF Clocks, Consecutive, UpTo
  <2>2. current'[c] \in Int
    BY <1>5, <1>6 DEF Main
  <2> QED BY <1>1, <1>2, <1>4, <2>2, FetchedInterval
<1> QED BY <1>7, <1>8 DEF FInv

LEMMA OpenInputStreamKeeps == FInv /\ OpenInputStream => FInv'
<1>1. SUFFICES ASSUME FInv, OpenInputStream PROVE FInv'
  OBVIOUS
<1>2. Fetch /\ Types /\ Read(element) /\ ReadOk
  BY <1>1 DEF OpenInputStream, FInv
<1>3. /\ pos' \in pos .. Len(recording) /\ pos' > 0
      /\ memory' \in Seq(Nat) /\ Len(memory') = Len(memory)
  BY <1>2, ReadTypes
<1>4. interval' \in DOMAIN Intervals /\ interval' \in 0 .. Len(Intervals) /\ interval' > 0
  BY <1>1, <1>2, FetchedInterval
<1>5. isOpen' = TRUE /\ recording' = recording
  BY <1>1 DEF OpenInputStream
<1>11. element \in Elements
  BY <1>2 DEF Types
<1>12. recording[ReadTo].time \in Nat
  BY <1>2, <1>11, FilledType
<1>6. PICK time \in Int : time = recording[ReadTo].time
  BY <1>12
<1>7. PICK e \in Elements : e = Filled(element) /\ e.buffer = element.buffer /\ e.start = time
  BY <1>2, <1>5, <1>6, <1>11, FilledType
<1>8. \A c \in Main : Consecutive(output[c]) /\ Before(output[c], interval')
  BY <1>1, <1>2, FetchedInterval
<1>9. CASE pc' = "task" /\ StartWith(time, e)
  <2>1. Produced
    BY <1>2, <1>4, <1>7, <1>8, <1>9, StartWithKeepsClocks DEF Produced
  <2>2. Types'
    BY <1>2, <1>3, <1>4, <1>5, <1>9, <2>1, SMTT(30) DEF Types, Produced, BlockLists
  <2> QED BY <2>1, <2>2 DEF Produced, FInv
<1>10. CASE pc' = "goto" /\ element' = e /\ UNCHANGED <<timeVars, output>>
  <2>1. Types'
    BY <1>2, <1>3, <1>4, <1>5, <1>7, <1>10, SMTT(30) DEF Types, timeVars
  <2>2. Clocks'
    BY <1>8, <1>10 DEF Clocks, Consecutive, Before
  <2> QED BY <2>1, <2>2 DEF FInv
<1> QED BY <1>1, <1>6, <1>7, <1>9, <1>10 DEF OpenInputStream

LEMMA NextIntervalKeeps == FInv /\ NextInterval => FInv'
<1>1. SUFFICES ASSUME FInv, NextInterval PROVE FInv'
  OBVIOUS
<1>2. Fetch /\ Types
  BY <1>1 DEF NextInterval, FInv
<1>3. interval' \in DOMAIN Intervals /\ interval' \in 0 .. Len(Intervals) /\ interval' > 0
  BY <1>1, <1>2, FetchedInterval
<1>4. \A c \in Main : Consecutive(output[c]) /\ Before(output[c], interval')
  BY <1>1, <1>2, FetchedInterval
<1>5. isOpen /\ isOpen' = isOpen /\ recording' = recording /\ pos' = pos /\ memory' = memory
  BY <1>1 DEF NextInterval, readerVars
<1>6. element \in Elements /\ element.start \in Int
  BY <1>2 DEF Types, Elements
<1>7. CASE pc' = "task" /\ StartWith(element.start, element)
  <2>1. Produced
    BY <1>2, <1>3, <1>4, <1>6, <1>7, StartWithKeepsClocks DEF Produced
  <2>2. Types'
    BY <1>2, <1>3, <1>5, <1>7, <2>1 DEF Types, Produced, BlockLists
  <2> QED BY <2>1, <2>2 DEF Produced, FInv
<1>8. CASE pc' = "goto" /\ UNCHANGED <<timeVars, element, output>>
  <2>1. Types'
    BY <1>2, <1>3, <1>5, <1>8 DEF Types, timeVars
  <2>2. Clocks'
    BY <1>4, <1>8 DEF Clocks, Consecutive, Before
  <2> QED BY <2>1, <2>2 DEF FInv
<1> QED BY <1>1, <1>7, <1>8 DEF NextInterval

\* The reader goes to the start of the interval.
LEMMA GotoState ==
  ASSUME FInv, pc = "goto", interval' = interval
  PROVE  /\ Types /\ interval' \in DOMAIN Intervals /\ isOpen /\ pos > 0
         /\ \A c \in Main : Consecutive(output[c]) /\ Before(output[c], interval')
         /\ \A q \in pos .. Len(recording) : recording[q].time \in Int
<1>1. Types /\ interval \in 0 .. Len(Intervals) /\ interval > 0 /\ isOpen /\ pos > 0
  BY DEF FInv, Types
<1>2. interval \in DOMAIN Intervals
  BY <1>1, FormatReaderAssumption
<1>3. recording \in Seq(Frames) /\ pos \in Nat
  BY <1>1, ReadResult DEF Types
<1>4. \A q \in pos .. Len(recording) : recording[q] \in Frames
  BY <1>1, <1>3
<1>5. \A c \in Main : Consecutive(output[c]) /\ Before(output[c], interval)
  BY DEF FInv, Clocks
<1> QED BY <1>1, <1>2, <1>4, <1>5 DEF Frames

\* The time found is used, and an element that is too early counts for the first time.
LEMMA ReachedKeeps ==
  ASSUME FInv, pc = "goto", pc' = "task", interval' = interval, isOpen' = isOpen, recording' = recording,
         pos' \in 0 .. Len(recording), pos' > 0, memory' \in Seq(Nat), Len(memory') = Len(memory),
         NEW time \in Int, StartWith(ReachedTime(time), [element EXCEPT !.start = time])
  PROVE  FInv'
<1> DEFINE e == [element EXCEPT !.start = time]
<1>1. /\ Types /\ interval' \in DOMAIN Intervals /\ isOpen
      /\ \A c \in Main : Consecutive(output[c]) /\ Before(output[c], interval')
  BY GotoState
<1>2. element \in Elements
  BY <1>1 DEF Types
<1>3. e \in Elements /\ e.start = time /\ e.buffer = element.buffer
  BY <1>2 DEF Elements
<1>4. PICK k \in DOMAIN Intervals : k = interval
  BY <1>1
<1>5. Intervals[k].start \in Nat
  BY IntervalTypes
<1>6. /\ ReachedTime(time) \in Int
      /\ time = ReachedTime(time) \/ time < Intervals[interval'].start
  BY <1>4, <1>5 DEF ReachedTime, Interval
<1>7. StartWith(ReachedTime(time), e)
  OBVIOUS
<1> HIDE DEF e
<1>8. PICK found \in Int : found = ReachedTime(time)
  BY <1>6
<1>9. StartWith(found, e) /\ (e.start = found \/ e.start < Intervals[interval'].start)
  BY <1>3, <1>6, <1>7, <1>8
<1>10. Produced
  BY <1>1, <1>3, <1>9, StartWithKeepsClocks DEF Produced
<1>11. Types'
  BY <1>1, <1>10 DEF Types, Produced, BlockLists
<1> QED BY <1>10, <1>11 DEF Produced, FInv

LEMMA GotoReadKeeps == FInv /\ GotoRead => FInv'
<1>1. SUFFICES ASSUME FInv, GotoRead PROVE FInv'
  OBVIOUS
<1>2. /\ pc = "goto" /\ ReadOk /\ Read(element) /\ element' = Filled(element)
      /\ UNCHANGED <<recording, isOpen, pc, interval, timeVars, output>>
  BY <1>1 DEF GotoRead
<1>3. Types /\ isOpen
  BY <1>1, <1>2 DEF FInv, Types
<1>4. /\ pos' \in pos .. Len(recording) /\ pos' > 0
      /\ memory' \in Seq(Nat) /\ Len(memory') = Len(memory)
  BY <1>2, <1>3, ReadTypes
<1>5. element \in Elements
  BY <1>3 DEF Types
<1>6. element' \in Elements /\ element'.buffer = element.buffer
  BY <1>2, <1>3, <1>5, FilledType
<1>7. Types'
  BY <1>2, <1>3, <1>4, <1>6 DEF Types, timeVars
<1>8. Clocks'
  BY <1>1, <1>2 DEF FInv, Clocks, Consecutive, Before, UpTo, timeVars
<1> QED BY <1>7, <1>8 DEF FInv

LEMMA GotoFailsKeeps == FInv /\ GotoFails => FInv'
<1>1. SUFFICES ASSUME FInv, GotoFails PROVE FInv'
  OBVIOUS
<1>2. /\ pc = "goto" /\ pc' = "task" /\ interval' = interval /\ Read(element)
      /\ isOpen' = isOpen /\ recording' = recording
      /\ StartWith(ReachedTime(recording[LastRead].time), [element EXCEPT !.start = recording[LastRead].time])
  BY <1>1 DEF GotoFails
<1>3. Types /\ pos > 0 /\ \A q \in pos .. Len(recording) : recording[q].time \in Int
  BY <1>1, <1>2, GotoState
<1>4. LastRead \in pos .. Len(recording)
  BY <1>3, ReadResult
<1>5. PICK time \in Int : time = recording[LastRead].time
  BY <1>3, <1>4
<1>6. pos' \in pos .. Len(recording) /\ memory' \in Seq(Nat) /\ Len(memory') = Len(memory)
  BY <1>2, <1>3, ReadTypes
<1>7. pos' \in 0 .. Len(recording) /\ pos' > 0
  BY <1>3, <1>6 DEF Types
<1> QED BY <1>1, <1>2, <1>5, <1>6, <1>7, ReachedKeeps

LEMMA GotoDoneKeeps == FInv /\ GotoDone => FInv'
<1>1. SUFFICES ASSUME FInv, GotoDone PROVE FInv'
  OBVIOUS
<1>2. /\ pc = "goto" /\ pc' = "task" /\ interval' = interval /\ pos' = pos /\ memory' = memory
      /\ isOpen' = isOpen /\ recording' = recording
      /\ StartWith(ReachedTime(Header), [element EXCEPT !.start = Header])
  BY <1>1 DEF GotoDone, readerVars
<1>3. Types /\ pos > 0 /\ \A q \in pos .. Len(recording) : recording[q].time \in Int
  BY <1>1, <1>2, GotoState
<1>4. pos \in 0 .. Len(recording) /\ pos \in pos .. Len(recording) /\ memory \in Seq(Nat)
  BY <1>3 DEF Types
<1>5. PICK time \in Int : time = Header
  BY <1>3, <1>4 DEF Header
<1> QED BY <1>1, <1>2, <1>3, <1>4, <1>5, ReachedKeeps

-----------------------------------------------------------------------------
\* The steps within an interval, each on an element with a buffer of its own.

TaskProduced ==
  /\ Clocks' /\ element' \in Elements /\ element'.buffer = Len(memory) + 1
  /\ output' \in BlockLists
  /\ current' \in [Channels -> Int] /\ left' \in [Channels -> Int] /\ minLeft' \in Int

LEMMA TaskState ==
  ASSUME FInv, Task
  PROVE  /\ Types /\ Clocks /\ pc = "task" /\ pc' = "task" /\ interval' = interval
         /\ interval \in DOMAIN Intervals
         /\ isOpen' \in BOOLEAN
         /\ Allocated \in Elements /\ Allocated.buffer = Len(memory) + 1
         /\ current \in [Channels -> Int] /\ left \in [Channels -> Int] /\ minLeft \in Int
<1>1. Types /\ Clocks /\ pc = "task" /\ pc' = "task" /\ interval' = interval /\ isOpen' = isOpen
  BY DEF FInv, Task
<1>2. interval \in DOMAIN Intervals
  BY <1>1, FormatReaderAssumption DEF Types
<1>3. Len(memory) + 1 \in Nat
  BY <1>1 DEF Types
<1>4. Allocated \in Elements /\ Allocated.buffer = Len(memory) + 1
  BY <1>3, ChannelSet DEF Allocated, Elements, NoTime
<1> QED BY <1>1, <1>2, <1>4 DEF Types

LEMMA TaskKeeps ==
  ASSUME FInv, Task, TaskProduced, pos' \in pos .. Len(recording),
         NEW q \in Nat, memory' = Append(memory, q)
  PROVE  FInv'
<1>1. Types /\ isOpen' = isOpen /\ recording' = recording /\ pc' = pc /\ interval' = interval
  BY DEF FInv, Task
<1>2. memory' \in Seq(Nat) /\ Len(memory') = Len(memory) + 1 /\ element'.buffer \in 1 .. Len(memory')
  BY <1>1 DEF Types, TaskProduced
<1>3. pos' \in 0 .. Len(recording) /\ (isOpen' => pos' > 0)
  BY <1>1 DEF Types
<1>4. Types'
  BY <1>1, <1>2, <1>3 DEF Types, TaskProduced, BlockLists
<1> QED BY <1>4 DEF TaskProduced, FInv

\* Random blocks for one channel.
LEMMA TaskRandom ==
  ASSUME FInv, Task, NEW e \in Elements, e.buffer = Len(memory) + 1, NEW c \in Channels, NEW n \in Nat,
         PushRandom(e, c, n)
  PROVE  TaskProduced
BY TaskState, PushRandomKeepsClocks DEF TaskProduced

LEMMA TaskEofKeeps == FInv /\ TaskEof => FInv'
<1>1. SUFFICES ASSUME FInv, TaskEof PROVE FInv'
  OBVIOUS
<1> DEFINE late == {c \in Channels : current[c] < Interval.stop}
           e == Allocated
           bs == [c \in Channels |-> IF c \in late THEN Random(e, c, 1) ELSE <<>>]
<1>2. /\ Task /\ Push(bs, current, left, minLeft) /\ element' = LastRandom(e, Max(late), 1)
      /\ memory' = Append(memory, 0) /\ pos' = pos
  BY <1>1 DEF TaskEof
<1>3. late \in SUBSET (1 .. LastThread) /\ late # {} /\ LastThread \in Nat /\ late \subseteq Channels
  BY <1>2, ChannelSet DEF Task
<1>4. Max(late) \in Channels
  BY <1>3, MaxUpTo
<1>5. /\ Types /\ Clocks /\ pc = "task" /\ pc' = "task" /\ interval' = interval
      /\ e \in Elements /\ e.buffer = Len(memory) + 1
      /\ current \in [Channels -> Int] /\ left \in [Channels -> Int] /\ minLeft \in Int
  BY <1>1, <1>2, TaskState
<1> HIDE DEF e
<1>6. \A c \in Channels : Random(e, c, 1) \in Seq(Blocks) /\ Run(Random(e, c, 1), interval, current[c])
  BY <1>5, RandomBlocks
<1> HIDE DEF late
<1>7. bs \in BlockLists
  BY <1>6 DEF BlockLists
<1>8. \A c \in Main : Run(bs[c], interval, current[c])
  BY <1>6 DEF Main, Run
<1> HIDE DEF bs
<1>9. Clocks'
  BY <1>2, <1>5, <1>7, <1>8, PushKeepsClocks
<1>10. element' \in Elements /\ element'.buffer = Len(memory) + 1
  BY <1>2, <1>4, <1>5, RandomBlocks
<1>11. TaskProduced
  BY <1>2, <1>5, <1>7, <1>9, <1>10, PushTypes DEF TaskProduced
<1>12. pos' \in pos .. Len(recording)
  BY <1>2, <1>5 DEF Types
<1> QED BY <1>1, <1>2, <1>11, <1>12, TaskKeeps

\* Numbers of blocks.
LEMMA BlockNumbers ==
  ASSUME Types
  PROVE  SkipFrames \in Nat /\ \A c \in Channels : Skew(c) \in Nat
<1>1. NSkip \in Nat /\ 2 * NSkew \in Int /\ 1 \in Channels
  BY FormatReaderAssumption, ChannelSet
<1>2. \A a, b \in Int : Max({0, Min({a, b})}) \in Nat
  BY MinOfTwo, MaxOfTwo
<1>3. \A c \in Channels : left[c] \in Int /\ left[c] - 1 \in Int
  BY DEF Types
<1> QED BY <1>1, <1>2, <1>3 DEF SkipFrames, Skew

LEMMA TaskSkewKeeps == FInv /\ TaskSkew => FInv'
<1>1. SUFFICES ASSUME FInv, TaskSkew PROVE FInv'
  OBVIOUS
<1>2. Task /\ Lagging # {} /\ memory' = Append(memory, 0) /\ pos' = pos
  BY <1>1 DEF TaskSkew
<1>3. Lagging \in SUBSET Nat /\ Lagging \subseteq Channels
  BY ChannelSet DEF Lagging
<1>4. PICK c \in Lagging : c = Min(Lagging)
  BY <1>2, <1>3, MinNatural
<1>5. PushRandom(Allocated, c, left[c] - minLeft - Skew(c))
  BY <1>1, <1>4 DEF TaskSkew
<1>6. /\ Types /\ Allocated \in Elements /\ Allocated.buffer = Len(memory) + 1
      /\ left \in [Channels -> Int] /\ minLeft \in Int
  BY <1>1, <1>2, TaskState
<1>7. Skew(c) \in Nat /\ c \in Channels /\ left[c] > minLeft + Skew(c)
  BY <1>3, <1>6, BlockNumbers DEF Lagging
<1>8. left[c] \in Int /\ left[c] - minLeft - Skew(c) \in Nat
  BY <1>6, <1>7
<1>9. TaskProduced
  BY <1>1, <1>2, <1>5, <1>6, <1>7, <1>8, TaskRandom
<1>10. pos' \in pos .. Len(recording)
  BY <1>2, <1>6 DEF Types
<1> QED BY <1>1, <1>2, <1>9, <1>10, TaskKeeps

\* The steps that read.
LEMMA TaskReadKeeps ==
  ASSUME FInv, TaskRead, TaskProduced
  PROVE  FInv'
<1>1. Task /\ pos' = LastRead /\ memory' = Append(memory, IF LastRead > pos THEN LastRead ELSE 0)
  BY DEF TaskRead
<1>2. LastRead \in pos .. Len(recording) /\ pos \in 0 .. Len(recording)
  BY <1>1, TaskState, ReadResult DEF Types
<1>3. PICK q \in Nat : memory' = Append(memory, q)
  BY <1>1, <1>2
<1> QED BY <1>1, <1>2, <1>3, TaskKeeps

LEMMA TaskReadFailsKeeps == FInv /\ TaskReadFails => FInv'
<1>1. SUFFICES ASSUME FInv, TaskReadFails PROVE FInv'
  OBVIOUS
<1>2. Task /\ TaskRead /\ PushRandom(Allocated, 1, SkipFrames)
  BY <1>1 DEF TaskReadFails, TaskRead
<1>3. Types /\ Allocated \in Elements /\ Allocated.buffer = Len(memory) + 1
  BY <1>1, <1>2, TaskState
<1>4. SkipFrames \in Nat /\ 1 \in Channels
  BY <1>3, BlockNumbers, ChannelSet
<1>5. TaskProduced
  BY <1>1, <1>2, <1>3, <1>4, TaskRandom
<1> QED BY <1>1, <1>2, <1>5, TaskReadKeeps

\* The element with a frame, and the channel it goes to.
LEMMA GotFrame ==
  ASSUME FInv, TaskRead, ReadOk
  PROVE  /\ Got \in Elements /\ Got.buffer = Len(memory) + 1
         /\ Got.channel \in Channels /\ Got.start \in Int
         /\ current[Got.channel] \in Int /\ left[Got.channel] \in Int
         /\ NoStrayCopies => Got.channel \in Main
<1>1. Task
  BY DEF TaskRead
<1>2. Types /\ Allocated \in Elements /\ Allocated.buffer = Len(memory) + 1
  BY <1>1, TaskState
<1>3. Got \in Elements /\ Got.buffer = Len(memory) + 1 /\ Got.channel = ChannelOf(recording[ReadTo])
  BY <1>2, FilledType DEF Got
<1>4. recording \in Recordings /\ ReadTo \in DOMAIN recording /\ Wanted(recording[ReadTo])
  BY <1>2, ReadResult DEF Types
<1>5. NoStrayCopies => Got.channel \in Main
  BY <1>3, <1>4, ChannelIsMain
<1> QED BY <1>2, <1>3, <1>5 DEF Types, Elements

LEMMA TaskLeftKeeps == FInv /\ TaskLeft => FInv'
<1>1. SUFFICES ASSUME FInv, TaskLeft PROVE FInv'
  OBVIOUS
<1>2. Task /\ TaskRead /\ ReadOk /\ PushRandom(Got, Got.channel, SkipFrames)
  BY <1>1 DEF TaskLeft, TaskRead
<1>3. Got \in Elements /\ Got.buffer = Len(memory) + 1 /\ Got.channel \in Channels
  BY <1>1, <1>2, GotFrame
<1>4. SkipFrames \in Nat
  BY <1>1, <1>2, TaskState, BlockNumbers
<1>5. TaskProduced
  BY <1>1, <1>2, <1>3, <1>4, TaskRandom
<1> QED BY <1>1, <1>2, <1>5, TaskReadKeeps

LEMMA TaskFutureKeeps == FInv /\ TaskFuture => FInv'
<1>1. SUFFICES ASSUME FInv, TaskFuture PROVE FInv'
  OBVIOUS
<1>2. Task /\ TaskRead /\ ReadOk /\ PushRandom(Got, Got.channel, 1)
  BY <1>1 DEF TaskFuture, TaskRead, InScan
<1>3. Got \in Elements /\ Got.buffer = Len(memory) + 1 /\ Got.channel \in Channels
  BY <1>1, <1>2, GotFrame
<1>4. TaskProduced
  BY <1>1, <1>2, <1>3, TaskRandom
<1> QED BY <1>1, <1>2, <1>4, TaskReadKeeps

LEMMA TaskPastKeeps == FInv /\ TaskPast => FInv'
<1>1. SUFFICES ASSUME FInv, TaskPast PROVE FInv'
  OBVIOUS
<1>2. Task /\ TaskRead /\ ReadOk /\ element' = Got /\ UNCHANGED <<timeVars, output>>
  BY <1>1 DEF TaskPast, TaskRead, InScan
<1>3. Got \in Elements /\ Got.buffer = Len(memory) + 1
  BY <1>1, <1>2, GotFrame
<1>4. Clocks'
  BY <1>1, <1>2, TaskState DEF Clocks, Consecutive, UpTo, timeVars
<1>5. TaskProduced
  BY <1>1, <1>2, <1>3, <1>4, TaskState DEF TaskProduced, BlockLists, Types, timeVars
<1> QED BY <1>1, <1>2, <1>5, TaskReadKeeps

\* The number of frames missing.
LEMMA MissingNumber ==
  ASSUME FInv, TaskRead, ReadOk
  PROVE  /\ Missing \in Int
         /\ Missing # left[Got.channel] => Missing = Got.start - current[Got.channel]
<1>1. Got.start \in Int /\ current[Got.channel] \in Int /\ left[Got.channel] \in Int
  BY GotFrame
<1>2. PICK n \in Int : n = Got.start - current[Got.channel]
  BY <1>1
<1>3. Missing = IF n <= left[Got.channel] THEN n ELSE left[Got.channel]
  BY <1>1, <1>2, MinOfTwo DEF Missing
<1> QED BY <1>1, <1>2, <1>3

LEMMA TaskBeyondKeeps == FInv /\ TaskBeyond => FInv'
<1>1. SUFFICES ASSUME FInv, TaskBeyond PROVE FInv'
  OBVIOUS
<1> DEFINE ch == Got.channel
           s == Random(Got, ch, Missing)
           bs == [d \in Channels |-> IF d = ch THEN s ELSE <<>>]
<1>2. /\ Task /\ TaskRead /\ ReadOk /\ element' = Got /\ Missing >= 0
      /\ Push(bs, current, left, minLeft)
  BY <1>1 DEF TaskBeyond, TaskRead, InScan, InChannel
<1>3. Got \in Elements /\ Got.buffer = Len(memory) + 1 /\ ch \in Channels
  BY <1>1, <1>2, GotFrame
<1>4. Missing \in Nat
  BY <1>1, <1>2, MissingNumber
<1>5. /\ Types /\ Clocks /\ pc = "task" /\ pc' = "task" /\ interval' = interval
      /\ current \in [Channels -> Int] /\ left \in [Channels -> Int] /\ minLeft \in Int
  BY <1>1, <1>2, TaskState
<1>6. s \in Seq(Blocks) /\ Run(s, interval, current[ch])
  BY <1>3, <1>4, <1>5, RandomBlocks
<1> HIDE DEF s
<1>7. bs \in BlockLists
  BY <1>6 DEF BlockLists
<1>8. \A d \in Main : Run(bs[d], interval, current[d])
  BY <1>6 DEF Main, Run
<1> HIDE DEF bs
<1>9. Clocks'
  BY <1>2, <1>5, <1>7, <1>8, PushKeepsClocks
<1>10. TaskProduced
  BY <1>2, <1>3, <1>5, <1>7, <1>9, PushTypes DEF TaskProduced
<1> QED BY <1>1, <1>2, <1>10, TaskReadKeeps

LEMMA RunAppended ==
  ASSUME NEW s \in Seq(Blocks), NEW b \in Blocks, NEW k \in Nat, NEW time \in Int,
         Run(s, k, time), b.interval = k, b.start = time + Len(s)
  PROVE  Append(s, b) \in Seq(Blocks) /\ Run(Append(s, b), k, time)
<1> DEFINE t == Append(s, b)
           n == Len(s)
<1>1. n \in Nat /\ t \in Seq(Blocks) /\ Len(t) = n + 1 /\ t[n + 1] = b
  OBVIOUS
<1>2. \A i \in 1 .. n : t[i] = s[i]
  OBVIOUS
<1>3. \A i \in 1 .. n : s[i].interval = k /\ s[i].start = time + (i - 1)
  BY DEF Run
<1>4. DOMAIN t = 1 .. n + 1
  BY <1>1
<1> HIDE DEF t
<1>5. ASSUME NEW i \in 1 .. n + 1 PROVE t[i].interval = k /\ t[i].start = time + (i - 1)
  <2>1. CASE i \in 1 .. n
    BY <1>2, <1>3, <2>1
  <2>2. CASE i = n + 1
    BY <1>1, <2>2
  <2>3. i \in 1 .. n \/ i = n + 1
    BY <1>1
  <2> QED BY <2>1, <2>2, <2>3
<1>6. t \in Seq(Blocks) /\ Run(t, k, time)
  BY <1>1, <1>4, <1>5 DEF Run
<1> QED BY <1>6 DEF t

\* What is pushed for a frame: the blocks missing and its own for its channel, and a
\* copy for each channel of the same thread.
FramePush(bs) ==
  LET ch == Got.channel IN
  /\ bs \in BlockLists /\ Push(bs, current, left, minLeft)
  /\ Len(bs[ch]) = Got.start - current[ch] + 1 /\ Got.start >= current[ch]
  /\ bs[ch] # <<>> /\ bs[ch][Len(bs[ch])] = Block(Got)
  /\ \A c \in Channels : c # ch => bs[c] = IF c \in Duplicates(ch) THEN <<Block(Got)>> ELSE <<>>
  /\ \A c \in Main : Run(bs[c], interval, current[c])

LEMMA FramePushed ==
  ASSUME NoStrayCopies, FInv, TaskFrame
  PROVE  \E bs : FramePush(bs)
<1> DEFINE ch == Got.channel
           fill == IF Got.start = current[ch] THEN <<>> ELSE Fill
           copies == Duplicates(ch)
           b == Block(Got)
           bs == [c \in Channels |-> IF c = ch THEN Append(fill, b)
                                     ELSE IF c \in copies THEN <<b>> ELSE <<>>]
<1>2. /\ Task /\ TaskRead /\ ReadOk /\ Push(bs, current, left, minLeft)
      /\ Got.start # current[ch] => Missing > 0 /\ Missing < left[ch]
  BY DEF TaskFrame, TaskRead, InScan
<1>3. /\ Got \in Elements /\ Got.buffer = Len(memory) + 1 /\ ch \in Channels /\ ch \in Main
      /\ Got.start \in Int /\ current[ch] \in Int /\ left[ch] \in Int
  BY <1>2, GotFrame
<1>4. /\ Types /\ Clocks /\ pc = "task" /\ pc' = "task" /\ interval' = interval
      /\ current \in [Channels -> Int] /\ left \in [Channels -> Int] /\ minLeft \in Int
      /\ interval \in Nat
  BY <1>2, TaskState DEF Types
<1>5. b \in Blocks /\ b.interval = interval /\ b.start = Got.start
  <2>1. PICK e \in Elements : e = Got
    BY <1>3
  <2>2. Block(e) \in Blocks /\ Block(e).interval = interval /\ Block(e).start = e.start
    BY <1>4 DEF Block, Blocks, Elements
  <2> QED BY <2>1, <2>2
<1>6. fill \in Seq(Blocks) /\ Run(fill, interval, current[ch]) /\ Got.start = current[ch] + Len(fill)
  <2>1. CASE Got.start = current[ch]
    BY <1>3, <2>1 DEF Run
  <2>2. CASE Got.start # current[ch]
    <3>1. Missing \in Nat /\ Missing = Got.start - current[ch]
      BY <1>2, <1>3, <2>2, MissingNumber
    <3>2. PICK n \in Nat : n = Missing
      BY <3>1
    <3>3. fill = Random(Got, ch, n)
      BY <2>2, <3>2 DEF Fill
    <3>4. /\ Random(Got, ch, n) \in Seq(Blocks) /\ Len(Random(Got, ch, n)) = n
          /\ Run(Random(Got, ch, n), interval, current[ch])
      BY <1>3, <1>4, RandomBlocks
    <3> QED BY <1>3, <3>1, <3>2, <3>3, <3>4
  <2> QED BY <2>1, <2>2
<1> HIDE DEF fill, b
<1>7. Append(fill, b) \in Seq(Blocks) /\ Run(Append(fill, b), interval, current[ch])
  BY <1>3, <1>4, <1>5, <1>6, RunAppended
<1>8. <<b>> \in Seq(Blocks)
  BY <1>5
<1>9. bs \in BlockLists
  <2> DEFINE s == Append(fill, b)
             one == <<b>>
  <2>1. s \in Seq(Blocks) /\ one \in Seq(Blocks) /\ <<>> \in Seq(Blocks)
    BY <1>7, <1>8
  <2> HIDE DEF s, one
  <2>2. [c \in Channels |-> IF c = ch THEN s ELSE IF c \in copies THEN one ELSE <<>>] \in BlockLists
    BY <2>1 DEF BlockLists
  <2> QED BY <2>2 DEF s, one
<1>10. \A c \in Main : Run(bs[c], interval, current[c])
  <2>1. TAKE c \in Main
  <2>2. c \in Channels /\ c \notin copies
    BY <1>3, CopiesNotMain DEF Main
  <2>3. CASE c = ch
    BY <1>7, <2>2, <2>3
  <2>4. CASE c # ch
    <3>1. bs[c] = <<>>
      BY <2>2, <2>4
    <3> QED BY <3>1 DEF Run
  <2> QED BY <2>3, <2>4
<1>11. \A c \in Channels : c # ch => bs[c] = IF c \in copies THEN <<b>> ELSE <<>>
  OBVIOUS
<1>12. PICK s \in Seq(Blocks) : s = Append(fill, b) /\ s = bs[ch]
  BY <1>3, <1>7
<1>13. Len(s) = Len(fill) + 1 /\ s[Len(s)] = b /\ s # <<>> /\ Len(fill) \in Nat
  <2>1. PICK f \in Seq(Blocks) : f = fill
    BY <1>6
  <2>2. PICK x \in Blocks : x = b
    BY <1>5
  <2>3. s = Append(f, x)
    BY <1>12, <2>1, <2>2
  <2>4. Len(s) = Len(f) + 1 /\ s[Len(f) + 1] = x /\ Len(f) \in Nat
    BY <2>3
  <2>5. s # <<>>
    BY <1>12, <2>4, EmptySeq
  <2> QED BY <2>1, <2>2, <2>4, <2>5
<1> HIDE DEF bs
<1>14. Len(bs[ch]) = Got.start - current[ch] + 1 /\ Got.start >= current[ch]
  BY <1>3, <1>6, <1>12, <1>13
<1>15. bs[ch] # <<>> /\ bs[ch][Len(bs[ch])] = b
  BY <1>12, <1>13
<1> QED BY <1>2, <1>9, <1>10, <1>11, <1>14, <1>15 DEF FramePush, b

LEMMA TaskFrameKeeps == NoStrayCopies /\ FInv /\ TaskFrame => FInv'
<1>1. SUFFICES ASSUME NoStrayCopies, FInv, TaskFrame PROVE FInv'
  OBVIOUS
<1> DEFINE copies == Duplicates(Got.channel)
<1>2. PICK bs \in BlockLists : /\ Push(bs, current, left, minLeft)
                               /\ \A c \in Main : Run(bs[c], interval, current[c])
  BY <1>1, FramePushed DEF FramePush
<1>3. /\ Task /\ TaskRead /\ ReadOk
      /\ element' = IF copies = {} THEN Got ELSE [Got EXCEPT !.channel = Max(copies)]
  BY <1>1 DEF TaskFrame, TaskRead, InScan
<1>4. Got \in Elements /\ Got.buffer = Len(memory) + 1
  BY <1>1, <1>3, GotFrame
<1>5. /\ Types /\ Clocks /\ pc = "task" /\ pc' = "task" /\ interval' = interval
      /\ current \in [Channels -> Int] /\ left \in [Channels -> Int] /\ minLeft \in Int
  BY <1>1, <1>3, TaskState
<1>6. Clocks'
  BY <1>2, <1>5, PushKeepsClocks
<1>7. element' \in Elements /\ element'.buffer = Len(memory) + 1
  <2>1. CASE copies = {}
    BY <1>3, <1>4, <2>1
  <2>2. CASE copies # {}
    <3>1. copies \in SUBSET (1 .. LastThread) /\ LastThread \in Nat /\ copies \subseteq Channels
      BY ChannelSet DEF Duplicates
    <3>2. Max(copies) \in Channels
      BY <2>2, <3>1, MaxUpTo
    <3>3. PICK d \in Channels : element' = [Got EXCEPT !.channel = d]
      BY <1>3, <2>2, <3>2
    <3> QED BY <1>4, <3>3 DEF Elements
  <2> QED BY <2>1, <2>2
<1>8. TaskProduced
  BY <1>2, <1>5, <1>6, <1>7, PushTypes DEF TaskProduced
<1> QED BY <1>1, <1>3, <1>8, TaskReadKeeps

LEMMA IntervalDoneKeeps == FInv /\ IntervalDone => FInv'
<1>1. SUFFICES ASSUME FInv, IntervalDone PROVE FInv'
  OBVIOUS
<1>2. /\ Types /\ Clocks /\ pc = "task" /\ pc' = "fetch"
      /\ UNCHANGED <<recording, readerVars, isOpen, interval, timeVars, element, output>>
  BY <1>1 DEF FInv, IntervalDone
<1>3. Types'
  BY <1>2 DEF Types, readerVars, timeVars
<1>4. Clocks'
  BY <1>2 DEF Clocks, Consecutive, UpTo, timeVars
<1> QED BY <1>3, <1>4 DEF FInv

-----------------------------------------------------------------------------
LEMMA InitFInv == Init => FInv
<1>1. SUFFICES ASSUME Init PROVE FInv
  OBVIOUS
<1>2. recording \in Seq(Frames) /\ Len(recording) \in Nat /\ Len(Intervals) \in Nat
  BY <1>1, FormatReaderAssumption DEF Init
<1>3. element \in Elements /\ element.buffer = 1
  BY <1>1, ChannelSet DEF Init, Elements, NoTime
<1>4. Types
  <2>1. current \in [Channels -> Int] /\ left \in [Channels -> Int] /\ minLeft \in Int
    BY <1>1 DEF Init, NoTime
  <2>2. output \in [Channels -> Seq(Blocks)]
    BY <1>1 DEF Init
  <2>3. memory \in Seq(Nat) /\ Len(memory) = 1
    BY <1>1 DEF Init
  <2>4. pos \in 0 .. Len(recording) /\ interval \in 0 .. Len(Intervals) /\ recording \in Recordings
    BY <1>1, <1>2 DEF Init
  <2>5. isOpen \in BOOLEAN /\ ~isOpen
    BY <1>1 DEF Init
  <2>6. pc = "fetch"
    BY <1>1 DEF Init
  <2>7. pc \in {"fetch", "goto", "task"} /\ (pc = "goto" => isOpen) /\ (pc # "fetch" => interval > 0)
    BY <2>6
  <2>8. element.buffer \in 1 .. Len(memory)
    BY <1>3, <2>3
  <2> QED BY <1>3, <2>1, <2>2, <2>3, <2>4, <2>5, <2>7, <2>8 DEF Types
<1>5. Clocks
  BY <1>1 DEF Init, Clocks, Consecutive, UpTo, Main
<1> QED BY <1>4, <1>5 DEF FInv

LEMMA NextFInv == NoStrayCopies /\ FInv /\ [Next]_vars => FInv'
<1>1. SUFFICES ASSUME NoStrayCopies, FInv, [Next]_vars PROVE FInv'
  OBVIOUS
<1>2. CASE ReaderStep
  BY <1>1, <1>2, OpenFailsKeeps, OpenInputStreamKeeps, NextIntervalKeeps, GotoReadKeeps, GotoFailsKeeps,
     GotoDoneKeeps, TaskEofKeeps, TaskSkewKeeps, TaskReadFailsKeeps, TaskLeftKeeps, TaskFutureKeeps,
     TaskPastKeeps, TaskBeyondKeeps, TaskFrameKeeps, IntervalDoneKeeps DEF ReaderStep
<1>3. CASE UNCHANGED vars
  <2>1. Types'
    BY <1>1, <1>3 DEF FInv, Types, vars, readerVars, timeVars
  <2>2. Clocks'
    BY <1>1, <1>3 DEF FInv, Clocks, Consecutive, Before, UpTo, vars, timeVars
  <2> QED BY <2>1, <2>2 DEF FInv
<1> QED BY <1>1, <1>2, <1>3 DEF Next, Done

LEMMA FInvFollow == FInv => BlocksFollow
BY DEF FInv, Clocks, Consecutive, BlocksFollow

\* Whatever frames of the recording are missing, late, invalid, of a wrong time or of
\* another thread, the blocks that the reader pushes for a channel follow each other
\* within each interval, as the data writers count on
\* (Input_data_format_reader_tasklet::do_task, push_random_blocks).
THEOREM BlocksInOrder ==
  ASSUME NoStrayCopies
  PROVE  Spec => []BlocksFollow
<1>1. FInv /\ [Next]_vars => FInv'
  BY NextFInv
<1>2. Spec => []FInv
  BY <1>1, InitFInv, PTL DEF Spec
<1> QED BY <1>2, FInvFollow, PTL

-----------------------------------------------------------------------------
(***************************************************************************)
(* The data of the blocks.  Besides the blocks that are queued the proof   *)
(* has to follow the element in hand, whose buffer may be pushed again or  *)
(* read into when the next interval begins.                                *)
(***************************************************************************)

\* A block of channel c in the buffers m holds its frame, is marked invalid or early.
BlockOk(m, c, b) ==
  \/ b.invalid \/ b.start < Intervals[b.interval].start
  \/ /\ m[b.buffer] # 0
     /\ recording[m[b.buffer]].time = b.start
     /\ recording[m[b.buffer]].thread = Threads[c]

LastOf(s, i) == \A j \in i + 1 .. Len(s) : s[j].interval # s[i].interval

\* The blocks s of channel c, when interval k has begun and buffer buf is in hand.
QueueOk(m, s, c, buf, k) ==
  \A i \in DOMAIN s :
    /\ s[i].buffer \in 1 .. Len(m)
    /\ s[i].buffer = buf /\ ~s[i].invalid => LastOf(s, i)
    /\ BlockOk(m, c, s[i]) \/ (s[i].interval < k /\ LastOf(s, i))

\* The blocks s that one step pushes for channel c, in the buffer buf.
NewOk(m, s, c, buf, k) ==
  \A i \in DOMAIN s :
    /\ s[i].interval = k /\ s[i].buffer = buf
    /\ ~s[i].invalid => i = Len(s)
    /\ BlockOk(m, c, s[i])

Queues == \A c \in Main : QueueOk(memory, output[c], c, element.buffer, interval)

\* The stream has been opened by a read that found a frame.
Opened == isOpen => interval > 0 /\ \E w \in 1 .. pos : Wanted(recording[w])

\* The element in hand holds the frame that was read last.
Holds ==
  \/ element.invalid
  \/ /\ pos > 0 /\ memory[element.buffer] = pos
     /\ element.channel \in Main => recording[pos].thread = Threads[element.channel]

\* What the next interval finds in hand: that frame, of the time of its header, or
\* one from before the interval.  Within an interval an element may be given up.
Within == pc = "task" /\ \E c \in Channels : current[c] < Interval.stop
InHand ==
  /\ pc = "goto" => Holds \/ Header < Interval.start
  /\ pc # "goto" /\ isOpen /\ ~Within =>
       element.invalid \/ (element.start = Header /\ (Holds \/ Header < Interval.start))

HInv == FInv /\ Opened /\ InHand /\ Queues

\* All blocks are of earlier intervals: the buffer in hand may be read into.
LEMMA QueueRead ==
  ASSUME NEW m \in Seq(Nat), NEW m2 \in Seq(Nat), NEW s \in Seq(Blocks), NEW c, NEW buf \in Nat,
         NEW k \in Nat, NEW k2 \in Nat, QueueOk(m, s, c, buf, k), Before(s, k2),
         Len(m2) = Len(m), \A x \in 1 .. Len(m) : x # buf => m2[x] = m[x]
  PROVE  QueueOk(m2, s, c, buf, k2)
<1>1. SUFFICES ASSUME NEW i \in DOMAIN s
               PROVE  /\ s[i].buffer \in 1 .. Len(m2)
                      /\ s[i].buffer = buf /\ ~s[i].invalid => LastOf(s, i)
                      /\ BlockOk(m2, c, s[i]) \/ (s[i].interval < k2 /\ LastOf(s, i))
  BY DEF QueueOk
<1>2. /\ s[i].buffer \in 1 .. Len(m)
      /\ s[i].buffer = buf /\ ~s[i].invalid => LastOf(s, i)
      /\ BlockOk(m, c, s[i]) \/ (s[i].interval < k /\ LastOf(s, i))
  BY DEF QueueOk
<1>3. s[i].interval < k2
  BY DEF Before
<1>4. CASE s[i].buffer = buf /\ ~s[i].invalid
  BY <1>2, <1>3, <1>4
<1>5. CASE s[i].invalid
  BY <1>2, <1>5 DEF BlockOk
<1>6. CASE s[i].buffer # buf
  <2>1. m2[s[i].buffer] = m[s[i].buffer]
    BY <1>2, <1>6
  <2>2. BlockOk(m, c, s[i]) => BlockOk(m2, c, s[i])
    BY <2>1 DEF BlockOk
  <2> QED BY <1>2, <1>3, <2>2
<1> QED BY <1>4, <1>5, <1>6

\* Blocks of interval k leave the last block of an earlier one the last.
LEMMA LastStaysLast ==
  ASSUME NEW s \in Seq(Blocks), NEW bs \in Seq(Blocks), NEW k \in Nat,
         \A j \in DOMAIN bs : bs[j].interval = k,
         NEW i \in DOMAIN s, s[i].interval # k, LastOf(s, i)
  PROVE  LastOf(s \o bs, i)
<1> DEFINE t == s \o bs
           n == Len(s)
           m == Len(bs)
<1>1. n \in Nat /\ m \in Nat /\ Len(t) = n + m /\ i \in 1 .. n
  OBVIOUS
<1>2. \A j \in 1 .. n : t[j] = s[j]
  OBVIOUS
<1>3. \A j \in n + 1 .. n + m : t[j] = bs[j - n] /\ j - n \in DOMAIN bs
  OBVIOUS
<1>4. \A j \in i + 1 .. n : s[j].interval # s[i].interval
  BY DEF LastOf
<1> HIDE DEF t, n, m
<1>5. ASSUME NEW j \in i + 1 .. n + m PROVE t[j].interval # t[i].interval
  <2>1. t[i] = s[i]
    BY <1>1, <1>2
  <2>2. CASE j <= n
    <3>1. j \in i + 1 .. n /\ j \in 1 .. n
      BY <1>1, <2>2
    <3> QED BY <1>2, <1>4, <2>1, <3>1
  <2>3. CASE j > n
    <3>1. j \in n + 1 .. n + m
      BY <1>1, <2>3
    <3>2. t[j].interval = k
      BY <1>3, <3>1
    <3> QED BY <2>1, <3>2
  <2> QED BY <1>1, <2>2, <2>3
<1>6. LastOf(t, i)
  BY <1>1, <1>5 DEF LastOf
<1> QED BY <1>6 DEF t

\* A step within interval k pushes blocks in a new buffer.
LEMMA QueuePushed ==
  ASSUME NEW m \in Seq(Nat), NEW x \in Nat, NEW s \in Seq(Blocks), NEW bs \in Seq(Blocks), NEW c,
         NEW buf \in Nat, NEW k \in Nat, QueueOk(m, s, c, buf, k),
         \A i \in DOMAIN s : s[i].interval <= k,
         NewOk(Append(m, x), bs, c, Len(m) + 1, k)
  PROVE  QueueOk(Append(m, x), s \o bs, c, Len(m) + 1, k)
<1> DEFINE m2 == Append(m, x)
           t == s \o bs
           n == Len(s)
           d == Len(bs)
           new == Len(m) + 1
<1>1. n \in Nat /\ d \in Nat /\ DOMAIN t = 1 .. n + d /\ DOMAIN s = 1 .. n /\ DOMAIN bs = 1 .. d
      /\ Len(t) = n + d
  OBVIOUS
<1>2. \A j \in 1 .. n : t[j] = s[j]
  OBVIOUS
<1>3. \A j \in 1 .. d : t[n + j] = bs[j]
  OBVIOUS
<1>4. Len(m2) = Len(m) + 1 /\ new \notin 1 .. Len(m) /\ new \in 1 .. Len(m2) /\ Len(m) \in Nat
      /\ \A y \in 1 .. Len(m) : m2[y] = m[y]
  OBVIOUS
<1>5. \A j \in DOMAIN bs : bs[j].interval = k
  BY DEF NewOk
<1>6. \A i \in 1 .. n : LastOf(s, i) /\ s[i].interval # k => LastOf(t, i)
  BY <1>1, <1>5, LastStaysLast
<1>7. ASSUME NEW i \in 1 .. n
      PROVE  /\ t[i].buffer \in 1 .. Len(m2)
             /\ t[i].buffer = new /\ ~t[i].invalid => LastOf(t, i)
             /\ BlockOk(m2, c, t[i]) \/ (t[i].interval < k /\ LastOf(t, i))
  <2>1. /\ s[i].buffer \in 1 .. Len(m)
        /\ BlockOk(m, c, s[i]) \/ (s[i].interval < k /\ LastOf(s, i))
    BY <1>1 DEF QueueOk
  <2>5. s[i] = t[i] /\ s[i] \in Blocks
    BY <1>1, <1>2
  <2>2. s[i] = t[i] /\ s[i].interval \in Nat
    BY <2>5 DEF Blocks
  <2>3. BlockOk(m, c, s[i]) => BlockOk(m2, c, s[i])
    <3>1. m2[s[i].buffer] = m[s[i].buffer]
      BY <1>4, <2>1
    <3> QED BY <3>1 DEF BlockOk
  <2>4. s[i].buffer # new /\ s[i].buffer \in 1 .. Len(m2)
    BY <1>4, <2>1
  <2>6. s[i].interval < k /\ LastOf(s, i) => LastOf(t, i)
    <3>1. s[i].interval < k => s[i].interval # k
      BY <2>2
    <3> QED BY <1>6, <3>1
  <2>7. BlockOk(m2, c, s[i]) \/ (s[i].interval < k /\ LastOf(t, i))
    BY <2>1, <2>3, <2>6, Zenon
  <2> QED BY <2>2, <2>4, <2>7
<1>8. ASSUME NEW j \in 1 .. d
      PROVE  /\ t[n + j].buffer \in 1 .. Len(m2)
             /\ ~t[n + j].invalid => LastOf(t, n + j)
             /\ BlockOk(m2, c, t[n + j])
  <2>1. bs[j].buffer = new /\ (~bs[j].invalid => j = d) /\ BlockOk(m2, c, bs[j])
    BY <1>1 DEF NewOk
  <2>2. j = d => LastOf(t, n + j)
    BY <1>1 DEF LastOf
  <2> QED BY <1>3, <1>4, <2>1, <2>2
<1> HIDE DEF t, n, d, m2, new
<1>9. ASSUME NEW i \in 1 .. n + d, i \notin 1 .. n PROVE \E j \in 1 .. d : i = n + j
  <2>1. i - n \in 1 .. d /\ i = n + (i - n)
    BY <1>1, <1>9
  <2> QED BY <2>1
<1>10. QueueOk(m2, t, c, new, k)
  <2>1. SUFFICES ASSUME NEW i \in 1 .. n + d
                 PROVE  /\ t[i].buffer \in 1 .. Len(m2)
                        /\ t[i].buffer = new /\ ~t[i].invalid => LastOf(t, i)
                        /\ BlockOk(m2, c, t[i]) \/ (t[i].interval < k /\ LastOf(t, i))
    BY <1>1 DEF QueueOk
  <2>2. CASE i \in 1 .. n
    BY <1>7, <2>2
  <2>3. CASE i \notin 1 .. n
    <3>1. PICK j \in 1 .. d : i = n + j
      BY <1>9, <2>3
    <3> QED BY <1>8, <3>1
  <2> QED BY <2>2, <2>3
<1> QED BY <1>10 DEF t, m2, new

\* The first block of interval k is pushed in the buffer in hand.
LEMMA QueueStarted ==
  ASSUME NEW m \in Seq(Nat), NEW s \in Seq(Blocks), NEW b \in Blocks, NEW c, NEW buf \in 1 .. Len(m),
         NEW k \in Nat, QueueOk(m, s, c, buf, k), Before(s, k),
         b.interval = k, b.buffer = buf, BlockOk(m, c, b)
  PROVE  QueueOk(m, s \o <<b>>, c, buf, k)
<1> DEFINE t == s \o <<b>>
           n == Len(s)
           one == <<b>>
<1>1. n \in Nat /\ DOMAIN t = 1 .. n + 1 /\ DOMAIN s = 1 .. n /\ Len(t) = n + 1 /\ t[n + 1] = b
  OBVIOUS
<1>2. \A j \in 1 .. n : t[j] = s[j] /\ s[j] \in Blocks
  OBVIOUS
<1>3. one \in Seq(Blocks) /\ \A j \in DOMAIN one : one[j].interval = k
  OBVIOUS
<1>4. \A i \in 1 .. n : s[i].interval \in Nat /\ s[i].interval < k /\ s[i].interval # k
  BY <1>1, <1>2 DEF Before, Blocks
<1> HIDE DEF one
<1>5. \A i \in 1 .. n : LastOf(s, i) => LastOf(s \o one, i)
  BY <1>1, <1>3, <1>4, LastStaysLast
<1>6. \A i \in 1 .. n : LastOf(s, i) => LastOf(t, i)
  BY <1>5 DEF one
<1>7. LastOf(t, n + 1)
  BY <1>1 DEF LastOf
<1> HIDE DEF t, n
<1>8. SUFFICES ASSUME NEW i \in 1 .. n + 1
               PROVE  /\ t[i].buffer \in 1 .. Len(m)
                      /\ t[i].buffer = buf /\ ~t[i].invalid => LastOf(t, i)
                      /\ BlockOk(m, c, t[i]) \/ (t[i].interval < k /\ LastOf(t, i))
  BY <1>1 DEF QueueOk, t
<1>9. CASE i \in 1 .. n
  <2>1. /\ s[i].buffer \in 1 .. Len(m)
        /\ s[i].buffer = buf /\ ~s[i].invalid => LastOf(s, i)
        /\ BlockOk(m, c, s[i]) \/ (s[i].interval < k /\ LastOf(s, i))
    BY <1>1, <1>9 DEF QueueOk
  <2>2. t[i] = s[i]
    BY <1>2, <1>9
  <2> QED BY <1>6, <1>9, <2>1, <2>2
<1>10. CASE i = n + 1
  BY <1>1, <1>7, <1>10
<1>11. i \in 1 .. n \/ i = n + 1
  BY <1>1, <1>8
<1> QED BY <1>9, <1>10, <1>11

-----------------------------------------------------------------------------
\* What a read does to the buffers.
LEMMA ReadBuffers ==
  ASSUME Types, Read(element)
  PROVE  /\ pos' = LastRead /\ memory' \in Seq(Nat) /\ Len(memory') = Len(memory)
         /\ \A x \in 1 .. Len(memory) : x # element.buffer => memory'[x] = memory[x]
         /\ LastRead > pos => memory'[element.buffer] = LastRead
<1>1. memory' \in Seq(Nat) /\ Len(memory') = Len(memory) /\ pos' = LastRead
  BY ReadTypes DEF Read
<1>2. memory \in Seq(Nat) /\ element.buffer \in 1 .. Len(memory)
  BY DEF Types
<1>3. CASE LastRead > pos
  <2>1. memory' = [memory EXCEPT ![element.buffer] = LastRead]
    BY <1>3 DEF Read
  <2> QED BY <1>1, <1>2, <1>3, <2>1
<1>4. CASE ~(LastRead > pos)
  BY <1>1, <1>4 DEF Read
<1> QED BY <1>3, <1>4

\* The frame of an element that has just been filled is the one of its channel.
LEMMA FilledHolds ==
  ASSUME Types, ReadOk, NEW e \in Elements, ~Filled(e).invalid
  PROVE  recording[ReadTo].thread = Threads[Filled(e).channel]
<1> DEFINE f == recording[ReadTo]
<1>1. f \in Frames /\ Wanted(f)
  BY ReadResult
<1>2. Filled(e).channel = ChannelOf(f)
  BY FilledType
<1>3. ~f.invalid
  BY DEF Filled, Elements
<1> HIDE DEF f
<1>4. PICK c \in Channels : Threads[c] = f.thread
  BY <1>1, <1>3 DEF Wanted
<1>5. ChannelOf(f) = MainChannel(Threads[c])
  BY <1>4 DEF ChannelOf
<1>6. Threads[MainChannel(Threads[c])] = Threads[c]
  BY MainOfThread
<1> QED BY <1>2, <1>4, <1>5, <1>6 DEF f

\* A wanted frame that has been read stays behind.
LEMMA OpenedLater ==
  ASSUME Types, Opened, isOpen, pos' \in pos .. Len(recording), interval' = interval \/ interval' = interval + 1
  PROVE  interval' > 0 /\ \E w \in 1 .. pos' : Wanted(recording[w])
<1>1. PICK w \in 1 .. pos : Wanted(recording[w])
  BY DEF Opened
<1>2. w \in 1 .. pos' /\ interval \in Nat /\ interval > 0
  BY DEF Types, Opened
<1> QED BY <1>1, <1>2

LEMMA QueuesAfter ==
  ASSUME recording' = recording,
         \A c \in Main : QueueOk(memory', output'[c], c, element'.buffer, interval')
  PROVE  Queues'
BY DEF Queues, QueueOk, BlockOk, LastOf

\* The queues when the next interval has begun.
LEMMA FetchedQueues ==
  ASSUME HInv, Fetch, memory' \in Seq(Nat), Len(memory') = Len(memory),
         \A x \in 1 .. Len(memory) : x # element.buffer => memory'[x] = memory[x]
  PROVE  \A c \in Main : QueueOk(memory', output[c], c, element.buffer, interval')
<1>1. TAKE c \in Main
<1>2. FInv /\ Types /\ QueueOk(memory, output[c], c, element.buffer, interval)
  BY DEF HInv, FInv, Queues
<1>3. Before(output[c], interval') /\ interval' \in Nat
  BY <1>2, FetchedInterval
<1>4. memory \in Seq(Nat) /\ output[c] \in Seq(Blocks) /\ element.buffer \in Nat /\ interval \in Nat
  BY <1>2 DEF Types, Elements, Main
<1> QED BY <1>2, <1>3, <1>4, QueueRead

\* The queues of an interval that has begun, while the reader goes to its start.
LEMMA GotoQueues ==
  ASSUME HInv, pc = "goto", interval' = interval, memory' \in Seq(Nat), Len(memory') = Len(memory),
         \A x \in 1 .. Len(memory) : x # element.buffer => memory'[x] = memory[x]
  PROVE  \A c \in Main : QueueOk(memory', output[c], c, element.buffer, interval')
<1>1. TAKE c \in Main
<1>2. FInv /\ Types /\ QueueOk(memory, output[c], c, element.buffer, interval)
  BY DEF HInv, FInv, Queues
<1>3. Before(output[c], interval')
  BY <1>2, GotoState
<1>4. /\ memory \in Seq(Nat) /\ output[c] \in Seq(Blocks) /\ element.buffer \in Nat
      /\ interval \in Nat /\ interval' \in Nat
  BY <1>2 DEF Types, Elements, Main
<1> QED BY <1>2, <1>3, <1>4, QueueRead

\* The element e that a new interval starts with: its block is as it should be.
StartOk(e) ==
  \/ e.invalid \/ e.start < Intervals[interval'].start
  \/ /\ memory'[e.buffer] # 0
     /\ recording[memory'[e.buffer]].time = e.start
     /\ e.channel \in Main => recording[memory'[e.buffer]].thread = Threads[e.channel]

LEMMA StartAtQueues ==
  ASSUME Types, memory' \in Seq(Nat), Len(memory') = Len(memory), recording' = recording,
         interval' \in DOMAIN Intervals,
         \A c \in Main : /\ QueueOk(memory', output[c], c, element.buffer, interval')
                         /\ Before(output[c], interval'),
         NEW e \in Elements, e.buffer = element.buffer, StartOk(e),
         NEW time \in Int, StartAt(time, e)
  PROVE  Queues' /\ element' = e
<1>1. element' = e /\ output' = [c \in Channels |-> output[c] \o InChannel(e.channel, <<Block(e)>>)[c]]
  BY DEF StartAt, Push
<1>2. PICK k \in DOMAIN Intervals : k = interval'
  OBVIOUS
<1>3. k \in Nat
  BY IntervalTypes
<1>4. PICK b \in Blocks : /\ b = Block(e) /\ b.interval = k /\ b.start = e.start /\ b.invalid = e.invalid
                          /\ b.buffer = e.buffer
  <2>1. Block(e) = [start |-> e.start, invalid |-> e.invalid, buffer |-> e.buffer, interval |-> k]
    BY <1>2 DEF Block
  <2>2. e.start \in Int /\ e.invalid \in BOOLEAN /\ e.buffer \in Nat
    BY DEF Elements
  <2>3. Block(e) \in Blocks
    BY <1>3, <2>1, <2>2 DEF Blocks
  <2> QED BY <2>1, <2>3
<1>5. \A c \in Channels : output'[c] = output[c] \o (IF c = e.channel THEN <<b>> ELSE <<>>)
  BY <1>1, <1>4 DEF InChannel
<1>6. PICK buf \in 1 .. Len(memory') : buf = element.buffer
  BY DEF Types
<1>7. ASSUME NEW c \in Main PROVE QueueOk(memory', output'[c], c, buf, k)
  <2>1. /\ c \in Channels /\ output[c] \in Seq(Blocks)
        /\ QueueOk(memory', output[c], c, buf, k) /\ Before(output[c], k)
    BY <1>2, <1>6 DEF Main, Types
  <2>2. CASE c = e.channel
    <3>1. BlockOk(memory', c, b)
      BY <1>2, <1>4, <2>2 DEF BlockOk, StartOk
    <3>2. output'[c] = output[c] \o <<b>>
      BY <1>5, <2>1, <2>2
    <3>3. b.buffer = buf /\ b.interval = k
      BY <1>4, <1>6
    <3> QED BY <1>3, <2>1, <3>1, <3>2, <3>3, QueueStarted
  <2>3. CASE c # e.channel
    <3>1. output'[c] = output[c] \o <<>>
      BY <1>5, <2>1, <2>3
    <3>2. output'[c] = output[c]
      BY <2>1, <3>1
    <3> QED BY <2>1, <3>2
  <2> QED BY <2>2, <2>3
<1>8. element'.buffer = buf
  BY <1>1, <1>6
<1>9. \A c \in Main : QueueOk(memory', output'[c], c, element'.buffer, interval')
  BY <1>2, <1>7, <1>8
<1> QED BY <1>1, <1>9, QueuesAfter

LEMMA StartWithQueues ==
  ASSUME Types, memory' \in Seq(Nat), Len(memory') = Len(memory), recording' = recording,
         interval' \in DOMAIN Intervals,
         \A c \in Main : /\ QueueOk(memory', output[c], c, element.buffer, interval')
                         /\ Before(output[c], interval'),
         NEW e \in Elements, e.buffer = element.buffer, StartOk(e),
         NEW time \in Int, StartWith(time, e)
  PROVE  Queues' /\ (element' = e \/ element'.invalid)
<1>1. PICK k \in DOMAIN Intervals : k = interval'
  OBVIOUS
<1>2. Intervals[k].stop \in Nat
  BY IntervalTypes
<1> DEFINE stop == Intervals[interval'].stop
           late == [e EXCEPT !.start = stop - 1, !.channel = 1, !.invalid = TRUE]
<1>3. stop - 1 \in Int
  BY <1>1, <1>2
<1>4. CASE time > stop
  <2>1. StartAt(stop - 1, late)
    BY <1>4 DEF StartWith
  <2>2. late \in Elements /\ late.buffer = element.buffer /\ late.invalid
    BY <1>3, ChannelSet DEF Elements
  <2>3. StartOk(late)
    BY <2>2 DEF StartOk
  <2> HIDE DEF late, stop
  <2> QED BY <1>3, <2>1, <2>2, <2>3, StartAtQueues
<1>5. CASE ~(time > stop)
  <2>1. StartAt(time, e)
    BY <1>5 DEF StartWith
  <2> QED BY <2>1, StartAtQueues
<1> QED BY <1>4, <1>5

-----------------------------------------------------------------------------
\* The steps at the start of an interval.

LEMMA OpenFailsHolds ==
  ASSUME HInv, OpenFails
  PROVE  Opened' /\ InHand' /\ Queues'
<1>1. Fetch /\ FInv /\ Types /\ Read(element)
  BY DEF OpenFails, HInv, FInv
<1>2. ~isOpen /\ isOpen' = isOpen /\ pc' = "task" /\ recording' = recording /\ element' = element
      /\ output' = output
  BY DEF OpenFails
<1>3. Opened' /\ InHand'
  BY <1>2 DEF Opened, InHand
<1>4. \A c \in Main : QueueOk(memory', output[c], c, element.buffer, interval')
  BY <1>1, ReadBuffers, FetchedQueues
<1>5. Queues'
  BY <1>2, <1>4, QueuesAfter
<1> QED BY <1>3, <1>5

LEMMA ReadFills ==
  ASSUME Types, Read(element), ReadOk
  PROVE  /\ memory' \in Seq(Nat) /\ Len(memory') = Len(memory)
         /\ \A x \in 1 .. Len(memory) : x # element.buffer => memory'[x] = memory[x]
         /\ pos' = ReadTo /\ memory'[element.buffer] = ReadTo /\ ReadTo > 0
         /\ pos' \in pos .. Len(recording) /\ ReadTo \in DOMAIN recording /\ Wanted(recording[ReadTo])
<1>1. /\ LastRead = ReadTo /\ LastRead > pos /\ LastRead \in pos .. Len(recording)
      /\ ReadTo \in DOMAIN recording /\ Wanted(recording[ReadTo])
  BY ReadResult
<1>2. /\ pos' = LastRead /\ memory' \in Seq(Nat) /\ Len(memory') = Len(memory)
      /\ \A x \in 1 .. Len(memory) : x # element.buffer => memory'[x] = memory[x]
      /\ LastRead > pos => memory'[element.buffer] = LastRead
  BY ReadBuffers
<1>3. pos \in Nat /\ LastRead \in Int
  BY <1>1 DEF Types
<1>4. ReadTo > 0
  BY <1>1, <1>3
<1> QED BY <1>1, <1>2, <1>4

LEMMA OpenInputStreamHolds ==
  ASSUME HInv, OpenInputStream
  PROVE  Opened' /\ InHand' /\ Queues'
<1>1. Fetch /\ FInv /\ Types /\ Read(element) /\ ReadOk
  BY DEF OpenInputStream, HInv, FInv
<1>2. isOpen' = TRUE /\ recording' = recording
  BY DEF OpenInputStream
<1>3. /\ interval' \in DOMAIN Intervals /\ interval' > 0
      /\ \A c \in Main : Before(output[c], interval')
  BY <1>1, FetchedInterval
<1>4. /\ memory' \in Seq(Nat) /\ Len(memory') = Len(memory)
      /\ \A x \in 1 .. Len(memory) : x # element.buffer => memory'[x] = memory[x]
      /\ pos' = ReadTo /\ memory'[element.buffer] = ReadTo /\ ReadTo > 0
      /\ ReadTo \in DOMAIN recording /\ Wanted(recording[ReadTo])
  BY <1>1, ReadFills
<1>5. element \in Elements
  BY <1>1 DEF Types
<1>6. PICK e \in Elements : /\ e = Filled(element) /\ e.buffer = element.buffer
                            /\ e.start = recording[ReadTo].time /\ e.start \in Int
                            /\ e.invalid \/ recording[ReadTo].thread = Threads[e.channel]
  <2>1. Filled(element) \in Elements /\ Filled(element).buffer = element.buffer
    BY <1>1, <1>5, FilledType
  <2>2. Filled(element).start = recording[ReadTo].time /\ recording[ReadTo].time \in Nat
    BY <1>1, <1>2, <1>5, FilledType
  <2>3. Filled(element).invalid \/ recording[ReadTo].thread = Threads[Filled(element).channel]
    BY <1>1, <1>5, FilledHolds
  <2> QED BY <2>1, <2>2, <2>3
<1>7. Opened'
  <2>1. ReadTo \in 1 .. ReadTo
    BY <1>1, <1>4, ReadResult
  <2> QED BY <1>2, <1>3, <1>4, <2>1 DEF Opened, Wanted
<1>8. \A c \in Main : QueueOk(memory', output[c], c, element.buffer, interval')
  BY <1>1, <1>4, FetchedQueues
<1>9. CASE pc' = "task" /\ StartWith(recording[ReadTo].time, e)
  <2>1. StartOk(e)
    BY <1>4, <1>6 DEF StartOk
  <2>2. Queues' /\ (element' = e \/ element'.invalid)
    <3>1. PICK time \in Int : time = recording[ReadTo].time
      BY <1>6
    <3>2. StartWith(time, e)
      BY <1>9, <3>1
    <3> QED BY <1>1, <1>2, <1>3, <1>4, <1>6, <1>8, <2>1, <3>2, StartWithQueues
  <2>3. element' = e => Holds' /\ element'.start = Header'
    BY <1>2, <1>4, <1>6 DEF Holds, Header
  <2>4. InHand'
    BY <1>9, <2>2, <2>3 DEF InHand
  <2> QED BY <1>7, <2>2, <2>4
<1>10. CASE pc' = "goto" /\ element' = e /\ output' = output
  <2>1. Holds'
    BY <1>2, <1>4, <1>6, <1>10 DEF Holds
  <2>2. InHand'
    BY <1>10, <2>1 DEF InHand
  <2>3. Queues'
    BY <1>2, <1>6, <1>8, <1>10, QueuesAfter
  <2> QED BY <1>7, <2>2, <2>3
<1> QED BY <1>6, <1>9, <1>10 DEF OpenInputStream

LEMMA NextIntervalHolds ==
  ASSUME HInv, NextInterval
  PROVE  Opened' /\ InHand' /\ Queues'
<1>1. Fetch /\ FInv /\ Types /\ Opened /\ InHand /\ pc = "fetch"
  BY DEF NextInterval, Fetch, HInv, FInv
<1>2. isOpen /\ isOpen' = isOpen /\ recording' = recording /\ pos' = pos /\ memory' = memory
  BY DEF NextInterval, readerVars
<1>3. /\ interval' \in DOMAIN Intervals /\ interval' > 0 /\ interval' = interval + 1
      /\ \A c \in Main : Before(output[c], interval')
  BY <1>1, FetchedInterval DEF Fetch
<1>4. memory \in Seq(Nat) /\ element \in Elements /\ element.start \in Int
      /\ pos \in pos .. Len(recording) /\ pos > 0
  BY <1>1, <1>2 DEF Types, Elements
<1>5. interval > 0 /\ interval' > 0 /\ \E w \in 1 .. pos' : Wanted(recording[w])
  <2>1. interval > 0
    BY <1>1, <1>2 DEF Opened
  <2>2. pos' \in pos .. Len(recording)
    BY <1>2, <1>4
  <2> QED BY <1>1, <1>2, <1>3, <2>1, <2>2, OpenedLater
<1>6. Opened'
  BY <1>2, <1>5 DEF Opened, Wanted
<1>7. \A c \in Main : QueueOk(memory', output[c], c, element.buffer, interval')
  BY <1>1, <1>2, <1>4, FetchedQueues
<1>8. PICK k \in DOMAIN Intervals : k = interval' /\ interval = k - 1 /\ k > 1
  BY <1>1, <1>3, <1>5 DEF Types
<1>9. Intervals[k - 1].start < Intervals[k].start /\ Intervals[k].start \in Nat /\ Intervals[k - 1].start \in Nat
  <2>1. k - 1 \in DOMAIN Intervals
    BY <1>8, FormatReaderAssumption
  <2> QED BY <1>8, <2>1, IntervalTypes, FormatReaderAssumption
<1>10. element.invalid \/ (element.start = Header /\ (Holds \/ Header < Intervals[k - 1].start))
  BY <1>1, <1>2, <1>8 DEF InHand, Within, Interval
<1>11. CASE Intervals[interval'].start <= element.start /\ StartWith(element.start, element) /\ pc' = "task"
  <2>1. element.invalid \/ (element.start = Header /\ Holds)
    BY <1>4, <1>8, <1>9, <1>10, <1>11
  <2>2. StartOk(element)
    BY <1>2, <1>4, <2>1 DEF StartOk, Holds, Header
  <2>3. Queues' /\ (element' = element \/ element'.invalid)
    <3>1. PICK time \in Int : time = element.start
      BY <1>4
    <3>2. StartWith(time, element)
      BY <1>11, <3>1
    <3> QED BY <1>1, <1>2, <1>3, <1>4, <1>7, <2>2, <3>2, StartWithQueues
  <2>4. element' = element => element'.invalid \/ (Holds' /\ element'.start = Header')
    BY <1>2, <2>1 DEF Holds, Header
  <2>5. InHand'
    BY <1>11, <2>3, <2>4 DEF InHand
  <2> QED BY <1>6, <2>3, <2>5
<1>12. CASE Intervals[interval'].start > element.start /\ pc' = "goto" /\ element' = element /\ output' = output
  <2>1. Holds \/ Header < Intervals[k].start
    BY <1>4, <1>8, <1>10, <1>12 DEF Holds
  <2>2. (Holds \/ Header < Interval.start)'
    BY <1>2, <1>8, <1>12, <2>1 DEF Holds, Header, Interval
  <2>3. InHand'
    BY <1>12, <2>2 DEF InHand
  <2>4. Queues'
    BY <1>2, <1>7, <1>12, QueuesAfter
  <2> QED BY <1>6, <2>3, <2>4
<1> QED BY <1>11, <1>12 DEF NextInterval

LEMMA GotoReadHolds ==
  ASSUME HInv, GotoRead
  PROVE  Opened' /\ InHand' /\ Queues'
<1>1. /\ FInv /\ Types /\ Opened /\ Read(element) /\ ReadOk /\ pc = "goto" /\ pc' = pc
      /\ interval' = interval /\ isOpen' = isOpen /\ recording' = recording /\ output' = output
      /\ element' = Filled(element)
  BY DEF GotoRead, timeVars, HInv, FInv
<1>2. isOpen /\ interval \in Nat /\ interval > 0
  BY <1>1, GotoState DEF Types, Opened
<1>3. /\ memory' \in Seq(Nat) /\ Len(memory') = Len(memory)
      /\ \A x \in 1 .. Len(memory) : x # element.buffer => memory'[x] = memory[x]
      /\ pos' = ReadTo /\ memory'[element.buffer] = ReadTo /\ ReadTo > 0 /\ pos' \in pos .. Len(recording)
  BY <1>1, ReadFills
<1>4. element \in Elements
  BY <1>1 DEF Types
<1>5. PICK e \in Elements : /\ e = element' /\ e.buffer = element.buffer
                            /\ e.invalid \/ recording[ReadTo].thread = Threads[e.channel]
  BY <1>1, <1>4, FilledType, FilledHolds
<1>6. Opened'
  <2>1. interval' > 0 /\ \E w \in 1 .. pos' : Wanted(recording[w])
    BY <1>1, <1>2, <1>3, OpenedLater
  <2> QED BY <1>1, <2>1 DEF Opened, Wanted
<1>7. Holds'
  BY <1>1, <1>3, <1>5 DEF Holds
<1>8. InHand'
  BY <1>1, <1>7 DEF InHand
<1>9. \A c \in Main : QueueOk(memory', output[c], c, element.buffer, interval')
  BY <1>1, <1>3, GotoQueues
<1>10. Queues'
  BY <1>1, <1>5, <1>9, QueuesAfter
<1> QED BY <1>6, <1>8, <1>10

\* The start of the interval has been reached, or the search for it was given up.
LEMMA ReachedHolds ==
  ASSUME HInv, pc = "goto", pc' = "task", interval' = interval, isOpen' = isOpen, recording' = recording,
         pos' \in pos .. Len(recording), memory' \in Seq(Nat), Len(memory') = Len(memory),
         \A x \in 1 .. Len(memory) : x # element.buffer => memory'[x] = memory[x],
         StartWith(ReachedTime(recording[pos'].time), [element EXCEPT !.start = recording[pos'].time]),
         recording[pos'].time < Intervals[interval].start
           \/ (pos' = pos /\ memory' = memory /\ Holds)
  PROVE  Opened' /\ InHand' /\ Queues'
<1>1. /\ FInv /\ Types /\ Opened /\ isOpen /\ interval' \in DOMAIN Intervals /\ pos > 0
      /\ recording[pos'].time \in Int
      /\ \A c \in Main : Before(output[c], interval')
  BY GotoState DEF HInv, FInv
<1>2. PICK e \in Elements : /\ e = [element EXCEPT !.start = recording[pos'].time]
                            /\ e.start = recording[pos'].time /\ e.buffer = element.buffer
                            /\ e.channel = element.channel /\ e.invalid = element.invalid
  <2>1. PICK t \in Int : t = recording[pos'].time
    BY <1>1
  <2>2. element \in Elements
    BY <1>1 DEF Types
  <2>3. /\ [element EXCEPT !.start = t] \in Elements /\ [element EXCEPT !.start = t].start = t
        /\ [element EXCEPT !.start = t].buffer = element.buffer
        /\ [element EXCEPT !.start = t].channel = element.channel
        /\ [element EXCEPT !.start = t].invalid = element.invalid
    BY <2>2 DEF Elements
  <2> QED BY <2>1, <2>3
<1>3. PICK time \in Int : time = ReachedTime(recording[pos'].time)
  <2>1. Interval.start \in Int
    BY <1>1, IntervalTypes DEF Interval
  <2> QED BY <1>1, <2>1 DEF ReachedTime
<1>4. \A c \in Main : QueueOk(memory', output[c], c, element.buffer, interval')
  BY GotoQueues
<1>5. Opened'
  <2>1. interval' > 0 /\ \E w \in 1 .. pos' : Wanted(recording[w])
    BY <1>1, OpenedLater
  <2> QED BY <2>1 DEF Opened, Wanted
<1>6. StartOk(e)
  <2>1. CASE recording[pos'].time < Intervals[interval].start
    BY <1>2, <2>1 DEF StartOk
  <2>2. CASE pos' = pos /\ memory' = memory /\ Holds
    BY <1>1, <1>2, <2>2 DEF StartOk, Holds
  <2> QED BY <2>1, <2>2
<1>7. Queues' /\ (element' = e \/ element'.invalid)
  <2>1. StartWith(time, e)
    BY <1>2, <1>3
  <2> QED BY <1>1, <1>2, <1>4, <1>6, <2>1, StartWithQueues
<1>8. element' = e => element'.invalid \/ (element'.start = Header' /\ (Holds \/ Header < Interval.start)')
  <2>1. Header' = recording[pos'].time /\ Interval' = Intervals[interval]
    BY DEF Header, Interval
  <2>2. CASE recording[pos'].time < Intervals[interval].start
    BY <1>2, <2>1, <2>2
  <2>3. CASE pos' = pos /\ memory' = memory /\ Holds
    <3>1. element' = e => Holds'
      BY <1>2, <2>3 DEF Holds
    <3> QED BY <1>2, <2>1, <3>1
  <2> QED BY <2>2, <2>3
<1>9. InHand'
  BY <1>7, <1>8 DEF InHand
<1> QED BY <1>5, <1>7, <1>9

LEMMA GotoDoneHolds ==
  ASSUME HInv, GotoDone
  PROVE  Opened' /\ InHand' /\ Queues'
<1>1. /\ pc = "goto" /\ pc' = "task" /\ interval' = interval /\ isOpen' = isOpen /\ recording' = recording
      /\ pos' = pos /\ memory' = memory /\ Interval.start <= Header
      /\ StartWith(ReachedTime(Header), [element EXCEPT !.start = Header])
  BY DEF GotoDone, readerVars
<1>2. FInv /\ Types /\ InHand
  BY DEF HInv, FInv
<1>3. pos \in pos .. Len(recording) /\ memory \in Seq(Nat) /\ Header \in Int
  BY <1>1, <1>2, GotoState DEF Types, Header
<1>4. Interval.start \in Int
  BY <1>1, <1>2, GotoState, IntervalTypes DEF Interval
<1>5. Holds
  BY <1>1, <1>2, <1>3, <1>4 DEF InHand
<1>6. Header = recording[pos'].time
  BY <1>1 DEF Header
<1> QED BY <1>1, <1>3, <1>5, <1>6, ReachedHolds

\* A read that fails has passed over unwanted frames only, up to the end or MaxRestarts
\* of them and one more.
LEMMA GaveUp ==
  ASSUME Types, ~ReadOk
  PROVE  /\ LastRead > pos => LastRead = Len(recording) \/ LastRead = pos + MaxRestarts + 1
         /\ \A x \in pos + 1 .. LastRead : ~Wanted(recording[x])
<1> DEFINE all == Candidates \cup {Len(recording) + 1, pos + MaxRestarts + 1}
<1>1. recording \in Seq(Frames) /\ pos \in Nat /\ Len(recording) \in Nat /\ pos <= Len(recording)
  BY ReadResult DEF Types
<1>2. MaxRestarts \in Nat
  BY FormatReaderAssumption
<1>3. all \in SUBSET Nat /\ all # {}
  BY <1>1, <1>2 DEF Candidates
<1>4. ReadTo \in all /\ \A y \in all : ReadTo <= y
  BY <1>3, MinNatural DEF ReadTo
<1>5. ReadTo \in Nat /\ ReadTo <= Len(recording) + 1 /\ ReadTo <= pos + MaxRestarts + 1
  BY <1>3, <1>4
<1>6. ReadTo <= Len(recording) => ~Wanted(recording[ReadTo])
  BY <1>1, <1>5 DEF ReadOk, ReadAtEnd
<1>7. ReadTo = Len(recording) + 1 \/ ReadTo = pos + MaxRestarts + 1
  BY <1>4, <1>6 DEF Candidates
<1>8. LastRead = IF ReadTo <= Len(recording) THEN ReadTo ELSE Len(recording)
  BY <1>1, <1>5, MinOfTwo DEF LastRead
<1>9. ASSUME NEW x \in pos + 1 .. LastRead PROVE ~Wanted(recording[x])
  <2>1. x \in Nat /\ pos + 1 <= x /\ x <= Len(recording) /\ x <= ReadTo
    BY <1>1, <1>5, <1>8
  <2>2. CASE x = ReadTo
    BY <1>6, <2>1, <2>2
  <2>3. CASE x < ReadTo
    <3>1. x \in pos + 1 .. pos + MaxRestarts
      BY <1>1, <1>2, <1>5, <2>1, <2>3
    <3>2. Wanted(recording[x]) => x \in all
      BY <2>1, <3>1 DEF Candidates
    <3>3. ~(ReadTo <= x)
      BY <1>5, <2>1, <2>3
    <3> QED BY <1>4, <3>2, <3>3
  <2> QED BY <1>5, <2>1, <2>2, <2>3
<1>10. LastRead > pos => LastRead = Len(recording) \/ LastRead = pos + MaxRestarts + 1
  BY <1>1, <1>2, <1>5, <1>7, <1>8
<1> QED BY <1>9, <1>10

LEMMA GotoFailsHolds ==
  ASSUME GivesUpEarly, HInv, GotoFails
  PROVE  Opened' /\ InHand' /\ Queues'
<1>1. /\ pc = "goto" /\ pc' = "task" /\ interval' = interval /\ isOpen' = isOpen /\ recording' = recording
      /\ Interval.start > Header /\ ~ReadOk /\ Read(element)
      /\ StartWith(ReachedTime(recording[LastRead].time),
                   [element EXCEPT !.start = recording[LastRead].time])
  BY DEF GotoFails
<1>2. FInv /\ Types /\ Opened
  BY DEF HInv, FInv
<1>3. /\ pos' = LastRead /\ memory' \in Seq(Nat) /\ Len(memory') = Len(memory)
      /\ \A x \in 1 .. Len(memory) : x # element.buffer => memory'[x] = memory[x]
  BY <1>1, <1>2, ReadBuffers
<1>4. /\ LastRead \in pos .. Len(recording) /\ pos \in Nat /\ pos > 0 /\ isOpen
      /\ interval \in DOMAIN Intervals /\ recording \in Recordings /\ recording \in Seq(Frames)
  BY <1>1, <1>2, ReadResult, GotoState DEF Types
<1>5. Header < Intervals[interval].start
  <2>1. Header \in Int
    BY <1>1, <1>2, <1>4, GotoState DEF Header
  <2>2. Interval.start \in Int
    BY <1>4, IntervalTypes DEF Interval
  <2> QED BY <1>1, <2>1, <2>2 DEF Interval
<1>6. recording[LastRead].time < Intervals[interval].start
  <2>1. CASE LastRead = pos
    BY <1>5, <2>1 DEF Header
  <2>2. CASE LastRead > pos
    <3>1. /\ LastRead = Len(recording) \/ LastRead = pos + MaxRestarts + 1
          /\ \A x \in pos + 1 .. LastRead : ~Wanted(recording[x])
      BY <1>1, <1>2, <2>2, GaveUp
    <3>2. \E w \in 1 .. pos : Wanted(recording[w])
      BY <1>2, <1>4 DEF Opened
    <3>3. pos \in DOMAIN recording /\ LastRead \in DOMAIN recording /\ pos < LastRead
      BY <1>4, <2>2
    <3>4. recording[pos].time < Intervals[interval].start
      BY <1>5 DEF Header
    <3> QED BY <1>4, <3>1, <3>2, <3>3, <3>4 DEF GivesUpEarly
  <2>3. LastRead = pos \/ LastRead > pos
    BY <1>4
  <2> QED BY <2>1, <2>2, <2>3
<1>7. StartWith(ReachedTime(recording[pos'].time), [element EXCEPT !.start = recording[pos'].time])
  BY <1>1, <1>3
<1> QED BY <1>1, <1>3, <1>4, <1>6, <1>7, ReachedHolds

-----------------------------------------------------------------------------
\* The steps of do_task: each pushes blocks in a buffer that is new.

LEMMA TaskOpened ==
  ASSUME HInv, Task, pos' \in pos .. Len(recording)
  PROVE  Opened'
<1>1. Types /\ Opened /\ isOpen' = isOpen /\ recording' = recording /\ interval' = interval
  BY DEF HInv, FInv, Task
<1>2. isOpen => interval' > 0 /\ \E w \in 1 .. pos' : Wanted(recording[w])
  BY <1>1, OpenedLater
<1> QED BY <1>1, <1>2 DEF Opened, Wanted

LEMMA TaskQueues ==
  ASSUME HInv, Task, NEW x \in Nat, memory' = Append(memory, x),
         element'.buffer = Len(memory) + 1,
         NEW bs \in BlockLists, Push(bs, current, left, minLeft),
         \A c \in Main : NewOk(Append(memory, x), bs[c], c, Len(memory) + 1, interval)
  PROVE  Queues'
<1>1. /\ FInv /\ Types /\ Clocks /\ Queues /\ pc = "task" /\ interval' = interval /\ recording' = recording
      /\ current \in [Channels -> Int] /\ left \in [Channels -> Int] /\ minLeft \in Int
  BY TaskState DEF HInv, FInv, Task
<1>2. \A c \in Channels : output'[c] = output[c] \o bs[c]
  BY <1>1, PushTypes
<1>3. memory \in Seq(Nat) /\ interval \in Nat /\ element.buffer \in Nat
  BY <1>1 DEF Types, Elements
<1>4. ASSUME NEW c \in Main
      PROVE  QueueOk(Append(memory, x), output[c] \o bs[c], c, Len(memory) + 1, interval)
  <2>1. c \in Channels /\ output[c] \in Seq(Blocks) /\ bs[c] \in Seq(Blocks)
    BY <1>1 DEF Main, Types, BlockLists
  <2>2. QueueOk(memory, output[c], c, element.buffer, interval)
    BY <1>1 DEF Queues
  <2>3. \A i \in DOMAIN output[c] : output[c][i].interval <= interval
    BY <1>1 DEF Clocks, UpTo
  <2> QED BY <1>3, <2>1, <2>2, <2>3, QueuePushed
<1>5. \A c \in Main : QueueOk(memory', output'[c], c, element'.buffer, interval')
  BY <1>1, <1>2, <1>4 DEF Main
<1> QED BY <1>1, <1>5, QueuesAfter

\* Random blocks need no frame.
LEMMA RandomNew ==
  ASSUME Types, interval' = interval, NEW e \in Elements, NEW c \in Channels, NEW n \in Nat, NEW m, NEW d
  PROVE  NewOk(m, Random(e, c, n), d, e.buffer, interval)
<1> DEFINE s == Random(e, c, n)
<1>1. DOMAIN s = 1 .. n
  BY DEF Random
<1>2. ASSUME NEW i \in 1 .. n
      PROVE  s[i].interval = interval /\ s[i].buffer = e.buffer /\ s[i].invalid
  <2>1. s[i] = Block([e EXCEPT !.start = current[c] + i - 1, !.invalid = TRUE])
    BY DEF Random
  <2> QED BY <2>1 DEF Block, Elements
<1> HIDE DEF s
<1>3. NewOk(m, s, d, e.buffer, interval)
  BY <1>1, <1>2 DEF NewOk, BlockOk
<1> QED BY <1>3 DEF s

\* A task whose element has been given up, or which leaves the clocks as they were.
LEMMA TaskInHand ==
  ASSUME HInv, Task, element'.invalid \/ current' = current
  PROVE  InHand'
<1>1. pc = "task" /\ pc' = "task" /\ interval' = interval /\ Within
  BY DEF Task, Within
<1>2. current' = current => Within'
  BY <1>1 DEF Within, Interval
<1> QED BY <1>1, <1>2 DEF InHand

LEMMA TaskRandomHolds ==
  ASSUME HInv, Task, pos' \in pos .. Len(recording), NEW x \in Nat, memory' = Append(memory, x),
         NEW e \in Elements, e.buffer = Len(memory) + 1, NEW c \in Channels, NEW n \in Nat,
         PushRandom(e, c, n)
  PROVE  Opened' /\ InHand' /\ Queues'
<1> DEFINE s == Random(e, c, n)
           bs == [d \in Channels |-> IF d = c THEN s ELSE <<>>]
<1>1. /\ Types /\ FInv /\ interval' = interval
      /\ current \in [Channels -> Int] /\ left \in [Channels -> Int] /\ minLeft \in Int
  BY TaskState DEF HInv
<1>2. s \in Seq(Blocks) /\ Len(s) = n
  BY <1>1, RandomBlocks
<1>3. \A d : NewOk(Append(memory, x), s, d, Len(memory) + 1, interval)
  <2>1. \A d : NewOk(Append(memory, x), s, d, e.buffer, interval)
    BY <1>1, RandomNew
  <2> QED BY <2>1
<1>4. Push(bs, current, left, minLeft) /\ element' = LastRandom(e, c, n)
  BY DEF PushRandom, InChannel
<1> HIDE DEF s
<1>5. bs \in BlockLists
  BY <1>2 DEF BlockLists
<1>6. \A d \in Main : NewOk(Append(memory, x), bs[d], d, Len(memory) + 1, interval)
  BY <1>3 DEF NewOk, Main
<1>7. element'.buffer = Len(memory) + 1
  BY <1>1, <1>4, RandomBlocks
<1>8. element'.invalid \/ current' = current
  <2>1. CASE n > 0
    <3>1. element' = [e EXCEPT !.start = current[c] + n - 1, !.channel = c, !.invalid = TRUE]
      BY <1>4, <2>1 DEF LastRandom
    <3> QED BY <3>1 DEF Elements
  <2>2. CASE n = 0
    <3>1. \A d \in Channels : Len(bs[d]) = 0
      BY <1>2, <2>2
    <3> HIDE DEF bs
    <3>3. current' \in [Channels -> Int] /\ \A d \in Channels : current'[d] = current[d] + Len(bs[d])
      BY <1>1, <1>4, <1>5, PushTypes
    <3>2. ASSUME NEW d \in Channels PROVE current'[d] = current[d]
      <4>1. current'[d] = current[d] + Len(bs[d]) /\ Len(bs[d]) = 0 /\ current[d] \in Int
        BY <1>1, <3>1, <3>3
      <4> QED BY <4>1
    <3> QED BY <1>1, <3>2, <3>3
  <2> QED BY <2>1, <2>2
<1> HIDE DEF bs
<1>9. Queues'
  BY <1>4, <1>5, <1>6, <1>7, TaskQueues
<1> QED BY <1>8, <1>9, TaskOpened, TaskInHand

LEMMA TaskEofHolds ==
  ASSUME HInv, TaskEof
  PROVE  Opened' /\ InHand' /\ Queues'
<1> DEFINE late == {c \in Channels : current[c] < Interval.stop}
           e == Allocated
           bs == [c \in Channels |-> IF c \in late THEN Random(e, c, 1) ELSE <<>>]
<1>2. /\ Task /\ Push(bs, current, left, minLeft) /\ element' = LastRandom(e, Max(late), 1)
      /\ memory' = Append(memory, 0) /\ pos' = pos /\ FInv
  BY DEF TaskEof, HInv
<1>3. late \in SUBSET (1 .. LastThread) /\ late # {} /\ LastThread \in Nat /\ late \subseteq Channels
  BY <1>2, ChannelSet DEF Task
<1>4. PICK last \in Channels : last = Max(late)
  BY <1>3, MaxUpTo
<1>5. Types /\ interval' = interval /\ e \in Elements /\ e.buffer = Len(memory) + 1
  BY <1>2, TaskState
<1> HIDE DEF e
<1>6. \A c \in Channels : Random(e, c, 1) \in Seq(Blocks)
  BY <1>5, RandomBlocks
<1>7. \A c \in Channels : NewOk(Append(memory, 0), Random(e, c, 1), c, e.buffer, interval)
  BY <1>5, RandomNew
<1> HIDE DEF late
<1>8. bs \in BlockLists
  BY <1>6 DEF BlockLists
<1>9. \A c \in Main : NewOk(Append(memory, 0), bs[c], c, Len(memory) + 1, interval)
  <2>1. TAKE c \in Main
  <2>2. c \in Channels
    BY DEF Main
  <2>3. NewOk(Append(memory, 0), <<>>, c, Len(memory) + 1, interval)
    BY DEF NewOk
  <2>4. NewOk(Append(memory, 0), Random(e, c, 1), c, Len(memory) + 1, interval)
    BY <1>5, <1>7, <2>2
  <2> QED BY <2>2, <2>3, <2>4
<1> HIDE DEF bs
<1>10. element'.buffer = Len(memory) + 1
  BY <1>2, <1>4, <1>5, RandomBlocks
<1>11. element'.invalid
  BY <1>2, <1>4, <1>5 DEF LastRandom, Elements
<1>12. pos' \in pos .. Len(recording)
  BY <1>2, <1>5 DEF Types
<1>13. Queues'
  BY <1>2, <1>8, <1>9, <1>10, TaskQueues
<1> QED BY <1>2, <1>11, <1>12, <1>13, TaskOpened, TaskInHand

LEMMA TaskSkewHolds ==
  ASSUME HInv, TaskSkew
  PROVE  Opened' /\ InHand' /\ Queues'
<1>2. Task /\ Lagging # {} /\ memory' = Append(memory, 0) /\ pos' = pos /\ FInv
  BY DEF TaskSkew, HInv
<1>3. Lagging \in SUBSET Nat /\ Lagging \subseteq Channels
  BY ChannelSet DEF Lagging
<1>4. PICK c \in Lagging : c = Min(Lagging)
  BY <1>2, <1>3, MinNatural
<1>5. PushRandom(Allocated, c, left[c] - minLeft - Skew(c))
  BY <1>4 DEF TaskSkew
<1>6. /\ Types /\ Allocated \in Elements /\ Allocated.buffer = Len(memory) + 1
      /\ left \in [Channels -> Int] /\ minLeft \in Int
  BY <1>2, TaskState
<1>7. Skew(c) \in Nat /\ c \in Channels /\ left[c] > minLeft + Skew(c)
  BY <1>3, <1>6, BlockNumbers DEF Lagging
<1>8. left[c] \in Int /\ left[c] - minLeft - Skew(c) \in Nat
  BY <1>6, <1>7
<1>9. pos' \in pos .. Len(recording)
  BY <1>2, <1>6 DEF Types
<1> QED BY <1>2, <1>5, <1>6, <1>7, <1>8, <1>9, TaskRandomHolds

\* What a task reads into the new buffer.
LEMMA TaskReads ==
  ASSUME HInv, TaskRead
  PROVE  /\ FInv /\ Task /\ pos' \in pos .. Len(recording)
         /\ \E x \in Nat : memory' = Append(memory, x) /\ (ReadOk => x = ReadTo)
<1>1. FInv /\ Task /\ pos' = LastRead /\ memory' = Append(memory, IF LastRead > pos THEN LastRead ELSE 0)
  BY DEF TaskRead, HInv
<1>2. /\ LastRead \in pos .. Len(recording) /\ pos \in 0 .. Len(recording)
      /\ ReadOk => LastRead = ReadTo /\ LastRead > pos
  BY <1>1, TaskState, ReadResult DEF Types
<1> QED BY <1>1, <1>2

LEMMA TaskReadFailsHolds ==
  ASSUME HInv, TaskReadFails
  PROVE  Opened' /\ InHand' /\ Queues'
<1>1. TaskRead /\ PushRandom(Allocated, 1, SkipFrames)
  BY DEF TaskReadFails
<1>2. FInv /\ Task /\ pos' \in pos .. Len(recording)
  BY <1>1, TaskReads
<1>3. PICK x \in Nat : memory' = Append(memory, x)
  BY <1>1, TaskReads
<1>4. Types /\ Allocated \in Elements /\ Allocated.buffer = Len(memory) + 1
  BY <1>2, TaskState
<1>5. SkipFrames \in Nat /\ 1 \in Channels
  BY <1>4, BlockNumbers, ChannelSet
<1> QED BY <1>1, <1>2, <1>3, <1>4, <1>5, TaskRandomHolds

LEMMA TaskLeftHolds ==
  ASSUME HInv, TaskLeft
  PROVE  Opened' /\ InHand' /\ Queues'
<1>1. TaskRead /\ ReadOk /\ PushRandom(Got, Got.channel, SkipFrames)
  BY DEF TaskLeft
<1>2. FInv /\ Task /\ pos' \in pos .. Len(recording)
  BY <1>1, TaskReads
<1>3. PICK x \in Nat : memory' = Append(memory, x)
  BY <1>1, TaskReads
<1>4. Got \in Elements /\ Got.buffer = Len(memory) + 1 /\ Got.channel \in Channels
  BY <1>1, <1>2, GotFrame
<1>5. SkipFrames \in Nat
  BY <1>2, TaskState, BlockNumbers
<1> QED BY <1>1, <1>2, <1>3, <1>4, <1>5, TaskRandomHolds

LEMMA TaskFutureHolds ==
  ASSUME HInv, TaskFuture
  PROVE  Opened' /\ InHand' /\ Queues'
<1>1. TaskRead /\ ReadOk /\ PushRandom(Got, Got.channel, 1)
  BY DEF TaskFuture, InScan
<1>2. FInv /\ Task /\ pos' \in pos .. Len(recording)
  BY <1>1, TaskReads
<1>3. PICK x \in Nat : memory' = Append(memory, x)
  BY <1>1, TaskReads
<1>4. Got \in Elements /\ Got.buffer = Len(memory) + 1 /\ Got.channel \in Channels
  BY <1>1, <1>2, GotFrame
<1> QED BY <1>1, <1>2, <1>3, <1>4, TaskRandomHolds

\* The frame that a task has read is in the buffer of its element.
LEMMA GotHolds ==
  ASSUME HInv, TaskRead, ReadOk
  PROVE  /\ FInv /\ Task /\ pos' \in pos .. Len(recording) /\ pos' > 0
         /\ pos' \in Nat /\ memory' = Append(memory, pos') /\ memory'[Got.buffer] = pos'
         /\ Got.invalid \/ recording[pos'].thread = Threads[Got.channel]
         /\ isOpen' => Got.start = recording[pos'].time
         /\ ~isOpen' => Got.start = 0
<1>1. /\ FInv /\ Task /\ pos' \in pos .. Len(recording)
      /\ \E x \in Nat : memory' = Append(memory, x) /\ (ReadOk => x = ReadTo)
  BY TaskReads
<1>2. Types /\ Allocated \in Elements
  BY <1>1, TaskState
<1>3. pos' = ReadTo /\ ReadTo > 0 /\ ReadTo \in Nat
  <2>1. pos' = LastRead /\ LastRead = ReadTo /\ LastRead > pos /\ LastRead \in pos .. Len(recording)
    BY <1>2, ReadResult DEF TaskRead
  <2> QED BY <1>2, <2>1 DEF Types
<1>4. memory' = Append(memory, pos') /\ memory \in Seq(Nat)
  BY <1>1, <1>2, <1>3 DEF Types
<1>5. Got.buffer = Len(memory) + 1 /\ Append(memory, pos')[Len(memory) + 1] = pos'
  BY <1>1, <1>4, GotFrame
<1>6. Got.invalid \/ recording[ReadTo].thread = Threads[Got.channel]
  BY <1>2, FilledHolds DEF Got
<1>7. isOpen' => Got.start = recording[ReadTo].time
  BY <1>2, FilledType DEF Got
<1>8. ~isOpen' => Got.start = 0
  BY <1>2 DEF Got, Filled, NoTime, Elements
<1> QED BY <1>1, <1>3, <1>4, <1>5, <1>6, <1>7, <1>8

LEMMA TaskPastHolds ==
  ASSUME HInv, TaskPast
  PROVE  Opened' /\ InHand' /\ Queues'
<1>1. TaskRead /\ ReadOk /\ element' = Got /\ current' = current /\ output' = output
  BY DEF TaskPast, InScan, timeVars
<1>2. FInv /\ Task /\ pos' \in pos .. Len(recording)
  BY <1>1, TaskReads
<1>3. PICK x \in Nat : memory' = Append(memory, x)
  BY <1>1, TaskReads
<1>4. /\ Types /\ Clocks /\ Queues /\ pc = "task" /\ interval' = interval /\ recording' = recording
      /\ memory \in Seq(Nat) /\ interval \in Nat /\ element.buffer \in Nat
  <2>1. Types /\ Clocks /\ pc = "task" /\ interval' = interval
    BY <1>2, TaskState
  <2>2. memory \in Seq(Nat) /\ interval \in Nat /\ element.buffer \in Nat
    BY <2>1 DEF Types, Elements
  <2>3. Queues /\ recording' = recording
    BY <1>2 DEF HInv, Task
  <2> QED BY <2>1, <2>2, <2>3
<1>5. Got.buffer = Len(memory) + 1
  BY <1>1, <1>2, GotFrame
<1>6. ASSUME NEW c \in Main
      PROVE  QueueOk(memory', output'[c], c, element'.buffer, interval')
  <2> DEFINE none == <<>>
  <2>1. c \in Channels /\ output[c] \in Seq(Blocks) /\ none \in Seq(Blocks)
    BY <1>4 DEF Main, Types
  <2>2. QueueOk(memory, output[c], c, element.buffer, interval)
    BY <1>4 DEF Queues
  <2>3. \A i \in DOMAIN output[c] : output[c][i].interval <= interval
    BY <1>4 DEF Clocks, UpTo
  <2>4. NewOk(Append(memory, x), none, c, Len(memory) + 1, interval)
    BY DEF NewOk
  <2>5. output[c] \o none = output[c]
    BY <2>1
  <2> HIDE DEF none
  <2>6. QueueOk(Append(memory, x), output[c] \o none, c, Len(memory) + 1, interval)
    BY <1>4, <2>1, <2>2, <2>3, <2>4, QueuePushed
  <2> QED BY <1>1, <1>3, <1>4, <1>5, <2>5, <2>6
<1>7. Queues'
  BY <1>4, <1>6, QueuesAfter
<1> QED BY <1>1, <1>2, <1>7, TaskOpened, TaskInHand

LEMMA TaskBeyondHolds ==
  ASSUME HInv, TaskBeyond
  PROVE  Opened' /\ InHand' /\ Queues'
<1> DEFINE ch == Got.channel
           s == Random(Got, ch, Missing)
           bs == [d \in Channels |-> IF d = ch THEN s ELSE <<>>]
<1>1. /\ TaskRead /\ ReadOk /\ element' = Got /\ Missing >= 0
      /\ Push(bs, current, left, minLeft)
  BY DEF TaskBeyond, InScan, InChannel
<1>2. /\ FInv /\ Task /\ pos' \in pos .. Len(recording) /\ pos' > 0 /\ pos' \in Nat
      /\ memory' = Append(memory, pos') /\ memory'[Got.buffer] = pos'
      /\ Got.invalid \/ recording[pos'].thread = Threads[ch]
      /\ isOpen' => Got.start = recording[pos'].time
  BY <1>1, GotHolds
<1>3. Got \in Elements /\ Got.buffer = Len(memory) + 1 /\ ch \in Channels
  BY <1>1, <1>2, GotFrame
<1>4. Missing \in Nat
  BY <1>1, <1>2, MissingNumber
<1>5. Types /\ interval' = interval /\ recording' = recording /\ pc' = "task"
  BY <1>2, TaskState DEF Task
<1>6. s \in Seq(Blocks)
  BY <1>3, <1>4, <1>5, RandomBlocks
<1>7. PICK x \in Nat : memory' = Append(memory, x)
  BY <1>2
<1>8. \A d : NewOk(Append(memory, x), s, d, Len(memory) + 1, interval)
  <2>1. \A d : NewOk(Append(memory, x), s, d, Got.buffer, interval)
    BY <1>3, <1>4, <1>5, RandomNew
  <2> QED BY <1>3, <2>1
<1> HIDE DEF s
<1>9. bs \in BlockLists
  BY <1>6 DEF BlockLists
<1>10. \A d \in Main : NewOk(Append(memory, x), bs[d], d, Len(memory) + 1, interval)
  BY <1>8 DEF NewOk, Main
<1> HIDE DEF bs
<1>11. Queues'
  BY <1>1, <1>2, <1>3, <1>7, <1>9, <1>10, TaskQueues
<1>12. Holds'
  BY <1>1, <1>2, <1>5 DEF Holds
<1>13. isOpen' => element'.start = Header'
  BY <1>1, <1>2, <1>5 DEF Header
<1>14. InHand'
  BY <1>5, <1>12, <1>13 DEF InHand
<1> QED BY <1>2, <1>11, <1>14, TaskOpened

\* Random blocks and one more, with its frame.
LEMMA NewAppended ==
  ASSUME NEW m, NEW s \in Seq(Blocks), NEW b \in Blocks, NEW c, NEW buf, NEW k,
         NewOk(m, s, c, buf, k), \A i \in DOMAIN s : s[i].invalid,
         b.interval = k, b.buffer = buf, BlockOk(m, c, b)
  PROVE  NewOk(m, Append(s, b), c, buf, k)
<1> DEFINE t == Append(s, b)
           n == Len(s)
<1>1. n \in Nat /\ Len(t) = n + 1 /\ t[n + 1] = b /\ DOMAIN t = 1 .. n + 1 /\ DOMAIN s = 1 .. n
  OBVIOUS
<1>2. \A i \in 1 .. n : t[i] = s[i]
  OBVIOUS
<1>3. \A i \in 1 .. n : s[i].interval = k /\ s[i].buffer = buf /\ s[i].invalid /\ BlockOk(m, c, s[i])
  BY <1>1 DEF NewOk
<1> HIDE DEF t, n
<1>4. ASSUME NEW i \in 1 .. n + 1
      PROVE  /\ t[i].interval = k /\ t[i].buffer = buf
             /\ ~t[i].invalid => i = Len(t)
             /\ BlockOk(m, c, t[i])
  <2>1. i \in 1 .. n \/ i = n + 1
    BY <1>1
  <2>2. CASE i \in 1 .. n
    BY <1>2, <1>3, <2>2
  <2>3. CASE i = n + 1
    BY <1>1, <2>3
  <2> QED BY <2>1, <2>2, <2>3
<1>5. NewOk(m, t, c, buf, k)
  BY <1>1, <1>4 DEF NewOk
<1> QED BY <1>5 DEF t

LEMMA TaskFrameHolds ==
  ASSUME HInv, TaskFrame
  PROVE  Opened' /\ InHand' /\ Queues'
<1> DEFINE ch == Got.channel
           fill == IF Got.start = current[ch] THEN <<>> ELSE Fill
           copies == Duplicates(ch)
           b == Block(Got)
           bs == [c \in Channels |-> IF c = ch THEN Append(fill, b)
                                     ELSE IF c \in copies THEN <<b>> ELSE <<>>]
<1>1. /\ TaskRead /\ ReadOk /\ Push(bs, current, left, minLeft)
      /\ element' = IF copies = {} THEN Got ELSE [Got EXCEPT !.channel = Max(copies)]
      /\ Got.start # current[ch] => Missing > 0 /\ Missing < left[ch]
  BY DEF TaskFrame, InScan
<1>2. /\ FInv /\ Task /\ pos' \in pos .. Len(recording) /\ pos' > 0 /\ pos' \in Nat
      /\ memory' = Append(memory, pos') /\ memory'[Got.buffer] = pos'
      /\ Got.invalid \/ recording[pos'].thread = Threads[ch]
      /\ isOpen' => Got.start = recording[pos'].time
      /\ ~isOpen' => Got.start = 0
  BY <1>1, GotHolds
<1>3. /\ Got \in Elements /\ Got.buffer = Len(memory) + 1 /\ ch \in Channels
      /\ Got.start \in Int /\ current[ch] \in Int /\ left[ch] \in Int
  BY <1>1, <1>2, GotFrame
<1>4. /\ Types /\ interval' = interval /\ interval \in DOMAIN Intervals /\ interval \in Nat
      /\ isOpen' \in BOOLEAN /\ recording' = recording /\ pc' = "task"
  <2>1. Types /\ interval' = interval /\ interval \in DOMAIN Intervals /\ isOpen' \in BOOLEAN /\ pc' = "task"
    BY <1>2, TaskState
  <2>2. recording' = recording /\ interval \in Nat
    BY <1>2, <2>1, IntervalTypes DEF Task
  <2> QED BY <2>1, <2>2
<1>5. /\ b \in Blocks /\ b.interval = interval /\ b.start = Got.start /\ b.buffer = Len(memory) + 1
      /\ b.invalid = Got.invalid
  BY <1>3, <1>4 DEF Block, Blocks, Elements
<1>6. PICK x \in Nat : x = pos' /\ memory' = Append(memory, x) /\ Append(memory, x)[Len(memory) + 1] = x
  BY <1>2, <1>3
<1>7. ASSUME NEW c, Threads[c] = Threads[ch] PROVE BlockOk(Append(memory, x), c, b)
  <2>1. CASE isOpen'
    <3>1. Got.invalid \/ recording[x].thread = Threads[c]
      BY <1>2, <1>6, <1>7
    <3>2. b.start = recording[x].time
      BY <1>2, <1>5, <1>6, <2>1
    <3>3. x # 0 /\ Append(memory, x)[b.buffer] = x
      BY <1>2, <1>5, <1>6
    <3> QED BY <1>5, <3>1, <3>2, <3>3 DEF BlockOk
  <2>2. CASE ~isOpen'
    <3>1. 0 < Intervals[interval].start
      BY <1>4, IntervalTypes
    <3>2. b.start < Intervals[b.interval].start
      BY <1>2, <1>5, <2>2, <3>1
    <3> QED BY <3>2 DEF BlockOk
  <2> QED BY <1>4, <2>1, <2>2
<1>8. /\ fill \in Seq(Blocks) /\ \A i \in DOMAIN fill : fill[i].invalid
      /\ \A d : NewOk(Append(memory, x), fill, d, Len(memory) + 1, interval)
  <2>1. CASE Got.start = current[ch]
    BY <2>1 DEF NewOk
  <2>2. CASE Got.start # current[ch]
    <3>1. Missing \in Nat
      BY <1>1, <1>2, <1>3, <2>2, MissingNumber
    <3>2. PICK n \in Nat : n = Missing
      BY <3>1
    <3>3. fill = Random(Got, ch, n)
      BY <2>2, <3>2 DEF Fill
    <3>4. Random(Got, ch, n) \in Seq(Blocks)
      BY <1>3, <1>4, RandomBlocks
    <3>5. \A i \in DOMAIN Random(Got, ch, n) : Random(Got, ch, n)[i].invalid
      BY <1>3 DEF Random, Block, Elements
    <3>6. \A d : NewOk(Append(memory, x), Random(Got, ch, n), d, Got.buffer, interval)
      BY <1>3, <1>4, RandomNew
    <3>7. \A d : NewOk(Append(memory, x), Random(Got, ch, n), d, Len(memory) + 1, interval)
      BY <1>3, <3>6
    <3> QED BY <3>3, <3>4, <3>5, <3>7
  <2> QED BY <2>1, <2>2
<1> HIDE DEF fill, b
<1>9. NewOk(Append(memory, x), Append(fill, b), ch, Len(memory) + 1, interval)
  BY <1>5, <1>7, <1>8, NewAppended
<1> DEFINE long == Append(fill, b)
           one == <<b>>
           none == <<>>
<1>10. long \in Seq(Blocks) /\ one \in Seq(Blocks) /\ none \in Seq(Blocks)
  BY <1>5, <1>8
<1>11. \A c : Threads[c] = Threads[ch] => NewOk(Append(memory, x), one, c, Len(memory) + 1, interval)
  BY <1>5, <1>7 DEF NewOk
<1>12. \A c : NewOk(Append(memory, x), none, c, Len(memory) + 1, interval)
  BY DEF NewOk
<1>13. bs = [c \in Channels |-> IF c = ch THEN long ELSE IF c \in copies THEN one ELSE none]
  OBVIOUS
<1> HIDE DEF bs, long, one, none
<1>14. bs \in BlockLists
  BY <1>10, <1>13 DEF BlockLists
<1>15. \A c \in Main : NewOk(Append(memory, x), bs[c], c, Len(memory) + 1, interval)
  <2>1. TAKE c \in Main
  <2>2. bs[c] = IF c = ch THEN long ELSE IF c \in copies THEN one ELSE none
    BY <1>13 DEF Main
  <2>3. c \in copies => Threads[c] = Threads[ch]
    BY DEF Duplicates
  <2>4. NewOk(Append(memory, x), long, ch, Len(memory) + 1, interval)
    BY <1>9 DEF long
  <2> QED BY <1>11, <1>12, <2>2, <2>3, <2>4
<1>16. PICK d \in Channels : /\ Threads[d] = Threads[ch]
                             /\ element' = Got \/ element' = [Got EXCEPT !.channel = d]
  <2>1. CASE copies = {}
    BY <1>1, <1>3, <2>1
  <2>2. CASE copies # {}
    <3>1. copies \in SUBSET (1 .. LastThread) /\ LastThread \in Nat /\ copies \subseteq Channels
      BY ChannelSet DEF Duplicates
    <3>2. Max(copies) \in copies
      BY <2>2, <3>1, MaxUpTo
    <3>3. Threads[Max(copies)] = Threads[ch] /\ Max(copies) \in Channels
      BY <3>2 DEF Duplicates
    <3> QED BY <1>1, <2>2, <3>3
  <2> QED BY <2>1, <2>2
<1>17. /\ element'.buffer = Got.buffer /\ element'.start = Got.start /\ element'.invalid = Got.invalid
       /\ Threads[element'.channel] = Threads[ch]
  BY <1>3, <1>16 DEF Elements
<1>18. Queues'
  BY <1>1, <1>2, <1>3, <1>6, <1>14, <1>15, <1>17, TaskQueues
<1>19. Holds'
  BY <1>2, <1>4, <1>17 DEF Holds
<1>20. isOpen' => element'.start = Header'
  BY <1>2, <1>4, <1>17 DEF Header
<1>21. InHand'
  BY <1>4, <1>19, <1>20 DEF InHand
<1> QED BY <1>2, <1>18, <1>21, TaskOpened

LEMMA IntervalDoneHolds ==
  ASSUME HInv, IntervalDone
  PROVE  Opened' /\ InHand' /\ Queues'
<1>1. /\ FInv /\ Types /\ Opened /\ InHand /\ Queues /\ pc = "task" /\ pc' = "fetch"
      /\ \A c \in Channels : current[c] >= Interval.stop
      /\ UNCHANGED <<recording, readerVars, isOpen, interval, timeVars, element, output>>
  BY DEF HInv, FInv, IntervalDone
<1>2. recording' = recording /\ pos' = pos /\ memory' = memory /\ isOpen' = isOpen /\ interval' = interval
      /\ element' = element /\ output' = output
  BY <1>1 DEF readerVars
<1>3. interval \in DOMAIN Intervals /\ current \in [Channels -> Int]
  <2>1. interval \in 0 .. Len(Intervals) /\ interval > 0 /\ current \in [Channels -> Int]
    BY <1>1 DEF Types
  <2> QED BY <2>1, FormatReaderAssumption
<1>4. ~Within
  <2>1. Interval.stop \in Nat
    BY <1>3, IntervalTypes DEF Interval
  <2>2. \A c \in Channels : current[c] \in Int
    BY <1>3
  <2> QED BY <1>1, <2>1, <2>2 DEF Within
<1>5. isOpen => element.invalid \/ (element.start = Header /\ (Holds \/ Header < Interval.start))
  BY <1>1, <1>4 DEF InHand
<1>6. isOpen' => element'.invalid
                   \/ (element'.start = Header' /\ (Holds' \/ Header' < Interval'.start))
  BY <1>2, <1>5 DEF Header, Holds, Interval
<1>7. InHand'
  BY <1>1, <1>6 DEF InHand
<1>8. Opened'
  BY <1>1, <1>2 DEF Opened, Wanted
<1>9. Queues'
  BY <1>1, <1>2 DEF Queues, QueueOk, BlockOk, LastOf
<1> QED BY <1>7, <1>8, <1>9

LEMMA StutterHolds ==
  ASSUME HInv, UNCHANGED vars
  PROVE  Opened' /\ InHand' /\ Queues'
<1>1. /\ Opened /\ InHand /\ Queues
      /\ recording' = recording /\ pos' = pos /\ memory' = memory /\ isOpen' = isOpen
      /\ pc' = pc /\ interval' = interval /\ current' = current /\ element' = element /\ output' = output
  BY DEF HInv, vars, readerVars, timeVars
<1>2. Opened'
  BY <1>1 DEF Opened, Wanted
<1>3. InHand'
  BY <1>1 DEF InHand, Within, Header, Holds, Interval
<1>4. Queues'
  BY <1>1 DEF Queues, QueueOk, BlockOk, LastOf
<1> QED BY <1>2, <1>3, <1>4

-----------------------------------------------------------------------------
LEMMA InitHInv == Init => HInv
<1>1. SUFFICES ASSUME Init PROVE HInv
  OBVIOUS
<1>2. ~isOpen /\ pc # "goto" /\ output = [c \in Channels |-> <<>>]
  BY <1>1 DEF Init
<1>3. Opened /\ InHand
  BY <1>2 DEF Opened, InHand
<1>4. Queues
  BY <1>2 DEF Queues, QueueOk, Main
<1> QED BY <1>1, <1>3, <1>4, InitFInv DEF HInv

LEMMA NextHInv == NoStrayCopies /\ GivesUpEarly /\ HInv /\ [Next]_vars => HInv'
<1>1. SUFFICES ASSUME NoStrayCopies, GivesUpEarly, HInv, [Next]_vars PROVE HInv'
  OBVIOUS
<1>2. FInv'
  BY <1>1, NextFInv DEF HInv
<1>3. Opened' /\ InHand' /\ Queues'
  <2>1. CASE ReaderStep
    BY <1>1, <2>1, OpenFailsHolds, OpenInputStreamHolds, NextIntervalHolds, GotoReadHolds, GotoFailsHolds,
       GotoDoneHolds, TaskEofHolds, TaskSkewHolds, TaskReadFailsHolds, TaskLeftHolds, TaskFutureHolds,
       TaskPastHolds, TaskBeyondHolds, TaskFrameHolds, IntervalDoneHolds DEF ReaderStep
  <2>2. CASE UNCHANGED vars
    BY <1>1, <2>2, StutterHolds
  <2> QED BY <1>1, <2>1, <2>2 DEF Next, Done
<1> QED BY <1>2, <1>3 DEF HInv

LEMMA HInvBlocks == HInv => BlocksHoldTheirFrameButLast
<1>1. SUFFICES ASSUME HInv, NEW c \in Main, NEW i \in DOMAIN output[c]
               PROVE  \/ Whole(c, output[c][i])
                      \/ output[c][i].interval < interval /\ LastOfInterval(c, i)
  BY DEF BlocksHoldTheirFrameButLast
<1>2. BlockOk(memory, c, output[c][i]) \/ (output[c][i].interval < interval /\ LastOf(output[c], i))
  BY <1>1 DEF HInv, Queues, QueueOk
<1>3. BlockOk(memory, c, output[c][i]) => Whole(c, output[c][i])
  BY DEF BlockOk, Whole
<1>4. LastOf(output[c], i) => LastOfInterval(c, i)
  BY DEF LastOf, LastOfInterval
<1> QED BY <1>2, <1>3, <1>4

\* A block that is not marked invalid holds the frame of its time and its thread as
\* long as it is queued, but for the last block of an interval once the next one has
\* begun: that one is in the buffer goto_time reads into
\* (Input_data_format_reader_tasklet::do_task, push_element, goto_time).
THEOREM FramesInPlace ==
  ASSUME NoStrayCopies, GivesUpEarly
  PROVE  Spec => []BlocksHoldTheirFrameButLast
<1>1. HInv /\ [Next]_vars => HInv'
  BY NextHInv
<1>2. Spec => []HInv
  BY <1>1, InitHInv, PTL DEF Spec
<1> QED BY <1>2, HInvBlocks, PTL
-----------------------------------------------------------------------------
(***************************************************************************)
(* The frames that are kept.  While the reader is at frames of the first   *)
(* interval, no channel is ahead of the last frame read, so that the next  *)
(* frame of a channel, which is no earlier, is not too late for it.        *)
(***************************************************************************)
Claimed(q) ==
  /\ Wanted(recording[q]) /\ ~recording[q].invalid
  /\ Expected(recording[q].time) /\ NotFirst(recording, q)
Kept == \A q \in 1 .. pos : Claimed(q) => InOutput(recording[q])

\* The channel has had its frame of this time.
Had(c, time) ==
  \E p \in 1 .. pos : Wanted(recording[p]) /\ ChannelOf(recording[p]) = c /\ recording[p].time = time

\* Where the channels are when the last frame read is of this time.  A channel that
\* gets copies is behind its main channel, or will be before the next read.
Room(time) ==
  /\ minLeft >= First.stop - time - 1
  /\ \A c \in Channels : current[c] <= time + 1 /\ left[c] = First.stop - current[c]
  /\ \A c \in Main : current[c] = time + 1 => Had(c, time)
  /\ \A c \in Main : \A d \in Duplicates(c) : left[d] >= left[c] \/ left[d] >= minLeft + 2 * NSkew

NotYet == pos = 0 /\ ~eof /\ ~isOpen /\ pc = "fetch"
Searching ==
  /\ isOpen /\ pos > 0 /\ ~eof
  /\ Wanted(recording[pos]) /\ element.channel = ChannelOf(recording[pos])
  /\ \A q \in 1 .. pos - 1 : Wanted(recording[q]) => recording[q].time < First.start
Filling ==
  /\ Kept
  /\ eof => pos = Len(recording)
  /\ ~eof => isOpen /\ pos > 0 /\ \A time \in Nat : Header = time /\ Expected(time) => Room(time)
  /\ pc = "fetch" => \A c \in Channels : current[c] >= First.stop

KInv ==
  Sound(recording) =>
    /\ interval = 0 => NotYet
    /\ interval = 1 /\ pc = "goto" => Searching
    /\ interval = 1 /\ pc # "goto" => Filling

-----------------------------------------------------------------------------
\* In a recording that is readable a read finds the next frame that is wanted, or the
\* end of the recording.
LEMMA NextWanted ==
  ASSUME Types, Sound(recording)
  PROVE  /\ Len(recording) \in Nat /\ pos \in 0 .. Len(recording) /\ DOMAIN recording = 1 .. Len(recording)
         /\ ReadOk => /\ ReadTo \in pos + 1 .. Len(recording) /\ LastRead = ReadTo /\ ~ReadAtEnd
                      /\ Wanted(recording[ReadTo])
                      /\ \A q \in pos + 1 .. ReadTo - 1 : ~Wanted(recording[q])
         /\ ~ReadOk => /\ ReadAtEnd /\ LastRead = Len(recording)
                       /\ \A q \in pos + 1 .. Len(recording) : ~Wanted(recording[q])
<1>1. recording \in Seq(Frames)
  BY ReadResult
<1>2. PICK n \in Nat : n = Len(recording) /\ DOMAIN recording = 1 .. n
  BY <1>1
<1>3. PICK m \in Nat : m = MaxRestarts
  BY FormatReaderAssumption
<1>4. pos \in 0 .. n
  BY <1>2 DEF Types
<1> DEFINE C == {q \in pos + 1 .. pos + m : q <= n /\ Wanted(recording[q])}
           T == C \cup {n + 1, pos + m + 1}
<1>5. T \in SUBSET Nat /\ T # {} /\ ReadTo = Min(T)
  BY <1>2, <1>3, <1>4 DEF ReadTo, Candidates
<1>6. PICK r \in T : r = ReadTo /\ \A y \in T : r <= y
  <2> HIDE DEF T
  <2> QED BY <1>5, MinNatural
<1>7. r \in Nat /\ pos < r /\ r <= n + 1 /\ r <= pos + m + 1
  <2>1. n + 1 \in T /\ pos + m + 1 \in T
    OBVIOUS
  <2>2. r <= n + 1 /\ r <= pos + m + 1
    BY <1>6, <2>1
  <2>3. pos \in Nat /\ pos <= n
    BY <1>4
  <2>4. r \in C \/ r = n + 1 \/ r = pos + m + 1
    OBVIOUS
  <2>5. r \in C => r \in Nat /\ pos < r
    BY <2>3
  <2> HIDE DEF C, T
  <2> QED BY <2>2, <2>3, <2>4, <2>5
<1>8. \A q \in pos + 1 .. r - 1 : ~Wanted(recording[q])
  <2>1. SUFFICES ASSUME NEW q \in pos + 1 .. r - 1, Wanted(recording[q]) PROVE FALSE
    OBVIOUS
  <2>2. q \in C
    BY <1>3, <1>4, <1>7, <2>1
  <2>3. r <= q
    BY <1>6, <2>2
  <2> QED BY <1>4, <1>7, <2>3
<1>9. LastRead = IF r <= n THEN r ELSE n
  BY <1>2, <1>6, <1>7, MinOfTwo DEF LastRead
<1>10. ReadAtEnd <=> r > n
  BY <1>2, <1>6 DEF ReadAtEnd
<1>11. ReadOk <=> r <= n /\ Wanted(recording[r])
  BY <1>2, <1>6, <1>7, <1>10 DEF ReadOk
<1>12. ASSUME r <= n PROVE Wanted(recording[r])
  <2>1. SUFFICES ASSUME ~Wanted(recording[r]) PROVE FALSE
    OBVIOUS
  <2>2. r = pos + m + 1
    BY <1>4, <1>6, <1>12, <2>1
  <2>3. pos + 1 \in 1 .. n - m
    BY <1>3, <1>4, <1>12, <2>2
  <2>4. PICK p \in pos + 1 .. pos + 1 + m : Wanted(recording[p])
    BY <1>2, <1>3, <2>3 DEF Sound, Readable
  <2>5. p # r
    BY <2>1, <2>4
  <2>6. p \in pos + 1 .. r - 1
    BY <1>3, <1>4, <2>2, <2>5
  <2> QED BY <1>8, <2>4, <2>6
<1>13. CASE r <= n
  <2>1. ReadOk /\ LastRead = r /\ ~ReadAtEnd /\ r \in pos + 1 .. n
    BY <1>4, <1>7, <1>9, <1>10, <1>11, <1>12, <1>13
  <2> QED BY <1>2, <1>4, <1>6, <1>8, <1>12, <1>13, <2>1
<1>14. CASE ~(r <= n)
  <2>1. ~ReadOk /\ LastRead = n /\ ReadAtEnd /\ r - 1 = n
    BY <1>7, <1>9, <1>10, <1>11, <1>14
  <2> QED BY <1>2, <1>4, <1>8, <2>1
<1> QED BY <1>13, <1>14

\* Times of frames do not decrease.
LEMMA TimesInOrder ==
  ASSUME Types, Sound(recording)
  PROVE  /\ \A p \in 1 .. Len(recording) : recording[p] \in Frames /\ recording[p].time \in Nat
         /\ \A p, q \in 1 .. Len(recording) : p <= q => recording[p].time <= recording[q].time
<1>1. recording \in Seq(Frames)
  BY ReadResult
<1>2. PICK n \in Nat : n = Len(recording) /\ DOMAIN recording = 1 .. n
  BY <1>1
<1>3. \A p \in 1 .. n : recording[p] \in Frames
  BY <1>1, <1>2
<1>4. \A p \in 1 .. n : recording[p].time \in Nat
  BY <1>3 DEF Frames
<1>5. \A p, q \in 1 .. n : p < q => recording[p].time <= recording[q].time
  BY <1>2 DEF Sound, InOrder
<1>6. \A p, q \in 1 .. n : p <= q => recording[p].time <= recording[q].time
  <2>1. TAKE p, q \in 1 .. n
  <2>2. CASE p = q
    BY <1>4, <2>2
  <2>3. CASE p # q
    BY <1>5, <2>3
  <2> QED BY <2>2, <2>3
<1> QED BY <1>2, <1>3, <1>4, <1>6

\* What is expected at some time is expected before.
LEMMA ExpectedBefore ==
  ASSUME NEW s \in Nat, NEW t \in Nat, s <= t, Expected(t), 1 \in DOMAIN Intervals
  PROVE  /\ Expected(s) /\ First.stop \in Nat /\ First.leave \in Nat
         /\ t < First.stop - 1 /\ t < First.leave - 1 /\ t <= Now /\ Now \in Nat
<1>1. First.stop \in Nat /\ First.leave \in Nat
  BY IntervalTypes DEF First
<1>2. Now \in Nat
  BY FormatReaderAssumption
<1> QED BY <1>1, <1>2 DEF Expected

\* What is in the output stays there, and there is nothing new among the frames passed over.
LEMMA KeptLater ==
  ASSUME Types, Sound(recording), Kept, recording' = recording, NEW bs \in BlockLists,
         \A c \in Channels : output'[c] = output[c] \o bs[c],
         pos' \in pos .. Len(recording),
         \A q \in pos + 1 .. pos' : Claimed(q) => InOutput(recording[q])'
  PROVE  Kept'
<1>1. SUFFICES ASSUME NEW q \in 1 .. pos', Claimed(q) PROVE InOutput(recording[q])'
  BY DEF Kept, Claimed
<1>2. PICK n \in Nat : n = Len(recording) /\ pos \in 0 .. n /\ pos' \in pos .. n
  BY NextWanted
<1>3. CASE q \in pos + 1 .. pos'
  BY <1>1, <1>3
<1>4. CASE q \in 1 .. pos
  <2>1. InOutput(recording[q])
    BY <1>1, <1>4 DEF Kept
  <2>2. PICK c \in Channels : c = ChannelOf(recording[q])
    BY <1>2, <1>4, TimesInOrder, ChannelType
  <2>3. PICK i \in DOMAIN output[c] : output[c][i].start = recording[q].time /\ ~output[c][i].invalid
    BY <2>1, <2>2 DEF InOutput
  <2>4. output[c] \in Seq(Blocks) /\ bs[c] \in Seq(Blocks)
    BY DEF Types, BlockLists
  <2>5. i \in DOMAIN (output[c] \o bs[c]) /\ (output[c] \o bs[c])[i] = output[c][i]
    <3>1. PICK s \in Seq(Blocks), t \in Seq(Blocks) : s = output[c] /\ t = bs[c]
      BY <2>4
    <3>2. i \in DOMAIN s
      BY <3>1
    <3>3. i \in DOMAIN (s \o t) /\ (s \o t)[i] = s[i]
      BY <3>2
    <3> QED BY <3>1, <3>3
  <2>6. i \in DOMAIN output'[c] /\ output'[c][i] = output[c][i]
    BY <2>5
  <2> QED BY <2>2, <2>3, <2>6 DEF InOutput
<1>5. q \in pos + 1 .. pos' \/ q \in 1 .. pos
  BY <1>2
<1> QED BY <1>3, <1>4, <1>5

\* Nothing is claimed of a frame when none was found before, nor if it is not wanted.
LEMMA NoneClaimed ==
  ASSUME NEW n \in Nat,
         \A q \in 1 .. n - 1 : Wanted(recording[q]) => ~(recording[q].time >= First.start)
  PROVE  \A q \in 1 .. n : ~Claimed(q)
<1>1. SUFFICES ASSUME NEW q \in 1 .. n, Claimed(q) PROVE FALSE
  OBVIOUS
<1>2. PICK p \in 1 .. q - 1 : Wanted(recording[p]) /\ recording[p].time >= First.start
  BY <1>1 DEF Claimed, NotFirst
<1>3. p \in 1 .. n - 1
  OBVIOUS
<1> QED BY <1>2, <1>3

\* Where the channels are when an interval starts.
LEMMA StartRoom ==
  ASSUME Types, NoStrayCopies, interval' = 1, 1 \in DOMAIN Intervals, NEW e \in Elements, NEW time \in Nat,
         StartWith(time, e), recording' = recording, pos' \in 1 .. Len(recording),
         recording[pos'].time = time, Wanted(recording[pos']), e.channel = ChannelOf(recording[pos']),
         Expected(time)
  PROVE  Room(time)'
<1>1. First.stop \in Nat /\ time < First.stop - 1
  BY ExpectedBefore
<1> DEFINE ch == e.channel
           bs == InChannel(ch, <<Block(e)>>)
           cur == [c \in Channels |-> time]
           lft == [c \in Channels |-> First.stop - time]
<1>2. Push(bs, cur, lft, First.stop - time)
  BY <1>1 DEF StartWith, StartAt, First
<1>3. recording \in Recordings /\ recording \in Seq(Frames) /\ pos' \in DOMAIN recording
  BY ReadResult DEF Types
<1>4. ch \in Main /\ ch \in Channels
  BY <1>3, ChannelIsMain DEF Main
<1>5. Block(e) \in Blocks
  BY DEF Block, Blocks, Elements
<1>6. PICK b \in Blocks : b = Block(e)
  BY <1>5
<1>7. bs = [c \in Channels |-> IF c = ch THEN <<b>> ELSE <<>>]
  BY <1>6 DEF InChannel
<1> HIDE DEF bs
<1>8. bs \in BlockLists /\ \A c \in Channels : Len(bs[c]) = IF c = ch THEN 1 ELSE 0
  <2>1. <<b>> \in Seq(Blocks) /\ <<>> \in Seq(Blocks) /\ Len(<<b>>) = 1 /\ Len(<<>>) = 0
    OBVIOUS
  <2> QED BY <1>7, <2>1 DEF BlockLists
<1>9. cur \in [Channels -> Int] /\ lft \in [Channels -> Int] /\ First.stop - time \in Int
  BY <1>1
<1>10. \A c \in Channels : cur[c] = time /\ lft[c] = First.stop - time
  OBVIOUS
<1> HIDE DEF cur, lft
<1>11. /\ minLeft' \in Int /\ (minLeft' = First.stop - time \/ \E c \in Channels : minLeft' = left'[c])
       /\ \A c \in Channels : current'[c] = cur[c] + Len(bs[c]) /\ left'[c] = lft[c] - Len(bs[c])
  <2>1. PICK low \in Int : low = First.stop - time
    BY <1>9
  <2>2. Push(bs, cur, lft, low)
    BY <1>2, <2>1
  <2>4. bs \in BlockLists /\ cur \in [Channels -> Int] /\ lft \in [Channels -> Int]
    BY <1>8, <1>9
  <2>3. /\ minLeft' \in Int /\ (minLeft' = low \/ \E c \in Channels : minLeft' = left'[c])
        /\ \A c \in Channels : current'[c] = cur[c] + Len(bs[c]) /\ left'[c] = lft[c] - Len(bs[c])
    <3>1. /\ minLeft' \in Int
          /\ minLeft' <= low /\ (minLeft' = low \/ \E c \in Channels : minLeft' = left'[c])
          /\ \A c \in Channels :
               /\ output'[c] = output[c] \o bs[c] /\ current'[c] = cur[c] + Len(bs[c])
               /\ left'[c] = lft[c] - Len(bs[c])
      BY <2>2, <2>4, PushTypes
    <3> QED BY <3>1
  <2> QED BY <2>1, <2>3
<1>12. \A c \in Channels :
         /\ current'[c] = time + (IF c = ch THEN 1 ELSE 0)
         /\ left'[c] = First.stop - time - (IF c = ch THEN 1 ELSE 0)
  BY <1>8, <1>10, <1>11
<1> HIDE DEF ch
<1>13. minLeft' >= First.stop - time - 1
  BY <1>1, <1>11, <1>12
<1>14. \A c \in Channels : current'[c] <= time + 1 /\ left'[c] = First.stop - current'[c]
  BY <1>1, <1>12
<1>15. ASSUME NEW c \in Main, current'[c] = time + 1 PROVE Had(c, time)'
  <2>1. c = ch
    BY <1>12, <1>15 DEF Main
  <2>2. pos' \in 1 .. pos'
    BY <1>3
  <2> QED BY <2>1, <2>2 DEF Had, ch
<1>16. ASSUME NEW c \in Main, NEW d \in Duplicates(c) PROVE left'[d] >= left'[c]
  <2>1. c \in Channels /\ d \in Channels /\ d # ch
    BY <1>4, CopiesNotMain DEF Main
  <2> QED BY <1>1, <1>12, <2>1
<1> QED BY <1>13, <1>14, <1>15, <1>16 DEF Room

-----------------------------------------------------------------------------
\* The next frame that is wanted, if it is expected: it is not too late for its channel.
LEMMA InTime ==
  ASSUME FInv, NoStrayCopies, Sound(recording), interval = 1, Filling, TaskRead, ReadOk,
         NEW t \in Nat, recording[ReadTo].time = t, Expected(t)
  PROVE  \E s \in Nat :
           /\ s <= t /\ Room(s) /\ t < First.stop - 1 /\ t < First.leave - 1 /\ t <= Now
           /\ First.stop \in Nat /\ First.leave \in Nat /\ Now \in Nat
           /\ Got.start = t /\ Got.channel \in Main /\ Got.channel = ChannelOf(recording[ReadTo])
           /\ current[Got.channel] <= t
<1>1. Types /\ pc = "task" /\ isOpen' = isOpen /\ 1 \in DOMAIN Intervals /\ ~eof
  BY TaskState DEF TaskRead, Task
<1>2. isOpen /\ pos > 0
  BY <1>1 DEF Filling
<1>3. PICK n \in Nat : n = Len(recording) /\ DOMAIN recording = 1 .. n /\ pos \in 1 .. n
  BY <1>1, <1>2, NextWanted
<1>12. PICK r \in 1 .. n : r = ReadTo /\ pos \in 1 .. r - 1 /\ Wanted(recording[r])
  BY <1>1, <1>2, <1>3, NextWanted
<1>4. PICK s \in Nat : s = Header /\ s <= t
  <2>1. recording[pos].time \in Nat /\ recording[pos].time <= recording[r].time
    BY <1>1, <1>3, <1>12, TimesInOrder
  <2> QED BY <1>12, <2>1 DEF Header
<1>5. /\ Expected(s) /\ First.stop \in Nat /\ First.leave \in Nat
      /\ t < First.stop - 1 /\ t < First.leave - 1 /\ t <= Now /\ Now \in Nat
  BY <1>1, <1>4, ExpectedBefore
<1>6. Room(s)
  BY <1>1, <1>4, <1>5 DEF Filling
<1>7. Got.start = t /\ Got.channel = ChannelOf(recording[ReadTo])
  <2>1. Allocated \in Elements
    BY TaskState DEF TaskRead
  <2> QED BY <1>1, <1>2, <2>1, FilledType DEF Got
<1>8. Got.channel \in Main /\ Got.channel \in Channels /\ current[Got.channel] \in Int
  BY GotFrame
<1>9. PICK ch \in Main : ch = Got.channel
  BY <1>8
<1>10. ~Had(ch, t)
  <2>1. SUFFICES ASSUME Had(ch, t) PROVE FALSE
    OBVIOUS
  <2>2. PICK p \in 1 .. pos : /\ Wanted(recording[p]) /\ ChannelOf(recording[p]) = ch
                              /\ recording[p].time = t
    BY <2>1 DEF Had
  <2>3. p \in 1 .. n /\ p # r
    BY <1>3, <1>12
  <2>4. ChannelOf(recording[r]) = ch /\ recording[r].time = t
    BY <1>7, <1>9, <1>12
  <2> QED BY <1>3, <1>12, <2>2, <2>3, <2>4 DEF Sound, ComeOnce
<1>11. current[ch] <= t
  <2>1. SUFFICES ASSUME current[ch] > t PROVE FALSE
    BY <1>8, <1>9
  <2>2. current[ch] <= s + 1 /\ current[ch] \in Int
    BY <1>6, <1>8, <1>9 DEF Room
  <2>3. current[ch] = s + 1 /\ s = t
    BY <1>4, <2>1, <2>2
  <2>4. Had(ch, s)
    BY <1>6, <2>3 DEF Room
  <2> QED BY <1>10, <2>3, <2>4
<1> QED BY <1>4, <1>5, <1>6, <1>7, <1>8, <1>9, <1>11

\* So it is pushed.
LEMMA IsPushed ==
  ASSUME FInv, NoStrayCopies, Sound(recording), interval = 1, Filling, TaskRead, ReadOk,
         TaskLeft \/ TaskFuture \/ TaskPast \/ TaskBeyond
  PROVE  ~Expected(recording[ReadTo].time)
<1>1. SUFFICES ASSUME Expected(recording[ReadTo].time) PROVE FALSE
  OBVIOUS
<1>2. Types
  BY DEF FInv
<1>3. PICK t \in Nat : t = recording[ReadTo].time
  BY <1>2, NextWanted, TimesInOrder
<1>4. PICK s \in Nat :
        /\ s <= t /\ Room(s) /\ t < First.stop - 1 /\ t < First.leave - 1 /\ t <= Now
        /\ First.stop \in Nat /\ First.leave \in Nat /\ Now \in Nat
        /\ Got.start = t /\ Got.channel \in Main /\ current[Got.channel] <= t
  BY <1>1, <1>3, InTime
<1>5. PICK ch \in Channels : ch = Got.channel
  BY <1>4 DEF Main
<1>6. PICK cur \in Int, l \in Int : cur = current[ch] /\ l = left[ch]
  BY <1>5, GotFrame
<1>7. cur <= t /\ l = First.stop - cur
  BY <1>4, <1>5, <1>6 DEF Room
<1>8. Interval = First
  BY DEF Interval, First
<1>9. ~(cur >= Interval.leave)
  BY <1>4, <1>6, <1>7, <1>8
<1>10. Missing = t - cur /\ t - cur < l
  <2>1. Missing = Min({t - cur, l})
    BY <1>4, <1>5, <1>6 DEF Missing
  <2>2. t - cur \in Int /\ t - cur < l
    BY <1>4, <1>6, <1>7
  <2> QED BY <1>6, <2>1, <2>2, MinOfTwo
<1>11. PICK m \in Int : m = Missing /\ m = t - cur
  BY <1>6, <1>10
<1>12. ~TaskLeft
  BY <1>5, <1>6, <1>9 DEF TaskLeft
<1>13. ~TaskFuture
  BY <1>4 DEF TaskFuture
<1>14. ~TaskPast
  BY <1>4, <1>6, <1>7, <1>11 DEF TaskPast
<1>15. ~TaskBeyond
  BY <1>5, <1>6, <1>10, <1>11 DEF TaskBeyond
<1> QED BY <1>12, <1>13, <1>14, <1>15

\* A read that finds no frame that is expected.
LEMMA ReadKept ==
  ASSUME FInv, Sound(recording), interval = 1, Filling, TaskRead,
         ReadOk => ~Expected(recording[ReadTo].time),
         NEW bs \in BlockLists, \A c \in Channels : output'[c] = output[c] \o bs[c]
  PROVE  Filling'
<1>1. /\ Types /\ pc = "task" /\ pc' = "task" /\ isOpen' = isOpen /\ recording' = recording
      /\ ~eof /\ pos' = LastRead /\ eof' = ReadAtEnd
  BY TaskState DEF TaskRead, Task
<1>2. Kept /\ isOpen /\ pos > 0
  BY <1>1 DEF Filling
<1>3. PICK n \in Nat : n = Len(recording) /\ pos \in 1 .. n
  <2>1. Len(recording) \in Nat /\ pos \in 0 .. Len(recording)
    BY <1>1, NextWanted
  <2> QED BY <1>2, <2>1
<1>4. /\ pos' \in pos .. n
      /\ \A q \in pos + 1 .. pos' : ~Wanted(recording[q]) \/ ~Expected(recording[q].time)
      /\ ~eof' => ReadOk /\ pos' = ReadTo
      /\ eof' => pos' = n
  <2>1. CASE ReadOk
    <3>1. PICK r \in pos + 1 .. n : r = ReadTo /\ pos' = r /\ ~eof'
      BY <1>1, <1>3, <2>1, NextWanted
    <3>2. ASSUME NEW q \in pos + 1 .. r PROVE ~Wanted(recording[q]) \/ ~Expected(recording[q].time)
      <4>1. CASE q = r
        BY <2>1, <3>1, <4>1
      <4>2. CASE q # r
        <5>1. q \in pos + 1 .. r - 1
          BY <1>3, <4>2
        <5> QED BY <1>1, <2>1, <3>1, <5>1, NextWanted
      <4> QED BY <4>1, <4>2
    <3> QED BY <1>3, <2>1, <3>1, <3>2
  <2>2. CASE ~ReadOk
    <3>1. eof' /\ pos' = n /\ \A q \in pos + 1 .. n : ~Wanted(recording[q])
      BY <1>1, <1>3, <2>2, NextWanted
    <3> QED BY <1>3, <3>1
  <2> QED BY <2>1, <2>2
<1>5. Kept'
  <2>1. \A q \in pos + 1 .. pos' : ~Claimed(q)
    BY <1>4 DEF Claimed
  <2> QED BY <1>1, <1>2, <1>3, <1>4, <2>1, KeptLater
<1>6. ~eof' => pos' > 0 /\ ~Expected(Header)'
  BY <1>1, <1>3, <1>4 DEF Header
<1> QED BY <1>1, <1>2, <1>3, <1>4, <1>5, <1>6 DEF Filling, Header

-----------------------------------------------------------------------------
\* A read that fails, or that finds a frame nobody expects.
LEMMA TaskDropKept ==
  ASSUME FInv, NoStrayCopies, Sound(recording), interval = 1, Filling,
         TaskReadFails \/ TaskLeft \/ TaskFuture \/ TaskPast \/ TaskBeyond
  PROVE  Filling'
<1>1. TaskRead /\ (ReadOk <=> ~TaskReadFails)
  BY DEF TaskReadFails, TaskLeft, TaskFuture, TaskPast, TaskBeyond, InScan
<1>2. Task /\ Types /\ interval' = interval
  BY <1>1, TaskState DEF TaskRead
<1>3. ReadOk => ~Expected(recording[ReadTo].time)
  BY <1>1, IsPushed
<1> DEFINE Grows == \E bs \in BlockLists : \A c \in Channels : output'[c] = output[c] \o bs[c]
<1>4. ASSUME NEW bs \in BlockLists, Push(bs, current, left, minLeft) PROVE Grows
  BY <1>2, <1>4, PushTypes DEF Types
<1>5. ASSUME NEW e \in Elements, NEW c \in Channels, NEW n \in Nat, PushRandom(e, c, n) PROVE Grows
  <2>1. PICK s \in Seq(Blocks) : s = Random(e, c, n)
    BY <1>2, RandomBlocks
  <2> DEFINE bs == [d \in Channels |-> IF d = c THEN s ELSE <<>>]
  <2>2. Push(bs, current, left, minLeft)
    BY <1>5, <2>1 DEF PushRandom, InChannel
  <2>3. bs \in BlockLists
    BY DEF BlockLists
  <2> HIDE DEF bs, Grows
  <2> QED BY <1>4, <2>2, <2>3
<1>6. SkipFrames \in Nat /\ 1 \in Channels /\ Allocated \in Elements
  BY <1>2, BlockNumbers, ChannelSet, TaskState
<1>7. ReadOk => Got \in Elements /\ Got.channel \in Channels
  BY <1>1, GotFrame
<1>8. Grows
  <2> HIDE DEF Grows
  <2>1. CASE TaskReadFails
    BY <1>5, <1>6, <2>1 DEF TaskReadFails
  <2>2. CASE TaskLeft
    BY <1>1, <1>5, <1>6, <1>7, <2>2 DEF TaskLeft
  <2>3. CASE TaskFuture
    BY <1>5, <1>7, <2>3 DEF TaskFuture, InScan
  <2>4. CASE TaskPast
    <3> DEFINE bs == [c \in Channels |-> <<>>]
    <3>1. bs \in BlockLists
      BY DEF BlockLists
    <3>2. output' = output
      BY <2>4 DEF TaskPast
    <3>3. ASSUME NEW c \in Channels PROVE output'[c] = output[c] \o bs[c]
      <4>1. PICK s \in Seq(Blocks) : s = output[c]
        BY <1>2 DEF Types
      <4>2. bs[c] = <<>> /\ s \o <<>> = s
        OBVIOUS
      <4> QED BY <3>2, <4>1, <4>2
    <3> HIDE DEF bs
    <3> QED BY <3>1, <3>3 DEF Grows
  <2>5. CASE TaskBeyond
    <3>1. ReadOk /\ Missing >= 0
      BY <2>5 DEF TaskBeyond, InScan
    <3>2. PICK n \in Nat : n = Missing
      BY <1>1, <3>1, MissingNumber
    <3>3. PICK s \in Seq(Blocks) : s = Random(Got, Got.channel, Missing)
      BY <1>2, <1>7, <3>1, <3>2, RandomBlocks
    <3> DEFINE bs == [d \in Channels |-> IF d = Got.channel THEN s ELSE <<>>]
    <3>4. Push(bs, current, left, minLeft)
      BY <2>5, <3>3 DEF TaskBeyond, InChannel
    <3>5. bs \in BlockLists
      BY DEF BlockLists
    <3> HIDE DEF bs
    <3> QED BY <1>4, <3>4, <3>5
  <2> QED BY <2>1, <2>2, <2>3, <2>4, <2>5
<1> QED BY <1>1, <1>3, <1>8, ReadKept

\* The skew allowed is the full one as long as no channel is at the end.
LEMMA SkewFacts ==
  ASSUME Types
  PROVE  /\ 2 * NSkew \in Nat /\ 2 * NSkew >= 2
         /\ \A c \in Channels :
              /\ left[c] \in Int /\ Skew(c) \in Nat /\ Skew(c) <= 2 * NSkew
              /\ left[c] > 2 * NSkew => Skew(c) = 2 * NSkew
              /\ left[c] > 0 /\ left[c] <= 2 * NSkew => Skew(c) = left[c] - 1
<1>1. PICK k \in Nat : k = 2 * NSkew /\ k >= 2
  BY FormatReaderAssumption
<1>2. ASSUME NEW c \in Channels
      PROVE  /\ left[c] \in Int /\ Skew(c) \in Nat /\ Skew(c) <= k
             /\ left[c] > k => Skew(c) = k
             /\ left[c] > 0 /\ left[c] <= k => Skew(c) = left[c] - 1
  <2>1. PICK l \in Int : l = left[c]
    BY DEF Types
  <2>2. PICK a \in Int : a = l - 1
    OBVIOUS
  <2>3. PICK m \in Int : m = Min({k, a}) /\ m = IF k <= a THEN k ELSE a
    BY MinOfTwo
  <2>4. Skew(c) = IF 0 >= m THEN 0 ELSE m
    <3>1. Skew(c) = Max({0, m})
      BY <1>1, <2>1, <2>2, <2>3 DEF Skew
    <3> QED BY <3>1, MaxOfTwo
  <2> QED BY <2>1, <2>2, <2>3, <2>4
<1> QED BY <1>1, <1>2

\* What pushing within an interval does to the numbers.
LEMMA PushNumbers ==
  ASSUME Types, NEW bs \in BlockLists, Push(bs, current, left, minLeft)
  PROVE  /\ minLeft' \in Int /\ minLeft' <= minLeft
         /\ minLeft' = minLeft \/ \E c \in Channels : minLeft' = left'[c]
         /\ \A c \in Channels :
              /\ Len(bs[c]) \in Nat /\ current[c] \in Int /\ left[c] \in Int
              /\ current'[c] = current[c] + Len(bs[c]) /\ left'[c] = left[c] - Len(bs[c])
<1>1. current \in [Channels -> Int] /\ left \in [Channels -> Int] /\ minLeft \in Int
  BY DEF Types
<1>2. /\ minLeft' \in Int
      /\ \A c \in Channels :
           /\ output'[c] = output[c] \o bs[c] /\ current'[c] = current[c] + Len(bs[c])
           /\ left'[c] = left[c] - Len(bs[c])
      /\ minLeft' <= minLeft /\ (minLeft' = minLeft \/ \E c \in Channels : minLeft' = left'[c])
  BY <1>1, PushTypes
<1>3. \A c \in Channels : Len(bs[c]) \in Nat
  BY DEF BlockLists
<1> QED BY <1>1, <1>2, <1>3

\* The frame that comes next.
LEMMA FrameRoom ==
  ASSUME FInv, NoStrayCopies, Sound(recording), interval = 1, Filling, TaskFrame,
         NEW t \in Nat, recording[ReadTo].time = t, Expected(t)
  PROVE  Room(t)'
<1>1. TaskRead /\ ReadOk /\ Lagging = {}
  BY DEF TaskFrame, TaskRead, InScan
<1>2. Types /\ recording' = recording /\ interval' = interval
  BY <1>1, TaskState DEF TaskRead, Task
<1>3. PICK s \in Nat :
        /\ s <= t /\ Room(s) /\ t < First.stop - 1 /\ First.stop \in Nat
        /\ Got.start = t /\ Got.channel \in Main /\ Got.channel = ChannelOf(recording[ReadTo])
        /\ current[Got.channel] <= t
  BY <1>1, InTime
<1>4. PICK ch \in Main : ch = Got.channel
  BY <1>3
<1>5. Main \subseteq Channels
  BY DEF Main
<1>6. PICK bs : FramePush(bs)
  BY FramePushed
<1>7. /\ bs \in BlockLists /\ Push(bs, current, left, minLeft)
      /\ current \in [Channels -> Int] /\ left \in [Channels -> Int] /\ minLeft \in Int
  BY <1>2, <1>6 DEF FramePush, Types
<1>8. /\ Len(bs[ch]) = t - current[ch] + 1
      /\ \A c \in Channels : c # ch => Len(bs[c]) = IF c \in Duplicates(ch) THEN 1 ELSE 0
  <2>1. Len(<<Block(Got)>>) = 1 /\ Len(<<>>) = 0
    OBVIOUS
  <2> QED BY <1>3, <1>4, <1>6, <2>1 DEF FramePush
<1>9. /\ minLeft' \in Int /\ (minLeft' = minLeft \/ \E c \in Channels : minLeft' = left'[c])
      /\ \A c \in Channels :
           /\ Len(bs[c]) \in Nat /\ current[c] \in Int /\ left[c] \in Int
           /\ current'[c] = current[c] + Len(bs[c]) /\ left'[c] = left[c] - Len(bs[c])
  BY <1>2, <1>7, PushNumbers
<1>21. PICK stop \in Nat : stop = First.stop
  BY <1>3
<1>10. /\ minLeft >= stop - s - 1
       /\ \A c \in Channels : current[c] \in Int /\ current[c] <= s + 1 /\ left[c] = stop - current[c]
       /\ \A c \in Main : current[c] = s + 1 => Had(c, s)
       /\ \A c \in Main : \A d \in Duplicates(c) : left[d] >= left[c] \/ left[d] >= minLeft + 2 * NSkew
  BY <1>3, <1>7, <1>21 DEF Room
<1>11. ASSUME NEW c \in Main, NEW d \in Duplicates(c)
       PROVE  d \in Channels /\ d \notin Main /\ left[d] >= left[c] /\ left[d] \in Int /\ left[c] \in Int
  <2>1. d \in Channels /\ d \notin Main /\ c \in Channels
    BY <1>5, CopiesNotMain
  <2>2. ~(left[c] > minLeft + Skew(c))
    BY <1>1, <2>1 DEF Lagging
  <2>3. PICK k \in Nat : k = 2 * NSkew
    BY <1>2, SkewFacts
  <2>4. left[c] \in Int /\ left[d] \in Int /\ Skew(c) \in Nat /\ Skew(c) <= k
    BY <1>2, <2>1, <2>3, SkewFacts
  <2>5. left[d] >= left[c] \/ left[d] >= minLeft + k
    BY <1>10, <2>3
  <2> QED BY <1>7, <2>1, <2>2, <2>4, <2>5
<1>12. current'[ch] = t + 1 /\ left'[ch] = stop - t - 1
  <2>1. PICK cur \in Int, len \in Nat : cur = current[ch] /\ len = Len(bs[ch])
    BY <1>5, <1>9
  <2>2. current'[ch] = cur + len /\ left'[ch] = (stop - cur) - len
    BY <1>5, <1>9, <1>10, <2>1
  <2>3. len = t - cur + 1
    BY <1>8, <2>1
  <2> QED BY <2>2, <2>3
<1>13. \A d \in Duplicates(ch) : current'[d] = current[d] + 1 /\ left'[d] = left[d] - 1 /\ current[d] <= t
  <2>1. TAKE d \in Duplicates(ch)
  <2>2. d \in Channels /\ d # ch /\ left[d] >= left[ch]
    BY <1>11
  <2>3. current[d] <= current[ch] /\ current[ch] <= t
    BY <1>3, <1>4, <1>5, <1>10, <2>2
  <2>4. Len(bs[d]) = 1
    BY <1>8, <2>2
  <2>5. current[d] <= t
    BY <1>4, <1>5, <1>10, <2>2, <2>3
  <2> QED BY <1>9, <2>2, <2>4, <2>5
<1>14. \A c \in Channels : c # ch /\ c \notin Duplicates(ch) => current'[c] = current[c] /\ left'[c] = left[c]
  <2>1. TAKE c \in Channels
  <2>2. SUFFICES ASSUME c # ch /\ c \notin Duplicates(ch)
                 PROVE  current'[c] = current[c] /\ left'[c] = left[c]
    OBVIOUS
  <2>3. Len(bs[c]) = 0
    BY <1>8, <2>2
  <2> QED BY <1>9, <2>3
<1>15. \A c \in Channels : current'[c] <= t + 1 /\ left'[c] = stop - current'[c] /\ current'[c] \in Int
  <2>1. TAKE c \in Channels
  <2>2. CASE c = ch
    BY <1>3, <1>12, <2>2
  <2>3. CASE c \in Duplicates(ch)
    BY <1>3, <1>10, <1>13, <2>3
  <2>4. CASE c # ch /\ c \notin Duplicates(ch)
    BY <1>3, <1>10, <1>14, <2>4
  <2> QED BY <2>2, <2>3, <2>4
<1>16. minLeft' >= stop - t - 1
  <2>1. minLeft >= stop - t - 1
    BY <1>3, <1>7, <1>10
  <2>2. \A c \in Channels : left'[c] >= stop - t - 1
    BY <1>15
  <2> QED BY <1>9, <2>1, <2>2
<1>17. PICK n \in Nat : n = Len(recording) /\ pos \in 0 .. n
  BY <1>2, NextWanted
<1>18. PICK r \in pos + 1 .. n : r = ReadTo /\ pos' = r /\ Wanted(recording[r])
  BY <1>1, <1>2, <1>17, NextWanted DEF TaskRead
<1>19. ASSUME NEW c \in Main, current'[c] = t + 1 PROVE Had(c, t)'
  <2>1. CASE c = ch
    <3>1. r \in 1 .. pos' /\ Wanted(recording[r]) /\ ChannelOf(recording[r]) = c /\ recording[r].time = t
      BY <1>3, <1>4, <1>17, <1>18, <2>1
    <3> QED BY <1>2, <3>1 DEF Had
  <2>2. CASE c # ch
    <3>1. c \in Channels /\ c \notin Duplicates(ch)
      BY <1>5, <1>11
    <3>2. current[c] = t + 1 /\ s = t
      BY <1>3, <1>10, <1>14, <1>19, <2>2, <3>1
    <3>3. Had(c, t)
      BY <1>10, <3>2
    <3>4. PICK p \in 1 .. pos : /\ Wanted(recording[p]) /\ ChannelOf(recording[p]) = c
                                /\ recording[p].time = t
      BY <3>3 DEF Had
    <3>5. p \in 1 .. pos'
      BY <1>17, <1>18
    <3> QED BY <1>2, <3>4, <3>5 DEF Had
  <2> QED BY <2>1, <2>2
<1>20. ASSUME NEW c \in Main, NEW d \in Duplicates(c) PROVE left'[d] >= left'[c]
  <2>1. d \in Channels /\ d \notin Main /\ left[d] >= left[c] /\ left[d] \in Int /\ left[c] \in Int
    BY <1>11
  <2>2. CASE c = ch
    BY <1>3, <1>4, <1>5, <1>10, <1>12, <1>13, <2>1, <2>2
  <2>3. CASE c # ch
    <3>1. d \notin Duplicates(ch) /\ c \notin Duplicates(ch) /\ d # ch /\ c \in Channels
      BY <1>5, <2>1, <2>3 DEF Duplicates, Main
    <3> QED BY <1>14, <2>1, <2>3, <3>1
  <2> QED BY <2>2, <2>3
<1> QED BY <1>15, <1>16, <1>19, <1>20, <1>21 DEF Room

LEMMA FrameKept ==
  ASSUME FInv, NoStrayCopies, Sound(recording), interval = 1, Filling, TaskFrame
  PROVE  Filling'
<1>1. TaskRead /\ ReadOk
  BY DEF TaskFrame, InScan
<1>2. /\ Types /\ recording' = recording /\ interval' = interval /\ pc' = "task" /\ isOpen' = isOpen
      /\ ~eof /\ pos' = LastRead /\ eof' = ReadAtEnd
  BY <1>1, TaskState DEF TaskRead, Task
<1>3. PICK bs : FramePush(bs)
  BY FramePushed
<1>4. bs \in BlockLists /\ Push(bs, current, left, minLeft)
  BY <1>3 DEF FramePush
<1>5. \A c \in Channels : output'[c] = output[c] \o bs[c]
  BY <1>2, <1>4, PushTypes DEF Types
<1>6. CASE ~Expected(recording[ReadTo].time)
  BY <1>1, <1>4, <1>5, <1>6, ReadKept
<1>7. CASE Expected(recording[ReadTo].time)
  <2>1. PICK n \in Nat : n = Len(recording) /\ pos \in 0 .. n
    BY <1>2, NextWanted
  <2>2. PICK r \in pos + 1 .. n :
          /\ r = ReadTo /\ pos' = r /\ Wanted(recording[r]) /\ ~eof'
          /\ \A q \in pos + 1 .. r - 1 : ~Wanted(recording[q])
    BY <1>1, <1>2, <2>1, NextWanted
  <2>3. PICK t \in Nat : t = recording[r].time
    BY <1>2, <2>1, <2>2, TimesInOrder
  <2>4. Room(t)'
    BY <1>7, <2>2, <2>3, FrameRoom
  <2>5. PICK s \in Nat : Got.start = t /\ Got.channel \in Main /\ Got.channel = ChannelOf(recording[r])
    BY <1>1, <1>7, <2>2, <2>3, InTime
  <2>6. PICK ch \in Channels : ch = Got.channel /\ ch = ChannelOf(recording[r])
    BY <2>5 DEF Main
  <2>7. ASSUME ~recording[r].invalid PROVE InOutput(recording[r])'
    <3>1. PICK old \in Seq(Blocks), new \in Seq(Blocks) : old = output[ch] /\ new = bs[ch]
      BY <1>2, <1>4 DEF Types, BlockLists
    <3>2. new # <<>> /\ new[Len(new)] = Block(Got)
      BY <1>3, <2>6, <3>1 DEF FramePush
    <3>3. Len(old) \in Nat /\ Len(new) \in Nat /\ Len(new) > 0
      BY <3>2, EmptySeq
    <3>4. PICK i \in DOMAIN (old \o new) : (old \o new)[i] = new[Len(new)]
      <4>1. PICK m \in Nat, k \in Nat \ {0} : m = Len(old) /\ k = Len(new)
        BY <3>3
      <4>2. m + k \in DOMAIN (old \o new) /\ (old \o new)[m + k] = new[k]
        BY <4>1
      <4> QED BY <4>1, <4>2
    <3>5. Block(Got).start = t /\ ~Block(Got).invalid
      <4>1. PICK x, y : Got = [Allocated EXCEPT !.start = x, !.channel = y,
                                                !.invalid = @ \/ recording[r].invalid]
        BY <2>2 DEF Got, Filled
      <4>2. ~Got.invalid
        BY <2>7, <4>1 DEF Allocated
      <4> QED BY <2>5, <4>2 DEF Block
    <3>6. i \in DOMAIN output'[ch] /\ output'[ch][i] = Block(Got)
      BY <1>5, <3>1, <3>2, <3>4
    <3>7. ChannelOf(recording'[r]) = ch /\ recording'[r].time = t
      BY <1>2, <2>3, <2>6
    <3> QED BY <1>2, <3>5, <3>6, <3>7 DEF InOutput
  <2>8. \A q \in pos + 1 .. pos' : Claimed(q) => InOutput(recording[q])'
    <3>1. SUFFICES ASSUME NEW q \in pos + 1 .. pos', Claimed(q) PROVE InOutput(recording[q])'
      OBVIOUS
    <3>2. Wanted(recording[q]) /\ ~recording[q].invalid
      BY <3>1 DEF Claimed
    <3>3. q = r
      BY <2>1, <2>2, <3>2
    <3> QED BY <2>7, <3>2, <3>3
  <2>9. Kept /\ isOpen
    BY <1>2 DEF Filling
  <2>10. pos' \in pos .. Len(recording) /\ pos' > 0
    BY <2>1, <2>2
  <2>11. Kept'
    BY <1>2, <1>4, <1>5, <2>8, <2>9, <2>10, KeptLater
  <2>12. \A time \in Nat : Header' = time => time = t
    BY <1>2, <2>2, <2>3 DEF Header
  <2> QED BY <1>2, <2>2, <2>4, <2>9, <2>10, <2>11, <2>12 DEF Filling
<1> QED BY <1>6, <1>7

\* Sums as they come up below.
LEMMA Sums ==
  ASSUME NEW stop \in Nat, NEW k \in Nat, NEW m \in Int, NEW l \in Int, NEW cur \in Int, NEW n \in Nat,
         NEW s \in Nat, l = stop - cur, n = l - m - k
  PROVE  /\ l - n = m + k /\ cur + n = stop - m - k /\ stop - m - k \in Int
         /\ m + k = stop - (cur + n)
         /\ k >= 2 /\ m >= stop - s - 1 => cur + n < s + 1
OBVIOUS

\* Blocks for a channel that lags behind do not take it past the last frame read.
LEMMA SkewRoom ==
  ASSUME FInv, interval = 1, TaskSkew, NEW s \in Nat, Room(s), s < First.stop - 1, First.stop \in Nat
  PROVE  Room(s)'
<1>1. Task /\ Lagging # {} /\ pos' = pos
  BY DEF TaskSkew
<1>2. Types /\ recording' = recording /\ interval' = interval /\ Allocated \in Elements
  BY <1>1, TaskState DEF Task
<1>3. Lagging \in SUBSET Nat /\ Lagging \subseteq Channels
  BY ChannelSet DEF Lagging
<1>4. PICK c \in Lagging : c = Min(Lagging)
  BY <1>1, <1>3, MinNatural
<1>5. PICK stop \in Nat, k \in Nat, m \in Int, l \in Int, w \in Nat :
        /\ stop = First.stop /\ k = 2 * NSkew /\ m = minLeft /\ l = left[c] /\ w = Skew(c)
        /\ k >= 2 /\ w <= k /\ (l > k => w = k) /\ (l > 0 /\ l <= k => w = l - 1)
  BY <1>2, <1>3, SkewFacts DEF Types
<1>6. l > m + w /\ m >= stop - s - 1 /\ m >= 1
  BY <1>4, <1>5 DEF Lagging, Room
<1>7. w = k
  BY <1>5, <1>6
<1>8. PICK n \in Nat : n = l - m - k
  BY <1>5, <1>6, <1>7
<1>9. PushRandom(Allocated, c, n)
  BY <1>4, <1>5, <1>7, <1>8 DEF TaskSkew
<1>10. PICK b \in Seq(Blocks) : b = Random(Allocated, c, n) /\ Len(b) = n
  BY <1>2, <1>3, RandomBlocks
<1> DEFINE bs == [d \in Channels |-> IF d = c THEN b ELSE <<>>]
<1>11. Push(bs, current, left, minLeft) /\ bs \in BlockLists
  BY <1>9, <1>10 DEF PushRandom, InChannel, BlockLists
<1>12. \A d \in Channels : Len(bs[d]) = IF d = c THEN n ELSE 0
  BY <1>10
<1> HIDE DEF bs
<1>13. /\ minLeft' \in Int /\ minLeft' <= m /\ (minLeft' = m \/ \E d \in Channels : minLeft' = left'[d])
       /\ \A d \in Channels :
            /\ current[d] \in Int /\ left[d] \in Int
            /\ current'[d] = current[d] + Len(bs[d]) /\ left'[d] = left[d] - Len(bs[d])
  BY <1>2, <1>5, <1>11, PushNumbers
<1>14. /\ \A d \in Channels : current[d] <= s + 1 /\ left[d] = stop - current[d]
       /\ \A d \in Main : current[d] = s + 1 => Had(d, s)
       /\ \A x \in Main : \A d \in Duplicates(x) : left[d] >= left[x] \/ left[d] >= m + k
  BY <1>5 DEF Room
<1>15. /\ left'[c] = m + k
       /\ current'[c] < s + 1 /\ left'[c] = stop - current'[c] /\ current'[c] \in Int
  <2>1. PICK cur \in Int : cur = current[c] /\ l = stop - cur
    BY <1>3, <1>5, <1>13, <1>14
  <2>2. Len(bs[c]) = n /\ c \in Channels
    BY <1>3, <1>12
  <2>3. left'[c] = l - n /\ current'[c] = cur + n
    BY <1>5, <1>13, <2>1, <2>2
  <2>4. stop \in Nat /\ k \in Nat /\ m \in Int /\ l \in Int /\ cur \in Int /\ n \in Nat
    BY <1>5, <1>8, <2>1
  <2>5. l = stop - cur /\ n = l - m - k
    BY <1>8, <2>1
  <2>6. k >= 2 /\ m >= stop - s - 1
    BY <1>5, <1>6
  <2>7. l - n = m + k /\ m + k = stop - (cur + n)
    BY <2>4, <2>5
  <2>8. cur + n < s + 1
    BY <2>4, <2>5, <2>6
  <2> QED BY <2>3, <2>4, <2>7, <2>8
<1>16. \A d \in Channels : d # c => left'[d] = left[d] /\ current'[d] = current[d]
  <2>1. TAKE d \in Channels
  <2>2. SUFFICES ASSUME d # c PROVE left'[d] = left[d] /\ current'[d] = current[d]
    OBVIOUS
  <2>3. Len(bs[d]) = 0
    BY <1>12, <2>2
  <2> QED BY <1>13, <2>3
<1>18. \A d \in Channels : current'[d] <= s + 1 /\ left'[d] = stop - current'[d] /\ current'[d] \in Int
  <2>1. TAKE d \in Channels
  <2>2. CASE d = c
    <3>1. PICK cur \in Int : cur = current'[c]
      BY <1>15
    <3>2. cur < s + 1 => cur <= s + 1
      OBVIOUS
    <3> QED BY <1>15, <2>2, <3>1, <3>2
  <2>3. CASE d # c
    <3>1. current[d] <= s + 1 /\ left[d] = stop - current[d] /\ current[d] \in Int
      BY <1>13, <1>14, <2>1
    <3>2. left'[d] = left[d] /\ current'[d] = current[d]
      BY <1>16, <2>1, <2>3
    <3> QED BY <3>1, <3>2, Zenon
  <2> QED BY <2>2, <2>3
<1>19. minLeft' >= stop - s - 1
  <2>1. \A d \in Channels : left'[d] >= stop - s - 1
    BY <1>18
  <2> QED BY <1>6, <1>13, <2>1
<1>20. ASSUME NEW x \in Main, current'[x] = s + 1 PROVE Had(x, s)'
  <2>1. x \in Channels /\ x # c
    BY <1>15, <1>20 DEF Main
  <2>2. Had(x, s)
    BY <1>14, <1>16, <1>20, <2>1
  <2> QED BY <1>1, <1>2, <2>2 DEF Had
<1>21. ASSUME NEW x \in Main, NEW d \in Duplicates(x)
       PROVE  left'[d] >= left'[x] \/ left'[d] >= minLeft' + k
  <2>1. x \in Channels /\ d \in Channels /\ d # x
    BY DEF Main, Duplicates
  <2>2. left[d] \in Int /\ left[x] \in Int /\ (left[d] >= left[x] \/ left[d] >= m + k)
    BY <1>13, <1>14, <2>1
  <2>3. CASE d = c
    BY <1>5, <1>13, <1>15, <2>3
  <2>4. CASE x = c
    <3>1. PICK a \in Int, z \in Int : a = left[d] /\ z = minLeft'
      BY <1>13, <2>2
    <3>2. l = left[x]
      BY <1>5, <2>4
    <3>3. a >= m + k
      BY <1>6, <1>7, <2>2, <3>1, <3>2
    <3>4. left'[d] = a /\ z <= m
      BY <1>13, <1>16, <2>1, <2>4, <3>1
    <3>5. a >= z + k
      BY <3>3, <3>4
    <3> QED BY <3>1, <3>4, <3>5
  <2>5. CASE d # c /\ x # c
    BY <1>5, <1>13, <1>16, <2>1, <2>2, <2>5
  <2> QED BY <2>3, <2>4, <2>5
<1> QED BY <1>5, <1>18, <1>19, <1>20, <1>21 DEF Room

LEMMA SkewKept ==
  ASSUME FInv, Sound(recording), interval = 1, Filling, TaskSkew
  PROVE  Filling'
<1>1. Task /\ pos' = pos /\ eof' = eof /\ ~eof
  BY DEF TaskSkew
<1>2. /\ Types /\ recording' = recording /\ interval' = interval /\ pc' = "task" /\ isOpen' = isOpen
      /\ Allocated \in Elements /\ 1 \in DOMAIN Intervals
  BY <1>1, TaskState DEF Task
<1>3. PICK c \in Channels, n \in Nat : PushRandom(Allocated, c, n)
  <2>1. Lagging \in SUBSET Nat /\ Lagging \subseteq Channels /\ Lagging # {}
    BY ChannelSet DEF Lagging, TaskSkew
  <2>2. PICK c \in Channels : c = Min(Lagging) /\ c \in Lagging
    BY <2>1, MinNatural
  <2>3. left[c] > minLeft + Skew(c) /\ left[c] \in Int /\ minLeft \in Int /\ Skew(c) \in Nat
    BY <1>2, <2>2, SkewFacts DEF Lagging, Types
  <2>4. PICK n \in Nat : n = left[c] - minLeft - Skew(c)
    BY <2>3
  <2>5. PushRandom(Allocated, c, n)
    BY <2>2, <2>4 DEF TaskSkew
  <2> QED BY <2>5
<1>4. PICK b \in Seq(Blocks) : b = Random(Allocated, c, n)
  BY <1>2, RandomBlocks
<1> DEFINE bs == [d \in Channels |-> IF d = c THEN b ELSE <<>>]
<1>5. Push(bs, current, left, minLeft) /\ bs \in BlockLists
  BY <1>3, <1>4 DEF PushRandom, InChannel, BlockLists
<1> HIDE DEF bs
<1>6. \A d \in Channels : output'[d] = output[d] \o bs[d]
  BY <1>2, <1>5, PushTypes DEF Types
<1>7. Kept /\ isOpen /\ pos > 0
  BY <1>1 DEF Filling
<1>8. Kept'
  <2>1. PICK n1 \in Nat : n1 = Len(recording) /\ pos \in 0 .. n1
    BY <1>2, NextWanted
  <2>2. pos' \in pos .. Len(recording) /\ \A q \in pos + 1 .. pos' : FALSE
    BY <1>1, <2>1
  <2> QED BY <1>2, <1>5, <1>6, <1>7, <2>2, KeptLater
<1>9. ASSUME NEW time \in Nat, Header' = time, Expected(time) PROVE Room(time)'
  <2>1. Header = time
    BY <1>1, <1>2, <1>9 DEF Header
  <2>2. Room(time)
    BY <1>1, <1>9, <2>1 DEF Filling
  <2>3. First.stop \in Nat /\ time < First.stop - 1
    BY <1>2, <1>9, ExpectedBefore
  <2> QED BY <2>2, <2>3, SkewRoom
<1> QED BY <1>1, <1>2, <1>7, <1>8, <1>9 DEF Filling

\* Once the recording is at its end there are no frames left to lose.
LEMMA EofKept ==
  ASSUME FInv, Sound(recording), interval = 1, Filling, TaskEof
  PROVE  Filling'
<1> DEFINE late == {c \in Channels : current[c] < Interval.stop}
           bs == [c \in Channels |-> IF c \in late THEN Random(Allocated, c, 1) ELSE <<>>]
<1>1. Task /\ pos' = pos /\ eof' = eof /\ eof /\ Push(bs, current, left, minLeft)
  BY DEF TaskEof
<1>2. /\ Types /\ recording' = recording /\ interval' = interval /\ pc' = "task"
      /\ Allocated \in Elements
  BY <1>1, TaskState DEF Task
<1>3. bs \in BlockLists
  <2>1. \A c \in Channels : Random(Allocated, c, 1) \in Seq(Blocks)
    BY <1>2, RandomBlocks
  <2> HIDE DEF late
  <2> QED BY <2>1 DEF BlockLists
<1> HIDE DEF bs
<1>4. \A d \in Channels : output'[d] = output[d] \o bs[d]
  BY <1>1, <1>2, <1>3, PushTypes DEF Types
<1>5. Kept /\ pos = Len(recording)
  BY <1>1 DEF Filling
<1>6. Kept'
  <2>1. PICK n \in Nat : n = Len(recording) /\ pos \in 0 .. n
    BY <1>2, NextWanted
  <2>2. pos' \in pos .. Len(recording) /\ \A q \in pos + 1 .. pos' : FALSE
    BY <1>1, <2>1
  <2> QED BY <1>2, <1>3, <1>4, <1>5, <2>2, KeptLater
<1> QED BY <1>1, <1>2, <1>5, <1>6 DEF Filling

-----------------------------------------------------------------------------
\* The start of the first interval.
LEMMA OpenFailsKInv == FInv /\ KInv /\ OpenFails => KInv'
<1>1. SUFFICES ASSUME FInv, KInv, OpenFails PROVE KInv'
  OBVIOUS
<1>2. /\ Fetch /\ Types /\ Read(element) /\ ~ReadOk /\ interval' = interval + 1 /\ interval \in Nat
      /\ pc = "fetch" /\ pc' = "task" /\ recording' = recording
  BY <1>1 DEF OpenFails, Fetch, FInv, Types
<1>3. SUFFICES ASSUME Sound(recording), interval = 0 PROVE Filling'
  BY <1>2 DEF KInv
<1>4. NotYet
  BY <1>1, <1>3 DEF KInv
<1>5. PICK n \in Nat : n = Len(recording) /\ pos' = n /\ eof' /\ \A q \in 1 .. n : ~Wanted(recording[q])
  <2>1. LastRead = Len(recording) /\ ReadAtEnd /\ Len(recording) \in Nat
        /\ \A q \in pos + 1 .. Len(recording) : ~Wanted(recording[q])
    BY <1>2, <1>3, NextWanted
  <2>2. pos = 0 /\ pos' = LastRead /\ eof' = ReadAtEnd
    BY <1>2, <1>4 DEF NotYet, Read
  <2> QED BY <2>1, <2>2
<1>6. Kept'
  BY <1>2, <1>5 DEF Kept, Claimed
<1> QED BY <1>2, <1>5, <1>6 DEF Filling

\* A start of the interval at the first frame found in it.
LEMMA StartKept ==
  ASSUME Types, NoStrayCopies, Sound(recording), interval' = 1, 1 \in DOMAIN Intervals, pc' = "task",
         NEW e \in Elements, NEW time \in Nat, StartWith(time, e), recording' = recording,
         NEW r \in 1 .. Len(recording), pos' = r, recording[r].time = time,
         Wanted(recording[r]), e.channel = ChannelOf(recording[r]), isOpen', ~eof',
         \A q \in 1 .. r - 1 : Wanted(recording[q]) => recording[q].time < First.start
  PROVE  Filling'
<1>1. First.start \in Nat
  BY IntervalTypes DEF First
<1>2. PICK n \in Nat : n = Len(recording) /\ r \in 1 .. n
  BY NextWanted
<1>3. Kept'
  <2>1. \A q \in 1 .. r - 1 : Wanted(recording[q]) => ~(recording[q].time >= First.start)
    <3>1. \A q \in 1 .. r - 1 : recording[q].time \in Nat
      BY <1>2, TimesInOrder
    <3> QED BY <1>1, <3>1
  <2>2. \A q \in 1 .. r : ~Claimed(q)
    BY <1>2, <2>1, NoneClaimed
  <2> QED BY <2>2 DEF Kept, Claimed
<1>4. ASSUME NEW t \in Nat, Header' = t, Expected(t) PROVE Room(t)'
  <2>1. t = time /\ pos' \in 1 .. Len(recording) /\ recording[pos'].time = time
        /\ Wanted(recording[pos']) /\ e.channel = ChannelOf(recording[pos'])
    BY <1>2, <1>4 DEF Header
  <2> QED BY <1>4, <2>1, StartRoom
<1> QED BY <1>2, <1>3, <1>4 DEF Filling

LEMMA OpenInputStreamKInv == NoStrayCopies /\ FInv /\ KInv /\ OpenInputStream => KInv'
<1>1. SUFFICES ASSUME NoStrayCopies, FInv, KInv, OpenInputStream PROVE KInv'
  OBVIOUS
<1>2. /\ Fetch /\ Types /\ Read(element) /\ ReadOk /\ interval' = interval + 1 /\ interval \in Nat
      /\ isOpen' = TRUE /\ pc = "fetch" /\ recording' = recording /\ element \in Elements
  BY <1>1 DEF OpenInputStream, Fetch, FInv, Types
<1>3. SUFFICES ASSUME Sound(recording), interval = 0
               PROVE  (pc' = "goto" => Searching') /\ (pc' # "goto" => Filling')
  BY <1>2 DEF KInv
<1>4. NotYet
  BY <1>1, <1>3 DEF KInv
<1>5. 1 \in DOMAIN Intervals /\ interval' = 1
  BY <1>1, <1>2, <1>3, FetchedInterval
<1>6. PICK r \in 1 .. Len(recording) :
        /\ r = ReadTo /\ pos' = r /\ Wanted(recording[r]) /\ eof' = FALSE
        /\ \A q \in 1 .. r - 1 : ~Wanted(recording[q])
  <2>1. /\ ReadTo \in pos + 1 .. Len(recording) /\ LastRead = ReadTo /\ ~ReadAtEnd
        /\ Wanted(recording[ReadTo]) /\ \A q \in pos + 1 .. ReadTo - 1 : ~Wanted(recording[q])
    BY <1>2, <1>3, NextWanted
  <2>2. pos = 0 /\ pos' = LastRead /\ eof' = ReadAtEnd
    BY <1>2, <1>4 DEF NotYet, Read
  <2>3. ReadTo \in 1 .. Len(recording) /\ \A q \in 1 .. ReadTo - 1 : ~Wanted(recording[q])
    BY <2>1, <2>2
  <2>4. ReadAtEnd \in BOOLEAN
    BY DEF ReadAtEnd
  <2> QED BY <2>1, <2>2, <2>3, <2>4
<1>7. /\ Filled(element) \in Elements /\ Filled(element).channel = ChannelOf(recording[r])
  BY <1>2, <1>6, FilledType
<1>8. PICK time \in Nat : time = recording[r].time
  BY <1>2, <1>3, <1>6, NextWanted, TimesInOrder
<1>9. CASE Intervals[interval'].start <= recording[ReadTo].time
  <2>1. StartWith(time, Filled(element)) /\ pc' = "task"
    <3>1. Intervals[1].start \in Nat
      BY <1>5, IntervalTypes
    <3>2. ~(Intervals[interval'].start > recording[ReadTo].time)
      BY <1>5, <1>6, <1>8, <1>9, <3>1
    <3> QED BY <1>1, <1>6, <1>8, <3>2 DEF OpenInputStream
  <2>2. Filling'
    BY <1>1, <1>2, <1>3, <1>5, <1>6, <1>7, <1>8, <2>1, StartKept
  <2> QED BY <2>1, <2>2
<1>10. CASE ~(Intervals[interval'].start <= recording[ReadTo].time)
  <2>1. element' = Filled(element) /\ pc' = "goto"
    BY <1>1, <1>10 DEF OpenInputStream
  <2> QED BY <1>2, <1>6, <1>7, <2>1 DEF Searching
<1> QED BY <1>9, <1>10

LEMMA NextIntervalKInv == FInv /\ KInv /\ NextInterval => KInv'
<1>1. SUFFICES ASSUME FInv, KInv, NextInterval PROVE KInv'
  OBVIOUS
<1>2. Types /\ isOpen /\ interval' = interval + 1 /\ interval \in Nat /\ recording' = recording
  BY <1>1 DEF NextInterval, Fetch, FInv, Types
<1>3. Sound(recording) => interval # 0
  BY <1>1, <1>2 DEF KInv, NotYet
<1> QED BY <1>2, <1>3 DEF KInv

\* In search of the interval.
LEMMA GotoAt ==
  ASSUME FInv, KInv, Sound(recording), interval = 1, pc = "goto"
  PROVE  /\ Types /\ Searching /\ 1 \in DOMAIN Intervals /\ Interval = First /\ First.start \in Nat
         /\ pos \in 1 .. Len(recording) /\ Header = recording[pos].time /\ Header \in Nat
<1>1. Types /\ Searching /\ pos > 0
  BY DEF FInv, KInv, Searching
<1>2. 1 \in DOMAIN Intervals
  BY <1>1, FormatReaderAssumption DEF Types
<1>3. pos \in 1 .. Len(recording)
  <2>1. PICK n \in Nat : n = Len(recording) /\ pos \in 0 .. n
    BY <1>1, NextWanted
  <2> QED BY <1>1, <2>1
<1>4. recording[pos].time \in Nat
  BY <1>1, <1>3, TimesInOrder
<1> QED BY <1>1, <1>2, <1>3, <1>4, IntervalTypes DEF Interval, First, Header

\* No wanted frame up to the last one read is of the interval if that one is not.
LEMMA NoneFound ==
  ASSUME FInv, KInv, Sound(recording), interval = 1, pc = "goto", Interval.start > Header
  PROVE  \A q \in 1 .. pos : Wanted(recording[q]) => recording[q].time < First.start
<1>1. /\ Types /\ Searching /\ Interval = First /\ First.start \in Nat
      /\ pos \in 1 .. Len(recording) /\ Header = recording[pos].time /\ Header \in Nat
  BY GotoAt
<1>2. TAKE q \in 1 .. pos
<1>3. q = pos \/ q \in 1 .. pos - 1
  BY <1>1, <1>2
<1>4. CASE q = pos
  <2>1. PICK a \in Nat, b \in Nat : a = Header /\ b = First.start
    BY <1>1
  <2> QED BY <1>1, <1>4, <2>1
<1>5. CASE q \in 1 .. pos - 1
  BY <1>1, <1>5 DEF Searching
<1> QED BY <1>3, <1>4, <1>5

LEMMA GotoReadKInv == FInv /\ KInv /\ GotoRead => KInv'
<1>1. SUFFICES ASSUME FInv, KInv, GotoRead PROVE KInv'
  OBVIOUS
<1>2. /\ Types /\ Read(element) /\ ReadOk /\ pc = "goto" /\ pc' = "goto" /\ Interval.start > Header
      /\ interval' = interval /\ isOpen' = isOpen /\ recording' = recording
      /\ element' = Filled(element) /\ element \in Elements /\ interval # 0
  BY <1>1 DEF GotoRead, FInv, Types
<1>3. SUFFICES ASSUME Sound(recording), interval = 1 PROVE Searching'
  BY <1>2 DEF KInv
<1>4. /\ Searching /\ pos \in 1 .. Len(recording)
      /\ \A q \in 1 .. pos : Wanted(recording[q]) => recording[q].time < First.start
  BY <1>1, <1>2, <1>3, GotoAt, NoneFound
<1>5. PICK n \in Nat, r \in Nat :
        /\ n = Len(recording) /\ r = ReadTo /\ r \in pos + 1 .. n /\ pos' = r /\ eof' = FALSE
        /\ Wanted(recording[r]) /\ \A q \in pos + 1 .. r - 1 : ~Wanted(recording[q])
  <2>1. /\ Len(recording) \in Nat /\ ReadTo \in pos + 1 .. Len(recording) /\ LastRead = ReadTo /\ ~ReadAtEnd
        /\ Wanted(recording[ReadTo]) /\ \A q \in pos + 1 .. ReadTo - 1 : ~Wanted(recording[q])
    BY <1>2, <1>3, NextWanted
  <2>2. pos' = LastRead /\ eof' = ReadAtEnd /\ ReadAtEnd \in BOOLEAN
    BY <1>2 DEF Read, ReadAtEnd
  <2>3. ReadTo \in Nat
    BY <1>4, <2>1
  <2> QED BY <2>1, <2>2, <2>3
<1>6. pos \in Nat /\ pos > 0 /\ pos' > 0
  BY <1>4, <1>5
<1>7. element'.channel = ChannelOf(recording[r])
  BY <1>2, <1>5, FilledType
<1>8. ASSUME NEW q \in 1 .. r - 1, Wanted(recording[q]) PROVE recording[q].time < First.start
  <2>1. q \in 1 .. pos \/ q \in pos + 1 .. r - 1
    BY <1>5, <1>6
  <2> QED BY <1>4, <1>5, <1>8, <2>1
<1>9. isOpen'
  BY <1>2, <1>4 DEF Searching
<1> QED BY <1>2, <1>5, <1>6, <1>7, <1>8, <1>9 DEF Searching

LEMMA GotoFailsKInv == FInv /\ KInv /\ GotoFails => KInv'
<1>1. SUFFICES ASSUME FInv, KInv, GotoFails PROVE KInv'
  OBVIOUS
<1>2. /\ Types /\ Read(element) /\ ~ReadOk /\ pc = "goto" /\ pc' = "task" /\ Interval.start > Header
      /\ interval' = interval /\ recording' = recording /\ interval # 0
  BY <1>1 DEF GotoFails, FInv, Types
<1>3. SUFFICES ASSUME Sound(recording), interval = 1 PROVE Filling'
  BY <1>2 DEF KInv
<1>4. /\ First.start \in Nat /\ pos \in 1 .. Len(recording)
      /\ \A q \in 1 .. pos : Wanted(recording[q]) => recording[q].time < First.start
  BY <1>1, <1>2, <1>3, GotoAt, NoneFound
<1>5. PICK n \in Nat : n = Len(recording) /\ pos' = n /\ eof' /\ \A q \in pos + 1 .. n : ~Wanted(recording[q])
  <2>1. LastRead = Len(recording) /\ ReadAtEnd /\ Len(recording) \in Nat
        /\ \A q \in pos + 1 .. Len(recording) : ~Wanted(recording[q])
    BY <1>2, <1>3, NextWanted
  <2>2. pos' = LastRead /\ eof' = ReadAtEnd
    BY <1>2 DEF Read
  <2> QED BY <2>1, <2>2
<1>6. ASSUME NEW q \in 1 .. n - 1, Wanted(recording[q]) PROVE ~(recording[q].time >= First.start)
  <2>1. q \in 1 .. pos \/ q \in pos + 1 .. n
    BY <1>4, <1>5
  <2>2. recording[q].time < First.start
    BY <1>4, <1>5, <1>6, <2>1
  <2>3. q \in 1 .. Len(recording)
    BY <1>5
  <2>4. recording[q].time \in Nat
    BY <1>2, <1>3, <2>3, TimesInOrder
  <2> QED BY <1>4, <2>2, <2>4
<1>7. \A q \in 1 .. n : ~Claimed(q)
  BY <1>5, <1>6, NoneClaimed
<1>8. Kept'
  BY <1>2, <1>5, <1>7 DEF Kept, Claimed
<1> QED BY <1>2, <1>5, <1>8 DEF Filling

LEMMA GotoDoneKInv == NoStrayCopies /\ FInv /\ KInv /\ GotoDone => KInv'
<1>1. SUFFICES ASSUME NoStrayCopies, FInv, KInv, GotoDone PROVE KInv'
  OBVIOUS
<1>2. /\ Types /\ pc = "goto" /\ pc' = "task" /\ Interval.start <= Header
      /\ interval' = interval /\ recording' = recording /\ interval # 0 /\ isOpen' = isOpen
      /\ pos' = pos /\ eof' = eof /\ element \in Elements
      /\ StartWith(ReachedTime(Header), [element EXCEPT !.start = Header])
  BY <1>1 DEF GotoDone, readerVars, FInv, Types
<1>3. SUFFICES ASSUME Sound(recording), interval = 1 PROVE Filling'
  BY <1>2 DEF KInv
<1>4. /\ Searching /\ 1 \in DOMAIN Intervals /\ Interval = First /\ First.start \in Nat
      /\ pos \in 1 .. Len(recording) /\ Header = recording[pos].time /\ Header \in Nat
  BY <1>1, <1>2, <1>3, GotoAt
<1>5. PICK time \in Nat : time = Header
  BY <1>4
<1>6. ReachedTime(Header) = time
  <2>1. PICK b \in Nat : b = Interval.start
    BY <1>4
  <2>2. ~(time < b)
    BY <1>2, <1>5, <2>1
  <2> QED BY <1>5, <2>1, <2>2 DEF ReachedTime
<1>7. PICK e \in Elements : e = [element EXCEPT !.start = Header] /\ e.channel = element.channel
  BY <1>2, <1>4 DEF Elements
<1>8. StartWith(time, e)
  BY <1>2, <1>6, <1>7
<1>9. PICK r \in 1 .. Len(recording) : r = pos
  BY <1>4
<1>10. /\ pos' = r /\ recording[r].time = time /\ Wanted(recording[r]) /\ e.channel = ChannelOf(recording[r])
       /\ isOpen' /\ ~eof'
       /\ \A q \in 1 .. r - 1 : Wanted(recording[q]) => recording[q].time < First.start
  BY <1>2, <1>4, <1>5, <1>7, <1>9 DEF Searching
<1>11. interval' = 1
  BY <1>2, <1>3
<1> QED BY <1>1, <1>2, <1>3, <1>4, <1>8, <1>10, <1>11, StartKept

LEMMA IntervalDoneKInv == FInv /\ KInv /\ IntervalDone => KInv'
<1>1. SUFFICES ASSUME FInv, KInv, IntervalDone PROVE KInv'
  OBVIOUS
<1>2. /\ Types /\ pc = "task" /\ pc' = "fetch" /\ \A c \in Channels : current[c] >= Interval.stop
      /\ interval' = interval /\ recording' = recording /\ interval # 0 /\ isOpen' = isOpen
      /\ pos' = pos /\ eof' = eof /\ current' = current /\ left' = left /\ minLeft' = minLeft /\ output' = output
  BY <1>1 DEF IntervalDone, readerVars, timeVars, FInv, Types
<1>3. SUFFICES ASSUME Sound(recording), interval = 1 PROVE Filling'
  BY <1>2 DEF KInv
<1>4. Filling
  BY <1>1, <1>2, <1>3 DEF KInv
<1>5. Kept'
  BY <1>2, <1>4 DEF Filling, Kept, Claimed, InOutput
<1>6. \A time \in Nat : Room(time) => Room(time)'
  BY <1>2 DEF Room, Had
<1>7. Header' = Header
  BY <1>2 DEF Header
<1>8. \A c \in Channels : current'[c] >= First.stop
  BY <1>2, <1>3 DEF Interval, First
<1> QED BY <1>2, <1>4, <1>5, <1>6, <1>7, <1>8 DEF Filling

\* The steps of the task.
TaskStep ==
  \/ TaskEof \/ TaskSkew \/ TaskReadFails \/ TaskLeft \/ TaskFuture \/ TaskPast \/ TaskBeyond \/ TaskFrame

LEMMA TaskKInv == NoStrayCopies /\ FInv /\ KInv /\ TaskStep => KInv'
<1>1. SUFFICES ASSUME NoStrayCopies, FInv, KInv, TaskStep PROVE KInv'
  OBVIOUS
<1>2. Task
  BY <1>1 DEF TaskStep, TaskEof, TaskSkew, TaskReadFails, TaskLeft, TaskFuture, TaskPast, TaskBeyond,
     TaskFrame, TaskRead
<1>3. pc = "task" /\ pc' = "task" /\ interval' = interval /\ recording' = recording /\ interval # 0
  BY <1>1, <1>2 DEF Task, FInv, Types
<1>4. SUFFICES ASSUME Sound(recording), interval = 1 PROVE Filling'
  BY <1>3 DEF KInv
<1>5. Filling
  BY <1>1, <1>3, <1>4 DEF KInv
<1>6. CASE TaskEof
  BY <1>1, <1>4, <1>5, <1>6, EofKept
<1>7. CASE TaskSkew
  BY <1>1, <1>4, <1>5, <1>7, SkewKept
<1>8. CASE TaskFrame
  BY <1>1, <1>4, <1>5, <1>8, FrameKept
<1>9. CASE TaskReadFails \/ TaskLeft \/ TaskFuture \/ TaskPast \/ TaskBeyond
  BY <1>1, <1>4, <1>5, <1>9, TaskDropKept
<1> QED BY <1>1, <1>6, <1>7, <1>8, <1>9 DEF TaskStep

LEMMA InitKInv == Init => KInv
BY DEF Init, KInv, NotYet

LEMMA StutterKInv == KInv /\ UNCHANGED vars => KInv'
<1>1. SUFFICES ASSUME KInv, UNCHANGED vars PROVE KInv'
  OBVIOUS
<1>2. /\ recording' = recording /\ pos' = pos /\ eof' = eof /\ isOpen' = isOpen /\ pc' = pc
      /\ interval' = interval /\ current' = current /\ left' = left /\ minLeft' = minLeft
      /\ element' = element /\ output' = output
  BY <1>1 DEF vars
<1>3. NotYet' = NotYet /\ (Searching => Searching')
  BY <1>2 DEF NotYet, Searching
<1>4. Kept => Kept'
  BY <1>2 DEF Kept, Claimed, InOutput
<1>5. \A time \in Nat : Room(time) => Room(time)'
  BY <1>2 DEF Room, Had
<1>6. Header' = Header
  BY <1>2 DEF Header
<1>7. Filling => Filling'
  BY <1>2, <1>4, <1>5, <1>6 DEF Filling
<1> QED BY <1>1, <1>2, <1>3, <1>7 DEF KInv

LEMMA NextKInv == NoStrayCopies /\ FInv /\ KInv /\ [Next]_vars => KInv'
<1>1. SUFFICES ASSUME NoStrayCopies, FInv, KInv, [Next]_vars PROVE KInv'
  OBVIOUS
<1>2. CASE ReaderStep
  BY <1>1, <1>2, OpenFailsKInv, OpenInputStreamKInv, NextIntervalKInv, GotoReadKInv, GotoFailsKInv,
     GotoDoneKInv, IntervalDoneKInv, TaskKInv DEF ReaderStep, TaskStep
<1>3. CASE UNCHANGED vars
  BY <1>1, <1>3, StutterKInv
<1> QED BY <1>1, <1>2, <1>3 DEF Next, Done

\* The frames still to come are none that the interval has room for.
LEMMA KInvKeeps == FInv /\ KInv => FramesKept
<1>1. SUFFICES ASSUME FInv, KInv, pc = "fetch", interval = 1, Sound(recording),
                      NEW q \in DOMAIN recording, Claimed(q)
               PROVE  InOutput(recording[q])
  BY DEF FramesKept, Claimed
<1>2. Types /\ Filling
  BY <1>1 DEF FInv, KInv
<1>3. PICK n \in Nat : n = Len(recording) /\ pos \in 0 .. n /\ q \in 1 .. n
  BY <1>1, <1>2, NextWanted
<1>4. CASE q \in 1 .. pos
  BY <1>1, <1>2, <1>4 DEF Filling, Kept
<1>5. CASE q \notin 1 .. pos
  <2>1. pos < q /\ pos # n
    BY <1>3, <1>5
  <2>2. ~eof /\ pos > 0 /\ pos \in 1 .. n
    BY <1>2, <1>3, <2>1 DEF Filling
  <2>3. PICK s \in Nat, t \in Nat : s = Header /\ t = recording[q].time /\ s <= t
    <3>1. pos <= q
      BY <1>3, <2>1
    <3>2. recording[pos].time \in Nat /\ recording[q].time \in Nat /\ recording[pos].time <= recording[q].time
      BY <1>1, <1>2, <1>3, <2>2, <3>1, TimesInOrder
    <3> QED BY <3>2 DEF Header
  <2>4. 1 \in DOMAIN Intervals
    BY <1>1, <1>2, FormatReaderAssumption DEF Types
  <2>5. Expected(s) /\ First.stop \in Nat /\ t < First.stop - 1
    BY <1>1, <2>3, <2>4, ExpectedBefore DEF Claimed
  <2>6. Room(s)
    BY <1>2, <2>2, <2>3, <2>5 DEF Filling
  <2>7. 1 \in Channels
    BY ChannelSet
  <2>8. PICK cur \in Int, stop \in Nat : cur = current[1] /\ stop = First.stop
    BY <1>2, <2>5, <2>7 DEF Types
  <2>9. cur <= s + 1 /\ cur >= stop
    BY <1>1, <1>2, <2>6, <2>7, <2>8 DEF Filling, Room
  <2> QED BY <2>3, <2>5, <2>8, <2>9
<1> QED BY <1>4, <1>5

\* The frames of a sound recording that belong to the first interval reach the output,
\* whatever is missing or bad around them.
THEOREM FramesReachOutput ==
  ASSUME NoStrayCopies
  PROVE  Spec => []FramesKept
<1>1. FInv /\ KInv /\ [Next]_vars => (FInv /\ KInv)'
  BY NextFInv, NextKInv
<1>2. Init => FInv /\ KInv
  BY InitFInv, InitKInv
<1>3. Spec => [](FInv /\ KInv)
  BY <1>1, <1>2, PTL DEF Spec
<1> QED BY <1>3, KInvKeeps, PTL
=============================================================================
