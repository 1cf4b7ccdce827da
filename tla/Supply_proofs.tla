--------------------------- MODULE Supply_proofs ---------------------------
(***************************************************************************)
(* Proofs about the supply of the correlator nodes with data, for all      *)
(* stations, channels, nodes and scans, and all sizes of pools and         *)
(* connections: a stream is used by one channel at a time, and a data      *)
(* writer is cancelled when it has nothing to write.                       *)
(***************************************************************************)
EXTENDS Supply, FiniteSetTheorems, SequenceTheorems, WellFoundedInduction, TLAPS

\* With one FFT in a slice a node asks for its next slice before it has any data of the
\* present one, and two channels may find its stream free.
SeveralFfts == NumberFfts >= 2

-----------------------------------------------------------------------------
\* The types.
Messages ==
  [type : {"TRACK_PARAMETERS", "END_NODE"}]
    \cup [type : {"SET_TIME"}, start : Int, stop : Int]
    \cup [type : {"ADD_TIME_SLICE"}, channel : Channels, stream : Nodes]
Writers ==
  [pc : {"idle", "found", "write", "cancelled"}, slices : Seq(Nodes),
   intervals : Seq(Int \X Int), time : Int, stop : Int, start : Int, left : 0 .. NumberFfts]
Units == (Channels \X Int) \cup {EndOfStream}
SlicesGiven == [channel : Channels, time : Nat, stations : SUBSET Stations]

InputTypes ==
  /\ mail \in [Stations -> Seq(Messages)]
  /\ iStatus \in [Stations -> {"WAITING", "WRITING", "TERMINATING", "END_NODE"}]
  /\ reading \in [Stations -> Seq(Int \X Int)]
  /\ readTime \in [Stations -> Int]
  /\ blocks \in [Stations -> [Channels -> Seq(Int)]]
  /\ writer \in [Stations -> [Channels -> Writers]]
  /\ active \in [Stations -> [Nodes -> BOOLEAN]]
  /\ wire \in [Stations -> [Nodes -> Seq(Units)]]
SupplyTypes ==
  /\ mScan \in 0 .. Len(Scans) + 1
  /\ mTime \in Nat
  /\ mChannels \in SUBSET Channels /\ mChannels # {}
  /\ ready \in Seq(Nodes)
  /\ handed \in [Nodes -> Seq(SlicesGiven)]
  /\ fft \in [Nodes -> 0 .. NumberFfts]
  /\ hasRequested \in [Nodes -> BOOLEAN]
Types == InputTypes /\ SupplyTypes

-----------------------------------------------------------------------------
\* A slice that has been handed out for node c waits at a station, in the mail or with
\* the data writer of its channel, until the writer takes the stream.
IsFor(m, c) == m.type = "ADD_TIME_SLICE" /\ m.stream = c
Waits(w, i, c) == w.slices[i] = c /\ ~(i = 1 /\ w.pc = "write")
Writes(w, c) == w.pc = "write" /\ w.slices # <<>> /\ w.slices[1] = c

Mailed(M, c) == \E i \in DOMAIN M : IsFor(M[i], c)
Queued(W, c) == \E ch \in Channels : \E i \in DOMAIN W[ch].slices : Waits(W[ch], i, c)
Waiting(M, W, c) == Mailed(M, c) \/ Queued(W, c)

\* At most one slice of a stream waits.
OneMailed(M, c) == \A i, j \in DOMAIN M : IsFor(M[i], c) /\ IsFor(M[j], c) => i = j
OneQueued(W, c) ==
  \A ch, d \in Channels : \A i \in DOMAIN W[ch].slices, j \in DOMAIN W[d].slices :
    Waits(W[ch], i, c) /\ Waits(W[d], j, c) => ch = d /\ i = j
OneWaits(M, W, c) ==
  OneMailed(M, c) /\ OneQueued(W, c) /\ ~(Mailed(M, c) /\ Queued(W, c))

\* The stream is marked active as long as one channel writes, and a channel that found it
\* free still finds it so.
OneWrites(W, a, c) ==
  /\ \A ch, d \in Channels : Writes(W[ch], c) /\ Writes(W[d], c) => ch = d
  /\ a <=> \E ch \in Channels : Writes(W[ch], c)
  /\ \A ch \in Channels : W[ch].pc = "found" /\ W[ch].slices[1] = c => ~a

\* What is on the stream (L units), what is left of the slice that is being written, and the
\* slice that waits, is what the node has not read of its slices: `owed` units.
Balance(M, W, L, owed, c) ==
  LET later == IF Waiting(M, W, c) THEN NumberFfts + 1 ELSE 0
  IN  /\ \A ch \in Channels : Writes(W[ch], c) => L + W[ch].left + 1 + later = owed
      /\ (\A ch \in Channels : ~Writes(W[ch], c)) => L + later = owed

StreamOK(M, W, a, L, owed, c) ==
  OneWaits(M, W, c) /\ OneWrites(W, a, c) /\ Balance(M, W, L, owed, c)

\* The units, and ends of slices, that station s owes a node with the slices h, of which it
\* has read f units of the present one.
OwedOf(slice, s, read) == IF s \in slice.stations THEN NumberFfts + 1 - read ELSE 0
Owed(h, f, s) ==
  IF Len(h) = 0 THEN 0
  ELSE IF Len(h) = 1 THEN OwedOf(h[1], s, f)
  ELSE OwedOf(h[1], s, f) + OwedOf(h[2], s, 0)

StreamOf(s, c) ==
  StreamOK(mail[s], writer[s], active[s][c], Len(wire[s][c]), Owed(handed[c], fft[c], s), c)
Streams == \A s \in Stations, c \in Nodes : StreamOf(s, c)

-----------------------------------------------------------------------------
\* A node asks for a slice when it has none, or has begun to read the present one.
InReady(c) == \E i \in DOMAIN ready : ready[i] = c
ReadyOnce == \A i, j \in DOMAIN ready : ready[i] = ready[j] => i = j
Requests ==
  \A c \in Nodes :
    \/ handed[c] = <<>> /\ InReady(c) /\ fft[c] = 0 /\ ~hasRequested[c]
    \/ Len(handed[c]) = 1 /\ (InReady(c) <=> hasRequested[c])
    \/ Len(handed[c]) = 2 /\ ~InReady(c) /\ hasRequested[c]

\* A node that is ready waits for no station to begin on a slice.
ReadyIdle ==
  \A c \in Nodes : InReady(c) => \A s \in Stations : ~Waiting(mail[s], writer[s], c)

\* The states of a writer and its slices.
WriterStates ==
  \A s \in Stations, ch \in Channels :
    LET w == writer[s][ch] IN
    /\ w.pc \in {"found", "write"} => w.slices # <<>>
    /\ w.pc = "cancelled" => w.slices = <<>> /\ iStatus[s] \in {"TERMINATING", "END_NODE"}

\* END_NODE is sent when the nodes have nothing left.
HasEnd(M) == \E i \in DOMAIN M : M[i].type = "END_NODE"
Endings ==
  /\ \A s \in Stations : HasEnd(mail[s]) => mScan = Len(Scans) + 1
  /\ mScan = Len(Scans) + 1 => \A c \in Nodes : handed[c] = <<>>

SInv == Types /\ Streams /\ ReadyOnce /\ Requests /\ ReadyIdle /\ WriterStates /\ Endings
-----------------------------------------------------------------------------
\* The mail of a station.
LEMMA MailAdded ==
  ASSUME NEW M \in Seq(Messages), NEW m \in Messages, NEW c
  PROVE  /\ Append(M, m) \in Seq(Messages)
         /\ Mailed(Append(M, m), c) <=> Mailed(M, c) \/ IsFor(m, c)
         /\ OneMailed(M, c) /\ ~(Mailed(M, c) /\ IsFor(m, c)) => OneMailed(Append(M, m), c)
<1> DEFINE A == Append(M, m)
<1>1. /\ A \in Seq(Messages) /\ DOMAIN A = 1 .. Len(M) + 1 /\ DOMAIN M = 1 .. Len(M)
      /\ Len(M) \in Nat /\ A[Len(M) + 1] = m
      /\ \A i \in DOMAIN M : A[i] = M[i]
  OBVIOUS
<1> HIDE DEF A
<1>2. \A i \in DOMAIN A : i \in DOMAIN M \/ i = Len(M) + 1
  BY <1>1
<1>3. Mailed(A, c) <=> Mailed(M, c) \/ IsFor(m, c)
  BY <1>1, <1>2 DEF Mailed
<1>4. OneMailed(M, c) /\ ~(Mailed(M, c) /\ IsFor(m, c)) => OneMailed(A, c)
  BY <1>1, <1>2 DEF Mailed, OneMailed
<1> QED BY <1>1, <1>3, <1>4 DEF A

LEMMA MailTaken ==
  ASSUME NEW M \in Seq(Messages), M # <<>>, NEW c
  PROVE  /\ Tail(M) \in Seq(Messages) /\ Head(M) \in Messages
         /\ Mailed(M, c) <=> IsFor(Head(M), c) \/ Mailed(Tail(M), c)
         /\ OneMailed(M, c) => OneMailed(Tail(M), c)
         /\ OneMailed(M, c) /\ IsFor(Head(M), c) => ~Mailed(Tail(M), c)
<1> DEFINE T == Tail(M)
<1>1. /\ T \in Seq(Messages) /\ DOMAIN T = 1 .. Len(M) - 1 /\ DOMAIN M = 1 .. Len(M)
      /\ Len(M) \in Nat /\ Len(M) >= 1 /\ Head(M) = M[1] /\ M[1] \in Messages
      /\ \A i \in DOMAIN T : T[i] = M[i + 1]
  OBVIOUS
<1> HIDE DEF T
<1>2. /\ \A i \in DOMAIN T : i + 1 \in DOMAIN M /\ i + 1 # 1
      /\ \A i \in DOMAIN M : i = 1 \/ (i - 1 \in DOMAIN T /\ T[i - 1] = M[i])
      /\ \A i, j \in DOMAIN T : i + 1 = j + 1 => i = j
      /\ 1 \in DOMAIN M
  BY <1>1
<1>3. Mailed(M, c) <=> IsFor(M[1], c) \/ Mailed(T, c)
  BY <1>1, <1>2 DEF Mailed
<1>4. OneMailed(M, c) => OneMailed(T, c)
  BY <1>1, <1>2 DEF OneMailed
<1>5. OneMailed(M, c) /\ IsFor(M[1], c) => ~Mailed(T, c)
  BY <1>1, <1>2 DEF OneMailed, Mailed
<1> QED BY <1>1, <1>3, <1>4, <1>5 DEF T

-----------------------------------------------------------------------------
\* The queues of the data writers W of a station, when V is what they are after a step.

\* No other writer than ch takes a step.
OnlyWriter(W, V, ch) == \A d \in Channels \ {ch} : V[d] = W[d]

\* The slices of the writers are the same, and which of them write.
LEMMA QueuesSame ==
  ASSUME NEW W \in [Channels -> Writers], NEW V \in [Channels -> Writers], NEW c,
         \A ch \in Channels : V[ch].slices = W[ch].slices
                             /\ (V[ch].pc = "write" <=> W[ch].pc = "write")
  PROVE  /\ Queued(V, c) <=> Queued(W, c)
         /\ OneQueued(V, c) <=> OneQueued(W, c)
         /\ \A ch \in Channels : Writes(V[ch], c) <=> Writes(W[ch], c)
<1>1. \A ch \in Channels : \A i : Waits(V[ch], i, c) <=> Waits(W[ch], i, c)
  BY DEF Waits
<1>2. \A ch \in Channels : DOMAIN V[ch].slices = DOMAIN W[ch].slices
  OBVIOUS
<1>3. Queued(V, c) <=> Queued(W, c)
  BY <1>1, <1>2 DEF Queued
<1>4. OneQueued(V, c) <=> OneQueued(W, c)
  BY <1>1, <1>2 DEF OneQueued
<1>5. \A ch \in Channels : Writes(V[ch], c) <=> Writes(W[ch], c)
  BY DEF Writes
<1> QED BY <1>3, <1>4, <1>5

\* Writer ch gets a slice of node e.
GetsSlice(W, V, ch, e) ==
  /\ OnlyWriter(W, V, ch)
  /\ V[ch].slices = Append(W[ch].slices, e)
  /\ V[ch].pc = W[ch].pc /\ V[ch].left = W[ch].left
  /\ W[ch].pc \in {"found", "write"} => W[ch].slices # <<>>

LEMMA QueueAdded ==
  ASSUME NEW W \in [Channels -> Writers], NEW V \in [Channels -> Writers], NEW c,
         NEW ch \in Channels, NEW e \in Nodes,
         GetsSlice(W, V, ch, e)
  PROVE  /\ Queued(V, c) <=> Queued(W, c) \/ c = e
         /\ OneQueued(W, c) /\ ~(Queued(W, c) /\ c = e) => OneQueued(V, c)
         /\ \A d \in Channels : Writes(V[d], c) <=> Writes(W[d], c)
<1> /\ \A d \in Channels \ {ch} : V[d] = W[d]
    /\ V[ch].slices = Append(W[ch].slices, e) /\ V[ch].pc = W[ch].pc
    /\ W[ch].pc = "write" => W[ch].slices # <<>>
  BY DEF GetsSlice, OnlyWriter
<1>1. PICK q \in Seq(Nodes) : q = W[ch].slices
  BY DEF Writers
<1>2. PICK r \in Seq(Nodes) : r = V[ch].slices
  BY DEF Writers
<1>3. /\ r = Append(q, e) /\ DOMAIN r = 1 .. Len(q) + 1 /\ DOMAIN q = 1 .. Len(q)
      /\ Len(q) \in Nat /\ r[Len(q) + 1] = e
      /\ \A i \in DOMAIN q : r[i] = q[i]
  BY <1>1, <1>2
<1>4. \A i \in DOMAIN r : i \in DOMAIN q \/ i = Len(q) + 1
  BY <1>3
<1>5. Len(q) + 1 \in DOMAIN r /\ \A i \in DOMAIN q : i \in DOMAIN r /\ i # Len(q) + 1
  BY <1>3
<1>6. W[ch].pc = "write" => Len(q) + 1 # 1
  BY <1>1, <1>3
<1>7. \A i \in DOMAIN q : Waits(V[ch], i, c) <=> Waits(W[ch], i, c)
  BY <1>1, <1>2, <1>3 DEF Waits
<1>8. Waits(V[ch], Len(q) + 1, c) <=> c = e
  BY <1>1, <1>2, <1>3, <1>6 DEF Waits
<1>9. Queued(V, c) <=> Queued(W, c) \/ c = e
  BY <1>1, <1>2, <1>4, <1>5, <1>7, <1>8 DEF Queued
<1>10. ASSUME OneQueued(W, c), ~(Queued(W, c) /\ c = e) PROVE OneQueued(V, c)
  <2>1. ASSUME NEW b \in Channels, NEW d \in Channels,
               NEW i \in DOMAIN V[b].slices, NEW j \in DOMAIN V[d].slices,
               Waits(V[b], i, c), Waits(V[d], j, c)
        PROVE  b = d /\ i = j
    <3>1. CASE c = e
      <4>1. \A x \in Channels : \A k \in DOMAIN V[x].slices :
              Waits(V[x], k, c) => x = ch /\ k = Len(q) + 1
        BY <1>1, <1>2, <1>4, <1>7, <1>10, <3>1 DEF Queued
      <4> QED BY <2>1, <4>1
    <3>2. CASE c # e
      <4>1. \A x \in Channels : \A k \in DOMAIN V[x].slices :
              Waits(V[x], k, c) => k \in DOMAIN W[x].slices /\ Waits(W[x], k, c)
        BY <1>1, <1>2, <1>4, <1>7, <1>8, <3>2
      <4> QED BY <1>10, <2>1, <4>1 DEF OneQueued
    <3> QED BY <3>1, <3>2
  <2> QED BY <2>1 DEF OneQueued
<1>11. \A d \in Channels : Writes(V[d], c) <=> Writes(W[d], c)
  <2>1. Writes(V[ch], c) <=> Writes(W[ch], c)
    <3>1. CASE q = <<>>
      BY <1>1, <3>1 DEF Writes
    <3>2. CASE q # <<>>
      <4>1. r[1] = q[1] /\ r # <<>>
        BY <1>3, <3>2
      <4> QED BY <1>1, <1>2, <3>2, <4>1 DEF Writes
    <3> QED BY <3>1, <3>2
  <2> QED BY <2>1
<1> QED BY <1>9, <1>10, <1>11

\* Writer ch, which has found the stream of node e free, begins to write on it.
TakesStream(W, V, ch, e) ==
  /\ OnlyWriter(W, V, ch)
  /\ \A d \in Channels : W[d].pc = "found" => W[d].slices # <<>>
  /\ W[ch].pc = "found" /\ W[ch].slices[1] = e
  /\ V[ch].pc = "write" /\ V[ch].slices = W[ch].slices /\ V[ch].left = NumberFfts

LEMMA QueueBegun ==
  ASSUME NEW W \in [Channels -> Writers], NEW V \in [Channels -> Writers], NEW c,
         NEW ch \in Channels, NEW e \in Nodes,
         TakesStream(W, V, ch, e)
  PROVE  /\ Queued(W, e)
         /\ OneQueued(W, e) => ~Queued(V, e)
         /\ OneQueued(W, c) => OneQueued(V, c)
         /\ c # e => (Queued(V, c) <=> Queued(W, c))
         /\ \A d \in Channels : Writes(V[d], c) <=> Writes(W[d], c) \/ (d = ch /\ c = e)
<1> /\ \A d \in Channels \ {ch} : V[d] = W[d]
    /\ V[ch].slices = W[ch].slices /\ W[ch].pc # "write" /\ V[ch].pc = "write"
    /\ W[ch].slices # <<>> /\ W[ch].slices[1] = e
  BY DEF TakesStream, OnlyWriter
<1>1. \A d \in Channels : V[d].slices = W[d].slices
  OBVIOUS
<1>2. 1 \in DOMAIN W[ch].slices /\ Waits(W[ch], 1, e) /\ ~Waits(V[ch], 1, e)
  <2>1. W[ch].slices \in Seq(Nodes)
    BY DEF Writers
  <2> QED BY <2>1 DEF Waits
<1>3. \A d \in Channels : \A x : \A i \in DOMAIN W[d].slices :
        /\ Waits(V[d], i, x) => Waits(W[d], i, x)
        /\ Waits(W[d], i, x) => Waits(V[d], i, x) \/ (d = ch /\ i = 1 /\ x = e)
  BY DEF Waits
<1>4. Queued(W, e)
  BY <1>2 DEF Queued
<1>5. OneQueued(W, e) => ~Queued(V, e)
  BY <1>1, <1>2, <1>3 DEF OneQueued, Queued
<1>6. OneQueued(W, c) => OneQueued(V, c)
  BY <1>1, <1>3 DEF OneQueued
<1>7. c # e => (Queued(V, c) <=> Queued(W, c))
  BY <1>1, <1>3 DEF Queued
<1>8. \A d \in Channels : Writes(V[d], c) <=> Writes(W[d], c) \/ (d = ch /\ c = e)
  BY DEF Writes
<1> QED BY <1>4, <1>5, <1>6, <1>7, <1>8

\* Writer ch ends its slice of node e: the end is put on the stream, which it gives free.
EndsWriting(W, V, ch, e) ==
  /\ OnlyWriter(W, V, ch)
  /\ W[ch].pc = "write" /\ W[ch].slices # <<>> /\ W[ch].slices[1] = e /\ W[ch].left = 0
  /\ V[ch].pc = "idle" /\ V[ch].slices = Tail(W[ch].slices)

LEMMA QueueEnded ==
  ASSUME NEW W \in [Channels -> Writers], NEW V \in [Channels -> Writers], NEW c,
         NEW ch \in Channels, NEW e \in Nodes,
         EndsWriting(W, V, ch, e)
  PROVE  /\ Queued(V, c) <=> Queued(W, c)
         /\ OneQueued(W, c) => OneQueued(V, c)
         /\ \A d \in Channels : Writes(V[d], c) <=> Writes(W[d], c) /\ d # ch
<1> /\ \A d \in Channels \ {ch} : V[d] = W[d]
    /\ W[ch].slices # <<>> /\ V[ch].slices = Tail(W[ch].slices)
    /\ W[ch].pc = "write" /\ V[ch].pc # "write"
  BY DEF EndsWriting, OnlyWriter
<1>1. PICK q \in Seq(Nodes) : q = W[ch].slices
  BY DEF Writers
<1>2. PICK r \in Seq(Nodes) : r = V[ch].slices
  BY DEF Writers
<1>3. /\ DOMAIN r = 1 .. Len(q) - 1 /\ DOMAIN q = 1 .. Len(q) /\ Len(q) \in Nat /\ Len(q) >= 1
      /\ \A i \in DOMAIN r : r[i] = q[i + 1]
  BY <1>1, <1>2
<1>4. /\ \A i \in DOMAIN r : i + 1 \in DOMAIN q /\ i + 1 # 1
      /\ \A i \in DOMAIN q : i = 1 \/ (i - 1 \in DOMAIN r /\ r[i - 1] = q[i])
      /\ \A i, j \in DOMAIN r : i + 1 = j + 1 => i = j
  BY <1>3
<1>5. \A i \in DOMAIN r : Waits(V[ch], i, c) <=> Waits(W[ch], i + 1, c)
  BY <1>1, <1>2, <1>3, <1>4 DEF Waits
<1>6. \A i \in DOMAIN q : Waits(W[ch], i, c) => i - 1 \in DOMAIN r /\ Waits(V[ch], i - 1, c)
  BY <1>1, <1>2, <1>4 DEF Waits
<1>7. Queued(V, c) <=> Queued(W, c)
  BY <1>1, <1>2, <1>4, <1>5, <1>6 DEF Queued
<1>8. ASSUME OneQueued(W, c) PROVE OneQueued(V, c)
  <2>1. ASSUME NEW b \in Channels, NEW d \in Channels,
               NEW i \in DOMAIN V[b].slices, NEW j \in DOMAIN V[d].slices,
               Waits(V[b], i, c), Waits(V[d], j, c)
        PROVE  b = d /\ i = j
    <3>1. CASE b = ch /\ d = ch
      BY <1>1, <1>2, <1>4, <1>5, <1>8, <2>1, <3>1, ZenonT(30) DEF OneQueued
    <3>2. CASE b = ch /\ d # ch
      BY <1>1, <1>2, <1>4, <1>5, <1>8, <2>1, <3>2 DEF OneQueued
    <3>3. CASE b # ch /\ d = ch
      BY <1>1, <1>2, <1>4, <1>5, <1>8, <2>1, <3>3 DEF OneQueued
    <3>4. CASE b # ch /\ d # ch
      BY <1>8, <2>1, <3>4 DEF OneQueued
    <3> QED BY <3>1, <3>2, <3>3, <3>4
  <2> QED BY <2>1 DEF OneQueued
<1>9. \A d \in Channels : Writes(V[d], c) <=> Writes(W[d], c) /\ d # ch
  BY DEF Writes
<1> QED BY <1>7, <1>8, <1>9

-----------------------------------------------------------------------------
\* The order of the natural numbers, for the library's lemma on minimal elements.
Less == {x \in Nat \X Nat : x[1] < x[2]}

\* A set of natural numbers has a least element.
LEMMA LeastElement ==
  ASSUME NEW T \in SUBSET Nat, T # {}
  PROVE  \E x \in T : \A y \in T : x <= y
<1>1. IsWellFoundedOn(Less, Nat)
  BY NatLessThanWellFounded, Zenon DEF OpToRel, Less
<1>2. PICK x \in T : \A y \in T : <<y, x>> \notin Less
  BY <1>1, WFMin
<1>3. ASSUME NEW y \in T PROVE x <= y
  <2>1. y < x => <<y, x>> \in Less
    <3> DEFINE p == <<y, x>>
    <3>1. p \in Nat \X Nat /\ p[1] = y /\ p[2] = x
      OBVIOUS
    <3> QED BY <3>1 DEF Less
  <2>2. x \in Nat /\ y \in Nat
    OBVIOUS
  <2> QED BY <1>2, <2>1, <2>2
<1> QED BY <1>3

LEMMA LeastNatural ==
  ASSUME NEW T \in SUBSET Nat, T # {}
  PROVE  Min(T) \in T
<1>1. PICK x \in T : \A y \in T : x <= y
  BY LeastElement
<1> QED BY <1>1 DEF Min

\* At the start every node is ready, once.
LEMMA AllReady ==
  ASSUME InputNodeAssumption
  PROVE  /\ SetToSeq(Nodes) \in Seq(Nodes)
         /\ \A i, j \in DOMAIN SetToSeq(Nodes) : SetToSeq(Nodes)[i] = SetToSeq(Nodes)[j] => i = j
         /\ \A c \in Nodes : \E i \in DOMAIN SetToSeq(Nodes) : SetToSeq(Nodes)[i] = c
<1>1. IsFiniteSet(Nodes)
  BY DEF InputNodeAssumption
<1>2. PICK n \in Nat : n = Cardinality(Nodes)
  BY <1>1, FS_CardinalityType
<1>3. ExistsBijection(1 .. n, Nodes)
  BY <1>1, <1>2, FS_CardinalityType
<1>4. \E f \in [1 .. n -> Nodes] : IsInjective(f)
  BY <1>3 DEF ExistsBijection, Bijection, Injection, IsInjective
<1>5. PICK q : q = SetToSeq(Nodes)
  OBVIOUS
<1>6. q \in [1 .. n -> Nodes] /\ IsInjective(q)
  BY <1>2, <1>4, <1>5 DEF SetToSeq
<1>7. q \in Injection(1 .. n, Nodes)
  BY <1>6 DEF Injection, IsInjective
<1>8. IsFiniteSet(1 .. n) /\ Cardinality(1 .. n) = n
  BY FS_Interval
<1>9. q \in Surjection(1 .. n, Nodes)
  BY <1>1, <1>2, <1>7, <1>8, FS_Injection
<1>10. q \in Seq(Nodes) /\ DOMAIN q = 1 .. n
  BY <1>6
<1>11. \A c \in Nodes : \E i \in 1 .. n : q[i] = c
  BY <1>9 DEF Surjection
<1>12. \A i, j \in 1 .. n : q[i] = q[j] => i = j
  BY <1>6, <1>10 DEF IsInjective
<1> QED BY <1>5, <1>10, <1>11, <1>12

LEMMA TypesInit ==
  ASSUME InputNodeAssumption, SupplyAssumption, Init
  PROVE  Types
<1>1. mScan \in 0 .. Len(Scans) + 1 /\ mTime \in Nat
  BY DEF Init, SupplyAssumption
<1>2. mChannels \in SUBSET Channels /\ mChannels # {}
  BY DEF Init, InputNodeAssumption
<1>3. ready \in Seq(Nodes)
  BY AllReady DEF Init
<1>4. NumberFfts \in Nat
  BY DEF InputNodeAssumption
<1>5. /\ handed \in [Nodes -> Seq(SlicesGiven)]
      /\ fft \in [Nodes -> 0 .. NumberFfts]
      /\ hasRequested \in [Nodes -> BOOLEAN]
  BY <1>4 DEF Init
<1>6. NewWriter \in Writers
  BY <1>4 DEF NewWriter, Writers
<1>7. InputTypes
  BY <1>6 DEF Init, InputInit, InputTypes, NoInterval
<1> QED BY <1>1, <1>2, <1>3, <1>5, <1>7 DEF Types, SupplyTypes

-----------------------------------------------------------------------------
\* Writer ch of station s becomes v.
Turns(s, ch, v) == writer' = [writer EXCEPT ![s][ch] = v]

LEMMA TurnsFacts ==
  ASSUME writer \in [Stations -> [Channels -> Writers]],
         NEW s \in Stations, NEW ch \in Channels, NEW v \in Writers, Turns(s, ch, v)
  PROVE  /\ writer' \in [Stations -> [Channels -> Writers]]
         /\ writer'[s][ch] = v
         /\ \A d \in Channels \ {ch} : writer'[s][d] = writer[s][d]
         /\ \A t \in Stations \ {s} : writer'[t] = writer[t]
BY DEF Turns

\* What the actions do to a data writer w, which becomes v.
Fetched(w, v) ==
  /\ w.pc = "idle" /\ w.time >= w.stop /\ w.intervals # <<>>
  /\ v.time = w.intervals[1][1] /\ v.stop = w.intervals[1][2] /\ v.intervals = Tail(w.intervals)
  /\ v.pc = w.pc /\ v.slices = w.slices /\ v.start = w.start /\ v.left = w.left
Found(w, v) ==
  /\ w.pc = "idle" /\ w.time < w.stop /\ v.pc = "found"
  /\ v.slices = w.slices /\ v.intervals = w.intervals
  /\ v.time = w.time /\ v.stop = w.stop /\ v.start = w.start /\ v.left = w.left
Begun(w, v) ==
  /\ w.pc = "found" /\ v.pc = "write" /\ v.start = w.time /\ v.left = NumberFfts
  /\ v.slices = w.slices /\ v.intervals = w.intervals /\ v.time = w.time /\ v.stop = w.stop
Written(w, v) ==
  /\ w.pc = "write" /\ v.pc = "write" /\ w.left > 0
  /\ v.time = w.time + 1 /\ v.left = w.left - 1
  /\ v.slices = w.slices /\ v.intervals = w.intervals /\ v.stop = w.stop /\ v.start = w.start
Ended(w, v) ==
  /\ w.pc = "write" /\ v.pc = "idle" /\ w.left = 0
  /\ v.time = w.start + IntegrationUnits /\ v.slices = Tail(w.slices)
  /\ v.intervals = w.intervals /\ v.stop = w.stop /\ v.start = w.start /\ v.left = w.left
GotInterval(w, v, i) ==
  /\ v.intervals = Append(w.intervals, i)
  /\ v.pc = w.pc /\ v.slices = w.slices
  /\ v.time = w.time /\ v.stop = w.stop /\ v.start = w.start /\ v.left = w.left
GotSlice(w, v, e) ==
  /\ v.slices = Append(w.slices, e)
  /\ v.pc = w.pc /\ v.intervals = w.intervals
  /\ v.time = w.time /\ v.stop = w.stop /\ v.start = w.start /\ v.left = w.left

LEMMA FetchFacts ==
  ASSUME InputTypes, NEW s \in Stations, NEW ch \in Channels, FetchNextTimeInterval(s, ch)
  PROVE  \E v \in Writers :
           /\ Turns(s, ch, v)
           /\ v.pc = writer[s][ch].pc /\ v.slices = writer[s][ch].slices
           /\ v.left = writer[s][ch].left
           /\ Fetched(writer[s][ch], v)
<1>1. PICK w \in Writers : w = writer[s][ch]
  BY DEF InputTypes
<1>2. w.intervals \in Seq(Int \X Int) /\ w.intervals # <<>>
  BY <1>1 DEF FetchNextTimeInterval, Writers
<1>3. PICK i \in Int \X Int : i = Head(w.intervals)
  BY <1>2
<1>4. PICK q \in Seq(Int \X Int) : q = Tail(w.intervals)
  <2>1. PICK p \in Seq(Int \X Int) : p = w.intervals /\ p # <<>>
    BY <1>2
  <2>2. Tail(p) \in Seq(Int \X Int)
    BY <2>1
  <2> QED BY <2>1, <2>2
<1> DEFINE v == [w EXCEPT !.time = i[1], !.stop = i[2], !.intervals = q]
<1>5. v \in Writers /\ v.pc = w.pc /\ v.slices = w.slices /\ v.left = w.left
  BY DEF Writers
<1>6. Turns(s, ch, v)
  BY <1>1, <1>3, <1>4 DEF FetchNextTimeInterval, Turns
<1>7. w.intervals[1] = i
  BY <1>2, <1>3
<1>8. v.time = i[1] /\ v.stop = i[2] /\ v.intervals = q /\ v.start = w.start
  BY DEF Writers
<1>9. w.pc = "idle" /\ w.time >= w.stop
  BY <1>1 DEF FetchNextTimeInterval
<1> HIDE DEF v
<1>10. Fetched(w, v)
  BY <1>2, <1>4, <1>5, <1>7, <1>8, <1>9 DEF Fetched
<1> QED BY <1>1, <1>5, <1>6, <1>10

LEMMA FindFacts ==
  ASSUME InputTypes, NEW s \in Stations, NEW ch \in Channels, FindWork(s, ch)
  PROVE  \E v \in Writers :
           /\ Turns(s, ch, v) /\ writer[s][ch].pc = "idle" /\ writer[s][ch].slices # <<>>
           /\ ~active[s][writer[s][ch].slices[1]]
           /\ v = [writer[s][ch] EXCEPT !.pc = "found"]
           /\ Found(writer[s][ch], v)
<1>1. PICK w \in Writers : w = writer[s][ch]
  BY DEF InputTypes
<1>2. w.slices \in Seq(Nodes) /\ w.slices # <<>> /\ Head(w.slices) = w.slices[1]
  BY <1>1 DEF FindWork, Writers
<1> DEFINE v == [w EXCEPT !.pc = "found"]
<1>3. v \in Writers
  BY DEF Writers
<1>4. Turns(s, ch, v)
  BY <1>1 DEF FindWork, Turns, InputTypes
<1>5. w.pc = "idle" /\ w.time < w.stop
  BY <1>1 DEF FindWork
<1>6. Found(w, v)
  BY <1>5 DEF Found, Writers
<1> QED BY <1>1, <1>2, <1>3, <1>4, <1>6 DEF FindWork, Stream

LEMMA ActivateFacts ==
  ASSUME InputNodeAssumption, InputTypes,
         NEW s \in Stations, NEW ch \in Channels, Activate(s, ch),
         writer[s][ch].slices # <<>>
  PROVE  \E v \in Writers, e \in Nodes :
           /\ Turns(s, ch, v) /\ writer[s][ch].pc = "found" /\ v.pc = "write"
           /\ v.slices = writer[s][ch].slices /\ v.left = NumberFfts
           /\ e = writer[s][ch].slices[1]
           /\ active' = [active EXCEPT ![s][e] = TRUE]
           /\ Begun(writer[s][ch], v)
<1>1. PICK w \in Writers : w = writer[s][ch]
  BY DEF InputTypes
<1>2. w.slices \in Seq(Nodes) /\ w.slices # <<>> /\ Head(w.slices) = w.slices[1]
  BY <1>1 DEF Writers
<1>3. PICK e \in Nodes : e = Head(w.slices)
  BY <1>2
<1>4. NumberFfts \in 0 .. NumberFfts
  BY DEF InputNodeAssumption
<1> DEFINE v == [w EXCEPT !.pc = "write", !.start = w.time, !.left = NumberFfts]
<1>5. v \in Writers /\ v.pc = "write" /\ v.slices = w.slices /\ v.left = NumberFfts
  BY <1>4 DEF Writers
<1>6. Turns(s, ch, v)
  BY <1>1 DEF Activate, Turns
<1>7. active' = [active EXCEPT ![s][e] = TRUE]
  BY <1>1, <1>3 DEF Activate, Stream
<1>8. w.pc = "found"
  BY <1>1 DEF Activate
<1>9. Begun(w, v)
  BY <1>8 DEF Begun, Writers
<1> HIDE DEF v
<1> QED BY <1>1, <1>2, <1>3, <1>5, <1>6, <1>7, <1>8, <1>9

LEMMA WriteFacts ==
  ASSUME InputNodeAssumption, InputTypes,
         NEW s \in Stations, NEW ch \in Channels, WriteBlock(s, ch),
         writer[s][ch].slices # <<>>
  PROVE  \E v \in Writers, e \in Nodes, u \in Units :
           /\ Turns(s, ch, v) /\ writer[s][ch].pc = "write" /\ v.pc = "write"
           /\ v.slices = writer[s][ch].slices /\ e = writer[s][ch].slices[1]
           /\ writer[s][ch].left \in Nat /\ writer[s][ch].left > 0
           /\ v.left = writer[s][ch].left - 1
           /\ wire' = [wire EXCEPT ![s][e] = @ \o <<u>>]
           /\ u = Unit(ch, blocks[s][ch][1])
           /\ Written(writer[s][ch], v)
<1>1. PICK w \in Writers : w = writer[s][ch]
  BY DEF InputTypes
<1>2. w.slices \in Seq(Nodes) /\ w.slices # <<>> /\ Head(w.slices) = w.slices[1]
  BY <1>1 DEF Writers
<1>3. PICK e \in Nodes : e = Head(w.slices)
  BY <1>2
<1>4. w.left \in 0 .. NumberFfts /\ w.left > 0 /\ w.time \in Int
  BY <1>1 DEF Writers, WriteBlock
<1>5. w.left \in Nat /\ w.left - 1 \in 0 .. NumberFfts /\ w.time + 1 \in Int
  <2>1. NumberFfts \in Nat
    BY DEF InputNodeAssumption
  <2> QED BY <1>4, <2>1
<1>6. PICK b \in Seq(Int) : b = blocks[s][ch] /\ b # <<>>
  BY SMTT(30) DEF InputTypes, WriteBlock
<1>7. PICK t \in Int : t = Head(b)
  BY <1>6
<1>8. PICK u \in Units : u = Unit(ch, t)
  BY DEF Units, Unit
<1> DEFINE v == [w EXCEPT !.time = w.time + 1, !.left = w.left - 1]
<1>9. v \in Writers /\ v.pc = w.pc /\ v.slices = w.slices /\ v.left = w.left - 1
  BY <1>5 DEF Writers
<1>10. Turns(s, ch, v)
  BY <1>1 DEF WriteBlock, Turns
<1>11. wire' = [wire EXCEPT ![s][e] = @ \o <<u>>]
  BY <1>1, <1>3, <1>6, <1>7, <1>8 DEF WriteBlock, Stream
<1>12. w.pc = "write"
  BY <1>1 DEF WriteBlock
<1>13. Written(w, v)
  BY <1>4, <1>12 DEF Written, Writers
<1>14. u = Unit(ch, blocks[s][ch][1])
  BY <1>6, <1>7, <1>8
<1> HIDE DEF v
<1> QED BY <1>1, <1>2, <1>3, <1>4, <1>5, <1>9, <1>10, <1>11, <1>12, <1>13, <1>14

LEMMA EndFacts ==
  ASSUME InputNodeAssumption, InputTypes,
         NEW s \in Stations, NEW ch \in Channels, EndSlice(s, ch),
         writer[s][ch].slices # <<>>
  PROVE  \E v \in Writers, e \in Nodes :
           /\ Turns(s, ch, v) /\ writer[s][ch].pc = "write" /\ v.pc = "idle"
           /\ v.slices = Tail(writer[s][ch].slices) /\ e = writer[s][ch].slices[1]
           /\ writer[s][ch].left = 0
           /\ wire' = [wire EXCEPT ![s][e] = Append(@, EndOfStream)]
           /\ active' = [active EXCEPT ![s][e] = FALSE]
           /\ Ended(writer[s][ch], v)
<1>1. PICK w \in Writers : w = writer[s][ch]
  BY DEF InputTypes
<1>2. PICK q \in Seq(Nodes) : q = w.slices /\ q # <<>> /\ Head(q) = q[1]
  BY <1>1 DEF Writers
<1>3. PICK e \in Nodes : e = Head(q)
  BY <1>2
<1>4. PICK r \in Seq(Nodes) : r = Tail(q)
  <2>1. Tail(q) \in Seq(Nodes)
    BY <1>2
  <2> QED BY <2>1
<1>5. w.start + IntegrationUnits \in Int
  BY DEF Writers, InputNodeAssumption
<1> DEFINE v == [w EXCEPT !.pc = "idle", !.time = w.start + IntegrationUnits, !.slices = r]
<1>6. v \in Writers /\ v.pc = "idle" /\ v.slices = r
  BY <1>5 DEF Writers
<1>7. Turns(s, ch, v)
  BY <1>1, <1>2, <1>4 DEF EndSlice, Turns
<1>8. /\ wire' = [wire EXCEPT ![s][e] = Append(@, EndOfStream)]
      /\ active' = [active EXCEPT ![s][e] = FALSE]
      /\ w.pc = "write" /\ w.left = 0
  BY <1>1, <1>2, <1>3 DEF EndSlice, Stream
<1>9. Ended(w, v)
  BY <1>2, <1>4, <1>8 DEF Ended, Writers
<1> HIDE DEF v
<1> QED BY <1>1, <1>2, <1>3, <1>4, <1>6, <1>7, <1>8, <1>9

\* Station s takes its first message.
LEMMA TakesFacts ==
  ASSUME mail \in [Stations -> Seq(Messages)],
         NEW s \in Stations, NEW type, Takes(s, type)
  PROVE  /\ mail' \in [Stations -> Seq(Messages)]
         /\ mail[s] # <<>> /\ Head(mail[s]) \in Messages /\ Head(mail[s]).type = type
         /\ mail'[s] = Tail(mail[s])
         /\ \A t \in Stations \ {s} : mail'[t] = mail[t]
         /\ iStatus[s] \in {"WAITING", "WRITING"}
<1>1. PICK M \in Seq(Messages) : M = mail[s] /\ M # <<>>
  BY DEF Takes
<1>2. PICK T \in Seq(Messages) : T = Tail(M)
  <2>1. Tail(M) \in Seq(Messages)
    BY <1>1
  <2> QED BY <2>1
<1>3. PICK m \in Messages : m = Head(M)
  BY <1>1
<1>4. mail' = [mail EXCEPT ![s] = T]
  BY <1>1, <1>2 DEF Takes
<1> QED BY <1>1, <1>2, <1>3, <1>4 DEF Takes

LEMMA SendFacts ==
  ASSUME mail \in [Stations -> Seq(Messages)], NEW S, NEW ms \in Seq(Messages), Send(S, ms)
  PROVE  /\ mail' \in [Stations -> Seq(Messages)]
         /\ \A s \in Stations : s \in S => mail'[s] = mail[s] \o ms
         /\ \A s \in Stations : s \notin S => mail'[s] = mail[s]
<1>1. \A s \in Stations : mail[s] \o ms \in Seq(Messages)
  OBVIOUS
<1> QED BY <1>1 DEF Send

LEMMA IntervalMessage ==
  ASSUME NEW m \in Messages, m.type = "SET_TIME"
  PROVE  m.start \in Int /\ m.stop \in Int
BY DEF Messages

LEMMA SliceMessage ==
  ASSUME NEW m \in Messages, m.type = "ADD_TIME_SLICE"
  PROVE  m.channel \in Channels /\ m.stream \in Nodes
BY DEF Messages

\* What the messages do to the data writers.
LEMMA IntervalFacts ==
  ASSUME InputTypes, NEW s \in Stations, ReceiveTimeInterval(s)
  PROVE  /\ writer' \in [Stations -> [Channels -> Writers]]
         /\ reading' \in [Stations -> Seq(Int \X Int)]
         /\ \A t \in Stations \ {s} : writer'[t] = writer[t]
         /\ \A ch \in Channels :
              /\ writer'[s][ch].pc = writer[s][ch].pc
              /\ writer'[s][ch].slices = writer[s][ch].slices
              /\ writer'[s][ch].left = writer[s][ch].left
              /\ GotInterval(writer[s][ch], writer'[s][ch], <<Head(mail[s]).start, Head(mail[s]).stop>>)
<1>1. mail \in [Stations -> Seq(Messages)]
  BY DEF InputTypes
<1>2. PICK m \in Messages : m = Head(mail[s]) /\ m.type = "SET_TIME"
  BY <1>1, TakesFacts DEF ReceiveTimeInterval
<1>3. PICK a \in Int, b \in Int : a = m.start /\ b = m.stop
  BY <1>2, IntervalMessage
<1>4. <<a, b>> \in Int \X Int /\ <<a, b + 1>> \in Int \X Int
  OBVIOUS
<1> DEFINE W == [ch \in Channels |-> AddInterval(writer[s][ch], m)]
<1>5. writer' = [writer EXCEPT ![s] = W]
  BY <1>2 DEF ReceiveTimeInterval
<1>6. \A ch \in Channels :
        /\ W[ch] \in Writers
        /\ W[ch].pc = writer[s][ch].pc /\ W[ch].slices = writer[s][ch].slices
        /\ W[ch].left = writer[s][ch].left
        /\ GotInterval(writer[s][ch], W[ch], <<a, b>>)
  <2>1. TAKE ch \in Channels
  <2>2. PICK w \in Writers : w = writer[s][ch]
    BY DEF InputTypes
  <2>3. PICK q \in Seq(Int \X Int) : q = Append(w.intervals, <<a, b>>)
    <3>1. Append(w.intervals, <<a, b>>) \in Seq(Int \X Int)
      BY <1>4 DEF Writers
    <3> QED BY <3>1
  <2>4. W[ch] = [w EXCEPT !.intervals = q]
    BY <1>3, <2>2, <2>3 DEF AddInterval
  <2>5. [w EXCEPT !.intervals = q] \in Writers
    BY DEF Writers
  <2>6. /\ W[ch].pc = w.pc /\ W[ch].slices = w.slices /\ W[ch].left = w.left
    BY <2>4 DEF Writers
  <2>7. GotInterval(w, [w EXCEPT !.intervals = q], <<a, b>>)
    BY <2>3 DEF GotInterval, Writers
  <2> QED BY <2>2, <2>4, <2>5, <2>6, <2>7
<1>7. W \in [Channels -> Writers]
  BY <1>6
<1> HIDE DEF W
<1>8. reading' \in [Stations -> Seq(Int \X Int)]
  <2>1. PICK q \in Seq(Int \X Int) : q = Append(reading[s], <<a, b + 1>>)
    <3>1. Append(reading[s], <<a, b + 1>>) \in Seq(Int \X Int)
      BY <1>4 DEF InputTypes
    <3> QED BY <3>1
  <2>2. reading' = [reading EXCEPT ![s] = q]
    BY <1>2, <1>3, <2>1 DEF ReceiveTimeInterval
  <2> QED BY <2>2 DEF InputTypes
<1> QED BY <1>2, <1>3, <1>5, <1>6, <1>7, <1>8 DEF InputTypes

LEMMA SliceFacts ==
  ASSUME InputTypes, NEW s \in Stations, ReceiveTimeSlice(s)
  PROVE  \E ch \in Channels, e \in Nodes, v \in Writers :
           /\ ch = Head(mail[s]).channel /\ e = Head(mail[s]).stream
           /\ Turns(s, ch, v)
           /\ v.pc = writer[s][ch].pc /\ v.left = writer[s][ch].left
           /\ v.slices = Append(writer[s][ch].slices, e)
           /\ GotSlice(writer[s][ch], v, e)
<1>1. mail \in [Stations -> Seq(Messages)]
  BY DEF InputTypes
<1>2. PICK m \in Messages : m = Head(mail[s]) /\ m.type = "ADD_TIME_SLICE"
  BY <1>1, TakesFacts DEF ReceiveTimeSlice
<1>3. PICK ch \in Channels, e \in Nodes : ch = m.channel /\ e = m.stream
  BY <1>2, SliceMessage
<1>4. PICK w \in Writers : w = writer[s][ch]
  BY DEF InputTypes
<1>5. PICK q \in Seq(Nodes) : q = Append(w.slices, e)
  <2>1. Append(w.slices, e) \in Seq(Nodes)
    BY DEF Writers
  <2> QED BY <2>1
<1> DEFINE v == [w EXCEPT !.slices = q]
<1>6. v \in Writers /\ v.pc = w.pc /\ v.left = w.left /\ v.slices = q
  BY DEF Writers
<1>7. Turns(s, ch, v)
  BY <1>2, <1>3, <1>4, <1>5 DEF ReceiveTimeSlice, Turns, InputTypes
<1>8. GotSlice(w, v, e)
  BY <1>5 DEF GotSlice, Writers
<1> HIDE DEF v
<1> QED BY <1>2, <1>3, <1>4, <1>5, <1>6, <1>7, <1>8

LEMMA CancelFacts ==
  ASSUME InputTypes, NEW s \in Stations, ReceiveEndNode(s)
  PROVE  /\ writer' \in [Stations -> [Channels -> Writers]]
         /\ \A t \in Stations \ {s} : writer'[t] = writer[t]
         /\ \A ch \in Channels : writer'[s][ch] = [writer[s][ch] EXCEPT !.pc = "cancelled"]
<1> DEFINE W == [ch \in Channels |-> [writer[s][ch] EXCEPT !.pc = "cancelled"]]
<1>1. writer' = [writer EXCEPT ![s] = W]
  BY DEF ReceiveEndNode
<1>2. W \in [Channels -> Writers]
  <2>1. \A ch \in Channels : W[ch] \in Writers
    <3>1. TAKE ch \in Channels
    <3>2. PICK w \in Writers : w = writer[s][ch]
      BY DEF InputTypes
    <3>3. [w EXCEPT !.pc = "cancelled"] \in Writers
      BY DEF Writers
    <3> QED BY <3>2, <3>3
  <2> QED BY <2>1
<1>3. \A ch \in Channels : W[ch] = [writer[s][ch] EXCEPT !.pc = "cancelled"]
  OBVIOUS
<1> HIDE DEF W
<1> QED BY <1>1, <1>2, <1>3 DEF InputTypes

-----------------------------------------------------------------------------
\* The types after each step.
LEMMA MessageTypes ==
  ASSUME InputTypes, NEW s \in Stations, MessageStep(s)
  PROVE  InputTypes'
<1>1. mail \in [Stations -> Seq(Messages)]
  BY DEF InputTypes
<1>2. CASE ReceiveParameters(s)
  BY <1>1, <1>2, TakesFacts DEF ReceiveParameters, InputTypes
<1>3. CASE ReceiveTimeInterval(s)
  <2>1. mail' \in [Stations -> Seq(Messages)]
    BY <1>1, <1>3, TakesFacts DEF ReceiveTimeInterval
  <2> QED BY <1>3, <2>1, IntervalFacts DEF ReceiveTimeInterval, InputTypes
<1>4. CASE ReceiveTimeSlice(s)
  <2>1. mail' \in [Stations -> Seq(Messages)]
    BY <1>1, <1>4, TakesFacts DEF ReceiveTimeSlice
  <2>2. writer' \in [Stations -> [Channels -> Writers]]
    <3>1. PICK ch \in Channels, v \in Writers : Turns(s, ch, v)
      BY <1>4, SliceFacts
    <3> QED BY <3>1, TurnsFacts DEF InputTypes
  <2> QED BY <1>4, <2>1, <2>2 DEF ReceiveTimeSlice, InputTypes
<1>5. CASE ReceiveEndNode(s)
  <2>1. mail' \in [Stations -> Seq(Messages)]
    BY <1>1, <1>5, TakesFacts DEF ReceiveEndNode
  <2>2. reading' \in [Stations -> Seq(Int \X Int)]
    <3>1. PICK z \in Int \X Int : z = <<0, 0>>
      <4>1. <<0, 0>> \in Int \X Int
        OBVIOUS
      <4> QED BY <4>1
    <3>2. PICK q \in Seq(Int \X Int) : q = Append(reading[s], z)
      <4>1. Append(reading[s], z) \in Seq(Int \X Int)
        BY DEF InputTypes
      <4> QED BY <4>1
    <3>3. reading' = [reading EXCEPT ![s] = q]
      BY <1>5, <3>1, <3>2 DEF ReceiveEndNode
    <3> QED BY <3>3 DEF InputTypes
  <2>3. blocks' \in [Stations -> [Channels -> Seq(Int)]]
    BY <1>5 DEF ReceiveEndNode, InputTypes
  <2>4. iStatus' \in [Stations -> {"WAITING", "WRITING", "TERMINATING", "END_NODE"}]
    BY <1>5 DEF ReceiveEndNode, InputTypes
  <2> QED BY <1>5, <2>1, <2>2, <2>3, <2>4, CancelFacts DEF ReceiveEndNode, InputTypes
<1>6. CASE Terminated(s)
  BY <1>6 DEF Terminated, InputTypes
<1> QED BY <1>2, <1>3, <1>4, <1>5, <1>6 DEF MessageStep

LEMMA ReaderTypes ==
  ASSUME InputTypes, NEW s \in Stations, ReaderStep(s)
  PROVE  InputTypes'
<1>1. CASE ReadBlocks(s)
  <2>1. PICK t \in Int : t = readTime[s]
    BY DEF InputTypes
  <2>2. t + 1 \in Int
    OBVIOUS
  <2>3. readTime' \in [Stations -> Int]
    BY <1>1, <2>1, <2>2 DEF ReadBlocks, InputTypes
  <2>4. blocks' \in [Stations -> [Channels -> Seq(Int)]]
    <3>1. CASE UNCHANGED blocks
      BY <3>1 DEF InputTypes
    <3>2. CASE blocks' = [blocks EXCEPT ![s] = [ch \in Channels |-> Append(@[ch], readTime[s])]]
      <4> DEFINE B == [ch \in Channels |-> Append(blocks[s][ch], t)]
      <4>1. B \in [Channels -> Seq(Int)]
        BY DEF InputTypes
      <4>2. blocks' = [blocks EXCEPT ![s] = B]
        BY <2>1, <3>2
      <4> HIDE DEF B
      <4> QED BY <4>1, <4>2 DEF InputTypes
    <3> QED BY <1>1, <3>1, <3>2 DEF ReadBlocks
  <2> QED BY <1>1, <2>3, <2>4 DEF ReadBlocks, InputTypes
<1>2. CASE NextInterval(s)
  <2>1. PICK p \in Seq(Int \X Int) : p = reading[s] /\ Len(p) > 1
    BY <1>2 DEF NextInterval, InputTypes
  <2>2. PICK q \in Seq(Int \X Int) : q = Tail(p) /\ q # <<>>
    <3>1. p # <<>> /\ Len(p) \in Nat
      BY <2>1
    <3>2. PICK q \in Seq(Int \X Int) : q = Tail(p) /\ Len(q) = Len(p) - 1
      <4>1. Tail(p) \in Seq(Int \X Int) /\ Len(Tail(p)) = Len(p) - 1
        BY <3>1, HeadTailProperties
      <4> QED BY <4>1
    <3>3. Len(q) >= 1
      <4>1. PICK n \in Nat : n = Len(p) /\ n > 1 /\ Len(q) = n - 1
        BY <2>1, <3>1, <3>2
      <4> QED BY <4>1
    <3>4. q # <<>>
      BY <3>3
    <3> QED BY <3>2, <3>4
  <2>3. PICK i \in Int \X Int : i = Head(q)
    BY <2>2, HeadTailProperties
  <2>4. reading' = [reading EXCEPT ![s] = q]
    BY <1>2, <2>1, <2>2 DEF NextInterval
  <2>5. reading'[s] = q
    BY <2>4 DEF InputTypes
  <2>6. readTime' = [readTime EXCEPT ![s] = i[1]]
    BY <1>2, <2>3, <2>5 DEF NextInterval
  <2>7. reading' \in [Stations -> Seq(Int \X Int)]
    BY <2>4 DEF InputTypes
  <2>8. readTime' \in [Stations -> Int]
    BY <2>6 DEF InputTypes
  <2> QED BY <1>2, <2>7, <2>8 DEF NextInterval, InputTypes
<1> QED BY <1>1, <1>2 DEF ReaderStep

LEMMA WriterTypes ==
  ASSUME InputNodeAssumption, InputTypes, WriterStates,
         NEW s \in Stations, NEW ch \in Channels, WriterStep(s, ch)
  PROVE  InputTypes'
<1>1. CASE FetchNextTimeInterval(s, ch)
  <2>1. PICK v \in Writers : Turns(s, ch, v)
    BY <1>1, FetchFacts
  <2> QED BY <1>1, <2>1, TurnsFacts DEF FetchNextTimeInterval, InputTypes
<1>2. CASE FindWork(s, ch)
  <2>1. PICK v \in Writers : Turns(s, ch, v)
    BY <1>2, FindFacts
  <2> QED BY <1>2, <2>1, TurnsFacts DEF FindWork, InputTypes
<1>3. CASE Activate(s, ch)
  <2>1. writer[s][ch].slices # <<>>
    BY <1>3 DEF Activate, WriterStates
  <2>2. PICK v \in Writers, e \in Nodes :
          Turns(s, ch, v) /\ active' = [active EXCEPT ![s][e] = TRUE]
          /\ Begun(writer[s][ch], v)
    BY <1>3, <2>1, ActivateFacts
  <2>3. active' \in [Stations -> [Nodes -> BOOLEAN]]
    BY <2>2 DEF InputTypes
  <2> QED BY <1>3, <2>2, <2>3, TurnsFacts DEF Activate, InputTypes
<1>4. CASE SkipOldBlock(s, ch)
  <2>1. blocks' \in [Stations -> [Channels -> Seq(Int)]]
    <3>1. PICK b \in Seq(Int) : b = Tail(blocks[s][ch])
      <4>1. PICK a \in Seq(Int) : a = blocks[s][ch] /\ a # <<>>
        BY <1>4 DEF SkipOldBlock, InputTypes
      <4>2. Tail(a) \in Seq(Int)
        BY <4>1
      <4> QED BY <4>1, <4>2
    <3>2. blocks' = [blocks EXCEPT ![s][ch] = b]
      BY <1>4, <3>1 DEF SkipOldBlock
    <3> QED BY <3>2 DEF InputTypes
  <2> QED BY <1>4, <2>1 DEF SkipOldBlock, InputTypes
<1>5. CASE WriteBlock(s, ch)
  <2>1. writer[s][ch].slices # <<>>
    BY <1>5 DEF WriteBlock, WriterStates
  <2>2. PICK v \in Writers, e \in Nodes, u \in Units :
          /\ Turns(s, ch, v) /\ writer[s][ch].pc = "write" /\ v.pc = "write"
          /\ v.slices = writer[s][ch].slices /\ e = writer[s][ch].slices[1]
          /\ writer[s][ch].left \in Nat /\ writer[s][ch].left > 0
          /\ v.left = writer[s][ch].left - 1
          /\ wire' = [wire EXCEPT ![s][e] = @ \o <<u>>]
          /\ u = Unit(ch, blocks[s][ch][1])
          /\ Written(writer[s][ch], v)
    BY <1>5, <2>1, WriteFacts, Zenon
  <2>3. blocks' \in [Stations -> [Channels -> Seq(Int)]]
    <3>1. PICK b \in Seq(Int) : b = Tail(blocks[s][ch])
      <4>1. PICK a \in Seq(Int) : a = blocks[s][ch] /\ a # <<>>
        BY <1>5, SMTT(30) DEF WriteBlock, InputTypes
      <4>2. Tail(a) \in Seq(Int)
        BY <4>1
      <4> QED BY <4>1, <4>2
    <3>2. blocks' = [blocks EXCEPT ![s][ch] = b]
      BY <1>5, <3>1 DEF WriteBlock
    <3> QED BY <3>2 DEF InputTypes
  <2>4. wire' \in [Stations -> [Nodes -> Seq(Units)]]
    <3>1. PICK x \in Seq(Units) : x = wire[s][e] \o <<u>>
      <4>1. wire[s][e] \o <<u>> \in Seq(Units)
        BY DEF InputTypes
      <4> QED BY <4>1
    <3>2. wire' = [wire EXCEPT ![s][e] = x]
      BY <2>2, <3>1
    <3> QED BY <3>2 DEF InputTypes
  <2>5. writer' \in [Stations -> [Channels -> Writers]]
    BY <2>2, TurnsFacts DEF InputTypes
  <2> QED BY <1>5, <2>3, <2>4, <2>5 DEF WriteBlock, InputTypes
<1>6. CASE EndSlice(s, ch)
  <2>1. writer[s][ch].slices # <<>>
    BY <1>6 DEF EndSlice, WriterStates
  <2>2. PICK v \in Writers, e \in Nodes :
          /\ Turns(s, ch, v)
          /\ wire' = [wire EXCEPT ![s][e] = Append(@, EndOfStream)]
          /\ active' = [active EXCEPT ![s][e] = FALSE]
          /\ Ended(writer[s][ch], v)
    BY <1>6, <2>1, EndFacts
  <2>3. wire' \in [Stations -> [Nodes -> Seq(Units)]]
    <3>1. PICK x \in Seq(Units) : x = Append(wire[s][e], EndOfStream)
      <4>1. Append(wire[s][e], EndOfStream) \in Seq(Units)
        BY DEF InputTypes, Units
      <4> QED BY <4>1
    <3>2. wire' = [wire EXCEPT ![s][e] = x]
      BY <2>2, <3>1
    <3> QED BY <3>2 DEF InputTypes
  <2>4. writer' \in [Stations -> [Channels -> Writers]]
    BY <2>2, TurnsFacts DEF InputTypes
  <2>5. active' \in [Stations -> [Nodes -> BOOLEAN]]
    BY <2>2 DEF InputTypes
  <2> QED BY <1>6, <2>3, <2>4, <2>5 DEF EndSlice, InputTypes
<1> QED BY <1>1, <1>2, <1>3, <1>4, <1>5, <1>6 DEF WriterStep

-----------------------------------------------------------------------------
\* What the manager and the correlator nodes do.
ScanRecords == [start : Nat, stop : Nat, stations : SUBSET Stations]

LEMMA ScansFacts ==
  ASSUME SupplyAssumption
  PROVE  \E n \in Nat :
           n = Len(Scans) /\ DOMAIN Scans = 1 .. n /\ \A i \in 1 .. n : Scans[i] \in ScanRecords
<1>1. Scans \in Seq(ScanRecords)
  BY DEF SupplyAssumption, ScanRecords
<1> QED BY <1>1

LEMMA NewScanFacts ==
  ASSUME SupplyAssumption, Types, StartNewScan
  PROVE  \E S \in SUBSET Stations, a \in Messages, b \in Messages :
           /\ Send(S, <<a, b>>) /\ S = Scans[mScan'].stations
           /\ a.type = "TRACK_PARAMETERS" /\ b.type = "SET_TIME"
           /\ b.start = Scans[mScan'].start /\ b.stop = Scans[mScan'].stop
           /\ mScan' \in 0 .. Len(Scans) /\ mTime' \in Nat /\ mChannels' = Channels
<1>1. PICK n \in Nat :
        n = Len(Scans) /\ DOMAIN Scans = 1 .. n /\ \A i \in 1 .. n : Scans[i] \in ScanRecords
  BY ScansFacts
<1>2. mScan \in 0 .. n + 1 /\ mScan < n /\ mScan' = mScan + 1
  BY <1>1 DEF StartNewScan, Types, SupplyTypes
<1>3. mScan' \in 1 .. n /\ mScan' \in 0 .. n
  BY <1>2
<1>4. PICK scan \in ScanRecords : scan = Scans[mScan']
  BY <1>1, <1>3
<1>5. PICK S \in SUBSET Stations, x \in Nat, y \in Nat :
        S = scan.stations /\ x = scan.start /\ y = scan.stop
  BY DEF ScanRecords
<1>6. PICK a \in Messages : a = [type |-> "TRACK_PARAMETERS"]
  BY DEF Messages
<1>7. PICK b \in Messages : b = [type |-> "SET_TIME", start |-> x, stop |-> y]
  <2>1. x \in Int /\ y \in Int
    OBVIOUS
  <2> QED BY <2>1 DEF Messages
<1>8. Send(S, <<a, b>>)
  BY <1>4, <1>5, <1>6, <1>7 DEF StartNewScan, Interval
<1>9. mTime' \in Nat
  BY <1>4, <1>5 DEF StartNewScan
<1>10. a.type = "TRACK_PARAMETERS" /\ b.type = "SET_TIME"
       /\ b.start = Scans[mScan'].start /\ b.stop = Scans[mScan'].stop
  BY <1>4, <1>5, <1>6, <1>7
<1>11. S = Scans[mScan'].stations
  BY <1>4, <1>5
<1> QED BY <1>1, <1>3, <1>8, <1>9, <1>10, <1>11 DEF StartNewScan

LEMMA HandOutFacts ==
  ASSUME InputNodeAssumption, SupplyAssumption, Types, StartCorrelatorNode
  PROVE  \E S \in SUBSET Stations, m \in Messages, c \in Nodes, g \in SlicesGiven :
           /\ Send(S, <<m>>) /\ m.type = "ADD_TIME_SLICE" /\ m.stream = c
           /\ g.stations = S /\ handed' = [handed EXCEPT ![c] = Append(@, g)]
           /\ ready # <<>> /\ c = ready[1] /\ ready' = Tail(ready)
           /\ mScan \in 1 .. Len(Scans)
           /\ mTime' \in Nat /\ mChannels' \in SUBSET Channels /\ mChannels' # {}
           /\ m.channel = g.channel /\ S = Scans[mScan].stations
           /\ g.channel \in mChannels /\ g.time = mTime
           /\ IF mChannels = {g.channel}
              THEN mTime' = mTime + IntegrationUnits /\ mChannels' = Channels
              ELSE mTime' = mTime /\ mChannels' = mChannels \ {g.channel}
<1>1. PICK n \in Nat :
        n = Len(Scans) /\ DOMAIN Scans = 1 .. n /\ \A i \in 1 .. n : Scans[i] \in ScanRecords
  BY ScansFacts
<1>2. mScan \in 1 .. n
  BY <1>1 DEF StartCorrelatorNode
<1>3. PICK scan \in ScanRecords : scan = Scans[mScan]
  BY <1>1, <1>2
<1>4. PICK S \in SUBSET Stations : S = scan.stations
  BY DEF ScanRecords
<1>5. mChannels \in SUBSET Nat /\ mChannels # {}
  BY DEF Types, SupplyTypes, InputNodeAssumption
<1>6. Min(mChannels) \in mChannels
  BY <1>5, LeastNatural
<1>7. PICK ch \in Channels : ch = Min(mChannels)
  BY <1>6 DEF Types, SupplyTypes
<1>8. PICK q \in Seq(Nodes) : q = ready /\ q # <<>> /\ Head(q) = q[1]
  BY DEF StartCorrelatorNode, Types, SupplyTypes
<1>9. PICK c \in Nodes : c = Head(q)
  BY <1>8
<1>10. PICK m \in Messages : m = [type |-> "ADD_TIME_SLICE", channel |-> ch, stream |-> c]
  BY DEF Messages
<1>11. PICK t \in Nat : t = mTime
  BY DEF Types, SupplyTypes
<1>12. PICK g \in SlicesGiven : g = [channel |-> ch, time |-> t, stations |-> S]
  BY DEF SlicesGiven
<1>13. Send(S, <<m>>) /\ handed' = [handed EXCEPT ![c] = Append(@, g)] /\ ready' = Tail(ready)
  BY <1>3, <1>4, <1>7, <1>8, <1>9, <1>10, <1>11, <1>12 DEF StartCorrelatorNode, Slice
<1>14. IF mChannels = {ch}
       THEN mTime' = t + IntegrationUnits /\ mChannels' = Channels
       ELSE mTime' = t /\ mChannels' = mChannels \ {ch}
  BY <1>7, <1>11 DEF StartCorrelatorNode
<1>15. mTime' \in Nat
  BY <1>14 DEF InputNodeAssumption
<1>16. mChannels' \in SUBSET Channels /\ mChannels' # {}
  BY <1>6, <1>7, <1>14 DEF InputNodeAssumption, Types, SupplyTypes
<1>17. m.type = "ADD_TIME_SLICE" /\ m.stream = c /\ m.channel = ch
       /\ g.stations = S /\ g.channel = ch /\ g.time = t
  BY <1>10, <1>12
<1>18. S = Scans[mScan].stations
  BY <1>3, <1>4
<1>19. m.channel = g.channel /\ g.channel \in mChannels /\ g.time = mTime
  BY <1>6, <1>7, <1>11, <1>17
<1>20. IF mChannels = {g.channel}
       THEN mTime' = mTime + IntegrationUnits /\ mChannels' = Channels
       ELSE mTime' = mTime /\ mChannels' = mChannels \ {g.channel}
  BY <1>11, <1>14, <1>17
<1>21. ready # <<>> /\ c = ready[1]
  BY <1>8, <1>9
<1>22. mScan \in 1 .. Len(Scans)
  BY <1>1, <1>2
<1> QED BY <1>13, <1>15, <1>16, <1>17, <1>18, <1>19, <1>20, <1>21, <1>22, Zenon

LEMMA EndMessage == EndNode \in Messages /\ EndNode.type = "END_NODE"
<1>1. [type |-> "END_NODE"] \in Messages /\ [type |-> "END_NODE"].type = "END_NODE"
  BY DEF Messages
<1> QED BY <1>1 DEF EndNode

\* Node c reads a unit from each station of its present slice.
LEMMA TakeFacts ==
  ASSUME Types, NEW c \in Nodes, handed[c] # <<>>,
         \A s \in Present(c).stations : wire[s][c] # <<>>, Take(c)
  PROVE  /\ handed[c][1] \in SlicesGiven /\ handed[c][1].stations \in SUBSET Stations
         /\ wire' \in [Stations -> [Nodes -> Seq(Units)]]
         /\ \A s \in Stations :
              /\ s \in handed[c][1].stations => wire'[s][c] = Tail(wire[s][c])
                                             /\ Len(wire'[s][c]) = Len(wire[s][c]) - 1
              /\ s \notin handed[c][1].stations => wire'[s][c] = wire[s][c]
              /\ \A d \in Nodes \ {c} : wire'[s][d] = wire[s][d]
<1>1. PICK h \in Seq(SlicesGiven) : h = handed[c] /\ h # <<>>
  BY DEF Types, SupplyTypes
<1>2. PICK g \in SlicesGiven : g = h[1] /\ g = Present(c)
  BY <1>1 DEF Present
<1>3. PICK S \in SUBSET Stations : S = g.stations
  BY DEF SlicesGiven
<1>4. wire \in [Stations -> [Nodes -> Seq(Units)]]
  BY DEF Types, InputTypes
<1>5. \A s \in S : Tail(wire[s][c]) \in Seq(Units)
                 /\ Len(Tail(wire[s][c])) = Len(wire[s][c]) - 1
  <2>1. TAKE s \in S
  <2>2. PICK p \in Seq(Units) : p = wire[s][c] /\ p # <<>>
    BY <1>2, <1>3, <1>4
  <2>3. Tail(p) \in Seq(Units) /\ Len(Tail(p)) = Len(p) - 1
    BY <2>2, HeadTailProperties
  <2> QED BY <2>2, <2>3
<1>6. wire' = [s \in Stations |-> IF s \in S THEN [wire[s] EXCEPT ![c] = Tail(@)] ELSE wire[s]]
  BY <1>2, <1>3 DEF Take
<1>7. wire' \in [Stations -> [Nodes -> Seq(Units)]]
  BY <1>4, <1>5, <1>6
<1>8. \A s \in Stations :
        /\ s \in S => wire'[s][c] = Tail(wire[s][c])
        /\ s \notin S => wire'[s][c] = wire[s][c]
        /\ \A d \in Nodes \ {c} : wire'[s][d] = wire[s][d]
  BY <1>4, <1>6
<1> QED BY <1>1, <1>2, <1>3, <1>5, <1>7, <1>8

LEMMA ManagerTypes ==
  ASSUME InputNodeAssumption, SupplyAssumption, Types, ManagerStep
  PROVE  Types'
<1>1. mail \in [Stations -> Seq(Messages)]
  BY DEF Types, InputTypes
<1>2. CASE StartNewScan
  <2>1. PICK S \in SUBSET Stations, a \in Messages, b \in Messages :
          /\ Send(S, <<a, b>>)
          /\ mScan' \in 0 .. Len(Scans) /\ mTime' \in Nat /\ mChannels' = Channels
    BY <1>2, NewScanFacts
  <2>2. <<a, b>> \in Seq(Messages)
    OBVIOUS
  <2>3. mail' \in [Stations -> Seq(Messages)]
    BY <1>1, <2>1, <2>2, SendFacts
  <2>4. mScan' \in 0 .. Len(Scans) + 1
    BY <2>1, ScansFacts
  <2>5. mChannels' \in SUBSET Channels /\ mChannels' # {}
    BY <2>1 DEF InputNodeAssumption
  <2>6. InputTypes'
    BY <1>2, <2>3 DEF StartNewScan, Types, InputTypes
  <2> QED BY <1>2, <2>1, <2>4, <2>5, <2>6 DEF StartNewScan, Types, SupplyTypes
<1>3. CASE StartCorrelatorNode
  <2>1. PICK S \in SUBSET Stations, m \in Messages, c \in Nodes, g \in SlicesGiven :
           /\ Send(S, <<m>>) /\ m.type = "ADD_TIME_SLICE" /\ m.stream = c
           /\ g.stations = S /\ handed' = [handed EXCEPT ![c] = Append(@, g)]
           /\ ready # <<>> /\ c = ready[1] /\ ready' = Tail(ready)
           /\ mScan \in 1 .. Len(Scans)
           /\ mTime' \in Nat /\ mChannels' \in SUBSET Channels /\ mChannels' # {}
    BY <1>3, HandOutFacts, Zenon
  <2>2. <<m>> \in Seq(Messages)
    OBVIOUS
  <2>3. mail' \in [Stations -> Seq(Messages)]
    BY <1>1, <2>1, <2>2, SendFacts
  <2>4. handed' \in [Nodes -> Seq(SlicesGiven)]
    BY <2>1, SMTT(30) DEF Types, SupplyTypes
  <2>5. ready' \in Seq(Nodes)
    BY <2>1, HeadTailProperties DEF Types, SupplyTypes
  <2>6. InputTypes'
    BY <1>3, <2>3 DEF StartCorrelatorNode, Types, InputTypes
  <2> QED BY <1>3, <2>1, <2>4, <2>5, <2>6 DEF StartCorrelatorNode, Types, SupplyTypes
<1>4. CASE EndNodes
  <2>1. <<EndNode>> \in Seq(Messages)
    BY EndMessage
  <2>2. mail' \in [Stations -> Seq(Messages)]
    BY <1>1, <1>4, <2>1, SendFacts DEF EndNodes
  <2>3. mScan' \in 0 .. Len(Scans) + 1
    BY <1>4, ScansFacts DEF EndNodes
  <2>4. InputTypes'
    BY <1>4, <2>2 DEF EndNodes, Types, InputTypes
  <2> QED BY <1>4, <2>3, <2>4 DEF EndNodes, Types, SupplyTypes
<1> QED BY <1>2, <1>3, <1>4 DEF ManagerStep

LEMMA NodeTypes ==
  ASSUME InputNodeAssumption, Types, NEW c \in Nodes, NodeStep(c)
  PROVE  Types'
<1>1. NumberFfts \in Nat
  BY DEF InputNodeAssumption
<1>2. CASE Correlate(c)
  <2>1. wire' \in [Stations -> [Nodes -> Seq(Units)]]
    BY <1>2, TakeFacts DEF Correlate
  <2>2. fft' \in [Nodes -> 0 .. NumberFfts]
    <3>1. fft[c] + 1 \in 0 .. NumberFfts
      BY <1>1, <1>2 DEF Correlate, Types, SupplyTypes
    <3> QED BY <1>2, <3>1 DEF Correlate, Types, SupplyTypes
  <2> QED BY <1>2, <2>1, <2>2 DEF Correlate, Types, InputTypes, SupplyTypes
<1>3. CASE Request(c)
  <2>1. ready' \in Seq(Nodes) /\ hasRequested' \in [Nodes -> BOOLEAN]
    BY <1>3 DEF Request, Types, SupplyTypes
  <2> QED BY <1>3, <2>1 DEF Request, iVars, Types, InputTypes, SupplyTypes
<1>4. CASE FinishSlice(c)
  <2>1. wire' \in [Stations -> [Nodes -> Seq(Units)]]
    BY <1>4, TakeFacts DEF FinishSlice
  <2>2. handed' \in [Nodes -> Seq(SlicesGiven)]
    <3>1. PICK h \in Seq(SlicesGiven) : h = handed[c] /\ h # <<>>
      BY <1>4 DEF FinishSlice, Types, SupplyTypes
    <3>2. Tail(h) \in Seq(SlicesGiven)
      BY <3>1, HeadTailProperties
    <3> QED BY <1>4, <3>1, <3>2 DEF FinishSlice, Types, SupplyTypes
  <2>3. fft' \in [Nodes -> 0 .. NumberFfts] /\ hasRequested' \in [Nodes -> BOOLEAN]
    BY <1>1, <1>4 DEF FinishSlice, Types, SupplyTypes
  <2> QED BY <1>4, <2>1, <2>2, <2>3 DEF FinishSlice, Types, InputTypes, SupplyTypes
<1> QED BY <1>2, <1>3, <1>4 DEF NodeStep

LEMMA TypesNext ==
  ASSUME InputNodeAssumption, SupplyAssumption, Types, WriterStates, [Next]_vars
  PROVE  Types'
<1>1. CASE ManagerStep
  BY <1>1, ManagerTypes
<1>2. ASSUME NEW c \in Nodes, NodeStep(c) PROVE Types'
  BY <1>2, NodeTypes
<1>3. ASSUME NEW s \in Stations, InputStep(s) PROVE Types'
  <2>1. UNCHANGED sVars
    BY <1>3 DEF InputStep
  <2>2. SupplyTypes'
    BY <2>1 DEF sVars, Types, SupplyTypes
  <2>3. InputTypes'
    BY <1>3, MessageTypes, ReaderTypes, WriterTypes DEF InputStep, Types
  <2> QED BY <2>2, <2>3 DEF Types
<1>4. CASE UNCHANGED vars
  BY <1>4 DEF vars, iVars, sVars, Types, InputTypes, SupplyTypes
<1> QED BY <1>1, <1>2, <1>3, <1>4 DEF Next

-----------------------------------------------------------------------------
\* What each step of an input node means for the stream of node c: M and W are the mail and
\* the writers of the station before the step, N and V after it, a says whether the stream
\* is active, L units are on it and `owed` units have not been read.

\* After a step the stream is as it must be, and no slice waits that did not before.
Kept(M, N, W, V, b, K, owed, c) ==
  StreamOK(N, V, b, K, owed, c) /\ (Waiting(N, V, c) => Waiting(M, W, c))

\* The stream of node e, and no other, is marked active, is given free, or is longer by a unit.
Marked(c, e, a, b) == (c = e => b) /\ (c # e => b = a)
Freed(c, e, a, b) == (c = e => ~b) /\ (c # e => b = a)
Longer(c, e, L, K) == (c = e => K = L + 1) /\ (c # e => K = L)

\* The waiting slices are the same, and so is what writes.
LEMMA QuietStream ==
  ASSUME NEW M \in Seq(Messages), NEW N \in Seq(Messages),
         NEW W \in [Channels -> Writers], NEW V \in [Channels -> Writers],
         NEW a \in BOOLEAN, NEW L, NEW owed, NEW c,
         Mailed(N, c) <=> Mailed(M, c), OneMailed(M, c) => OneMailed(N, c),
         \A ch \in Channels : V[ch].slices = W[ch].slices /\ V[ch].pc = W[ch].pc
                             /\ V[ch].left = W[ch].left,
         StreamOK(M, W, a, L, owed, c)
  PROVE  /\ StreamOK(N, V, a, L, owed, c)
         /\ Waiting(N, V, c) <=> Waiting(M, W, c)
<1>1. /\ Queued(V, c) <=> Queued(W, c)
      /\ OneQueued(V, c) <=> OneQueued(W, c)
      /\ \A ch \in Channels : Writes(V[ch], c) <=> Writes(W[ch], c)
  BY QueuesSame
<1>2. Waiting(N, V, c) <=> Waiting(M, W, c)
  BY <1>1 DEF Waiting
<1>3. OneWaits(N, V, c)
  BY <1>1 DEF StreamOK, OneWaits
<1>4. OneWrites(V, a, c)
  BY <1>1 DEF StreamOK, OneWrites
<1>5. Balance(N, V, L, owed, c)
  BY <1>1, <1>2 DEF StreamOK, Balance
<1> QED BY <1>2, <1>3, <1>4, <1>5 DEF StreamOK

\* Writer ch gets the slice of node e that was the first of the mail.
LEMMA SliceStream ==
  ASSUME NEW M \in Seq(Messages), M # <<>>,
         NEW W \in [Channels -> Writers], NEW V \in [Channels -> Writers],
         NEW a \in BOOLEAN, NEW L, NEW owed, NEW c,
         NEW ch \in Channels, NEW e \in Nodes,
         Head(M).type = "ADD_TIME_SLICE", Head(M).stream = e,
         GetsSlice(W, V, ch, e),
         StreamOK(M, W, a, L, owed, c)
  PROVE  /\ StreamOK(Tail(M), V, a, L, owed, c)
         /\ Waiting(Tail(M), V, c) <=> Waiting(M, W, c)
<1> /\ \A d \in Channels \ {ch} : V[d] = W[d]
    /\ V[ch].slices = Append(W[ch].slices, e) /\ V[ch].pc = W[ch].pc /\ V[ch].left = W[ch].left
    /\ W[ch].pc \in {"found", "write"} => W[ch].slices # <<>>
  BY DEF GetsSlice, OnlyWriter
<1>1. PICK N \in Seq(Messages) : N = Tail(M)
  BY MailTaken
<1>2. IsFor(Head(M), c) <=> c = e
  BY DEF IsFor
<1>3. /\ Mailed(M, c) <=> c = e \/ Mailed(N, c)
      /\ OneMailed(M, c) => OneMailed(N, c)
      /\ OneMailed(M, c) /\ c = e => ~Mailed(N, c)
  BY <1>1, <1>2, MailTaken
<1>4. /\ Queued(V, c) <=> Queued(W, c) \/ c = e
      /\ OneQueued(W, c) /\ ~(Queued(W, c) /\ c = e) => OneQueued(V, c)
      /\ \A d \in Channels : Writes(V[d], c) <=> Writes(W[d], c)
  BY QueueAdded
<1>5. Waiting(N, V, c) <=> Waiting(M, W, c)
  BY <1>3, <1>4 DEF Waiting
<1>6. OneWaits(N, V, c)
  BY <1>3, <1>4 DEF StreamOK, OneWaits
<1>7. OneWrites(V, a, c)
  <2>1. ASSUME W[ch].pc = "found" PROVE V[ch].slices[1] = W[ch].slices[1]
    <3>1. PICK q \in Seq(Nodes) : q = W[ch].slices /\ q # <<>>
      BY <2>1 DEF Writers
    <3>2. Append(q, e)[1] = q[1]
      BY <3>1
    <3> QED BY <3>1, <3>2
  <2>2. \A d \in Channels : V[d].pc = "found" /\ V[d].slices[1] = c => ~a
    BY <2>1, SMTT(30) DEF StreamOK, OneWrites
  <2> QED BY <1>4, <2>2 DEF StreamOK, OneWrites
<1>8. Balance(N, V, L, owed, c)
  <2>1. \A d \in Channels : V[d].left = W[d].left
    OBVIOUS
  <2> QED BY <1>4, <1>5, <2>1 DEF StreamOK, Balance
<1> QED BY <1>1, <1>5, <1>6, <1>7, <1>8 DEF StreamOK

\* Writer ch finds its stream free.
FindsStream(W, V, ch) ==
  OnlyWriter(W, V, ch) /\ W[ch].pc = "idle" /\ V[ch] = [W[ch] EXCEPT !.pc = "found"]

LEMMA FoundStream ==
  ASSUME NEW M \in Seq(Messages),
         NEW W \in [Channels -> Writers], NEW V \in [Channels -> Writers],
         NEW a \in BOOLEAN, NEW L, NEW owed, NEW c, NEW ch \in Channels,
         FindsStream(W, V, ch),
         W[ch].slices[1] = c => ~a,
         StreamOK(M, W, a, L, owed, c)
  PROVE  /\ StreamOK(M, V, a, L, owed, c)
         /\ Waiting(M, V, c) <=> Waiting(M, W, c)
<1> /\ \A d \in Channels \ {ch} : V[d] = W[d]
    /\ W[ch].pc = "idle" /\ V[ch] = [W[ch] EXCEPT !.pc = "found"]
  BY DEF FindsStream, OnlyWriter
<1>1. V[ch].pc = "found" /\ V[ch].slices = W[ch].slices /\ V[ch].left = W[ch].left
  BY DEF Writers
<1>2. /\ Queued(V, c) <=> Queued(W, c)
      /\ OneQueued(V, c) <=> OneQueued(W, c)
      /\ \A d \in Channels : Writes(V[d], c) <=> Writes(W[d], c)
  <2>1. \A d \in Channels : V[d].slices = W[d].slices
                          /\ (V[d].pc = "write" <=> W[d].pc = "write")
    BY <1>1
  <2> QED BY <2>1, QueuesSame
<1>3. Waiting(M, V, c) <=> Waiting(M, W, c)
  BY <1>2 DEF Waiting
<1>4. OneWaits(M, V, c)
  BY <1>2 DEF StreamOK, OneWaits
<1>5. OneWrites(V, a, c)
  <2>1. OneWrites(W, a, c)
    BY DEF StreamOK
  <2>2. \A d \in Channels : V[d].pc = "found" /\ V[d].slices[1] = c => ~a
    <3>1. TAKE d \in Channels
    <3>2. CASE d = ch
      BY <1>1, <3>2
    <3>3. CASE d # ch
      BY <2>1, <3>3 DEF OneWrites
    <3> QED BY <3>2, <3>3
  <2> QED BY <1>2, <2>1, <2>2, Zenon DEF OneWrites
<1>6. Balance(M, V, L, owed, c)
  <2>1. \A d \in Channels : V[d].left = W[d].left
    BY <1>1
  <2> QED BY <1>2, <1>3, <2>1 DEF StreamOK, Balance
<1> QED BY <1>3, <1>4, <1>5, <1>6 DEF StreamOK

\* The stream of node e, when a writer that found it free takes it.
LEMMA BegunStream ==
  ASSUME NumberFfts \in Nat, NEW M \in Seq(Messages),
         NEW W \in [Channels -> Writers], NEW V \in [Channels -> Writers],
         NEW a \in BOOLEAN, NEW b \in BOOLEAN, NEW L \in Nat, NEW owed \in Nat, NEW c,
         NEW ch \in Channels, NEW e \in Nodes,
         TakesStream(W, V, ch, e),
         Marked(c, e, a, b),
         StreamOK(M, W, a, L, owed, c)
  PROVE  Kept(M, M, W, V, b, L, owed, c)
<1>1. /\ Queued(W, e)
      /\ OneQueued(W, e) => ~Queued(V, e)
      /\ OneQueued(W, c) => OneQueued(V, c)
      /\ c # e => (Queued(V, c) <=> Queued(W, c))
      /\ \A d \in Channels : Writes(V[d], c) <=> Writes(W[d], c) \/ (d = ch /\ c = e)
  BY QueueBegun
<1> /\ \A d \in Channels \ {ch} : V[d] = W[d]
    /\ \A d \in Channels : W[d].pc = "found" => W[d].slices # <<>>
    /\ W[ch].pc = "found" /\ W[ch].slices[1] = e /\ W[ch].slices # <<>>
    /\ V[ch].pc = "write" /\ V[ch].slices = W[ch].slices /\ V[ch].left = NumberFfts
    /\ (c = e => b) /\ (c # e => b = a)
  BY DEF TakesStream, OnlyWriter, Marked
<1>2. Waiting(M, V, c) => Waiting(M, W, c)
  BY <1>1 DEF Waiting
<1>3. OneWaits(M, V, c)
  BY <1>1 DEF StreamOK, OneWaits
<1>4. \A d \in Channels : V[d].pc = "found" => d # ch /\ W[d].pc = "found"
                                             /\ V[d].slices = W[d].slices
  OBVIOUS
<1>5. CASE c = e
  <2>1. ~a /\ (\A d \in Channels : ~Writes(W[d], c))
    BY <1>5, Zenon DEF StreamOK, OneWrites
  <2>2. \A d \in Channels : Writes(V[d], c) <=> d = ch
    BY <1>1, <1>5, <2>1
  <2>3. \A d \in Channels : ~(V[d].pc = "found" /\ V[d].slices[1] = c)
    <3>1. SUFFICES ASSUME NEW d \in Channels, V[d].pc = "found", V[d].slices[1] = c
                   PROVE  FALSE
      OBVIOUS
    <3>2. /\ 1 \in DOMAIN W[ch].slices /\ Waits(W[ch], 1, c)
          /\ 1 \in DOMAIN W[d].slices /\ Waits(W[d], 1, c)
      <4>1. W[ch].slices \in Seq(Nodes) /\ W[d].slices \in Seq(Nodes) /\ W[d].slices # <<>>
        BY <1>4, <3>1 DEF Writers
      <4> QED BY <1>4, <1>5, <3>1, <4>1 DEF Waits
    <3>3. OneQueued(W, c)
      BY DEF StreamOK, OneWaits
    <3>4. d # ch
      BY <1>4, <3>1
    <3> QED BY <3>2, <3>3, <3>4 DEF OneQueued
  <2>4. OneWrites(V, b, c)
    BY <1>5, <2>2, <2>3, Zenon DEF OneWrites
  <2>5. Waiting(M, W, c) /\ ~Waiting(M, V, c)
    BY <1>1, <1>5 DEF StreamOK, OneWaits, Waiting
  <2>6. L + NumberFfts + 1 = owed
    <3>1. L + (NumberFfts + 1) = owed
      BY <2>1, <2>5, Zenon DEF StreamOK, Balance
    <3> QED BY <3>1
  <2>7. Balance(M, V, L, owed, c)
    BY <2>2, <2>5, <2>6 DEF Balance
  <2> QED BY <1>2, <1>3, <2>4, <2>7 DEF StreamOK, Kept
<1>6. CASE c # e
  <2>1. \A d \in Channels : Writes(V[d], c) <=> Writes(W[d], c)
    BY <1>1, <1>6
  <2>2. \A d \in Channels : V[d].pc = "found" /\ V[d].slices[1] = c => ~b
    <3>1. OneWrites(W, a, c) /\ b = a
      BY <1>6 DEF StreamOK
    <3> QED BY <1>4, <3>1, Zenon DEF OneWrites
  <2>3. OneWrites(V, b, c)
    <3>1. OneWrites(W, a, c) /\ b = a
      BY <1>6 DEF StreamOK
    <3> QED BY <2>1, <2>2, <3>1, Zenon DEF OneWrites
  <2>4. Waiting(M, V, c) <=> Waiting(M, W, c)
    BY <1>1, <1>6 DEF Waiting
  <2>5. \A d \in Channels : Writes(V[d], c) => V[d].left = W[d].left
    BY <1>6 DEF Writes
  <2>6. Balance(M, V, L, owed, c)
    BY <2>1, <2>4, <2>5 DEF StreamOK, Balance
  <2> QED BY <1>2, <1>3, <2>3, <2>6 DEF StreamOK, Kept
<1> QED BY <1>5, <1>6

\* Writer ch writes a unit on the stream of node e, on which K units are then.
WritesUnit(W, V, ch, e) ==
  /\ OnlyWriter(W, V, ch)
  /\ W[ch].pc = "write" /\ W[ch].slices # <<>> /\ W[ch].slices[1] = e
  /\ V[ch].pc = "write" /\ V[ch].slices = W[ch].slices /\ V[ch].left = W[ch].left - 1

LEMMA WrittenStream ==
  ASSUME NumberFfts \in Nat, NEW M \in Seq(Messages),
         NEW W \in [Channels -> Writers], NEW V \in [Channels -> Writers],
         NEW a \in BOOLEAN, NEW L \in Nat, NEW K \in Nat, NEW owed \in Nat, NEW c,
         NEW ch \in Channels, NEW e \in Nodes,
         WritesUnit(W, V, ch, e),
         Longer(c, e, L, K),
         StreamOK(M, W, a, L, owed, c)
  PROVE  Kept(M, M, W, V, a, K, owed, c)
<1> /\ \A d \in Channels \ {ch} : V[d] = W[d]
    /\ W[ch].pc = "write" /\ W[ch].slices # <<>> /\ W[ch].slices[1] = e
    /\ V[ch].pc = "write" /\ V[ch].slices = W[ch].slices /\ V[ch].left = W[ch].left - 1
    /\ (c = e => K = L + 1) /\ (c # e => K = L)
  BY DEF WritesUnit, OnlyWriter, Longer
<1>1. /\ Queued(V, c) <=> Queued(W, c)
      /\ OneQueued(V, c) <=> OneQueued(W, c)
      /\ \A d \in Channels : Writes(V[d], c) <=> Writes(W[d], c)
  <2>1. \A d \in Channels : V[d].slices = W[d].slices
                          /\ (V[d].pc = "write" <=> W[d].pc = "write")
    OBVIOUS
  <2> QED BY <2>1, QueuesSame
<1>2. Waiting(M, V, c) <=> Waiting(M, W, c)
  BY <1>1 DEF Waiting
<1>3. OneWaits(M, V, c)
  BY <1>1 DEF StreamOK, OneWaits
<1>4. OneWrites(V, a, c)
  <2>1. OneWrites(W, a, c)
    BY DEF StreamOK
  <2>2. \A d \in Channels : V[d].pc = "found" => W[d].pc = "found" /\ V[d].slices = W[d].slices
    OBVIOUS
  <2> QED BY <1>1, <2>1, <2>2, Zenon DEF OneWrites
<1>5. CASE c = e
  <2>1. Writes(W[ch], c)
    BY <1>5 DEF Writes
  <2>2. \A d \in Channels : Writes(V[d], c) <=> d = ch
    BY <1>1, <2>1 DEF StreamOK, OneWrites
  <2>3. W[ch].left \in Nat /\ V[ch].left \in Nat
    BY SMTT(30) DEF Writers
  <2>4. PICK later \in {0, NumberFfts + 1} :
           later = IF Waiting(M, W, c) THEN NumberFfts + 1 ELSE 0
    OBVIOUS
  <2>5. L + W[ch].left + 1 + later = owed
    BY <2>1, <2>4 DEF StreamOK, Balance
  <2>6. K + V[ch].left + 1 + later = owed
    <3>1. K = L + 1 /\ V[ch].left = W[ch].left - 1
      BY <1>5
    <3>2. PICK x \in Nat, y \in Nat : x = W[ch].left /\ y = V[ch].left
      BY <2>3
    <3>3. y = x - 1 /\ L + x + 1 + later = owed /\ later \in Nat
      BY <2>4, <2>5, <3>1, <3>2
    <3>4. K + y + 1 + later = owed
      BY <3>1, <3>3
    <3> QED BY <3>2, <3>4
  <2>7. Balance(M, V, K, owed, c)
    BY <1>2, <2>2, <2>4, <2>6 DEF Balance
  <2> QED BY <1>2, <1>3, <1>4, <2>7 DEF StreamOK, Kept
<1>6. CASE c # e
  <2>1. \A d \in Channels : Writes(V[d], c) => V[d].left = W[d].left
    BY <1>6 DEF Writes
  <2>2. Balance(M, V, K, owed, c)
    BY <1>1, <1>2, <1>6, <2>1 DEF StreamOK, Balance
  <2> QED BY <1>2, <1>3, <1>4, <2>2 DEF StreamOK, Kept
<1> QED BY <1>5, <1>6

\* The stream of node e, when its writer puts the end of a slice on it and gives it free.
LEMMA EndedStream ==
  ASSUME NumberFfts \in Nat, NEW M \in Seq(Messages),
         NEW W \in [Channels -> Writers], NEW V \in [Channels -> Writers],
         NEW a \in BOOLEAN, NEW b \in BOOLEAN, NEW L \in Nat, NEW K \in Nat,
         NEW owed \in Nat, NEW c, NEW ch \in Channels, NEW e \in Nodes,
         EndsWriting(W, V, ch, e),
         Freed(c, e, a, b), Longer(c, e, L, K),
         StreamOK(M, W, a, L, owed, c)
  PROVE  Kept(M, M, W, V, b, K, owed, c)
<1>1. /\ Queued(V, c) <=> Queued(W, c)
      /\ OneQueued(W, c) => OneQueued(V, c)
      /\ \A d \in Channels : Writes(V[d], c) <=> Writes(W[d], c) /\ d # ch
  BY QueueEnded
<1> /\ \A d \in Channels \ {ch} : V[d] = W[d]
    /\ W[ch].pc = "write" /\ W[ch].slices # <<>> /\ W[ch].slices[1] = e /\ W[ch].left = 0
    /\ V[ch].pc = "idle" /\ V[ch].slices = Tail(W[ch].slices)
    /\ (c = e => K = L + 1 /\ ~b) /\ (c # e => K = L /\ b = a)
  BY DEF EndsWriting, OnlyWriter, Freed, Longer
<1>2. Waiting(M, V, c) <=> Waiting(M, W, c)
  BY <1>1 DEF Waiting
<1>3. OneWaits(M, V, c)
  BY <1>1 DEF StreamOK, OneWaits
<1>4. \A d \in Channels : V[d].pc = "found" => W[d].pc = "found" /\ V[d].slices = W[d].slices
  OBVIOUS
<1>5. CASE c = e
  <2>1. Writes(W[ch], c)
    BY <1>5 DEF Writes
  <2>2. \A d \in Channels : ~Writes(V[d], c)
    BY <1>1, <2>1 DEF StreamOK, OneWrites
  <2>3. OneWrites(V, b, c)
    BY <1>5, <2>2, Zenon DEF OneWrites
  <2>4. PICK later \in {0, NumberFfts + 1} :
           later = IF Waiting(M, W, c) THEN NumberFfts + 1 ELSE 0
    OBVIOUS
  <2>5. L + W[ch].left + 1 + later = owed
    BY <2>1, <2>4 DEF StreamOK, Balance
  <2>6. K + later = owed
    BY <1>5, <2>4, <2>5
  <2>7. Balance(M, V, K, owed, c)
    BY <1>2, <2>2, <2>4, <2>6 DEF Balance
  <2> QED BY <1>2, <1>3, <2>3, <2>7 DEF StreamOK, Kept
<1>6. CASE c # e
  <2>1. \A d \in Channels : Writes(V[d], c) <=> Writes(W[d], c)
    BY <1>1, <1>6 DEF Writes
  <2>2. OneWrites(V, b, c)
    <3>1. OneWrites(W, a, c)
      BY DEF StreamOK
    <3>2. OneWrites(V, a, c)
      BY <1>4, <2>1, <3>1, ZenonT(30) DEF OneWrites
    <3>3. b = a
      BY <1>6
    <3> QED BY <3>2, <3>3
  <2>3. \A d \in Channels : Writes(V[d], c) => V[d].left = W[d].left
    BY <1>1
  <2>4. Balance(M, V, K, owed, c)
    BY <1>2, <1>6, <2>1, <2>3 DEF StreamOK, Balance
  <2> QED BY <1>2, <1>3, <2>2, <2>4 DEF StreamOK, Kept
<1> QED BY <1>5, <1>6

-----------------------------------------------------------------------------
\* The steps of the input nodes.
LEMMA OwedNatural ==
  ASSUME NumberFfts \in Nat, NEW h \in Seq(SlicesGiven), NEW f \in 0 .. NumberFfts, NEW s
  PROVE  Owed(h, f, s) \in Nat
<1>1. \A slice : OwedOf(slice, s, f) \in Nat /\ OwedOf(slice, s, 0) \in Nat
  BY DEF OwedOf
<1>2. \A i, j \in Nat : i + j \in Nat
  OBVIOUS
<1> QED BY <1>1, <1>2 DEF Owed

\* Nothing happens at another station than s.
OnlyStation(s) ==
  \A r \in Stations \ {s} : /\ mail'[r] = mail[r] /\ writer'[r] = writer[r]
                            /\ active'[r] = active[r] /\ wire'[r] = wire[r]

LEMMA StationStep ==
  ASSUME Streams, ReadyIdle, UNCHANGED <<ready, handed, fft>>,
         NEW s \in Stations, OnlyStation(s),
         \A c \in Nodes :
           /\ StreamOK(mail'[s], writer'[s], active'[s][c], Len(wire'[s][c]),
                       Owed(handed[c], fft[c], s), c)
           /\ Waiting(mail'[s], writer'[s], c) => Waiting(mail[s], writer[s], c)
  PROVE  Streams' /\ ReadyIdle'
<1>1. ASSUME NEW r \in Stations, NEW c \in Nodes PROVE StreamOf(r, c)'
  <2>1. CASE r = s
    BY <2>1 DEF StreamOf
  <2>2. CASE r # s
    BY <2>2 DEF StreamOf, Streams, OnlyStation
  <2> QED BY <2>1, <2>2
<1>2. ASSUME NEW c \in Nodes, InReady(c)', NEW r \in Stations
      PROVE  ~Waiting(mail'[r], writer'[r], c)
  <2>1. InReady(c)
    BY <1>2 DEF InReady
  <2>2. ~Waiting(mail[r], writer[r], c)
    BY <2>1 DEF ReadyIdle
  <2>3. CASE r = s
    BY <2>2, <2>3
  <2>4. CASE r # s
    BY <2>2, <2>4 DEF OnlyStation
  <2> QED BY <2>3, <2>4
<1> QED BY <1>1, <1>2 DEF Streams, ReadyIdle

\* What is owed on a stream, and the lengths: for the steps below.
LEMMA StreamNumbers ==
  ASSUME InputNodeAssumption, Types
  PROVE  /\ NumberFfts \in Nat /\ NumberFfts > 0
         /\ \A s \in Stations, c \in Nodes :
              Owed(handed[c], fft[c], s) \in Nat /\ Len(wire[s][c]) \in Nat
<1>1. NumberFfts \in Nat /\ NumberFfts > 0
  BY DEF InputNodeAssumption
<1>2. ASSUME NEW s \in Stations, NEW c \in Nodes
      PROVE  Owed(handed[c], fft[c], s) \in Nat /\ Len(wire[s][c]) \in Nat
  <2>1. handed[c] \in Seq(SlicesGiven) /\ fft[c] \in 0 .. NumberFfts /\ wire[s][c] \in Seq(Units)
    BY DEF Types, InputTypes, SupplyTypes
  <2> QED BY <1>1, <2>1, OwedNatural
<1> QED BY <1>1, <1>2

\* Where nothing is owed nothing waits and nothing is written.
LEMMA NothingOwed ==
  ASSUME InputNodeAssumption, Types, Streams, WriterStates,
         \A c \in Nodes : handed[c] = <<>>, NEW s \in Stations
  PROVE  /\ \A c \in Nodes : ~Waiting(mail[s], writer[s], c)
         /\ \A ch \in Channels : writer[s][ch].slices = <<>>
                               /\ writer[s][ch].pc \in {"idle", "cancelled"}
<1>1. PICK M \in Seq(Messages), W \in [Channels -> Writers] : M = mail[s] /\ W = writer[s]
  BY DEF Types, InputTypes
<1>2. ASSUME NEW c \in Nodes
      PROVE  ~Waiting(M, W, c) /\ \A ch \in Channels : ~Writes(W[ch], c)
  <2>1. PICK L \in Nat : L = Len(wire[s][c])
    BY StreamNumbers
  <2>2. Owed(handed[c], fft[c], s) = 0
    BY DEF Owed
  <2>3. Balance(M, W, L, 0, c)
    BY <1>1, <2>1, <2>2 DEF Streams, StreamOf, StreamOK
  <2>4. NumberFfts \in Nat
    BY StreamNumbers
  <2>5. PICK later \in {0, NumberFfts + 1} :
           later = IF Waiting(M, W, c) THEN NumberFfts + 1 ELSE 0
    OBVIOUS
  <2>6. ASSUME NEW ch \in Channels PROVE ~Writes(W[ch], c)
    <3>1. W[ch].left \in Nat
      BY <2>4 DEF Writers
    <3>2. L + W[ch].left + 1 + later # 0
      BY <2>4, <2>5, <3>1
    <3> QED BY <2>3, <2>5, <3>2 DEF Balance
  <2>7. L + later = 0
    BY <2>3, <2>5, <2>6 DEF Balance
  <2> QED BY <2>4, <2>5, <2>6, <2>7
<1>3. ASSUME NEW ch \in Channels
      PROVE  W[ch].slices = <<>> /\ W[ch].pc \in {"idle", "cancelled"}
  <2>1. PICK q \in Seq(Nodes) : q = W[ch].slices
    BY DEF Writers
  <2>2. q = <<>>
    <3>1. SUFFICES ASSUME q # <<>> PROVE FALSE
      OBVIOUS
    <3>2. PICK e \in Nodes : e = q[1]
      BY <3>1
    <3>3. 1 \in DOMAIN q
      BY <3>1
    <3>4. Writes(W[ch], e) \/ Waits(W[ch], 1, e)
      BY <2>1, <3>1, <3>2 DEF Writes, Waits
    <3>5. Writes(W[ch], e) \/ Waiting(M, W, e)
      BY <2>1, <3>3, <3>4 DEF Waiting, Queued
    <3> QED BY <1>2, <3>5
  <2>3. W[ch].pc \in {"idle", "cancelled"}
    BY <1>1, <2>1, <2>2 DEF WriterStates, Writers
  <2> QED BY <2>1, <2>2, <2>3
<1> QED BY <1>1, <1>2, <1>3

LEMMA MessageStreams ==
  ASSUME InputNodeAssumption, Types, Streams, ReadyIdle, WriterStates, Endings,
         NEW s \in Stations, MessageStep(s), UNCHANGED sVars
  PROVE  Streams' /\ ReadyIdle'
<1>1. mail \in [Stations -> Seq(Messages)] /\ InputTypes /\ UNCHANGED <<ready, handed, fft>>
  BY DEF Types, InputTypes, sVars
<1>2. PICK M \in Seq(Messages), W \in [Channels -> Writers] : M = mail[s] /\ W = writer[s]
  BY DEF Types, InputTypes
<1>3. InputTypes'
  BY <1>1, MessageTypes
<1>4. PICK N \in Seq(Messages), V \in [Channels -> Writers] : N = mail'[s] /\ V = writer'[s]
  BY <1>3 DEF InputTypes
<1>5. ASSUME UNCHANGED <<active, wire>>,
             \A t \in Stations \ {s} : mail'[t] = mail[t] /\ writer'[t] = writer[t],
             ASSUME NEW c \in Nodes, NEW a \in BOOLEAN, NEW L \in Nat, NEW owed \in Nat,
                    owed = Owed(handed[c], fft[c], s),
                    StreamOK(M, W, a, L, owed, c)
             PROVE  StreamOK(N, V, a, L, owed, c) /\ (Waiting(N, V, c) => Waiting(M, W, c))
      PROVE  Streams' /\ ReadyIdle'
  <2>1. OnlyStation(s)
    BY <1>5 DEF OnlyStation
  <2>2. ASSUME NEW c \in Nodes
        PROVE  /\ StreamOK(mail'[s], writer'[s], active'[s][c], Len(wire'[s][c]),
                           Owed(handed[c], fft[c], s), c)
               /\ Waiting(mail'[s], writer'[s], c) => Waiting(mail[s], writer[s], c)
    <3>1. PICK a \in BOOLEAN, L \in Nat, owed \in Nat :
            a = active[s][c] /\ L = Len(wire[s][c]) /\ owed = Owed(handed[c], fft[c], s)
      BY StreamNumbers DEF Types, InputTypes
    <3>2. StreamOK(M, W, a, L, owed, c)
      BY <1>2, <3>1 DEF Streams, StreamOf
    <3>3. StreamOK(N, V, a, L, owed, c) /\ (Waiting(N, V, c) => Waiting(M, W, c))
      BY <1>5, <3>1, <3>2
    <3> QED BY <1>2, <1>4, <1>5, <3>1, <3>3
  <2> QED BY <1>1, <2>1, <2>2, StationStep
<1>6. CASE ReceiveParameters(s) \/ ReceiveTimeInterval(s)
  <2>1. /\ UNCHANGED <<active, wire>> /\ M # <<>> /\ N = Tail(M)
        /\ Head(M).type # "ADD_TIME_SLICE"
        /\ \A t \in Stations \ {s} : mail'[t] = mail[t]
    BY <1>1, <1>2, <1>4, <1>6, TakesFacts, SMTT(30) DEF ReceiveParameters, ReceiveTimeInterval
  <2>2. /\ \A t \in Stations \ {s} : writer'[t] = writer[t]
        /\ \A ch \in Channels : V[ch].slices = W[ch].slices /\ V[ch].pc = W[ch].pc
                              /\ V[ch].left = W[ch].left
    <3>1. CASE ReceiveParameters(s)
      BY <1>2, <1>4, <3>1 DEF ReceiveParameters
    <3>2. CASE ReceiveTimeInterval(s)
      BY <1>1, <1>2, <1>4, <3>2, IntervalFacts
    <3> QED BY <1>6, <3>1, <3>2
  <2>3. ASSUME NEW c \in Nodes, NEW a \in BOOLEAN, NEW L \in Nat, NEW owed \in Nat,
               StreamOK(M, W, a, L, owed, c)
        PROVE  StreamOK(N, V, a, L, owed, c) /\ (Waiting(N, V, c) => Waiting(M, W, c))
    <3>1. ~IsFor(Head(M), c)
      BY <2>1 DEF IsFor
    <3>2. (Mailed(N, c) <=> Mailed(M, c)) /\ (OneMailed(M, c) => OneMailed(N, c))
      BY <2>1, <3>1, MailTaken
    <3> QED BY <2>2, <2>3, <3>2, QuietStream
  <2> QED BY <1>5, <2>1, <2>2, <2>3
<1>7. CASE ReceiveTimeSlice(s)
  <2>1. /\ UNCHANGED <<active, wire>> /\ M # <<>> /\ N = Tail(M)
        /\ Head(M).type = "ADD_TIME_SLICE"
        /\ \A t \in Stations \ {s} : mail'[t] = mail[t]
    BY <1>1, <1>2, <1>4, <1>7, TakesFacts DEF ReceiveTimeSlice
  <2>2. PICK ch \in Channels, e \in Nodes, v \in Writers :
           /\ ch = Head(mail[s]).channel /\ e = Head(mail[s]).stream
           /\ Turns(s, ch, v)
           /\ v.pc = writer[s][ch].pc /\ v.left = writer[s][ch].left
           /\ v.slices = Append(writer[s][ch].slices, e)
    BY <1>1, <1>7, SliceFacts, Zenon
  <2>3. /\ \A t \in Stations \ {s} : writer'[t] = writer[t]
        /\ V[ch] = v /\ \A d \in Channels \ {ch} : V[d] = W[d]
    <3>1. writer \in [Stations -> [Channels -> Writers]] /\ Turns(s, ch, v)
      BY <1>1, <2>2 DEF InputTypes
    <3>2. /\ writer'[s][ch] = v
          /\ \A d \in Channels \ {ch} : writer'[s][d] = writer[s][d]
          /\ \A t \in Stations \ {s} : writer'[t] = writer[t]
      BY <3>1, TurnsFacts
    <3> QED BY <1>2, <1>4, <3>2
  <2>4. Head(M).stream = e
    BY <1>2, <2>2
  <2>5. W[ch].pc \in {"found", "write"} => W[ch].slices # <<>>
    BY <1>2 DEF WriterStates
  <2>6. GetsSlice(W, V, ch, e)
    BY <1>2, <2>2, <2>3, <2>5 DEF GetsSlice, OnlyWriter
  <2>7. ASSUME NEW c \in Nodes, NEW a \in BOOLEAN, NEW L \in Nat, NEW owed \in Nat,
               StreamOK(M, W, a, L, owed, c)
        PROVE  StreamOK(N, V, a, L, owed, c) /\ (Waiting(N, V, c) => Waiting(M, W, c))
    BY <2>1, <2>4, <2>6, <2>7, SliceStream
  <2> QED BY <1>5, <2>1, <2>3, <2>7
<1>8. CASE ReceiveEndNode(s)
  <2>1. /\ UNCHANGED <<active, wire>> /\ M # <<>> /\ N = Tail(M) /\ Head(M) \in Messages
        /\ Head(M).type = "END_NODE"
        /\ \A t \in Stations \ {s} : mail'[t] = mail[t]
    BY <1>1, <1>2, <1>4, <1>8, TakesFacts DEF ReceiveEndNode
  <2>2. /\ \A t \in Stations \ {s} : writer'[t] = writer[t]
        /\ \A ch \in Channels : V[ch] = [W[ch] EXCEPT !.pc = "cancelled"]
    BY <1>1, <1>2, <1>4, <1>8, CancelFacts
  <2>3. \A c \in Nodes : handed[c] = <<>>
    <3>1. 1 \in DOMAIN M /\ M[1].type = "END_NODE"
      BY <2>1
    <3> QED BY <1>2, <3>1 DEF Endings, HasEnd
  <2>4. \A ch \in Channels : W[ch].slices = <<>> /\ W[ch].pc \in {"idle", "cancelled"}
    BY <1>2, <2>3, NothingOwed
  <2>5. ASSUME NEW ch \in Channels PROVE V[ch].slices = <<>> /\ V[ch].pc = "cancelled"
    <3>1. PICK w \in Writers : w = W[ch]
      OBVIOUS
    <3>2. [w EXCEPT !.pc = "cancelled"].slices = w.slices
          /\ [w EXCEPT !.pc = "cancelled"].pc = "cancelled"
      BY DEF Writers
    <3> QED BY <2>2, <2>4, <3>1, <3>2
  <2>6. ASSUME NEW c \in Nodes, NEW a \in BOOLEAN, NEW L \in Nat, NEW owed \in Nat,
               StreamOK(M, W, a, L, owed, c)
        PROVE  StreamOK(N, V, a, L, owed, c) /\ (Waiting(N, V, c) => Waiting(M, W, c))
    <3>1. ~IsFor(Head(M), c)
      BY <2>1 DEF IsFor
    <3>2. (Mailed(N, c) <=> Mailed(M, c)) /\ (OneMailed(M, c) => OneMailed(N, c))
      BY <2>1, <3>1, MailTaken
    <3>3. /\ Queued(V, c) <=> Queued(W, c)
          /\ OneQueued(V, c) <=> OneQueued(W, c)
          /\ \A ch \in Channels : Writes(V[ch], c) <=> Writes(W[ch], c)
      <4>1. \A ch \in Channels : V[ch].slices = W[ch].slices
                               /\ (V[ch].pc = "write" <=> W[ch].pc = "write")
        BY <2>4, <2>5
      <4> QED BY <4>1, QueuesSame
    <3>4. Waiting(N, V, c) <=> Waiting(M, W, c)
      BY <3>2, <3>3 DEF Waiting
    <3>5. OneWaits(N, V, c)
      BY <2>6, <3>2, <3>3 DEF StreamOK, OneWaits
    <3>6. OneWrites(V, a, c)
      <4>1. OneWrites(W, a, c)
        BY <2>6 DEF StreamOK
      <4>2. \A ch \in Channels : V[ch].pc # "found"
        BY <2>5
      <4> QED BY <3>3, <4>1, <4>2, Zenon DEF OneWrites
    <3>7. Balance(N, V, L, owed, c)
      <4>1. \A ch \in Channels : ~Writes(W[ch], c)
        BY <2>4 DEF Writes
      <4> QED BY <2>6, <3>3, <3>4, <4>1 DEF StreamOK, Balance
    <3> QED BY <3>4, <3>5, <3>6, <3>7 DEF StreamOK
  <2> QED BY <1>5, <2>1, <2>2, <2>6
<1>9. CASE Terminated(s)
  <2>1. N = M /\ V = W /\ UNCHANGED <<mail, writer, active, wire>>
    BY <1>2, <1>4, <1>9 DEF Terminated
  <2> QED BY <1>5, <2>1
<1> QED BY <1>6, <1>7, <1>8, <1>9 DEF MessageStep

LEMMA ReaderStreams ==
  ASSUME Streams, ReadyIdle, NEW s \in Stations, ReaderStep(s), UNCHANGED sVars
  PROVE  Streams' /\ ReadyIdle'
<1>1. UNCHANGED <<mail, writer, active, wire, ready, handed, fft>>
  BY DEF ReaderStep, ReadBlocks, NextInterval, sVars
<1>2. OnlyStation(s)
  BY <1>1 DEF OnlyStation
<1>3. \A c \in Nodes :
        /\ StreamOK(mail'[s], writer'[s], active'[s][c], Len(wire'[s][c]),
                    Owed(handed[c], fft[c], s), c)
        /\ Waiting(mail'[s], writer'[s], c) => Waiting(mail[s], writer[s], c)
  BY <1>1 DEF Streams, StreamOf
<1> QED BY <1>1, <1>2, <1>3, StationStep

\* Of the stream to node c: whether it is active, and the units on it, before and after.
StreamStep(s, c, a, b, L, K) ==
  /\ a = active[s][c] /\ b = active'[s][c]
  /\ L = Len(wire[s][c]) /\ K = Len(wire'[s][c])

LEMMA WriterStreams ==
  ASSUME InputNodeAssumption, Types, Streams, ReadyIdle, WriterStates,
         NEW s \in Stations, NEW ch \in Channels, WriterStep(s, ch), UNCHANGED sVars
  PROVE  Streams' /\ ReadyIdle'
<1>1. InputTypes /\ UNCHANGED <<mail, ready, handed, fft>>
  BY DEF Types, sVars, WriterStep, FetchNextTimeInterval, FindWork, Activate, SkipOldBlock,
         WriteBlock, EndSlice
<1>2. PICK M \in Seq(Messages), W \in [Channels -> Writers] :
        M = mail[s] /\ M = mail'[s] /\ W = writer[s]
  BY <1>1 DEF InputTypes
<1>3. InputTypes'
  BY <1>1, WriterTypes
<1>4. PICK V \in [Channels -> Writers] : V = writer'[s]
  BY <1>3 DEF InputTypes
<1>5. \A d \in Channels : W[d].pc \in {"found", "write"} => W[d].slices # <<>>
  BY <1>2 DEF WriterStates
<1>6. ASSUME NEW v \in Writers, Turns(s, ch, v)
      PROVE  /\ V[ch] = v /\ OnlyWriter(W, V, ch) /\ \A d \in Channels \ {ch} : V[d] = W[d]
             /\ \A r \in Stations \ {s} : writer'[r] = writer[r]
  <2>1. writer \in [Stations -> [Channels -> Writers]]
    BY <1>1 DEF InputTypes
  <2>2. /\ writer'[s][ch] = v
        /\ \A d \in Channels \ {ch} : writer'[s][d] = writer[s][d]
        /\ \A t \in Stations \ {s} : writer'[t] = writer[t]
    BY <1>6, <2>1, TurnsFacts
  <2> QED BY <1>2, <1>4, <2>2 DEF OnlyWriter
<1>7. ASSUME \A r \in Stations \ {s} : writer'[r] = writer[r] /\ active'[r] = active[r]
                                     /\ wire'[r] = wire[r],
             ASSUME NEW c \in Nodes, NEW a \in BOOLEAN, NEW b \in BOOLEAN,
                    NEW L \in Nat, NEW K \in Nat, NEW owed \in Nat,
                    StreamStep(s, c, a, b, L, K), StreamOK(M, W, a, L, owed, c)
             PROVE  StreamOK(M, V, b, K, owed, c) /\ (Waiting(M, V, c) => Waiting(M, W, c))
      PROVE  Streams' /\ ReadyIdle'
  <2>1. OnlyStation(s)
    BY <1>1, <1>7 DEF OnlyStation
  <2>2. ASSUME NEW c \in Nodes
        PROVE  /\ StreamOK(mail'[s], writer'[s], active'[s][c], Len(wire'[s][c]),
                           Owed(handed[c], fft[c], s), c)
               /\ Waiting(mail'[s], writer'[s], c) => Waiting(mail[s], writer[s], c)
    <3>1. PICK a \in BOOLEAN, L \in Nat, owed \in Nat :
            a = active[s][c] /\ L = Len(wire[s][c]) /\ owed = Owed(handed[c], fft[c], s)
      BY StreamNumbers DEF Types, InputTypes
    <3>2. PICK b \in BOOLEAN, K \in Nat : b = active'[s][c] /\ K = Len(wire'[s][c])
      <4>1. active'[s][c] \in BOOLEAN /\ wire'[s][c] \in Seq(Units)
        BY <1>3 DEF InputTypes
      <4> QED BY <4>1
    <3>3. StreamOK(M, W, a, L, owed, c)
      BY <1>2, <3>1 DEF Streams, StreamOf
    <3>4. StreamOK(M, V, b, K, owed, c) /\ (Waiting(M, V, c) => Waiting(M, W, c))
      <4>1. StreamStep(s, c, a, b, L, K)
        BY <3>1, <3>2 DEF StreamStep
      <4> QED BY <1>7, <3>3, <4>1
    <3> QED BY <1>2, <1>4, <3>1, <3>2, <3>4
  <2> QED BY <1>1, <2>1, <2>2, StationStep
<1>8. CASE FetchNextTimeInterval(s, ch)
  <2>1. PICK v \in Writers :
           /\ Turns(s, ch, v)
           /\ v.pc = writer[s][ch].pc /\ v.slices = writer[s][ch].slices
           /\ v.left = writer[s][ch].left
    BY <1>1, <1>8, FetchFacts
  <2>2. UNCHANGED <<active, wire>>
    BY <1>8 DEF FetchNextTimeInterval
  <2>3. \A d \in Channels : V[d].slices = W[d].slices /\ V[d].pc = W[d].pc
                          /\ V[d].left = W[d].left
    BY <1>2, <1>6, <2>1
  <2>4. ASSUME NEW c \in Nodes, NEW a \in BOOLEAN, NEW b \in BOOLEAN,
               NEW L \in Nat, NEW K \in Nat, NEW owed \in Nat,
               StreamStep(s, c, a, b, L, K), StreamOK(M, W, a, L, owed, c)
        PROVE  StreamOK(M, V, b, K, owed, c) /\ (Waiting(M, V, c) => Waiting(M, W, c))
    <3>1. b = a /\ K = L
      BY <2>2, <2>4 DEF StreamStep
    <3>2. StreamOK(M, V, a, L, owed, c) /\ (Waiting(M, V, c) => Waiting(M, W, c))
      BY <2>3, <2>4, QuietStream
    <3> QED BY <3>1, <3>2
  <2>5. \A r \in Stations \ {s} : writer'[r] = writer[r] /\ active'[r] = active[r]
                                /\ wire'[r] = wire[r]
    BY <1>6, <2>1, <2>2
  <2> QED BY <1>7, <2>4, <2>5
<1>9. CASE FindWork(s, ch)
  <2>1. PICK v \in Writers :
           /\ Turns(s, ch, v) /\ writer[s][ch].pc = "idle" /\ writer[s][ch].slices # <<>>
           /\ ~active[s][writer[s][ch].slices[1]]
           /\ v = [writer[s][ch] EXCEPT !.pc = "found"]
           /\ Found(writer[s][ch], v)
    BY <1>1, <1>9, FindFacts, Zenon
  <2>2. UNCHANGED <<active, wire>>
    BY <1>9 DEF FindWork
  <2>3. FindsStream(W, V, ch) /\ ~active[s][W[ch].slices[1]]
    BY <1>2, <1>6, <2>1 DEF FindsStream
  <2>4. ASSUME NEW c \in Nodes, NEW a \in BOOLEAN, NEW b \in BOOLEAN,
               NEW L \in Nat, NEW K \in Nat, NEW owed \in Nat,
               StreamStep(s, c, a, b, L, K), StreamOK(M, W, a, L, owed, c)
        PROVE  StreamOK(M, V, b, K, owed, c) /\ (Waiting(M, V, c) => Waiting(M, W, c))
    <3>1. b = a /\ K = L
      BY <2>2, <2>4 DEF StreamStep
    <3>2. W[ch].slices[1] = c => ~a
      BY <2>3, <2>4 DEF StreamStep
    <3>3. StreamOK(M, V, a, L, owed, c) /\ (Waiting(M, V, c) => Waiting(M, W, c))
      BY <2>3, <2>4, <3>2, FoundStream, Zenon
    <3> QED BY <3>1, <3>3
  <2>5. \A r \in Stations \ {s} : writer'[r] = writer[r] /\ active'[r] = active[r]
                                /\ wire'[r] = wire[r]
    BY <1>6, <2>1, <2>2
  <2> QED BY <1>7, <2>4, <2>5
<1>10. CASE Activate(s, ch)
  <2>1. PICK v \in Writers, e \in Nodes :
           /\ Turns(s, ch, v) /\ writer[s][ch].pc = "found" /\ v.pc = "write"
           /\ v.slices = writer[s][ch].slices /\ v.left = NumberFfts
           /\ e = writer[s][ch].slices[1]
           /\ active' = [active EXCEPT ![s][e] = TRUE]
           /\ Begun(writer[s][ch], v)
    <3>1. writer[s][ch].slices # <<>>
      BY <1>10 DEF Activate, WriterStates
    <3> QED BY <1>1, <1>10, <3>1, ActivateFacts, Zenon
  <2>2. /\ UNCHANGED wire
        /\ \A c \in Nodes : (c = e => active'[s][c]) /\ (c # e => active'[s][c] = active[s][c])
        /\ \A r \in Stations \ {s} : active'[r] = active[r]
    <3>1. UNCHANGED wire
      BY <1>10 DEF Activate
    <3>2. active \in [Stations -> [Nodes -> BOOLEAN]] /\ active' = [active EXCEPT ![s][e] = TRUE]
      BY <1>1, <2>1 DEF InputTypes
    <3> QED BY <3>1, <3>2
  <2>3. TakesStream(W, V, ch, e)
    BY <1>2, <1>5, <1>6, <2>1 DEF TakesStream
  <2>4. ASSUME NEW c \in Nodes, NEW a \in BOOLEAN, NEW b \in BOOLEAN,
               NEW L \in Nat, NEW K \in Nat, NEW owed \in Nat,
               StreamStep(s, c, a, b, L, K), StreamOK(M, W, a, L, owed, c)
        PROVE  StreamOK(M, V, b, K, owed, c) /\ (Waiting(M, V, c) => Waiting(M, W, c))
    <3>1. Marked(c, e, a, b) /\ K = L
      BY <2>2, <2>4 DEF StreamStep, Marked
    <3>2. NumberFfts \in Nat
      BY StreamNumbers
    <3>3. Kept(M, M, W, V, b, L, owed, c)
      BY <2>3, <2>4, <3>1, <3>2, BegunStream
    <3> QED BY <3>1, <3>3 DEF Kept
  <2>5. \A r \in Stations \ {s} : writer'[r] = writer[r] /\ active'[r] = active[r]
                                /\ wire'[r] = wire[r]
    BY <1>6, <2>1, <2>2
  <2> QED BY <1>7, <2>4, <2>5
<1>11. CASE SkipOldBlock(s, ch)
  <2>1. V = W /\ UNCHANGED <<writer, active, wire>>
    BY <1>2, <1>4, <1>11 DEF SkipOldBlock
  <2>2. ASSUME NEW c \in Nodes, NEW a \in BOOLEAN, NEW b \in BOOLEAN,
               NEW L \in Nat, NEW K \in Nat, NEW owed \in Nat,
               StreamStep(s, c, a, b, L, K), StreamOK(M, W, a, L, owed, c)
        PROVE  StreamOK(M, V, b, K, owed, c) /\ (Waiting(M, V, c) => Waiting(M, W, c))
    <3>1. b = a /\ K = L
      BY <2>1, <2>2 DEF StreamStep
    <3> QED BY <2>1, <2>2, <3>1
  <2> QED BY <1>7, <2>1, <2>2
<1>12. CASE WriteBlock(s, ch)
  <2>1. PICK v \in Writers, e \in Nodes, u \in Units :
           /\ Turns(s, ch, v) /\ writer[s][ch].pc = "write" /\ v.pc = "write"
           /\ v.slices = writer[s][ch].slices /\ e = writer[s][ch].slices[1]
           /\ writer[s][ch].left \in Nat /\ writer[s][ch].left > 0
           /\ v.left = writer[s][ch].left - 1
           /\ wire' = [wire EXCEPT ![s][e] = @ \o <<u>>]
           /\ u = Unit(ch, blocks[s][ch][1])
           /\ Written(writer[s][ch], v)
    <3>1. writer[s][ch].slices # <<>>
      BY <1>12 DEF WriteBlock, WriterStates
    <3> QED BY <1>1, <1>12, <3>1, WriteFacts, Zenon
  <2>2. PICK p \in Seq(Units) : p = wire[s][e]
    BY <1>1 DEF InputTypes
  <2>3. Len(p \o <<u>>) = Len(p) + 1 /\ wire' = [wire EXCEPT ![s][e] = p \o <<u>>]
    <3>1. Len(p \o <<u>>) = Len(p) + 1
      OBVIOUS
    <3>2. wire' = [wire EXCEPT ![s][e] = @ \o <<u>>]
      BY <2>1
    <3> QED BY <2>2, <3>1, <3>2, Zenon
  <2>4. /\ UNCHANGED active
        /\ \A c \in Nodes : /\ c = e => Len(wire'[s][c]) = Len(wire[s][c]) + 1
                            /\ c # e => wire'[s][c] = wire[s][c]
        /\ \A r \in Stations \ {s} : wire'[r] = wire[r]
    <3>1. UNCHANGED active
      BY <1>12 DEF WriteBlock
    <3>2. wire \in [Stations -> [Nodes -> Seq(Units)]]
      BY <1>1 DEF InputTypes
    <3> QED BY <2>2, <2>3, <3>1, <3>2
  <2>5. WritesUnit(W, V, ch, e)
    BY <1>2, <1>5, <1>6, <2>1 DEF WritesUnit
  <2>6. ASSUME NEW c \in Nodes, NEW a \in BOOLEAN, NEW b \in BOOLEAN,
               NEW L \in Nat, NEW K \in Nat, NEW owed \in Nat,
               StreamStep(s, c, a, b, L, K), StreamOK(M, W, a, L, owed, c)
        PROVE  StreamOK(M, V, b, K, owed, c) /\ (Waiting(M, V, c) => Waiting(M, W, c))
    <3>1. Longer(c, e, L, K) /\ b = a
      BY <2>4, <2>6 DEF StreamStep, Longer
    <3>2. NumberFfts \in Nat
      BY StreamNumbers
    <3>3. Kept(M, M, W, V, a, K, owed, c)
      BY <2>5, <2>6, <3>1, <3>2, WrittenStream
    <3> QED BY <3>1, <3>3 DEF Kept
  <2>7. \A r \in Stations \ {s} : writer'[r] = writer[r] /\ active'[r] = active[r]
                                /\ wire'[r] = wire[r]
    BY <1>6, <2>1, <2>4
  <2> QED BY <1>7, <2>6, <2>7
<1>13. CASE EndSlice(s, ch)
  <2>1. PICK v \in Writers, e \in Nodes :
           /\ Turns(s, ch, v) /\ writer[s][ch].pc = "write" /\ v.pc = "idle"
           /\ v.slices = Tail(writer[s][ch].slices) /\ e = writer[s][ch].slices[1]
           /\ writer[s][ch].left = 0
           /\ wire' = [wire EXCEPT ![s][e] = Append(@, EndOfStream)]
           /\ active' = [active EXCEPT ![s][e] = FALSE]
           /\ Ended(writer[s][ch], v)
    <3>1. writer[s][ch].slices # <<>>
      BY <1>13 DEF EndSlice, WriterStates
    <3> QED BY <1>1, <1>13, <3>1, EndFacts, Zenon
  <2>2. PICK p \in Seq(Units) : p = wire[s][e]
    BY <1>1 DEF InputTypes
  <2>3. Len(Append(p, EndOfStream)) = Len(p) + 1
        /\ wire' = [wire EXCEPT ![s][e] = Append(p, EndOfStream)]
    <3>1. Len(Append(p, EndOfStream)) = Len(p) + 1
      OBVIOUS
    <3>2. wire' = [wire EXCEPT ![s][e] = Append(@, EndOfStream)]
      BY <2>1
    <3> QED BY <2>2, <3>1, <3>2, Zenon
  <2>4. /\ \A c \in Nodes : /\ c = e => Len(wire'[s][c]) = Len(wire[s][c]) + 1
                            /\ c # e => wire'[s][c] = wire[s][c]
        /\ \A r \in Stations \ {s} : wire'[r] = wire[r]
    BY <1>1, <2>2, <2>3 DEF InputTypes
  <2>5. /\ \A c \in Nodes : (c = e => ~active'[s][c]) /\ (c # e => active'[s][c] = active[s][c])
        /\ \A r \in Stations \ {s} : active'[r] = active[r]
    BY <1>1, <2>1 DEF InputTypes
  <2>6. EndsWriting(W, V, ch, e)
    BY <1>2, <1>5, <1>6, <2>1 DEF EndsWriting
  <2>7. ASSUME NEW c \in Nodes, NEW a \in BOOLEAN, NEW b \in BOOLEAN,
               NEW L \in Nat, NEW K \in Nat, NEW owed \in Nat,
               StreamStep(s, c, a, b, L, K), StreamOK(M, W, a, L, owed, c)
        PROVE  StreamOK(M, V, b, K, owed, c) /\ (Waiting(M, V, c) => Waiting(M, W, c))
    <3>1. Longer(c, e, L, K) /\ Freed(c, e, a, b)
      BY <2>4, <2>5, <2>7 DEF StreamStep, Longer, Freed
    <3>2. NumberFfts \in Nat
      BY StreamNumbers
    <3>3. Kept(M, M, W, V, b, K, owed, c)
      BY <2>6, <2>7, <3>1, <3>2, EndedStream, SMTT(60)
    <3> QED BY <3>3 DEF Kept
  <2>8. \A r \in Stations \ {s} : writer'[r] = writer[r] /\ active'[r] = active[r]
                                /\ wire'[r] = wire[r]
    BY <1>6, <2>1, <2>4, <2>5
  <2> QED BY <1>7, <2>7, <2>8
<1> QED BY <1>8, <1>9, <1>10, <1>11, <1>12, <1>13 DEF WriterStep

-----------------------------------------------------------------------------
\* The steps of the correlator nodes and of the manager.

\* A unit is read from the stream.
LEMMA TakenStream ==
  ASSUME NumberFfts \in Nat, NEW M \in Seq(Messages), NEW W \in [Channels -> Writers],
         NEW a \in BOOLEAN, NEW L \in Nat, NEW owed \in Nat, NEW c,
         NEW K \in Nat, NEW rest \in Nat, L = K + 1, owed = rest + 1,
         StreamOK(M, W, a, L, owed, c)
  PROVE  StreamOK(M, W, a, K, rest, c)
<1>1. PICK later \in {0, NumberFfts + 1} :
         later = IF Waiting(M, W, c) THEN NumberFfts + 1 ELSE 0
  OBVIOUS
<1>2. ASSUME NEW ch \in Channels, Writes(W[ch], c)
      PROVE  K + W[ch].left + 1 + later = rest
  <2>1. PICK n \in Nat : n = W[ch].left
    BY DEF Writers
  <2>2. L + n + 1 + later = owed
    BY <1>1, <1>2, <2>1 DEF StreamOK, Balance
  <2>3. K + n + 1 + later = rest
    BY <1>1, <2>2
  <2> QED BY <2>1, <2>3
<1>3. ASSUME \A ch \in Channels : ~Writes(W[ch], c) PROVE K + later = rest
  <2>1. L + later = owed
    BY <1>1, <1>3 DEF StreamOK, Balance
  <2> QED BY <1>1, <2>1
<1>4. Balance(M, W, K, rest, c)
  BY <1>1, <1>2, <1>3 DEF Balance
<1> QED BY <1>4 DEF StreamOK

\* A slice of the node is put in the mail, when none waits.
LEMMA HandedStream ==
  ASSUME NumberFfts \in Nat, NEW M \in Seq(Messages), NEW W \in [Channels -> Writers],
         NEW a \in BOOLEAN, NEW L \in Nat, NEW owed \in Nat, NEW c,
         NEW m \in Messages, IsFor(m, c), ~Waiting(M, W, c),
         StreamOK(M, W, a, L, owed, c)
  PROVE  StreamOK(Append(M, m), W, a, L, owed + NumberFfts + 1, c)
<1>1. PICK N \in Seq(Messages) : N = Append(M, m)
  BY MailAdded
<1>2. /\ Mailed(N, c) <=> Mailed(M, c) \/ IsFor(m, c)
      /\ OneMailed(M, c) /\ ~(Mailed(M, c) /\ IsFor(m, c)) => OneMailed(N, c)
  BY <1>1, MailAdded
<1>3. ~Mailed(M, c) /\ ~Queued(W, c)
  BY DEF Waiting
<1>4. OneWaits(N, W, c) /\ Waiting(N, W, c)
  BY <1>2, <1>3 DEF StreamOK, OneWaits, Waiting
<1>5. ASSUME NEW ch \in Channels, Writes(W[ch], c)
      PROVE  L + W[ch].left + 1 + (NumberFfts + 1) = owed + NumberFfts + 1
  <2>1. PICK n \in Nat : n = W[ch].left
    BY DEF Writers
  <2>2. L + n + 1 + 0 = owed
    BY <1>5, <2>1 DEF StreamOK, Balance
  <2>3. L + n + 1 + (NumberFfts + 1) = owed + NumberFfts + 1
    BY <2>2
  <2> QED BY <2>1, <2>3
<1>6. ASSUME \A ch \in Channels : ~Writes(W[ch], c)
      PROVE  L + (NumberFfts + 1) = owed + NumberFfts + 1
  <2>1. L + 0 = owed
    BY <1>6 DEF StreamOK, Balance
  <2> QED BY <2>1
<1>7. Balance(N, W, L, owed + NumberFfts + 1, c)
  BY <1>4, <1>5, <1>6 DEF Balance
<1> QED BY <1>1, <1>4, <1>7 DEF StreamOK

\* The slices of a node, and what is owed of them, when it reads a unit and when it has read
\* all of the present one.
LEMMA OwedLess ==
  ASSUME NumberFfts \in Nat, NEW h \in Seq(SlicesGiven), Len(h) \in {1, 2}, NEW s,
         NEW f \in 0 .. NumberFfts, f < NumberFfts
  PROVE  /\ s \in h[1].stations => Owed(h, f, s) = Owed(h, f + 1, s) + 1
         /\ s \notin h[1].stations => Owed(h, f, s) = Owed(h, f + 1, s)
<1>1. PICK x \in Nat : x = OwedOf(h[2], s, 0)
  BY DEF OwedOf
<1>2. NumberFfts + 1 - f = (NumberFfts + 1 - (f + 1)) + 1
      /\ NumberFfts + 1 - f \in Nat /\ NumberFfts + 1 - (f + 1) \in Nat
  OBVIOUS
<1>3. CASE Len(h) = 1
  BY <1>2, <1>3 DEF Owed, OwedOf
<1>4. CASE Len(h) = 2
  <2>1. Owed(h, f, s) = OwedOf(h[1], s, f) + x /\ Owed(h, f + 1, s) = OwedOf(h[1], s, f + 1) + x
    BY <1>1, <1>4 DEF Owed
  <2>2. CASE s \in h[1].stations
    <3>1. OwedOf(h[1], s, f) = NumberFfts + 1 - f
          /\ OwedOf(h[1], s, f + 1) = NumberFfts + 1 - (f + 1)
      BY <2>2 DEF OwedOf
    <3> QED BY <1>2, <2>1, <2>2, <3>1
  <2>3. CASE s \notin h[1].stations
    BY <2>1, <2>3 DEF OwedOf
  <2> QED BY <2>2, <2>3
<1> QED BY <1>3, <1>4

LEMMA OwedEnded ==
  ASSUME NumberFfts \in Nat, NEW h \in Seq(SlicesGiven), Len(h) \in {1, 2}, NEW s
  PROVE  /\ s \in h[1].stations => Owed(h, NumberFfts, s) = Owed(Tail(h), 0, s) + 1
         /\ s \notin h[1].stations => Owed(h, NumberFfts, s) = Owed(Tail(h), 0, s)
<1>1. PICK x \in Nat : x = OwedOf(h[2], s, 0)
  BY DEF OwedOf
<1>2. PICK t \in Seq(SlicesGiven) : t = Tail(h)
  <2>1. Tail(h) \in Seq(SlicesGiven)
    OBVIOUS
  <2> QED BY <2>1
<1>3. OwedOf(h[1], s, NumberFfts) = IF s \in h[1].stations THEN 1 ELSE 0
  BY DEF OwedOf
<1>4. CASE Len(h) = 1
  <2>1. Len(t) = 0
    BY <1>2, <1>4
  <2> QED BY <1>2, <1>3, <1>4, <2>1 DEF Owed
<1>5. CASE Len(h) = 2
  <2>1. Len(t) = 1 /\ t[1] = h[2]
    <3>1. Len(t) = Len(h) - 1 /\ \A i \in 1 .. Len(t) : t[i] = h[i + 1]
      BY <1>2, <1>5, HeadTailProperties
    <3>2. Len(t) = 1
      BY <1>5, <3>1
    <3>3. t[1] = h[1 + 1]
      BY <3>1, <3>2
    <3> QED BY <3>2, <3>3
  <2>2. Owed(t, 0, s) = x /\ Owed(h, NumberFfts, s) = OwedOf(h[1], s, NumberFfts) + x
    BY <1>1, <1>5, <2>1 DEF Owed
  <2> QED BY <1>2, <1>3, <2>2
<1> QED BY <1>4, <1>5

LEMMA OwedMore ==
  ASSUME NumberFfts \in Nat, NEW h \in Seq(SlicesGiven), Len(h) \in {0, 1}, NEW s,
         NEW f \in 0 .. NumberFfts, Len(h) = 0 => f = 0, NEW g \in SlicesGiven
  PROVE  /\ s \in g.stations => Owed(Append(h, g), f, s) = Owed(h, f, s) + NumberFfts + 1
         /\ s \notin g.stations => Owed(Append(h, g), f, s) = Owed(h, f, s)
<1>1. PICK t \in Seq(SlicesGiven) : t = Append(h, g)
  BY AppendProperties
<1>2. OwedOf(g, s, 0) = IF s \in g.stations THEN NumberFfts + 1 ELSE 0
  BY DEF OwedOf
<1>3. CASE Len(h) = 0
  <2>1. Len(t) = 1 /\ t[1] = g
    BY <1>1, <1>3
  <2> QED BY <1>1, <1>2, <1>3, <2>1 DEF Owed
<1>4. CASE Len(h) = 1
  <2>1. Len(t) = 2 /\ t[1] = h[1] /\ t[2] = g
    <3>1. Len(t) = Len(h) + 1 /\ (\A i \in 1 .. Len(h) : t[i] = h[i]) /\ t[Len(h) + 1] = g
      BY <1>1, AppendProperties
    <3>2. Len(t) = 2 /\ Len(h) + 1 = 2 /\ 1 \in 1 .. Len(h)
      BY <1>4, <3>1
    <3> QED BY <3>1, <3>2
  <2>2. PICK x \in Nat : x = OwedOf(h[1], s, f)
    <3>1. NumberFfts + 1 - f \in Nat
      OBVIOUS
    <3> QED BY <3>1 DEF OwedOf
  <2>3. Owed(h, f, s) = x /\ Owed(t, f, s) = x + OwedOf(g, s, 0)
    BY <1>4, <2>1, <2>2 DEF Owed
  <2> QED BY <1>1, <1>2, <2>2, <2>3
<1> QED BY <1>3, <1>4

\* What a node owes its stations when it has read of its only slice is less than a slice.
LEMMA NoneWaits ==
  ASSUME NumberFfts \in Nat, NEW M \in Seq(Messages), NEW W \in [Channels -> Writers],
         NEW a \in BOOLEAN, NEW L \in Nat, NEW owed \in Nat, NEW c,
         owed <= NumberFfts, StreamOK(M, W, a, L, owed, c)
  PROVE  ~Waiting(M, W, c)
<1>1. SUFFICES ASSUME Waiting(M, W, c) PROVE FALSE
  OBVIOUS
<1>2. CASE \A ch \in Channels : ~Writes(W[ch], c)
  <2>1. L + (NumberFfts + 1) = owed
    BY <1>1, <1>2 DEF StreamOK, Balance
  <2> QED BY <2>1
<1>3. ASSUME NEW ch \in Channels, Writes(W[ch], c) PROVE FALSE
  <2>1. PICK n \in Nat : n = W[ch].left
    BY DEF Writers
  <2>2. L + n + 1 + (NumberFfts + 1) = owed
    BY <1>1, <1>3, <2>1 DEF StreamOK, Balance
  <2> QED BY <2>2
<1> QED BY <1>2, <1>3

\* Node c takes a unit of each station of its present slice.
LEMMA TakenStreams ==
  ASSUME InputNodeAssumption, Types, Streams, Requests, NEW c \in Nodes,
         handed[c] # <<>>, \A s \in Present(c).stations : wire[s][c] # <<>>, Take(c),
         UNCHANGED <<mail, writer, active>>,
         \A d \in Nodes \ {c} : handed'[d] = handed[d] /\ fft'[d] = fft[d],
         \A s \in Stations :
           /\ Owed(handed'[c], fft'[c], s) \in Nat
           /\ s \in handed[c][1].stations =>
                Owed(handed[c], fft[c], s) = Owed(handed'[c], fft'[c], s) + 1
           /\ s \notin handed[c][1].stations =>
                Owed(handed[c], fft[c], s) = Owed(handed'[c], fft'[c], s)
  PROVE  Streams'
<1>1. \A s \in Stations :
        /\ s \in handed[c][1].stations => Len(wire'[s][c]) = Len(wire[s][c]) - 1
        /\ s \notin handed[c][1].stations => wire'[s][c] = wire[s][c]
        /\ \A d \in Nodes \ {c} : wire'[s][d] = wire[s][d]
  BY TakeFacts
<1>2. ASSUME NEW s \in Stations, NEW d \in Nodes PROVE StreamOf(s, d)'
  <2>1. CASE d # c
    <3>1. wire'[s][d] = wire[s][d] /\ handed'[d] = handed[d] /\ fft'[d] = fft[d]
      BY <1>1, <2>1
    <3> QED BY <3>1 DEF Streams, StreamOf
  <2>2. CASE d = c /\ s \notin handed[c][1].stations
    <3>1. /\ wire'[s][c] = wire[s][c]
          /\ Owed(handed[c], fft[c], s) = Owed(handed'[c], fft'[c], s)
      BY <1>1, <2>2
    <3> QED BY <2>2, <3>1 DEF Streams, StreamOf
  <2>3. CASE d = c /\ s \in handed[c][1].stations
    <3>1. PICK M \in Seq(Messages), W \in [Channels -> Writers], a \in BOOLEAN :
            M = mail[s] /\ W = writer[s] /\ a = active[s][c]
      BY DEF Types, InputTypes
    <3>2. PICK L \in Nat, owed \in Nat :
            L = Len(wire[s][c]) /\ owed = Owed(handed[c], fft[c], s)
      BY StreamNumbers
    <3>3. PICK rest \in Nat : rest = Owed(handed'[c], fft'[c], s) /\ owed = rest + 1
      BY <2>3, <3>2
    <3>4. PICK K \in Nat : K = Len(wire'[s][c]) /\ L = K + 1
      <4>1. s \in Present(c).stations /\ wire[s][c] \in Seq(Units)
        BY <2>3 DEF Present, Types, InputTypes
      <4>2. L # 0
        BY <3>2, <4>1
      <4>3. Len(wire'[s][c]) = L - 1
        BY <1>1, <2>3, <3>2
      <4> QED BY <4>2, <4>3
    <3>5. StreamOK(M, W, a, L, owed, c)
      BY <3>1, <3>2 DEF Streams, StreamOf
    <3>6. NumberFfts \in Nat
      BY StreamNumbers
    <3>7. StreamOK(M, W, a, K, rest, c)
      BY <3>3, <3>4, <3>5, <3>6, TakenStream
    <3> QED BY <2>3, <3>1, <3>3, <3>4, <3>7 DEF StreamOf
  <2> QED BY <2>1, <2>2, <2>3
<1> QED BY <1>2 DEF Streams

\* A node with slices has one or two of them.
LEMMA SlicesOfNode ==
  ASSUME Types, Requests, NEW c \in Nodes, handed[c] # <<>>
  PROVE  /\ handed[c] \in Seq(SlicesGiven) /\ Len(handed[c]) \in {1, 2}
         /\ Len(handed[c]) = 1 => (InReady(c) <=> hasRequested[c])
         /\ Len(handed[c]) = 2 => ~InReady(c) /\ hasRequested[c]
<1>1. handed[c] \in Seq(SlicesGiven)
  BY DEF Types, SupplyTypes
<1> QED BY <1>1 DEF Requests

LEMMA ReadyAdded ==
  ASSUME ready \in Seq(Nodes), NEW c \in Nodes, ready' = Append(ready, c)
  PROVE  /\ \A d : InReady(d)' <=> InReady(d) \/ d = c
         /\ ReadyOnce /\ ~InReady(c) => ReadyOnce'
<1>1. PICK q \in Seq(Nodes) : q = ready
  OBVIOUS
<1>2. PICK r \in Seq(Nodes) : r = ready'
  <2>1. Append(ready, c) \in Seq(Nodes)
    OBVIOUS
  <2> QED BY <2>1
<1>3. /\ DOMAIN q = 1 .. Len(q) /\ DOMAIN r = 1 .. Len(q) + 1 /\ Len(q) \in Nat
      /\ (\A i \in DOMAIN q : r[i] = q[i]) /\ r[Len(q) + 1] = c
  BY <1>1, <1>2
<1>4. \A i \in DOMAIN r : i \in DOMAIN q \/ i = Len(q) + 1
  BY <1>3
<1>5. \A d : InReady(d)' <=> InReady(d) \/ d = c
  BY <1>1, <1>2, <1>3, <1>4 DEF InReady
<1>6. ASSUME ReadyOnce, ~InReady(c) PROVE ReadyOnce'
  BY <1>1, <1>2, <1>3, <1>4, <1>6 DEF ReadyOnce, InReady
<1> QED BY <1>5, <1>6

LEMMA ReadyTaken ==
  ASSUME ready \in Seq(Nodes), ready # <<>>, NEW c \in Nodes, c = ready[1], ready' = Tail(ready)
  PROVE  /\ InReady(c)
         /\ \A d : InReady(d)' => InReady(d)
         /\ \A d : InReady(d) => InReady(d)' \/ d = c
         /\ ReadyOnce => ReadyOnce' /\ ~InReady(c)'
<1>1. PICK q \in Seq(Nodes) : q = ready
  OBVIOUS
<1>2. PICK r \in Seq(Nodes) : r = ready'
  <2>1. Tail(ready) \in Seq(Nodes)
    OBVIOUS
  <2> QED BY <2>1
<1>3. /\ DOMAIN q = 1 .. Len(q) /\ DOMAIN r = 1 .. Len(q) - 1 /\ Len(q) \in Nat /\ Len(q) >= 1
      /\ (\A i \in DOMAIN r : r[i] = q[i + 1]) /\ q[1] = c
  BY <1>1, <1>2
<1>4. /\ \A i \in DOMAIN r : i + 1 \in DOMAIN q /\ i + 1 # 1
      /\ \A i \in DOMAIN q : i = 1 \/ (i - 1 \in DOMAIN r /\ r[i - 1] = q[i])
      /\ \A i, j \in DOMAIN r : i + 1 = j + 1 => i = j
      /\ 1 \in DOMAIN q
  BY <1>3, SMTT(30)
<1>5. InReady(c) /\ \A d : InReady(d)' => InReady(d)
  BY <1>1, <1>2, <1>3, <1>4 DEF InReady
<1>6. ASSUME NEW d, InReady(d) PROVE InReady(d)' \/ d = c
  <2>1. PICK i \in DOMAIN q : q[i] = d
    BY <1>1, <1>6 DEF InReady
  <2>2. CASE i = 1
    BY <1>3, <2>1, <2>2
  <2>3. CASE i # 1
    <3>1. i - 1 \in DOMAIN r /\ r[i - 1] = d
      BY <1>4, <2>1, <2>3
    <3> QED BY <1>2, <3>1 DEF InReady
  <2> QED BY <2>2, <2>3
<1>7. ASSUME ReadyOnce PROVE ReadyOnce' /\ ~InReady(c)'
  BY <1>1, <1>2, <1>3, <1>4, <1>7 DEF ReadyOnce, InReady
<1> QED BY <1>5, <1>6, <1>7

LEMMA NodeStreams ==
  ASSUME InputNodeAssumption, SeveralFfts, Types, Streams, ReadyOnce, Requests, ReadyIdle,
         NEW c \in Nodes, NodeStep(c)
  PROVE  Streams' /\ ReadyOnce' /\ Requests' /\ ReadyIdle'
<1>1. NumberFfts \in Nat /\ NumberFfts > 0
  BY StreamNumbers
<1>2. handed[c] # <<>>
  BY DEF NodeStep, Correlate, Request, FinishSlice
<1>3. PICK h \in Seq(SlicesGiven) :
        /\ h = handed[c] /\ Len(h) \in {1, 2}
        /\ Len(h) = 1 => (InReady(c) <=> hasRequested[c])
        /\ Len(h) = 2 => ~InReady(c) /\ hasRequested[c]
  <2>1. /\ handed[c] \in Seq(SlicesGiven) /\ Len(handed[c]) \in {1, 2}
        /\ Len(handed[c]) = 1 => (InReady(c) <=> hasRequested[c])
        /\ Len(handed[c]) = 2 => ~InReady(c) /\ hasRequested[c]
    BY <1>2, SlicesOfNode
  <2> QED BY <2>1
<1>4. PICK f \in 0 .. NumberFfts : f = fft[c]
  BY DEF Types, SupplyTypes
<1>5. CASE Correlate(c)
  <2>1. /\ UNCHANGED <<mail, writer, active, ready, handed, hasRequested>>
        /\ f < NumberFfts /\ fft' = [fft EXCEPT ![c] = f + 1]
        /\ Take(c) /\ \A s \in Present(c).stations : wire[s][c] # <<>>
    BY <1>4, <1>5 DEF Correlate
  <2>2. fft'[c] = f + 1 /\ \A d \in Nodes \ {c} : handed'[d] = handed[d] /\ fft'[d] = fft[d]
    BY <2>1 DEF Types, SupplyTypes
  <2>3. ASSUME NEW s \in Stations
        PROVE  /\ Owed(handed'[c], fft'[c], s) \in Nat
               /\ s \in handed[c][1].stations =>
                    Owed(handed[c], fft[c], s) = Owed(handed'[c], fft'[c], s) + 1
               /\ s \notin handed[c][1].stations =>
                    Owed(handed[c], fft[c], s) = Owed(handed'[c], fft'[c], s)
    <3>1. handed'[c] = h /\ f + 1 \in 0 .. NumberFfts
      BY <1>1, <1>3, <2>1
    <3>2. Owed(h, f + 1, s) \in Nat
      BY <1>1, <3>1, OwedNatural
    <3>3. /\ s \in h[1].stations => Owed(h, f, s) = Owed(h, f + 1, s) + 1
          /\ s \notin h[1].stations => Owed(h, f, s) = Owed(h, f + 1, s)
      BY <1>1, <1>3, <2>1, OwedLess
    <3> QED BY <1>3, <1>4, <2>2, <3>1, <3>2, <3>3
  <2>4. Streams'
    BY <1>2, <2>1, <2>2, <2>3, TakenStreams
  <2>5. ReadyOnce' /\ ReadyIdle'
    BY <2>1 DEF ReadyOnce, ReadyIdle, InReady
  <2>6. ASSUME NEW d \in Nodes
        PROVE  \/ handed'[d] = <<>> /\ InReady(d)' /\ fft'[d] = 0 /\ ~hasRequested'[d]
               \/ Len(handed'[d]) = 1 /\ (InReady(d)' <=> hasRequested'[d])
               \/ Len(handed'[d]) = 2 /\ ~InReady(d)' /\ hasRequested'[d]
    <3>1. InReady(d)' <=> InReady(d)
      BY <2>1 DEF InReady
    <3>2. \/ handed[d] = <<>> /\ InReady(d) /\ fft[d] = 0 /\ ~hasRequested[d]
          \/ Len(handed[d]) = 1 /\ (InReady(d) <=> hasRequested[d])
          \/ Len(handed[d]) = 2 /\ ~InReady(d) /\ hasRequested[d]
      BY DEF Requests
    <3>3. handed[d] = <<>> => d # c
      BY <1>2
    <3> QED BY <2>1, <2>2, <3>1, <3>2, <3>3
  <2> QED BY <2>4, <2>5, <2>6 DEF Requests
<1>6. CASE Request(c)
  <2>1. /\ UNCHANGED <<mail, writer, active, wire, handed, fft>>
        /\ ready' = Append(ready, c) /\ Almost(f) /\ ~hasRequested[c]
        /\ hasRequested' = [hasRequested EXCEPT ![c] = TRUE]
    BY <1>4, <1>6 DEF Request, iVars
  <2>2. /\ \A d : InReady(d)' <=> InReady(d) \/ d = c
        /\ ReadyOnce /\ ~InReady(c) => ReadyOnce'
    BY <2>1, ReadyAdded DEF Types, SupplyTypes
  <2>3. Len(h) = 1 /\ ~InReady(c)
    BY <1>3, <2>1
  <2>4. Streams'
    BY <2>1 DEF Streams, StreamOf
  <2>5. f >= 1
    BY <1>1, <2>1 DEF Almost, SeveralFfts
  <2>6. ASSUME NEW s \in Stations PROVE ~Waiting(mail[s], writer[s], c)
    <3>1. PICK M \in Seq(Messages), W \in [Channels -> Writers], a \in BOOLEAN :
            M = mail[s] /\ W = writer[s] /\ a = active[s][c]
      BY DEF Types, InputTypes
    <3>2. PICK L \in Nat, owed \in Nat :
            L = Len(wire[s][c]) /\ owed = Owed(handed[c], fft[c], s)
      BY StreamNumbers
    <3>3. owed = OwedOf(h[1], s, f)
      BY <1>3, <1>4, <2>3, <3>2 DEF Owed
    <3>4. owed <= NumberFfts
      BY <1>1, <2>5, <3>3 DEF OwedOf
    <3>5. StreamOK(M, W, a, L, owed, c)
      BY <3>1, <3>2 DEF Streams, StreamOf
    <3> QED BY <1>1, <3>1, <3>4, <3>5, NoneWaits
  <2>7. ASSUME NEW d \in Nodes, InReady(d)', NEW s \in Stations
        PROVE  ~Waiting(mail'[s], writer'[s], d)
    <3>1. CASE d = c
      BY <2>1, <2>6, <3>1
    <3>2. CASE d # c
      BY <2>1, <2>2, <2>7, <3>2 DEF ReadyIdle
    <3> QED BY <3>1, <3>2
  <2>8. ASSUME NEW d \in Nodes
        PROVE  \/ handed'[d] = <<>> /\ InReady(d)' /\ fft'[d] = 0 /\ ~hasRequested'[d]
               \/ Len(handed'[d]) = 1 /\ (InReady(d)' <=> hasRequested'[d])
               \/ Len(handed'[d]) = 2 /\ ~InReady(d)' /\ hasRequested'[d]
    <3>1. CASE d = c
      <4>1. hasRequested'[c] /\ InReady(c)' /\ Len(handed'[c]) = 1
        BY <1>3, <2>1, <2>2, <2>3 DEF Types, SupplyTypes
      <4> QED BY <3>1, <4>1
    <3>2. CASE d # c
      <4>1. (InReady(d)' <=> InReady(d)) /\ hasRequested'[d] = hasRequested[d]
        BY <2>1, <2>2, <3>2 DEF Types, SupplyTypes
      <4>2. \/ handed[d] = <<>> /\ InReady(d) /\ fft[d] = 0 /\ ~hasRequested[d]
            \/ Len(handed[d]) = 1 /\ (InReady(d) <=> hasRequested[d])
            \/ Len(handed[d]) = 2 /\ ~InReady(d) /\ hasRequested[d]
        BY DEF Requests
      <4> QED BY <2>1, <4>1, <4>2
    <3> QED BY <3>1, <3>2
  <2>9. Requests'
    BY <2>8 DEF Requests
  <2>10. ReadyIdle'
    BY <2>7 DEF ReadyIdle
  <2> QED BY <2>2, <2>3, <2>4, <2>9, <2>10
<1>7. CASE FinishSlice(c)
  <2>1. /\ UNCHANGED <<mail, writer, active, ready>>
        /\ f = NumberFfts /\ fft' = [fft EXCEPT ![c] = 0] /\ hasRequested[c]
        /\ handed' = [handed EXCEPT ![c] = Tail(@)]
        /\ hasRequested' = [hasRequested EXCEPT ![c] = FALSE]
        /\ Take(c) /\ \A s \in Present(c).stations : wire[s][c] # <<>>
    BY <1>4, <1>7 DEF FinishSlice
  <2>2. PICK t \in Seq(SlicesGiven) : t = Tail(h) /\ Len(t) = Len(h) - 1
    <3>1. Tail(h) \in Seq(SlicesGiven) /\ Len(Tail(h)) = Len(h) - 1
      BY <1>2, <1>3, HeadTailProperties
    <3> QED BY <3>1
  <2>3. /\ fft'[c] = 0 /\ handed'[c] = t /\ ~hasRequested'[c]
        /\ \A d \in Nodes \ {c} : handed'[d] = handed[d] /\ fft'[d] = fft[d]
                                /\ hasRequested'[d] = hasRequested[d]
    BY <1>3, <2>1, <2>2 DEF Types, SupplyTypes
  <2>4. ASSUME NEW s \in Stations
        PROVE  /\ Owed(handed'[c], fft'[c], s) \in Nat
               /\ s \in handed[c][1].stations =>
                    Owed(handed[c], fft[c], s) = Owed(handed'[c], fft'[c], s) + 1
               /\ s \notin handed[c][1].stations =>
                    Owed(handed[c], fft[c], s) = Owed(handed'[c], fft'[c], s)
    <3>1. 0 \in 0 .. NumberFfts
      BY <1>1
    <3>2. Owed(t, 0, s) \in Nat
      BY <1>1, <3>1, OwedNatural
    <3>3. /\ s \in h[1].stations => Owed(h, NumberFfts, s) = Owed(Tail(h), 0, s) + 1
          /\ s \notin h[1].stations => Owed(h, NumberFfts, s) = Owed(Tail(h), 0, s)
      BY <1>1, <1>3, OwedEnded
    <3> QED BY <1>3, <1>4, <2>1, <2>2, <2>3, <3>2, <3>3
  <2>5. Streams'
    <3>1. \A d \in Nodes \ {c} : handed'[d] = handed[d] /\ fft'[d] = fft[d]
      BY <2>3
    <3> QED BY <1>2, <2>1, <2>4, <3>1, TakenStreams
  <2>6. ReadyOnce' /\ ReadyIdle'
    BY <2>1 DEF ReadyOnce, ReadyIdle, InReady
  <2>7. \A d : InReady(d)' <=> InReady(d)
    BY <2>1 DEF InReady
  <2>8. ASSUME NEW d \in Nodes
        PROVE  \/ handed'[d] = <<>> /\ InReady(d)' /\ fft'[d] = 0 /\ ~hasRequested'[d]
               \/ Len(handed'[d]) = 1 /\ (InReady(d)' <=> hasRequested'[d])
               \/ Len(handed'[d]) = 2 /\ ~InReady(d)' /\ hasRequested'[d]
    <3>1. CASE d = c /\ Len(h) = 1
      <4>1. t = <<>> /\ InReady(c)
        BY <1>3, <2>1, <2>2, <3>1
      <4> QED BY <2>3, <2>7, <3>1, <4>1
    <3>2. CASE d = c /\ Len(h) = 2
      <4>1. Len(t) = 1 /\ ~InReady(c)
        BY <1>3, <2>2, <3>2
      <4> QED BY <2>3, <2>7, <3>2, <4>1
    <3>3. CASE d # c
      <4>1. \/ handed[d] = <<>> /\ InReady(d) /\ fft[d] = 0 /\ ~hasRequested[d]
            \/ Len(handed[d]) = 1 /\ (InReady(d) <=> hasRequested[d])
            \/ Len(handed[d]) = 2 /\ ~InReady(d) /\ hasRequested[d]
        BY DEF Requests
      <4> QED BY <2>3, <2>7, <3>3, <4>1
    <3> QED BY <1>3, <3>1, <3>2, <3>3
  <2>9. Requests'
    BY <2>8 DEF Requests
  <2> QED BY <2>5, <2>6, <2>9
<1> QED BY <1>5, <1>6, <1>7 DEF NodeStep

\* Messages that are no slices change no stream.
LEMMA OtherMail ==
  ASSUME Types, Streams, ReadyIdle,
         UNCHANGED <<writer, active, wire, ready, handed, fft>>,
         \A s \in Stations, c \in Nodes :
           (Mailed(mail'[s], c) <=> Mailed(mail[s], c))
             /\ (OneMailed(mail[s], c) => OneMailed(mail'[s], c))
  PROVE  Streams' /\ ReadyIdle'
<1>1. ASSUME NEW s \in Stations, NEW c \in Nodes PROVE StreamOf(s, c)'
  <2>1. (Mailed(mail'[s], c) <=> Mailed(mail[s], c))
        /\ (OneMailed(mail[s], c) => OneMailed(mail'[s], c))
    OBVIOUS
  <2>2. StreamOf(s, c)
    BY DEF Streams
  <2> QED BY <2>1, <2>2 DEF StreamOf, StreamOK, OneWaits, Balance, Waiting
<1>2. \A s \in Stations, c \in Nodes :
        Waiting(mail'[s], writer'[s], c) <=> Waiting(mail[s], writer[s], c)
  BY DEF Waiting
<1>3. \A c : InReady(c)' <=> InReady(c)
  BY DEF InReady
<1>4. ReadyIdle'
  BY <1>2, <1>3 DEF ReadyIdle
<1> QED BY <1>1, <1>4 DEF Streams

LEMMA ManagerStreams ==
  ASSUME InputNodeAssumption, SupplyAssumption, Types, Streams, ReadyOnce, Requests, ReadyIdle,
         ManagerStep
  PROVE  Streams' /\ ReadyOnce' /\ Requests' /\ ReadyIdle'
<1>1. mail \in [Stations -> Seq(Messages)]
  BY DEF Types, InputTypes
<1>2. CASE StartNewScan
  <2>1. PICK S \in SUBSET Stations, x \in Messages, y \in Messages :
           /\ Send(S, <<x, y>>)
           /\ x.type = "TRACK_PARAMETERS" /\ y.type = "SET_TIME"
    BY <1>2, NewScanFacts
  <2>2. UNCHANGED <<writer, active, wire, ready, handed, fft, hasRequested>>
    BY <1>2 DEF StartNewScan
  <2>3. ASSUME NEW s \in Stations, NEW c \in Nodes
        PROVE  (Mailed(mail'[s], c) <=> Mailed(mail[s], c))
               /\ (OneMailed(mail[s], c) => OneMailed(mail'[s], c))
    <3>1. PICK M \in Seq(Messages) : M = mail[s]
      BY <1>1
    <3>2. ~IsFor(x, c) /\ ~IsFor(y, c)
      BY <2>1 DEF IsFor
    <3>3. PICK A \in Seq(Messages) : A = Append(M, x)
      BY MailAdded
    <3>4. PICK B \in Seq(Messages) : B = Append(A, y)
      BY MailAdded
    <3>5. (Mailed(A, c) <=> Mailed(M, c)) /\ (OneMailed(M, c) => OneMailed(A, c))
      BY <3>2, <3>3, MailAdded
    <3>6. (Mailed(B, c) <=> Mailed(A, c)) /\ (OneMailed(A, c) => OneMailed(B, c))
      BY <3>2, <3>4, MailAdded
    <3>7. mail'[s] = M \/ mail'[s] = M \o <<x, y>>
      <4>1. <<x, y>> \in Seq(Messages)
        OBVIOUS
      <4>2. (s \in S => mail'[s] = mail[s] \o <<x, y>>) /\ (s \notin S => mail'[s] = mail[s])
        BY <1>1, <2>1, <4>1, SendFacts, ZenonT(30)
      <4> QED BY <3>1, <4>2
    <3>8. M \o <<x, y>> = B
      BY <3>3, <3>4
    <3> QED BY <3>1, <3>5, <3>6, <3>7, <3>8
  <2>4. Streams' /\ ReadyIdle'
    BY <2>2, <2>3, OtherMail
  <2>5. ReadyOnce' /\ Requests'
    BY <2>2 DEF ReadyOnce, Requests, InReady
  <2> QED BY <2>4, <2>5
<1>3. CASE EndNodes
  <2>1. UNCHANGED <<writer, active, wire, ready, handed, fft, hasRequested>>
        /\ Send(Stations, <<EndNode>>)
    BY <1>3 DEF EndNodes
  <2>2. ASSUME NEW s \in Stations, NEW c \in Nodes
        PROVE  (Mailed(mail'[s], c) <=> Mailed(mail[s], c))
               /\ (OneMailed(mail[s], c) => OneMailed(mail'[s], c))
    <3>1. PICK M \in Seq(Messages), x \in Messages : M = mail[s] /\ x = EndNode
      BY <1>1, EndMessage
    <3>2. ~IsFor(x, c)
      BY <3>1, EndMessage DEF IsFor
    <3>3. mail'[s] = M \o <<x>>
      <4>1. <<EndNode>> \in Seq(Messages)
        BY EndMessage
      <4> QED BY <1>1, <2>1, <3>1, <4>1, SendFacts
    <3>4. M \o <<x>> = Append(M, x)
      OBVIOUS
    <3>5. (Mailed(Append(M, x), c) <=> Mailed(M, c))
          /\ (OneMailed(M, c) => OneMailed(Append(M, x), c))
      BY <3>2, MailAdded
    <3> QED BY <3>1, <3>3, <3>4, <3>5
  <2>3. Streams' /\ ReadyIdle'
    BY <2>1, <2>2, OtherMail
  <2>4. ReadyOnce' /\ Requests'
    BY <2>1 DEF ReadyOnce, Requests, InReady
  <2> QED BY <2>3, <2>4
<1>4. CASE StartCorrelatorNode
  <2>1. PICK S \in SUBSET Stations, m \in Messages, c \in Nodes, g \in SlicesGiven :
           /\ Send(S, <<m>>) /\ m.type = "ADD_TIME_SLICE" /\ m.stream = c
           /\ g.stations = S /\ handed' = [handed EXCEPT ![c] = Append(@, g)]
           /\ ready # <<>> /\ c = ready[1] /\ ready' = Tail(ready)
           /\ mScan \in 1 .. Len(Scans)
           /\ mTime' \in Nat /\ mChannels' \in SUBSET Channels /\ mChannels' # {}
    BY <1>4, HandOutFacts, Zenon
  <2>2. UNCHANGED <<writer, active, wire, fft, hasRequested>>
    BY <1>4 DEF StartCorrelatorNode
  <2>3. ready \in Seq(Nodes) /\ ready # <<>> /\ c = ready[1] /\ ready' = Tail(ready)
    BY <2>1 DEF Types, SupplyTypes
  <2>4. /\ InReady(c)
        /\ \A d : InReady(d)' => InReady(d)
        /\ \A d : InReady(d) => InReady(d)' \/ d = c
        /\ ReadyOnce' /\ ~InReady(c)'
    BY <2>3, ReadyTaken
  <2>5. PICK h \in Seq(SlicesGiven), f \in 0 .. NumberFfts :
           /\ h = handed[c] /\ f = fft[c]
           /\ Len(h) \in {0, 1} /\ (Len(h) = 0 => f = 0)
           /\ \/ Len(h) = 0 /\ f = 0 /\ ~hasRequested[c]
              \/ Len(h) = 1 /\ hasRequested[c]
    <3>1. PICK h \in Seq(SlicesGiven), f \in 0 .. NumberFfts : h = handed[c] /\ f = fft[c]
      BY DEF Types, SupplyTypes
    <3>2. \/ Len(h) = 0 /\ f = 0 /\ ~hasRequested[c]
          \/ Len(h) = 1 /\ hasRequested[c]
      BY <2>4, <3>1 DEF Requests
    <3>3. Len(h) \in {0, 1}
      BY <3>2
    <3>4. Len(h) = 0 => f = 0
      <4>1. (handed[c] = <<>> /\ fft[c] = 0) \/ Len(handed[c]) = 1 \/ Len(handed[c]) = 2
        BY Zenon DEF Requests
      <4> QED BY <3>1, <4>1
    <3> QED BY <3>1, <3>2, <3>3, <3>4
  <2>6. PICK k \in Seq(SlicesGiven) : k = Append(h, g) /\ Len(k) = Len(h) + 1
    BY AppendProperties
  <2>7. handed'[c] = k /\ \A d \in Nodes \ {c} : handed'[d] = handed[d]
    BY <2>1, <2>5, <2>6 DEF Types, SupplyTypes
  <2>8. \A s \in Stations : (s \in S => mail'[s] = mail[s] \o <<m>>)
                          /\ (s \notin S => mail'[s] = mail[s])
    <3>1. <<m>> \in Seq(Messages)
      OBVIOUS
    <3>2. Send(S, <<m>>)
      BY <2>1
    <3>3. /\ \A s \in Stations : s \in S => mail'[s] = mail[s] \o <<m>>
          /\ \A s \in Stations : s \notin S => mail'[s] = mail[s]
      BY <1>1, <3>1, <3>2, SendFacts
    <3> QED BY <3>3
  <2>9. ASSUME NEW s \in Stations, NEW d \in Nodes, d # c
        PROVE  StreamOf(s, d)' /\ (Waiting(mail'[s], writer'[s], d) => Waiting(mail[s], writer[s], d))
    <3>1. PICK M \in Seq(Messages) : M = mail[s]
      BY <1>1
    <3>2. ~IsFor(m, d)
      BY <2>1, <2>9 DEF IsFor
    <3>3. (Mailed(Append(M, m), d) <=> Mailed(M, d))
          /\ (OneMailed(M, d) => OneMailed(Append(M, m), d))
      BY <3>2, MailAdded
    <3>4. M \o <<m>> = Append(M, m)
      OBVIOUS
    <3>5. (Mailed(mail'[s], d) <=> Mailed(mail[s], d))
          /\ (OneMailed(mail[s], d) => OneMailed(mail'[s], d))
      BY <2>8, <3>1, <3>3, <3>4
    <3>6. StreamOf(s, d)
      BY DEF Streams
    <3>7. handed'[d] = handed[d]
      BY <2>7, <2>9
    <3>8. Waiting(mail'[s], writer'[s], d) <=> Waiting(mail[s], writer[s], d)
      BY <2>2, <3>5 DEF Waiting
    <3>9. StreamOf(s, d)'
      BY <2>2, <3>5, <3>6, <3>7, <3>8 DEF StreamOf, StreamOK, OneWaits, Balance
    <3> QED BY <3>8, <3>9
  <2>10. ASSUME NEW s \in Stations PROVE StreamOf(s, c)'
    <3>1. PICK M \in Seq(Messages), W \in [Channels -> Writers], a \in BOOLEAN :
            M = mail[s] /\ W = writer[s] /\ a = active[s][c]
      BY DEF Types, InputTypes
    <3>2. PICK L \in Nat, owed \in Nat :
            L = Len(wire[s][c]) /\ owed = Owed(handed[c], fft[c], s)
      BY StreamNumbers
    <3>3. StreamOK(M, W, a, L, owed, c)
      BY <3>1, <3>2 DEF Streams, StreamOf
    <3>4. NumberFfts \in Nat
      BY StreamNumbers
    <3>5. /\ s \in S => Owed(k, f, s) = owed + NumberFfts + 1
          /\ s \notin S => Owed(k, f, s) = owed
      <4>1. /\ s \in g.stations => Owed(Append(h, g), f, s) = Owed(h, f, s) + NumberFfts + 1
            /\ s \notin g.stations => Owed(Append(h, g), f, s) = Owed(h, f, s)
        <5>1. Len(h) \in {0, 1} /\ (Len(h) = 0 => f = 0)
          BY <2>5
        <5> QED BY <3>4, <5>1, OwedMore
      <4> QED BY <2>1, <2>5, <2>6, <3>2, <4>1
    <3>6. /\ writer'[s] = W /\ active'[s][c] = a /\ Len(wire'[s][c]) = L
          /\ Owed(handed'[c], fft'[c], s) = Owed(k, f, s)
      BY <2>2, <2>5, <2>7, <3>1, <3>2
    <3>7. CASE s \notin S
      BY <2>8, <3>1, <3>3, <3>5, <3>6, <3>7 DEF StreamOf
    <3>8. CASE s \in S
      <4>1. ~Waiting(M, W, c)
        BY <2>4, <3>1 DEF ReadyIdle
      <4>2. IsFor(m, c)
        BY <2>1 DEF IsFor
      <4>3. StreamOK(Append(M, m), W, a, L, owed + NumberFfts + 1, c)
        BY <3>3, <3>4, <4>1, <4>2, HandedStream
      <4>4. mail'[s] = Append(M, m)
        BY <2>8, <3>1, <3>8
      <4>5. Owed(handed'[c], fft'[c], s) = owed + NumberFfts + 1
        BY <3>5, <3>6, <3>8
      <4> QED BY <3>6, <4>3, <4>4, <4>5 DEF StreamOf
    <3> QED BY <3>7, <3>8
  <2>11. Streams'
    BY <2>9, <2>10 DEF Streams
  <2>12. ASSUME NEW d \in Nodes, InReady(d)', NEW s \in Stations
         PROVE  ~Waiting(mail'[s], writer'[s], d)
    <3>1. d # c /\ InReady(d)
      BY <2>4, <2>12
    <3>2. ~Waiting(mail[s], writer[s], d)
      BY <3>1 DEF ReadyIdle
    <3> QED BY <2>9, <3>1, <3>2
  <2>13. ASSUME NEW d \in Nodes
         PROVE  \/ handed'[d] = <<>> /\ InReady(d)' /\ fft'[d] = 0 /\ ~hasRequested'[d]
                \/ Len(handed'[d]) = 1 /\ (InReady(d)' <=> hasRequested'[d])
                \/ Len(handed'[d]) = 2 /\ ~InReady(d)' /\ hasRequested'[d]
    <3>1. CASE d = c
      <4>1. handed'[c] = k /\ ~InReady(c)' /\ fft'[c] = f /\ hasRequested'[c] = hasRequested[c]
        BY <2>2, <2>4, <2>5, <2>7
      <4>2. CASE Len(h) = 0
        <5>1. Len(k) = 1 /\ ~hasRequested[c]
          BY <2>5, <2>6, <4>2
        <5> QED BY <3>1, <4>1, <5>1
      <4>3. CASE Len(h) = 1
        <5>1. Len(k) = 2 /\ hasRequested[c]
          BY <2>5, <2>6, <4>3
        <5> QED BY <3>1, <4>1, <5>1
      <4> QED BY <2>5, <4>2, <4>3
    <3>2. CASE d # c
      <4>1. (InReady(d)' <=> InReady(d)) /\ handed'[d] = handed[d]
        BY <2>4, <2>7, <3>2
      <4>2. \/ handed[d] = <<>> /\ InReady(d) /\ fft[d] = 0 /\ ~hasRequested[d]
            \/ Len(handed[d]) = 1 /\ (InReady(d) <=> hasRequested[d])
            \/ Len(handed[d]) = 2 /\ ~InReady(d) /\ hasRequested[d]
        BY DEF Requests
      <4> QED BY <2>2, <4>1, <4>2
    <3> QED BY <3>1, <3>2
  <2>14. Requests'
    BY <2>13 DEF Requests
  <2>15. ReadyIdle'
    BY <2>12 DEF ReadyIdle
  <2> QED BY <2>4, <2>11, <2>14, <2>15
<1> QED BY <1>2, <1>3, <1>4 DEF ManagerStep

-----------------------------------------------------------------------------
\* The states of the writers, and the end.
LEMMA WriterStatesNext ==
  ASSUME InputNodeAssumption, SupplyAssumption, SInv, [Next]_vars
  PROVE  WriterStates'
<1>1. Types /\ InputTypes /\ WriterStates
  BY DEF SInv, Types
<1>2. CASE UNCHANGED <<writer, iStatus>>
  BY <1>1, <1>2 DEF WriterStates
<1>3. ASSUME NEW s \in Stations,
             \A t \in Stations \ {s} : writer'[t] = writer[t] /\ iStatus'[t] = iStatus[t],
             \A ch \in Channels :
               /\ writer'[s][ch].pc \in {"found", "write"} => writer'[s][ch].slices # <<>>
               /\ writer'[s][ch].pc = "cancelled" =>
                    writer'[s][ch].slices = <<>> /\ iStatus'[s] \in {"TERMINATING", "END_NODE"}
      PROVE  WriterStates'
  <2>1. ASSUME NEW t \in Stations, NEW ch \in Channels
        PROVE  /\ writer'[t][ch].pc \in {"found", "write"} => writer'[t][ch].slices # <<>>
               /\ writer'[t][ch].pc = "cancelled" =>
                    writer'[t][ch].slices = <<>> /\ iStatus'[t] \in {"TERMINATING", "END_NODE"}
    <3>1. CASE t = s
      BY <1>3, <3>1
    <3>2. CASE t # s
      BY <1>1, <1>3, <3>2 DEF WriterStates
    <3> QED BY <3>1, <3>2
  <2> QED BY <2>1 DEF WriterStates
<1>4. CASE ManagerStep \/ (\E c \in Nodes : NodeStep(c)) \/ UNCHANGED vars
  BY <1>2, <1>4 DEF ManagerStep, StartNewScan, StartCorrelatorNode, EndNodes, NodeStep, Correlate,
                    Request, FinishSlice, vars, iVars
<1>5. ASSUME NEW s \in Stations, NEW ch \in Channels, WriterStep(s, ch) PROVE WriterStates'
  <2>1. UNCHANGED iStatus
    BY <1>5 DEF WriterStep, FetchNextTimeInterval, FindWork, Activate, SkipOldBlock, WriteBlock,
                EndSlice
  <2>2. PICK w \in Writers : w = writer[s][ch]
    BY <1>1 DEF InputTypes
  <2>3. /\ w.pc \in {"found", "write"} => w.slices # <<>>
        /\ w.pc = "cancelled" => w.slices = <<>> /\ iStatus[s] \in {"TERMINATING", "END_NODE"}
    BY <1>1, <2>2 DEF WriterStates
  <2>4. ASSUME NEW v \in Writers, Turns(s, ch, v),
               v.pc \in {"found", "write"} => v.slices # <<>>,
               v.pc = "cancelled" => v.slices = <<>> /\ w.pc = "cancelled"
        PROVE  WriterStates'
    <3>1. writer \in [Stations -> [Channels -> Writers]]
      BY <1>1 DEF InputTypes
    <3>2. /\ writer'[s][ch] = v
          /\ \A d \in Channels \ {ch} : writer'[s][d] = writer[s][d]
          /\ \A t \in Stations \ {s} : writer'[t] = writer[t]
      BY <2>4, <3>1, TurnsFacts
    <3>3. ASSUME NEW d \in Channels
          PROVE  /\ writer'[s][d].pc \in {"found", "write"} => writer'[s][d].slices # <<>>
                 /\ writer'[s][d].pc = "cancelled" =>
                      /\ writer'[s][d].slices = <<>>
                      /\ iStatus'[s] \in {"TERMINATING", "END_NODE"}
      <4>1. CASE d = ch
        BY <2>1, <2>3, <2>4, <3>2, <4>1
      <4>2. CASE d # ch
        BY <1>1, <2>1, <3>2, <4>2 DEF WriterStates
      <4> QED BY <4>1, <4>2
    <3> QED BY <1>3, <2>1, <3>2, <3>3
  <2>5. CASE FetchNextTimeInterval(s, ch)
    <3>1. PICK v \in Writers :
             /\ Turns(s, ch, v)
             /\ v.pc = writer[s][ch].pc /\ v.slices = writer[s][ch].slices
             /\ v.left = writer[s][ch].left
      BY <1>1, <2>5, FetchFacts
    <3> QED BY <2>2, <2>3, <2>4, <3>1
  <2>6. CASE FindWork(s, ch)
    <3>1. PICK v \in Writers :
             /\ Turns(s, ch, v) /\ writer[s][ch].pc = "idle" /\ writer[s][ch].slices # <<>>
             /\ ~active[s][writer[s][ch].slices[1]]
             /\ v = [writer[s][ch] EXCEPT !.pc = "found"]
             /\ Found(writer[s][ch], v)
      BY <1>1, <2>6, FindFacts, Zenon
    <3>2. v.pc = "found" /\ v.slices = w.slices
      BY <2>2, <3>1 DEF Writers
    <3> QED BY <2>2, <2>4, <3>1, <3>2
  <2>7. CASE Activate(s, ch)
    <3>1. writer[s][ch].slices # <<>>
      BY <2>2, <2>3, <2>7 DEF Activate
    <3>2. PICK v \in Writers, e \in Nodes :
             /\ Turns(s, ch, v) /\ writer[s][ch].pc = "found" /\ v.pc = "write"
             /\ v.slices = writer[s][ch].slices /\ v.left = NumberFfts
             /\ e = writer[s][ch].slices[1]
             /\ active' = [active EXCEPT ![s][e] = TRUE]
             /\ Begun(writer[s][ch], v)
      BY <1>1, <2>7, <3>1, ActivateFacts, Zenon
    <3> QED BY <2>4, <3>1, <3>2
  <2>8. CASE SkipOldBlock(s, ch)
    BY <1>2, <2>1, <2>8 DEF SkipOldBlock
  <2>9. CASE WriteBlock(s, ch)
    <3>1. writer[s][ch].slices # <<>>
      BY <2>2, <2>3, <2>9 DEF WriteBlock
    <3>2. PICK v \in Writers, e \in Nodes, u \in Units :
             /\ Turns(s, ch, v) /\ writer[s][ch].pc = "write" /\ v.pc = "write"
             /\ v.slices = writer[s][ch].slices /\ e = writer[s][ch].slices[1]
             /\ writer[s][ch].left \in Nat /\ writer[s][ch].left > 0
             /\ v.left = writer[s][ch].left - 1
             /\ wire' = [wire EXCEPT ![s][e] = @ \o <<u>>]
             /\ u = Unit(ch, blocks[s][ch][1])
             /\ Written(writer[s][ch], v)
      BY <1>1, <2>9, <3>1, WriteFacts, Zenon
    <3> QED BY <2>4, <3>1, <3>2
  <2>10. CASE EndSlice(s, ch)
    <3>1. writer[s][ch].slices # <<>>
      BY <2>2, <2>3, <2>10 DEF EndSlice
    <3>2. PICK v \in Writers, e \in Nodes :
             /\ Turns(s, ch, v) /\ writer[s][ch].pc = "write" /\ v.pc = "idle"
             /\ v.slices = Tail(writer[s][ch].slices) /\ e = writer[s][ch].slices[1]
             /\ writer[s][ch].left = 0
             /\ wire' = [wire EXCEPT ![s][e] = Append(@, EndOfStream)]
             /\ active' = [active EXCEPT ![s][e] = FALSE]
             /\ Ended(writer[s][ch], v)
      BY <1>1, <2>10, <3>1, EndFacts, Zenon
    <3>3. Turns(s, ch, v) /\ v.pc = "idle"
      BY <3>2
    <3> QED BY <2>4, <3>3
  <2> QED BY <1>5, <2>5, <2>6, <2>7, <2>8, <2>9, <2>10 DEF WriterStep
<1>6. ASSUME NEW s \in Stations, MessageStep(s) PROVE WriterStates'
  <2>1. \A ch \in Channels :
          /\ writer[s][ch].pc \in {"found", "write"} => writer[s][ch].slices # <<>>
          /\ writer[s][ch].pc = "cancelled" =>
               writer[s][ch].slices = <<>> /\ iStatus[s] \in {"TERMINATING", "END_NODE"}
    BY <1>1 DEF WriterStates
  <2>2. CASE ReceiveParameters(s)
    <3>1. iStatus[s] \in {"WAITING", "WRITING"} /\ UNCHANGED writer
          /\ iStatus' = [iStatus EXCEPT ![s] = "WRITING"]
      BY <2>2 DEF ReceiveParameters, Takes
    <3>2. \A t \in Stations \ {s} : iStatus'[t] = iStatus[t]
      BY <1>1, <3>1 DEF InputTypes
    <3> QED BY <1>3, <2>1, <3>1, <3>2
  <2>3. CASE ReceiveTimeInterval(s)
    <3>1. UNCHANGED iStatus
      BY <2>3 DEF ReceiveTimeInterval
    <3>2. /\ \A t \in Stations \ {s} : writer'[t] = writer[t]
          /\ \A ch \in Channels : writer'[s][ch].pc = writer[s][ch].pc
                                /\ writer'[s][ch].slices = writer[s][ch].slices
      BY <1>1, <2>3, IntervalFacts
    <3> QED BY <1>3, <2>1, <3>1, <3>2
  <2>4. CASE ReceiveTimeSlice(s)
    <3>1. iStatus[s] \in {"WAITING", "WRITING"} /\ UNCHANGED iStatus
      BY <2>4 DEF ReceiveTimeSlice, Takes
    <3>2. PICK ch \in Channels, e \in Nodes, v \in Writers :
             /\ ch = Head(mail[s]).channel /\ e = Head(mail[s]).stream
             /\ Turns(s, ch, v)
             /\ v.pc = writer[s][ch].pc /\ v.left = writer[s][ch].left
             /\ v.slices = Append(writer[s][ch].slices, e)
      BY <1>1, <2>4, SliceFacts, Zenon
    <3>3. writer \in [Stations -> [Channels -> Writers]]
      BY <1>1 DEF InputTypes
    <3>4. /\ writer'[s][ch] = v
          /\ \A d \in Channels \ {ch} : writer'[s][d] = writer[s][d]
          /\ \A t \in Stations \ {s} : writer'[t] = writer[t]
      BY <3>2, <3>3, TurnsFacts, ZenonT(30)
    <3>5. v.pc # "cancelled" /\ v.slices # <<>>
      <4>1. PICK q \in Seq(Nodes) : q = writer[s][ch].slices
        BY <3>3 DEF Writers
      <4>2. Append(q, e) # <<>>
        BY AppendProperties
      <4> QED BY <2>1, <3>1, <3>2, <4>1, <4>2
    <3>6. \A d \in Channels :
            /\ writer'[s][d].pc \in {"found", "write"} => writer'[s][d].slices # <<>>
            /\ writer'[s][d].pc = "cancelled" =>
                 writer'[s][d].slices = <<>> /\ iStatus'[s] \in {"TERMINATING", "END_NODE"}
      <4>1. TAKE d \in Channels
      <4>2. CASE d = ch
        BY <3>4, <3>5, <4>2
      <4>3. CASE d # ch
        BY <2>1, <3>1, <3>4, <4>3
      <4> QED BY <4>2, <4>3
    <3> QED BY <1>3, <3>1, <3>4, <3>6
  <2>5. CASE ReceiveEndNode(s)
    <3>1. PICK M \in Seq(Messages) :
            M = mail[s] /\ M # <<>> /\ M[1].type = "END_NODE" /\ 1 \in DOMAIN M
      BY <1>1, <2>5 DEF ReceiveEndNode, Takes, InputTypes
    <3>2. \A c \in Nodes : handed[c] = <<>>
      BY <3>1 DEF SInv, Endings, HasEnd
    <3>3. \A ch \in Channels : writer[s][ch].slices = <<>>
      BY <3>2, NothingOwed DEF SInv
    <3>4. /\ \A t \in Stations \ {s} : writer'[t] = writer[t]
          /\ \A ch \in Channels : writer'[s][ch] = [writer[s][ch] EXCEPT !.pc = "cancelled"]
      BY <1>1, <2>5, CancelFacts
    <3>5. iStatus'[s] = "TERMINATING" /\ \A t \in Stations \ {s} : iStatus'[t] = iStatus[t]
      BY <1>1, <2>5 DEF ReceiveEndNode, InputTypes
    <3>6. ASSUME NEW ch \in Channels
          PROVE  writer'[s][ch].slices = <<>> /\ writer'[s][ch].pc = "cancelled"
      <4>1. PICK w \in Writers : w = writer[s][ch]
        BY <1>1 DEF InputTypes
      <4>2. [w EXCEPT !.pc = "cancelled"].slices = w.slices
            /\ [w EXCEPT !.pc = "cancelled"].pc = "cancelled"
        BY DEF Writers
      <4> QED BY <3>3, <3>4, <4>1, <4>2
    <3> QED BY <1>3, <3>4, <3>5, <3>6
  <2>6. CASE Terminated(s)
    <3>1. UNCHANGED writer /\ iStatus' = [iStatus EXCEPT ![s] = "END_NODE"]
      BY <2>6 DEF Terminated
    <3>2. iStatus'[s] = "END_NODE" /\ \A t \in Stations \ {s} : iStatus'[t] = iStatus[t]
      BY <1>1, <3>1 DEF InputTypes
    <3> QED BY <1>3, <2>1, <3>1, <3>2
  <2> QED BY <1>6, <2>2, <2>3, <2>4, <2>5, <2>6 DEF MessageStep
<1>7. ASSUME NEW s \in Stations, ReaderStep(s) PROVE WriterStates'
  BY <1>2, <1>7 DEF ReaderStep, ReadBlocks, NextInterval
<1> QED BY <1>4, <1>5, <1>6, <1>7 DEF Next, InputStep

\* The END_NODE among the messages of a station.
LEMMA EndsOfMail ==
  ASSUME NEW M \in Seq(Messages), NEW m \in Messages
  PROVE  /\ Append(M, m) \in Seq(Messages)
         /\ HasEnd(Append(M, m)) => HasEnd(M) \/ m.type = "END_NODE"
         /\ M # <<>> /\ HasEnd(Tail(M)) => HasEnd(M)
<1>1. PICK A \in Seq(Messages) : A = Append(M, m)
  BY MailAdded
<1>2. /\ DOMAIN A = 1 .. Len(M) + 1 /\ DOMAIN M = 1 .. Len(M) /\ Len(M) \in Nat
      /\ A[Len(M) + 1] = m /\ \A i \in DOMAIN M : A[i] = M[i]
  BY <1>1
<1>3. \A i \in DOMAIN A : i \in DOMAIN M \/ i = Len(M) + 1
  BY <1>2
<1>4. HasEnd(A) => HasEnd(M) \/ m.type = "END_NODE"
  BY <1>2, <1>3 DEF HasEnd
<1>5. ASSUME M # <<>>, HasEnd(Tail(M)) PROVE HasEnd(M)
  <2>1. PICK T \in Seq(Messages) : T = Tail(M)
    BY <1>5, MailTaken
  <2>2. DOMAIN T = 1 .. Len(M) - 1 /\ \A i \in DOMAIN T : T[i] = M[i + 1]
    BY <1>5, <2>1
  <2>3. PICK i \in DOMAIN T : T[i].type = "END_NODE"
    BY <1>5, <2>1 DEF HasEnd
  <2>4. i + 1 \in DOMAIN M /\ M[i + 1].type = "END_NODE"
    BY <1>2, <2>2, <2>3
  <2> QED BY <2>4 DEF HasEnd
<1> QED BY <1>1, <1>4, <1>5

LEMMA EndingsNext ==
  ASSUME InputNodeAssumption, SupplyAssumption, Types, Endings, [Next]_vars
  PROVE  Endings'
<1>1. mail \in [Stations -> Seq(Messages)]
  BY DEF Types, InputTypes
<1>2. PICK n \in Nat : n = Len(Scans) /\ mScan \in 0 .. n + 1
  BY ScansFacts DEF Types, SupplyTypes
<1>3. CASE StartNewScan
  <2>1. mScan < n /\ mScan' = mScan + 1 /\ mScan' # n + 1
    BY <1>2, <1>3 DEF StartNewScan
  <2>2. PICK S \in SUBSET Stations, x \in Messages, y \in Messages :
           /\ Send(S, <<x, y>>)
           /\ x.type = "TRACK_PARAMETERS" /\ y.type = "SET_TIME"
    BY <1>3, NewScanFacts
  <2>3. ASSUME NEW s \in Stations PROVE ~HasEnd(mail'[s])
    <3>1. PICK M \in Seq(Messages) : M = mail[s]
      BY <1>1
    <3>2. ~HasEnd(M)
      BY <1>2, <2>1, <3>1 DEF Endings
    <3>3. PICK A \in Seq(Messages) : A = Append(M, x)
      BY EndsOfMail
    <3>4. PICK B \in Seq(Messages) : B = Append(A, y)
      BY EndsOfMail
    <3>5. ~HasEnd(A)
      BY <2>2, <3>2, <3>3, EndsOfMail
    <3>6. ~HasEnd(B)
      BY <2>2, <3>4, <3>5, EndsOfMail
    <3>7. mail'[s] = M \/ mail'[s] = M \o <<x, y>>
      <4>1. <<x, y>> \in Seq(Messages)
        OBVIOUS
      <4>2. (s \in S => mail'[s] = mail[s] \o <<x, y>>) /\ (s \notin S => mail'[s] = mail[s])
        BY <1>1, <2>2, <4>1, SendFacts, ZenonT(30)
      <4> QED BY <3>1, <4>2
    <3>8. M \o <<x, y>> = B
      BY <3>3, <3>4
    <3> QED BY <3>2, <3>6, <3>7, <3>8
  <2> QED BY <1>2, <2>1, <2>3 DEF Endings
<1>4. CASE StartCorrelatorNode
  <2>1. PICK S \in SUBSET Stations, m \in Messages, c \in Nodes, g \in SlicesGiven :
           /\ Send(S, <<m>>) /\ m.type = "ADD_TIME_SLICE" /\ m.stream = c
           /\ g.stations = S /\ handed' = [handed EXCEPT ![c] = Append(@, g)]
           /\ ready # <<>> /\ c = ready[1] /\ ready' = Tail(ready)
           /\ mScan \in 1 .. Len(Scans)
           /\ mTime' \in Nat /\ mChannels' \in SUBSET Channels /\ mChannels' # {}
    BY <1>4, HandOutFacts, Zenon
  <2>2. mScan' = mScan /\ mScan # n + 1
    BY <1>2, <1>4, <2>1 DEF StartCorrelatorNode
  <2>3. ASSUME NEW s \in Stations PROVE ~HasEnd(mail'[s])
    <3>1. PICK M \in Seq(Messages) : M = mail[s]
      BY <1>1
    <3>2. ~HasEnd(M)
      BY <1>2, <2>2, <3>1 DEF Endings
    <3>3. ~HasEnd(Append(M, m))
      BY <2>1, <3>2, EndsOfMail
    <3>4. mail'[s] = M \/ mail'[s] = M \o <<m>>
      <4>1. <<m>> \in Seq(Messages)
        OBVIOUS
      <4>2. Send(S, <<m>>)
        BY <2>1
      <4>3. (s \in S => mail'[s] = mail[s] \o <<m>>) /\ (s \notin S => mail'[s] = mail[s])
        BY <1>1, <4>1, <4>2, SendFacts
      <4> QED BY <3>1, <4>3
    <3>5. M \o <<m>> = Append(M, m)
      OBVIOUS
    <3> QED BY <3>2, <3>3, <3>4, <3>5
  <2> QED BY <1>2, <2>2, <2>3 DEF Endings
<1>5. CASE EndNodes
  BY <1>2, <1>5 DEF EndNodes, Endings
<1>6. ASSUME NEW c \in Nodes, NodeStep(c) PROVE Endings'
  <2>1. UNCHANGED <<mail, mScan>> /\ handed[c] # <<>>
    BY <1>6 DEF NodeStep, Correlate, Request, FinishSlice, iVars
  <2>2. mScan # Len(Scans) + 1
    BY <2>1 DEF Endings
  <2> QED BY <2>1, <2>2 DEF Endings
<1>7. ASSUME NEW s \in Stations, InputStep(s) PROVE Endings'
  <2>1. UNCHANGED <<mScan, handed>>
    BY <1>7 DEF InputStep, sVars
  <2>2. CASE UNCHANGED mail
    BY <2>1, <2>2 DEF Endings
  <2>3. ASSUME NEW type, Takes(s, type) PROVE Endings'
    <3>1. /\ mail[s] # <<>> /\ mail'[s] = Tail(mail[s])
          /\ \A t \in Stations \ {s} : mail'[t] = mail[t]
      BY <1>1, <2>3, TakesFacts
    <3>2. HasEnd(mail'[s]) => HasEnd(mail[s])
      BY <1>1, <3>1, EndMessage, EndsOfMail
    <3>3. \A t \in Stations : HasEnd(mail'[t]) => HasEnd(mail[t])
      BY <3>1, <3>2
    <3> QED BY <2>1, <3>3 DEF Endings
  <2>4. UNCHANGED mail \/ \E type : Takes(s, type)
    BY <1>7 DEF InputStep, MessageStep, ReceiveParameters, ReceiveTimeInterval, ReceiveTimeSlice,
                ReceiveEndNode, Terminated, ReaderStep, ReadBlocks, NextInterval, WriterStep,
                FetchNextTimeInterval, FindWork, Activate, SkipOldBlock, WriteBlock, EndSlice
  <2> QED BY <2>2, <2>3, <2>4
<1>8. CASE UNCHANGED vars
  BY <1>8 DEF vars, iVars, sVars, Endings
<1> QED BY <1>3, <1>4, <1>5, <1>6, <1>7, <1>8 DEF Next, ManagerStep

-----------------------------------------------------------------------------
\* The inductive invariant.
LEMMA SInvInit ==
  ASSUME InputNodeAssumption, SupplyAssumption, Init
  PROVE  SInv
<1>1. Types
  BY TypesInit
<1>2. /\ \A s \in Stations : mail[s] = <<>>
      /\ \A s \in Stations : \A ch \in Channels :
           writer[s][ch].slices = <<>> /\ writer[s][ch].pc = "idle"
      /\ \A s \in Stations : \A c \in Nodes : active[s][c] = FALSE /\ wire[s][c] = <<>>
      /\ \A c \in Nodes : handed[c] = <<>> /\ fft[c] = 0 /\ hasRequested[c] = FALSE
      /\ ready = SetToSeq(Nodes) /\ mScan = 0
  BY DEF Init, InputInit, NewWriter
<1>3. ASSUME NEW s \in Stations, NEW c \in Nodes
      PROVE  StreamOf(s, c) /\ ~Waiting(mail[s], writer[s], c)
  <2>1. DOMAIN mail[s] = {} /\ \A ch \in Channels : DOMAIN writer[s][ch].slices = {}
    BY <1>2
  <2>2. ~Mailed(mail[s], c) /\ OneMailed(mail[s], c)
    BY <2>1 DEF Mailed, OneMailed
  <2>3. ~Queued(writer[s], c) /\ OneQueued(writer[s], c)
    BY <2>1 DEF Queued, OneQueued
  <2>4. \A ch \in Channels : ~Writes(writer[s][ch], c)
    BY <1>2 DEF Writes
  <2>5. OneWrites(writer[s], active[s][c], c)
    BY <1>2, <2>4 DEF OneWrites
  <2>6. Len(wire[s][c]) = 0 /\ Owed(handed[c], fft[c], s) = 0
    BY <1>2 DEF Owed
  <2>7. Balance(mail[s], writer[s], 0, 0, c)
    BY <2>2, <2>3, <2>4 DEF Balance, Waiting
  <2> QED BY <2>2, <2>3, <2>5, <2>6, <2>7 DEF StreamOf, StreamOK, OneWaits, Waiting
<1>4. ReadyOnce /\ \A c \in Nodes : InReady(c)
  BY <1>2, AllReady DEF ReadyOnce, InReady
<1>5. Requests
  BY <1>2, <1>4 DEF Requests
<1>6. WriterStates
  BY <1>2 DEF WriterStates
<1>7. Endings
  BY <1>2, ScansFacts DEF Endings, HasEnd
<1> QED BY <1>1, <1>3, <1>4, <1>5, <1>6, <1>7 DEF SInv, Streams, ReadyIdle

LEMMA SInvNext ==
  ASSUME InputNodeAssumption, SupplyAssumption, SeveralFfts, SInv, [Next]_vars
  PROVE  SInv'
<1>1. Types' /\ WriterStates' /\ Endings'
  BY TypesNext, WriterStatesNext, EndingsNext DEF SInv
<1>2. Types /\ Streams /\ ReadyOnce /\ Requests /\ ReadyIdle /\ WriterStates /\ Endings
  BY DEF SInv
<1>3. Streams' /\ ReadyOnce' /\ Requests' /\ ReadyIdle'
  <2>1. CASE ManagerStep
    BY <1>2, <2>1, ManagerStreams
  <2>2. ASSUME NEW c \in Nodes, NodeStep(c) PROVE Streams' /\ ReadyOnce' /\ Requests' /\ ReadyIdle'
    BY <1>2, <2>2, NodeStreams
  <2>3. ASSUME NEW s \in Stations, InputStep(s)
        PROVE  Streams' /\ ReadyOnce' /\ Requests' /\ ReadyIdle'
    <3>1. UNCHANGED sVars
      BY <2>3 DEF InputStep
    <3>2. ReadyOnce' /\ Requests'
      BY <1>2, <3>1 DEF sVars, ReadyOnce, Requests, InReady
    <3>3. Streams' /\ ReadyIdle'
      <4>1. CASE MessageStep(s)
        BY <1>2, <3>1, <4>1, MessageStreams
      <4>2. CASE ReaderStep(s)
        BY <1>2, <3>1, <4>2, ReaderStreams
      <4>3. ASSUME NEW ch \in Channels, WriterStep(s, ch) PROVE Streams' /\ ReadyIdle'
        BY <1>2, <3>1, <4>3, WriterStreams
      <4> QED BY <2>3, <4>1, <4>2, <4>3 DEF InputStep
    <3> QED BY <3>2, <3>3
  <2>4. CASE UNCHANGED vars
    <3>1. UNCHANGED <<mail, writer, active, wire, ready, handed, fft, hasRequested>>
      BY <2>4 DEF vars, iVars, sVars
    <3>2. ReadyOnce' /\ Requests' /\ ReadyIdle'
      BY <1>2, <3>1 DEF ReadyOnce, Requests, ReadyIdle, InReady
    <3>3. Streams'
      BY <1>2, <3>1 DEF Streams, StreamOf
    <3> QED BY <3>2, <3>3
  <2> QED BY <2>1, <2>2, <2>3, <2>4 DEF Next
<1> QED BY <1>1, <1>3 DEF SInv

\* With more than one FFT in a slice the invariant holds always: at most one slice waits on
\* each stream, one channel at most writes on it, and what is on it is what is owed.
THEOREM SupplyInvariant ==
  ASSUME SeveralFfts
  PROVE  Spec => []SInv
<1>1. Init => SInv
  BY InputNodeAssumption, SupplyAssumption, SInvInit
<1>2. SInv /\ [Next]_vars => SInv'
  BY InputNodeAssumption, SupplyAssumption, SInvNext
<1> QED BY <1>1, <1>2, PTL DEF Spec

-----------------------------------------------------------------------------
LEMMA OneWriterOfInv ==
  ASSUME SInv
  PROVE  OneWriterPerStream
<1>1. ASSUME NEW s \in Stations, NEW c \in Nodes
      PROVE  Cardinality({ch \in Channels :
               writer[s][ch].pc \in {"found", "write"} /\ Stream(writer[s][ch]) = c}) <= 1
  <2>1. PICK W \in [Channels -> Writers], a \in BOOLEAN : W = writer[s] /\ a = active[s][c]
    BY DEF SInv, Types, InputTypes
  <2> DEFINE Using == {ch \in Channels : W[ch].pc \in {"found", "write"} /\ Stream(W[ch]) = c}
  <2>2. OneQueued(W, c) /\ OneWrites(W, a, c)
    BY <2>1 DEF SInv, Streams, StreamOf, StreamOK, OneWaits
  <2>3. ASSUME NEW ch \in Using
        PROVE  /\ W[ch].slices[1] = c /\ 1 \in DOMAIN W[ch].slices
               /\ W[ch].pc = "found" => Waits(W[ch], 1, c)
               /\ W[ch].pc # "found" => Writes(W[ch], c)
    <3>1. PICK q \in Seq(Nodes) : q = W[ch].slices
      BY DEF Writers
    <3>2. q # <<>>
      BY <2>1, <3>1 DEF SInv, WriterStates
    <3>3. q[1] = c /\ 1 \in DOMAIN q
      BY <3>1, <3>2 DEF Stream
    <3> QED BY <3>1, <3>2, <3>3 DEF Waits, Writes
  <2>4. ASSUME NEW ch \in Using, NEW d \in Using PROVE ch = d
    <3>1. CASE W[ch].pc = "found" /\ W[d].pc = "found"
      BY <2>2, <2>3, <3>1 DEF OneQueued
    <3>2. CASE W[ch].pc # "found" /\ W[d].pc # "found"
      BY <2>2, <2>3, <3>2 DEF OneWrites
    <3>3. CASE W[ch].pc = "found" /\ W[d].pc # "found"
      <4>1. Writes(W[d], c) /\ W[ch].slices[1] = c
        BY <2>3, <3>3
      <4> QED BY <2>2, <3>3, <4>1, Zenon DEF OneWrites
    <3>4. CASE W[ch].pc # "found" /\ W[d].pc = "found"
      <4>1. Writes(W[ch], c) /\ W[d].slices[1] = c
        BY <2>3, <3>4
      <4> QED BY <2>2, <3>4, <4>1, Zenon DEF OneWrites
    <3> QED BY <3>1, <3>2, <3>3, <3>4
  <2>5. Cardinality(Using) <= 1
    <3>1. CASE Using = {}
      <4> HIDE DEF Using
      <4>1. Cardinality(Using) = 0
        BY <3>1, FS_EmptySet, Zenon
      <4> QED BY <4>1
    <3>2. CASE Using # {}
      <4>1. PICK x : Using = {x}
        BY <2>4, <3>2
      <4> HIDE DEF Using
      <4>2. Cardinality(Using) = 1
        BY <4>1, FS_Singleton, Zenon
      <4> QED BY <4>2
    <3> QED BY <3>1, <3>2
  <2> QED BY <2>1, <2>5
<1> QED BY <1>1 DEF OneWriterPerStream

\* A stream is never used by two channels at a time, however many stations, channels, nodes and
\* scans there are and however little the pool and the connections hold: has_work looks whether
\* the stream is active and do_task marks it later, but no other channel has a slice for the
\* stream in between, as a node gets its next slice only when it has read of the present one.
THEOREM StreamsNotShared ==
  ASSUME SeveralFfts
  PROVE  Spec => []OneWriterPerStream
<1>1. SInv => OneWriterPerStream
  BY OneWriterOfInv
<1> QED BY <1>1, SupplyInvariant, PTL

\* The thread of a writer is cancelled by END_NODE only.
LEMMA CancelledByEndNode ==
  ASSUME InputNodeAssumption, SupplyAssumption, SInv, [Next]_vars,
         NEW s \in Stations, NEW ch \in Channels, writer'[s][ch].pc = "cancelled"
  PROVE  writer[s][ch].pc = "cancelled" \/ ReceiveEndNode(s)
<1>1. Types /\ InputTypes /\ WriterStates
  BY DEF SInv, Types
<1>2. CASE UNCHANGED writer
  BY <1>2
<1>3. CASE ManagerStep \/ (\E c \in Nodes : NodeStep(c)) \/ UNCHANGED vars
  BY <1>2, <1>3 DEF ManagerStep, StartNewScan, StartCorrelatorNode, EndNodes, NodeStep, Correlate,
                    Request, FinishSlice, vars, iVars
<1>4. ASSUME NEW t \in Stations, NEW d \in Channels, NEW v \in Writers, Turns(t, d, v),
             (v.pc # "cancelled" \/ v.pc = writer[t][d].pc)
      PROVE  writer[s][ch].pc = "cancelled"
  <2>1. writer \in [Stations -> [Channels -> Writers]]
    BY <1>1 DEF InputTypes
  <2>2. /\ writer'[t][d] = v
        /\ \A e \in Channels \ {d} : writer'[t][e] = writer[t][e]
        /\ \A r \in Stations \ {t} : writer'[r] = writer[r]
    <3>1. Turns(t, d, v)
      BY <1>4
    <3> QED BY <2>1, <3>1, TurnsFacts
  <2>3. CASE s = t /\ ch = d
    BY <1>4, <2>2, <2>3
  <2>4. CASE s = t /\ ch # d
    BY <2>2, <2>4
  <2>5. CASE s # t
    BY <2>2, <2>5
  <2> QED BY <2>3, <2>4, <2>5
<1>5. ASSUME NEW t \in Stations, NEW d \in Channels, WriterStep(t, d)
      PROVE  writer[s][ch].pc = "cancelled"
  <2>1. CASE FetchNextTimeInterval(t, d)
    <3>1. PICK v \in Writers :
             /\ Turns(t, d, v)
             /\ v.pc = writer[t][d].pc /\ v.slices = writer[t][d].slices
             /\ v.left = writer[t][d].left
      BY <1>1, <2>1, FetchFacts
    <3> QED BY <1>4, <3>1
  <2>2. CASE FindWork(t, d)
    <3>1. PICK v \in Writers :
             /\ Turns(t, d, v) /\ writer[t][d].pc = "idle" /\ writer[t][d].slices # <<>>
             /\ ~active[t][writer[t][d].slices[1]]
             /\ v = [writer[t][d] EXCEPT !.pc = "found"]
             /\ Found(writer[t][d], v)
      BY <1>1, <2>2, FindFacts, Zenon
    <3>2. PICK w \in Writers : w = writer[t][d]
      BY <1>1 DEF InputTypes
    <3>3. v.pc = "found"
      BY <3>1, <3>2 DEF Writers
    <3> QED BY <1>4, <3>1, <3>3
  <2>3. CASE Activate(t, d)
    <3>1. writer[t][d].slices # <<>>
      BY <1>1, <2>3 DEF Activate, WriterStates
    <3>2. PICK v \in Writers, e \in Nodes :
             /\ Turns(t, d, v) /\ writer[t][d].pc = "found" /\ v.pc = "write"
             /\ v.slices = writer[t][d].slices /\ v.left = NumberFfts
             /\ e = writer[t][d].slices[1]
             /\ active' = [active EXCEPT ![t][e] = TRUE]
             /\ Begun(writer[t][d], v)
      BY <1>1, <2>3, <3>1, ActivateFacts, Zenon
    <3> QED BY <1>4, <3>2
  <2>4. CASE SkipOldBlock(t, d)
    BY <1>2, <2>4 DEF SkipOldBlock
  <2>5. CASE WriteBlock(t, d)
    <3>1. writer[t][d].slices # <<>>
      BY <1>1, <2>5 DEF WriteBlock, WriterStates
    <3>2. PICK v \in Writers, e \in Nodes, u \in Units :
             /\ Turns(t, d, v) /\ writer[t][d].pc = "write" /\ v.pc = "write"
             /\ v.slices = writer[t][d].slices /\ e = writer[t][d].slices[1]
             /\ writer[t][d].left \in Nat /\ writer[t][d].left > 0
             /\ v.left = writer[t][d].left - 1
             /\ wire' = [wire EXCEPT ![t][e] = @ \o <<u>>]
             /\ u = Unit(d, blocks[t][d][1])
             /\ Written(writer[t][d], v)
      BY <1>1, <2>5, <3>1, WriteFacts, Zenon
    <3> QED BY <1>4, <3>2
  <2>6. CASE EndSlice(t, d)
    <3>1. writer[t][d].slices # <<>>
      BY <1>1, <2>6 DEF EndSlice, WriterStates
    <3>2. PICK v \in Writers, e \in Nodes :
             /\ Turns(t, d, v) /\ writer[t][d].pc = "write" /\ v.pc = "idle"
             /\ v.slices = Tail(writer[t][d].slices) /\ e = writer[t][d].slices[1]
             /\ writer[t][d].left = 0
             /\ wire' = [wire EXCEPT ![t][e] = Append(@, EndOfStream)]
             /\ active' = [active EXCEPT ![t][e] = FALSE]
             /\ Ended(writer[t][d], v)
      BY <1>1, <2>6, <3>1, EndFacts, Zenon
    <3>3. Turns(t, d, v) /\ v.pc = "idle"
      BY <3>2
    <3> QED BY <1>4, <3>3
  <2> QED BY <1>5, <2>1, <2>2, <2>3, <2>4, <2>5, <2>6 DEF WriterStep
<1>6. ASSUME NEW t \in Stations, MessageStep(t)
      PROVE  writer[s][ch].pc = "cancelled" \/ ReceiveEndNode(s)
  <2>1. CASE ReceiveParameters(t) \/ Terminated(t)
    BY <1>2, <2>1 DEF ReceiveParameters, Terminated
  <2>2. CASE ReceiveTimeInterval(t)
    <3>1. /\ \A r \in Stations \ {t} : writer'[r] = writer[r]
          /\ \A d \in Channels : writer'[t][d].pc = writer[t][d].pc
      BY <1>1, <2>2, IntervalFacts
    <3>2. CASE s = t
      BY <3>1, <3>2
    <3>3. CASE s # t
      BY <3>1, <3>3
    <3> QED BY <3>2, <3>3
  <2>3. CASE ReceiveTimeSlice(t)
    <3>1. PICK d \in Channels, e \in Nodes, v \in Writers :
             /\ d = Head(mail[t]).channel /\ e = Head(mail[t]).stream
             /\ Turns(t, d, v)
             /\ v.pc = writer[t][d].pc /\ v.left = writer[t][d].left
             /\ v.slices = Append(writer[t][d].slices, e)
      BY <1>1, <2>3, SliceFacts, Zenon
    <3> QED BY <1>4, <3>1
  <2>4. CASE ReceiveEndNode(t)
    <3>1. CASE s = t
      BY <2>4, <3>1
    <3>2. CASE s # t
      BY <1>1, <2>4, <3>2, CancelFacts
    <3> QED BY <3>1, <3>2
  <2> QED BY <1>6, <2>1, <2>2, <2>3, <2>4 DEF MessageStep
<1>7. ASSUME NEW t \in Stations, ReaderStep(t) PROVE writer[s][ch].pc = "cancelled"
  BY <1>2, <1>7 DEF ReaderStep, ReadBlocks, NextInterval
<1> QED BY <1>3, <1>5, <1>6, <1>7 DEF Next, InputStep

LEMMA CancelledStep ==
  ASSUME InputNodeAssumption, SupplyAssumption, SInv, [Next]_vars,
         NEW s \in Stations, NEW ch \in Channels, writer'[s][ch].pc = "cancelled"
  PROVE  writer[s][ch].pc \in {"idle", "cancelled"} /\ writer[s][ch].slices = <<>>
<1>1. CASE writer[s][ch].pc = "cancelled"
  BY <1>1 DEF SInv, WriterStates
<1>2. CASE ReceiveEndNode(s)
  <2>1. PICK M \in Seq(Messages) :
          M = mail[s] /\ M # <<>> /\ M[1].type = "END_NODE" /\ 1 \in DOMAIN M
    BY <1>2 DEF ReceiveEndNode, Takes, SInv, Types, InputTypes
  <2>2. \A c \in Nodes : handed[c] = <<>>
    BY <2>1 DEF SInv, Endings, HasEnd
  <2> QED BY <2>2, NothingOwed DEF SInv
<1> QED BY <1>1, <1>2, CancelledByEndNode

\* A writer is cancelled when it has no slice left to write, although END_NODE cancels its thread
\* wherever it is: the manager sends it only when all nodes have read all data of their slices,
\* and what is owed on a stream is never less than what its writer still has to put on it.
THEOREM NothingCutOff ==
  ASSUME SeveralFfts
  PROVE  Spec => CancelledIdle
<1>1. SInv /\ [Next]_vars =>
        [\A s \in Stations, ch \in Channels :
           writer'[s][ch].pc = "cancelled" =>
             writer[s][ch].pc \in {"idle", "cancelled"} /\ writer[s][ch].slices = <<>>]_vars
  BY InputNodeAssumption, SupplyAssumption, CancelledStep
<1> QED BY <1>1, SupplyInvariant, PTL DEF Spec, CancelledIdle
=============================================================================
