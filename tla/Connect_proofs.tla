--------------------------- MODULE Connect_proofs ---------------------------
(***************************************************************************)
(* Proof that every stream is connected to the one the manager meant, for  *)
(* any number of stations and correlator nodes, crossed polarisations or   *)
(* not, and any order in which messages and connections come in.           *)
(***************************************************************************)
EXTENDS Connect, FiniteSetTheorems, SequenceTheorems, WellFoundedInduction, TLAPS

-----------------------------------------------------------------------------
Less == {ss \in Nat \X Nat : ss[1] < ss[2]}

\* A non-empty set of naturals has a least element.
LEMMA LeastNatural ==
  ASSUME NEW T \in SUBSET Nat, T # {}
  PROVE  \E x \in T : \A y \in T : x <= y
<1>1. IsWellFoundedOn(Less, Nat)
  BY NatLessThanWellFounded, Zenon DEF OpToRel, Less
<1>2. PICK x \in T : \A y \in T : <<y, x>> \notin Less
  BY <1>1, WFMin
<1>3. ASSUME NEW y \in T PROVE x <= y
  <2>1. y < x => <<y, x>> \in Less
    <3> DEFINE s == <<y, x>>
    <3>1. s \in Nat \X Nat /\ s[1] = y /\ s[2] = x
      OBVIOUS
    <3> QED BY <3>1 DEF Less
  <2>2. x \in Nat /\ y \in Nat
    OBVIOUS
  <2> QED BY <1>2, <2>1, <2>2
<1> QED BY <1>3

\* A flattened sequence of pieces stays within Q when each piece takes it from Q[i - 1] to Q[i].
LEMMA FlattenIn ==
  ASSUME NEW n \in Nat \ {0}, NEW p, NEW Q, Len(p) = n,
         p[1] \in Q[1], \A i \in 2 .. n : \A a \in Q[i - 1] : a \o p[i] \in Q[i]
  PROVE  FlattenSeq(p) \in Q[n]
<1> DEFINE Flat(m, f) == f = [i \in 1 .. m |-> IF i = 1 THEN p[i] ELSE f[i - 1] \o p[i]]
           Bad == {m \in Nat : ~ \E f : Flat(m, f)}
<1>1. Bad = {}
  <2> SUFFICES ASSUME Bad # {} PROVE FALSE
    OBVIOUS
  <2>1. PICK m \in Bad : \A k \in Bad : m <= k
    <3>1. Bad \subseteq Nat
      OBVIOUS
    <3> HIDE DEF Bad
    <3> QED BY <3>1, LeastNatural
  <2>2. m # 0
    <3>1. Flat(0, [i \in {} |-> 0])
      OBVIOUS
    <3> QED BY <3>1
  <2>3. m \in Nat /\ m - 1 \in Nat /\ m - 1 \notin Bad
    <3>1. Bad \subseteq Nat
      OBVIOUS
    <3> HIDE DEF Bad
    <3>2. m \in Nat /\ m - 1 \in Nat
      BY <2>2, <3>1
    <3> QED BY <2>1, <3>2
  <2>4. PICK f : Flat(m - 1, f)
    BY <2>3
  <2> DEFINE g == [i \in 1 .. m |-> IF i = 1 THEN p[i] ELSE f[i - 1] \o p[i]]
  <2>5. ASSUME NEW i \in 1 .. m - 1 PROVE g[i] = f[i]
    <3>1. f[i] = IF i = 1 THEN p[i] ELSE f[i - 1] \o p[i]
      BY <2>4, Zenon
    <3>2. i \in 1 .. m
      BY <2>3
    <3> QED BY <3>1, <3>2, Zenon
  <2>6. Flat(m, g)
    <3>1. \A i \in 1 .. m : i # 1 => i - 1 \in 1 .. m - 1
      BY <2>3
    <3>2. \A i \in 1 .. m : i # 1 => g[i - 1] = f[i - 1]
      <4> HIDE DEF g
      <4> QED BY <2>5, <3>1
    <3>3. \A i \in 1 .. m :
            (IF i = 1 THEN p[i] ELSE f[i - 1] \o p[i]) = (IF i = 1 THEN p[i] ELSE g[i - 1] \o p[i])
      <4> HIDE DEF g
      <4> QED BY <3>2, Zenon
    <3> QED BY <3>3, Zenon
  <2> QED BY <2>1, <2>6
<1>2. PICK f : Flat(n, f) /\ FlattenSeq(p) = f[n]
  <2>1. \E f : Flat(n, f)
    <3>1. n \notin Bad
      BY <1>1
    <3> QED BY <3>1
  <2> DEFINE F == CHOOSE f : Flat(n, f)
  <2>2. Flat(n, F)
    BY <2>1
  <2>3. FlattenSeq(p) = F[n]
    BY DEF FlattenSeq
  <2> QED BY <2>2, <2>3
<1> DEFINE Out == {i \in 1 .. n : f[i] \notin Q[i]}
<1>3. Out = {}
  <2> SUFFICES ASSUME Out # {} PROVE FALSE
    OBVIOUS
  <2>1. PICK i \in Out : \A k \in Out : i <= k
    <3>1. Out \subseteq Nat
      OBVIOUS
    <3> HIDE DEF Out
    <3> QED BY <3>1, LeastNatural
  <2>2. CASE i = 1
    BY <1>2, <2>1, <2>2
  <2>3. CASE i # 1
    <3>1. i \in 2 .. n /\ i - 1 \in 1 .. n /\ i - 1 \notin Out
      BY <2>1, <2>3
    <3>2. f[i - 1] \in Q[i - 1]
      BY <3>1
    <3>3. f[i] = f[i - 1] \o p[i]
      BY <1>2, <3>1
    <3>4. f[i] \in Q[i]
      BY <3>1, <3>2, <3>3
    <3> QED BY <2>1, <3>4
  <2> QED BY <2>2, <2>3
<1>4. n \in 1 .. n
  OBVIOUS
<1> QED BY <1>2, <1>3, <1>4

-----------------------------------------------------------------------------
(* What the manager may ask. *)

CorrelatorNumbers == 0 .. NumberCorrelators - 1
ReaderRequest(nr, s, time) ==
  [writer |-> Input(s), stream |-> nr + time * NumberCorrelators,
   reader |-> Correlator(nr), readerStream |-> s + time * NumberStations]
WriterRequest(nr) ==
  [writer |-> Correlator(nr), stream |-> 0, reader |-> Output, readerStream |-> nr]
ReaderRequests ==
  {ReaderRequest(nr, s, time) :
     nr \in CorrelatorNumbers, s \in StationNumbers, time \in 0 .. Times - 1}
WriterRequests == {WriterRequest(nr) : nr \in CorrelatorNumbers}
AllRequests == ReaderRequests \cup WriterRequests

\* The correlator node that connects, and the node that accepts.
Asker(c) == IF c.reader = Output THEN c.writer ELSE c.reader
Peer(c) == IF c.reader = Output THEN Output ELSE c.writer

\* Nodes and numbers.
LEMMA Numbers ==
  ASSUME ConnectAssumption
  PROVE  /\ NumberStations \in Nat \ {0} /\ NumberCorrelators \in Nat \ {0} /\ Times \in {1, 2}
         /\ StationNumbers \subseteq Nat /\ CorrelatorNumbers \subseteq Nat
         /\ Listeners \subseteq Nat /\ Correlators \subseteq Nat /\ Nodes \subseteq Nat
         /\ Output \in Listeners /\ Listeners \cap Correlators = {}
         /\ Listeners \subseteq Nodes /\ Correlators \subseteq Nodes /\ 0 \notin Nodes
<1>1. NumberStations \in Nat \ {0} /\ NumberCorrelators \in Nat \ {0} /\ Times \in {1, 2}
  BY DEF ConnectAssumption, Times
<1> QED BY <1>1 DEF StationNumbers, CorrelatorNumbers, Listeners, Correlators, Nodes, Output, Input,
             Correlator

LEMMA InputFacts ==
  ASSUME ConnectAssumption
  PROVE  /\ \A s \in StationNumbers : Input(s) \in Listeners \ {Output}
         /\ \A n \in Listeners \ {Output} : \E s \in StationNumbers : n = Input(s)
         /\ \A s, t \in StationNumbers : Input(s) = Input(t) => s = t
BY Numbers DEF Listeners, StationNumbers, Input, Output

LEMMA CorrelatorFacts ==
  ASSUME ConnectAssumption
  PROVE  /\ \A k \in CorrelatorNumbers : Correlator(k) \in Correlators /\ Correlator(k) - Correlator(0) = k
         /\ \A n \in Correlators : \E k \in CorrelatorNumbers : n = Correlator(k)
         /\ \A j, k \in CorrelatorNumbers : Correlator(j) = Correlator(k) => j = k
BY Numbers DEF Correlators, CorrelatorNumbers, Correlator

\* A stream number tells the time and the node.
LEMMA StreamNumber ==
  ASSUME NEW n \in Nat \ {0}, NEW a \in 0 .. n - 1, NEW b \in 0 .. n - 1, NEW t \in {0, 1}, NEW u \in {0, 1},
         a + t * n = b + u * n
  PROVE  a = b /\ t = u
<1>1. CASE t = 0 /\ u = 0
  BY <1>1
<1>2. CASE t = 1 /\ u = 1
  BY <1>2
<1>3. CASE t = 0 /\ u = 1
  BY <1>3
<1>4. CASE t = 1 /\ u = 0
  BY <1>4
<1> QED BY <1>1, <1>2, <1>3, <1>4

LEMMA TimeFacts ==
  ASSUME ConnectAssumption
  PROVE  \A t \in 0 .. Times - 1 : t \in {0, 1}
BY Numbers

\* A request of a reader.
LEMMA ReaderFacts ==
  ASSUME ConnectAssumption, NEW c \in ReaderRequests
  PROVE  /\ c.reader \in Correlators /\ c.reader # Output /\ c.writer \in Listeners \ {Output}
         /\ Asker(c) = c.reader /\ Peer(c) = c.writer
<1>1. PICK nr \in CorrelatorNumbers, s \in StationNumbers, time \in 0 .. Times - 1 :
        c = ReaderRequest(nr, s, time)
  BY DEF ReaderRequests
<1>2. c.reader = Correlator(nr) /\ c.writer = Input(s)
  BY <1>1 DEF ReaderRequest
<1>3. c.reader \in Correlators /\ c.writer \in Listeners \ {Output}
  BY <1>2, InputFacts, CorrelatorFacts
<1>4. c.reader # Output
  BY <1>3, Numbers
<1> QED BY <1>3, <1>4 DEF Asker, Peer

LEMMA WriterFacts ==
  ASSUME ConnectAssumption, NEW c \in WriterRequests
  PROVE  /\ c.reader = Output /\ c.writer \in Correlators /\ c.stream = 0
         /\ Asker(c) = c.writer /\ Peer(c) = Output
<1>1. PICK nr \in CorrelatorNumbers : c = WriterRequest(nr)
  BY DEF WriterRequests
<1>2. c.reader = Output /\ c.writer = Correlator(nr) /\ c.stream = 0
  BY <1>1 DEF WriterRequest
<1> QED BY <1>2, CorrelatorFacts DEF Asker, Peer

Connections == [writer : Int, stream : Int, reader : Int, readerStream : Int]

LEMMA RequestFacts ==
  ASSUME ConnectAssumption
  PROVE  \A c \in AllRequests :
           /\ c \in Connections /\ Asker(c) \in Correlators /\ Peer(c) \in Listeners
           /\ c.reader = Output =>
                /\ c \in WriterRequests /\ c.writer \in Correlators /\ c.stream = 0
                /\ Asker(c) = c.writer /\ Peer(c) = Output
           /\ c.reader # Output =>
                /\ c \in ReaderRequests /\ c.reader \in Correlators /\ c.writer \in Listeners \ {Output}
                /\ Asker(c) = c.reader /\ Peer(c) = c.writer
<1> SUFFICES ASSUME NEW c \in AllRequests
             PROVE  /\ c \in Connections /\ Asker(c) \in Correlators /\ Peer(c) \in Listeners
                    /\ c.reader = Output =>
                         /\ c \in WriterRequests /\ c.writer \in Correlators /\ c.stream = 0
                         /\ Asker(c) = c.writer /\ Peer(c) = Output
                    /\ c.reader # Output =>
                         /\ c \in ReaderRequests /\ c.reader \in Correlators /\ c.writer \in Listeners \ {Output}
                         /\ Asker(c) = c.reader /\ Peer(c) = c.writer
  OBVIOUS
<1>1. CASE c \in ReaderRequests
  <2>1. PICK nr \in CorrelatorNumbers, s \in StationNumbers, time \in 0 .. Times - 1 :
          c = ReaderRequest(nr, s, time)
    BY <1>1 DEF ReaderRequests
  <2>2. time \in {0, 1} /\ nr \in Nat /\ s \in Nat
    BY TimeFacts, Numbers
  <2>3. nr + time * NumberCorrelators \in Int /\ s + time * NumberStations \in Int
    BY <2>2, Numbers
  <2>4. Input(s) \in Int /\ Correlator(nr) \in Int
    BY InputFacts, CorrelatorFacts, Numbers
  <2>5. c \in Connections
    BY <2>1, <2>3, <2>4 DEF ReaderRequest, Connections
  <2> QED BY <1>1, <2>5, ReaderFacts
<1>2. CASE c \in WriterRequests
  <2>1. PICK nr \in CorrelatorNumbers : c = WriterRequest(nr)
    BY <1>2 DEF WriterRequests
  <2>2. Correlator(nr) \in Int /\ nr \in Int /\ Output \in Int
    BY CorrelatorFacts, Numbers DEF Output
  <2>3. c \in Connections
    BY <2>1, <2>2 DEF WriterRequest, Connections
  <2> QED BY <1>2, <2>3, WriterFacts, Numbers
<1> QED BY <1>1, <1>2 DEF AllRequests

\* A stream of the asker, or of its peer, is that of one connection.
LEMMA OneConnection ==
  ASSUME ConnectAssumption
  PROVE  /\ \A c, d \in ReaderRequests :
              c.reader = d.reader /\ c.readerStream = d.readerStream => c = d
         /\ \A c, d \in ReaderRequests :
              c.writer = d.writer /\ c.stream = d.stream => c = d
         /\ \A c, d \in WriterRequests : c.writer = d.writer \/ c.readerStream = d.readerStream => c = d
<1>1. ASSUME NEW c \in ReaderRequests, NEW d \in ReaderRequests,
             \/ c.reader = d.reader /\ c.readerStream = d.readerStream
             \/ c.writer = d.writer /\ c.stream = d.stream
      PROVE  c = d
  <2>1. PICK nr \in CorrelatorNumbers, s \in StationNumbers, time \in 0 .. Times - 1 :
          c = ReaderRequest(nr, s, time)
    BY DEF ReaderRequests
  <2>2. PICK mr \in CorrelatorNumbers, t \in StationNumbers, other \in 0 .. Times - 1 :
          d = ReaderRequest(mr, t, other)
    BY DEF ReaderRequests
  <2>3. /\ c.reader = Correlator(nr) /\ c.readerStream = s + time * NumberStations
        /\ c.writer = Input(s) /\ c.stream = nr + time * NumberCorrelators
        /\ d.reader = Correlator(mr) /\ d.readerStream = t + other * NumberStations
        /\ d.writer = Input(t) /\ d.stream = mr + other * NumberCorrelators
    BY <2>1, <2>2 DEF ReaderRequest
  <2>4. time \in {0, 1} /\ other \in {0, 1}
    BY TimeFacts
  <2>5. /\ nr \in 0 .. NumberCorrelators - 1 /\ mr \in 0 .. NumberCorrelators - 1
        /\ s \in 0 .. NumberStations - 1 /\ t \in 0 .. NumberStations - 1
    BY DEF CorrelatorNumbers, StationNumbers
  <2>6. CASE c.reader = d.reader /\ c.readerStream = d.readerStream
    <3>1. nr = mr
      BY <2>3, <2>6, CorrelatorFacts
    <3>2. s = t /\ time = other
      BY <2>3, <2>4, <2>5, <2>6, StreamNumber, Numbers
    <3> QED BY <3>1, <3>2, <2>1, <2>2
  <2>7. CASE c.writer = d.writer /\ c.stream = d.stream
    <3>1. s = t
      BY <2>3, <2>7, InputFacts
    <3>2. nr = mr /\ time = other
      BY <2>3, <2>4, <2>5, <2>7, StreamNumber, Numbers
    <3> QED BY <3>1, <3>2, <2>1, <2>2
  <2> QED BY <1>1, <2>6, <2>7
<1>2. ASSUME NEW c \in WriterRequests, NEW d \in WriterRequests,
             c.writer = d.writer \/ c.readerStream = d.readerStream
      PROVE  c = d
  <2>1. PICK nr \in CorrelatorNumbers : c = WriterRequest(nr)
    BY DEF WriterRequests
  <2>2. PICK mr \in CorrelatorNumbers : d = WriterRequest(mr)
    BY DEF WriterRequests
  <2>3. /\ c.writer = Correlator(nr) /\ c.readerStream = nr
        /\ d.writer = Correlator(mr) /\ d.readerStream = mr
    BY <2>1, <2>2 DEF WriterRequest
  <2>4. nr = mr
    BY <1>2, <2>3, CorrelatorFacts
  <2> QED BY <2>1, <2>2, <2>4
<1> QED BY <1>1, <1>2

\* There are no more connections than MPI_Waitall waits for.
LEMMA RequestCount ==
  ASSUME ConnectAssumption
  PROVE  IsFiniteSet(AllRequests) /\ Cardinality(AllRequests) <= Requests /\ Requests \in Nat
<1> DEFINE Triples == CorrelatorNumbers \X (StationNumbers \X (0 .. Times - 1))
           OfReader == [p \in Triples |-> ReaderRequest(p[1], p[2][1], p[2][2])]
           OfWriter == [nr \in CorrelatorNumbers |-> WriterRequest(nr)]
<1>1. /\ IsFiniteSet(CorrelatorNumbers) /\ Cardinality(CorrelatorNumbers) = NumberCorrelators
      /\ IsFiniteSet(StationNumbers) /\ Cardinality(StationNumbers) = NumberStations
      /\ IsFiniteSet(0 .. Times - 1) /\ Cardinality(0 .. Times - 1) = Times
  <2>1. ASSUME NEW n \in Nat \ {0}
        PROVE  IsFiniteSet(0 .. n - 1) /\ Cardinality(0 .. n - 1) = n
    <3>1. 0 \in Int /\ n - 1 \in Int /\ ~ (0 > n - 1) /\ (n - 1) - 0 + 1 = n
      OBVIOUS
    <3>2. /\ IsFiniteSet(0 .. n - 1)
          /\ Cardinality(0 .. n - 1) = IF 0 > n - 1 THEN 0 ELSE (n - 1) - 0 + 1
      BY <3>1, FS_Interval
    <3> QED BY <3>1, <3>2
  <2>2. NumberStations \in Nat \ {0} /\ NumberCorrelators \in Nat \ {0} /\ Times \in Nat \ {0}
    BY Numbers
  <2> QED BY <2>1, <2>2 DEF CorrelatorNumbers, StationNumbers
<1>2. /\ IsFiniteSet(StationNumbers \X (0 .. Times - 1))
      /\ Cardinality(StationNumbers \X (0 .. Times - 1)) = NumberStations * Times
  BY <1>1, FS_Product
<1>3. IsFiniteSet(Triples) /\ Cardinality(Triples) = NumberCorrelators * (NumberStations * Times)
  <2>1. PICK P : P = StationNumbers \X (0 .. Times - 1)
    OBVIOUS
  <2>2. IsFiniteSet(P) /\ Cardinality(P) = NumberStations * Times
    BY <1>2, <2>1, Zenon
  <2>3. IsFiniteSet(CorrelatorNumbers) /\ Cardinality(CorrelatorNumbers) = NumberCorrelators
    BY <1>1
  <2>4. /\ IsFiniteSet(CorrelatorNumbers \X P)
        /\ Cardinality(CorrelatorNumbers \X P) = Cardinality(CorrelatorNumbers) * Cardinality(P)
    BY <2>2, <2>3, FS_Product, Zenon
  <2>5. Triples = CorrelatorNumbers \X P
    BY <2>1, Zenon
  <2> HIDE DEF Triples
  <2> QED BY <2>2, <2>3, <2>4, <2>5, Zenon
<1>4. IsFiniteSet(ReaderRequests) /\ Cardinality(ReaderRequests) <= Cardinality(Triples)
  <2>1. OfReader \in Surjection(Triples, ReaderRequests)
    <3>1. ASSUME NEW p \in Triples PROVE OfReader[p] \in ReaderRequests
      <4>1. p[1] \in CorrelatorNumbers /\ p[2][1] \in StationNumbers /\ p[2][2] \in 0 .. Times - 1
        OBVIOUS
      <4>2. OfReader[p] = ReaderRequest(p[1], p[2][1], p[2][2])
        OBVIOUS
      <4> QED BY <4>1, <4>2 DEF ReaderRequests
    <3>2. ASSUME NEW c \in ReaderRequests PROVE \E p \in Triples : OfReader[p] = c
      <4>1. PICK nr \in CorrelatorNumbers, s \in StationNumbers, time \in 0 .. Times - 1 :
              c = ReaderRequest(nr, s, time)
        BY DEF ReaderRequests
      <4> DEFINE p == <<nr, <<s, time>>>>
      <4>2. p \in Triples /\ p[1] = nr /\ p[2][1] = s /\ p[2][2] = time
        OBVIOUS
      <4> QED BY <4>1, <4>2
    <3> QED BY <3>1, <3>2 DEF Surjection
  <2> QED BY <1>3, <2>1, FS_Surjection
<1>5. IsFiniteSet(WriterRequests) /\ Cardinality(WriterRequests) <= NumberCorrelators
  <2>1. OfWriter \in Surjection(CorrelatorNumbers, WriterRequests)
    BY DEF Surjection, WriterRequests
  <2> QED BY <1>1, <2>1, FS_Surjection
<1>6. /\ IsFiniteSet(AllRequests)
      /\ Cardinality(AllRequests) =
           Cardinality(ReaderRequests) + Cardinality(WriterRequests)
             - Cardinality(ReaderRequests \cap WriterRequests)
  BY <1>4, <1>5, FS_Union DEF AllRequests
<1>7. /\ Cardinality(ReaderRequests) \in Nat /\ Cardinality(WriterRequests) \in Nat
      /\ Cardinality(ReaderRequests \cap WriterRequests) \in Nat
  <2>1. ReaderRequests \cap WriterRequests \in SUBSET ReaderRequests
    OBVIOUS
  <2>2. IsFiniteSet(ReaderRequests \cap WriterRequests)
    BY <1>4, <2>1, FS_Subset
  <2> QED BY <1>4, <1>5, <2>2, FS_CardinalityType
<1>8. PICK m \in Nat : m = NumberStations * Times
  BY Numbers
<1>9. NumberCorrelators * (m + 1) = NumberCorrelators * m + NumberCorrelators /\ NumberCorrelators * m \in Nat
  BY Numbers
<1>10. Requests = NumberCorrelators * m + NumberCorrelators
  BY <1>8, <1>9 DEF Requests
<1>11. Cardinality(ReaderRequests) <= NumberCorrelators * m
  BY <1>3, <1>4, <1>8
<1> QED BY <1>5, <1>6, <1>7, <1>9, <1>10, <1>11, Numbers

-----------------------------------------------------------------------------
(* What the manager does. *)

Connects == {"connect_reader", "connect_writer"}
Firsts == {"slice", "parameters"}
Commands == {"start", "wait_all", "open"} \cup Connects \cup Firsts
Entries == [do : Commands, rank : Int, info : Connections]

\* An entry of the script, and the node it is for.
Sensible(e) ==
  \/ e.do = "start" /\ e.rank \in Nodes
  \/ e.do = "connect_reader" /\ e.rank \in Correlators /\ e.info \in ReaderRequests /\ e.info.reader = e.rank
  \/ e.do = "connect_writer" /\ e.rank \in Correlators /\ e.info \in WriterRequests /\ e.info.writer = e.rank
  \/ e.do = "wait_all"
  \/ e.do = "open" /\ e.rank \in Listeners
  \/ /\ e.do = "slice" /\ e.rank \in Listeners \ {Output}
     /\ e.info.stream \in 0 .. NumberCorrelators * Times - 1
  \/ e.do = "parameters" /\ e.rank \in Correlators

\* Each connection is asked for once, and slices come behind the wait.
Once(s) ==
  \A i, j \in DOMAIN s : s[i].do \in Connects /\ s[j].do \in Connects /\ s[i].info = s[j].info => i = j
WaitFirst(s) ==
  \A i, j \in DOMAIN s : s[i].do = "wait_all" /\ s[j].do \in Firsts => i < j

\* Parts of the script that do only what is in D, and ask for connections of R.
Part(D, R) ==
  {s \in Seq(Entries) :
     /\ \A i \in DOMAIN s : Sensible(s[i]) /\ s[i].do \in D /\ (s[i].do \in Connects => s[i].info \in R)
     /\ Once(s)}

LEMMA PartWider ==
  ASSUME NEW D, NEW R, NEW E, NEW S, D \subseteq E, R \subseteq S, NEW s \in Part(D, R)
  PROVE  s \in Part(E, S)
BY DEF Part

LEMMA PartOne ==
  ASSUME NEW D, NEW R, NEW e \in Entries, Sensible(e), e.do \in D, e.do \in Connects => e.info \in R
  PROVE  <<e>> \in Part(D, R)
<1>1. <<e>> \in Seq(Entries) /\ Len(<<e>>) = 1 /\ DOMAIN <<e>> = {1} /\ <<e>>[1] = e
  OBVIOUS
<1> DEFINE s == <<e>>
<1> HIDE DEF s
<1>2. s \in Seq(Entries) /\ DOMAIN s = {1} /\ s[1] = e
  BY <1>1 DEF s
<1>3. Once(s)
  BY <1>2 DEF Once
<1>4. s \in Part(D, R)
  BY <1>2, <1>3 DEF Part
<1> QED BY <1>4 DEF s

\* The elements of u = s \o t.
Joined(u, s, t) ==
  /\ u = s \o t /\ DOMAIN u \subseteq Nat /\ Len(s) \in Nat
  /\ \A i \in DOMAIN u :
       /\ i <= Len(s) => i \in DOMAIN s /\ u[i] = s[i]
       /\ ~ i <= Len(s) => i \notin DOMAIN s /\ i - Len(s) \in DOMAIN t /\ u[i] = t[i - Len(s)]

LEMMA ConcatFacts ==
  ASSUME NEW S, NEW s \in Seq(S), NEW t \in Seq(S)
  PROVE  \E u \in Seq(S) : Joined(u, s, t)
<1>1. /\ s \o t \in Seq(S) /\ Len(s \o t) = Len(s) + Len(t)
      /\ \A i \in 1 .. Len(s) + Len(t) : (s \o t)[i] = IF i <= Len(s) THEN s[i] ELSE t[i - Len(s)]
  BY ConcatProperties
<1>2. PICK u \in Seq(S) : u = s \o t
  BY <1>1
<1>3. PICK m \in Nat, n \in Nat : m = Len(s) /\ n = Len(t)
  BY LenProperties
<1>4. DOMAIN s = 1 .. m /\ DOMAIN t = 1 .. n /\ DOMAIN u = 1 .. m + n
  BY <1>1, <1>2, <1>3, LenProperties
<1>5. \A i \in 1 .. m + n : u[i] = IF i <= m THEN s[i] ELSE t[i - m]
  BY <1>1, <1>2, <1>3
<1>6. ASSUME NEW i \in 1 .. m + n
      PROVE  /\ i <= m => i \in 1 .. m /\ u[i] = s[i]
             /\ ~ i <= m => i \notin 1 .. m /\ i - m \in 1 .. n /\ u[i] = t[i - m]
  BY <1>5
<1>7. 1 .. m + n \subseteq Nat
  OBVIOUS
<1> QED BY <1>2, <1>3, <1>4, <1>6, <1>7 DEF Joined

LEMMA PartConcat ==
  ASSUME NEW D, NEW R, NEW S, NEW s \in Part(D, R), NEW t \in Part(D, S), R \cap S = {}
  PROVE  s \o t \in Part(D, R \cup S)
<1>1. /\ s \in Seq(Entries) /\ t \in Seq(Entries) /\ Once(s) /\ Once(t)
      /\ \A i \in DOMAIN s : Sensible(s[i]) /\ s[i].do \in D /\ (s[i].do \in Connects => s[i].info \in R)
      /\ \A i \in DOMAIN t : Sensible(t[i]) /\ t[i].do \in D /\ (t[i].do \in Connects => t[i].info \in S)
  BY DEF Part
<1> PICK u \in Seq(Entries) : Joined(u, s, t)
  BY <1>1, ConcatFacts
<1>2. /\ u = s \o t /\ DOMAIN u \subseteq Nat /\ Len(s) \in Nat
      /\ \A i \in DOMAIN u :
           /\ i <= Len(s) => i \in DOMAIN s /\ u[i] = s[i]
           /\ ~ i <= Len(s) => i \notin DOMAIN s /\ i - Len(s) \in DOMAIN t /\ u[i] = t[i - Len(s)]
  BY DEF Joined
<1>4. ASSUME NEW i \in DOMAIN u
      PROVE  \/ i \in DOMAIN s /\ u[i] = s[i]
             \/ i - Len(s) \in DOMAIN t /\ u[i] = t[i - Len(s)] /\ i \notin DOMAIN s
  BY <1>2
<1>5. ASSUME NEW i \in DOMAIN u
      PROVE  Sensible(u[i]) /\ u[i].do \in D /\ (u[i].do \in Connects => u[i].info \in R \cup S)
  <2>1. CASE i \in DOMAIN s /\ u[i] = s[i]
    BY <1>1, <2>1
  <2>2. CASE i - Len(s) \in DOMAIN t /\ u[i] = t[i - Len(s)]
    BY <1>1, <2>2
  <2> QED BY <1>4, <2>1, <2>2
<1>6. ASSUME NEW i \in DOMAIN u, NEW j \in DOMAIN u,
             u[i].do \in Connects, u[j].do \in Connects, u[i].info = u[j].info
      PROVE  i = j
  <2>1. CASE i \in DOMAIN s /\ u[i] = s[i] /\ j \in DOMAIN s /\ u[j] = s[j]
    BY <1>1, <1>6, <2>1 DEF Once
  <2>2. CASE /\ i - Len(s) \in DOMAIN t /\ u[i] = t[i - Len(s)]
             /\ j - Len(s) \in DOMAIN t /\ u[j] = t[j - Len(s)]
    <3>1. i - Len(s) = j - Len(s)
      BY <1>1, <1>6, <2>2 DEF Once
    <3>2. i \in Nat /\ j \in Nat
      BY <1>2
    <3> QED BY <1>2, <3>1, <3>2
  <2>3. CASE i \in DOMAIN s /\ u[i] = s[i] /\ j - Len(s) \in DOMAIN t /\ u[j] = t[j - Len(s)]
    BY <1>1, <1>6, <2>3
  <2>4. CASE j \in DOMAIN s /\ u[j] = s[j] /\ i - Len(s) \in DOMAIN t /\ u[i] = t[i - Len(s)]
    BY <1>1, <1>6, <2>4
  <2> QED BY <1>4, <2>1, <2>2, <2>3, <2>4
<1>7. Once(u)
  BY <1>6 DEF Once
<1> QED BY <1>2, <1>5, <1>7 DEF Part

\* The requests of n parts of the script.
Together(n, R) == UNION {R[j] : j \in 0 .. n - 1}

LEMMA PartEach ==
  ASSUME NEW n \in Nat \ {0}, NEW D, NEW R, NEW p \in [1 .. n -> Seq(Entries)],
         \A i \in 1 .. n : p[i] \in Part(D, R[i - 1]),
         \A j, k \in 0 .. n - 1 : j # k => R[j] \cap R[k] = {}
  PROVE  FlattenSeq(p) \in Part(D, Together(n, R))
<1> DEFINE Upto(i) == UNION {R[j] : j \in 0 .. i - 1}
           Q == [i \in 1 .. n |-> Part(D, Upto(i))]
<1>1. p[1] \in Q[1]
  <2>1. 1 \in 1 .. n /\ p[1] \in Part(D, R[1 - 1]) /\ 1 - 1 = 0 /\ 0 .. 0 = {0}
    OBVIOUS
  <2>2. p[1] \in Part(D, R[0])
    BY <2>1
  <2>3. Upto(1) = R[0]
    BY <2>1
  <2> QED BY <2>1, <2>2, <2>3
<1>2. ASSUME NEW i \in 2 .. n, NEW a \in Q[i - 1] PROVE a \o p[i] \in Q[i]
  <2>1. i \in 1 .. n /\ i - 1 \in 1 .. n /\ i - 1 \in 0 .. n - 1
    OBVIOUS
  <2>2. a \in Part(D, Upto(i - 1)) /\ p[i] \in Part(D, R[i - 1])
    BY <2>1
  <2>3. Upto(i - 1) \cap R[i - 1] = {}
    <3>1. \A j \in 0 .. (i - 1) - 1 : j \in 0 .. n - 1 /\ j # i - 1
      OBVIOUS
    <3>2. \A j \in 0 .. (i - 1) - 1 : R[j] \cap R[i - 1] = {}
      BY <2>1, <3>1
    <3> QED BY <3>2
  <2>4. Upto(i) = Upto(i - 1) \cup R[i - 1]
    <3>1. 0 .. i - 1 = (0 .. (i - 1) - 1) \cup {i - 1}
      BY <2>1
    <3>2. ASSUME NEW J, NEW K, NEW k, J = K \cup {k}
          PROVE  UNION {R[j] : j \in J} = (UNION {R[j] : j \in K}) \cup R[k]
      BY <3>2
    <3> QED BY <3>1, <3>2
  <2> HIDE DEF Upto
  <2>5. a \o p[i] \in Part(D, Upto(i - 1) \cup R[i - 1])
    BY <2>2, <2>3, PartConcat
  <2> QED BY <2>1, <2>4, <2>5
<1>3. FlattenSeq(p) \in Q[n]
  <2>2. Len(p) = n
    OBVIOUS
  <2> HIDE DEF Q
  <2> QED BY <1>1, <1>2, <2>2, FlattenIn
<1> QED BY <1>3 DEF Together

LEMMA EntryFacts ==
  \A r \in Int, c \in Connections :
    /\ [do |-> "start", rank |-> r, info |-> c] \in Entries
    /\ [do |-> "connect_reader", rank |-> r, info |-> c] \in Entries
    /\ [do |-> "connect_writer", rank |-> r, info |-> c] \in Entries
    /\ [do |-> "wait_all", rank |-> r, info |-> c] \in Entries
    /\ [do |-> "open", rank |-> r, info |-> c] \in Entries
    /\ [do |-> "slice", rank |-> r, info |-> c] \in Entries
    /\ [do |-> "parameters", rank |-> r, info |-> c] \in Entries
BY DEF Entries, Commands, Connects, Firsts

\* The manager waits for the connections.
Waits(s) == \E i \in DOMAIN s : s[i].do = "wait_all"

LEMMA WaitWithin ==
  ASSUME NEW s \in Seq(Entries), NEW t \in Seq(Entries), Waits(s) \/ Waits(t)
  PROVE  Waits(s \o t)
<1>1. /\ s \o t \in Seq(Entries) /\ Len(s \o t) = Len(s) + Len(t)
      /\ \A i \in 1 .. Len(s) + Len(t) : (s \o t)[i] = IF i <= Len(s) THEN s[i] ELSE t[i - Len(s)]
  BY ConcatProperties
<1>2. PICK u \in Seq(Entries) : u = s \o t
  BY <1>1
<1>3. PICK m \in Nat, n \in Nat : m = Len(s) /\ n = Len(t)
  BY LenProperties
<1>4. DOMAIN s = 1 .. m /\ DOMAIN t = 1 .. n /\ DOMAIN u = 1 .. m + n
  BY <1>1, <1>2, <1>3, LenProperties
<1>5. \A i \in 1 .. m + n : u[i] = IF i <= m THEN s[i] ELSE t[i - m]
  BY <1>1, <1>2, <1>3
<1>6. ASSUME NEW i \in 1 .. m PROVE i \in 1 .. m + n /\ u[i] = s[i]
  BY <1>5
<1>7. ASSUME NEW i \in 1 .. n PROVE i + m \in 1 .. m + n /\ u[i + m] = t[i]
  <2>1. i + m \in 1 .. m + n /\ ~ (i + m <= m) /\ (i + m) - m = i
    OBVIOUS
  <2> QED BY <1>5, <2>1
<1>8. Waits(u)
  BY <1>4, <1>6, <1>7 DEF Waits
<1> QED BY <1>2, <1>8

LEMMA StartOfJob ==
  ASSUME ConnectAssumption
  PROVE  StartNodes \in Part({"start", "wait_all"} \cup Connects, AllRequests) /\ Waits(StartNodes)
<1> DEFINE D == {"start", "wait_all"} \cup Connects
           None(n) == [k \in 0 .. n - 1 |-> {}]
<1> USE Numbers
<1>1. /\ NumberStations \in Nat \ {0} /\ NumberCorrelators \in Nat \ {0} /\ Times \in Nat \ {0}
      /\ NoConnection \in Connections
  BY DEF NoConnection, Connections
<1>2. ASSUME NEW n \in Nodes PROVE Step("start", n) \in Part(D, {})
  <2> DEFINE e == [do |-> "start", rank |-> n, info |-> NoConnection]
  <2>1. e.do = "start" /\ e.rank = n /\ e.do \notin Connects
    BY DEF Connects
  <2>4. e \in Entries
    <3>1. n \in Int
      BY <1>2
    <3> QED BY <1>1, <3>1, EntryFacts, Zenon
  <2> HIDE DEF e
  <2>2. Sensible(e)
    BY <1>2, <2>1 DEF Sensible
  <2>3. <<e>> \in Part(D, {})
    BY <2>1, <2>2, <2>4, PartOne
  <2> QED BY <2>3 DEF Step, e
<1>3. StartOutputNode \in Part(D, {})
  BY <1>2 DEF StartOutputNode
<1>4. ForEach(NumberStations, StartInputNode) \in Part(D, {})
  <2> DEFINE p == [i \in 1 .. NumberStations |-> StartInputNode(i - 1)]
             R == None(NumberStations)
  <2>1. \A i \in 1 .. NumberStations : i - 1 \in StationNumbers /\ i - 1 \in 0 .. NumberStations - 1
    BY <1>1 DEF StationNumbers
  <2>2. \A i \in 1 .. NumberStations : StartInputNode(i - 1) \in Part(D, {})
    BY <1>2, <2>1, InputFacts DEF StartInputNode
  <2>3. \A i \in 1 .. NumberStations : p[i] \in Part(D, R[i - 1])
    BY <2>1, <2>2
  <2>4. p \in [1 .. NumberStations -> Seq(Entries)]
    BY <2>2 DEF Part
  <2>5. \A j, k \in 0 .. NumberStations - 1 : j # k => R[j] \cap R[k] = {}
    OBVIOUS
  <2>6. Together(NumberStations, R) = {}
    BY DEF Together
  <2>7. ForEach(NumberStations, StartInputNode) = FlattenSeq(p)
    BY DEF ForEach
  <2> HIDE DEF D, p, R
  <2>8. FlattenSeq(p) \in Part(D, Together(NumberStations, R))
    BY <1>1, <2>3, <2>4, <2>5, PartEach
  <2> QED BY <2>6, <2>7, <2>8
<1> DEFINE Of(nr) == {c \in AllRequests : Asker(c) = Correlator(nr)}
           At(nr, time) == {ReaderRequest(nr, s, time) : s \in StationNumbers}
<1>5. ASSUME NEW nr \in CorrelatorNumbers, NEW time \in 0 .. Times - 1, NEW s \in StationNumbers
      PROVE  ConnectTo(s, nr, time) \in Part(D, {ReaderRequest(nr, s, time)})
  <2> DEFINE c == ReaderRequest(nr, s, time)
             e == [do |-> "connect_reader", rank |-> Correlator(nr), info |-> c]
  <2>1. c \in ReaderRequests /\ c.reader = Correlator(nr)
    BY <1>5 DEF ReaderRequests, ReaderRequest
  <2>2. ConnectTo(s, nr, time) = <<e>>
    BY DEF ConnectTo, Ask, ReaderRequest
  <2> HIDE DEF c
  <2>3. c \in Connections /\ Correlator(nr) \in Correlators /\ Correlator(nr) \in Int
    BY <1>5, <2>1, RequestFacts, CorrelatorFacts DEF AllRequests
  <2>4. e.do = "connect_reader" /\ e.rank = Correlator(nr) /\ e.info = c
    OBVIOUS
  <2>7. e \in Entries
    BY <2>3, EntryFacts, Zenon
  <2> HIDE DEF e
  <2>5. Sensible(e)
    BY <2>1, <2>3, <2>4 DEF Sensible
  <2>6. <<e>> \in Part(D, {c})
    <3>1. e.do \in D /\ (e.do \in Connects => e.info \in {c})
      BY <2>4 DEF Connects
    <3> HIDE DEF D
    <3> QED BY <2>4, <2>5, <2>7, <3>1, PartOne
  <2> QED BY <2>2, <2>6 DEF c
<1>6. ASSUME NEW nr \in CorrelatorNumbers
      PROVE  ConnectWriterTo(nr) \in Part(D, {WriterRequest(nr)})
  <2> DEFINE c == WriterRequest(nr)
             e == [do |-> "connect_writer", rank |-> Correlator(nr), info |-> c]
  <2>1. c \in WriterRequests /\ c.writer = Correlator(nr)
    BY <1>6 DEF WriterRequests, WriterRequest
  <2>2. ConnectWriterTo(nr) = <<e>>
    BY DEF ConnectWriterTo, Ask, WriterRequest
  <2> HIDE DEF c
  <2>3. c \in Connections /\ Correlator(nr) \in Correlators /\ Correlator(nr) \in Int
    BY <1>6, <2>1, RequestFacts, CorrelatorFacts DEF AllRequests
  <2>4. e.do = "connect_writer" /\ e.rank = Correlator(nr) /\ e.info = c
    OBVIOUS
  <2>7. e \in Entries
    BY <2>3, EntryFacts, Zenon
  <2> HIDE DEF e
  <2>5. Sensible(e)
    BY <2>1, <2>3, <2>4 DEF Sensible
  <2>6. <<e>> \in Part(D, {c})
    <3>1. e.do \in D /\ (e.do \in Connects => e.info \in {c})
      BY <2>4 DEF Connects
    <3> HIDE DEF D
    <3> QED BY <2>4, <2>5, <2>7, <3>1, PartOne
  <2> QED BY <2>2, <2>6 DEF c
<1>7. ASSUME NEW nr \in CorrelatorNumbers, NEW time \in 0 .. Times - 1
      PROVE  ForEach(NumberStations, LAMBDA s : ConnectTo(s, nr, time)) \in Part(D, At(nr, time))
  <2> DEFINE p == [i \in 1 .. NumberStations |-> ConnectTo(i - 1, nr, time)]
             R == [s \in 0 .. NumberStations - 1 |-> {ReaderRequest(nr, s, time)}]
  <2>1. \A i \in 1 .. NumberStations : i - 1 \in StationNumbers /\ i - 1 \in 0 .. NumberStations - 1
    BY <1>1 DEF StationNumbers
  <2>2. \A i \in 1 .. NumberStations : ConnectTo(i - 1, nr, time) \in Part(D, {ReaderRequest(nr, i - 1, time)})
    <3> HIDE DEF D
    <3> QED BY <1>5, <1>7, <2>1
  <2>3. \A i \in 1 .. NumberStations : p[i] \in Part(D, R[i - 1])
    <3> HIDE DEF D
    <3> QED BY <2>1, <2>2
  <2>4. p \in [1 .. NumberStations -> Seq(Entries)]
    <3> HIDE DEF D
    <3> QED BY <2>2 DEF Part
  <2>5. ASSUME NEW j \in 0 .. NumberStations - 1, NEW k \in 0 .. NumberStations - 1, j # k
        PROVE  R[j] \cap R[k] = {}
    <3>1. ReaderRequest(nr, j, time).writer # ReaderRequest(nr, k, time).writer
      BY <2>5, InputFacts DEF ReaderRequest, StationNumbers
    <3> QED BY <3>1
  <2>6. Together(NumberStations, R) = At(nr, time)
    BY DEF StationNumbers, Together
  <2>7. ForEach(NumberStations, LAMBDA s : ConnectTo(s, nr, time)) = FlattenSeq(p)
    BY DEF ForEach
  <2> HIDE DEF D, p, R
  <2>8. FlattenSeq(p) \in Part(D, Together(NumberStations, R))
    BY <1>1, <2>3, <2>4, <2>5, PartEach
  <2> HIDE DEF At
  <2> QED BY <2>6, <2>7, <2>8
<1>8. ASSUME NEW nr \in CorrelatorNumbers
      PROVE  ForEach(Times, LAMBDA time : ForEach(NumberStations, LAMBDA s : ConnectTo(s, nr, time)))
               \in Part(D, {c \in ReaderRequests : c.reader = Correlator(nr)})
  <2> DEFINE F(time) == ForEach(NumberStations, LAMBDA s : ConnectTo(s, nr, time))
             p == [i \in 1 .. Times |-> F(i - 1)]
             R == [time \in 0 .. Times - 1 |-> At(nr, time)]
  <2>1. \A i \in 1 .. Times : i - 1 \in 0 .. Times - 1
    BY <1>1
  <2>2. \A i \in 1 .. Times : F(i - 1) \in Part(D, At(nr, i - 1))
    <3> HIDE DEF D, At
    <3> QED BY <1>7, <1>8, <2>1
  <2>7. ForEach(Times, F) = FlattenSeq(p)
    BY DEF ForEach
  <2> HIDE DEF F
  <2>3. \A i \in 1 .. Times : p[i] \in Part(D, R[i - 1])
    <3> HIDE DEF D, At
    <3> QED BY <2>1, <2>2
  <2>4. p \in [1 .. Times -> Seq(Entries)]
    <3> HIDE DEF D, At
    <3> QED BY <2>2 DEF Part
  <2>5. ASSUME NEW j \in 0 .. Times - 1, NEW k \in 0 .. Times - 1, j # k
        PROVE  R[j] \cap R[k] = {}
    <3>1. ASSUME NEW s \in StationNumbers, NEW t \in StationNumbers
          PROVE  ReaderRequest(nr, s, j) # ReaderRequest(nr, t, k)
      <4>1. j \in {0, 1} /\ k \in {0, 1}
        BY TimeFacts
      <4>2. s \in 0 .. NumberStations - 1 /\ t \in 0 .. NumberStations - 1
        BY DEF StationNumbers
      <4>3. s + j * NumberStations # t + k * NumberStations
        BY <1>1, <2>5, <4>1, <4>2, StreamNumber
      <4> QED BY <4>3 DEF ReaderRequest
    <3> QED BY <3>1
  <2>6. Together(Times, R) \subseteq {c \in ReaderRequests : c.reader = Correlator(nr)}
    <3>1. ASSUME NEW j \in 0 .. Times - 1, NEW s \in StationNumbers
          PROVE  ReaderRequest(nr, s, j) \in ReaderRequests /\ ReaderRequest(nr, s, j).reader = Correlator(nr)
      BY <1>8, <3>1 DEF ReaderRequests, ReaderRequest
    <3> QED BY <3>1 DEF Together
  <2> HIDE DEF D, p, R
  <2>8. FlattenSeq(p) \in Part(D, Together(Times, R))
    BY <1>1, <2>3, <2>4, <2>5, PartEach
  <2>9. FlattenSeq(p) \in Part(D, {c \in ReaderRequests : c.reader = Correlator(nr)})
    BY <2>6, <2>8, PartWider
  <2> QED BY <2>7, <2>9 DEF F
<1>9. ASSUME NEW nr \in CorrelatorNumbers PROVE ConnectCorrelator(nr) \in Part(D, Of(nr))
  <2> DEFINE a == StartCorrelatorNode(nr)
             b == ForEach(Times, LAMBDA time : ForEach(NumberStations, LAMBDA s : ConnectTo(s, nr, time)))
             d == ConnectWriterTo(nr)
             Own1 == {c \in ReaderRequests : c.reader = Correlator(nr)}
             Own2 == {WriterRequest(nr)}
  <2>1. ConnectCorrelator(nr) = a \o b \o d
    BY DEF ConnectCorrelator
  <2>2. a \in Part(D, {})
    BY <1>2, <1>9, CorrelatorFacts DEF StartCorrelatorNode
  <2>3. b \in Part(D, Own1) /\ d \in Part(D, Own2)
    BY <1>6, <1>8, <1>9
  <2> HIDE DEF D, a, b, d
  <2>4. a \o b \in Part(D, {} \cup Own1)
    BY <2>2, <2>3, PartConcat
  <2>5. ({} \cup Own1) \cap Own2 = {}
    <3>1. WriterRequest(nr) \in WriterRequests
      BY <1>9 DEF WriterRequests
    <3>2. WriterRequest(nr).reader = Output
      BY DEF WriterRequest
    <3> QED BY <3>2, ReaderFacts
  <2>6. ({} \cup Own1) \cup Own2 \subseteq Of(nr)
    <3>1. WriterRequest(nr) \in WriterRequests /\ WriterRequest(nr).writer = Correlator(nr)
      BY <1>9 DEF WriterRequests, WriterRequest
    <3>2. Asker(WriterRequest(nr)) = Correlator(nr)
      BY <3>1, WriterFacts
    <3> QED BY <3>1, <3>2, ReaderFacts DEF AllRequests
  <2> HIDE DEF Own1, Own2
  <2>7. (a \o b) \o d \in Part(D, ({} \cup Own1) \cup Own2)
    BY <2>3, <2>4, <2>5, PartConcat
  <2> HIDE DEF Of
  <2> QED BY <2>1, <2>6, <2>7, PartWider
<1>10. ForEach(NumberCorrelators, ConnectCorrelator) \in Part(D, AllRequests)
  <2> DEFINE p == [i \in 1 .. NumberCorrelators |-> ConnectCorrelator(i - 1)]
             R == [nr \in 0 .. NumberCorrelators - 1 |-> Of(nr)]
  <2>1. \A i \in 1 .. NumberCorrelators : i - 1 \in CorrelatorNumbers /\ i - 1 \in 0 .. NumberCorrelators - 1
    BY <1>1 DEF CorrelatorNumbers
  <2>2. \A i \in 1 .. NumberCorrelators : ConnectCorrelator(i - 1) \in Part(D, Of(i - 1))
    <3> HIDE DEF D, Of
    <3> QED BY <1>9, <2>1
  <2>3. \A i \in 1 .. NumberCorrelators : p[i] \in Part(D, R[i - 1])
    <3> HIDE DEF D, Of
    <3> QED BY <2>1, <2>2
  <2>4. p \in [1 .. NumberCorrelators -> Seq(Entries)]
    <3> HIDE DEF D, Of
    <3> QED BY <2>2 DEF Part
  <2>5. \A j, k \in 0 .. NumberCorrelators - 1 : j # k => R[j] \cap R[k] = {}
    BY CorrelatorFacts DEF CorrelatorNumbers
  <2>6. Together(NumberCorrelators, R) \subseteq AllRequests
    BY DEF Together
  <2>7. ForEach(NumberCorrelators, ConnectCorrelator) = FlattenSeq(p)
    BY DEF ForEach
  <2> HIDE DEF D, p, R
  <2>8. FlattenSeq(p) \in Part(D, Together(NumberCorrelators, R))
    BY <1>1, <2>3, <2>4, <2>5, PartEach
  <2> QED BY <2>6, <2>7, <2>8, PartWider
<1>11. Step("wait_all", 0) \in Part(D, {})
  <2> DEFINE e == [do |-> "wait_all", rank |-> 0, info |-> NoConnection]
  <2>1. e.do = "wait_all" /\ e.do \notin Connects
    BY DEF Connects
  <2>2. e \in Entries
    <3>1. 0 \in Int
      OBVIOUS
    <3> QED BY <1>1, <3>1, EntryFacts, Zenon
  <2> HIDE DEF e
  <2>3. Sensible(e)
    BY <2>1 DEF Sensible
  <2>4. <<e>> \in Part(D, {})
    BY <2>1, <2>2, <2>3, PartOne
  <2> QED BY <2>4 DEF Step, e
<1>18. Waits(Step("wait_all", 0))
  <2> DEFINE e == [do |-> "wait_all", rank |-> 0, info |-> NoConnection]
  <2>1. e.do = "wait_all"
    OBVIOUS
  <2> HIDE DEF e
  <2>2. DOMAIN <<e>> = {1} /\ <<e>>[1] = e
    OBVIOUS
  <2>3. Waits(<<e>>)
    BY <2>1, <2>2 DEF Waits
  <2> QED BY <2>3 DEF Step, e
<1> DEFINE a == StartOutputNode
           b == ForEach(NumberStations, StartInputNode)
           d == ForEach(NumberCorrelators, ConnectCorrelator)
           e == Step("wait_all", 0)
<1>12. StartNodes = a \o b \o d \o e
  BY DEF StartNodes
<1>13. /\ a \in Part(D, {}) /\ b \in Part(D, {}) /\ d \in Part(D, AllRequests) /\ e \in Part(D, {})
       /\ Waits(e)
  BY <1>3, <1>4, <1>10, <1>11, <1>18
<1> HIDE DEF D, a, b, d, e
<1>14. a \o b \in Part(D, {} \cup {})
  BY <1>13, PartConcat
<1>15. (a \o b) \o d \in Part(D, ({} \cup {}) \cup AllRequests)
  BY <1>13, <1>14, PartConcat
<1>16. ((a \o b) \o d) \o e \in Part(D, (({} \cup {}) \cup AllRequests) \cup {})
  BY <1>13, <1>15, PartConcat
<1>17. (({} \cup {}) \cup AllRequests) \cup {} = AllRequests
  OBVIOUS
<1>19. Waits(((a \o b) \o d) \o e)
  <2>1. ((a \o b) \o d) \in Seq(Entries) /\ e \in Seq(Entries)
    BY <1>13, <1>15 DEF Part
  <2> QED BY <1>13, <2>1, WaitWithin
<1> QED BY <1>12, <1>16, <1>17, <1>19 DEF D

\* A part of the script that asks for nothing, for each of n nodes.
LEMMA PartPlain ==
  ASSUME NEW n \in Nat \ {0}, NEW D, NEW p \in [1 .. n -> Part(D, {})]
  PROVE  FlattenSeq(p) \in Part(D, {})
<1> DEFINE R == [k \in 0 .. n - 1 |-> {}]
<1>1. \A i \in 1 .. n : i - 1 \in 0 .. n - 1
  OBVIOUS
<1>2. \A i \in 1 .. n : p[i] \in Part(D, R[i - 1])
  BY <1>1
<1>3. p \in [1 .. n -> Seq(Entries)]
  BY DEF Part
<1>4. \A j, k \in 0 .. n - 1 : j # k => R[j] \cap R[k] = {}
  OBVIOUS
<1>5. Together(n, R) = {}
  BY DEF Together
<1> HIDE DEF R
<1>6. FlattenSeq(p) \in Part(D, Together(n, R))
  BY <1>2, <1>3, <1>4, PartEach
<1> QED BY <1>5, <1>6

LEMMA FilesOfJob ==
  ASSUME ConnectAssumption
  PROVE  OpenFiles \in Part({"open"}, {})
<1> DEFINE D == {"open"}
<1>1. NoConnection \in Connections /\ NumberStations \in Nat \ {0}
  BY Numbers DEF NoConnection, Connections
<1>2. ASSUME NEW n \in Listeners PROVE Step("open", n) \in Part(D, {})
  <2> DEFINE e == [do |-> "open", rank |-> n, info |-> NoConnection]
  <2>1. e.do = "open" /\ e.rank = n /\ e.do \notin Connects
    BY DEF Connects
  <2>2. e \in Entries
    <3>1. n \in Int
      BY <1>2, Numbers
    <3> QED BY <1>1, <3>1, EntryFacts, Zenon
  <2> HIDE DEF e
  <2>3. Sensible(e)
    BY <1>2, <2>1 DEF Sensible
  <2>4. <<e>> \in Part(D, {})
    BY <2>1, <2>2, <2>3, PartOne
  <2> QED BY <2>4 DEF Step, e
<1> DEFINE p == [i \in 1 .. NumberStations |-> Step("open", Input(i - 1))]
<1>3. FlattenSeq(p) \in Part(D, {})
  <2>1. \A i \in 1 .. NumberStations : i - 1 \in StationNumbers
    BY <1>1 DEF StationNumbers
  <2>2. \A i \in 1 .. NumberStations : Step("open", Input(i - 1)) \in Part(D, {})
    <3> HIDE DEF D
    <3> QED BY <1>2, <2>1, InputFacts
  <2> HIDE DEF D
  <2>3. p \in [1 .. NumberStations -> Part(D, {})]
    BY <2>2
  <2> HIDE DEF p
  <2> QED BY <1>1, <2>3, PartPlain
<1>4. Step("open", Output) \in Part(D, {})
  BY <1>2, Numbers
<1>5. OpenFiles = FlattenSeq(p) \o Step("open", Output)
  BY DEF OpenFiles, ForEach
<1> DEFINE a == FlattenSeq(p)
           b == Step("open", Output)
<1> HIDE DEF D, a, b
<1>6. a \o b \in Part(D, {} \cup {})
  BY <1>3, <1>4, PartConcat DEF a, b
<1> QED BY <1>5, <1>6 DEF a, b, D

LEMMA SlicesOfJob ==
  ASSUME ConnectAssumption
  PROVE  FirstSlices \in Part(Firsts, {})
<1> DEFINE D == Firsts
<1>1. /\ NoConnection \in Connections /\ NumberStations \in Nat \ {0} /\ NumberCorrelators \in Nat \ {0}
      /\ NumberCorrelators * Times \in Nat \ {0}
      /\ \A k \in Int : /\ [NoConnection EXCEPT !.stream = k] \in Connections
                         /\ [NoConnection EXCEPT !.stream = k].stream = k
  BY Numbers DEF NoConnection, Connections
<1>2. ASSUME NEW n \in Listeners \ {Output}, NEW k \in 0 .. NumberCorrelators * Times - 1
      PROVE  Ask("slice", n, [NoConnection EXCEPT !.stream = k]) \in Part(D, {})
  <2>1. PICK c \in Connections : c = [NoConnection EXCEPT !.stream = k] /\ c.stream = k
    <3>1. k \in Int
      BY <1>1
    <3> QED BY <1>1, <3>1, Zenon
  <2> DEFINE e == [do |-> "slice", rank |-> n, info |-> c]
  <2>2. e.do = "slice" /\ e.rank = n /\ e.info = c /\ e.do \notin Connects /\ e.do \in Firsts
    BY DEF Connects, Firsts
  <2>3. e \in Entries
    <3>1. n \in Int
      BY <1>2, Numbers
    <3> QED BY <3>1, EntryFacts, Zenon
  <2> HIDE DEF e
  <2>4. Sensible(e)
    BY <1>2, <2>1, <2>2 DEF Sensible
  <2>5. <<e>> \in Part(D, {})
    BY <2>2, <2>3, <2>4, PartOne
  <2> QED BY <2>1, <2>5 DEF Ask, e
<1>3. ASSUME NEW n \in Correlators PROVE Step("parameters", n) \in Part(D, {})
  <2> DEFINE e == [do |-> "parameters", rank |-> n, info |-> NoConnection]
  <2>1. e.do = "parameters" /\ e.rank = n /\ e.do \notin Connects /\ e.do \in Firsts
    BY DEF Connects, Firsts
  <2>2. e \in Entries
    <3>1. n \in Int
      BY <1>3, Numbers
    <3> QED BY <1>1, <3>1, EntryFacts, Zenon
  <2> HIDE DEF e
  <2>3. Sensible(e)
    BY <1>3, <2>1 DEF Sensible
  <2>4. <<e>> \in Part(D, {})
    BY <2>1, <2>2, <2>3, PartOne
  <2> QED BY <2>4 DEF Step, e
<1> HIDE DEF D
<1> DEFINE Slices(s) == ForEach(NumberCorrelators * Times, LAMBDA k :
                          Ask("slice", Input(s), [NoConnection EXCEPT !.stream = k]))
<1>4. ASSUME NEW s \in StationNumbers PROVE Slices(s) \in Part(D, {})
  <2> DEFINE p == [i \in 1 .. NumberCorrelators * Times |->
                     Ask("slice", Input(s), [NoConnection EXCEPT !.stream = i - 1])]
  <2>1. \A i \in 1 .. NumberCorrelators * Times : i - 1 \in 0 .. NumberCorrelators * Times - 1
    BY <1>1
  <2>2. Input(s) \in Listeners \ {Output}
    BY <1>4, InputFacts
  <2>3. \A i \in 1 .. NumberCorrelators * Times :
          Ask("slice", Input(s), [NoConnection EXCEPT !.stream = i - 1]) \in Part(D, {})
    BY <1>2, <2>1, <2>2
  <2>4. p \in [1 .. NumberCorrelators * Times -> Part(D, {})]
    BY <2>3
  <2>5. Slices(s) = FlattenSeq(p)
    BY DEF ForEach
  <2> HIDE DEF p, Slices
  <2>6. PICK n \in Nat \ {0} : n = NumberCorrelators * Times
    BY <1>1
  <2>7. p \in [1 .. n -> Part(D, {})]
    BY <2>4, <2>6
  <2> QED BY <2>5, <2>7, PartPlain
<1>5. ForEach(NumberStations, Slices) \in Part(D, {})
  <2> HIDE DEF Slices
  <2> DEFINE p == [i \in 1 .. NumberStations |-> Slices(i - 1)]
  <2>1. \A i \in 1 .. NumberStations : i - 1 \in StationNumbers
    BY <1>1 DEF StationNumbers
  <2>2. p \in [1 .. NumberStations -> Part(D, {})]
    BY <1>4, <2>1
  <2>3. ForEach(NumberStations, Slices) = FlattenSeq(p)
    BY DEF ForEach
  <2> HIDE DEF p
  <2> QED BY <1>1, <2>2, <2>3, PartPlain
<1> DEFINE Params(nr) == Step("parameters", Correlator(nr))
<1>6. ForEach(NumberCorrelators, Params) \in Part(D, {})
  <2> DEFINE p == [i \in 1 .. NumberCorrelators |-> Params(i - 1)]
  <2>1. \A i \in 1 .. NumberCorrelators : i - 1 \in CorrelatorNumbers
    BY <1>1 DEF CorrelatorNumbers
  <2>2. p \in [1 .. NumberCorrelators -> Part(D, {})]
    BY <1>3, <2>1, CorrelatorFacts
  <2>3. ForEach(NumberCorrelators, Params) = FlattenSeq(p)
    BY DEF ForEach
  <2> HIDE DEF p
  <2> QED BY <1>1, <2>2, <2>3, PartPlain
<1>7. FirstSlices = ForEach(NumberStations, Slices) \o ForEach(NumberCorrelators, Params)
  BY DEF FirstSlices
<1> DEFINE a == ForEach(NumberStations, Slices)
           b == ForEach(NumberCorrelators, Params)
<1>8. a \in Part(D, {}) /\ b \in Part(D, {}) /\ FirstSlices = a \o b
  BY <1>5, <1>6, <1>7
<1> HIDE DEF a, b
<1>9. a \o b \in Part(D, {} \cup {})
  BY <1>8, PartConcat
<1> QED BY <1>8, <1>9 DEF D

LEMMA WaitBehind ==
  ASSUME NEW D, NEW R, NEW S, NEW s \in Part(D, R), NEW t \in Part(Firsts, S),
         D \cap Firsts = {}, "wait_all" \notin Firsts
  PROVE  WaitFirst(s \o t)
<1>1. /\ s \in Seq(Entries) /\ t \in Seq(Entries)
      /\ (\A i \in DOMAIN s : s[i].do \in D) /\ (\A i \in DOMAIN t : t[i].do \in Firsts)
  BY DEF Part
<1> PICK u \in Seq(Entries) : Joined(u, s, t)
  BY <1>1, ConcatFacts
<1>2. /\ u = s \o t /\ DOMAIN u \subseteq Nat /\ Len(s) \in Nat
      /\ \A i \in DOMAIN u :
           /\ i <= Len(s) => i \in DOMAIN s /\ u[i] = s[i]
           /\ ~ i <= Len(s) => i \notin DOMAIN s /\ i - Len(s) \in DOMAIN t /\ u[i] = t[i - Len(s)]
  BY DEF Joined
<1>5. ASSUME NEW i \in DOMAIN u, NEW j \in DOMAIN u, u[i].do = "wait_all", u[j].do \in Firsts
      PROVE  i < j
  <2>1. i <= Len(s)
    <3>1. CASE ~ i <= Len(s)
      BY <1>1, <1>2, <1>5, <3>1
    <3> QED BY <3>1
  <2>2. ~ j <= Len(s)
    <3>1. CASE j <= Len(s)
      BY <1>1, <1>2, <1>5, <3>1
    <3> QED BY <3>1
  <2>3. i \in Nat /\ j \in Nat
    BY <1>2
  <2>4. PICK m \in Nat, a \in Nat, b \in Nat : m = Len(s) /\ a = i /\ b = j
    BY <1>2, <2>3
  <2>5. a <= m /\ ~ b <= m
    BY <2>1, <2>2, <2>4, Zenon
  <2>6. a < b
    BY <2>5
  <2> QED BY <2>4, <2>6, Zenon
<1> QED BY <1>2, <1>5 DEF WaitFirst

\* What the manager does at the start of a job.
LEMMA ScriptFacts ==
  ASSUME ConnectAssumption
  PROVE  /\ StartNodes \o OpenFiles \o FirstSlices \in Part(Commands, AllRequests)
         /\ WaitFirst(StartNodes \o OpenFiles \o FirstSlices)
         /\ Waits(StartNodes \o OpenFiles \o FirstSlices)
<1> DEFINE E == {"start", "wait_all", "open"} \cup Connects
<1> PICK a \in Part({"start", "wait_all"} \cup Connects, AllRequests) : a = StartNodes /\ Waits(a)
  BY StartOfJob
<1> PICK b \in Part({"open"}, {}) : b = OpenFiles
  BY FilesOfJob
<1> PICK c \in Part(Firsts, {}) : c = FirstSlices
  BY SlicesOfJob
<1>1. a \in Part(E, AllRequests) /\ b \in Part(E, {})
  <2>1. {"start", "wait_all"} \cup Connects \subseteq E /\ {"open"} \subseteq E
    OBVIOUS
  <2> HIDE DEF E
  <2> QED BY <2>1, PartWider
<1>2. E \subseteq Commands /\ Firsts \subseteq Commands /\ "wait_all" \notin Firsts /\ E \cap Firsts = {}
  BY DEF Commands, Firsts, Connects
<1> HIDE DEF E
<1>3. a \o b \in Part(E, AllRequests \cup {})
  BY <1>1, PartConcat
<1> PICK x \in Part(E, AllRequests \cup {}) : x = a \o b
  BY <1>3
<1>4. x \in Part(Commands, AllRequests) /\ c \in Part(Commands, {})
  BY <1>2, PartWider
<1>5. x \o c \in Part(Commands, AllRequests \cup {})
  BY <1>4, PartConcat
<1>6. WaitFirst(x \o c)
  BY <1>2, WaitBehind
<1>7. StartNodes \o OpenFiles \o FirstSlices = x \o c
  OBVIOUS
<1>8. AllRequests \cup {} = AllRequests
  OBVIOUS
<1>9. Waits(x \o c)
  <2>1. /\ a \in Seq(Entries) /\ b \in Seq(Entries) /\ c \in Seq(Entries) /\ x \in Seq(Entries)
        /\ Waits(a)
    BY DEF Part
  <2>2. Waits(x)
    BY <2>1, WaitWithin
  <2> QED BY <2>1, <2>2, WaitWithin
<1> QED BY <1>5, <1>6, <1>7, <1>8, <1>9

-----------------------------------------------------------------------------
(* The invariant. *)

\* The connections that a sequence of messages asks for.
Asks(s) == {s[i].info : i \in {k \in DOMAIN s : s[k].do \in Connects}}
HasFirsts(s) == \E i \in DOMAIN s : s[i].do \in Firsts

\* Messages to node n.
Box(n) ==
  {s \in Seq(Entries) :
     (\A i \in DOMAIN s : Sensible(s[i]) /\ s[i].rank = n /\ s[i].do # "wait_all") /\ Once(s)}

Busy(n) == state[n] \in {"send", "connect", "connected"}

\* The asker has the stream of the connection, or the peer.
Own(c) ==
  IF c.reader = Output THEN 0 \in DOMAIN writers[c.writer] /\ writers[c.writer][0] = c
  ELSE c.readerStream \in DOMAIN readers[c.reader] /\ readers[c.reader][c.readerStream] = c
Theirs(c) ==
  IF c.reader = Output THEN c.readerStream \in DOMAIN readers[Output] /\ readers[Output][c.readerStream] = c
  ELSE c.stream \in DOMAIN writers[c.writer] /\ writers[c.writer][c.stream] = c
Made == {c \in AllRequests : Own(c)}

TypeOK ==
  /\ script \in Part(Commands, AllRequests) /\ mail \in [Nodes -> Seq(Entries)]
  /\ \A n \in Nodes : mail[n] \in Box(n)
  /\ state \in [Nodes -> {"absent", "idle", "send", "connect", "connected", "accept"}]
  /\ inHand \in [Nodes -> Connections] /\ announced \in [Nodes -> SUBSET Connections]
  /\ backlog \in [Listeners -> Seq(Connections)] /\ established \in Nat
  /\ DOMAIN readers = Nodes /\ DOMAIN writers = Nodes /\ weights \subseteq Correlators

Working ==
  /\ \A n \in Listeners : state[n] \in {"absent", "idle", "accept"}
  /\ \A n \in Correlators : state[n] \in {"absent", "idle", "send", "connect", "connected"}
  /\ \A n \in Correlators : Busy(n) => inHand[n] \in AllRequests /\ Asker(inHand[n]) = n
  /\ \A n \in Listeners : state[n] = "accept" => inHand[n] \in AllRequests /\ Peer(inHand[n]) = n

\* A connection that is still to be asked for, or on its way, is not made.
AskedOnce ==
  /\ Asks(script) \cap Made = {}
  /\ \A n \in Nodes : Asks(script) \cap Asks(mail[n]) = {} /\ Asks(mail[n]) \cap Made = {}
  /\ \A n \in Correlators :
       Busy(n) => inHand[n] \notin Asks(script) /\ inHand[n] \notin Asks(mail[n]) /\ inHand[n] \notin Made

\* The sender of an announcement waits for it to be received.
Announcing ==
  \A n \in Listeners : \A c \in announced[n] :
    c \in AllRequests /\ Peer(c) = n /\ state[Asker(c)] = "send" /\ inHand[Asker(c)] = c

\* Who connects, connects to a node that waits for this connection, and no other is there.
Connecting ==
  \A n \in Correlators : state[n] = "connect" =>
    /\ state[Peer(inHand[n])] = "accept" /\ inHand[Peer(inHand[n])] = inHand[n]
    /\ backlog[Peer(inHand[n])] = <<>>
Queued ==
  \A n \in Listeners : backlog[n] # <<>> => state[n] = "accept" /\ backlog[n] = <<inHand[n]>>
Paired ==
  \A c \in AllRequests :
    Own(c) \/ (state[Asker(c)] = "connected" /\ inHand[Asker(c)] = c) =>
      Theirs(c) \/ (state[Peer(c)] = "accept" /\ backlog[Peer(c)] = <<c>>)

\* Slices are given out when all connections have been made.
Waited == \A i \in DOMAIN script : script[i].do # "wait_all"
Ordered ==
  /\ WaitFirst(script) /\ established = Cardinality(Made)
  /\ Waited => Made = AllRequests
  /\ (\E n \in Nodes : HasFirsts(mail[n])) \/ weights # {} => Waited

ConnectInv ==
  /\ TypeOK /\ Working /\ AskedOnce /\ Announcing /\ Connecting /\ Queued /\ Paired /\ Ordered
  /\ RightPeers

-----------------------------------------------------------------------------
(* Sequences of messages. *)

LEMMA TailFacts ==
  ASSUME NEW s \in Seq(Entries), s # <<>>
  PROVE  /\ Tail(s) \in Seq(Entries) /\ 1 \in DOMAIN s /\ Head(s) = s[1] /\ s[1] \in Entries
         /\ \A i \in DOMAIN Tail(s) : i \in Nat \ {0} /\ i + 1 \in DOMAIN s /\ Tail(s)[i] = s[i + 1]
<1>1. /\ Tail(s) \in Seq(Entries) /\ Len(Tail(s)) = Len(s) - 1 /\ Head(s) \in Entries
      /\ \A i \in 1 .. Len(Tail(s)) : Tail(s)[i] = s[i + 1]
  BY HeadTailProperties
<1>2. PICK m \in Nat : m = Len(s) /\ m # 0
  BY LenProperties, EmptySeq
<1>3. DOMAIN s = 1 .. m /\ DOMAIN Tail(s) = 1 .. m - 1
  BY <1>1, <1>2, LenProperties
<1>4. 1 \in 1 .. m /\ \A i \in 1 .. m - 1 : i \in Nat \ {0} /\ i + 1 \in 1 .. m
  BY <1>2
<1>5. Head(s) = s[1]
  OBVIOUS
<1>6. Len(Tail(s)) = m - 1
  BY <1>1, <1>2
<1> QED BY <1>1, <1>3, <1>4, <1>5, <1>6

LEMMA AppendFacts ==
  ASSUME NEW s \in Seq(Entries), NEW e \in Entries
  PROVE  /\ Append(s, e) \in Seq(Entries)
         /\ \A i \in DOMAIN Append(s, e) :
              \/ i \in DOMAIN s /\ Append(s, e)[i] = s[i]
              \/ i = Len(s) + 1 /\ Append(s, e)[i] = e
<1>1. /\ Append(s, e) \in Seq(Entries) /\ Len(Append(s, e)) = Len(s) + 1
      /\ \A i \in 1 .. Len(s) : Append(s, e)[i] = s[i]
      /\ Append(s, e)[Len(s) + 1] = e
  BY AppendProperties
<1>2. PICK m \in Nat : m = Len(s)
  BY LenProperties
<1>3. DOMAIN s = 1 .. m /\ DOMAIN Append(s, e) = 1 .. m + 1
  BY <1>1, <1>2, LenProperties
<1>4. \A i \in 1 .. m + 1 : i \in 1 .. m \/ i = m + 1
  OBVIOUS
<1> QED BY <1>1, <1>2, <1>3, <1>4

\* What is left when the first message has been taken.
LEMMA Taking ==
  ASSUME NEW n, NEW s \in Box(n), s # <<>>
  PROVE  /\ Tail(s) \in Box(n) /\ Head(s) \in Entries /\ Sensible(Head(s)) /\ Head(s).rank = n
         /\ Asks(Tail(s)) \subseteq Asks(s)
         /\ Head(s).do \in Connects => Head(s).info \in Asks(s) /\ Head(s).info \notin Asks(Tail(s))
         /\ HasFirsts(Tail(s)) => HasFirsts(s)
         /\ Head(s).do \in Firsts => HasFirsts(s)
<1>1. /\ s \in Seq(Entries) /\ Once(s)
      /\ \A i \in DOMAIN s : Sensible(s[i]) /\ s[i].rank = n /\ s[i].do # "wait_all"
  BY DEF Box
<1> PICK t \in Seq(Entries) : t = Tail(s)
  BY <1>1, TailFacts
<1>2. /\ 1 \in DOMAIN s /\ Head(s) = s[1] /\ s[1] \in Entries
      /\ \A i \in DOMAIN t : i \in Nat \ {0} /\ i + 1 \in DOMAIN s /\ t[i] = s[i + 1]
  BY <1>1, TailFacts
<1>3. \A i \in DOMAIN t : Sensible(t[i]) /\ t[i].rank = n /\ t[i].do # "wait_all"
  BY <1>1, <1>2
<1>4. Once(t)
  <2>1. ASSUME NEW i \in DOMAIN t, NEW j \in DOMAIN t,
               t[i].do \in Connects, t[j].do \in Connects, t[i].info = t[j].info
        PROVE  i = j
    <3>1. i + 1 = j + 1
      BY <1>1, <1>2, <2>1 DEF Once
    <3>2. i \in Nat /\ j \in Nat
      BY <1>2
    <3> QED BY <3>1, <3>2
  <2> QED BY <2>1 DEF Once
<1>5. Asks(t) \subseteq Asks(s)
  BY <1>2 DEF Asks
<1>6. Head(s).do \in Connects => Head(s).info \in Asks(s) /\ Head(s).info \notin Asks(t)
  <2> SUFFICES ASSUME s[1].do \in Connects
               PROVE  s[1].info \in Asks(s) /\ s[1].info \notin Asks(t)
    BY <1>2
  <2>1. s[1].info \in Asks(s)
    BY <1>2 DEF Asks
  <2>2. ASSUME NEW i \in DOMAIN t, t[i].do \in Connects PROVE t[i].info # s[1].info
    <3>1. i + 1 # 1
      BY <1>2
    <3> QED BY <1>1, <1>2, <2>2, <3>1 DEF Once
  <2> QED BY <2>1, <2>2 DEF Asks
<1>7. (HasFirsts(t) => HasFirsts(s)) /\ (Head(s).do \in Firsts => HasFirsts(s))
  BY <1>2 DEF HasFirsts
<1>8. t \in Box(n)
  BY <1>3, <1>4 DEF Box
<1> QED BY <1>1, <1>2, <1>5, <1>6, <1>7, <1>8

\* What the manager has still to do when it has done the first.
LEMMA Doing ==
  ASSUME NEW s \in Part(Commands, AllRequests), s # <<>>
  PROVE  /\ Tail(s) \in Part(Commands, AllRequests) /\ Head(s) \in Entries /\ Sensible(Head(s))
         /\ Asks(Tail(s)) \subseteq Asks(s)
         /\ Head(s).do \in Connects => Head(s).info \in Asks(s) /\ Head(s).info \notin Asks(Tail(s))
         /\ WaitFirst(s) => WaitFirst(Tail(s))
         /\ WaitFirst(s) /\ Head(s).do \in Firsts => \A i \in DOMAIN s : s[i].do # "wait_all"
         /\ (\A i \in DOMAIN s : s[i].do # "wait_all") => \A i \in DOMAIN Tail(s) : Tail(s)[i].do # "wait_all"
         /\ Head(s).do # "wait_all" /\ (\A i \in DOMAIN Tail(s) : Tail(s)[i].do # "wait_all") =>
              \A i \in DOMAIN s : s[i].do # "wait_all"
<1>1. /\ s \in Seq(Entries) /\ Once(s) /\ DOMAIN s \subseteq Nat \ {0}
      /\ \A i \in DOMAIN s :
            Sensible(s[i]) /\ s[i].do \in Commands /\ (s[i].do \in Connects => s[i].info \in AllRequests)
  BY LenProperties DEF Part
<1> PICK t \in Seq(Entries) : t = Tail(s)
  BY <1>1, TailFacts
<1>2. /\ 1 \in DOMAIN s /\ Head(s) = s[1] /\ s[1] \in Entries
      /\ \A i \in DOMAIN t : i \in Nat \ {0} /\ i + 1 \in DOMAIN s /\ t[i] = s[i + 1]
  BY <1>1, TailFacts
<1>3. \A i \in DOMAIN t :
        Sensible(t[i]) /\ t[i].do \in Commands /\ (t[i].do \in Connects => t[i].info \in AllRequests)
  BY <1>1, <1>2
<1>4. Once(t)
  <2>1. ASSUME NEW i \in DOMAIN t, NEW j \in DOMAIN t,
               t[i].do \in Connects, t[j].do \in Connects, t[i].info = t[j].info
        PROVE  i = j
    <3>1. i + 1 = j + 1
      BY <1>1, <1>2, <2>1 DEF Once
    <3>2. i \in Nat /\ j \in Nat
      BY <1>2
    <3> QED BY <3>1, <3>2
  <2> QED BY <2>1 DEF Once
<1>5. Asks(t) \subseteq Asks(s)
  BY <1>2 DEF Asks
<1>6. Head(s).do \in Connects => Head(s).info \in Asks(s) /\ Head(s).info \notin Asks(t)
  <2> SUFFICES ASSUME s[1].do \in Connects
               PROVE  s[1].info \in Asks(s) /\ s[1].info \notin Asks(t)
    BY <1>2
  <2>1. s[1].info \in Asks(s)
    BY <1>2 DEF Asks
  <2>2. ASSUME NEW i \in DOMAIN t, t[i].do \in Connects PROVE t[i].info # s[1].info
    <3>1. i + 1 # 1
      BY <1>2
    <3> QED BY <1>1, <1>2, <2>2, <3>1 DEF Once
  <2> QED BY <2>1, <2>2 DEF Asks
<1>7. WaitFirst(s) => WaitFirst(t)
  <2> SUFFICES ASSUME WaitFirst(s), NEW i \in DOMAIN t, NEW j \in DOMAIN t,
                      t[i].do = "wait_all", t[j].do \in Firsts
               PROVE  i < j
    BY DEF WaitFirst
  <2>1. i + 1 < j + 1
    BY <1>2 DEF WaitFirst
  <2>2. i \in Nat /\ j \in Nat
    BY <1>2
  <2> QED BY <2>1, <2>2
<1>8. ASSUME WaitFirst(s), s[1].do \in Firsts, NEW i \in DOMAIN s PROVE s[i].do # "wait_all"
  <2>1. ~ i < 1
    BY <1>1
  <2> QED BY <1>2, <1>8, <2>1 DEF WaitFirst
<1>9. (\A i \in DOMAIN s : s[i].do # "wait_all") => \A i \in DOMAIN t : t[i].do # "wait_all"
  BY <1>2
<1>10. ASSUME s[1].do # "wait_all", \A i \in DOMAIN t : t[i].do # "wait_all", NEW i \in DOMAIN s
       PROVE  s[i].do # "wait_all"
  <2>1. CASE i = 1
    BY <1>10, <2>1
  <2>2. CASE i # 1
    <3>1. Len(t) = Len(s) - 1 /\ DOMAIN t = 1 .. Len(t) /\ DOMAIN s = 1 .. Len(s) /\ Len(s) \in Nat
      BY <1>1, HeadTailProperties, LenProperties
    <3>2. PICK k \in Nat : k = i - 1 /\ k \in DOMAIN t /\ k + 1 = i
      BY <2>2, <3>1
    <3>3. t[k] = s[i]
      BY <1>2, <3>2
    <3> QED BY <1>10, <3>2, <3>3
  <2> QED BY <2>1, <2>2
<1>11. t \in Part(Commands, AllRequests)
  BY <1>3, <1>4 DEF Part
<1> QED BY <1>1, <1>2, <1>5, <1>6, <1>7, <1>8, <1>9, <1>10, <1>11

\* A message more.
LEMMA Sending ==
  ASSUME NEW n, NEW s \in Box(n), NEW e \in Entries, Sensible(e), e.rank = n, e.do # "wait_all",
         e.do \in Connects => e.info \notin Asks(s)
  PROVE  /\ Append(s, e) \in Box(n)
         /\ Asks(Append(s, e)) \subseteq Asks(s) \cup (IF e.do \in Connects THEN {e.info} ELSE {})
         /\ HasFirsts(Append(s, e)) => HasFirsts(s) \/ e.do \in Firsts
<1>1. /\ s \in Seq(Entries) /\ Once(s)
      /\ \A i \in DOMAIN s : Sensible(s[i]) /\ s[i].rank = n /\ s[i].do # "wait_all"
  BY DEF Box
<1> PICK t \in Seq(Entries) : t = Append(s, e)
  BY <1>1, AppendFacts
<1>2. \A i \in DOMAIN t : (i \in DOMAIN s /\ t[i] = s[i]) \/ (i = Len(s) + 1 /\ t[i] = e)
  BY <1>1, AppendFacts
<1>3. \A i \in DOMAIN t : Sensible(t[i]) /\ t[i].rank = n /\ t[i].do # "wait_all"
  BY <1>1, <1>2
<1>4. \A i \in DOMAIN s : s[i].do \in Connects => s[i].info \in Asks(s)
  BY DEF Asks
<1>5. Once(t)
  BY <1>1, <1>2, <1>4 DEF Once
<1>6. Asks(t) \subseteq Asks(s) \cup (IF e.do \in Connects THEN {e.info} ELSE {})
  <2>1. ASSUME NEW i \in DOMAIN t, t[i].do \in Connects
        PROVE  t[i].info \in Asks(s) \cup (IF e.do \in Connects THEN {e.info} ELSE {})
    BY <1>2, <1>4, <2>1
  <2> QED BY <2>1 DEF Asks
<1>7. HasFirsts(t) => HasFirsts(s) \/ e.do \in Firsts
  BY <1>2 DEF HasFirsts
<1>8. t \in Box(n)
  BY <1>3, <1>5 DEF Box
<1> QED BY <1>6, <1>7, <1>8

-----------------------------------------------------------------------------
(* The start. *)

LEMMA InitInv ==
  ASSUME ConnectAssumption, Init
  PROVE  ConnectInv
<1> USE DEF Init
<1>1. script \in Part(Commands, AllRequests) /\ WaitFirst(script) /\ Waits(script)
  BY ScriptFacts
<1>2. Made = {}
  <2>1. ASSUME NEW c \in AllRequests, Own(c) PROVE FALSE
    <3>1. c.reader # Output => c.reader \in Nodes
      BY RequestFacts, Numbers
    <3>2. c.reader = Output => c.writer \in Nodes
      BY RequestFacts, Numbers
    <3>3. \A n \in Nodes : DOMAIN readers[n] = {} /\ DOMAIN writers[n] = {}
      BY EmptySeq
    <3> QED BY <2>1, <3>1, <3>2, <3>3 DEF Own
  <2> QED BY <2>1 DEF Made
<1>3. TypeOK
  <2>1. <<>> \in Seq(Entries) /\ <<>> \in Seq(Connections) /\ DOMAIN <<>> = {}
    BY EmptySeq
  <2>2. NoConnection \in Connections
    BY DEF NoConnection, Connections
  <2>3. \A n \in Nodes : <<>> \in Box(n)
    BY <2>1 DEF Box, Once
  <2> QED BY <1>1, <2>1, <2>2, <2>3 DEF TypeOK
<1>4. Working
  BY Numbers DEF Working, Busy
<1>5. AskedOnce
  <2>1. Asks(<<>>) = {}
    BY EmptySeq DEF Asks
  <2> QED BY <1>2, <2>1, Numbers DEF AskedOnce, Busy
<1>6. Announcing /\ Connecting /\ Queued
  BY Numbers DEF Announcing, Connecting, Queued
<1>7. Paired
  <2>1. \A c \in AllRequests : ~ Own(c) /\ Asker(c) \in Nodes
    BY <1>2, RequestFacts, Numbers DEF Made
  <2> QED BY <2>1 DEF Paired
<1>8. Ordered
  <2>1. established = Cardinality(Made)
    BY <1>2, FS_EmptySet
  <2>2. ~ HasFirsts(<<>>)
    BY EmptySeq DEF HasFirsts
  <2>3. ~ Waited
    BY <1>1 DEF Waited, Waits
  <2> QED BY <1>1, <2>1, <2>2, <2>3 DEF Ordered
<1>9. RightPeers
  <2>1. \A n \in Listeners : DOMAIN readers[n] = {} /\ DOMAIN writers[n] = {}
    BY EmptySeq, Numbers
  <2> QED BY <2>1 DEF RightPeers
<1> QED BY <1>3, <1>4, <1>5, <1>6, <1>7, <1>8, <1>9 DEF ConnectInv

-----------------------------------------------------------------------------
(* What a step leaves as it was. *)

LEMMA SameStreams ==
  ASSUME UNCHANGED <<readers, writers>>
  PROVE  (\A c : (Own(c))' = Own(c) /\ (Theirs(c))' = Theirs(c)) /\ Made' = Made
<1>1. \A c : (Own(c))' = Own(c) /\ (Theirs(c))' = Theirs(c)
  BY DEF Own, Theirs
<1> QED BY <1>1 DEF Made

LEMMA SamePeers ==
  ASSUME RightPeers, UNCHANGED <<readers, writers, failed>>
  PROVE  RightPeers'
BY DEF RightPeers

LEMMA SameHandshakes ==
  ASSUME Announcing, Connecting, Queued, Paired,
         UNCHANGED <<announced, state, inHand, backlog, readers, writers>>
  PROVE  Announcing' /\ Connecting' /\ Queued' /\ Paired'
<1>1. \A c : (Own(c))' = Own(c) /\ (Theirs(c))' = Theirs(c)
  BY SameStreams
<1>2. Announcing'
  BY DEF Announcing
<1>3. Connecting'
  BY DEF Connecting
<1>4. Queued'
  BY DEF Queued
<1>5. Paired'
  BY <1>1 DEF Paired
<1> QED BY <1>2, <1>3, <1>4, <1>5

LEMMA LessAsked ==
  ASSUME AskedOnce, script' = script, Made' = Made,
         \A m \in Nodes : Asks(mail'[m]) \subseteq Asks(mail[m]), Correlators \subseteq Nodes,
         \A m \in Correlators : (Busy(m))' => Busy(m) /\ inHand'[m] = inHand[m]
  PROVE  AskedOnce'
<1>1. Asks(script)' = Asks(script)
  OBVIOUS
<1>2. (Asks(script) \cap Made)' = {}
  BY <1>1 DEF AskedOnce
<1>3. ASSUME NEW m \in Nodes
      PROVE  (Asks(script) \cap Asks(mail[m]) = {} /\ Asks(mail[m]) \cap Made = {})'
  BY <1>1 DEF AskedOnce
<1>4. ASSUME NEW m \in Correlators, (Busy(m))'
      PROVE  (inHand[m] \notin Asks(script) /\ inHand[m] \notin Asks(mail[m]) /\ inHand[m] \notin Made)'
  <2>1. m \in Nodes /\ Busy(m) /\ inHand'[m] = inHand[m]
    BY <1>4
  <2>2. inHand[m] \notin Asks(script) /\ inHand[m] \notin Asks(mail[m]) /\ inHand[m] \notin Made
    BY <1>4, <2>1 DEF AskedOnce
  <2> QED BY <1>1, <2>1, <2>2
<1> QED BY <1>2, <1>3, <1>4 DEF AskedOnce

LEMMA SameOrder ==
  ASSUME Ordered, script' = script, Made' = Made, established' = established,
         \A m \in Nodes : HasFirsts(mail'[m]) => HasFirsts(mail[m]),
         weights' # {} => weights # {} \/ Waited
  PROVE  Ordered'
<1>1. Waited' = Waited /\ (WaitFirst(script))' = WaitFirst(script)
  BY DEF Waited
<1>2. (established = Cardinality(Made))'
  BY DEF Ordered
<1>3. (\E n \in Nodes : HasFirsts(mail'[n])) \/ weights' # {} => Waited
  BY DEF Ordered
<1> QED BY <1>1, <1>2, <1>3 DEF Ordered

-----------------------------------------------------------------------------
(* Taking a message. *)

Taken(n, do) ==
  /\ mail' \in [Nodes -> Seq(Entries)]
  /\ \A m \in Nodes :
       /\ mail'[m] \in Box(m) /\ Asks(mail'[m]) \subseteq Asks(mail[m])
       /\ HasFirsts(mail'[m]) => HasFirsts(mail[m])
  /\ Head(mail[n]) \in Entries /\ Sensible(Head(mail[n]))
  /\ Head(mail[n]).rank = n /\ Head(mail[n]).do = do
  /\ do \in Connects => Head(mail[n]).info \in Asks(mail[n]) /\ Head(mail[n]).info \notin Asks(mail'[n])
  /\ do \in Firsts => HasFirsts(mail[n])

LEMMA TakesFacts ==
  ASSUME ConnectInv, NEW n \in Nodes, NEW do, Takes(n, do)
  PROVE  Taken(n, do)
<1>1. mail \in [Nodes -> Seq(Entries)] /\ \A m \in Nodes : mail[m] \in Box(m)
  BY DEF ConnectInv, TypeOK
<1>2. /\ mail[n] # <<>> /\ Head(mail[n]).do = do /\ mail' = [mail EXCEPT ![n] = Tail(@)]
  BY DEF Takes
<1> PICK s \in Box(n) : s = mail[n]
  BY <1>1
<1>3. /\ Tail(s) \in Box(n) /\ Head(s) \in Entries /\ Sensible(Head(s)) /\ Head(s).rank = n
      /\ Asks(Tail(s)) \subseteq Asks(s)
      /\ Head(s).do \in Connects => Head(s).info \in Asks(s) /\ Head(s).info \notin Asks(Tail(s))
      /\ HasFirsts(Tail(s)) => HasFirsts(s)
      /\ Head(s).do \in Firsts => HasFirsts(s)
  BY <1>2, Taking
<1>4. mail'[n] = Tail(s) /\ \A m \in Nodes : m # n => mail'[m] = mail[m]
  BY <1>1, <1>2
<1>5. Tail(s) \in Seq(Entries)
  BY <1>3 DEF Box
<1>6. mail' \in [Nodes -> Seq(Entries)]
  BY <1>1, <1>2, <1>5
<1>7. ASSUME NEW m \in Nodes
      PROVE  /\ mail'[m] \in Box(m) /\ Asks(mail'[m]) \subseteq Asks(mail[m])
             /\ HasFirsts(mail'[m]) => HasFirsts(mail[m])
  <2>1. CASE m = n
    BY <1>3, <1>4, <2>1
  <2>2. CASE m # n
    BY <1>1, <1>4, <2>2
  <2> QED BY <2>1, <2>2
<1> QED BY <1>2, <1>3, <1>4, <1>6, <1>7 DEF Taken

\* A node that asks is in the request.
LEMMA AskerInMail ==
  ASSUME ConnectAssumption, NEW n, NEW s \in Box(n), NEW c \in Asks(s)
  PROVE  c \in AllRequests /\ Asker(c) = n
<1>1. PICK i \in DOMAIN s : s[i].do \in Connects /\ s[i].info = c
  BY DEF Asks
<1>2. Sensible(s[i]) /\ s[i].rank = n
  BY DEF Box
<1>3. \/ c \in ReaderRequests /\ c.reader = n
      \/ c \in WriterRequests /\ c.writer = n
  BY <1>1, <1>2 DEF Sensible, Connects
<1> QED BY <1>3, ReaderFacts, WriterFacts DEF AllRequests

LEMMA StartNodeStep ==
  ASSUME ConnectAssumption, ConnectInv, NEW n \in Nodes, StartNode(n)
  PROVE  ConnectInv'
<1> USE DEF ConnectInv
<1>1. /\ Takes(n, "start") /\ state[n] = "absent" /\ state' = [state EXCEPT ![n] = "idle"]
      /\ UNCHANGED <<mVars, established, inHand, announced, backlog, streamVars, weights, failed>>
  BY DEF StartNode, Takes, Becomes
<1>2. Taken(n, "start")
  BY <1>1, TakesFacts
<1>3. UNCHANGED <<script, established, inHand, announced, backlog, readers, writers, weights, failed>>
  BY <1>1 DEF mVars, streamVars
<1>4. /\ (\A c : (Own(c))' = Own(c) /\ (Theirs(c))' = Theirs(c)) /\ Made' = Made
      /\ RightPeers'
  BY <1>3, SameStreams, SamePeers
<1>5. /\ state' \in [Nodes -> {"absent", "idle", "send", "connect", "connected", "accept"}]
      /\ state'[n] = "idle" /\ \A m \in Nodes : m # n => state'[m] = state[m]
  BY <1>1 DEF TypeOK
<1>6. TypeOK'
  BY <1>2, <1>3, <1>5 DEF TypeOK, Taken
<1>7. Working'
  BY <1>3, <1>5, Numbers DEF Working, Busy
<1>8. AskedOnce'
  <2>1. \A m \in Correlators : (Busy(m))' => Busy(m) /\ inHand'[m] = inHand[m]
    BY <1>3, <1>5, Numbers DEF Busy
  <2> QED BY <1>2, <1>3, <1>4, <2>1, LessAsked, Numbers DEF Taken
<1>9. Announcing' /\ Queued'
  BY <1>1, <1>3, <1>5, RequestFacts, Numbers DEF Announcing, Queued
<1>10. Connecting'
  <2>1. \A m \in Correlators : state[m] = "connect" => Peer(inHand[m]) \in Listeners
    BY RequestFacts DEF Working, Busy
  <2> QED BY <1>1, <1>3, <1>5, <2>1, Numbers DEF Connecting
<1>11. Paired'
  BY <1>1, <1>3, <1>4, <1>5, RequestFacts, Numbers DEF Paired
<1>12. Ordered'
  BY <1>2, <1>3, <1>4, SameOrder DEF Taken
<1> QED BY <1>4, <1>6, <1>7, <1>8, <1>9, <1>10, <1>11, <1>12

-----------------------------------------------------------------------------
(* The correlator node connects. *)

\* Correlator node n announces connection c to its peer.
Announces(n, c) ==
  /\ c \in AllRequests /\ Asker(c) = n
  /\ \E do \in Connects : Takes(n, do) /\ Head(mail[n]).info = c
  /\ inHand' = [inHand EXCEPT ![n] = c]
  /\ announced' = [announced EXCEPT ![Peer(c)] = @ \cup {c}]
  /\ state' = [state EXCEPT ![n] = "send"]
  /\ UNCHANGED <<script, awaited, answers, established, backlog, readers, writers, weights, failed>>

LEMMA AnnouncesStep ==
  ASSUME ConnectAssumption, ConnectInv, NEW n \in Correlators, NEW c, Announces(n, c)
  PROVE  ConnectInv'
<1> USE DEF ConnectInv
<1>1. /\ c \in AllRequests /\ Asker(c) = n /\ c \in Connections /\ Peer(c) \in Listeners
      /\ Peer(c) \in Nodes /\ n \in Nodes /\ n \notin Listeners
  BY RequestFacts, Numbers DEF Announces
<1>2. PICK do \in Connects : Takes(n, do) /\ Head(mail[n]).info = c
  BY DEF Announces
<1>3. Taken(n, do) /\ state[n] = "idle" /\ do \notin Firsts
  BY <1>1, <1>2, TakesFacts DEF Takes, Connects, Firsts
<1>4. UNCHANGED <<script, established, backlog, readers, writers, weights, failed>>
  BY DEF Announces
<1>5. /\ (\A d : (Own(d))' = Own(d) /\ (Theirs(d))' = Theirs(d)) /\ Made' = Made
      /\ RightPeers'
  BY <1>4, SameStreams, SamePeers
<1>6. /\ state' \in [Nodes -> {"absent", "idle", "send", "connect", "connected", "accept"}]
      /\ state'[n] = "send" /\ \A m \in Nodes : m # n => state'[m] = state[m]
  BY <1>1 DEF TypeOK, Announces
<1>7. /\ inHand' \in [Nodes -> Connections]
      /\ inHand'[n] = c /\ \A m \in Nodes : m # n => inHand'[m] = inHand[m]
  BY <1>1 DEF TypeOK, Announces
<1>8. /\ announced' \in [Nodes -> SUBSET Connections]
      /\ announced'[Peer(c)] = announced[Peer(c)] \cup {c}
      /\ \A m \in Nodes : m # Peer(c) => announced'[m] = announced[m]
  BY <1>1 DEF TypeOK, Announces
<1>9. c \in Asks(mail[n]) /\ c \notin Asks(mail'[n])
  BY <1>2, <1>3 DEF Taken
<1>10. c \notin Made /\ c \notin Asks(script)
  BY <1>1, <1>9 DEF AskedOnce
<1>11. TypeOK'
  BY <1>3, <1>4, <1>6, <1>7, <1>8 DEF TypeOK, Taken
<1>12. Working'
  BY <1>1, <1>6, <1>7, Numbers DEF Working, Busy
<1>13. AskedOnce'
  <2>1. \A m \in Nodes : Asks(mail'[m]) \subseteq Asks(mail[m])
    BY <1>3 DEF Taken
  <2>2. (Asks(script) \cap Made)' = {}
    BY <1>4, <1>5 DEF AskedOnce
  <2>3. ASSUME NEW m \in Nodes
        PROVE  (Asks(script) \cap Asks(mail[m]) = {} /\ Asks(mail[m]) \cap Made = {})'
    BY <1>4, <1>5, <2>1 DEF AskedOnce
  <2>4. ASSUME NEW m \in Correlators, (Busy(m))'
        PROVE  (inHand[m] \notin Asks(script) /\ inHand[m] \notin Asks(mail[m]) /\ inHand[m] \notin Made)'
    <3>1. CASE m = n
      BY <1>4, <1>5, <1>7, <1>9, <1>10, <3>1
    <3>2. CASE m # n
      <4>1. m \in Nodes
        BY Numbers
      <4>2. Busy(m) /\ inHand'[m] = inHand[m]
        BY <1>6, <1>7, <2>4, <3>2, <4>1 DEF Busy
      <4> QED BY <1>4, <1>5, <2>1, <4>1, <4>2 DEF AskedOnce
    <3> QED BY <3>1, <3>2
  <2> QED BY <2>2, <2>3, <2>4 DEF AskedOnce
<1>14. Announcing'
  <2> SUFFICES ASSUME NEW m \in Listeners, NEW d \in announced'[m]
               PROVE  /\ d \in AllRequests /\ Peer(d) = m
                      /\ state'[Asker(d)] = "send" /\ inHand'[Asker(d)] = d
    BY DEF Announcing
  <2>1. CASE d = c /\ m = Peer(c)
    BY <1>1, <1>6, <1>7, <2>1
  <2>2. CASE d \in announced[m]
    <3>1. d \in AllRequests /\ Peer(d) = m /\ state[Asker(d)] = "send" /\ inHand[Asker(d)] = d
      BY <2>2 DEF Announcing
    <3>2. Asker(d) \in Nodes
      BY <3>1, RequestFacts, Numbers
    <3> QED BY <1>3, <1>6, <1>7, <3>1, <3>2
  <2>3. m \in Nodes
    BY Numbers
  <2> QED BY <1>8, <2>1, <2>2, <2>3
<1>15. Connecting'
  <2> SUFFICES ASSUME NEW m \in Correlators, state'[m] = "connect"
               PROVE  /\ state'[Peer(inHand'[m])] = "accept" /\ inHand'[Peer(inHand'[m])] = inHand'[m]
                      /\ backlog'[Peer(inHand'[m])] = <<>>
    BY DEF Connecting
  <2>1. m \in Nodes /\ m # n
    BY <1>6, Numbers
  <2>2. state[m] = "connect" /\ inHand'[m] = inHand[m]
    BY <1>6, <1>7, <2>1
  <2>3. Peer(inHand[m]) \in Listeners
    BY <2>2, RequestFacts DEF Working, Busy
  <2>4. Peer(inHand[m]) \in Nodes /\ Peer(inHand[m]) # n
    BY <1>1, <2>3, Numbers
  <2> QED BY <1>4, <1>6, <1>7, <2>2, <2>4 DEF Connecting
<1>16. Queued'
  BY <1>1, <1>4, <1>6, <1>7, Numbers DEF Queued
<1>17. Paired'
  <2> SUFFICES ASSUME NEW d \in AllRequests,
                      Own(d) \/ (state'[Asker(d)] = "connected" /\ inHand'[Asker(d)] = d)
               PROVE  Theirs(d) \/ (state'[Peer(d)] = "accept" /\ backlog'[Peer(d)] = <<d>>)
    BY <1>5 DEF Paired
  <2>1. Asker(d) \in Nodes /\ Peer(d) \in Nodes /\ Peer(d) # n
    BY <1>1, RequestFacts, Numbers
  <2>2. Own(d) \/ (state[Asker(d)] = "connected" /\ inHand[Asker(d)] = d)
    BY <1>6, <1>7, <2>1
  <2> QED BY <1>4, <1>6, <2>1, <2>2 DEF Paired
<1>18. Ordered'
  BY <1>3, <1>4, <1>5, SameOrder DEF Taken
<1> QED BY <1>5, <1>11, <1>12, <1>13, <1>14, <1>15, <1>16, <1>17, <1>18

LEMMA ReaderConnectedToStep ==
  ASSUME ConnectAssumption, ConnectInv, NEW n \in Correlators, ReaderConnectedTo(n)
  PROVE  ConnectInv'
<1>1. n \in Nodes
  BY Numbers
<1>2. Takes(n, "connect_reader")
  BY DEF ReaderConnectedTo
<1>3. Taken(n, "connect_reader")
  BY <1>1, <1>2, TakesFacts
<1>4. PICK c : c = Head(mail[n]).info
  OBVIOUS
<1>5. c \in ReaderRequests /\ c.reader = n
  BY <1>3, <1>4 DEF Taken, Sensible
<1>6. c \in AllRequests /\ Asker(c) = n /\ Peer(c) = c.writer
  BY <1>5, ReaderFacts DEF AllRequests
<1>7. inHand' = [inHand EXCEPT ![n] = c] /\ inHand'[n] = c
  BY <1>1, <1>4 DEF ReaderConnectedTo, ConnectInv, TypeOK
<1>8. Announces(n, c)
  BY <1>2, <1>4, <1>6, <1>7 DEF ReaderConnectedTo, Announce, Becomes, Announces, Connects, mVars, streamVars
<1> QED BY <1>8, AnnouncesStep

LEMMA WriterConnectedToStep ==
  ASSUME ConnectAssumption, ConnectInv, NEW n \in Correlators, WriterConnectedTo(n)
  PROVE  ConnectInv'
<1>1. n \in Nodes
  BY Numbers
<1>2. Takes(n, "connect_writer")
  BY DEF WriterConnectedTo
<1>3. Taken(n, "connect_writer")
  BY <1>1, <1>2, TakesFacts
<1>4. PICK c : c = Head(mail[n]).info
  OBVIOUS
<1>5. c \in WriterRequests /\ c.writer = n
  BY <1>3, <1>4 DEF Taken, Sensible
<1>6. c \in AllRequests /\ Asker(c) = n /\ Peer(c) = c.reader
  BY <1>5, WriterFacts DEF AllRequests
<1>7. inHand' = [inHand EXCEPT ![n] = c] /\ inHand'[n] = c
  BY <1>1, <1>4 DEF WriterConnectedTo, ConnectInv, TypeOK
<1>8. Announces(n, c)
  BY <1>2, <1>4, <1>6, <1>7 DEF WriterConnectedTo, Announce, Becomes, Announces, Connects, mVars, streamVars
<1> QED BY <1>8, AnnouncesStep

LEMMA ConnectStep ==
  ASSUME ConnectAssumption, ConnectInv, NEW n \in Correlators, ConnectReader(n) \/ ConnectWriter(n)
  PROVE  ConnectInv'
<1> USE DEF ConnectInv
<1>1. PICK c : c = inHand[n]
  OBVIOUS
<1>2. state[n] = "connect"
  BY DEF ConnectReader, ConnectWriter, Connect
<1>3. /\ c \in AllRequests /\ Asker(c) = n /\ c \in Connections /\ Peer(c) \in Listeners
      /\ Peer(c) \in Nodes /\ n \in Nodes /\ n \notin Listeners
  BY <1>1, <1>2, RequestFacts, Numbers DEF Working, Busy
<1>4. Connect(n, Peer(c))
  <2>1. CASE ConnectReader(n)
    <3>1. c.reader # Output
      BY <1>1, <1>3, <2>1, Numbers DEF ConnectReader
    <3> QED BY <1>1, <1>3, <2>1, <3>1, RequestFacts DEF ConnectReader
  <2>2. CASE ConnectWriter(n)
    <3>1. c.reader = Output
      BY <1>1, <1>3, <2>2, RequestFacts DEF ConnectWriter
    <3> QED BY <1>1, <1>3, <2>2, <3>1, RequestFacts DEF ConnectWriter
  <2> QED BY <2>1, <2>2
<1> PICK to \in Listeners : to = Peer(c)
  BY <1>3
<1>5. UNCHANGED <<script, mail, established, inHand, announced, readers, writers, weights, failed>>
  BY <1>4 DEF Connect, mVars, streamVars
<1>6. state[to] = "accept" /\ inHand[to] = c /\ backlog[to] = <<>>
  BY <1>1, <1>2 DEF Connecting
<1>7. /\ backlog' \in [Listeners -> Seq(Connections)]
      /\ backlog'[to] = <<c>> /\ \A m \in Listeners : m # to => backlog'[m] = backlog[m]
  <2>1. backlog' = [backlog EXCEPT ![to] = Append(@, c)] /\ backlog \in [Listeners -> Seq(Connections)]
    BY <1>1, <1>4 DEF Connect, TypeOK
  <2>2. Append(<<>>, c) = <<c>> /\ <<c>> \in Seq(Connections)
    BY <1>3
  <2>3. backlog' = [backlog EXCEPT ![to] = <<c>>]
    BY <1>6, <2>1, <2>2
  <2> QED BY <2>1, <2>2, <2>3
<1>8. /\ state' \in [Nodes -> {"absent", "idle", "send", "connect", "connected", "accept"}]
      /\ state'[n] = "connected" /\ \A m \in Nodes : m # n => state'[m] = state[m]
  BY <1>3, <1>4 DEF TypeOK, Connect, Becomes
<1>9. /\ (\A d : (Own(d))' = Own(d) /\ (Theirs(d))' = Theirs(d)) /\ Made' = Made
      /\ RightPeers'
  BY <1>5, SameStreams, SamePeers
<1>10. TypeOK'
  BY <1>5, <1>7, <1>8 DEF TypeOK
<1>11. Working'
  BY <1>1, <1>3, <1>5, <1>8, Numbers DEF Working, Busy
<1>12. AskedOnce'
  <2>1. \A m \in Correlators : (Busy(m))' => Busy(m) /\ inHand'[m] = inHand[m]
    BY <1>2, <1>5, <1>8, Numbers DEF Busy
  <2>2. \A m \in Nodes : Asks(mail'[m]) \subseteq Asks(mail[m])
    BY <1>5
  <2> QED BY <1>5, <1>9, <2>1, <2>2, LessAsked, Numbers
<1>13. Announcing'
  BY <1>2, <1>5, <1>8, RequestFacts, Numbers DEF Announcing
<1>14. Connecting'
  <2> SUFFICES ASSUME NEW m \in Correlators, state'[m] = "connect"
               PROVE  /\ state'[Peer(inHand'[m])] = "accept" /\ inHand'[Peer(inHand'[m])] = inHand'[m]
                      /\ backlog'[Peer(inHand'[m])] = <<>>
    BY DEF Connecting
  <2>1. m \in Nodes /\ m # n /\ state[m] = "connect" /\ inHand'[m] = inHand[m]
    BY <1>5, <1>8, Numbers
  <2>2. inHand[m] \in AllRequests /\ Asker(inHand[m]) = m
    BY <2>1 DEF Working, Busy
  <2>3. PICK p \in Listeners : p = Peer(inHand[m])
    BY <2>2, RequestFacts
  <2>4. state[p] = "accept" /\ inHand[p] = inHand[m] /\ backlog[p] = <<>>
    BY <2>1, <2>3 DEF Connecting
  <2>5. p # to
    BY <1>3, <1>6, <2>1, <2>2, <2>4
  <2>6. p \in Nodes /\ p # n
    BY <1>3, Numbers
  <2> QED BY <1>5, <1>7, <1>8, <2>1, <2>3, <2>4, <2>5, <2>6
<1>15. Queued'
  <2> SUFFICES ASSUME NEW m \in Listeners, backlog'[m] # <<>>
               PROVE  state'[m] = "accept" /\ backlog'[m] = <<inHand'[m]>>
    BY DEF Queued
  <2>1. m \in Nodes /\ m # n
    BY <1>3, Numbers
  <2>2. CASE m = to
    BY <1>5, <1>6, <1>7, <1>8, <2>1, <2>2
  <2>3. CASE m # to
    BY <1>5, <1>7, <1>8, <2>1, <2>3 DEF Queued
  <2> QED BY <2>2, <2>3
<1>16. Paired'
  <2> SUFFICES ASSUME NEW d \in AllRequests,
                      Own(d) \/ (state'[Asker(d)] = "connected" /\ inHand'[Asker(d)] = d)
               PROVE  Theirs(d) \/ (state'[Peer(d)] = "accept" /\ backlog'[Peer(d)] = <<d>>)
    BY <1>9 DEF Paired
  <2>1. Asker(d) \in Nodes /\ Peer(d) \in Listeners /\ Peer(d) \in Nodes /\ Peer(d) # n
    BY <1>3, RequestFacts, Numbers
  <2>2. CASE d = c
    BY <1>6, <1>7, <1>8, <2>1, <2>2
  <2>3. CASE d # c
    <3>1. Own(d) \/ (state[Asker(d)] = "connected" /\ inHand[Asker(d)] = d)
      BY <1>1, <1>5, <1>8, <2>1, <2>3
    <3>2. Theirs(d) \/ (state[Peer(d)] = "accept" /\ backlog[Peer(d)] = <<d>>)
      BY <3>1 DEF Paired
    <3>3. backlog[Peer(d)] = <<d>> => Peer(d) # to
      <4>1. <<d>> # <<>>
        OBVIOUS
      <4> QED BY <1>6, <4>1
    <3> QED BY <1>7, <1>8, <2>1, <3>2, <3>3
  <2> QED BY <2>2, <2>3
<1>17. Ordered'
  <2>1. \A m \in Nodes : HasFirsts(mail'[m]) => HasFirsts(mail[m])
    BY <1>5
  <2> QED BY <1>5, <1>9, <2>1, SameOrder
<1> QED BY <1>9, <1>10, <1>11, <1>12, <1>13, <1>14, <1>15, <1>16, <1>17

\* The streams of a correlator node when one is added, and what is made by it.
LEMMA OwnAdded ==
  ASSUME ConnectAssumption, NEW n \in Correlators, NEW c \in AllRequests, Asker(c) = n,
         DOMAIN readers = Nodes, DOMAIN writers = Nodes,
         \/ c.reader # Output /\ AddDataReader(n, c.readerStream, c)
         \/ c.reader = Output /\ AddDataWriter(n, 0, c)
  PROVE  /\ DOMAIN readers' = Nodes /\ DOMAIN writers' = Nodes
         /\ \A m \in Listeners : readers'[m] = readers[m] /\ writers'[m] = writers[m]
         /\ \A d \in AllRequests : (Own(d))' <=> (Own(d) \/ d = c)
<1>1. n \in Nodes /\ n \notin Listeners /\ Listeners \subseteq Nodes /\ Output \in Listeners
  BY Numbers
<1>2. CASE c.reader # Output /\ AddDataReader(n, c.readerStream, c)
  <2>1. PICK k : k = c.readerStream
    OBVIOUS
  <2>2. /\ c.reader = n /\ c \in ReaderRequests /\ writers' = writers
        /\ readers' = [readers EXCEPT ![n] = With(@, k, c)]
    BY <1>2, <2>1, RequestFacts DEF AddDataReader
  <2>3. DOMAIN readers' = Nodes /\ readers'[n] = With(readers[n], k, c)
    BY <1>1, <2>2
  <2>4. \A m \in Nodes : m # n => readers'[m] = readers[m]
    BY <2>2
  <2>5. /\ DOMAIN readers'[n] = DOMAIN readers[n] \cup {k} /\ readers'[n][k] = c
        /\ \A i \in DOMAIN readers[n] : i # k => readers'[n][i] = readers[n][i]
    <3>1. PICK f, g : f = readers[n] /\ g = readers'[n]
      OBVIOUS
    <3>2. g = With(f, k, c)
      BY <2>3, <3>1
    <3>3. /\ DOMAIN g = DOMAIN f \cup {k} /\ g[k] = c
          /\ \A i \in DOMAIN f : i # k => g[i] = f[i]
      BY <3>2 DEF With
    <3> QED BY <3>1, <3>3, Zenon
  <2>6. ASSUME NEW d \in AllRequests PROVE (Own(d))' <=> (Own(d) \/ d = c)
    <3>1. CASE d.reader = Output
      BY <1>2, <2>2, <3>1 DEF Own
    <3>2. CASE d.reader # Output /\ d.reader # n
      <4>1. d.reader \in Nodes
        BY <3>2, RequestFacts, Numbers
      <4> QED BY <2>2, <2>4, <3>2, <4>1 DEF Own
    <3>3. CASE d.reader # Output /\ d.reader = n /\ d.readerStream # k
      BY <2>1, <2>5, <3>3 DEF Own
    <3>4. CASE d.reader # Output /\ d.reader = n /\ d.readerStream = k
      <4>1. d = c
        BY <2>1, <2>2, <3>4, RequestFacts, OneConnection
      <4> QED BY <1>2, <2>1, <2>2, <2>5, <4>1 DEF Own
    <3> QED BY <3>1, <3>2, <3>3, <3>4
  <2> QED BY <1>1, <2>2, <2>3, <2>4, <2>6
<1>3. CASE c.reader = Output /\ AddDataWriter(n, 0, c)
  <2>2. /\ c.writer = n /\ c \in WriterRequests /\ readers' = readers
        /\ writers' = [writers EXCEPT ![n] = With(@, 0, c)]
    BY <1>3, RequestFacts DEF AddDataWriter
  <2>3. DOMAIN writers' = Nodes /\ writers'[n] = With(writers[n], 0, c)
    BY <1>1, <2>2
  <2>4. \A m \in Nodes : m # n => writers'[m] = writers[m]
    BY <2>2
  <2>5. DOMAIN writers'[n] = DOMAIN writers[n] \cup {0} /\ writers'[n][0] = c
    <3>1. PICK f, g : f = writers[n] /\ g = writers'[n]
      OBVIOUS
    <3>2. g = With(f, 0, c)
      BY <2>3, <3>1
    <3>3. DOMAIN g = DOMAIN f \cup {0} /\ g[0] = c
      BY <3>2 DEF With
    <3> QED BY <3>1, <3>3, Zenon
  <2>6. ASSUME NEW d \in AllRequests PROVE (Own(d))' <=> (Own(d) \/ d = c)
    <3>1. CASE d.reader # Output
      BY <1>3, <2>2, <3>1 DEF Own
    <3>2. CASE d.reader = Output /\ d.writer # n
      <4>1. d.writer \in Nodes
        BY <3>2, RequestFacts, Numbers
      <4> QED BY <2>2, <2>4, <3>2, <4>1 DEF Own
    <3>3. CASE d.reader = Output /\ d.writer = n
      <4>1. d = c
        BY <2>2, <3>3, RequestFacts, OneConnection
      <4> QED BY <1>3, <2>2, <2>5, <4>1 DEF Own
    <3> QED BY <3>1, <3>2, <3>3
  <2> QED BY <1>1, <2>2, <2>3, <2>4, <2>6
<1> QED BY <1>2, <1>3

LEMMA EstablishedStep ==
  ASSUME ConnectAssumption, ConnectInv, NEW n \in Correlators, Established(n)
  PROVE  ConnectInv'
<1> USE DEF ConnectInv
<1>1. PICK c : c = inHand[n]
  OBVIOUS
<1>2. state[n] = "connected" /\ established' = established + 1
  BY DEF Established
<1>3. /\ c \in AllRequests /\ Asker(c) = n /\ n \in Nodes /\ n \notin Listeners
      /\ c \notin Asks(script) /\ c \notin Asks(mail[n]) /\ c \notin Made
  BY <1>1, <1>2, Numbers DEF Working, AskedOnce, Busy
<1>4. \/ c.reader # Output /\ AddDataReader(n, c.readerStream, c)
      \/ c.reader = Output /\ AddDataWriter(n, 0, c)
  <2>1. CASE c.reader = n /\ AddDataReader(n, c.readerStream, c)
    BY <1>3, <2>1, Numbers
  <2>2. CASE c.writer = n /\ AddDataWriter(n, c.stream, c)
    <3>1. c.reader = Output
      BY <1>3, <2>2, RequestFacts
    <3>2. c.stream = 0
      BY <1>3, <3>1, RequestFacts
    <3> QED BY <2>2, <3>1, <3>2
  <2> QED BY <1>1, <2>1, <2>2 DEF Established
<1>5. /\ DOMAIN readers' = Nodes /\ DOMAIN writers' = Nodes
      /\ \A m \in Listeners : readers'[m] = readers[m] /\ writers'[m] = writers[m]
      /\ \A d \in AllRequests : (Own(d))' <=> (Own(d) \/ d = c)
  <2>1. DOMAIN readers = Nodes /\ DOMAIN writers = Nodes
    BY DEF TypeOK
  <2> QED BY <1>3, <1>4, <2>1, OwnAdded
<1>6. UNCHANGED <<script, mail, inHand, announced, backlog, weights, failed>>
  BY DEF Established, mVars
<1>7. /\ state' \in [Nodes -> {"absent", "idle", "send", "connect", "connected", "accept"}]
      /\ state'[n] = "idle" /\ \A m \in Nodes : m # n => state'[m] = state[m]
  BY <1>3 DEF TypeOK, Established, Becomes
<1>8. Made' = Made \cup {c}
  BY <1>3, <1>5 DEF Made
<1>9. TypeOK'
  BY <1>2, <1>5, <1>6, <1>7 DEF TypeOK
<1>10. Working'
  BY <1>3, <1>6, <1>7, Numbers DEF Working, Busy
<1>11. \A m \in Nodes : c \notin Asks(mail[m])
  <2>1. ASSUME NEW m \in Nodes, c \in Asks(mail[m]) PROVE FALSE
    <3>1. mail[m] \in Box(m)
      BY DEF TypeOK
    <3>2. m = n
      BY <1>3, <2>1, <3>1, AskerInMail
    <3> QED BY <1>3, <2>1, <3>2
  <2> QED BY <2>1
<1>12. AskedOnce'
  <2>1. (Asks(script) \cap Made)' = {}
    BY <1>3, <1>6, <1>8 DEF AskedOnce
  <2>2. ASSUME NEW m \in Nodes
        PROVE  (Asks(script) \cap Asks(mail[m]) = {} /\ Asks(mail[m]) \cap Made = {})'
    BY <1>6, <1>8, <1>11 DEF AskedOnce
  <2>3. ASSUME NEW m \in Correlators, (Busy(m))'
        PROVE  (inHand[m] \notin Asks(script) /\ inHand[m] \notin Asks(mail[m]) /\ inHand[m] \notin Made)'
    <3>1. m \in Nodes
      BY Numbers
    <3>2. m # n /\ Busy(m)
      BY <1>7, <2>3, <3>1 DEF Busy
    <3>3. inHand[m] # c
      BY <1>3, <3>2 DEF Working
    <3> QED BY <1>6, <1>8, <3>2, <3>3 DEF AskedOnce
  <2> QED BY <2>1, <2>2, <2>3 DEF AskedOnce
<1>13. Announcing'
  BY <1>2, <1>6, <1>7, RequestFacts, Numbers DEF Announcing
<1>14. Connecting'
  <2> SUFFICES ASSUME NEW m \in Correlators, state'[m] = "connect"
               PROVE  /\ state'[Peer(inHand'[m])] = "accept" /\ inHand'[Peer(inHand'[m])] = inHand'[m]
                      /\ backlog'[Peer(inHand'[m])] = <<>>
    BY DEF Connecting
  <2>1. m \in Nodes /\ m # n /\ state[m] = "connect"
    BY <1>7, Numbers
  <2>2. Peer(inHand[m]) \in Listeners
    BY <2>1, RequestFacts DEF Working, Busy
  <2>3. Peer(inHand[m]) \in Nodes /\ Peer(inHand[m]) # n
    BY <1>3, <2>2, Numbers
  <2> QED BY <1>6, <1>7, <2>1, <2>3 DEF Connecting
<1>15. Queued'
  BY <1>3, <1>6, <1>7, Numbers DEF Queued
<1>16. Paired'
  <2> SUFFICES ASSUME NEW d \in AllRequests,
                      (Own(d))' \/ (state'[Asker(d)] = "connected" /\ inHand'[Asker(d)] = d)
               PROVE  (Theirs(d))' \/ (state'[Peer(d)] = "accept" /\ backlog'[Peer(d)] = <<d>>)
    BY DEF Paired
  <2>1. Asker(d) \in Nodes /\ Peer(d) \in Listeners /\ Peer(d) \in Nodes /\ Peer(d) # n
    BY <1>3, RequestFacts, Numbers
  <2>2. Own(d) \/ (state[Asker(d)] = "connected" /\ inHand[Asker(d)] = d)
    BY <1>1, <1>2, <1>3, <1>5, <1>6, <1>7, <2>1
  <2>3. (Theirs(d))' = Theirs(d)
    BY <1>5, RequestFacts, Numbers DEF Theirs
  <2> QED BY <1>6, <1>7, <2>1, <2>2, <2>3 DEF Paired
<1>17. Ordered'
  <2>1. IsFiniteSet(Made)
    BY RequestCount, FS_Subset DEF Made
  <2>2. Cardinality(Made') = Cardinality(Made) + 1
    BY <1>3, <1>8, <2>1, FS_AddElement
  <2>3. established' = Cardinality(Made')
    BY <1>2, <2>2 DEF Ordered
  <2>4. Waited' = Waited /\ (WaitFirst(script))' = WaitFirst(script)
    BY <1>6 DEF Waited
  <2>5. Waited => Made' = AllRequests
    BY <1>3, <1>8 DEF Ordered
  <2> QED BY <1>6, <2>3, <2>4, <2>5 DEF Ordered
<1>18. RightPeers'
  BY <1>5, <1>6 DEF RightPeers
<1> QED BY <1>9, <1>10, <1>12, <1>13, <1>14, <1>15, <1>16, <1>17, <1>18

-----------------------------------------------------------------------------
(* The node that listens. *)

LEMMA ConnectedFromStep ==
  ASSUME ConnectAssumption, ConnectInv, NEW n \in Listeners, ConnectedFrom(n)
  PROVE  ConnectInv'
<1> USE DEF ConnectInv
<1> DEFINE Other(c) == IF c.writer = n THEN c.reader ELSE c.writer
<1>1. PICK c \in announced[n] :
        /\ announced' = [announced EXCEPT ![n] = @ \ {c}]
        /\ inHand' = [inHand EXCEPT ![n] = c]
        /\ state' = [state EXCEPT ![n] = "accept",
                                 ![Other(c)] = IF @ = "send" THEN "connect" ELSE @]
  BY DEF ConnectedFrom
<1>2. /\ c \in AllRequests /\ Peer(c) = n /\ state[Asker(c)] = "send" /\ inHand[Asker(c)] = c
      /\ c \in Connections /\ state[n] = "idle" /\ n \in Nodes
  BY RequestFacts, Numbers DEF Announcing, ConnectedFrom
<1> PICK p \in Correlators : p = Asker(c)
  BY <1>2, RequestFacts
<1>3. p \in Nodes /\ p # n /\ p \notin Listeners /\ n \notin Correlators
  BY Numbers
<1>4. Other(c) = p
  <2>1. CASE c.reader = Output
    BY <1>2, <1>3, <2>1, RequestFacts
  <2>2. CASE c.reader # Output
    BY <1>2, <1>3, <2>2, RequestFacts
  <2> QED BY <2>1, <2>2
<1>5. UNCHANGED <<script, mail, established, backlog, readers, writers, weights, failed>>
  BY DEF ConnectedFrom, mVars, streamVars
<1>6. /\ state' \in [Nodes -> {"absent", "idle", "send", "connect", "connected", "accept"}]
      /\ state'[n] = "accept" /\ state'[p] = "connect"
      /\ \A m \in Nodes : m # n /\ m # p => state'[m] = state[m]
  <2>1. state' = [state EXCEPT ![n] = "accept", ![p] = IF @ = "send" THEN "connect" ELSE @]
    BY <1>1, <1>4
  <2> QED BY <1>2, <1>3, <2>1 DEF TypeOK
<1>7. /\ inHand' \in [Nodes -> Connections]
      /\ inHand'[n] = c /\ \A m \in Nodes : m # n => inHand'[m] = inHand[m]
  BY <1>1, <1>2 DEF TypeOK
<1>8. /\ announced' \in [Nodes -> SUBSET Connections]
      /\ announced'[n] = announced[n] \ {c} /\ \A m \in Nodes : m # n => announced'[m] = announced[m]
  BY <1>1, <1>2 DEF TypeOK
<1>9. /\ (\A d : (Own(d))' = Own(d) /\ (Theirs(d))' = Theirs(d)) /\ Made' = Made
      /\ RightPeers'
  BY <1>5, SameStreams, SamePeers
<1>10. backlog[n] = <<>>
  BY <1>2 DEF Queued
<1>11. TypeOK'
  BY <1>5, <1>6, <1>7, <1>8 DEF TypeOK
<1>12. \A m \in Correlators : (Busy(m))' => Busy(m) /\ inHand'[m] = inHand[m]
  BY <1>2, <1>3, <1>6, <1>7, Numbers DEF Busy
<1>13. Working'
  <2>1. \A m \in Listeners : m \in Nodes /\ m # p
    BY <1>3, Numbers
  <2>2. \A m \in Correlators : m \in Nodes /\ m # n
    BY <1>3, Numbers
  <2>3. \A m \in Listeners : state'[m] \in {"absent", "idle", "accept"}
    BY <1>6, <2>1 DEF Working
  <2>4. \A m \in Correlators : state'[m] \in {"absent", "idle", "send", "connect", "connected"}
    BY <1>6, <2>2 DEF Working
  <2>5. \A m \in Correlators : (Busy(m))' => inHand'[m] \in AllRequests /\ Asker(inHand'[m]) = m
    BY <1>12 DEF Working
  <2>6. \A m \in Listeners : state'[m] = "accept" => inHand'[m] \in AllRequests /\ Peer(inHand'[m]) = m
    BY <1>2, <1>6, <1>7, <2>1 DEF Working
  <2> QED BY <2>3, <2>4, <2>5, <2>6 DEF Working
<1>14. AskedOnce'
  <2>1. \A m \in Nodes : Asks(mail'[m]) \subseteq Asks(mail[m])
    BY <1>5
  <2> QED BY <1>5, <1>9, <1>12, <2>1, LessAsked, Numbers
<1>15. Announcing'
  <2> SUFFICES ASSUME NEW m \in Listeners, NEW d \in announced'[m]
               PROVE  /\ d \in AllRequests /\ Peer(d) = m
                      /\ state'[Asker(d)] = "send" /\ inHand'[Asker(d)] = d
    BY DEF Announcing
  <2>1. m \in Nodes /\ d \in announced[m] /\ (m = n => d # c)
    BY <1>8, Numbers
  <2>2. d \in AllRequests /\ Peer(d) = m /\ state[Asker(d)] = "send" /\ inHand[Asker(d)] = d
    BY <2>1 DEF Announcing
  <2>3. Asker(d) \in Correlators /\ Asker(d) \in Nodes /\ Asker(d) # n
    BY <1>3, <2>2, RequestFacts, Numbers
  <2>4. Asker(d) # p
    BY <1>2, <2>1, <2>2
  <2> QED BY <1>6, <1>7, <2>2, <2>3, <2>4
<1>16. Connecting'
  <2> SUFFICES ASSUME NEW m \in Correlators, state'[m] = "connect"
               PROVE  /\ state'[Peer(inHand'[m])] = "accept" /\ inHand'[Peer(inHand'[m])] = inHand'[m]
                      /\ backlog'[Peer(inHand'[m])] = <<>>
    BY DEF Connecting
  <2>1. m \in Nodes /\ m # n /\ inHand'[m] = inHand[m]
    BY <1>3, <1>7, Numbers
  <2>2. CASE m = p
    <3>1. inHand'[m] = c
      BY <1>2, <2>1, <2>2
    <3> QED BY <1>2, <1>5, <1>6, <1>7, <1>10, <3>1
  <2>3. CASE m # p
    <3>1. state[m] = "connect"
      BY <1>6, <2>1, <2>3
    <3>2. PICK q \in Listeners : q = Peer(inHand[m])
      BY <3>1, RequestFacts DEF Working, Busy
    <3>3. state[q] = "accept" /\ inHand[q] = inHand[m] /\ backlog[q] = <<>>
      BY <3>1, <3>2 DEF Connecting
    <3>4. q \in Nodes /\ q # n /\ q # p
      BY <1>2, <1>3, <3>3, Numbers
    <3> QED BY <1>5, <1>6, <1>7, <2>1, <3>2, <3>3, <3>4
  <2> QED BY <2>2, <2>3
<1>17. Queued'
  <2> SUFFICES ASSUME NEW m \in Listeners, backlog'[m] # <<>>
               PROVE  state'[m] = "accept" /\ backlog'[m] = <<inHand'[m]>>
    BY DEF Queued
  <2>1. m \in Nodes /\ m # p /\ m # n
    BY <1>3, <1>5, <1>10, Numbers
  <2> QED BY <1>5, <1>6, <1>7, <2>1 DEF Queued
<1>18. Paired'
  <2> SUFFICES ASSUME NEW d \in AllRequests,
                      Own(d) \/ (state'[Asker(d)] = "connected" /\ inHand'[Asker(d)] = d)
               PROVE  Theirs(d) \/ (state'[Peer(d)] = "accept" /\ backlog'[Peer(d)] = <<d>>)
    BY <1>9 DEF Paired
  <2>1. /\ Asker(d) \in Nodes /\ Asker(d) # n /\ Peer(d) \in Listeners /\ Peer(d) \in Nodes
        /\ Peer(d) # p
    BY <1>3, RequestFacts, Numbers
  <2>2. Own(d) \/ (state[Asker(d)] = "connected" /\ inHand[Asker(d)] = d)
    BY <1>6, <1>7, <2>1
  <2>3. Theirs(d) \/ (state[Peer(d)] = "accept" /\ backlog[Peer(d)] = <<d>>)
    BY <2>2 DEF Paired
  <2> QED BY <1>2, <1>5, <1>6, <2>1, <2>3
<1>19. Ordered'
  <2>1. \A m \in Nodes : HasFirsts(mail'[m]) => HasFirsts(mail[m])
    BY <1>5
  <2> QED BY <1>5, <1>9, <2>1, SameOrder
<1> QED BY <1>9, <1>11, <1>13, <1>14, <1>15, <1>16, <1>17, <1>18, <1>19

\* The streams of a listening node when it accepts connection c.
LEMMA TheirsAdded ==
  ASSUME ConnectAssumption, NEW n \in Listeners, NEW c \in AllRequests, Peer(c) = n,
         DOMAIN readers = Nodes, DOMAIN writers = Nodes, RightPeers,
         \/ n = Output /\ AddDataReader(n, c.readerStream, c)
         \/ n # Output /\ AddDataWriter(n, c.stream, c)
  PROVE  /\ DOMAIN readers' = Nodes /\ DOMAIN writers' = Nodes
         /\ \A m \in Correlators : readers'[m] = readers[m] /\ writers'[m] = writers[m]
         /\ (Theirs(c))' /\ \A d \in AllRequests : Theirs(d) => (Theirs(d))'
         /\ \A m \in Listeners :
              /\ \A k \in DOMAIN writers'[m] : writers'[m][k].writer = m /\ writers'[m][k].stream = k
              /\ \A k \in DOMAIN readers'[m] : readers'[m][k].reader = m /\ readers'[m][k].readerStream = k
<1>1. /\ n \in Nodes /\ n \notin Correlators
      /\ Listeners \subseteq Nodes /\ Correlators \subseteq Nodes /\ Output \in Listeners
  BY Numbers
<1>2. CASE n = Output /\ AddDataReader(n, c.readerStream, c)
  <2>1. PICK k : k = c.readerStream
    OBVIOUS
  <2>2. /\ c.reader = Output /\ c \in WriterRequests /\ writers' = writers
        /\ readers' = [readers EXCEPT ![n] = With(@, k, c)]
    BY <1>2, <2>1, RequestFacts DEF AddDataReader
  <2>3. DOMAIN readers' = Nodes /\ readers'[n] = With(readers[n], k, c)
    BY <1>1, <2>2
  <2>4. \A m \in Nodes : m # n => readers'[m] = readers[m]
    BY <2>2
  <2>5. /\ DOMAIN readers'[n] = DOMAIN readers[n] \cup {k} /\ readers'[n][k] = c
        /\ \A i \in DOMAIN readers[n] : i # k => readers'[n][i] = readers[n][i]
    <3>1. PICK f, g : f = readers[n] /\ g = readers'[n]
      OBVIOUS
    <3>2. g = With(f, k, c)
      BY <2>3, <3>1
    <3>3. /\ DOMAIN g = DOMAIN f \cup {k} /\ g[k] = c
          /\ \A i \in DOMAIN f : i # k => g[i] = f[i]
      BY <3>2 DEF With
    <3> QED BY <3>1, <3>3, Zenon
  <2>6. (Theirs(c))'
    BY <1>2, <2>1, <2>2, <2>5 DEF Theirs
  <2>7. ASSUME NEW d \in AllRequests, Theirs(d) PROVE (Theirs(d))'
    <3>1. CASE d.reader # Output
      BY <2>2, <2>7, <3>1 DEF Theirs
    <3>2. CASE d.reader = Output /\ d.readerStream # k
      BY <1>2, <2>5, <2>7, <3>2 DEF Theirs
    <3>3. CASE d.reader = Output /\ d.readerStream = k
      <4>1. d = c
        BY <2>1, <2>2, <3>3, RequestFacts, OneConnection
      <4> QED BY <2>6, <4>1
    <3> QED BY <3>1, <3>2, <3>3
  <2>8. ASSUME NEW m \in Listeners, NEW i \in DOMAIN readers'[m]
        PROVE  readers'[m][i].reader = m /\ readers'[m][i].readerStream = i
    <3>1. CASE m # n
      BY <1>1, <2>4, <2>8, <3>1 DEF RightPeers
    <3>2. CASE m = n /\ i = k
      BY <1>2, <2>1, <2>2, <2>5, <3>2
    <3>3. CASE m = n /\ i # k
      BY <2>5, <2>8, <3>3 DEF RightPeers
    <3> QED BY <3>1, <3>2, <3>3
  <2>9. ASSUME NEW m \in Listeners, NEW i \in DOMAIN writers'[m]
        PROVE  writers'[m][i].writer = m /\ writers'[m][i].stream = i
    BY <2>2, <2>9 DEF RightPeers
  <2> QED BY <1>1, <2>2, <2>3, <2>4, <2>6, <2>7, <2>8, <2>9
<1>3. CASE n # Output /\ AddDataWriter(n, c.stream, c)
  <2>1. PICK k : k = c.stream
    OBVIOUS
  <2>2. /\ c.reader # Output /\ c.writer = n /\ c \in ReaderRequests /\ readers' = readers
        /\ writers' = [writers EXCEPT ![n] = With(@, k, c)]
    BY <1>3, <2>1, RequestFacts DEF AddDataWriter
  <2>3. DOMAIN writers' = Nodes /\ writers'[n] = With(writers[n], k, c)
    BY <1>1, <2>2
  <2>4. \A m \in Nodes : m # n => writers'[m] = writers[m]
    BY <2>2
  <2>5. /\ DOMAIN writers'[n] = DOMAIN writers[n] \cup {k} /\ writers'[n][k] = c
        /\ \A i \in DOMAIN writers[n] : i # k => writers'[n][i] = writers[n][i]
    <3>1. PICK f, g : f = writers[n] /\ g = writers'[n]
      OBVIOUS
    <3>2. g = With(f, k, c)
      BY <2>3, <3>1
    <3>3. /\ DOMAIN g = DOMAIN f \cup {k} /\ g[k] = c
          /\ \A i \in DOMAIN f : i # k => g[i] = f[i]
      BY <3>2 DEF With
    <3> QED BY <3>1, <3>3, Zenon
  <2>6. (Theirs(c))'
    BY <2>1, <2>2, <2>5 DEF Theirs
  <2>7. ASSUME NEW d \in AllRequests, Theirs(d) PROVE (Theirs(d))'
    <3>1. CASE d.reader = Output
      BY <2>2, <2>7, <3>1 DEF Theirs
    <3>2. CASE d.reader # Output /\ d.writer # n
      <4>1. d.writer \in Nodes
        BY <3>2, RequestFacts, Numbers
      <4> QED BY <2>4, <2>7, <3>2, <4>1 DEF Theirs
    <3>3. CASE d.reader # Output /\ d.writer = n /\ d.stream # k
      BY <2>5, <2>7, <3>3 DEF Theirs
    <3>4. CASE d.reader # Output /\ d.writer = n /\ d.stream = k
      <4>1. d = c
        BY <2>1, <2>2, <3>4, RequestFacts, OneConnection
      <4> QED BY <2>6, <4>1
    <3> QED BY <3>1, <3>2, <3>3, <3>4
  <2>8. ASSUME NEW m \in Listeners, NEW i \in DOMAIN writers'[m]
        PROVE  writers'[m][i].writer = m /\ writers'[m][i].stream = i
    <3>1. CASE m # n
      BY <1>1, <2>4, <2>8, <3>1 DEF RightPeers
    <3>2. CASE m = n /\ i = k
      BY <2>1, <2>2, <2>5, <3>2
    <3>3. CASE m = n /\ i # k
      BY <2>5, <2>8, <3>3 DEF RightPeers
    <3> QED BY <3>1, <3>2, <3>3
  <2>9. ASSUME NEW m \in Listeners, NEW i \in DOMAIN readers'[m]
        PROVE  readers'[m][i].reader = m /\ readers'[m][i].readerStream = i
    BY <2>2, <2>9 DEF RightPeers
  <2> QED BY <1>1, <2>2, <2>3, <2>4, <2>6, <2>7, <2>8, <2>9
<1> QED BY <1>2, <1>3

LEMMA AcceptStep ==
  ASSUME ConnectAssumption, ConnectInv, NEW n \in Listeners, AcceptReader(n) \/ AcceptWriter(n)
  PROVE  ConnectInv'
<1> USE DEF ConnectInv
<1>1. PICK c : c = inHand[n]
  OBVIOUS
<1>2. Accept(n)
  BY DEF AcceptReader, AcceptWriter
<1>3. /\ state[n] = "accept" /\ backlog[n] = <<c>> /\ c \in AllRequests /\ Peer(c) = n
      /\ n \in Nodes /\ n \notin Correlators
  BY <1>1, <1>2, Numbers DEF Accept, Queued, Working
<1>4. Head(backlog[n]) = c /\ Tail(backlog[n]) = <<>>
  <2>1. Head(<<c>>) = c /\ Tail(<<c>>) = <<>>
    OBVIOUS
  <2> QED BY <1>3, <2>1
<1>5. UNCHANGED <<script, mail, established, inHand, announced, weights, failed>>
  BY <1>2 DEF Accept, mVars
<1>6. \/ n = Output /\ AddDataReader(n, c.readerStream, c)
      \/ n # Output /\ AddDataWriter(n, c.stream, c)
  BY <1>1, <1>4 DEF AcceptReader, AcceptWriter
<1>7. /\ DOMAIN readers' = Nodes /\ DOMAIN writers' = Nodes
      /\ \A m \in Correlators : readers'[m] = readers[m] /\ writers'[m] = writers[m]
      /\ (Theirs(c))' /\ \A d \in AllRequests : Theirs(d) => (Theirs(d))'
      /\ \A m \in Listeners :
           /\ \A k \in DOMAIN writers'[m] : writers'[m][k].writer = m /\ writers'[m][k].stream = k
           /\ \A k \in DOMAIN readers'[m] : readers'[m][k].reader = m /\ readers'[m][k].readerStream = k
  <2>1. DOMAIN readers = Nodes /\ DOMAIN writers = Nodes /\ RightPeers
    BY DEF TypeOK
  <2> QED BY <1>3, <1>6, <2>1, TheirsAdded
<1>8. (\A d \in AllRequests : (Own(d))' = Own(d)) /\ Made' = Made
  <2>1. \A d \in AllRequests : (Own(d))' = Own(d)
    BY <1>7, RequestFacts DEF Own
  <2> QED BY <2>1 DEF Made
<1>9. /\ state' \in [Nodes -> {"absent", "idle", "send", "connect", "connected", "accept"}]
      /\ state'[n] = "idle" /\ \A m \in Nodes : m # n => state'[m] = state[m]
  BY <1>2, <1>3 DEF TypeOK, Accept, Becomes
<1>10. /\ backlog' \in [Listeners -> Seq(Connections)]
       /\ backlog'[n] = <<>> /\ \A m \in Listeners : m # n => backlog'[m] = backlog[m]
  <2>1. backlog \in [Listeners -> Seq(Connections)] /\ <<>> \in Seq(Connections)
    BY EmptySeq DEF TypeOK
  <2>2. backlog' = [backlog EXCEPT ![n] = <<>>]
    BY <1>2, <1>4 DEF Accept
  <2> QED BY <2>1, <2>2
<1>11. TypeOK'
  BY <1>5, <1>7, <1>9, <1>10 DEF TypeOK
<1>12. Working'
  BY <1>3, <1>5, <1>9, Numbers DEF Working, Busy
<1>13. AskedOnce'
  <2>1. \A m \in Correlators : (Busy(m))' => Busy(m) /\ inHand'[m] = inHand[m]
    BY <1>5, <1>9, Numbers DEF Busy
  <2>2. \A m \in Nodes : Asks(mail'[m]) \subseteq Asks(mail[m])
    BY <1>5
  <2> QED BY <1>5, <1>8, <2>1, <2>2, LessAsked, Numbers
<1>14. Announcing'
  BY <1>3, <1>5, <1>9, RequestFacts, Numbers DEF Announcing
<1>15. Connecting'
  <2> SUFFICES ASSUME NEW m \in Correlators, state'[m] = "connect"
               PROVE  /\ state'[Peer(inHand'[m])] = "accept" /\ inHand'[Peer(inHand'[m])] = inHand'[m]
                      /\ backlog'[Peer(inHand'[m])] = <<>>
    BY DEF Connecting
  <2>1. m \in Nodes /\ m # n /\ state[m] = "connect"
    BY <1>3, <1>9, Numbers
  <2>2. PICK q \in Listeners : q = Peer(inHand[m])
    BY <2>1, RequestFacts DEF Working, Busy
  <2>3. state[q] = "accept" /\ inHand[q] = inHand[m] /\ backlog[q] = <<>>
    BY <2>1, <2>2 DEF Connecting
  <2>4. q \in Nodes /\ q # n
    <3>1. <<c>> # <<>>
      OBVIOUS
    <3> QED BY <1>3, <2>3, <3>1, Numbers
  <2> QED BY <1>5, <1>9, <1>10, <2>2, <2>3, <2>4
<1>16. Queued'
  <2> SUFFICES ASSUME NEW m \in Listeners, backlog'[m] # <<>>
               PROVE  state'[m] = "accept" /\ backlog'[m] = <<inHand'[m]>>
    BY DEF Queued
  <2>1. m \in Nodes /\ m # n
    BY <1>10, Numbers
  <2> QED BY <1>5, <1>9, <1>10, <2>1 DEF Queued
<1>17. Paired'
  <2> SUFFICES ASSUME NEW d \in AllRequests,
                      (Own(d))' \/ (state'[Asker(d)] = "connected" /\ inHand'[Asker(d)] = d)
               PROVE  (Theirs(d))' \/ (state'[Peer(d)] = "accept" /\ backlog'[Peer(d)] = <<d>>)
    BY DEF Paired
  <2>1. Asker(d) \in Nodes /\ Asker(d) # n /\ Peer(d) \in Listeners /\ Peer(d) \in Nodes
    BY <1>3, RequestFacts, Numbers
  <2>2. Own(d) \/ (state[Asker(d)] = "connected" /\ inHand[Asker(d)] = d)
    BY <1>5, <1>8, <1>9, <2>1
  <2>3. Theirs(d) \/ (state[Peer(d)] = "accept" /\ backlog[Peer(d)] = <<d>>)
    BY <2>2 DEF Paired
  <2>4. CASE Theirs(d)
    BY <1>7, <2>4
  <2>5. CASE state[Peer(d)] = "accept" /\ backlog[Peer(d)] = <<d>> /\ Peer(d) = n
    <3>1. <<d>> = <<c>> => d = c
      OBVIOUS
    <3> QED BY <1>3, <1>7, <2>5, <3>1
  <2>6. CASE state[Peer(d)] = "accept" /\ backlog[Peer(d)] = <<d>> /\ Peer(d) # n
    BY <1>9, <1>10, <2>1, <2>6
  <2> QED BY <2>3, <2>4, <2>5, <2>6
<1>18. Ordered'
  <2>1. \A m \in Nodes : HasFirsts(mail'[m]) => HasFirsts(mail[m])
    BY <1>5
  <2> QED BY <1>5, <1>8, <2>1, SameOrder
<1>19. RightPeers'
  BY <1>5, <1>7 DEF RightPeers
<1> QED BY <1>11, <1>12, <1>13, <1>14, <1>15, <1>16, <1>17, <1>18, <1>19

-----------------------------------------------------------------------------
(* The manager, and what follows when the nodes are connected. *)

LEMMA ManagerSendStep ==
  ASSUME ConnectAssumption, ConnectInv, ManagerSend
  PROVE  ConnectInv'
<1> USE DEF ConnectInv
<1>1. /\ script # <<>> /\ script' = Tail(script)
      /\ UNCHANGED <<established, state, inHand, announced, backlog, readers, writers, weights, failed>>
  BY DEF ManagerSend, streamVars
<1> PICK s \in Part(Commands, AllRequests) : s = script
  BY DEF TypeOK
<1> PICK e : e = Head(s)
  OBVIOUS
<1>2. /\ script' \in Part(Commands, AllRequests) /\ e \in Entries /\ Sensible(e)
      /\ Asks(script') \subseteq Asks(s)
      /\ e.do \in Connects => e.info \in Asks(s) /\ e.info \notin Asks(script')
      /\ WaitFirst(s) => WaitFirst(script')
      /\ WaitFirst(s) /\ e.do \in Firsts => \A i \in DOMAIN s : s[i].do # "wait_all"
      /\ (\A i \in DOMAIN s : s[i].do # "wait_all") => \A i \in DOMAIN script' : script'[i].do # "wait_all"
      /\ e.do # "wait_all" /\ (\A i \in DOMAIN script' : script'[i].do # "wait_all") =>
           \A i \in DOMAIN s : s[i].do # "wait_all"
  BY <1>1, Doing
<1>3. /\ (\A d : (Own(d))' = Own(d) /\ (Theirs(d))' = Theirs(d)) /\ Made' = Made
      /\ RightPeers'
  BY <1>1, SameStreams, SamePeers
<1>4. Announcing' /\ Connecting' /\ Queued' /\ Paired'
  BY <1>1, SameHandshakes
<1>5. Working'
  BY <1>1 DEF Working, Busy
<1>6. Waited => Waited'
  BY <1>2 DEF Waited
<1>7. CASE e.do = "wait_all"
  <2>1. mail' = mail /\ established = Requests
    BY <1>7 DEF ManagerSend
  <2>2. Made = AllRequests
    <3>1. Made \in SUBSET AllRequests
      BY DEF Made
    <3>2. IsFiniteSet(AllRequests) /\ Cardinality(AllRequests) <= Requests /\ Requests \in Nat
      BY RequestCount
    <3>3. /\ IsFiniteSet(Made) /\ Cardinality(Made) <= Cardinality(AllRequests)
          /\ Cardinality(AllRequests) = Cardinality(Made) => AllRequests = Made
      BY <3>1, <3>2, FS_Subset
    <3>4. Cardinality(AllRequests) \in Nat /\ Cardinality(Made) \in Nat
      BY <3>2, <3>3, FS_CardinalityType
    <3>5. Cardinality(Made) = Requests
      BY <2>1 DEF Ordered
    <3> QED BY <3>2, <3>3, <3>4, <3>5
  <2>3. TypeOK'
    BY <1>1, <1>2, <2>1 DEF TypeOK
  <2>4. AskedOnce'
    <3>1. Asks(script) = Asks(s)
      OBVIOUS
    <3> QED BY <1>1, <1>2, <1>3, <2>1, <3>1, Numbers DEF AskedOnce, Busy
  <2>5. Ordered'
    BY <1>1, <1>2, <1>3, <1>6, <2>1, <2>2 DEF Ordered
  <2> QED BY <1>3, <1>4, <1>5, <2>3, <2>4, <2>5
<1>8. CASE e.do # "wait_all"
  <2>1. mail' = [mail EXCEPT ![e.rank] = Append(@, e)]
    BY <1>8 DEF ManagerSend
  <2>2. e.rank \in Nodes
    BY <1>2, <1>8, Numbers DEF Sensible
  <2> PICK n \in Nodes : n = e.rank
    BY <2>2
  <2> PICK b \in Box(n) : b = mail[n]
    BY DEF TypeOK
  <2>3. e.do \in Connects => e.info \notin Asks(b)
    BY <1>2 DEF AskedOnce
  <2>4. /\ Append(b, e) \in Box(n)
        /\ Asks(Append(b, e)) \subseteq Asks(b) \cup (IF e.do \in Connects THEN {e.info} ELSE {})
        /\ HasFirsts(Append(b, e)) => HasFirsts(b) \/ e.do \in Firsts
    BY <1>2, <1>8, <2>3, Sending
  <2>5. /\ mail' = [mail EXCEPT ![n] = Append(b, e)] /\ mail \in [Nodes -> Seq(Entries)]
        /\ Append(b, e) \in Seq(Entries)
    BY <2>1, <2>4 DEF TypeOK, Box
  <2>6. /\ mail' \in [Nodes -> Seq(Entries)] /\ mail'[n] = Append(b, e)
        /\ \A m \in Nodes : m # n => mail'[m] = mail[m]
    BY <2>5
  <2>7. ASSUME NEW m \in Nodes
        PROVE  /\ mail'[m] \in Box(m)
               /\ \A c \in Asks(mail'[m]) : c \in Asks(mail[m]) \/ (e.do \in Connects /\ c = e.info)
               /\ HasFirsts(mail'[m]) => HasFirsts(mail[m]) \/ e.do \in Firsts
    <3>1. CASE m = n
      BY <2>4, <2>6, <3>1
    <3>2. CASE m # n
      BY <2>6, <3>2 DEF TypeOK
    <3> QED BY <3>1, <3>2
  <2>8. TypeOK'
    BY <1>1, <1>2, <2>6, <2>7 DEF TypeOK
  <2>9. AskedOnce'
    <3>1. (Asks(script) \cap Made)' = {}
      BY <1>2, <1>3 DEF AskedOnce
    <3>2. e.do \in Connects => e.info \in Asks(script) /\ e.info \notin Made /\ e.info \notin Asks(script')
      BY <1>2 DEF AskedOnce
    <3>3. ASSUME NEW m \in Nodes
          PROVE  (Asks(script) \cap Asks(mail[m]) = {} /\ Asks(mail[m]) \cap Made = {})'
      <4>1. Asks(script) \cap Asks(mail[m]) = {} /\ Asks(mail[m]) \cap Made = {}
        BY DEF AskedOnce
      <4> QED BY <1>2, <1>3, <2>7, <3>2, <4>1
    <3>4. ASSUME NEW m \in Correlators, (Busy(m))'
          PROVE  (inHand[m] \notin Asks(script) /\ inHand[m] \notin Asks(mail[m]) /\ inHand[m] \notin Made)'
      <4>1. m \in Nodes /\ Busy(m) /\ inHand'[m] = inHand[m]
        BY <1>1, <3>4, Numbers DEF Busy
      <4>2. inHand[m] \notin Asks(script) /\ inHand[m] \notin Asks(mail[m]) /\ inHand[m] \notin Made
        BY <4>1 DEF AskedOnce
      <4> QED BY <1>2, <1>3, <2>7, <3>2, <4>1, <4>2
    <3> QED BY <3>1, <3>3, <3>4 DEF AskedOnce
  <2>10. Ordered'
    <3>1. Waited' => Waited
      BY <1>2, <1>8 DEF Waited
    <3>2. (\E m \in Nodes : HasFirsts(mail'[m])) \/ weights' # {} => Waited
      <4>1. e.do \in Firsts => Waited
        BY <1>2 DEF Ordered, Waited
      <4>2. (\E m \in Nodes : HasFirsts(mail[m])) \/ weights # {} => Waited
        BY DEF Ordered
      <4> QED BY <1>1, <2>7, <4>1, <4>2
    <3>3. (WaitFirst(script))' /\ (established = Cardinality(Made))'
      BY <1>1, <1>2, <1>3 DEF Ordered
    <3>4. Waited => Made = AllRequests
      BY DEF Ordered
    <3> QED BY <1>3, <1>6, <3>1, <3>2, <3>3, <3>4 DEF Ordered
  <2> QED BY <1>3, <1>4, <1>5, <2>8, <2>9, <2>10
<1> QED BY <1>7, <1>8

\* A step that touches no connection: a message is taken, or the weights of a slice.
LEMMA QuietStep ==
  ASSUME ConnectAssumption, ConnectInv,
         UNCHANGED <<script, established, state, inHand, announced, backlog, readers, writers, failed>>,
         mail' = mail \/ \E n \in Nodes, do \in Commands : Taken(n, do),
         weights' \subseteq Correlators, weights' # {} => weights # {} \/ Waited
  PROVE  ConnectInv'
<1> USE DEF ConnectInv
<1>1. /\ mail' \in [Nodes -> Seq(Entries)]
      /\ \A m \in Nodes :
           /\ mail'[m] \in Box(m) /\ Asks(mail'[m]) \subseteq Asks(mail[m])
           /\ HasFirsts(mail'[m]) => HasFirsts(mail[m])
  <2>1. CASE mail' = mail
    BY <2>1 DEF TypeOK
  <2>2. CASE \E n \in Nodes, do \in Commands : Taken(n, do)
    BY <2>2 DEF Taken
  <2> QED BY <2>1, <2>2
<1>2. Made' = Made /\ RightPeers'
  BY SameStreams, SamePeers
<1>3. Announcing' /\ Connecting' /\ Queued' /\ Paired'
  BY SameHandshakes
<1>4. TypeOK'
  BY <1>1 DEF TypeOK
<1>5. Working'
  BY DEF Working, Busy
<1>6. AskedOnce'
  <2>1. \A m \in Correlators : (Busy(m))' => Busy(m) /\ inHand'[m] = inHand[m]
    BY DEF Busy
  <2> QED BY <1>1, <1>2, <2>1, LessAsked, Numbers
<1>7. Ordered'
  BY <1>1, <1>2, SameOrder
<1> QED BY <1>2, <1>3, <1>4, <1>5, <1>6, <1>7

LEMMA ReceiveOpenStep ==
  ASSUME ConnectAssumption, ConnectInv, NEW n \in Nodes, ReceiveOpen(n)
  PROVE  ConnectInv'
<1>1. /\ Takes(n, "open")
      /\ UNCHANGED <<script, established, state, inHand, announced, backlog, readers, writers, weights, failed>>
  BY DEF ReceiveOpen, mVars, streamVars
<1>2. Taken(n, "open") /\ "open" \in Commands
  BY <1>1, TakesFacts DEF Commands
<1>3. weights' \subseteq Correlators /\ (weights' # {} => weights # {} \/ Waited)
  BY <1>1 DEF ConnectInv, TypeOK
<1> QED BY <1>1, <1>2, <1>3, QuietStep

\* The stream that a slice is given to is connected.
LEMMA ReceiveTimeSliceStep ==
  ASSUME ConnectAssumption, ConnectInv, NEW n \in Nodes, ReceiveTimeSlice(n)
  PROVE  ConnectInv'
<1> PICK k : k = Head(mail[n]).info.stream
  OBVIOUS
<1>1. /\ Takes(n, "slice") /\ state[n] = "idle"
      /\ failed' = IF k \in DOMAIN writers[n] THEN failed ELSE failed \cup {"get_data_writer"}
      /\ UNCHANGED <<script, established, state, inHand, announced, backlog, readers, writers, weights>>
  BY DEF ReceiveTimeSlice, Takes, SfxcAssert, mVars, streamVars
<1>2. Taken(n, "slice") /\ "slice" \in Commands /\ "slice" \in Firsts
  BY <1>1, TakesFacts DEF Commands, Firsts
<1>3. n \in Listeners \ {Output} /\ k \in 0 .. NumberCorrelators * Times - 1
  BY <1>2 DEF Taken, Sensible
<1>4. Made = AllRequests
  BY <1>2 DEF Taken, ConnectInv, Ordered
<1>5. PICK s \in StationNumbers : n = Input(s)
  BY <1>3, InputFacts
<1>6. PICK nr \in CorrelatorNumbers, time \in 0 .. Times - 1 : k = nr + time * NumberCorrelators
  <2>1. NumberCorrelators \in Nat \ {0} /\ Times \in {1, 2}
    BY Numbers
  <2>2. CASE Times = 1
    <3>1. k \in 0 .. NumberCorrelators - 1
      BY <1>3, <2>1, <2>2
    <3>2. k \in CorrelatorNumbers /\ 0 \in 0 .. Times - 1
      BY <2>2, <3>1 DEF CorrelatorNumbers
    <3>3. k = k + 0 * NumberCorrelators
      BY <2>1, <3>1
    <3> QED BY <3>2, <3>3
  <2>3. CASE Times = 2
    <3>1. k \in 0 .. (NumberCorrelators + NumberCorrelators) - 1
      BY <1>3, <2>1, <2>3
    <3>2. CASE k < NumberCorrelators
      <4>1. k \in CorrelatorNumbers /\ 0 \in 0 .. Times - 1
        BY <2>1, <2>3, <3>1, <3>2 DEF CorrelatorNumbers
      <4>2. k = k + 0 * NumberCorrelators
        BY <2>1, <3>1
      <4> QED BY <4>1, <4>2
    <3>3. CASE ~ k < NumberCorrelators
      <4>1. k - NumberCorrelators \in CorrelatorNumbers /\ 1 \in 0 .. Times - 1
        BY <2>1, <2>3, <3>1, <3>3 DEF CorrelatorNumbers
      <4>2. k = (k - NumberCorrelators) + 1 * NumberCorrelators
        BY <2>1, <3>1
      <4> QED BY <4>1, <4>2
    <3> QED BY <3>2, <3>3
  <2> QED BY <2>1, <2>2, <2>3
<1>7. PICK c \in ReaderRequests : c.writer = n /\ c.stream = k
  <2>1. ReaderRequest(nr, s, time) \in ReaderRequests
    BY DEF ReaderRequests
  <2>2. ReaderRequest(nr, s, time).writer = n /\ ReaderRequest(nr, s, time).stream = k
    BY <1>5, <1>6 DEF ReaderRequest
  <2> QED BY <2>1, <2>2
<1>8. c \in AllRequests /\ Own(c) /\ Peer(c) = n /\ c.reader # Output
  BY <1>4, <1>7, ReaderFacts DEF AllRequests, Made
<1>9. Theirs(c)
  BY <1>1, <1>8 DEF ConnectInv, Paired
<1>10. failed' = failed
  BY <1>1, <1>7, <1>8, <1>9 DEF Theirs
<1>11. weights' \subseteq Correlators /\ (weights' # {} => weights # {} \/ Waited)
  BY <1>1 DEF ConnectInv, TypeOK
<1> QED BY <1>1, <1>2, <1>10, <1>11, QuietStep

LEMMA ReceiveParametersStep ==
  ASSUME ConnectAssumption, ConnectInv, NEW n \in Correlators, ReceiveParameters(n)
  PROVE  ConnectInv'
<1>1. /\ Takes(n, "parameters") /\ weights' = weights \cup {n} /\ n \in Nodes
      /\ UNCHANGED <<script, established, state, inHand, announced, backlog, readers, writers, failed>>
  BY Numbers DEF ReceiveParameters, mVars, streamVars
<1>2. Taken(n, "parameters") /\ "parameters" \in Commands /\ "parameters" \in Firsts
  BY <1>1, TakesFacts DEF Commands, Firsts
<1>3. Waited
  BY <1>1, <1>2 DEF Taken, ConnectInv, Ordered
<1>4. weights' \subseteq Correlators
  BY <1>1 DEF ConnectInv, TypeOK
<1> QED BY <1>1, <1>2, <1>3, <1>4, QuietStep

\* The output node has the stream that weights are for.
LEMMA ReceiveWeightStep ==
  ASSUME ConnectAssumption, ConnectInv, ReceiveWeight
  PROVE  ConnectInv'
<1>1. PICK n \in weights :
        /\ failed' = IF n - Correlator(0) \in DOMAIN readers[Output] THEN failed
                     ELSE failed \cup {"input_streams"}
        /\ weights' = weights \ {n}
  BY DEF ReceiveWeight, SfxcAssert
<1>2. /\ state[Output] = "idle"
      /\ UNCHANGED <<script, mail, established, state, inHand, announced, backlog, readers, writers>>
  BY DEF ReceiveWeight, mVars, streamVars
<1>3. n \in Correlators /\ Made = AllRequests
  BY DEF ConnectInv, TypeOK, Ordered
<1>4. PICK nr \in CorrelatorNumbers : n = Correlator(nr) /\ n - Correlator(0) = nr
  BY <1>3, CorrelatorFacts
<1>5. PICK c \in WriterRequests : c.readerStream = nr
  <2>1. WriterRequest(nr) \in WriterRequests
    BY DEF WriterRequests
  <2>2. WriterRequest(nr).readerStream = nr
    BY DEF WriterRequest
  <2> QED BY <2>1, <2>2
<1>6. c \in AllRequests /\ Own(c) /\ Peer(c) = Output /\ c.reader = Output
  BY <1>3, <1>5, WriterFacts DEF AllRequests, Made
<1>7. Theirs(c)
  BY <1>2, <1>6 DEF ConnectInv, Paired
<1>8. failed' = failed
  BY <1>1, <1>4, <1>5, <1>6, <1>7 DEF Theirs
<1>9. weights' \subseteq Correlators /\ (weights' # {} => weights # {} \/ Waited)
  BY <1>1 DEF ConnectInv, TypeOK
<1> QED BY <1>2, <1>8, <1>9, QuietStep

-----------------------------------------------------------------------------
LEMMA ConnectInvStep ==
  ASSUME ConnectAssumption, ConnectInv, [Next]_vars
  PROVE  ConnectInv'
<1>1. CASE ManagerStep
  <2>1. CASE ManagerSend
    BY <2>1, ManagerSendStep
  <2>2. CASE ManagerReceive
    <3>1. UNCHANGED <<script, mail, established, state, inHand, announced, backlog, readers, writers,
                   weights, failed>>
      BY <2>2 DEF ManagerReceive, streamVars
    <3>2. weights' \subseteq Correlators /\ (weights' # {} => weights # {} \/ Waited)
      BY <3>1 DEF ConnectInv, TypeOK
    <3> QED BY <3>1, <3>2, QuietStep
  <2> QED BY <1>1, <2>1, <2>2 DEF ManagerStep
<1>2. ASSUME NEW n \in Correlators, CorrelatorStep(n) PROVE ConnectInv'
  <2>1. n \in Nodes
    BY <1>2, Numbers
  <2>2. CASE StartNode(n)
    BY <2>1, <2>2, StartNodeStep
  <2>3. CASE ReaderConnectedTo(n)
    BY <1>2, <2>3, ReaderConnectedToStep
  <2>4. CASE WriterConnectedTo(n)
    BY <1>2, <2>4, WriterConnectedToStep
  <2>5. CASE ConnectReader(n) \/ ConnectWriter(n)
    BY <1>2, <2>5, ConnectStep
  <2>6. CASE Established(n)
    BY <1>2, <2>6, EstablishedStep
  <2>7. CASE ReceiveParameters(n)
    BY <1>2, <2>7, ReceiveParametersStep
  <2> QED BY <1>2, <2>2, <2>3, <2>4, <2>5, <2>6, <2>7 DEF CorrelatorStep
<1>3. ASSUME NEW n \in Listeners, ListenerStep(n) PROVE ConnectInv'
  <2>1. n \in Nodes
    BY <1>3, Numbers
  <2>2. CASE StartNode(n)
    BY <2>1, <2>2, StartNodeStep
  <2>3. CASE ConnectedFrom(n)
    BY <1>3, <2>3, ConnectedFromStep
  <2>4. CASE AcceptReader(n) \/ AcceptWriter(n)
    BY <1>3, <2>4, AcceptStep
  <2>5. CASE ReceiveOpen(n)
    BY <2>1, <2>5, ReceiveOpenStep
  <2>6. CASE ReceiveTimeSlice(n)
    BY <2>1, <2>6, ReceiveTimeSliceStep
  <2> QED BY <1>3, <2>2, <2>3, <2>4, <2>5, <2>6 DEF ListenerStep
<1>4. CASE ReceiveWeight
  BY <1>4, ReceiveWeightStep
<1>5. CASE Stay \/ UNCHANGED vars
  <2>1. UNCHANGED <<script, mail, established, state, inHand, announced, backlog, readers, writers,
                   weights, failed>>
    BY <1>5 DEF Stay, vars, mVars, streamVars
  <2>2. weights' \subseteq Correlators /\ (weights' # {} => weights # {} \/ Waited)
    BY <2>1 DEF ConnectInv, TypeOK
  <2> QED BY <2>1, <2>2, QuietStep
<1> QED BY <1>1, <1>2, <1>3, <1>4, <1>5 DEF Next

\* Each handshake is between the two ends of one connection, and nothing is given to a
\* stream before all connections have been made: the synchronous announcements and the
\* count of MPI_Waitall keep this so, in any order of the messages.
THEOREM ConnectInvariant == Spec => []ConnectInv
<1>1. Init => ConnectInv
  BY InitInv, ConnectAssumption
<1>2. ConnectInv /\ [Next]_vars => ConnectInv'
  BY ConnectInvStep, ConnectAssumption
<1> QED BY <1>1, <1>2, PTL DEF Spec

\* The streams of the input nodes and of the output node are connected to the streams of
\* the correlator nodes that the manager meant (Multiple_data_readers_controller,
\* Multiple_data_writers_controller), and exist when the first slice or weight asks for
\* them: for any number of stations and correlator nodes, crossed polarisations or not.
THEOREM ConnectedAsAsked == Spec => []RightPeers
<1>1. ConnectInv => RightPeers
  BY DEF ConnectInv
<1> QED BY <1>1, ConnectInvariant, PTL
=============================================================================
