------------------------- MODULE OutputStream_proofs -------------------------
(***************************************************************************)
(* Proof that each output file gets the data of its own bin, for slices of *)
(* any number and size, and for any cutting of the stream into reads,      *)
(* elements of the pool and rounds of the output node.                     *)
(***************************************************************************)
EXTENDS OutputStream, SequenceTheorems, WellFoundedInduction, TLAPS

-----------------------------------------------------------------------------
Less == {ss \in Nat \X Nat : ss[1] < ss[2]}

\* A non-empty set of naturals has a least element.
LEMMA LeastNatural ==
  ASSUME NEW T \in SUBSET Nat, T # {}
  PROVE  \E x \in T : \A y \in T : x <= y
<1>1. IsWellFoundedOn(Less, Nat)
  BY NatLessThanWellFounded, Zenon DEF OpToRel, Less
<1>2. PICK x \in T : \A y \in T : <<y, x>> \notin Less
  BY <1>1, WFMin
<1>3. ASSUME NEW y \in T PROVE x <= y
  <2>1. y < x => <<y, x>> \in Less
    <3> DEFINE s == <<y, x>>
    <3>1. s \in Nat \X Nat /\ s[1] = y /\ s[2] = x
      OBVIOUS
    <3> QED BY <3>1 DEF Less
  <2>2. x \in Nat /\ y \in Nat
    OBVIOUS
  <2> QED BY <1>2, <2>1, <2>2
<1> QED BY <1>3

-----------------------------------------------------------------------------
(* Bins of equal size in a slice. *)

LEMMA WholeBins ==
  ASSUME NEW n \in Nat \ {0}, NEW b \in Nat \ {0}
  PROVE  n * b \in Nat \ {0} /\ (n * b) \div n = b /\ (n * b) % b = 0
<1>1. n * b \in Nat \ {0}
  OBVIOUS
<1>2. (n * b) \div n = b
  OBVIOUS
<1>3. (n * b) % b = 0
  OBVIOUS
<1> QED BY <1>1, <1>2, <1>3

LEMMA BinInSlice ==
  ASSUME NEW n \in Nat \ {0}, NEW b \in Nat \ {0}, NEW o \in Nat, o < n * b
  PROVE  o \div b \in 0 .. n - 1 /\ o % b \in 0 .. b - 1
<1>1. PICK q \in Int, r \in 0 .. b - 1 : q = o \div b /\ r = o % b /\ o = b * q + r
  <2>1. o \div b \in Int /\ o % b \in 0 .. b - 1 /\ o = b * (o \div b) + (o % b)
    OBVIOUS
  <2> QED BY <2>1
<1>2. q >= 0
  <2> SUFFICES ASSUME q <= -1 PROVE FALSE
    BY <1>1
  <2>1. b * q <= b * (-1)
    BY <1>1
  <2> QED BY <1>1, <2>1
<1>3. q < n
  <2> SUFFICES ASSUME n <= q PROVE FALSE
    BY <1>1
  <2>1. b * n <= b * q
    BY <1>1
  <2>2. b * n = n * b
    OBVIOUS
  <2> QED BY <1>1, <2>1, <2>2
<1> QED BY <1>1, <1>2, <1>3

LEMMA SmallRest ==
  ASSUME NEW b \in Nat, NEW o \in Nat, o < b
  PROVE  o % b = o
OBVIOUS

\* From a byte of a bin to the next.
LEMMA NextInBin ==
  ASSUME NEW b \in Nat \ {0}, NEW o \in Nat
  PROVE  /\ (o % b) + 1 < b => (o + 1) % b = (o % b) + 1 /\ (o + 1) \div b = o \div b
         /\ (o % b) + 1 = b => (o + 1) % b = 0
         /\ ((o % b) + 1) % b = (o + 1) % b
         /\ o % b \in 0 .. b - 1
<1>1. PICK q \in Int, r \in 0 .. b - 1 : q = o \div b /\ r = o % b /\ o = b * q + r
  <2>1. o \div b \in Int /\ o % b \in 0 .. b - 1 /\ o = b * (o \div b) + (o % b)
    OBVIOUS
  <2> QED BY <2>1
<1>2. CASE r + 1 < b
  <2>1. o + 1 = b * q + (r + 1)
    BY <1>1
  <2>2. (o + 1) % b = r + 1 /\ (o + 1) \div b = q
    BY <1>2, <2>1
  <2>3. (r + 1) % b = r + 1
    BY <1>2
  <2> QED BY <1>1, <1>2, <2>2, <2>3
<1>3. CASE r + 1 = b
  <2>1. o + 1 = b * (q + 1)
    BY <1>1, <1>3
  <2>2. (o + 1) % b = 0
    <3>1. PICK z \in Int : z = q + 1
      OBVIOUS
    <3>2. (b * z) % b = 0
      OBVIOUS
    <3> QED BY <2>1, <3>1, <3>2
  <2>3. (r + 1) % b = 0
    BY <1>3
  <2> QED BY <1>1, <1>3, <2>2, <2>3
<1> QED BY <1>1, <1>2, <1>3

-----------------------------------------------------------------------------
(* The ends of the slices. *)

\* The recursion stops: by a least number of slices for which it would not.
LEMMA EndsDefined ==
  ASSUME OutputStreamAssumption
  PROVE  SliceEnd = [k \in 0 .. NumberSlices |-> IF k = 0 THEN 0 ELSE SliceEnd[k - 1] + SliceBytes(k)]
<1> DEFINE Ends(n, f) ==
             f = [k \in 0 .. n |-> IF k = 0 THEN 0 ELSE f[k - 1] + SliceBytes(k)]
           Bad == {n \in Nat : ~ \E f : Ends(n, f)}
<1>1. Bad = {}
  <2> SUFFICES ASSUME Bad # {} PROVE FALSE
    OBVIOUS
  <2>1. PICK n \in Bad : \A m \in Bad : n <= m
    <3>1. Bad \subseteq Nat
      OBVIOUS
    <3> HIDE DEF Bad
    <3> QED BY <3>1, LeastNatural
  <2>2. n # 0
    <3>1. Ends(0, [k \in {0} |-> 0])
      OBVIOUS
    <3> QED BY <3>1
  <2>3. n \in Nat /\ n - 1 \in Nat /\ n - 1 \notin Bad
    <3>1. Bad \subseteq Nat
      OBVIOUS
    <3> HIDE DEF Bad
    <3>2. n \in Nat /\ n - 1 \in Nat
      BY <2>2, <3>1
    <3> QED BY <2>1, <3>2
  <2>4. PICK f : Ends(n - 1, f)
    BY <2>3
  <2> DEFINE g == [k \in 0 .. n |-> IF k = 0 THEN 0 ELSE f[k - 1] + SliceBytes(k)]
  <2>5. \A k \in 0 .. n - 1 : g[k] = f[k]
    BY <2>3, <2>4
  <2>6. Ends(n, g)
    <3>1. \A k \in 0 .. n : k # 0 => k - 1 \in 0 .. n - 1
      BY <2>3
    <3>2. \A k \in 0 .. n : k # 0 => g[k - 1] = f[k - 1]
      <4> HIDE DEF g
      <4> QED BY <2>5, <3>1
    <3>3. \A k \in 0 .. n :
            (IF k = 0 THEN 0 ELSE f[k - 1] + SliceBytes(k)) = (IF k = 0 THEN 0 ELSE g[k - 1] + SliceBytes(k))
      <4> HIDE DEF g
      <4> QED BY <3>2, Zenon
    <3> QED BY <3>3, Zenon
  <2> QED BY <2>1, <2>6
<1>2. NumberSlices \in Nat
  BY DEF OutputStreamAssumption, NumberSlices
<1>3. \E f : Ends(NumberSlices, f)
  BY <1>1, <1>2
<1> QED BY <1>3 DEF SliceEnd

LEMMA SliceSizes ==
  ASSUME OutputStreamAssumption
  PROVE  /\ NumberSlices \in Nat
         /\ \A k \in 1 .. NumberSlices :
              /\ Bins[k] \in Nat \ {0} /\ BinBytes[k] \in Nat \ {0} /\ BinBytes[k] > HeaderBytes
              /\ SliceBytes(k) \in Nat \ {0} /\ SliceBytes(k) = Bins[k] * BinBytes[k]
<1>1. NumberSlices \in Nat /\ DOMAIN Bins = 1 .. NumberSlices
  BY DEF OutputStreamAssumption, NumberSlices
<1>2. SUFFICES ASSUME NEW k \in 1 .. NumberSlices
               PROVE  /\ Bins[k] \in Nat \ {0} /\ BinBytes[k] \in Nat \ {0} /\ BinBytes[k] > HeaderBytes
                      /\ SliceBytes(k) \in Nat \ {0} /\ SliceBytes(k) = Bins[k] * BinBytes[k]
  BY <1>1
<1>3. Bins[k] \in Nat \ {0} /\ BinBytes[k] \in Nat /\ BinBytes[k] > HeaderBytes /\ HeaderBytes \in Nat \ {0}
  <2>1. /\ Bins \in Seq(Nat \ {0}) /\ BinBytes \in [DOMAIN Bins -> Nat] /\ HeaderBytes \in Nat \ {0}
        /\ \A i \in DOMAIN Bins : BinBytes[i] > HeaderBytes
    BY DEF OutputStreamAssumption
  <2>2. k \in DOMAIN Bins /\ Bins[k] \in Nat \ {0}
    BY <1>1, <2>1
  <2> QED BY <2>1, <2>2
<1>4. BinBytes[k] \in Nat \ {0}
  BY <1>3
<1>5. SliceBytes(k) \in Nat \ {0} /\ SliceBytes(k) = Bins[k] * BinBytes[k]
  BY <1>3, <1>4, WholeBins DEF SliceBytes
<1> QED BY <1>3, <1>4, <1>5

LEMMA SliceEnds ==
  ASSUME OutputStreamAssumption
  PROVE  /\ SliceEnd[0] = 0
         /\ \A k \in 1 .. NumberSlices : SliceEnd[k] = SliceEnd[k - 1] + SliceBytes(k)
         /\ \A k \in 0 .. NumberSlices : SliceEnd[k] \in Nat
<1>1. NumberSlices \in Nat
  BY SliceSizes
<1>2. SliceEnd[0] = 0
  BY <1>1, EndsDefined
<1>3. \A k \in 1 .. NumberSlices : SliceEnd[k] = SliceEnd[k - 1] + SliceBytes(k)
  <2> TAKE k \in 1 .. NumberSlices
  <2>1. k \in 0 .. NumberSlices /\ k # 0
    OBVIOUS
  <2> HIDE DEF SliceEnd
  <2> QED BY <2>1, EndsDefined
<1> DEFINE Bad == {k \in 0 .. NumberSlices : SliceEnd[k] \notin Nat}
<1>4. Bad = {}
  <2> SUFFICES ASSUME Bad # {} PROVE FALSE
    OBVIOUS
  <2>1. PICK n \in Bad : \A m \in Bad : n <= m
    <3>1. Bad \subseteq Nat
      BY <1>1
    <3> HIDE DEF Bad
    <3> QED BY <3>1, LeastNatural
  <2>2. n \in 1 .. NumberSlices /\ n - 1 \in 0 .. NumberSlices
    BY <1>1, <1>2
  <2>3. SliceEnd[n - 1] \in Nat
    <3>1. n - 1 \notin Bad
      BY <2>1, <2>2
    <3> QED BY <2>2, <3>1
  <2>4. SliceEnd[n] = SliceEnd[n - 1] + SliceBytes(n) /\ SliceBytes(n) \in Nat
    BY <1>3, <2>2, SliceSizes
  <2>5. SliceEnd[n] \in Nat
    BY <2>3, <2>4
  <2> QED BY <2>5
<1> QED BY <1>2, <1>3, <1>4

LEMMA EndsAscend ==
  ASSUME OutputStreamAssumption
  PROVE  \A i, k \in 0 .. NumberSlices : i <= k => SliceEnd[i] <= SliceEnd[k]
<1> SUFFICES ASSUME NEW i \in 0 .. NumberSlices
             PROVE  \A k \in 0 .. NumberSlices : i <= k => SliceEnd[i] <= SliceEnd[k]
  OBVIOUS
<1>1. NumberSlices \in Nat
  BY SliceSizes
<1> DEFINE Bad == {k \in i .. NumberSlices : SliceEnd[i] > SliceEnd[k]}
<1>2. Bad = {}
  <2> SUFFICES ASSUME Bad # {} PROVE FALSE
    OBVIOUS
  <2>1. PICK n \in Bad : \A m \in Bad : n <= m
    <3>1. Bad \subseteq Nat
      BY <1>1
    <3> HIDE DEF Bad
    <3> QED BY <3>1, LeastNatural
  <2>2. n \in 0 .. NumberSlices /\ i <= n /\ SliceEnd[i] > SliceEnd[n]
    BY <1>1
  <2>3. \A k \in 0 .. NumberSlices : SliceEnd[k] \in Nat
    BY SliceEnds
  <2>4. n # i
    BY <2>2, <2>3
  <2>5. n \in 1 .. NumberSlices /\ n - 1 \in i .. NumberSlices /\ n - 1 \in 0 .. NumberSlices
    BY <1>1, <2>2, <2>4
  <2>6. SliceEnd[i] <= SliceEnd[n - 1]
    <3>1. n - 1 \notin Bad
      BY <2>1, <2>5
    <3> QED BY <2>3, <2>5, <3>1
  <2>7. SliceEnd[n] = SliceEnd[n - 1] + SliceBytes(n) /\ SliceBytes(n) \in Nat
    BY <2>5, SliceEnds, SliceSizes
  <2> QED BY <2>2, <2>3, <2>5, <2>6, <2>7
<1> QED
  <2> TAKE k \in 0 .. NumberSlices
  <2>1. i <= k => k \in i .. NumberSlices /\ k \notin Bad
    BY <1>1, <1>2
  <2>2. SliceEnd[i] \in Nat /\ SliceEnd[k] \in Nat
    BY SliceEnds
  <2> QED BY <2>1, <2>2

\* The file of the bin that byte o of slice k is in.
File(k, o) == FileNumber[k][(o \div BinBytes[k]) + 1]

LEMMA FileIsThere ==
  ASSUME OutputStreamAssumption, NumberedFiles, NEW k \in 1 .. NumberSlices, NEW o \in Nat, o < SliceBytes(k)
  PROVE  File(k, o) \in Files
<1>1. Bins[k] \in Nat \ {0} /\ BinBytes[k] \in Nat \ {0} /\ o < Bins[k] * BinBytes[k]
  BY SliceSizes
<1>2. PICK b \in 0 .. Bins[k] - 1 : b = o \div BinBytes[k]
  BY <1>1, BinInSlice
<1>3. b + 1 \in 1 .. Bins[k]
  BY <1>1
<1>4. FileNumber[k] \in [1 .. Bins[k] -> 0 .. NumberFiles - 1]
  <2>1. k \in DOMAIN Bins
    BY DEF OutputStreamAssumption, NumberSlices
  <2> QED BY <2>1 DEF NumberedFiles
<1>5. FileNumber[k][b + 1] \in Files
  BY <1>3, <1>4 DEF Files
<1> QED BY <1>2, <1>5 DEF File

\* Byte o of slice k, counted from 0.
LEMMA ByteOfSlice ==
  ASSUME OutputStreamAssumption, NumberedFiles, NEW k \in 1 .. NumberSlices, NEW o \in Nat, o < SliceBytes(k),
         NEW p \in Nat, p = SliceEnd[k - 1] + o + 1
  PROVE  /\ FileOf(p) = File(k, o) /\ FileOf(p) \in Files
         /\ IsHeader(p) <=> o % BinBytes[k] < HeaderBytes
         /\ HeaderByte(p) = Number[File(k, o)][(o % BinBytes[k]) + 1]
<1>1. NumberSlices \in Nat /\ k - 1 \in 0 .. NumberSlices /\ k \in 0 .. NumberSlices
  BY SliceSizes
<1>2. \A i \in 0 .. NumberSlices : SliceEnd[i] \in Nat
  BY SliceEnds
<1>3. SliceEnd[k] = SliceEnd[k - 1] + SliceBytes(k) /\ SliceBytes(k) \in Nat
  BY SliceEnds, SliceSizes
<1>4. SliceEnd[k - 1] < p /\ p <= SliceEnd[k]
  BY <1>1, <1>2, <1>3
<1>5. \A i \in 1 .. NumberSlices : SliceEnd[i - 1] < p /\ p <= SliceEnd[i] => i = k
  <2> SUFFICES ASSUME NEW i \in 1 .. NumberSlices, SliceEnd[i - 1] < p, p <= SliceEnd[i], i # k
               PROVE  FALSE
    OBVIOUS
  <2>1. i - 1 \in 0 .. NumberSlices /\ i \in 0 .. NumberSlices
    BY <1>1
  <2>2. CASE i < k
    <3>1. SliceEnd[i] <= SliceEnd[k - 1]
      BY <1>1, <2>1, <2>2, EndsAscend
    <3>2. SliceEnd[i] \in Nat /\ SliceEnd[k - 1] \in Nat
      BY <1>1, <1>2, <2>1
    <3> QED BY <1>4, <3>1, <3>2
  <2>3. CASE k < i
    <3>1. SliceEnd[k] <= SliceEnd[i - 1]
      BY <1>1, <2>1, <2>3, EndsAscend
    <3>2. SliceEnd[k] \in Nat /\ SliceEnd[i - 1] \in Nat
      BY <1>1, <1>2, <2>1
    <3> QED BY <1>4, <3>1, <3>2
  <2> QED BY <1>1, <2>1, <2>2, <2>3
<1>6. SliceOf(p) = k
  BY <1>4, <1>5 DEF SliceOf
<1>7. Offset(p) = o
  BY <1>1, <1>2, <1>6 DEF Offset
<1>8. BinOf(p) = o \div BinBytes[k] /\ (IsHeader(p) <=> o % BinBytes[k] < HeaderBytes)
  BY <1>6, <1>7 DEF BinOf, IsHeader
<1>9. FileOf(p) = File(k, o) /\ HeaderByte(p) = Number[File(k, o)][(o % BinBytes[k]) + 1]
  BY <1>6, <1>7, <1>8 DEF FileOf, File, HeaderByte
<1> QED BY <1>8, <1>9, FileIsThere

-----------------------------------------------------------------------------
(* Bytes in a row. *)

\* The bytes of s come right behind byte a.
Row(s, a) == \A i \in 1 .. Len(s) : s[i] = a + i

LEMMA RowTaken ==
  ASSUME NEW s \in Seq(Nat), NEW a \in Nat, Row(s, a), s # <<>>
  PROVE  /\ Head(s) = a + 1 /\ Row(Tail(s), a + 1)
         /\ Tail(s) \in Seq(Nat) /\ Len(Tail(s)) = Len(s) - 1 /\ Len(s) \in Nat \ {0}
<1>1. Len(s) \in Nat \ {0} /\ Head(s) = s[1]
  BY EmptySeq
<1>2. Tail(s) \in Seq(Nat) /\ Len(Tail(s)) = Len(s) - 1
      /\ \A i \in 1 .. Len(Tail(s)) : Tail(s)[i] = s[i + 1]
  BY HeadTailProperties
<1>3. \A i \in 1 .. Len(s) : s[i] = a + i
  BY DEF Row
<1>4. \A i \in 1 .. Len(Tail(s)) : Tail(s)[i] = (a + 1) + i
  <2> TAKE i \in 1 .. Len(Tail(s))
  <2>1. i + 1 \in 1 .. Len(s)
    BY <1>1, <1>2
  <2>2. Tail(s)[i] = s[i + 1] /\ s[i + 1] = a + (i + 1)
    BY <1>2, <1>3, <2>1
  <2> QED BY <2>2
<1>5. Row(Tail(s), a + 1)
  BY <1>4, Zenon DEF Row
<1> QED BY <1>1, <1>2, <1>3, <1>5

LEMMA RowCut ==
  ASSUME NEW s \in Seq(Nat), NEW a \in Nat, Row(s, a), NEW n \in 0 .. Len(s)
  PROVE  /\ SubSeq(s, 1, n) \in Seq(Nat) /\ Len(SubSeq(s, 1, n)) = n /\ Row(SubSeq(s, 1, n), a)
         /\ SubSeq(s, n + 1, Len(s)) \in Seq(Nat) /\ Len(SubSeq(s, n + 1, Len(s))) = Len(s) - n
         /\ Row(SubSeq(s, n + 1, Len(s)), a + n)
<1>1. PICK l \in Nat : l = Len(s)
  OBVIOUS
<1>2. \A i \in 1 .. l : s[i] = a + i /\ s[i] \in Nat
  BY <1>1 DEF Row
<1>3. n \in Nat /\ n <= l
  BY <1>1
<1>4. /\ SubSeq(s, 1, n) \in Seq(Nat)
      /\ Len(SubSeq(s, 1, n)) = IF 1 <= n THEN n - 1 + 1 ELSE 0
      /\ \A i \in 1 .. n - 1 + 1 : SubSeq(s, 1, n)[i] = s[1 + i - 1]
  <2>1. \A i \in 1 .. n : s[i] \in Nat
    BY <1>2, <1>3
  <2>2. 1 \in Int /\ n \in Int
    BY <1>3
  <2> QED BY <2>1, <2>2, SubSeqProperties
<1>5. /\ SubSeq(s, n + 1, l) \in Seq(Nat)
      /\ Len(SubSeq(s, n + 1, l)) = IF n + 1 <= l THEN l - (n + 1) + 1 ELSE 0
      /\ \A i \in 1 .. l - (n + 1) + 1 : SubSeq(s, n + 1, l)[i] = s[(n + 1) + i - 1]
  <2>1. \A i \in n + 1 .. l : s[i] \in Nat
    BY <1>2, <1>3
  <2>2. n + 1 \in Int /\ l \in Int
    BY <1>3
  <2> QED BY <2>1, <2>2, SubSeqProperties
<1>6. Len(SubSeq(s, 1, n)) = n /\ Len(SubSeq(s, n + 1, l)) = l - n
  BY <1>3, <1>4, <1>5
<1>7. Row(SubSeq(s, 1, n), a)
  <2>1. \A i \in 1 .. n : SubSeq(s, 1, n)[i] = a + i
    <3> TAKE i \in 1 .. n
    <3>1. i \in 1 .. n - 1 + 1 /\ 1 + i - 1 = i /\ i \in 1 .. l
      BY <1>3
    <3> QED BY <1>2, <1>4, <3>1
  <2> QED BY <1>6, <2>1 DEF Row
<1>8. Row(SubSeq(s, n + 1, l), a + n)
  <2>1. \A i \in 1 .. l - n : SubSeq(s, n + 1, l)[i] = (a + n) + i
    <3> TAKE i \in 1 .. l - n
    <3>1. i \in 1 .. l - (n + 1) + 1 /\ (n + 1) + i - 1 = n + i /\ n + i \in 1 .. l
      BY <1>3
    <3>2. SubSeq(s, n + 1, l)[i] = s[n + i] /\ s[n + i] = a + (n + i)
      BY <1>2, <1>5, <3>1
    <3> QED BY <1>3, <3>2
  <2> QED BY <1>6, <2>1 DEF Row
<1> QED BY <1>1, <1>4, <1>5, <1>6, <1>7, <1>8

LEMMA RowJoined ==
  ASSUME NEW s \in Seq(Nat), NEW t \in Seq(Nat), NEW a \in Nat, Row(s, a), Row(t, a + Len(s))
  PROVE  s \o t \in Seq(Nat) /\ Len(s \o t) = Len(s) + Len(t) /\ Row(s \o t, a)
<1>1. PICK l \in Nat, m \in Nat : l = Len(s) /\ m = Len(t)
  OBVIOUS
<1>2. s \o t \in Seq(Nat) /\ Len(s \o t) = l + m
      /\ \A i \in 1 .. l + m : (s \o t)[i] = IF i <= l THEN s[i] ELSE t[i - l]
  BY <1>1, ConcatProperties
<1>3. (\A i \in 1 .. l : s[i] = a + i) /\ (\A i \in 1 .. m : t[i] = (a + l) + i)
  BY <1>1 DEF Row
<1>4. \A i \in 1 .. l + m : (s \o t)[i] = a + i
  <2> TAKE i \in 1 .. l + m
  <2>1. CASE i <= l
    <3>1. i \in 1 .. l
      BY <1>1, <2>1
    <3> QED BY <1>2, <1>3, <2>1, <3>1
  <2>2. CASE ~(i <= l)
    <3>1. i - l \in 1 .. m
      BY <1>1, <2>2
    <3>2. (s \o t)[i] = (a + l) + (i - l)
      BY <1>2, <1>3, <2>2, <3>1
    <3> QED BY <1>1, <3>2
  <2> QED BY <2>1, <2>2
<1>5. Row(s \o t, a)
  BY <1>2, <1>4 DEF Row
<1> QED BY <1>1, <1>2, <1>5

\* The elements es of the queue hold the bytes behind byte a up to byte b.
Before(es, a, e) == IF e = 1 THEN a ELSE es[e - 1][Len(es[e - 1])]
Chain(es, a, b) ==
  /\ \A e \in 1 .. Len(es) : es[e] # <<>> /\ Row(es[e], Before(es, a, e))
  /\ b = Before(es, a, Len(es) + 1)

LEMMA ChainGrows ==
  ASSUME NEW es \in Seq(Seq(Nat)), NEW a \in Nat, NEW b \in Nat, Chain(es, a, b), NEW n \in Nat \ {0}
  PROVE  Append(es, Positions(b, n)) \in Seq(Seq(Nat)) /\ Chain(Append(es, Positions(b, n)), a, b + n)
<1>1. PICK P \in Seq(Nat) : P = Positions(b, n) /\ Len(P) = n /\ \A i \in 1 .. n : P[i] = b + i
  <2>1. Positions(b, n) \in Seq(Nat) /\ Len(Positions(b, n)) = n
        /\ \A i \in 1 .. n : Positions(b, n)[i] = b + i
    BY DEF Positions
  <2> QED BY <2>1
<1>2. P # <<>> /\ Row(P, b)
  BY <1>1 DEF Row
<1>3. PICK l \in Nat : l = Len(es)
  OBVIOUS
<1>4. PICK E \in Seq(Seq(Nat)) : E = Append(es, P) /\ Len(E) = l + 1
                               /\ (\A i \in 1 .. l : E[i] = es[i]) /\ E[l + 1] = P
  <2>1. /\ Append(es, P) \in Seq(Seq(Nat)) /\ Len(Append(es, P)) = Len(es) + 1
        /\ (\A i \in 1 .. Len(es) : Append(es, P)[i] = es[i]) /\ Append(es, P)[Len(es) + 1] = P
    BY AppendProperties
  <2> QED BY <1>3, <2>1
<1>5. \A e \in 1 .. l + 1 : Before(E, a, e) = Before(es, a, e)
  <2> TAKE e \in 1 .. l + 1
  <2>1. e # 1 => e - 1 \in 1 .. l
    BY <1>3
  <2>2. e # 1 => E[e - 1] = es[e - 1]
    BY <1>4, <2>1
  <2> QED BY <2>2 DEF Before
<1>6. (\A e \in 1 .. l : es[e] # <<>> /\ Row(es[e], Before(es, a, e))) /\ b = Before(es, a, l + 1)
  BY <1>3 DEF Chain
<1>7. \A e \in 1 .. l + 1 : E[e] # <<>> /\ Row(E[e], Before(E, a, e))
  <2> TAKE e \in 1 .. l + 1
  <2>1. CASE e = l + 1
    <3>1. Before(E, a, e) = b /\ E[e] = P
      BY <1>4, <1>5, <1>6, <2>1
    <3> QED BY <1>2, <3>1
  <2>2. CASE e # l + 1
    <3>1. e \in 1 .. l
      BY <1>3, <2>2
    <3>2. E[e] = es[e] /\ Before(E, a, e) = Before(es, a, e)
      BY <1>4, <1>5, <3>1
    <3> QED BY <1>6, <3>1, <3>2
  <2> QED BY <2>1, <2>2
<1>8. b + n = Before(E, a, (l + 1) + 1)
  <2>1. (l + 1) + 1 # 1 /\ ((l + 1) + 1) - 1 = l + 1
    BY <1>3
  <2>2. E[l + 1][Len(E[l + 1])] = b + n
    BY <1>1, <1>4
  <2> QED BY <2>1, <2>2 DEF Before
<1>9. Chain(E, a, b + n)
  BY <1>4, <1>7, <1>8 DEF Chain
<1> QED BY <1>1, <1>4, <1>9

LEMMA ChainTaken ==
  ASSUME NEW es \in Seq(Seq(Nat)), NEW a \in Nat, NEW b \in Nat, Chain(es, a, b), es # <<>>
  PROVE  /\ Head(es) \in Seq(Nat) /\ Head(es) # <<>> /\ Row(Head(es), a)
         /\ Tail(es) \in Seq(Seq(Nat)) /\ Chain(Tail(es), a + Len(Head(es)), b)
<1>1. PICK l \in Nat \ {0} : l = Len(es)
  BY EmptySeq
<1>2. PICK H \in Seq(Nat) : H = Head(es) /\ H = es[1]
  BY HeadTailProperties
<1>3. PICK T \in Seq(Seq(Nat)) : T = Tail(es) /\ Len(T) = l - 1 /\ \A i \in 1 .. l - 1 : T[i] = es[i + 1]
  <2>1. /\ Tail(es) \in Seq(Seq(Nat)) /\ Len(Tail(es)) = Len(es) - 1
        /\ \A i \in 1 .. Len(Tail(es)) : Tail(es)[i] = es[i + 1]
    BY HeadTailProperties
  <2> QED BY <1>1, <2>1
<1>4. (\A e \in 1 .. l : es[e] # <<>> /\ Row(es[e], Before(es, a, e))) /\ b = Before(es, a, l + 1)
  BY <1>1 DEF Chain
<1>5. H # <<>> /\ Row(H, a)
  <2>1. 1 \in 1 .. l
    BY <1>1
  <2> QED BY <1>2, <1>4, <2>1 DEF Before
<1>6. PICK m \in Nat \ {0} : m = Len(H) /\ H[m] = a + m
  <2>1. Len(H) \in Nat \ {0}
    BY <1>5, EmptySeq
  <2> QED BY <1>5, <2>1 DEF Row
<1>7. \A e \in 1 .. l : Before(T, a + m, e) = Before(es, a, e + 1)
  <2> TAKE e \in 1 .. l
  <2>1. e + 1 # 1 /\ (e + 1) - 1 = e
    OBVIOUS
  <2>2. CASE e = 1
    BY <1>2, <1>6, <2>1, <2>2 DEF Before
  <2>3. CASE e # 1
    <3>1. e - 1 \in 1 .. l - 1 /\ (e - 1) + 1 = e
      BY <1>1, <2>3
    <3>2. T[e - 1] = es[e]
      BY <1>3, <3>1
    <3> QED BY <2>1, <2>3, <3>2 DEF Before
  <2> QED BY <2>2, <2>3
<1>8. \A e \in 1 .. l - 1 : T[e] # <<>> /\ Row(T[e], Before(T, a + m, e))
  <2> TAKE e \in 1 .. l - 1
  <2>1. e \in 1 .. l /\ e + 1 \in 1 .. l
    BY <1>1
  <2>2. T[e] = es[e + 1] /\ Before(T, a + m, e) = Before(es, a, e + 1)
    BY <1>3, <1>7, <2>1
  <2> QED BY <1>4, <2>1, <2>2
<1>9. b = Before(T, a + m, (l - 1) + 1)
  <2>1. (l - 1) + 1 = l /\ l \in 1 .. l
    BY <1>1
  <2> QED BY <1>4, <1>7, <2>1
<1>10. Chain(T, a + m, b)
  BY <1>3, <1>8, <1>9 DEF Chain
<1> QED BY <1>2, <1>3, <1>5, <1>6, <1>10

-----------------------------------------------------------------------------
(* The files. *)

LEMMA FileGrows ==
  ASSUME NEW s \in Seq(Nat), NEW n \in Nat, Ascending(s), ToSet(s) \subseteq 1 .. n
  PROVE  /\ Append(s, n + 1) \in Seq(Nat) /\ Ascending(Append(s, n + 1))
         /\ ToSet(Append(s, n + 1)) = ToSet(s) \cup {n + 1}
<1>1. PICK l \in Nat : l = Len(s)
  OBVIOUS
<1>2. PICK t \in Seq(Nat) : t = Append(s, n + 1) /\ Len(t) = l + 1
                          /\ (\A i \in 1 .. l : t[i] = s[i]) /\ t[l + 1] = n + 1
  <2>1. /\ Append(s, n + 1) \in Seq(Nat) /\ Len(Append(s, n + 1)) = Len(s) + 1
        /\ (\A i \in 1 .. Len(s) : Append(s, n + 1)[i] = s[i])
        /\ Append(s, n + 1)[Len(s) + 1] = n + 1
    BY AppendProperties
  <2> QED BY <1>1, <2>1
<1>3. DOMAIN s = 1 .. l /\ DOMAIN t = 1 .. l + 1
  BY <1>1, <1>2
<1>4. \A i \in 1 .. l : s[i] \in Nat /\ s[i] <= n
  <2> TAKE i \in 1 .. l
  <2>1. s[i] \in ToSet(s)
    BY <1>3 DEF ToSet
  <2>2. s[i] \in 1 .. n
    BY <2>1
  <2> QED BY <2>2
<1>5. \A i, j \in 1 .. l : i < j => s[i] < s[j]
  BY <1>3 DEF Ascending
<1>6. \A i, j \in 1 .. l + 1 : i < j => t[i] < t[j]
  <2> SUFFICES ASSUME NEW i \in 1 .. l + 1, NEW j \in 1 .. l + 1, i < j PROVE t[i] < t[j]
    OBVIOUS
  <2>1. i \in 1 .. l /\ t[i] = s[i]
    BY <1>2
  <2>2. CASE j = l + 1
    BY <1>2, <1>4, <2>1, <2>2
  <2>3. CASE j # l + 1
    <3>1. j \in 1 .. l /\ t[j] = s[j]
      BY <1>2, <2>3
    <3> QED BY <1>5, <2>1, <3>1
  <2> QED BY <2>2, <2>3
<1>7. Ascending(t)
  BY <1>3, <1>6 DEF Ascending
<1>8. ToSet(t) = ToSet(s) \cup {n + 1}
  <2>1. ToSet(t) = {t[i] : i \in 1 .. l + 1} /\ ToSet(s) = {s[i] : i \in 1 .. l}
    BY <1>3 DEF ToSet
  <2>2. \A x : (\E i \in 1 .. l + 1 : x = t[i]) <=> ((\E i \in 1 .. l : x = s[i]) \/ x = n + 1)
    <3> TAKE x
    <3>1. \A i \in 1 .. l + 1 : i \in 1 .. l \/ i = l + 1
      OBVIOUS
    <3>2. \A i \in 1 .. l : i \in 1 .. l + 1
      OBVIOUS
    <3>3. l + 1 \in 1 .. l + 1
      OBVIOUS
    <3> QED BY <1>2, <3>1, <3>2, <3>3
  <2> QED BY <2>1, <2>2
<1> QED BY <1>2, <1>7, <1>8

LEMMA DataGrows ==
  ASSUME NEW n \in Nat, NEW b
  PROVE  DataOf(b, n + 1) = IF ~IsHeader(n + 1) /\ FileOf(n + 1) = b THEN DataOf(b, n) \cup {n + 1}
                            ELSE DataOf(b, n)
<1>1. 1 .. n + 1 = (1 .. n) \cup {n + 1}
  OBVIOUS
<1>2. \A x : x \in DataOf(b, n + 1) <=> x \in (1 .. n) \cup {n + 1} /\ ~IsHeader(x) /\ FileOf(x) = b
  BY <1>1 DEF DataOf
<1>3. \A x : x \in DataOf(b, n) <=> x \in 1 .. n /\ ~IsHeader(x) /\ FileOf(x) = b
  BY DEF DataOf
<1> QED BY <1>2, <1>3, Zenon

-----------------------------------------------------------------------------
(* The invariant. *)

\* The last byte given to buffer, and the bytes of the slice given to files.
Read == SliceEnd[slice] - dataSlice
Done == SliceBytes(slice) - dataSlice - Len(buffer)

Types ==
  /\ received \in Nat /\ elements \in Seq(Seq(Nat)) /\ held \in Seq(Nat)
  /\ dataSlice \in Nat /\ slice \in 0 .. NumberSlices
  /\ status \in {"END_SLICE", "WRITE_OUTPUT", "GET_BYTES", "ABORTED"}
  /\ buffer \in Seq(Nat) /\ written \in Nat /\ inFile \in Nat
  /\ fileIndex \in 0 .. HeaderBytes /\ currentFile \in [1 .. HeaderBytes -> Nat]
  /\ files \in [Files -> Seq(Nat)]

\* From the files to the connection no byte is lost or passed by another.
InRow ==
  /\ Row(buffer, Taken) /\ Row(held, Read)
  /\ Chain(elements, Read + Len(held), received)

\* What is counted when, and that no more than the slice is taken from the stream.
InPhase ==
  /\ status = "END_SLICE" => dataSlice = 0 /\ buffer = <<>>
  /\ status # "END_SLICE" => slice > 0
  /\ slice > 0 => dataSlice + Len(buffer) <= SliceBytes(slice)
  /\ status = "GET_BYTES" => written = Done
  /\ status = "WRITE_OUTPUT" => written = Done + Len(buffer)
  /\ status = "WRITE_OUTPUT" /\ buffer # <<>> => inFile = Done % PerFile

\* What is known of the bin in front, by how much of it has been written.
InBin ==
  /\ slice = 0 => fileIndex = 0
  /\ slice > 0 =>
       /\ fileIndex = IF Done % BinBytes[slice] < HeaderBytes THEN Done % BinBytes[slice] ELSE HeaderBytes
       /\ \A i \in 1 .. HeaderBytes :
            i <= Done % BinBytes[slice] => currentFile[i] = Number[File(slice, Done)][i]

\* current_output_file is the number of a file from the end of the first number on,
\* also while the next one is read into it.
KnownFile ==
  FewFiles => (\E f \in Files : Number[f] = currentFile) \/ (slice <= 1 /\ Taken < HeaderBytes)

\* The inductive invariant.
OutputInv == Types /\ InRow /\ InPhase /\ InBin /\ RightFiles /\ KnownFile /\ FailsOnlyAtStart

LEMMA InitHolds == ASSUME OutputStreamAssumption, NumberedFiles, Init PROVE OutputInv
<1>1. NumberSlices \in Nat /\ HeaderBytes \in Nat \ {0}
  BY SliceSizes DEF OutputStreamAssumption
<1>2. Types
  <2>1. <<>> \in Seq(Seq(Nat)) /\ <<>> \in Seq(Nat)
    OBVIOUS
  <2>2. Unset \in [1 .. HeaderBytes -> Nat]
    BY DEF NumberedFiles
  <2> QED BY <1>1, <2>1, <2>2 DEF Init, Types
<1>3. Read = 0 /\ Taken = 0
  <2>1. SliceEnd[slice] = 0 /\ dataSlice = 0 /\ Len(buffer) = 0
    <3>1. SliceEnd[0] = 0
      BY SliceEnds
    <3>2. slice = 0 /\ dataSlice = 0 /\ buffer = <<>>
      BY DEF Init
    <3> QED BY <3>1, <3>2
  <2>2. Read = 0 - 0 /\ Taken = 0 - 0 - 0
    BY <2>1, Zenon DEF Read, Taken
  <2> QED BY <2>2
<1>4. InRow
  BY <1>3 DEF Init, InRow, Row, Chain, Before
<1>5. InPhase
  BY DEF Init, InPhase
<1>6. InBin
  BY DEF Init, InBin
<1>7. KnownFile /\ FailsOnlyAtStart
  <2>1. slice <= 1 /\ Taken < HeaderBytes /\ status # "ABORTED"
    BY <1>1, <1>3 DEF Init
  <2> QED BY <2>1 DEF KnownFile, FailsOnlyAtStart
<1>8. RightFiles
  <2> SUFFICES ASSUME NEW b \in Files PROVE Ascending(files[b]) /\ ToSet(files[b]) = DataOf(b, Taken)
    BY DEF RightFiles
  <2>1. files[b] = <<>>
    BY DEF Init
  <2>2. Ascending(<<>>) /\ ToSet(<<>>) = {}
    BY DEF Ascending, ToSet
  <2>3. DataOf(b, 0) = {}
    BY DEF DataOf
  <2> QED BY <1>3, <2>1, <2>2, <2>3
<1> QED BY <1>2, <1>4, <1>5, <1>6, <1>7, <1>8 DEF OutputInv

\* The places in the stream, in a slice and between slices.
LEMMA Places ==
  ASSUME OutputStreamAssumption, Types, InPhase
  PROVE  /\ Read \in Nat /\ Taken \in Nat /\ Read = Taken + Len(buffer) /\ Len(buffer) \in Nat
         /\ slice > 0 => /\ slice \in 1 .. NumberSlices
                         /\ Done \in Nat /\ Done + Len(buffer) + dataSlice = SliceBytes(slice)
                         /\ Taken = SliceEnd[slice - 1] + Done /\ SliceEnd[slice - 1] \in Nat
<1>1. /\ dataSlice \in Nat /\ Len(buffer) \in Nat /\ slice \in 0 .. NumberSlices
      /\ slice > 0 => dataSlice + Len(buffer) <= SliceBytes(slice)
      /\ slice = 0 => dataSlice = 0 /\ Len(buffer) = 0
  BY DEF Types, InPhase
<1>2. NumberSlices \in Nat
  BY SliceSizes
<1>3. CASE slice = 0
  <2>1. SliceEnd[slice] = 0
    BY <1>3, SliceEnds
  <2> QED BY <1>1, <1>3, <2>1 DEF Read, Taken
<1>4. CASE slice > 0
  <2>1. slice \in 1 .. NumberSlices /\ slice - 1 \in 0 .. NumberSlices
    BY <1>1, <1>2, <1>4
  <2>2. SliceEnd[slice] = SliceEnd[slice - 1] + SliceBytes(slice) /\ SliceEnd[slice - 1] \in Nat
    BY <2>1, SliceEnds
  <2>3. SliceBytes(slice) \in Nat
    BY <2>1, SliceSizes
  <2>4. PICK d \in Nat, l \in Nat, m \in Nat, a \in Nat :
          /\ d = dataSlice /\ l = Len(buffer) /\ m = SliceBytes(slice) /\ a = SliceEnd[slice - 1]
          /\ SliceEnd[slice] = a + m /\ d + l <= m
    BY <1>1, <1>4, <2>2, <2>3
  <2>5. Read = (a + m) - d /\ Taken = (a + m) - d - l /\ Done = m - d - l
    BY <2>4, Zenon DEF Read, Taken, Done
  <2>6. Read \in Nat /\ Taken \in Nat /\ Read = Taken + l /\ Done \in Nat /\ Done + l + d = m
        /\ Taken = a + Done
    <3>1. d + l <= m
      BY <2>4
    <3>2. /\ (a + m) - d \in Nat /\ (a + m) - d - l \in Nat /\ (a + m) - d = ((a + m) - d - l) + l
          /\ m - d - l \in Nat /\ (m - d - l) + l + d = m /\ (a + m) - d - l = a + (m - d - l)
      BY <3>1
    <3> QED BY <2>5, <3>2, Zenon
  <2> QED BY <1>4, <2>1, <2>4, <2>6
<1> QED BY <1>1, <1>2, <1>3, <1>4

LEMMA PerFileIsBin ==
  ASSUME OutputStreamAssumption, slice \in 1 .. NumberSlices
  PROVE  slice \in Nat /\ PerFile = BinBytes[slice]
<1>1. /\ Bins[slice] \in Nat \ {0} /\ BinBytes[slice] \in Nat \ {0}
      /\ SliceBytes(slice) = Bins[slice] * BinBytes[slice]
  BY SliceSizes
<1>2. (Bins[slice] * BinBytes[slice]) \div Bins[slice] = BinBytes[slice]
  BY <1>1, WholeBins
<1>3. NumberSlices \in Nat
  BY SliceSizes
<1> QED BY <1>1, <1>2, <1>3 DEF PerFile

-----------------------------------------------------------------------------
(* The steps. *)

LEMMA ReceiveHolds == ASSUME OutputStreamAssumption, OutputInv, Receive PROVE OutputInv'
<1> USE DEF OutputInv
<1>1. PICK n \in 1 .. ElementBytes : /\ received' = received + n
                                    /\ elements' = Append(elements, Positions(received, n))
  BY DEF Receive
<1>2. UNCHANGED <<held, dataSlice, status, slice, buffer, written, inFile, fileIndex, currentFile, files>>
  BY DEF Receive
<1>3. n \in Nat \ {0} /\ received \in Nat /\ elements \in Seq(Seq(Nat)) /\ held \in Seq(Nat)
  BY DEF OutputStreamAssumption, Types
<1>4. Read' = Read /\ Taken' = Taken /\ Done' = Done /\ PerFile' = PerFile
  BY <1>2 DEF Read, Taken, Done, PerFile
<1>5. PICK a \in Nat : a = Read + Len(held)
  BY <1>3, Places
<1>6. elements' \in Seq(Seq(Nat)) /\ Chain(elements', a, received')
  <2>1. Chain(elements, a, received)
    BY <1>5 DEF InRow
  <2> QED BY <1>1, <1>3, <2>1, ChainGrows
<1>7. Types'
  <2>1. received' \in Nat
    BY <1>1, <1>3
  <2> QED BY <1>2, <1>6, <2>1 DEF Types
<1>8. InRow'
  <2>1. Row(buffer, Taken) /\ Row(held, Read)
    BY DEF InRow
  <2> QED BY <1>2, <1>4, <1>5, <1>6, <2>1 DEF InRow
<1>9. InPhase'
  BY <1>2, <1>4 DEF InPhase
<1>10. InBin'
  BY <1>2, <1>4 DEF InBin
<1>11. RightFiles'
  BY <1>2, <1>4 DEF RightFiles
<1>12. KnownFile' /\ FailsOnlyAtStart'
  BY <1>2, <1>4 DEF KnownFile, FailsOnlyAtStart
<1> QED BY <1>7, <1>8, <1>9, <1>10, <1>11, <1>12

LEMMA StartNewSliceHolds == ASSUME OutputStreamAssumption, NumberedFiles, OutputInv, StartNewSlice PROVE OutputInv'
<1> USE DEF OutputInv
<1>1. /\ status = "END_SLICE" /\ slice < NumberSlices /\ slice' = slice + 1
      /\ dataSlice' = SliceBytes(slice') /\ written' = 0 /\ status' = "WRITE_OUTPUT"
      /\ currentFile' \in LeftInCurrentFile
      /\ UNCHANGED <<received, elements, held, buffer, inFile, fileIndex, files>>
  BY DEF StartNewSlice
<1>2. dataSlice = 0 /\ buffer = <<>> /\ Len(buffer) = 0
  BY <1>1 DEF InPhase
<1>3. NumberSlices \in Nat /\ slice \in 0 .. NumberSlices
  BY SliceSizes DEF Types
<1>4. PICK k \in 1 .. NumberSlices : slice' = k /\ slice = k - 1 /\ k # 0
  BY <1>1, <1>3
<1>5. PICK m \in Nat \ {0} : m = SliceBytes(k) /\ dataSlice' = m
  BY <1>1, <1>4, SliceSizes
<1>6. PICK x \in Nat : SliceEnd[k - 1] = x /\ SliceEnd[k] = x + m
  <2>1. k - 1 \in 0 .. NumberSlices
    BY <1>3
  <2> QED BY <1>5, <2>1, SliceEnds
<1>7. Read = x /\ Taken = x /\ Read' = x /\ Taken' = x /\ Done' = 0
  <2>1. Read = x - 0 /\ Taken = x - 0 - 0
    BY <1>2, <1>4, <1>6 DEF Read, Taken
  <2>2. Len(buffer') = 0
    BY <1>1, <1>2
  <2>3. Read' = (x + m) - m /\ Taken' = (x + m) - m - 0 /\ Done' = m - m - 0
    BY <1>4, <1>5, <1>6, <2>2 DEF Read, Taken, Done
  <2>4. x - 0 = x /\ x - 0 - 0 = x /\ (x + m) - m = x /\ (x + m) - m - 0 = x /\ m - m - 0 = 0
    OBVIOUS
  <2> QED BY <2>1, <2>3, <2>4
<1>8. Types'
  <2>1. slice' \in 0 .. NumberSlices /\ dataSlice' \in Nat
    BY <1>3, <1>4, <1>5
  <2>2. currentFile' \in [1 .. HeaderBytes -> Nat]
    <3>1. currentFile \in [1 .. HeaderBytes -> Nat]
      BY DEF Types
    <3>2. \A f \in Files : Number[f] \in [1 .. HeaderBytes -> Nat]
      BY DEF NumberedFiles, Files
    <3>3. currentFile' = currentFile \/ \E f \in Files : currentFile' = Number[f]
      BY <1>1 DEF LeftInCurrentFile
    <3> HIDE DEF OutputInv
    <3> QED BY <3>1, <3>2, <3>3
  <2> QED BY <1>1, <2>1, <2>2 DEF Types
<1>9. InRow'
  <2>1. Row(buffer, x) /\ Row(held, x) /\ Chain(elements, x + Len(held), received)
    BY <1>7 DEF InRow
  <2> QED BY <1>1, <1>7, <2>1 DEF InRow
<1>10. InPhase'
  <2>1. buffer' = <<>> /\ Len(buffer') = 0
    BY <1>1, <1>2
  <2>2. dataSlice' + 0 <= SliceBytes(slice')
    BY <1>4, <1>5
  <2> QED BY <1>1, <1>4, <1>7, <2>1, <2>2 DEF InPhase
<1>11. fileIndex = 0
  <2>1. CASE slice = 0
    BY <2>1 DEF InBin
  <2>2. CASE slice > 0
    <3>1. slice \in 1 .. NumberSlices /\ Done = SliceBytes(slice)
      <4>1. slice \in 1 .. NumberSlices /\ Done + 0 + 0 = SliceBytes(slice) /\ Done \in Nat
        BY <1>2, <2>2, Places
      <4> QED BY <4>1
    <3>2. Done % BinBytes[slice] = 0
      <4>1. /\ Bins[slice] \in Nat \ {0} /\ BinBytes[slice] \in Nat \ {0}
            /\ SliceBytes(slice) = Bins[slice] * BinBytes[slice]
        BY <3>1, SliceSizes
      <4>2. (Bins[slice] * BinBytes[slice]) % BinBytes[slice] = 0
        BY <4>1, WholeBins
      <4> QED BY <3>1, <4>1, <4>2
    <3>3. HeaderBytes \in Nat \ {0}
      BY DEF OutputStreamAssumption
    <3> QED BY <2>2, <3>2, <3>3 DEF InBin
  <2> QED BY <1>3, <2>1, <2>2
<1>12. InBin'
  <2>1. BinBytes[k] \in Nat \ {0} /\ HeaderBytes \in Nat \ {0}
    BY SliceSizes DEF OutputStreamAssumption
  <2>2. 0 % BinBytes[k] = 0
    BY <2>1
  <2>3. Done' % BinBytes[slice'] = 0 /\ fileIndex' = 0 /\ slice' # 0
    BY <1>1, <1>4, <1>7, <1>11, <2>2
  <2>4. 0 < HeaderBytes /\ \A i \in 1 .. HeaderBytes : ~(i <= 0)
    BY <2>1
  <2> QED BY <2>3, <2>4 DEF InBin
<1>13. RightFiles'
  BY <1>1, <1>7 DEF RightFiles
<1>14. KnownFile'
  <2> SUFFICES ASSUME FewFiles
               PROVE  (\E f \in Files : Number[f] = currentFile') \/ (slice' <= 1 /\ Taken' < HeaderBytes)
    BY DEF KnownFile
  <2>1. CASE \E f \in Files : Number[f] = currentFile
    BY <1>1, <2>1 DEF LeftInCurrentFile
  <2>2. CASE slice <= 1 /\ Taken < HeaderBytes
    <3>1. HeaderBytes \in Nat \ {0}
      BY DEF OutputStreamAssumption
    <3>2. slice # 1
      <4> SUFFICES ASSUME slice = 1 PROVE FALSE
        OBVIOUS
      <4>1. PICK n \in Nat \ {0}, b \in Nat \ {0} : b > HeaderBytes /\ SliceBytes(1) = n * b
        <5>1. 1 \in 1 .. NumberSlices
          BY <1>3
        <5> QED BY <5>1, SliceSizes
      <4>2. SliceEnd[0] = 0 /\ SliceEnd[1] = SliceEnd[0] + SliceBytes(1)
        <5>1. 1 \in 1 .. NumberSlices /\ 1 - 1 = 0
          BY <1>3
        <5> QED BY <5>1, SliceEnds
      <4>3. n * b >= b
        OBVIOUS
      <4>4. Taken = n * b
        <5>1. SliceEnd[slice] = n * b /\ n * b \in Nat
          BY <4>1, <4>2
        <5>2. Taken = n * b - 0 - 0
          BY <1>2, <5>1 DEF Taken
        <5> QED BY <5>1, <5>2
      <4> QED BY <2>2, <3>1, <4>1, <4>3, <4>4
    <3>3. slice = 0 /\ slice' = 1
      BY <1>1, <1>3, <2>2, <3>2
    <3>4. Taken' = 0
      <4>1. k = 1
        BY <1>4, <3>3
      <4>2. SliceEnd[0] = 0
        BY SliceEnds
      <4> QED BY <1>6, <1>7, <4>1, <4>2
    <3> QED BY <3>1, <3>3, <3>4
  <2> QED BY <2>1, <2>2 DEF KnownFile
<1>15. FailsOnlyAtStart'
  BY <1>1 DEF FailsOnlyAtStart
<1> QED BY <1>8, <1>9, <1>10, <1>12, <1>13, <1>14, <1>15

LEMMA ReadBytesHolds == ASSUME OutputStreamAssumption, OutputInv, ReadBytes PROVE OutputInv'
<1> USE DEF OutputInv
<1>1. /\ status = "WRITE_OUTPUT" /\ buffer = <<>> /\ Len(buffer) = 0 /\ status' = "GET_BYTES"
      /\ UNCHANGED <<received, elements, held, dataSlice, slice, buffer, written, inFile, fileIndex,
                     currentFile, files>>
  BY DEF ReadBytes
<1>2. Read' = Read /\ Taken' = Taken /\ Done' = Done /\ PerFile' = PerFile
  BY <1>1 DEF Read, Taken, Done, PerFile
<1>3. Types'
  BY <1>1 DEF Types
<1>4. InRow'
  BY <1>1, <1>2 DEF InRow
<1>5. InPhase'
  <2>1. slice > 0 /\ (slice > 0 => dataSlice + Len(buffer) <= SliceBytes(slice)) /\ written = Done + Len(buffer)
    BY <1>1 DEF InPhase
  <2>2. Done \in Nat
    BY <2>1, Places
  <2>3. written = Done
    BY <1>1, <2>1, <2>2
  <2> QED BY <1>1, <1>2, <2>1, <2>3 DEF InPhase
<1>6. InBin'
  BY <1>1, <1>2 DEF InBin
<1>7. RightFiles'
  BY <1>1, <1>2 DEF RightFiles
<1>8. KnownFile' /\ FailsOnlyAtStart'
  BY <1>1, <1>2 DEF KnownFile, FailsOnlyAtStart
<1> QED BY <1>3, <1>4, <1>5, <1>6, <1>7, <1>8

LEMMA NextElementHolds == ASSUME OutputStreamAssumption, OutputInv, NextElement PROVE OutputInv'
<1> USE DEF OutputInv
<1>1. /\ status = "GET_BYTES" /\ held = <<>> /\ elements # <<>>
      /\ held' = Head(elements) /\ elements' = Tail(elements)
      /\ UNCHANGED <<received, dataSlice, status, slice, buffer, written, inFile, fileIndex, currentFile, files>>
  BY DEF NextElement
<1>2. Read' = Read /\ Taken' = Taken /\ Done' = Done /\ PerFile' = PerFile
  BY <1>1 DEF Read, Taken, Done, PerFile
<1>3. elements \in Seq(Seq(Nat)) /\ received \in Nat
  BY DEF Types
<1>4. PICK a \in Nat : a = Read /\ Chain(elements, a, received)
  <2>1. Read \in Nat /\ Len(held) = 0
    BY <1>1, Places
  <2>2. Chain(elements, Read + 0, received)
    BY <2>1 DEF InRow
  <2>3. Read + 0 = Read
    BY <2>1
  <2> QED BY <2>1, <2>2, <2>3
<1>5. /\ Head(elements) \in Seq(Nat) /\ Row(Head(elements), a)
      /\ Tail(elements) \in Seq(Seq(Nat)) /\ Chain(Tail(elements), a + Len(Head(elements)), received)
  BY <1>1, <1>3, <1>4, ChainTaken
<1>6. Types'
  BY <1>1, <1>5 DEF Types
<1>7. InRow'
  <2>1. Row(buffer, Taken)
    BY DEF InRow
  <2> QED BY <1>1, <1>2, <1>4, <1>5, <2>1 DEF InRow
<1>8. InPhase'
  BY <1>1, <1>2 DEF InPhase
<1>9. InBin'
  BY <1>1, <1>2 DEF InBin
<1>10. RightFiles'
  BY <1>1, <1>2 DEF RightFiles
<1>11. KnownFile' /\ FailsOnlyAtStart'
  BY <1>1, <1>2 DEF KnownFile, FailsOnlyAtStart
<1> QED BY <1>6, <1>7, <1>8, <1>9, <1>10, <1>11

LEMMA CopyBytesHolds == ASSUME OutputStreamAssumption, OutputInv, CopyBytes PROVE OutputInv'
<1> USE DEF OutputInv
<1>1. PICK d \in Nat, l \in Nat, h \in Nat, t \in Nat, r \in Nat :
        /\ d = dataSlice /\ l = Len(buffer) /\ h = Len(held) /\ t = Taken /\ r = Read /\ r = t + l
  <2>1. dataSlice \in Nat /\ Len(held) \in Nat
    BY DEF Types
  <2>2. Read \in Nat /\ Taken \in Nat /\ Read = Taken + Len(buffer) /\ Len(buffer) \in Nat
    BY Places
  <2> QED BY <2>1, <2>2
<1>2. PICK n \in 0 .. h : n <= d /\ n = Min({dataSlice, Len(held)})
  <2>1. \E x \in {d, h} : \A y \in {d, h} : x <= y
    BY <1>1
  <2>2. Min({d, h}) \in {d, h} /\ \A y \in {d, h} : Min({d, h}) <= y
    BY <2>1 DEF Min
  <2>3. Min({d, h}) \in 0 .. h /\ Min({d, h}) <= d
    BY <2>2
  <2> QED BY <1>1, <2>3
<1>3. /\ status = "GET_BYTES" /\ status' = status /\ buffer' = buffer \o SubSeq(held, 1, n)
      /\ held' = SubSeq(held, n + 1, Len(held)) /\ dataSlice' = d - n
      /\ UNCHANGED <<received, elements, slice, written, inFile, fileIndex, currentFile, files>>
  BY <1>1, <1>2 DEF CopyBytes, Keep
<1>4. /\ buffer \in Seq(Nat) /\ held \in Seq(Nat) /\ Row(buffer, t) /\ Row(held, r)
      /\ Chain(elements, r + h, received)
  BY <1>1 DEF Types, InRow
<1>5. PICK s \in Seq(Nat) : s = SubSeq(held, 1, n) /\ Len(s) = n /\ Row(s, t + l)
  <2>1. n \in 0 .. Len(held)
    BY <1>1
  <2>2. SubSeq(held, 1, n) \in Seq(Nat) /\ Len(SubSeq(held, 1, n)) = n /\ Row(SubSeq(held, 1, n), r)
    BY <1>4, <2>1, RowCut
  <2> QED BY <1>1, <2>2
<1>6. held' \in Seq(Nat) /\ Len(held') = h - n /\ Row(held', r + n)
  BY <1>1, <1>2, <1>3, <1>4, RowCut
<1>7. buffer' \in Seq(Nat) /\ Len(buffer') = l + n /\ Row(buffer', t)
  <2>1. Row(s, t + Len(buffer))
    BY <1>1, <1>5
  <2>2. buffer \o s \in Seq(Nat) /\ Len(buffer \o s) = Len(buffer) + Len(s) /\ Row(buffer \o s, t)
    BY <1>4, <2>1, RowJoined
  <2> QED BY <1>1, <1>3, <1>5, <2>2
<1>8. slice > 0 /\ slice \in 1 .. NumberSlices
  <2>1. slice > 0
    BY <1>3 DEF InPhase
  <2> QED BY <2>1, Places
<1>9. PICK e \in Nat, m \in Nat : e = SliceEnd[slice] /\ m = SliceBytes(slice)
  <2>1. NumberSlices \in Nat /\ slice \in 0 .. NumberSlices
    BY <1>8, SliceSizes
  <2> QED BY <1>8, <2>1, SliceEnds, SliceSizes
<1>10. Read = e - d /\ Taken = e - d - l /\ Done = m - d - l
  BY <1>1, <1>9 DEF Read, Taken, Done
<1>11. Read' = e - (d - n) /\ Taken' = e - (d - n) - (l + n) /\ Done' = m - (d - n) - (l + n)
  BY <1>3, <1>7, <1>9 DEF Read, Taken, Done
<1>12. Read' = r + n /\ Taken' = t /\ Done' = Done
  <2>1. e - (d - n) = (e - d) + n /\ e - (d - n) - (l + n) = e - d - l /\ m - (d - n) - (l + n) = m - d - l
    OBVIOUS
  <2> QED BY <1>1, <1>10, <1>11, <2>1
<1>13. d - n \in Nat
  BY <1>2
<1>14. Types'
  BY <1>3, <1>6, <1>7, <1>13 DEF Types
<1>15. InRow'
  <2>1. (r + n) + (h - n) = r + h
    BY <1>2
  <2>2. Chain(elements', Read' + Len(held'), received')
    BY <1>3, <1>4, <1>6, <1>12, <2>1
  <2>3. Row(buffer', Taken') /\ Row(held', Read')
    BY <1>6, <1>7, <1>12
  <2> QED BY <2>2, <2>3 DEF InRow
<1>16. InPhase'
  <2>1. d + l <= m
    BY <1>1, <1>8, <1>9 DEF InPhase
  <2>2. (d - n) + (l + n) <= m
    BY <1>2, <2>1
  <2>3. dataSlice' + Len(buffer') <= SliceBytes(slice')
    BY <1>3, <1>7, <1>9, <2>2
  <2>4. written = Done
    BY <1>3 DEF InPhase
  <2> QED BY <1>3, <1>8, <1>12, <2>3, <2>4 DEF InPhase
<1>17. InBin'
  BY <1>3, <1>12 DEF InBin
<1>18. RightFiles'
  BY <1>1, <1>3, <1>12 DEF RightFiles
<1>19. KnownFile' /\ FailsOnlyAtStart'
  BY <1>1, <1>3, <1>12 DEF KnownFile, FailsOnlyAtStart
<1> QED BY <1>14, <1>15, <1>16, <1>17, <1>18, <1>19

LEMMA EndOfBytesHolds == ASSUME OutputStreamAssumption, OutputInv, EndOfBytes PROVE OutputInv'
<1> USE DEF OutputInv
<1>1. /\ status = "GET_BYTES" /\ status' = "WRITE_OUTPUT" /\ inFile' = InFile /\ written' = written + Len(buffer)
      /\ UNCHANGED <<received, elements, held, dataSlice, slice, buffer, fileIndex, currentFile, files>>
  BY DEF EndOfBytes
<1>2. Read' = Read /\ Taken' = Taken /\ Done' = Done /\ PerFile' = PerFile
  BY <1>1 DEF Read, Taken, Done, PerFile
<1>3. slice > 0 /\ written = Done /\ Len(buffer) \in Nat /\ Done \in Nat /\ slice \in 1 .. NumberSlices
  <2>1. slice > 0 /\ written = Done
    BY <1>1 DEF InPhase
  <2> QED BY <2>1, Places
<1>4. inFile' = Done % PerFile
  BY <1>1, <1>3 DEF InFile
<1>5. PerFile \in Nat \ {0}
  <2>1. slice \in Nat /\ slice \in 1 .. NumberSlices /\ PerFile = BinBytes[slice]
    BY <1>3, PerFileIsBin
  <2> QED BY <2>1, SliceSizes
<1>6. Types'
  <2>1. inFile' \in Nat /\ written' \in Nat
    BY <1>1, <1>3, <1>4, <1>5
  <2> QED BY <1>1, <2>1 DEF Types
<1>7. InRow'
  BY <1>1, <1>2 DEF InRow
<1>8. InPhase'
  <2>1. dataSlice + Len(buffer) <= SliceBytes(slice)
    BY <1>3 DEF InPhase
  <2> QED BY <1>1, <1>2, <1>3, <1>4, <2>1 DEF InPhase
<1>9. InBin'
  BY <1>1, <1>2 DEF InBin
<1>10. RightFiles'
  BY <1>1, <1>2 DEF RightFiles
<1>11. KnownFile' /\ FailsOnlyAtStart'
  BY <1>1, <1>2 DEF KnownFile, FailsOnlyAtStart
<1> QED BY <1>6, <1>7, <1>8, <1>9, <1>10, <1>11

LEMMA EndSliceHolds == ASSUME OutputStreamAssumption, OutputInv, EndSlice PROVE OutputInv'
<1> USE DEF OutputInv
<1>1. /\ status = "WRITE_OUTPUT" /\ buffer = <<>> /\ dataSlice = 0 /\ status' = "END_SLICE"
      /\ UNCHANGED <<received, elements, held, dataSlice, slice, buffer, written, inFile, fileIndex,
                     currentFile, files>>
  BY DEF EndSlice
<1>2. Read' = Read /\ Taken' = Taken /\ Done' = Done
  BY <1>1 DEF Read, Taken, Done
<1>3. Types'
  BY <1>1 DEF Types
<1>4. InRow'
  BY <1>1, <1>2 DEF InRow
<1>5. InPhase'
  BY <1>1, <1>2 DEF InPhase
<1>6. InBin'
  BY <1>1, <1>2 DEF InBin
<1>7. RightFiles'
  BY <1>1, <1>2 DEF RightFiles
<1>8. KnownFile' /\ FailsOnlyAtStart'
  BY <1>1, <1>2 DEF KnownFile, FailsOnlyAtStart
<1> QED BY <1>3, <1>4, <1>5, <1>6, <1>7, <1>8

\* What is known of a byte that write_output takes: behind byte p of the stream, byte o of
\* slice k, byte r of its bin, of w bytes, for file f.
NextByteFacts(k, o, p, r, w, f) ==
  /\ k = slice /\ slice > 0 /\ o = Done /\ p = Taken /\ w = BinBytes[k] /\ r = o % w
  /\ HeaderBytes < w /\ r < w /\ PerFile = w /\ inFile = r
  /\ Head(buffer) = p + 1 /\ o < SliceBytes(k)
  /\ fileIndex = IF r < HeaderBytes THEN r ELSE HeaderBytes
  /\ \A i \in 1 .. HeaderBytes : i <= r => currentFile[i] = Number[f][i]
  /\ f \in Files /\ f = File(k, o) /\ FileOf(p + 1) = f
  /\ HeaderByte(p + 1) = Number[f][r + 1]
  /\ IsHeader(p + 1) <=> r < HeaderBytes

LEMMA ByteInFront ==
  ASSUME OutputStreamAssumption, NumberedFiles, OutputInv, status = "WRITE_OUTPUT", buffer # <<>>
  PROVE  \E k \in 1 .. NumberSlices, o \in Nat, p \in Nat, r \in Nat, w \in Nat, f \in Files :
           NextByteFacts(k, o, p, r, w, f)
<1> USE DEF OutputInv
<1>1. slice > 0
  BY DEF InPhase
<1>2. PICK k \in 1 .. NumberSlices : k = slice
  BY <1>1, Places
<1>3. PICK o \in Nat, p \in Nat, l \in Nat, x \in Nat, d \in Nat :
        /\ o = Done /\ p = Taken /\ l = Len(buffer) /\ x = SliceEnd[k - 1] /\ d = dataSlice
        /\ o + l + d = SliceBytes(k) /\ p = x + o
  <2>1. dataSlice \in Nat
    BY DEF Types
  <2> QED BY <1>1, <1>2, <2>1, Places
<1>4. PICK w \in Nat \ {0} : w = BinBytes[k] /\ HeaderBytes < w /\ HeaderBytes \in Nat \ {0}
  <2>1. BinBytes[k] \in Nat \ {0} /\ BinBytes[k] > HeaderBytes /\ HeaderBytes \in Nat \ {0}
    BY SliceSizes DEF OutputStreamAssumption
  <2>2. HeaderBytes < BinBytes[k]
    BY <2>1
  <2> QED BY <2>1, <2>2
<1>5. PICK r \in Nat : r = o % w /\ r < w
  <2>1. o % w \in 0 .. w - 1
    BY NextInBin
  <2> QED BY <2>1
<1>6. PerFile = w
  BY <1>2, <1>4, PerFileIsBin
<1>7. inFile = r
  BY <1>3, <1>5, <1>6 DEF InPhase
<1>8. l > 0 /\ Head(buffer) = p + 1
  <2>1. buffer \in Seq(Nat) /\ Row(buffer, p)
    BY <1>3 DEF Types, InRow
  <2>2. Head(buffer) = p + 1 /\ Len(buffer) \in Nat \ {0}
    BY <2>1, RowTaken
  <2> QED BY <1>3, <2>2
<1>9. o < SliceBytes(k)
  <2>1. o < o + l + d
    BY <1>8
  <2> QED BY <1>3, <2>1
<1>10. PICK f \in Files : f = File(k, o)
  BY <1>9, FileIsThere
<1>11. /\ fileIndex = IF r < HeaderBytes THEN r ELSE HeaderBytes
       /\ \A i \in 1 .. HeaderBytes : i <= r => currentFile[i] = Number[f][i]
  BY <1>1, <1>2, <1>3, <1>4, <1>5, <1>10 DEF InBin
<1>12. /\ FileOf(p + 1) = f /\ HeaderByte(p + 1) = Number[f][r + 1]
       /\ IsHeader(p + 1) <=> r < HeaderBytes
  <2>1. p + 1 \in Nat /\ p + 1 = SliceEnd[k - 1] + o + 1
    BY <1>3
  <2>2. /\ FileOf(p + 1) = File(k, o)
        /\ IsHeader(p + 1) <=> o % BinBytes[k] < HeaderBytes
        /\ HeaderByte(p + 1) = Number[File(k, o)][(o % BinBytes[k]) + 1]
    BY <1>9, <2>1, ByteOfSlice
  <2> QED BY <1>4, <1>5, <1>10, <2>2
<1>13. /\ k = slice /\ slice > 0 /\ o = Done /\ p = Taken /\ w = BinBytes[k] /\ r = o % w
       /\ HeaderBytes < w /\ r < w /\ PerFile = w /\ inFile = r
       /\ Head(buffer) = p + 1 /\ o < SliceBytes(k)
  BY <1>1, <1>2, <1>3, <1>4, <1>5, <1>6, <1>7, <1>8, <1>9
<1> HIDE DEF OutputInv
<1>14. w \in Nat /\ NextByteFacts(k, o, p, r, w, f)
  BY <1>10, <1>11, <1>12, <1>13 DEF NextByteFacts
<1> QED BY <1>14

LEMMA WriteByteHolds == ASSUME OutputStreamAssumption, NumberedFiles, OutputInv, WriteByte PROVE OutputInv'
<1>1. /\ status = "WRITE_OUTPUT" /\ buffer # <<>> /\ buffer' = Tail(buffer) /\ inFile' = (inFile + 1) % PerFile
      /\ UNCHANGED <<received, elements, held, dataSlice, slice, written>>
      /\ status' \in {"WRITE_OUTPUT", "ABORTED"}
  BY DEF WriteByte, AfterLookup
<1>2. PICK k \in 1 .. NumberSlices, o \in Nat, p \in Nat, r \in Nat, w \in Nat, f \in Files :
        NextByteFacts(k, o, p, r, w, f)
  BY <1>1, ByteInFront
<1> USE DEF NextByteFacts
<1>3. Types /\ InRow /\ InPhase /\ InBin /\ RightFiles /\ KnownFile
  BY DEF OutputInv
<1>4. PICK l \in Nat \ {0} : l = Len(buffer) /\ Tail(buffer) \in Seq(Nat) /\ Len(buffer') = l - 1
                           /\ Row(buffer', p + 1)
  <2>1. buffer \in Seq(Nat) /\ Row(buffer, p)
    BY <1>2, <1>3 DEF Types, InRow
  <2>2. /\ Row(Tail(buffer), p + 1) /\ Tail(buffer) \in Seq(Nat) /\ Len(Tail(buffer)) = Len(buffer) - 1
        /\ Len(buffer) \in Nat \ {0}
    BY <1>1, <2>1, RowTaken
  <2> QED BY <1>1, <2>2
<1>5. /\ r + 1 < w => (o + 1) % w = r + 1 /\ (o + 1) \div w = o \div w
      /\ r + 1 = w => (o + 1) % w = 0
      /\ inFile' = (o + 1) % w
  <2>1. w \in Nat \ {0}
    BY <1>2 DEF OutputStreamAssumption
  <2>2. /\ (o % w) + 1 < w => (o + 1) % w = (o % w) + 1 /\ (o + 1) \div w = o \div w
        /\ (o % w) + 1 = w => (o + 1) % w = 0
        /\ ((o % w) + 1) % w = (o + 1) % w
    BY <2>1, NextInBin
  <2> QED BY <1>1, <1>2, <2>2
<1>6. Read' = Read /\ Taken' = p + 1 /\ Done' = o + 1 /\ PerFile' = w
  <2>1. NumberSlices \in Nat /\ slice \in 0 .. NumberSlices
    BY <1>2, SliceSizes
  <2>2. PICK e \in Nat, m \in Nat, d \in Nat : e = SliceEnd[slice] /\ m = SliceBytes(slice) /\ d = dataSlice
    BY <1>2, <1>3, <2>1, SliceEnds, SliceSizes DEF Types
  <2>3. p = e - d - l /\ o = m - d - l
    BY <1>2, <1>4, <2>2 DEF Taken, Done
  <2>4. Taken' = e - d - (l - 1) /\ Done' = m - d - (l - 1)
    BY <1>1, <1>4, <2>2 DEF Taken, Done
  <2>5. e - d - (l - 1) = (e - d - l) + 1 /\ m - d - (l - 1) = (m - d - l) + 1
    OBVIOUS
  <2>6. Read' = Read /\ PerFile' = PerFile
    BY <1>1 DEF Read, PerFile
  <2> QED BY <1>2, <2>3, <2>4, <2>5, <2>6
<1>7. InRow'
  <2>1. Row(held, Read) /\ Chain(elements, Read + Len(held), received)
    BY <1>3 DEF InRow
  <2> QED BY <1>1, <1>4, <1>6, <2>1 DEF InRow
<1>8. InPhase'
  <2>1. dataSlice + l <= SliceBytes(slice) /\ written = o + l /\ dataSlice \in Nat
    BY <1>1, <1>2, <1>3, <1>4 DEF InPhase, Types
  <2>2. SliceBytes(slice) \in Nat
    BY <1>2, SliceSizes
  <2>3. dataSlice + (l - 1) <= SliceBytes(slice) /\ o + l = (o + 1) + (l - 1)
    BY <2>1, <2>2
  <2>4. dataSlice' + Len(buffer') <= SliceBytes(slice') /\ written' = Done' + Len(buffer')
    BY <1>1, <1>4, <1>6, <2>1, <2>3
  <2> QED BY <1>1, <1>2, <1>5, <1>6, <2>4 DEF InPhase
<1>9. HeaderBytes \in Nat \ {0} /\ fileIndex \in 0 .. HeaderBytes /\ inFile' \in Nat
      /\ currentFile \in [1 .. HeaderBytes -> Nat] /\ files \in [Files -> Seq(Nat)]
  <2>1. HeaderBytes \in Nat \ {0} /\ fileIndex \in 0 .. HeaderBytes
        /\ currentFile \in [1 .. HeaderBytes -> Nat] /\ files \in [Files -> Seq(Nat)]
    BY <1>3 DEF OutputStreamAssumption, Types
  <2>2. inFile' \in Nat
    <3>1. r + 1 < w \/ r + 1 = w
      BY <1>2
    <3>2. inFile' = r + 1 \/ inFile' = 0
      BY <1>5, <3>1
    <3> QED BY <3>2
  <2> QED BY <2>1, <2>2
<1>10. f \in Files /\ Number[f] \in [1 .. HeaderBytes -> Nat]
  BY DEF NumberedFiles, Files
<1>11. CASE fileIndex < HeaderBytes
  <2>1. /\ currentFile' = [currentFile EXCEPT ![fileIndex + 1] = HeaderByte(Head(buffer))]
        /\ fileIndex' = fileIndex + 1 /\ files' = files
        /\ status' = IF buffer' = <<>> THEN AfterLookup(currentFile') ELSE status
    BY <1>9, <1>11 DEF WriteByte
  <2>2. fileIndex = r /\ r < HeaderBytes /\ r + 1 < w
    <3>1. (fileIndex = IF r < HeaderBytes THEN r ELSE HeaderBytes) /\ HeaderBytes < w
      BY <1>2, Zenon
    <3>2. HeaderBytes \in Nat
      BY <1>9
    <3> HIDE DEF NextByteFacts
    <3>3. r < HeaderBytes
      BY <1>11, <3>1, <3>2
    <3> QED BY <3>1, <3>2, <3>3
  <2>3. (o + 1) % w = r + 1 /\ (o + 1) \div w = o \div w
    BY <1>5, <2>2
  <2>4. /\ currentFile' = [currentFile EXCEPT ![r + 1] = Number[f][r + 1]]
        /\ r + 1 \in 1 .. HeaderBytes
    <3>1. r + 1 \in 1 .. HeaderBytes
      BY <1>9, <2>2
    <3> QED BY <1>2, <2>1, <2>2, <3>1
  <2>5. Types'
    <3>1. fileIndex' \in 0 .. HeaderBytes
      BY <1>9, <2>1, <2>2
    <3>2. currentFile' \in [1 .. HeaderBytes -> Nat]
      BY <1>9, <1>10, <2>4
    <3> QED BY <1>1, <1>3, <1>4, <1>9, <2>1, <3>1, <3>2 DEF Types
  <2>6. \A i \in 1 .. HeaderBytes : i <= r + 1 => currentFile'[i] = Number[f][i]
    <3> SUFFICES ASSUME NEW i \in 1 .. HeaderBytes, i <= r + 1 PROVE currentFile'[i] = Number[f][i]
      OBVIOUS
    <3>1. CASE i = r + 1
      BY <1>9, <2>4, <3>1
    <3>2. CASE i # r + 1
      <4>1. i <= r
        BY <3>2
      <4>2. currentFile[i] = Number[f][i]
        BY <1>2, <4>1
      <4> QED BY <1>9, <2>4, <3>2, <4>2
    <3> QED BY <3>1, <3>2
  <2>7. InBin'
    <3>1. r + 1 = IF r + 1 < HeaderBytes THEN r + 1 ELSE HeaderBytes
      <4> HIDE DEF NextByteFacts
      <4>1. HeaderBytes \in Nat
        BY <1>9
      <4> QED BY <2>2, <4>1
    <3>2. Done' % BinBytes[slice'] = r + 1 /\ File(slice', Done') = f /\ slice' # 0
      BY <1>1, <1>2, <1>6, <2>3 DEF File
    <3> QED BY <2>1, <2>2, <2>6, <3>1, <3>2 DEF InBin
  <2>8. RightFiles'
    <3>1. IsHeader(p + 1)
      BY <1>2, <2>2
    <3>2. \A b \in Files : DataOf(b, p + 1) = DataOf(b, p)
      BY <3>1, DataGrows
    <3>3. \A b \in Files : Ascending(files[b]) /\ ToSet(files[b]) = DataOf(b, p)
      BY <1>2, <1>3 DEF RightFiles
    <3> QED BY <1>6, <2>1, <3>2, <3>3 DEF RightFiles
  <2>9. KnownFile'
    <3> SUFFICES ASSUME FewFiles
                 PROVE  (\E g \in Files : Number[g] = currentFile') \/ (slice' <= 1 /\ Taken' < HeaderBytes)
      BY DEF KnownFile
    <3>1. CASE \E g \in Files : Number[g] = currentFile
      <4>1. PICK g \in Files : Number[g] = currentFile
        BY <3>1
      <4>2. \A i \in 2 .. HeaderBytes : Number[g][i] = Number[f][i]
        BY <1>10, <4>1 DEF FewFiles
      <4>3. \A i \in 1 .. HeaderBytes : currentFile'[i] = Number[f][i]
        <5> SUFFICES ASSUME NEW i \in 1 .. HeaderBytes, i # r + 1 PROVE currentFile'[i] = Number[f][i]
          BY <2>4, <1>9
        <5>1. currentFile'[i] = currentFile[i]
          BY <1>9, <2>4
        <5>2. CASE i <= r
          BY <2>6, <5>2
        <5>3. CASE ~(i <= r)
          <6>1. i \in 2 .. HeaderBytes
            BY <5>3
          <6> QED BY <4>1, <4>2, <5>1, <6>1
        <5> QED BY <5>2, <5>3
      <4>4. currentFile' = Number[f]
        BY <1>9, <1>10, <2>4, <4>3
      <4> QED BY <1>10, <4>4
    <3>2. CASE slice <= 1 /\ Taken < HeaderBytes
      <4>1. CASE p + 1 < HeaderBytes
        BY <1>1, <1>6, <3>2, <4>1
      <4>2. CASE ~(p + 1 < HeaderBytes)
        <5>1. k = 1 /\ p < HeaderBytes
          BY <1>2, <3>2
        <5>2. p = o
          <6>1. k = slice /\ o = Done /\ p = Taken /\ k > 0
            BY <1>2, <5>1
          <6>2. Taken = SliceEnd[slice - 1] + Done /\ Done \in Nat
            BY <1>3, <6>1, Places
          <6>3. SliceEnd[slice - 1] = 0
            BY <5>1, <6>1, SliceEnds
          <6> QED BY <6>1, <6>2, <6>3
        <5>3. r = o /\ r + 1 = HeaderBytes
          <6>1. o < w /\ HeaderBytes \in Nat /\ w \in Nat
            BY <1>2, <1>9, <5>1, <5>2
          <6>2. o % w = o
            BY <6>1, SmallRest
          <6> QED BY <1>2, <4>2, <5>1, <5>2, <6>1, <6>2
        <5>4. \A i \in 1 .. HeaderBytes : currentFile'[i] = Number[f][i]
          BY <2>6, <5>3
        <5>5. currentFile' = Number[f]
          BY <1>9, <1>10, <2>4, <5>4
        <5> QED BY <1>10, <5>5
      <4> QED BY <4>1, <4>2
    <3> QED BY <1>3, <3>1, <3>2 DEF KnownFile
  <2>10. FailsOnlyAtStart'
    <3> SUFFICES ASSUME FewFiles, status' = "ABORTED" PROVE slice' = 1 /\ Taken' < HeaderBytes
      BY DEF FailsOnlyAtStart
    <3>1. ~ \E g \in Files : Number[g] = currentFile'
      BY <1>1, <2>1 DEF AfterLookup
    <3>2. slice' <= 1 /\ Taken' < HeaderBytes
      BY <2>9, <3>1 DEF KnownFile
    <3> QED BY <1>1, <1>2, <3>2
  <2> QED BY <1>7, <1>8, <2>5, <2>7, <2>8, <2>9, <2>10 DEF OutputInv
<1>12. CASE fileIndex = HeaderBytes
  <2>1. /\ files' = [g \in Files |-> IF Number[g] = currentFile THEN Append(files[g], Head(buffer))
                                    ELSE files[g]]
        /\ fileIndex' = (IF inFile' = 0 THEN 0 ELSE fileIndex) /\ currentFile' = currentFile
        /\ status' = AfterLookup(currentFile)
    BY <1>9, <1>12 DEF WriteByte
  <2>2. r >= HeaderBytes /\ r > 0
    <3>1. fileIndex = IF r < HeaderBytes THEN r ELSE HeaderBytes
      BY <1>2, Zenon
    <3>2. HeaderBytes \in Nat \ {0}
      BY <1>9
    <3> HIDE DEF NextByteFacts
    <3>3. ~(r < HeaderBytes)
      BY <1>12, <3>1, <3>2
    <3> QED BY <3>2, <3>3
  <2>3. currentFile = Number[f]
    <3>1. \A i \in 1 .. HeaderBytes : currentFile[i] = Number[f][i]
      <4> TAKE i \in 1 .. HeaderBytes
      <4>1. i <= r
        BY <1>9, <2>2
      <4> QED BY <1>2, <4>1
    <3> QED BY <1>9, <1>10, <3>1
  <2>4. ~IsHeader(p + 1)
    BY <1>2, <1>9, <2>2
  <2>5. \A g \in Files : Number[g] = currentFile <=> g = f
    BY <2>3 DEF NumberedFiles, Files
  <2>6. /\ files' = [files EXCEPT ![f] = Append(files[f], p + 1)]
        /\ status' = "WRITE_OUTPUT"
    <3>1. files' = [g \in Files |-> IF g = f THEN Append(files[g], p + 1) ELSE files[g]]
      BY <1>2, <2>1, <2>5
    <3>2. files' = [files EXCEPT ![f] = Append(files[f], p + 1)]
      BY <1>9, <3>1
    <3>3. status' = status
      BY <2>1, <2>3 DEF AfterLookup
    <3> QED BY <1>1, <3>2, <3>3
  <2>7. \A b \in Files : Ascending(files[b]) /\ ToSet(files[b]) = DataOf(b, p)
    BY <1>2, <1>3 DEF RightFiles
  <2>8. /\ Append(files[f], p + 1) \in Seq(Nat) /\ Ascending(Append(files[f], p + 1))
        /\ ToSet(Append(files[f], p + 1)) = ToSet(files[f]) \cup {p + 1}
    <3>1. DataOf(f, p) \subseteq 1 .. p
      BY DEF DataOf
    <3>2. files[f] \in Seq(Nat) /\ Ascending(files[f]) /\ ToSet(files[f]) \subseteq 1 .. p
      BY <1>9, <2>7, <3>1
    <3> QED BY <3>2, FileGrows
  <2>9. Types'
    <3>1. files' \in [Files -> Seq(Nat)]
      BY <1>9, <2>6, <2>8
    <3>2. fileIndex' \in 0 .. HeaderBytes
      BY <1>9, <2>1
    <3> QED BY <1>1, <1>3, <1>4, <1>9, <2>1, <3>1, <3>2 DEF Types
  <2>10. InBin'
    <3>1. slice' # 0 /\ slice' > 0 /\ Done' % BinBytes[slice'] = (o + 1) % w
      BY <1>1, <1>2, <1>6
    <3>2. CASE r + 1 < w
      <4>1. (o + 1) % w = r + 1 /\ (o + 1) \div w = o \div w /\ inFile' = r + 1
        BY <1>5, <3>2
      <4>2. fileIndex' = HeaderBytes /\ ~(r + 1 < HeaderBytes)
        BY <1>9, <1>12, <2>1, <2>2, <4>1
      <4>3. File(slice', Done') = f
        BY <1>1, <1>2, <1>6, <4>1 DEF File
      <4> QED BY <2>1, <2>3, <3>1, <4>1, <4>2, <4>3 DEF InBin
    <3>3. CASE r + 1 = w
      <4>1. (o + 1) % w = 0 /\ inFile' = 0
        BY <1>5, <3>3
      <4>2. fileIndex' = 0 /\ 0 < HeaderBytes /\ \A i \in 1 .. HeaderBytes : ~(i <= 0)
        BY <1>9, <2>1, <4>1
      <4> QED BY <3>1, <4>1, <4>2 DEF InBin
    <3> QED BY <1>2, <3>2, <3>3
  <2>11. RightFiles'
    <3> SUFFICES ASSUME NEW b \in Files PROVE Ascending(files'[b]) /\ ToSet(files'[b]) = DataOf(b, p + 1)
      BY <1>6 DEF RightFiles
    <3>1. CASE b = f
      <4>1. files'[b] = Append(files[f], p + 1)
        BY <1>9, <2>6, <3>1
      <4>2. DataOf(b, p + 1) = DataOf(f, p) \cup {p + 1}
        BY <1>2, <2>4, <3>1, DataGrows
      <4> QED BY <2>7, <2>8, <4>1, <4>2
    <3>2. CASE b # f
      <4>1. files'[b] = files[b]
        BY <1>9, <2>6, <3>2
      <4>2. DataOf(b, p + 1) = DataOf(b, p)
        BY <1>2, <3>2, DataGrows
      <4> QED BY <2>7, <4>1, <4>2
    <3> QED BY <3>1, <3>2
  <2>12. KnownFile' /\ FailsOnlyAtStart'
    <3>1. \E g \in Files : Number[g] = currentFile'
      BY <1>10, <2>1, <2>3
    <3> QED BY <2>6, <3>1 DEF KnownFile, FailsOnlyAtStart
  <2> QED BY <1>7, <1>8, <2>9, <2>10, <2>11, <2>12 DEF OutputInv
<1> QED BY <1>9, <1>11, <1>12

-----------------------------------------------------------------------------
\* Nothing is lost or counted wrongly on the way from the connection to the files, and the
\* file in hand is that of the bin in front (the loops of both threads).
THEOREM OutputInvariant == Spec => []OutputInv
<1>1. Init => OutputInv
  BY OutputStreamAssumption, FileAssumption, InitHolds
<1>2. OutputInv /\ [Next]_vars => OutputInv'
  <2> SUFFICES ASSUME OutputInv, [Next]_vars PROVE OutputInv'
    OBVIOUS
  <2>1. CASE UNCHANGED vars
    <3>1. Read' = Read /\ Taken' = Taken /\ Done' = Done /\ PerFile' = PerFile
      BY <2>1 DEF vars, Read, Taken, Done, PerFile
    <3>2. Types' /\ InRow' /\ InPhase' /\ InBin' /\ RightFiles' /\ KnownFile' /\ FailsOnlyAtStart'
      BY <2>1, <3>1 DEF vars, OutputInv, Types, InRow, InPhase, InBin, RightFiles, KnownFile,
                        FailsOnlyAtStart
    <3> QED BY <3>2 DEF OutputInv
  <2>2. CASE Receive
    BY <2>2, OutputStreamAssumption, ReceiveHolds
  <2>3. CASE StartNewSlice
    BY <2>3, OutputStreamAssumption, FileAssumption, StartNewSliceHolds
  <2>4. CASE ReadBytes
    BY <2>4, OutputStreamAssumption, ReadBytesHolds
  <2>5. CASE NextElement
    BY <2>5, OutputStreamAssumption, NextElementHolds
  <2>6. CASE CopyBytes
    BY <2>6, OutputStreamAssumption, CopyBytesHolds
  <2>7. CASE EndOfBytes
    BY <2>7, OutputStreamAssumption, EndOfBytesHolds
  <2>8. CASE WriteByte
    BY <2>8, OutputStreamAssumption, FileAssumption, WriteByteHolds
  <2>9. CASE EndSlice
    BY <2>9, OutputStreamAssumption, EndSliceHolds
  <2> QED BY <2>1, <2>2, <2>3, <2>4, <2>5, <2>6, <2>7, <2>8, <2>9 DEF Next, OutputRound, Stay
<1> QED BY <1>1, <1>2, PTL DEF Spec

\* Every output file has the data of its own bin, in the order in which it was
\* sent, with nothing lost, repeated or left over from the numbers in front of the bins
\* (Output_node::write_output behind Data_reader2buffer and Data_reader_buffer).
THEOREM DataInFiles == Spec => []RightFiles
<1>1. OutputInv => RightFiles
  BY DEF OutputInv
<1> QED BY <1>1, OutputInvariant, PTL

\* The assertion of get_data_writer fails in the very first number of the stream or not
\* at all (Output_node::write_output with a number that is read in pieces).
THEOREM FailureAtStart == Spec => []FailsOnlyAtStart
<1>1. OutputInv => FailsOnlyAtStart
  BY DEF OutputInv
<1> QED BY <1>1, OutputInvariant, PTL
=============================================================================
