-------------------------- MODULE SupplyOrder_proofs --------------------------
(***************************************************************************)
(* Proofs that every stream carries the data of the slices its node was    *)
(* given, of the right channels and times and in their order.  No message  *)
(* tells a data writer the time of a slice: the writers, the reader and    *)
(* the manager each go from slice to slice by a clock of their own.        *)
(***************************************************************************)
EXTENDS Supply_proofs

\* Where a scan begins when the one before it ends, the reader goes back by one frame: the block
\* in which the first scan ends is with the data writer already and comes a second time.
ScansApart == \A i \in DOMAIN Scans : i > 1 => Scans[i - 1].stop < Scans[i].start

-----------------------------------------------------------------------------
\* A line of values in which some places are taken by values of V and the others by
\* anything else.  Between(L, V, i, j): no place between i and j is taken.
Between(L, V, i, j) == \A k \in DOMAIN L : i < k /\ k < j => L[k] \notin V

\* The first value is one of those that are due, each comes after the one before it, and
\* those that are next come after the last.  After[x] is the set of values that may come after x.
FirstDue(L, V, Due) == \A j \in DOMAIN L : L[j] \in V /\ Between(L, V, 0, j) => L[j] \in Due
InTurn(L, V, After) ==
  \A i, j \in DOMAIN L :
    i < j /\ L[i] \in V /\ L[j] \in V /\ Between(L, V, i, j) => L[j] \in After[L[i]]
LastNext(L, V, After, Coming) ==
  \A i \in DOMAIN L : L[i] \in V /\ Between(L, V, i, Len(L) + 1) => Coming \subseteq After[L[i]]
NoneNext(L, V, Due, Coming) == Between(L, V, 0, Len(L) + 1) => Coming \subseteq Due
Chain(L, V, Due, After, Coming) ==
  /\ FirstDue(L, V, Due) /\ InTurn(L, V, After)
  /\ LastNext(L, V, After, Coming) /\ NoneNext(L, V, Due, Coming)

LEMMA OtherAdded ==
  ASSUME NEW S, NEW L \in Seq(S), NEW x \in S, NEW V, x \notin V,
         NEW Due, NEW After, NEW Coming, Chain(L, V, Due, After, Coming)
  PROVE  Chain(Append(L, x), V, Due, After, Coming)
<1> DEFINE K == Append(L, x)
<1>1. PICK n \in Nat : n = Len(L)
  OBVIOUS
<1>2. /\ DOMAIN L = 1 .. n /\ DOMAIN K = 1 .. n + 1 /\ Len(K) = n + 1 /\ K[n + 1] \notin V
      /\ \A i \in 1 .. n : K[i] = L[i]
  BY <1>1
<1> HIDE DEF K
<1>3. \A i \in 0 .. n, j \in 1 .. n : Between(K, V, i, j) => Between(L, V, i, j)
  BY <1>2 DEF Between
<1>4. \A i \in 0 .. n : Between(K, V, i, Len(K) + 1) => Between(L, V, i, Len(L) + 1)
  BY <1>1, <1>2 DEF Between
<1>5. \A i \in DOMAIN K : K[i] \in V => i \in 1 .. n /\ i \in DOMAIN L /\ K[i] = L[i]
  BY <1>2
<1>6. FirstDue(K, V, Due)
  BY <1>3, <1>5 DEF Chain, FirstDue
<1>7. InTurn(K, V, After)
  BY <1>3, <1>5 DEF Chain, InTurn
<1>8. LastNext(K, V, After, Coming)
  BY <1>4, <1>5 DEF Chain, LastNext
<1>9. NoneNext(K, V, Due, Coming)
  BY <1>4 DEF Chain, NoneNext
<1> QED BY <1>6, <1>7, <1>8, <1>9 DEF Chain, K

LEMMA NextAdded ==
  ASSUME NEW S, NEW L \in Seq(S), NEW x \in S, NEW V, x \in V,
         NEW Due, NEW After, NEW Coming, Chain(L, V, Due, After, Coming),
         x \in Coming, NEW Later, Later \subseteq After[x]
  PROVE  Chain(Append(L, x), V, Due, After, Later)
<1> DEFINE K == Append(L, x)
<1>1. PICK n \in Nat : n = Len(L)
  OBVIOUS
<1>2. /\ DOMAIN L = 1 .. n /\ DOMAIN K = 1 .. n + 1 /\ Len(K) = n + 1 /\ K[n + 1] = x
      /\ \A i \in 1 .. n : K[i] = L[i]
  BY <1>1
<1> HIDE DEF K
<1>3. \A i \in 0 .. n, j \in 1 .. n : Between(K, V, i, j) => Between(L, V, i, j)
  BY <1>2 DEF Between
<1>4. \A i \in 0 .. n : Between(K, V, i, n + 1) => Between(L, V, i, Len(L) + 1)
  BY <1>1, <1>2 DEF Between
<1>5. \A i \in 0 .. n : ~Between(K, V, i, n + 2)
  BY <1>2 DEF Between
<1>6. \A i \in DOMAIN K : i = n + 1 \/ (i \in 1 .. n /\ i \in DOMAIN L /\ K[i] = L[i])
  BY <1>2
<1>7. FirstDue(K, V, Due)
  <2>1. Between(L, V, 0, Len(L) + 1) => x \in Due
    BY DEF Chain, NoneNext
  <2> QED BY <1>2, <1>3, <1>4, <1>6, <2>1 DEF Chain, FirstDue
<1>8. InTurn(K, V, After)
  <2> SUFFICES ASSUME NEW i \in DOMAIN K, NEW j \in DOMAIN K, i < j, K[i] \in V, K[j] \in V,
                      Between(K, V, i, j)
               PROVE  K[j] \in After[K[i]]
    BY DEF InTurn
  <2>1. i \in 1 .. n /\ i \in DOMAIN L /\ K[i] = L[i]
    BY <1>2
  <2>2. CASE j = n + 1
    <3>1. Between(L, V, i, Len(L) + 1)
      BY <1>4, <2>1, <2>2
    <3> QED BY <1>2, <2>1, <2>2, <3>1 DEF Chain, LastNext
  <2>3. CASE j # n + 1
    BY <1>3, <1>6, <2>1, <2>3 DEF Chain, InTurn
  <2> QED BY <2>2, <2>3
<1>9. LastNext(K, V, After, Later)
  <2> SUFFICES ASSUME NEW i \in DOMAIN K, Between(K, V, i, Len(K) + 1)
               PROVE  Later \subseteq After[K[i]]
    BY DEF LastNext
  <2>1. i = n + 1
    BY <1>2, <1>5
  <2> QED BY <1>2, <2>1
<1>10. NoneNext(K, V, Due, Later)
  BY <1>2, <1>5 DEF NoneNext
<1> QED BY <1>7, <1>8, <1>9, <1>10 DEF Chain, K

LEMMA OtherTaken ==
  ASSUME NEW S, NEW L \in Seq(S), NEW K \in Seq(S), NEW p \in DOMAIN L, NEW V, L[p] \notin V,
         Len(K) = Len(L) - 1,
         \A i \in DOMAIN K : (i < p => K[i] = L[i]) /\ (i >= p => K[i] = L[i + 1]),
         NEW Due, NEW After, NEW Coming, Chain(L, V, Due, After, Coming)
  PROVE  Chain(K, V, Due, After, Coming)
<1>1. PICK n \in Nat : n = Len(L)
  OBVIOUS
<1>2. DOMAIN L = 1 .. n /\ DOMAIN K = 1 .. n - 1 /\ Len(K) + 1 = n /\ p \in 1 .. n
  BY <1>1
<1> DEFINE At(i) == IF i < p THEN i ELSE i + 1
<1>3. /\ \A i \in DOMAIN K : At(i) \in DOMAIN L /\ K[i] = L[At(i)]
      /\ \A i, j \in DOMAIN K : i < j => At(i) < At(j)
  BY <1>2
<1>4. \A k \in DOMAIN L : L[k] \in V =>
        \E i \in DOMAIN K : k = At(i)
  <2> SUFFICES ASSUME NEW k \in DOMAIN L, L[k] \in V
               PROVE  \E i \in DOMAIN K : k = At(i)
    OBVIOUS
  <2>1. CASE k < p
    BY <1>2, <2>1
  <2>2. CASE k > p
    <3>1. k - 1 \in DOMAIN K /\ At(k - 1) = k
      BY <1>2, <2>2
    <3> QED BY <3>1
  <2> QED BY <1>2, <2>1, <2>2
<1>5. \A i, j \in DOMAIN K : At(i) < At(j) => i < j
  BY <1>2
<1>6. \A i \in DOMAIN K : /\ 0 < At(i) /\ 0 < i
                          /\ At(i) < n + 1 /\ i < n
  BY <1>2
<1> HIDE DEF At
<1>7. \A i, j \in DOMAIN K : Between(K, V, i, j) => Between(L, V, At(i), At(j))
  BY <1>3, <1>4, <1>5 DEF Between
<1>8. \A j \in DOMAIN K : Between(K, V, 0, j) => Between(L, V, 0, At(j))
  BY <1>3, <1>4, <1>5, <1>6 DEF Between
<1>9. \A i \in DOMAIN K : Between(K, V, i, Len(K) + 1) => Between(L, V, At(i), Len(L) + 1)
  BY <1>1, <1>2, <1>3, <1>4, <1>5, <1>6 DEF Between
<1>10. Between(K, V, 0, Len(K) + 1) => Between(L, V, 0, Len(L) + 1)
  BY <1>1, <1>2, <1>3, <1>4, <1>6 DEF Between
<1>11. FirstDue(K, V, Due)
  BY <1>3, <1>8 DEF Chain, FirstDue
<1>12. InTurn(K, V, After)
  BY <1>3, <1>7 DEF Chain, InTurn
<1>13. LastNext(K, V, After, Coming)
  BY <1>3, <1>9 DEF Chain, LastNext
<1>14. NoneNext(K, V, Due, Coming)
  BY <1>10 DEF Chain, NoneNext
<1> QED BY <1>11, <1>12, <1>13, <1>14 DEF Chain

\* The first is taken: what may come after it is due then.
LEMMA FirstTaken ==
  ASSUME NEW S, NEW L \in Seq(S), NEW K \in Seq(S), L # <<>>, NEW V,
         L[1] \in V, K[1] \notin V,
         Len(K) = Len(L), \A i \in DOMAIN K : i > 1 => K[i] = L[i],
         NEW Due, NEW After, NEW Coming, Chain(L, V, Due, After, Coming)
  PROVE  L[1] \in Due /\ Chain(K, V, After[L[1]], After, Coming)
<1>1. PICK n \in Nat : n = Len(L) /\ n > 0
  OBVIOUS
<1>2. DOMAIN L = 1 .. n /\ DOMAIN K = 1 .. n /\ Len(K) = n
  BY <1>1
<1>3. \A i \in 1 .. n, j \in 2 .. n + 1 : Between(K, V, i, j) => Between(L, V, i, j)
  BY <1>2 DEF Between
<1>4. \A j \in 2 .. n + 1 : Between(K, V, 0, j) => Between(L, V, 1, j)
  BY <1>2 DEF Between
<1>5. Between(L, V, 0, 1)
  BY <1>2 DEF Between
<1>6. \A i \in DOMAIN K : K[i] \in V => i \in 2 .. n /\ i \in 2 .. n + 1 /\ i \in 1 .. n /\ K[i] = L[i]
  BY <1>2
<1>7. 1 \in 1 .. n /\ \A i \in 2 .. n : 1 < i
  BY <1>1
<1>8. n + 1 \in 2 .. n + 1
  BY <1>1
<1>9. L[1] \in Due
  BY <1>2, <1>5, <1>7 DEF Chain, FirstDue
<1>10. FirstDue(K, V, After[L[1]])
  BY <1>2, <1>4, <1>6, <1>7 DEF Chain, FirstDue, InTurn
<1>11. InTurn(K, V, After)
  BY <1>2, <1>3, <1>6 DEF Chain, InTurn
<1>12. LastNext(K, V, After, Coming)
  BY <1>1, <1>2, <1>3, <1>6, <1>8 DEF Chain, LastNext
<1>13. NoneNext(K, V, After[L[1]], Coming)
  BY <1>1, <1>2, <1>4, <1>7, <1>8 DEF Chain, LastNext, NoneNext
<1> QED BY <1>9, <1>10, <1>11, <1>12, <1>13 DEF Chain

LEMMA ChainWeaker ==
  ASSUME NEW L, NEW V, NEW Due, NEW After, NEW Coming, Chain(L, V, Due, After, Coming),
         NEW More, Due \subseteq More, NEW Fewer, Fewer \subseteq Coming
  PROVE  Chain(L, V, More, After, Fewer)
BY DEF Chain, FirstDue, InTurn, LastNext, NoneNext

-----------------------------------------------------------------------------
\* A line is made of what is in a queue Q and what is under way to it, X.
LEMMA LineType ==
  ASSUME NEW S, NEW Q \in Seq(S), NEW X \in Seq(S)
  PROVE  /\ Q \o X \in Seq(S) /\ Len(Q \o X) = Len(Q) + Len(X)
         /\ \A i \in 1 .. Len(Q) : (Q \o X)[i] = Q[i]
         /\ \A i \in 1 .. Len(X) : (Q \o X)[Len(Q) + i] = X[i]
         /\ Q # <<>> => Q \o X # <<>> /\ (Q \o X)[1] = Q[1]
OBVIOUS

LEMMA LineLength ==
  ASSUME NEW S, NEW Q \in Seq(S), NEW X \in Seq(S)
  PROVE  Len(Q \o X) = Len(Q) + Len(X)
OBVIOUS

\* Sequences with the same places are the same.
LEMMA SameLine ==
  ASSUME NEW S, NEW K \in Seq(S), NEW L \in Seq(S), Len(K) = Len(L),
         \A i \in 1 .. Len(L) : K[i] = L[i]
  PROVE  K = L
OBVIOUS

LEMMA LineAdded ==
  ASSUME NEW S, NEW Q \in Seq(S), NEW X \in Seq(S), NEW x \in S
  PROVE  Q \o Append(X, x) = Append(Q \o X, x)
OBVIOUS

\* What was the first under way is in the queue.
LEMMA LineMoved ==
  ASSUME NEW S, NEW Q \in Seq(S), NEW X \in Seq(S), X # <<>>
  PROVE  Append(Q, X[1]) \o Tail(X) = Q \o X
<1> DEFINE K == Append(Q, X[1]) \o Tail(X)
           L == Q \o X
<1>1. X[1] \in S /\ Tail(X) \in Seq(S) /\ Append(Q, X[1]) \in Seq(S)
  OBVIOUS
<1>2. PICK n \in Nat, m \in Nat : n = Len(Q) /\ m = Len(X) /\ m > 0
  OBVIOUS
<1>3. K \in Seq(S) /\ L \in Seq(S) /\ Len(K) = n + m /\ Len(L) = n + m
  BY <1>1, <1>2
<1>4. \A i \in 1 .. n + m : K[i] = L[i]
  <2> SUFFICES ASSUME NEW i \in 1 .. n + m PROVE K[i] = L[i]
    OBVIOUS
  <2>1. CASE i \in 1 .. n
    BY <1>1, <1>2, <2>1
  <2>2. CASE i = n + 1
    BY <1>1, <1>2, <2>2
  <2>3. CASE i \in n + 2 .. n + m
    <3>1. K[i] = Tail(X)[i - (n + 1)]
      BY <1>1, <1>2, <2>3
    <3>2. Tail(X)[i - (n + 1)] = X[i - n] /\ L[i] = X[i - n]
      BY <1>1, <1>2, <2>3
    <3> QED BY <3>1, <3>2
  <2> QED BY <1>2, <2>1, <2>2, <2>3
<1> HIDE DEF K, L
<1>5. K = L
  BY <1>3, <1>4, SameLine
<1> QED BY <1>5 DEF K, L

LEMMA LineShorter ==
  ASSUME NEW S, NEW Q \in Seq(S), NEW X \in Seq(S), Q # <<>>
  PROVE  Tail(Q) \o X = Tail(Q \o X)
<1> DEFINE K == Tail(Q) \o X
           L == Tail(Q \o X)
<1>1. PICK n \in Nat, m \in Nat : n = Len(Q) /\ m = Len(X) /\ n > 0
  OBVIOUS
<1>2. /\ Tail(Q) \in Seq(S) /\ Len(Tail(Q)) = n - 1 /\ Q \o X \in Seq(S) /\ Q \o X # <<>>
      /\ Len(Q \o X) = n + m
  BY <1>1
<1>3. K \in Seq(S) /\ L \in Seq(S) /\ Len(K) = n - 1 + m /\ Len(L) = n + m - 1
  BY <1>1, <1>2
<1>4. \A i \in 1 .. n - 1 + m : L[i] = (Q \o X)[i + 1]
  BY <1>1, <1>2
<1>5. \A i \in 1 .. n - 1 + m : K[i] = (Q \o X)[i + 1]
  <2> SUFFICES ASSUME NEW i \in 1 .. n - 1 + m PROVE K[i] = (Q \o X)[i + 1]
    OBVIOUS
  <2>1. CASE i \in 1 .. n - 1
    BY <1>1, <1>2, <2>1
  <2>2. CASE i \in n .. n - 1 + m
    <3>1. K[i] = X[i - (n - 1)]
      BY <1>1, <1>2, <2>2
    <3>2. (Q \o X)[i + 1] = X[i + 1 - n]
      BY <1>1, <1>2, <2>2
    <3> QED BY <1>1, <2>2, <3>1, <3>2
  <2> QED BY <1>1, <2>1, <2>2
<1> HIDE DEF K, L
<1>6. Len(K) = Len(L) /\ \A i \in 1 .. Len(L) : K[i] = L[i]
  <2>1. Len(L) = n + m - 1 /\ Len(K) = n + m - 1
    BY <1>1, <1>3
  <2> QED BY <1>1, <1>4, <1>5, <2>1
<1>7. K = L
  BY <1>3, <1>6, SameLine
<1> QED BY <1>7 DEF K, L

\* The first of what is under way is none of the values: it is taken away.
LEMMA OtherPassed ==
  ASSUME NEW S, NEW Q \in Seq(S), NEW X \in Seq(S), X # <<>>, NEW V, X[1] \notin V,
         NEW Due, NEW After, NEW Coming, Chain(Q \o X, V, Due, After, Coming)
  PROVE  Chain(Q \o Tail(X), V, Due, After, Coming)
<1> DEFINE L == Q \o X
           K == Q \o Tail(X)
<1>1. PICK n \in Nat, m \in Nat : n = Len(Q) /\ m = Len(X) /\ m > 0
  OBVIOUS
<1>2. Tail(X) \in Seq(S) /\ Len(Tail(X)) = m - 1
  BY <1>1
<1>3. L \in Seq(S) /\ K \in Seq(S) /\ Len(L) = n + m /\ Len(K) = n + m - 1
  BY <1>1, <1>2
<1>4. L[n + 1] \notin V /\ n + 1 \in DOMAIN L
  BY <1>1, <1>2
<1>5. \A i \in 1 .. n : K[i] = L[i]
  BY <1>1, <1>2
<1>6. \A i \in n + 1 .. n + m - 1 : K[i] = L[i + 1]
  <2> SUFFICES ASSUME NEW i \in n + 1 .. n + m - 1 PROVE K[i] = L[i + 1]
    OBVIOUS
  <2>1. K[i] = Tail(X)[i - n]
    BY <1>1, <1>2
  <2>2. Tail(X)[i - n] = X[i - n + 1]
    BY <1>1, <1>2
  <2>3. L[i + 1] = X[i + 1 - n]
    BY <1>1, <1>2
  <2> QED BY <1>1, <2>1, <2>2, <2>3
<1> HIDE DEF K, L
<1>7. DOMAIN K = 1 .. n + m - 1
  BY <1>3
<1>8. Len(K) = Len(L) - 1
  BY <1>1, <1>3
<1>9. \A i \in DOMAIN K : (i < n + 1 => K[i] = L[i]) /\ (i >= n + 1 => K[i] = L[i + 1])
  BY <1>1, <1>5, <1>6, <1>7, SMTT(30)
<1>10. Chain(L, V, Due, After, Coming)
  BY DEF L
<1>11. Chain(K, V, Due, After, Coming)
  BY <1>3, <1>4, <1>8, <1>9, <1>10, OtherTaken
<1> QED BY <1>11 DEF K

\* The first is taken away: what may come after it is due then.
LEMMA FirstGone ==
  ASSUME NEW S, NEW L \in Seq(S), L # <<>>, NEW V, L[1] \in V, NEW none \in S, none \notin V,
         NEW Due, NEW After, NEW Coming, Chain(L, V, Due, After, Coming)
  PROVE  L[1] \in Due /\ Chain(Tail(L), V, After[L[1]], After, Coming)
<1> DEFINE K == [L EXCEPT ![1] = none]
           J == Tail(L)
<1>1. PICK n \in Nat : n = Len(L) /\ n > 0
  OBVIOUS
<1>2. /\ K \in Seq(S) /\ Len(K) = n /\ K[1] = none /\ 1 \in DOMAIN K
      /\ \A i \in 1 .. n : i > 1 => K[i] = L[i]
      /\ DOMAIN K = 1 .. n
  BY <1>1
<1>3. J \in Seq(S) /\ Len(J) = n - 1 /\ DOMAIN J = 1 .. n - 1 /\ \A i \in 1 .. n - 1 : J[i] = L[i + 1]
  BY <1>1
<1> HIDE DEF K, J
<1>4. L[1] \in Due /\ Chain(K, V, After[L[1]], After, Coming)
  BY <1>1, <1>2, FirstTaken
<1>5. Len(J) = Len(K) - 1 /\ K[1] \notin V
  BY <1>1, <1>2, <1>3
<1>6. \A i \in DOMAIN J : (i < 1 => J[i] = K[i]) /\ (i >= 1 => J[i] = K[i + 1])
  BY <1>1, <1>2, <1>3
<1>7. Chain(J, V, After[L[1]], After, Coming)
  BY <1>2, <1>3, <1>4, <1>5, <1>6, OtherTaken
<1> QED BY <1>4, <1>7 DEF J

-----------------------------------------------------------------------------
\* The scans of a station.
In(s, k) == k \in DOMAIN Scans /\ s \in Scans[k].stations
NextScan(s, k, j) ==
  In(s, j) /\ k < j /\ \A i \in DOMAIN Scans : k < i /\ i < j => s \notin Scans[i].stations
StopOf(k) == IF k = 0 THEN 0 ELSE Scans[k].stop
Aligned(k, t) ==
  Scans[k].start <= t /\ t <= Scans[k].stop /\ (t - Scans[k].start) % IntegrationUnits = 0

\* When the slice of station s begins that comes at time t of scan k or after it, and
\* what comes after a slice that begins at time t.
StartsAfter(s, k) == {Scans[j].start : j \in {j \in DOMAIN Scans : NextScan(s, k, j)}}
TimesFrom(s, k, t) == IF t < StopOf(k) THEN {t} ELSE StartsAfter(s, k)
ScanAt(s, t) == {k \in DOMAIN Scans : In(s, k) /\ Scans[k].start <= t /\ t < Scans[k].stop}
AfterTime(s) == [t \in Nat |-> UNION {TimesFrom(s, k, t + IntegrationUnits) : k \in ScanAt(s, t)}]

\* The intervals of the scans.
IntervalOf(k) == <<Scans[k].start, Scans[k].stop>>
Intervals == {IntervalOf(k) : k \in DOMAIN Scans}
IntervalsAfter(s, k) == {IntervalOf(j) : j \in {j \in DOMAIN Scans : NextScan(s, k, j)}}
AfterInterval(s) ==
  [v \in Intervals |-> UNION {IntervalsAfter(s, k) : k \in {k \in DOMAIN Scans : IntervalOf(k) = v}}]

LEMMA ScanRange ==
  /\ Len(Scans) \in Nat /\ DOMAIN Scans = 1 .. Len(Scans)
  /\ \A k \in DOMAIN Scans :
       /\ k \in Nat /\ k > 0 /\ Scans[k].start \in Nat /\ Scans[k].stop \in Nat
       /\ Scans[k].start < Scans[k].stop /\ Scans[k].stations \in SUBSET Stations
<1>1. PICK n \in Nat :
        n = Len(Scans) /\ DOMAIN Scans = 1 .. n /\ \A i \in 1 .. n : Scans[i] \in ScanRecords
  BY SupplyAssumption, ScansFacts
<1>2. \A r \in ScanRecords : r.start \in Nat /\ r.stop \in Nat /\ r.stations \in SUBSET Stations
  BY DEF ScanRecords
<1>3. \A i \in DOMAIN Scans : Scans[i].start < Scans[i].stop
  BY SupplyAssumption
<1> QED BY <1>1, <1>2, <1>3

\* The scans come one after another.
LEMMA ScanOrder ==
  ASSUME NEW j \in DOMAIN Scans, NEW k \in DOMAIN Scans, j < k
  PROVE  Scans[j].stop <= Scans[k].start
<1> DEFINE T == {i \in Nat : i \in DOMAIN Scans /\ j < i /\ ~(Scans[j].stop <= Scans[i].start)}
<1>1. PICK n \in Nat : DOMAIN Scans = 1 .. n
  BY ScanRange
<1>2. /\ j \in 1 .. n /\ k \in 1 .. n
      /\ \A i \in 1 .. n : /\ Scans[i].start \in Nat /\ Scans[i].stop \in Nat
                            /\ Scans[i].start < Scans[i].stop
  BY <1>1, ScanRange
<1>3. T \in SUBSET Nat
  OBVIOUS
<1>4. k \notin T => Scans[j].stop <= Scans[k].start
  BY <1>1, <1>2
<1>5. \A i \in T : i \in 1 .. n /\ j < i /\ ~(Scans[j].stop <= Scans[i].start)
  BY <1>1
<1>6. \A i \in 1 .. n : i \notin T /\ j < i => Scans[j].stop <= Scans[i].start
  BY <1>1
<1>7. \A i \in 1 .. n : i > 1 => Scans[i - 1].stop <= Scans[i].start
  BY <1>1, SupplyAssumption
<1> HIDE DEF T
<1>8. SUFFICES ASSUME T # {} PROVE FALSE
  BY <1>4
<1>9. PICK i \in T : \A y \in T : i <= y
  BY <1>3, <1>8, LeastElement
<1>10. i \in 1 .. n /\ j < i /\ ~(Scans[j].stop <= Scans[i].start)
  BY <1>5
<1>11. PICK h \in 1 .. n : h = i - 1 /\ h < i /\ (h = j \/ j < h)
  BY <1>2, <1>10
<1>12. h \notin T
  BY <1>3, <1>9, <1>11
<1>13. Scans[h].stop <= Scans[i].start
  BY <1>7, <1>10, <1>11
<1>14. Scans[j].stop <= Scans[h].start \/ h = j
  BY <1>6, <1>11, <1>12
<1>15. Scans[j].stop \in Nat /\ Scans[i].start \in Nat /\ Scans[h].start \in Nat
       /\ Scans[h].stop \in Nat /\ Scans[h].start < Scans[h].stop
  BY <1>2, <1>10
<1>16. CASE h = j
  BY <1>10, <1>13, <1>16
<1>17. CASE Scans[j].stop <= Scans[h].start
  <2>1. PICK a \in Nat, b \in Nat, d \in Nat, e \in Nat :
          a = Scans[j].stop /\ b = Scans[h].start /\ d = Scans[h].stop /\ e = Scans[i].start
    BY <1>15
  <2>2. a <= b /\ b < d /\ d <= e
    BY <1>13, <1>15, <1>17, <2>1
  <2>3. a <= e
    BY <2>2
  <2> QED BY <1>10, <2>1, <2>3
<1> QED BY <1>14, <1>16, <1>17

\* The scan that a time is in, and what follows a scan.
LEMMA ScanUnique ==
  ASSUME NEW j \in DOMAIN Scans, NEW k \in DOMAIN Scans, NEW t \in Int,
         Scans[j].start <= t, t < Scans[j].stop, Scans[k].start <= t, t < Scans[k].stop
  PROVE  j = k
<1>1. j \in Nat /\ k \in Nat
  BY ScanRange
<1>2. /\ Scans[j].stop \in Nat /\ Scans[k].start \in Nat
      /\ Scans[k].stop \in Nat /\ Scans[j].start \in Nat
  BY ScanRange
<1>3. CASE j < k
  <2>1. Scans[j].stop <= Scans[k].start
    BY <1>3, ScanOrder
  <2> QED BY <1>2, <2>1
<1>4. CASE k < j
  <2>1. Scans[k].stop <= Scans[j].start
    BY <1>4, ScanOrder
  <2> QED BY <1>2, <2>1
<1> QED BY <1>1, <1>3, <1>4

LEMMA NextUnique ==
  ASSUME NEW s, NEW k \in Int, NEW i, NEW j, NextScan(s, k, i), NextScan(s, k, j)
  PROVE  i = j
<1>1. /\ i \in DOMAIN Scans /\ j \in DOMAIN Scans /\ k < i /\ k < j
      /\ s \in Scans[i].stations /\ s \in Scans[j].stations
  BY DEF NextScan, In
<1>2. i \in Nat /\ j \in Nat
  BY <1>1, ScanRange
<1>3. ~(i < j) /\ ~(j < i)
  BY <1>1 DEF NextScan
<1> QED BY <1>2, <1>3

LEMMA StartAfter ==
  ASSUME NEW s, NEW k \in Int
  PROVE  /\ \A x : x \in StartsAfter(s, k) <=> \E j : NextScan(s, k, j) /\ x = Scans[j].start
         /\ \A j : NextScan(s, k, j) => StartsAfter(s, k) = {Scans[j].start}
<1>1. \A j : NextScan(s, k, j) => j \in DOMAIN Scans
  BY DEF NextScan, In
<1>2. \A x : x \in StartsAfter(s, k) <=> \E j : NextScan(s, k, j) /\ x = Scans[j].start
  BY <1>1 DEF StartsAfter
<1>3. ASSUME NEW j, NextScan(s, k, j) PROVE StartsAfter(s, k) = {Scans[j].start}
  BY <1>2, <1>3, NextUnique
<1> QED BY <1>2, <1>3

LEMMA IntervalAfter ==
  ASSUME NEW s, NEW k \in Int
  PROVE  /\ \A x : x \in IntervalsAfter(s, k) <=> \E j : NextScan(s, k, j) /\ x = IntervalOf(j)
         /\ \A j : NextScan(s, k, j) => IntervalsAfter(s, k) = {IntervalOf(j)}
<1>1. \A j : NextScan(s, k, j) => j \in DOMAIN Scans
  BY DEF NextScan, In
<1>2. \A x : x \in IntervalsAfter(s, k) <=> \E j : NextScan(s, k, j) /\ x = IntervalOf(j)
  BY <1>1 DEF IntervalsAfter
<1>3. ASSUME NEW j, NextScan(s, k, j) PROVE IntervalsAfter(s, k) = {IntervalOf(j)}
  BY <1>2, <1>3, NextUnique
<1> QED BY <1>2, <1>3

LEMMA TimeAfter ==
  ASSUME NEW s, NEW k \in DOMAIN Scans, In(s, k), NEW t \in Nat,
         Scans[k].start <= t, t < Scans[k].stop
  PROVE  AfterTime(s)[t] = TimesFrom(s, k, t + IntegrationUnits)
<1>1. \A j \in ScanAt(s, t) : j = k
  <2> SUFFICES ASSUME NEW j \in DOMAIN Scans, Scans[j].start <= t, t < Scans[j].stop PROVE j = k
    BY DEF ScanAt
  <2>1. t \in Int
    OBVIOUS
  <2> QED BY <2>1, ScanUnique
<1>2. ScanAt(s, t) = {k}
  BY <1>1 DEF ScanAt
<1> QED BY <1>2 DEF AfterTime

LEMMA IntervalsFollow ==
  ASSUME NEW s, NEW k \in DOMAIN Scans
  PROVE  AfterInterval(s)[IntervalOf(k)] = IntervalsAfter(s, k)
<1>1. ASSUME NEW j \in DOMAIN Scans, IntervalOf(j) = IntervalOf(k) PROVE j = k
  <2>1. Scans[j].start = Scans[k].start
    BY <1>1 DEF IntervalOf
  <2>2. /\ Scans[k].start \in Nat /\ Scans[k].stop \in Nat /\ Scans[k].start < Scans[k].stop
        /\ Scans[j].stop \in Nat /\ Scans[j].start < Scans[j].stop
    BY ScanRange
  <2>3. PICK t \in Int : t = Scans[k].start
    BY <2>2
  <2>4. Scans[j].start <= t /\ t < Scans[j].stop /\ Scans[k].start <= t /\ t < Scans[k].stop
    BY <2>1, <2>2, <2>3
  <2> QED BY <2>4, ScanUnique
<1>2. {j \in DOMAIN Scans : IntervalOf(j) = IntervalOf(k)} = {k}
  BY <1>1
<1>3. IntervalOf(k) \in Intervals
  BY DEF Intervals
<1>4. AfterInterval(s)[IntervalOf(k)]
        = UNION {IntervalsAfter(s, j) : j \in {j \in DOMAIN Scans : IntervalOf(j) = IntervalOf(k)}}
  BY <1>3 DEF AfterInterval
<1>5. UNION {IntervalsAfter(s, j) : j \in {k}} = IntervalsAfter(s, k)
  OBVIOUS
<1> QED BY <1>2, <1>4, <1>5

\* Multiples of T.
LEMMA MultipleLess ==
  ASSUME NEW T \in Nat \ {0}, NEW a \in Nat, NEW b \in Nat, a % T = 0, b % T = 0, a < b
  PROVE  a + T <= b /\ (a + T) % T = 0
<1>1. PICK i \in Nat : i = a \div T /\ a = T * i
  <2>1. a \div T \in Nat /\ a = T * (a \div T) + (a % T)
    OBVIOUS
  <2> QED BY <2>1
<1>2. PICK k \in Nat : k = b \div T /\ b = T * k
  <2>1. b \div T \in Nat /\ b = T * (b \div T) + (b % T)
    OBVIOUS
  <2> QED BY <2>1
<1>3. i < k
  <2> SUFFICES ASSUME k <= i PROVE FALSE
    OBVIOUS
  <2>1. T * k <= T * i
    OBVIOUS
  <2> QED BY <1>1, <1>2, <2>1
<1>4. T * (i + 1) <= T * k
  BY <1>3
<1>5. T * (i + 1) = T * i + T
  OBVIOUS
<1>6. (T * (i + 1)) % T = 0
  OBVIOUS
<1> QED BY <1>1, <1>2, <1>4, <1>5, <1>6

\* From a slice of a scan to the next.
LEMMA MultipleNext ==
  ASSUME NEW T \in Nat \ {0}, NEW a \in Nat, NEW b \in Nat, NEW t \in Int, a <= t, t < b,
         (t - a) % T = 0, (b - a) % T = 0
  PROVE  t + T <= b /\ (t + T - a) % T = 0
<1>1. PICK x \in Nat, y \in Nat : x = t - a /\ y = b - a
  OBVIOUS
<1>2. x + T <= y /\ (x + T) % T = 0
  <2>1. x % T = 0 /\ y % T = 0 /\ x < y
    BY <1>1
  <2> QED BY <2>1, MultipleLess
<1>3. t + T - a = x + T /\ t + T <= b
  BY <1>1, <1>2
<1> QED BY <1>2, <1>3

LEMMA AlignedNext ==
  ASSUME NEW k \in DOMAIN Scans, NEW t \in Int, Aligned(k, t), t < Scans[k].stop
  PROVE  t + IntegrationUnits <= Scans[k].stop /\ Aligned(k, t + IntegrationUnits)
<1>1. PICK T \in Nat \ {0} : T = IntegrationUnits
  BY InputNodeAssumption
<1>2. PICK a \in Nat, b \in Nat : a = Scans[k].start /\ b = Scans[k].stop
  BY ScanRange
<1>3. (b - a) % T = 0
  BY <1>1, <1>2, SupplyAssumption
<1>4. a <= t /\ t < b /\ (t - a) % T = 0
  BY <1>1, <1>2 DEF Aligned
<1>5. t + T <= b /\ (t + T - a) % T = 0
  BY <1>3, <1>4, MultipleNext
<1>6. a <= t + T
  BY <1>4
<1> QED BY <1>1, <1>2, <1>5, <1>6 DEF Aligned

LEMMA AlignedStart ==
  ASSUME NEW k \in DOMAIN Scans
  PROVE  Aligned(k, Scans[k].start)
<1>1. PICK T \in Nat \ {0} : T = IntegrationUnits
  BY InputNodeAssumption
<1>2. PICK a \in Nat, b \in Nat : a = Scans[k].start /\ b = Scans[k].stop /\ a < b
  BY ScanRange
<1>3. a - a = 0 /\ 0 % T = 0 /\ a <= a /\ a <= b
  BY <1>2
<1> QED BY <1>1, <1>2, <1>3 DEF Aligned

-----------------------------------------------------------------------------
\* What the messages of a station are to a line, and the line of a queue Q and the messages M.
Mapped(M, F) == [i \in DOMAIN M |-> F[M[i]]]
Line(Q, M, F) == Q \o Mapped(M, F)

LEMMA MappedType ==
  ASSUME NEW S, NEW F \in [Messages -> S], NEW M \in Seq(Messages)
  PROVE  Mapped(M, F) \in Seq(S) /\ Len(Mapped(M, F)) = Len(M)
BY DEF Mapped

LEMMA MappedAdded ==
  ASSUME NEW S, NEW F \in [Messages -> S], NEW M \in Seq(Messages), NEW m \in Messages
  PROVE  Mapped(Append(M, m), F) = Append(Mapped(M, F), F[m])
<1>1. PICK n \in Nat : n = Len(M) /\ DOMAIN M = 1 .. n
  OBVIOUS
<1> DEFINE A == Append(M, m)
           K == Mapped(A, F)
           L == Append(Mapped(M, F), F[m])
<1>2. /\ A \in Seq(Messages) /\ Len(A) = n + 1 /\ A[n + 1] = m
      /\ \A i \in 1 .. n : A[i] = M[i]
      /\ DOMAIN A = 1 .. n + 1
  BY <1>1
<1>3. Mapped(M, F) \in Seq(S) /\ Len(Mapped(M, F)) = n /\ F[m] \in S
  BY <1>1, MappedType
<1> HIDE DEF A
<1>4. K \in Seq(S) /\ Len(K) = n + 1
  BY <1>2, MappedType
<1>5. L \in Seq(S) /\ Len(L) = n + 1 /\ L[n + 1] = F[m] /\ \A i \in 1 .. n : L[i] = Mapped(M, F)[i]
  BY <1>3
<1>6. \A i \in 1 .. n : Mapped(M, F)[i] = F[M[i]]
  BY <1>1 DEF Mapped
<1>7. \A i \in 1 .. n + 1 : K[i] = F[A[i]]
  BY <1>2 DEF Mapped
<1> HIDE DEF K, L
<1>8. Len(K) = Len(L) /\ \A i \in 1 .. Len(L) : K[i] = L[i]
  BY <1>2, <1>4, <1>5, <1>6, <1>7
<1>9. K = L
  BY <1>4, <1>5, <1>8, SameLine
<1> QED BY <1>9 DEF K, L, A

LEMMA MappedTaken ==
  ASSUME NEW S, NEW F \in [Messages -> S], NEW M \in Seq(Messages), M # <<>>
  PROVE  /\ Mapped(Tail(M), F) = Tail(Mapped(M, F))
         /\ Mapped(M, F) # <<>> /\ Mapped(M, F)[1] = F[M[1]]
<1>1. PICK n \in Nat : n = Len(M) /\ DOMAIN M = 1 .. n /\ n > 0
  OBVIOUS
<1> DEFINE T == Tail(M)
           K == Mapped(T, F)
           L == Tail(Mapped(M, F))
<1>2. /\ T \in Seq(Messages) /\ Len(T) = n - 1 /\ DOMAIN T = 1 .. n - 1
      /\ \A i \in 1 .. n - 1 : T[i] = M[i + 1]
  BY <1>1
<1>3. Mapped(M, F) \in Seq(S) /\ Len(Mapped(M, F)) = n
  BY <1>1, MappedType
<1> HIDE DEF T
<1>4. K \in Seq(S) /\ Len(K) = n - 1
  BY <1>2, MappedType
<1>5. L \in Seq(S) /\ Len(L) = n - 1 /\ \A i \in 1 .. n - 1 : L[i] = Mapped(M, F)[i + 1]
  BY <1>1, <1>3
<1>6. \A i \in 1 .. n : Mapped(M, F)[i] = F[M[i]]
  BY <1>1 DEF Mapped
<1>7. \A i \in 1 .. n - 1 : K[i] = F[T[i]]
  BY <1>2 DEF Mapped
<1>8. Mapped(M, F) # <<>> /\ Mapped(M, F)[1] = F[M[1]]
  BY <1>1, <1>3, <1>6
<1> HIDE DEF K, L
<1>9. Len(K) = Len(L) /\ \A i \in 1 .. Len(L) : K[i] = L[i]
  BY <1>1, <1>2, <1>4, <1>5, <1>6, <1>7
<1>10. K = L
  BY <1>4, <1>5, <1>9, SameLine
<1> QED BY <1>8, <1>10 DEF K, L, T

\* A message is put in the mail.
LEMMA OtherMailed ==
  ASSUME NEW S, NEW F \in [Messages -> S], NEW Q \in Seq(S), NEW M \in Seq(Messages),
         NEW m \in Messages, NEW V, F[m] \notin V, NEW Due, NEW After, NEW Coming,
         Chain(Line(Q, M, F), V, Due, After, Coming)
  PROVE  Chain(Line(Q, Append(M, m), F), V, Due, After, Coming)
<1>1. PICK X \in Seq(S), x \in S : X = Mapped(M, F) /\ x = F[m]
  BY MappedType
<1>2. PICK L \in Seq(S) : L = Q \o X
  BY LineType
<1>3. Mapped(Append(M, m), F) = Append(X, x)
  BY <1>1, MappedAdded
<1>4. Q \o Append(X, x) = Append(L, x)
  BY <1>2, LineAdded
<1>5. Chain(L, V, Due, After, Coming)
  BY <1>1, <1>2 DEF Line
<1>6. x \notin V
  BY <1>1
<1>7. Chain(Append(L, x), V, Due, After, Coming)
  BY <1>5, <1>6, OtherAdded
<1> QED BY <1>3, <1>4, <1>7 DEF Line

LEMMA NextMailed ==
  ASSUME NEW S, NEW F \in [Messages -> S], NEW Q \in Seq(S), NEW M \in Seq(Messages),
         NEW m \in Messages, NEW V, F[m] \in V, NEW Due, NEW After, NEW Coming,
         Chain(Line(Q, M, F), V, Due, After, Coming),
         F[m] \in Coming, NEW Later, Later \subseteq After[F[m]]
  PROVE  Chain(Line(Q, Append(M, m), F), V, Due, After, Later)
<1>1. PICK X \in Seq(S), x \in S : X = Mapped(M, F) /\ x = F[m]
  BY MappedType
<1>2. PICK L \in Seq(S) : L = Q \o X
  BY LineType
<1>3. Mapped(Append(M, m), F) = Append(X, x)
  BY <1>1, MappedAdded
<1>4. Q \o Append(X, x) = Append(L, x)
  BY <1>2, LineAdded
<1>5. Chain(L, V, Due, After, Coming)
  BY <1>1, <1>2 DEF Line
<1>6. x \in V /\ x \in Coming /\ Later \subseteq After[x]
  BY <1>1
<1>7. Chain(Append(L, x), V, Due, After, Later)
  BY <1>5, <1>6, NextAdded
<1> QED BY <1>3, <1>4, <1>7 DEF Line

\* The first message is taken: it is nothing to the line, or is put in the queue.
LEMMA OtherReceived ==
  ASSUME NEW S, NEW F \in [Messages -> S], NEW Q \in Seq(S), NEW M \in Seq(Messages), M # <<>>,
         NEW V, F[M[1]] \notin V, NEW Due, NEW After, NEW Coming,
         Chain(Line(Q, M, F), V, Due, After, Coming)
  PROVE  Chain(Line(Q, Tail(M), F), V, Due, After, Coming)
<1>1. PICK X \in Seq(S) : X = Mapped(M, F)
  BY MappedType
<1>2. X # <<>> /\ X[1] \notin V /\ Mapped(Tail(M), F) = Tail(X)
  BY <1>1, MappedTaken
<1>3. Chain(Q \o X, V, Due, After, Coming)
  BY <1>1 DEF Line
<1>4. Chain(Q \o Tail(X), V, Due, After, Coming)
  BY <1>2, <1>3, OtherPassed
<1> QED BY <1>2, <1>4 DEF Line

LEMMA NextReceived ==
  ASSUME NEW S, NEW F \in [Messages -> S], NEW Q \in Seq(S), NEW M \in Seq(Messages), M # <<>>
  PROVE  Line(Append(Q, F[M[1]]), Tail(M), F) = Line(Q, M, F)
<1>1. PICK X \in Seq(S) : X = Mapped(M, F)
  BY MappedType
<1>2. X # <<>> /\ X[1] = F[M[1]] /\ Mapped(Tail(M), F) = Tail(X)
  BY <1>1, MappedTaken
<1>3. Append(Q, X[1]) \o Tail(X) = Q \o X
  BY <1>2, LineMoved
<1> QED BY <1>1, <1>2, <1>3 DEF Line

\* The first of the queue is taken: what may come after it is due then.
LEMMA QueueServed ==
  ASSUME NEW S, NEW F \in [Messages -> S], NEW Q \in Seq(S), Q # <<>>, NEW M \in Seq(Messages),
         NEW V, Q[1] \in V, NEW none \in S, none \notin V, NEW Due, NEW After, NEW Coming,
         Chain(Line(Q, M, F), V, Due, After, Coming)
  PROVE  Q[1] \in Due /\ Chain(Line(Tail(Q), M, F), V, After[Q[1]], After, Coming)
<1>1. PICK X \in Seq(S) : X = Mapped(M, F)
  BY MappedType
<1>2. PICK L \in Seq(S) : L = Q \o X
  BY LineType
<1>3. L # <<>> /\ L[1] = Q[1]
  BY <1>2, LineType
<1>4. Chain(L, V, Due, After, Coming)
  BY <1>1, <1>2 DEF Line
<1>5. L[1] \in Due /\ Chain(Tail(L), V, After[L[1]], After, Coming)
  BY <1>3, <1>4, FirstGone
<1>6. Tail(Q) \o X = Tail(L)
  BY <1>2, LineShorter
<1> QED BY <1>1, <1>3, <1>5, <1>6 DEF Line

LEMMA QueuePassed ==
  ASSUME NEW S, NEW F \in [Messages -> S], NEW Q \in Seq(S), Q # <<>>, NEW M \in Seq(Messages),
         NEW V, Q[1] \notin V, NEW Due, NEW After, NEW Coming,
         Chain(Line(Q, M, F), V, Due, After, Coming)
  PROVE  Chain(Line(Tail(Q), M, F), V, Due, After, Coming)
<1>1. PICK X \in Seq(S) : X = Mapped(M, F)
  BY MappedType
<1>2. PICK L \in Seq(S) : L = Q \o X
  BY LineType
<1>3. L # <<>> /\ L[1] = Q[1]
  BY <1>2, LineType
<1>4. Chain(<<>> \o L, V, Due, After, Coming)
  <2>1. <<>> \o L = L
    OBVIOUS
  <2> QED BY <1>1, <1>2, <2>1 DEF Line
<1>5. Chain(<<>> \o Tail(L), V, Due, After, Coming)
  <2>1. <<>> \in Seq(S)
    OBVIOUS
  <2> QED BY <1>3, <1>4, <2>1, OtherPassed
<1>6. <<>> \o Tail(L) = Tail(L)
  <2>1. Tail(L) \in Seq(S)
    BY <1>3
  <2> QED BY <2>1
<1>7. Tail(Q) \o X = Tail(L)
  BY <1>2, LineShorter
<1> QED BY <1>1, <1>5, <1>6, <1>7 DEF Line

\* The first of the queue is begun: it is none of the values any more.
LEMMA QueueBegins ==
  ASSUME NEW S, NEW F \in [Messages -> S], NEW Q \in Seq(S), Q # <<>>, NEW M \in Seq(Messages),
         NEW V, Q[1] \in V, NEW K \in Seq(S), Len(K) = Len(Q), K[1] \notin V,
         \A i \in 2 .. Len(Q) : K[i] = Q[i], NEW Due, NEW After, NEW Coming,
         Chain(Line(Q, M, F), V, Due, After, Coming)
  PROVE  Q[1] \in Due /\ Chain(Line(K, M, F), V, After[Q[1]], After, Coming)
<1>1. PICK X \in Seq(S) : X = Mapped(M, F)
  BY MappedType
<1>2. PICK L \in Seq(S) : L = Q \o X
  BY LineType
<1>3. PICK J \in Seq(S) : J = K \o X
  BY LineType
<1>4. PICK n \in Nat, m \in Nat : n = Len(Q) /\ m = Len(X) /\ n > 0 /\ K # <<>>
  OBVIOUS
<1>5. /\ L # <<>> /\ L[1] = Q[1] /\ J[1] = K[1] /\ Len(L) = n + m /\ Len(J) = n + m
      /\ \A i \in 1 .. n : L[i] = Q[i] /\ J[i] = K[i]
      /\ \A i \in 1 .. m : L[n + i] = X[i] /\ J[n + i] = X[i]
  <2>1. /\ Len(L) = n + m /\ L # <<>> /\ L[1] = Q[1]
        /\ \A i \in 1 .. n : L[i] = Q[i]
        /\ \A i \in 1 .. m : L[n + i] = X[i]
    BY <1>2, <1>4, LineType
  <2>2. /\ Len(J) = n + m /\ J[1] = K[1]
        /\ \A i \in 1 .. n : J[i] = K[i]
        /\ \A i \in 1 .. m : J[n + i] = X[i]
    <3>1. Len(K) = n
      BY <1>4
    <3>2. Len(J) = Len(K) + Len(X)
      BY <1>3, LineLength
    <3>3. \A i \in 1 .. Len(K) : J[i] = K[i]
      BY <1>3, LineType
    <3>4. \A i \in 1 .. Len(X) : J[Len(K) + i] = X[i]
      BY <1>3, LineType
    <3>5. 1 \in 1 .. n
      BY <1>4
    <3> QED BY <1>4, <3>1, <3>2, <3>3, <3>4, <3>5
  <2> QED BY <2>1, <2>2
<1>6. \A i \in DOMAIN J : i > 1 => J[i] = L[i]
  <2> SUFFICES ASSUME NEW i \in 2 .. n + m PROVE J[i] = L[i]
    BY <1>5
  <2>1. CASE i \in 2 .. n
    BY <1>4, <1>5, <2>1
  <2>2. CASE i \notin 2 .. n
    <3>1. i - n \in 1 .. m /\ i = n + (i - n)
      BY <1>4, <2>2
    <3>2. PICK k \in 1 .. m : i = n + k
      BY <3>1
    <3> QED BY <1>5, <3>2
  <2> QED BY <2>1, <2>2
<1>7. Chain(L, V, Due, After, Coming)
  BY <1>1, <1>2 DEF Line
<1>8. L[1] \in Due /\ Chain(J, V, After[L[1]], After, Coming)
  BY <1>5, <1>6, <1>7, FirstTaken
<1> QED BY <1>1, <1>3, <1>5, <1>8 DEF Line

-----------------------------------------------------------------------------
\* The clock of a data writer, and the scan it is in: 0 before the first.
Clock(w) == IF w.pc = "write" THEN w.start + IntegrationUnits ELSE w.time
WriterIn(s, k, w) ==
  /\ w.stop = StopOf(k)
  /\ k = 0 => w.pc = "idle" /\ w.time = 0
  /\ k # 0 => In(s, k) /\ Aligned(k, Clock(w))
  /\ w.pc = "found" => w.time < w.stop
  /\ w.pc = "write" => /\ w.start >= Scans[k].start
                       /\ w.time = w.start + NumberFfts - w.left
InAScan(s, w) == \E k \in 0 .. Len(Scans) : WriterIn(s, k, w)

\* What is due for the writer: its next interval, its next slice, and its next data.
DueIntervals(s, w) ==
  UNION {IntervalsAfter(s, k) : k \in {k \in 0 .. Len(Scans) : WriterIn(s, k, w)}}
DueTimes(s, w) ==
  UNION {TimesFrom(s, k, Clock(w)) : k \in {k \in 0 .. Len(Scans) : WriterIn(s, k, w)}}
Needed(s, w) ==
  UNION {TimesFrom(s, k, w.time) : k \in {k \in 0 .. Len(Scans) : WriterIn(s, k, w)}}

LEMMA StopUnique ==
  ASSUME NEW j \in 0 .. Len(Scans), NEW k \in 0 .. Len(Scans), StopOf(j) = StopOf(k)
  PROVE  j = k
<1>1. \A i \in 0 .. Len(Scans) : i # 0 => i \in DOMAIN Scans
  BY ScanRange
<1>2. \A i \in 0 .. Len(Scans) : i # 0 => StopOf(i) = Scans[i].stop /\ Scans[i].stop > 0
  BY <1>1, ScanRange DEF StopOf
<1>3. j # 0 <=> k # 0
  BY <1>2 DEF StopOf
<1>4. CASE j # 0
  <2>1. j \in DOMAIN Scans /\ k \in DOMAIN Scans /\ Scans[j].stop = Scans[k].stop
    BY <1>1, <1>2, <1>3, <1>4
  <2>2. PICK t \in Int : t = Scans[j].stop - 1
    BY <2>1, ScanRange
  <2>3. Scans[j].start <= t /\ t < Scans[j].stop /\ Scans[k].start <= t /\ t < Scans[k].stop
    BY <2>1, <2>2, ScanRange
  <2> QED BY <2>1, <2>3, ScanUnique
<1> QED BY <1>3, <1>4

LEMMA WriterDue ==
  ASSUME NEW s, NEW w, NEW k \in 0 .. Len(Scans), WriterIn(s, k, w)
  PROVE  /\ DueIntervals(s, w) = IntervalsAfter(s, k)
         /\ DueTimes(s, w) = TimesFrom(s, k, Clock(w))
         /\ Needed(s, w) = TimesFrom(s, k, w.time)
<1>1. \A j \in 0 .. Len(Scans) : WriterIn(s, j, w) => j = k
  BY StopUnique DEF WriterIn
<1>2. {j \in 0 .. Len(Scans) : WriterIn(s, j, w)} = {k}
  BY <1>1
<1>3. /\ UNION {IntervalsAfter(s, j) : j \in {k}} = IntervalsAfter(s, k)
      /\ UNION {TimesFrom(s, j, Clock(w)) : j \in {k}} = TimesFrom(s, k, Clock(w))
      /\ UNION {TimesFrom(s, j, w.time) : j \in {k}} = TimesFrom(s, k, w.time)
  OBVIOUS
<1> QED BY <1>2, <1>3 DEF DueIntervals, DueTimes, Needed

\* Where a writer is in its scan.
LEMMA WriterTime ==
  ASSUME NEW s, NEW w \in Writers, NEW k \in 0 .. Len(Scans), WriterIn(s, k, w)
  PROVE  /\ w.stop \in Nat /\ w.time <= w.stop
         /\ w.pc = "found" => k # 0 /\ w.time < w.stop
         /\ k # 0 => /\ k \in DOMAIN Scans /\ In(s, k) /\ w.stop = Scans[k].stop
                     /\ Scans[k].start <= w.time
         /\ w.pc = "write" =>
              /\ k # 0 /\ w.start \in Nat /\ Scans[k].start <= w.start
              /\ w.start + IntegrationUnits <= w.stop
              /\ w.time = w.start + NumberFfts - w.left
              /\ w.left > 0 => w.time < w.stop
<1>1. PICK N \in Nat, T \in Nat : N = NumberFfts /\ T = IntegrationUnits /\ N > 0 /\ N <= T
  BY InputNodeAssumption
<1>2. PICK x \in Int, y \in Int, z \in Int, l \in 0 .. N :
        x = w.time /\ y = w.stop /\ z = w.start /\ l = w.left
  BY <1>1 DEF Writers
<1>3. CASE k = 0
  <2>1. w.pc = "idle" /\ x = 0 /\ y = 0
    BY <1>2, <1>3 DEF WriterIn, StopOf
  <2> QED BY <1>2, <1>3, <2>1
<1>4. CASE k # 0
  <2>1. k \in DOMAIN Scans
    BY <1>4, ScanRange
  <2>2. PICK a \in Nat, b \in Nat : a = Scans[k].start /\ b = Scans[k].stop /\ a < b
    BY <2>1, ScanRange
  <2>3. y = b /\ In(s, k)
    BY <1>2, <1>4, <2>2 DEF WriterIn, StopOf
  <2>4. a <= Clock(w) /\ Clock(w) <= b
    BY <1>4, <2>2 DEF WriterIn, Aligned
  <2>5. CASE w.pc = "write"
    <3>1. Clock(w) = z + T /\ z >= a /\ x = z + N - l
      BY <1>1, <1>2, <2>2, <2>5 DEF WriterIn, Clock
    <3>2. z + T <= b
      BY <2>4, <3>1
    <3>3. x <= z + T /\ (l > 0 => x < z + T) /\ z <= x
      BY <1>1, <3>1
    <3>4. x <= b /\ a <= x /\ z \in Nat /\ (l > 0 => x < b)
      BY <2>2, <3>1, <3>2, <3>3
    <3> QED BY <1>1, <1>2, <1>4, <2>1, <2>2, <2>3, <2>5, <3>1, <3>2, <3>4
  <2>6. CASE w.pc # "write"
    <3>1. Clock(w) = x
      BY <1>2, <2>6 DEF Clock
    <3>2. w.pc = "found" => x < y
      BY <1>2 DEF WriterIn
    <3> QED BY <1>2, <1>4, <2>1, <2>2, <2>3, <2>4, <2>6, <3>1, <3>2
  <2> QED BY <2>5, <2>6
<1> QED BY <1>3, <1>4

\* The steps of a writer that stays in its scan, and of one that goes to the next.
LEMMA ClockSame ==
  ASSUME NEW s, NEW k, NEW w, NEW v, v.pc = w.pc, v.time = w.time, v.stop = w.stop,
         v.start = w.start, v.left = w.left, WriterIn(s, k, w)
  PROVE  WriterIn(s, k, v) /\ Clock(v) = Clock(w)
BY DEF WriterIn, Clock

LEMMA ClockFound ==
  ASSUME NEW s, NEW k \in 0 .. Len(Scans), NEW w, NEW v, Found(w, v), WriterIn(s, k, w),
         w.time \in Int
  PROVE  WriterIn(s, k, v) /\ Clock(v) = Clock(w)
<1>1. k # 0
  BY DEF WriterIn, Found, StopOf
<1> QED BY <1>1 DEF WriterIn, Found, Clock

LEMMA ClockBegun ==
  ASSUME NEW s, NEW k \in 0 .. Len(Scans), NEW w \in Writers, NEW v, Begun(w, v), WriterIn(s, k, w)
  PROVE  /\ WriterIn(s, k, v) /\ Clock(w) = w.time /\ w.time < w.stop
         /\ Clock(v) = w.time + IntegrationUnits
<1>1. w.pc = "found" /\ w.time < w.stop /\ w.time \in Int
  BY DEF Begun, WriterIn, Writers
<1>2. k # 0
  BY <1>1 DEF WriterIn
<1>3. k \in DOMAIN Scans /\ w.stop = Scans[k].stop
  BY <1>2, ScanRange DEF WriterIn, StopOf
<1>4. Aligned(k, w.time) /\ Clock(w) = w.time
  BY <1>1, <1>2 DEF WriterIn, Clock
<1>5. Aligned(k, w.time + IntegrationUnits)
  BY <1>1, <1>3, <1>4, AlignedNext
<1>6. Clock(v) = w.time + IntegrationUnits
  BY DEF Begun, Clock
<1>7. v.start >= Scans[k].start
  BY <1>1, <1>3, <1>4, ScanRange DEF Begun, Aligned
<1>8. v.time = v.start + NumberFfts - v.left
  <2>1. NumberFfts \in Nat
    BY InputNodeAssumption
  <2> QED BY <1>1, <2>1 DEF Begun
<1>9. v.pc = "write" /\ v.stop = w.stop
  BY DEF Begun
<1>10. In(s, k) /\ w.stop = StopOf(k)
  BY <1>2 DEF WriterIn
<1>11. WriterIn(s, k, v)
  BY <1>2, <1>5, <1>6, <1>7, <1>8, <1>9, <1>10 DEF WriterIn
<1> QED BY <1>1, <1>4, <1>6, <1>11

LEMMA ClockWritten ==
  ASSUME NEW s, NEW k, NEW w \in Writers, NEW v, Written(w, v), WriterIn(s, k, w)
  PROVE  WriterIn(s, k, v) /\ Clock(v) = Clock(w)
<1>1. NumberFfts \in Nat /\ w.left \in Int /\ w.start \in Int
  BY InputNodeAssumption DEF Writers
<1>2. v.time = v.start + NumberFfts - v.left
  BY <1>1 DEF Written, WriterIn
<1>3. Clock(v) = Clock(w)
  BY DEF Written, Clock
<1> QED BY <1>2, <1>3 DEF Written, WriterIn

LEMMA ClockEnded ==
  ASSUME NEW s, NEW k, NEW w, NEW v, Ended(w, v), WriterIn(s, k, w)
  PROVE  WriterIn(s, k, v) /\ Clock(v) = Clock(w)
<1>1. Clock(v) = Clock(w)
  BY DEF Ended, Clock
<1> QED BY <1>1 DEF Ended, WriterIn

LEMMA ClockFetched ==
  ASSUME NEW s, NEW k \in 0 .. Len(Scans), NEW j, NEW w, NEW v, Fetched(w, v), WriterIn(s, k, w),
         NextScan(s, k, j), w.intervals[1] = IntervalOf(j)
  PROVE  /\ j \in 1 .. Len(Scans) /\ j \in DOMAIN Scans /\ WriterIn(s, j, v)
         /\ v.time = Scans[j].start /\ Clock(v) = Scans[j].start
<1>1. j \in DOMAIN Scans /\ In(s, j) /\ j \in 1 .. Len(Scans) /\ j # 0
  BY ScanRange DEF NextScan, In
<1>2. w.intervals[1][1] = Scans[j].start /\ w.intervals[1][2] = Scans[j].stop
  BY DEF IntervalOf
<1>3. v.pc = "idle" /\ v.time = Scans[j].start /\ v.stop = StopOf(j)
  BY <1>1, <1>2 DEF Fetched, StopOf
<1>4. Clock(v) = Scans[j].start
  BY <1>3 DEF Clock
<1>5. Aligned(j, Clock(v))
  BY <1>1, <1>4, AlignedStart
<1> QED BY <1>1, <1>3, <1>4, <1>5 DEF WriterIn

-----------------------------------------------------------------------------
\* The intervals that come to a station.
Pairs == Int \X Int
Places == Pairs \cup {<<>>}
IntervalIn == [m \in Messages |-> IF m.type = "SET_TIME" THEN <<m.start, m.stop>> ELSE <<>>]

LEMMA NoPair == <<>> \notin Pairs
BY DEF Pairs

LEMMA IntervalPlaces ==
  /\ IntervalIn \in [Messages -> Places]
  /\ \A m \in Messages : m.type = "SET_TIME" => IntervalIn[m] = <<m.start, m.stop>> /\ IntervalIn[m] \in Pairs
  /\ \A m \in Messages : m.type # "SET_TIME" => IntervalIn[m] \notin Pairs
<1>1. \A m \in Messages : m.type = "SET_TIME" => <<m.start, m.stop>> \in Pairs
  BY IntervalMessage DEF Pairs
<1>2. \A m \in Messages : (IF m.type = "SET_TIME" THEN <<m.start, m.stop>> ELSE <<>>) \in Places
  BY <1>1 DEF Places
<1>3. IntervalIn \in [Messages -> Places]
  BY <1>2 DEF IntervalIn
<1> QED BY <1>1, <1>3, NoPair DEF IntervalIn

LEMMA PairPlaces ==
  /\ Seq(Pairs) \subseteq Seq(Places) /\ <<>> \in Places
BY DEF Places

\* The reader of a station is in scan k, and its other intervals.
ReaderIn(s, k, R, t) ==
  /\ R # <<>>
  /\ k = 0 => R[1] = NoInterval /\ t = 0
  /\ k # 0 => /\ In(s, k) /\ R[1] = <<Scans[k].start, Scans[k].stop + 1>>
              /\ Scans[k].start <= t /\ t <= Scans[k].stop + 1
InReading(s, R, t) == \E k \in 0 .. Len(Scans) : ReaderIn(s, k, R, t)
ReaderIntervals(R) == [i \in 1 .. Len(R) - 1 |-> <<R[i + 1][1], R[i + 1][2] - 1>>]
DueReading(s, R, t) ==
  UNION {IntervalsAfter(s, k) : k \in {k \in 0 .. Len(Scans) : ReaderIn(s, k, R, t)}}

LEMMA ReaderDue ==
  ASSUME NEW s, NEW R, NEW t, NEW k \in 0 .. Len(Scans), ReaderIn(s, k, R, t)
  PROVE  DueReading(s, R, t) = IntervalsAfter(s, k)
<1>1. ASSUME NEW j \in 0 .. Len(Scans), ReaderIn(s, j, R, t) PROVE j = k
  <2>1. \A i \in {j, k} : i # 0 => i \in DOMAIN Scans /\ R[1] = <<Scans[i].start, Scans[i].stop + 1>>
    BY <1>1, ScanRange DEF ReaderIn
  <2>2. \A i \in {j, k} : i # 0 => R[1][1] = Scans[i].start /\ Scans[i].start \in Nat
    BY <2>1, ScanRange
  <2>3. \A i \in {j, k} : i = 0 => R[1][1] = -1
    BY <1>1 DEF ReaderIn, NoInterval
  <2>4. j = 0 <=> k = 0
    BY <2>2, <2>3
  <2>5. CASE j # 0
    <3>1. j \in DOMAIN Scans /\ k \in DOMAIN Scans /\ Scans[j].start = Scans[k].start
      BY <2>1, <2>2, <2>4, <2>5
    <3>2. PICK x \in Int : x = Scans[j].start
      BY <3>1, ScanRange
    <3>3. Scans[j].start <= x /\ x < Scans[j].stop /\ Scans[k].start <= x /\ x < Scans[k].stop
      BY <3>1, <3>2, ScanRange
    <3> QED BY <3>1, <3>3, ScanUnique
  <2> QED BY <2>4, <2>5
<1>2. {j \in 0 .. Len(Scans) : ReaderIn(s, j, R, t)} = {k}
  BY <1>1
<1>3. UNION {IntervalsAfter(s, j) : j \in {k}} = IntervalsAfter(s, k)
  OBVIOUS
<1> QED BY <1>2, <1>3 DEF DueReading

LEMMA ReaderType ==
  ASSUME NEW R \in Seq(Pairs), R # <<>>
  PROVE  /\ ReaderIntervals(R) \in Seq(Pairs) /\ Len(ReaderIntervals(R)) = Len(R) - 1
         /\ \A i \in 1 .. Len(R) - 1 : ReaderIntervals(R)[i] = <<R[i + 1][1], R[i + 1][2] - 1>>
<1>1. PICK n \in Nat : n = Len(R) - 1
  OBVIOUS
<1>2. \A i \in 1 .. n : R[i + 1] \in Pairs
  BY <1>1
<1>3. \A i \in 1 .. n : <<R[i + 1][1], R[i + 1][2] - 1>> \in Pairs
  BY <1>2 DEF Pairs
<1>4. ReaderIntervals(R) \in [1 .. n -> Pairs]
  BY <1>1, <1>3 DEF ReaderIntervals
<1>5. ReaderIntervals(R) \in Seq(Pairs) /\ Len(ReaderIntervals(R)) = n
  BY <1>4
<1> QED BY <1>1, <1>5 DEF ReaderIntervals

LEMMA ReaderAdded ==
  ASSUME NEW R \in Seq(Pairs), R # <<>>, NEW a \in Int, NEW b \in Int
  PROVE  ReaderIntervals(Append(R, <<a, b + 1>>)) = Append(ReaderIntervals(R), <<a, b>>)
<1> DEFINE A == Append(R, <<a, b + 1>>)
           K == ReaderIntervals(A)
           L == Append(ReaderIntervals(R), <<a, b>>)
<1>1. PICK n \in Nat : n = Len(R) /\ n > 0
  OBVIOUS
<1>2. <<a, b>> \in Pairs /\ <<a, b + 1>> \in Pairs /\ <<a, b + 1>>[1] = a /\ <<a, b + 1>>[2] - 1 = b
  BY DEF Pairs
<1>3. /\ A \in Seq(Pairs) /\ A # <<>> /\ Len(A) = n + 1 /\ A[n + 1] = <<a, b + 1>>
      /\ \A i \in 1 .. n : A[i] = R[i]
  BY <1>1, <1>2
<1> HIDE DEF A
<1>4. /\ K \in Seq(Pairs) /\ Len(K) = n
      /\ \A i \in 1 .. n : K[i] = <<A[i + 1][1], A[i + 1][2] - 1>>
  BY <1>1, <1>3, ReaderType
<1>5. PICK Q \in Seq(Pairs) : Q = ReaderIntervals(R)
  BY ReaderType
<1>6. Len(Q) = n - 1 /\ \A i \in 1 .. n - 1 : Q[i] = <<R[i + 1][1], R[i + 1][2] - 1>>
  BY <1>1, <1>5, ReaderType
<1>7. L \in Seq(Pairs) /\ Len(L) = n /\ L[n] = <<a, b>> /\ \A i \in 1 .. n - 1 : L[i] = Q[i]
  BY <1>1, <1>2, <1>5, <1>6
<1> HIDE DEF K, L
<1>8. K[n] = <<a, b>>
  <2>1. n \in 1 .. n
    BY <1>1
  <2>2. K[n] = <<A[n + 1][1], A[n + 1][2] - 1>>
    BY <1>4, <2>1
  <2> QED BY <1>2, <1>3, <2>2
<1>9. \A i \in 1 .. n - 1 : K[i] = L[i]
  <2> SUFFICES ASSUME NEW i \in 1 .. n - 1 PROVE K[i] = L[i]
    OBVIOUS
  <2>1. i \in 1 .. n /\ i + 1 \in 1 .. n
    BY <1>1
  <2>2. K[i] = <<A[i + 1][1], A[i + 1][2] - 1>>
    BY <1>4, <2>1
  <2>3. A[i + 1] = R[i + 1]
    BY <1>3, <2>1
  <2> QED BY <1>6, <1>7, <2>2, <2>3
<1>10. Len(K) = Len(L) /\ \A i \in 1 .. Len(L) : K[i] = L[i]
  BY <1>1, <1>4, <1>7, <1>8, <1>9, SMTT(30)
<1>11. K = L
  BY <1>4, <1>7, <1>10, SameLine
<1> QED BY <1>11 DEF K, L, A

LEMMA ReaderTaken ==
  ASSUME NEW R \in Seq(Pairs), Len(R) > 1
  PROVE  /\ ReaderIntervals(Tail(R)) = Tail(ReaderIntervals(R)) /\ ReaderIntervals(R) # <<>>
         /\ ReaderIntervals(R)[1] = <<R[2][1], R[2][2] - 1>>
         /\ Tail(R) # <<>> /\ Tail(R)[1] = R[2] /\ R[2] \in Pairs
<1> DEFINE T == Tail(R)
           K == ReaderIntervals(T)
           L == Tail(ReaderIntervals(R))
<1>1. PICK n \in Nat : n = Len(R) /\ n > 1
  OBVIOUS
<1>2. T \in Seq(Pairs) /\ Len(T) = n - 1 /\ T # <<>> /\ \A i \in 1 .. n - 1 : T[i] = R[i + 1]
  <2>1. R # <<>>
    BY <1>1
  <2>2. T \in Seq(Pairs) /\ Len(T) = n - 1
    BY <1>1, <2>1, HeadTailProperties
  <2>3. \A i \in 1 .. n - 1 : T[i] = R[i + 1]
    BY <1>1, <2>1, <2>2, HeadTailProperties
  <2>4. T # <<>>
    <3>1. PICK X \in Seq(Pairs) : X = T
      BY <2>2
    <3>2. Len(X) = n - 1
      BY <2>2, <3>1
    <3>3. X # <<>>
      BY <1>1, <3>2
    <3> QED BY <3>1, <3>3
  <2> QED BY <2>2, <2>3, <2>4
<1>3. PICK Q \in Seq(Pairs) : Q = ReaderIntervals(R)
  BY <1>1, ReaderType
<1>4. Len(Q) = n - 1 /\ \A i \in 1 .. n - 1 : Q[i] = <<R[i + 1][1], R[i + 1][2] - 1>>
  BY <1>1, <1>3, ReaderType
<1> HIDE DEF T
<1>5. /\ K \in Seq(Pairs) /\ Len(K) = n - 2
      /\ \A i \in 1 .. n - 2 : K[i] = <<T[i + 1][1], T[i + 1][2] - 1>>
  BY <1>1, <1>2, ReaderType
<1>6. L \in Seq(Pairs) /\ Len(L) = n - 2 /\ \A i \in 1 .. n - 2 : L[i] = Q[i + 1]
  BY <1>1, <1>3, <1>4
<1>7. Q # <<>> /\ Q[1] = <<R[2][1], R[2][2] - 1>> /\ T[1] = R[2] /\ R[2] \in Pairs
  BY <1>1, <1>2, <1>4
<1> HIDE DEF K, L
<1>8. \A i \in 1 .. n - 2 : T[i + 1] = R[i + 2]
  BY <1>1, <1>2
<1>9. \A i \in 1 .. n - 2 : Q[i + 1] = <<R[i + 2][1], R[i + 2][2] - 1>>
  BY <1>1, <1>4
<1>10. Len(K) = Len(L) /\ \A i \in 1 .. Len(L) : K[i] = L[i]
  BY <1>5, <1>6, <1>8, <1>9
<1>11. K = L
  BY <1>5, <1>6, <1>10, SameLine
<1> QED BY <1>2, <1>3, <1>7, <1>11 DEF K, L, T

-----------------------------------------------------------------------------
\* What a step of an input node means for a station and for one of its writers, as long as
\* the threads of the station are not cancelled.
Alive(s) == iStatus[s] \in {"WAITING", "WRITING"}

\* Writer w of channel ch becomes v when the first message of M is taken, or does some work.
TookMessage(ch, M, N, w, v) ==
  /\ M # <<>> /\ N = Tail(M)
  /\ \/ M[1].type \notin {"SET_TIME", "ADD_TIME_SLICE"} /\ v = w
     \/ M[1].type = "SET_TIME" /\ GotInterval(w, v, <<M[1].start, M[1].stop>>)
     \/ M[1].type = "ADD_TIME_SLICE" /\ M[1].channel = ch /\ GotSlice(w, v, M[1].stream)
     \/ M[1].type = "ADD_TIME_SLICE" /\ M[1].channel # ch /\ v = w
Worked(w, v) == Fetched(w, v) \/ Found(w, v) \/ Begun(w, v) \/ Written(w, v) \/ Ended(w, v)
Seen(ch, M, N, w, v) == TookMessage(ch, M, N, w, v) \/ (N = M /\ (v = w \/ Worked(w, v)))

\* The other stations.
LEMMA OtherStation ==
  ASSUME InputTypes, NEW r \in Stations, InputStep(r), NEW s \in Stations \ {r}
  PROVE  /\ mail'[s] = mail[s] /\ iStatus'[s] = iStatus[s] /\ reading'[s] = reading[s]
         /\ readTime'[s] = readTime[s] /\ blocks'[s] = blocks[s] /\ writer'[s] = writer[s]
         /\ active'[s] = active[s] /\ wire'[s] = wire[s]
<1>1. CASE ReceiveParameters(r) \/ ReceiveTimeInterval(r) \/ ReceiveTimeSlice(r) \/ ReceiveEndNode(r)
  BY <1>1 DEF ReceiveParameters, ReceiveTimeInterval, ReceiveTimeSlice, ReceiveEndNode, Takes, InputTypes
<1>2. CASE Terminated(r) \/ ReadBlocks(r) \/ NextInterval(r)
  BY <1>2 DEF Terminated, ReadBlocks, NextInterval, InputTypes
<1>3. ASSUME NEW ch \in Channels, FetchNextTimeInterval(r, ch) \/ FindWork(r, ch) \/ Activate(r, ch)
      PROVE  /\ mail'[s] = mail[s] /\ iStatus'[s] = iStatus[s] /\ reading'[s] = reading[s]
             /\ readTime'[s] = readTime[s] /\ blocks'[s] = blocks[s] /\ writer'[s] = writer[s]
             /\ active'[s] = active[s] /\ wire'[s] = wire[s]
  BY <1>3 DEF FetchNextTimeInterval, FindWork, Activate, InputTypes
<1>4. ASSUME NEW ch \in Channels, SkipOldBlock(r, ch) \/ WriteBlock(r, ch) \/ EndSlice(r, ch)
      PROVE  /\ mail'[s] = mail[s] /\ iStatus'[s] = iStatus[s] /\ reading'[s] = reading[s]
             /\ readTime'[s] = readTime[s] /\ blocks'[s] = blocks[s] /\ writer'[s] = writer[s]
             /\ active'[s] = active[s] /\ wire'[s] = wire[s]
  BY <1>4 DEF SkipOldBlock, WriteBlock, EndSlice, InputTypes
<1> QED BY <1>1, <1>2, <1>3, <1>4 DEF InputStep, MessageStep, ReaderStep, WriterStep

LEMMA MessageSeen ==
  ASSUME InputTypes, NEW s \in Stations, MessageStep(s), Alive(s)'
  PROVE  /\ Alive(s)
         /\ \A ch \in Channels : TookMessage(ch, mail[s], mail'[s], writer[s][ch], writer'[s][ch])
<1>1. mail \in [Stations -> Seq(Messages)] /\ writer \in [Stations -> [Channels -> Writers]]
  BY DEF InputTypes
<1>2. PICK M \in Seq(Messages) : M = mail[s]
  BY <1>1
<1>3. ASSUME NEW type, Takes(s, type)
      PROVE  Alive(s) /\ M # <<>> /\ M[1] = Head(M) /\ M[1].type = type /\ mail'[s] = Tail(M)
  <2>1. M # <<>> /\ Head(M).type = type /\ mail'[s] = Tail(M) /\ iStatus[s] \in {"WAITING", "WRITING"}
    BY <1>1, <1>2, <1>3, TakesFacts
  <2> QED BY <1>2, <2>1 DEF Alive
<1>4. CASE ReceiveParameters(s)
  <2>1. Takes(s, "TRACK_PARAMETERS") /\ writer' = writer
    BY <1>4 DEF ReceiveParameters
  <2> QED BY <1>2, <1>3, <2>1 DEF TookMessage
<1>5. CASE ReceiveTimeInterval(s)
  <2>1. Takes(s, "SET_TIME")
    BY <1>5 DEF ReceiveTimeInterval
  <2>2. M # <<>> /\ M[1] = Head(M) /\ M[1].type = "SET_TIME" /\ mail'[s] = Tail(M) /\ Alive(s)
    BY <1>3, <2>1
  <2>3. \A ch \in Channels :
          GotInterval(writer[s][ch], writer'[s][ch], <<Head(mail[s]).start, Head(mail[s]).stop>>)
    BY <1>5, IntervalFacts
  <2>4. \A ch \in Channels :
          GotInterval(writer[s][ch], writer'[s][ch], <<M[1].start, M[1].stop>>)
    BY <1>2, <2>2, <2>3, SMTT(30)
  <2> QED BY <1>2, <2>2, <2>4 DEF TookMessage
<1>6. CASE ReceiveTimeSlice(s)
  <2>1. Takes(s, "ADD_TIME_SLICE")
    BY <1>6 DEF ReceiveTimeSlice
  <2>2. M # <<>> /\ M[1] = Head(M) /\ M[1].type = "ADD_TIME_SLICE" /\ mail'[s] = Tail(M) /\ Alive(s)
    BY <1>3, <2>1
  <2>3. PICK d \in Channels, e \in Nodes, v \in Writers :
           /\ d = Head(mail[s]).channel /\ e = Head(mail[s]).stream
           /\ Turns(s, d, v)
           /\ v.pc = writer[s][d].pc /\ v.left = writer[s][d].left
           /\ v.slices = Append(writer[s][d].slices, e)
           /\ GotSlice(writer[s][d], v, e)
    BY <1>6, SliceFacts, Zenon
  <2>4. d = M[1].channel /\ e = M[1].stream
    BY <1>2, <2>2, <2>3, ZenonT(60)
  <2>5. writer'[s][d] = v /\ \A ch \in Channels \ {d} : writer'[s][ch] = writer[s][ch]
    BY <1>1, <2>3, TurnsFacts, ZenonT(60)
  <2>6. GotSlice(writer[s][d], writer'[s][d], M[1].stream)
    BY <2>3, <2>4, <2>5, ZenonT(30)
  <2>7. ASSUME NEW ch \in Channels
        PROVE  TookMessage(ch, mail[s], mail'[s], writer[s][ch], writer'[s][ch])
    <3>1. CASE ch = d
      BY <1>2, <2>2, <2>4, <2>6, <3>1 DEF TookMessage
    <3>2. CASE ch # d
      <4>1. writer'[s][ch] = writer[s][ch] /\ M[1].channel # ch
        BY <2>4, <2>5, <3>2
      <4> QED BY <1>2, <2>2, <4>1 DEF TookMessage
    <3> QED BY <3>1, <3>2
  <2> QED BY <2>2, <2>7
<1>7. ~ReceiveEndNode(s) /\ ~Terminated(s)
  BY DEF ReceiveEndNode, Terminated, Alive, InputTypes
<1> QED BY <1>4, <1>5, <1>6, <1>7 DEF MessageStep

LEMMA WriterSeen ==
  ASSUME InputTypes, WriterStates, NEW s \in Stations, NEW d \in Channels, WriterStep(s, d)
  PROVE  /\ mail' = mail /\ iStatus' = iStatus
         /\ \A ch \in Channels :
              writer'[s][ch] = writer[s][ch] \/ Worked(writer[s][ch], writer'[s][ch])
<1>1. writer \in [Stations -> [Channels -> Writers]]
  BY SMTT(30) DEF InputTypes
<1>2. mail' = mail /\ iStatus' = iStatus
  BY ZenonT(30) DEF WriterStep, FetchNextTimeInterval, FindWork, Activate, SkipOldBlock, WriteBlock, EndSlice
<1>3. ASSUME NEW v \in Writers, Turns(s, d, v), Worked(writer[s][d], v)
      PROVE  \A ch \in Channels :
               writer'[s][ch] = writer[s][ch] \/ Worked(writer[s][ch], writer'[s][ch])
  <2>1. writer'[s][d] = v /\ \A ch \in Channels \ {d} : writer'[s][ch] = writer[s][ch]
    BY <1>1, <1>3, TurnsFacts
  <2> QED BY <1>3, <2>1
<1>4. CASE FetchNextTimeInterval(s, d)
  <2>1. PICK v \in Writers :
          /\ Turns(s, d, v)
          /\ v.pc = writer[s][d].pc /\ v.slices = writer[s][d].slices
          /\ v.left = writer[s][d].left
          /\ Fetched(writer[s][d], v)
    BY <1>4, FetchFacts, Zenon
  <2>2. Worked(writer[s][d], v)
    BY <2>1 DEF Worked
  <2> QED BY <1>2, <1>3, <2>1, <2>2
<1>5. CASE FindWork(s, d)
  <2>1. PICK v \in Writers :
           /\ Turns(s, d, v) /\ writer[s][d].pc = "idle" /\ writer[s][d].slices # <<>>
           /\ ~active[s][writer[s][d].slices[1]]
           /\ v = [writer[s][d] EXCEPT !.pc = "found"]
           /\ Found(writer[s][d], v)
    BY <1>5, FindFacts, Zenon
  <2>2. Worked(writer[s][d], v)
    BY <2>1 DEF Worked
  <2> QED BY <1>2, <1>3, <2>1, <2>2
<1>6. CASE Activate(s, d)
  <2>1. writer[s][d].slices # <<>>
    BY <1>6 DEF Activate, WriterStates
  <2>2. PICK v \in Writers, e \in Nodes :
           /\ Turns(s, d, v) /\ writer[s][d].pc = "found" /\ v.pc = "write"
           /\ v.slices = writer[s][d].slices /\ v.left = NumberFfts
           /\ e = writer[s][d].slices[1]
           /\ active' = [active EXCEPT ![s][e] = TRUE]
           /\ Begun(writer[s][d], v)
    BY <1>6, <2>1, InputNodeAssumption, ActivateFacts, Zenon
  <2>3. Worked(writer[s][d], v)
    BY <2>2 DEF Worked
  <2> QED BY <1>2, <1>3, <2>2, <2>3
<1>7. CASE SkipOldBlock(s, d)
  BY <1>2, <1>7, SMTT(30) DEF SkipOldBlock
<1>8. CASE WriteBlock(s, d)
  <2>1. writer[s][d].slices # <<>>
    BY <1>8 DEF WriteBlock, WriterStates
  <2>2. PICK v \in Writers, e \in Nodes, u \in Units :
           /\ Turns(s, d, v) /\ writer[s][d].pc = "write" /\ v.pc = "write"
           /\ v.slices = writer[s][d].slices /\ e = writer[s][d].slices[1]
           /\ writer[s][d].left \in Nat /\ writer[s][d].left > 0
           /\ v.left = writer[s][d].left - 1
           /\ wire' = [wire EXCEPT ![s][e] = @ \o <<u>>]
           /\ u = Unit(d, blocks[s][d][1])
           /\ Written(writer[s][d], v)
    BY <1>8, <2>1, InputNodeAssumption, WriteFacts, Zenon
  <2>3. Worked(writer[s][d], v)
    BY <2>2, ZenonT(30) DEF Worked
  <2> QED BY <1>2, <1>3, <2>2, <2>3, ZenonT(30)
<1>9. CASE EndSlice(s, d)
  <2>1. writer[s][d].slices # <<>>
    BY <1>9 DEF EndSlice, WriterStates
  <2>2. PICK v \in Writers, e \in Nodes :
           /\ Turns(s, d, v) /\ writer[s][d].pc = "write" /\ v.pc = "idle"
           /\ v.slices = Tail(writer[s][d].slices) /\ e = writer[s][d].slices[1]
           /\ writer[s][d].left = 0
           /\ wire' = [wire EXCEPT ![s][e] = Append(@, EndOfStream)]
           /\ active' = [active EXCEPT ![s][e] = FALSE]
           /\ Ended(writer[s][d], v)
    BY <1>9, <2>1, InputNodeAssumption, EndFacts, Zenon
  <2>3. Worked(writer[s][d], v)
    BY <2>2 DEF Worked
  <2> QED BY <1>2, <1>3, <2>2, <2>3
<1> QED BY <1>4, <1>5, <1>6, <1>7, <1>8, <1>9 DEF WriterStep

LEMMA StationSeen ==
  ASSUME InputTypes, WriterStates, NEW r \in Stations, InputStep(r), NEW s \in Stations, Alive(s)'
  PROVE  /\ Alive(s)
         /\ \A ch \in Channels : Seen(ch, mail[s], mail'[s], writer[s][ch], writer'[s][ch])
<1>1. CASE s # r
  <2>1. mail'[s] = mail[s] /\ iStatus'[s] = iStatus[s] /\ writer'[s] = writer[s]
    BY <1>1, OtherStation
  <2> QED BY <2>1 DEF Alive, Seen
<1>2. CASE s = r /\ MessageStep(r)
  BY <1>2, MessageSeen DEF Seen
<1>3. CASE s = r /\ ReaderStep(r)
  <2>1. mail' = mail /\ iStatus' = iStatus /\ writer' = writer
    BY <1>3 DEF ReaderStep, ReadBlocks, NextInterval
  <2> QED BY <2>1 DEF Alive, Seen
<1>4. ASSUME NEW d \in Channels, WriterStep(r, d), s = r
      PROVE  /\ Alive(s)
             /\ \A ch \in Channels : Seen(ch, mail[s], mail'[s], writer[s][ch], writer'[s][ch])
  <2>1. /\ mail' = mail /\ iStatus' = iStatus
        /\ \A ch \in Channels :
              writer'[s][ch] = writer[s][ch] \/ Worked(writer[s][ch], writer'[s][ch])
    BY <1>4, WriterSeen
  <2> QED BY <2>1 DEF Alive, Seen
<1> QED BY <1>1, <1>2, <1>3, <1>4 DEF InputStep

-----------------------------------------------------------------------------
\* The intervals of a writer w of station s, when M is the mail of the station and the manager
\* is in scan n: the writer is in a scan, and gets those of the next scans in their order.
WriterLine(s, M, w, n) ==
  /\ InAScan(s, w)
  /\ Chain(Line(w.intervals, M, IntervalIn), Pairs, DueIntervals(s, w), AfterInterval(s),
           IntervalsAfter(s, n))

\* The first of a queue of intervals is that of the next scan.
LEMMA IntervalServed ==
  ASSUME NEW s, NEW k \in 0 .. Len(Scans), NEW Q \in Seq(Pairs), Q # <<>>, NEW M \in Seq(Messages),
         NEW Coming,
         Chain(Line(Q, M, IntervalIn), Pairs, IntervalsAfter(s, k), AfterInterval(s), Coming)
  PROVE  \E j \in DOMAIN Scans :
           /\ NextScan(s, k, j) /\ Q[1] = IntervalOf(j) /\ j \in 1 .. Len(Scans)
           /\ Chain(Line(Tail(Q), M, IntervalIn), Pairs, IntervalsAfter(s, j), AfterInterval(s), Coming)
<1>1. Q \in Seq(Places) /\ Q[1] \in Pairs
  BY PairPlaces
<1>2. IntervalIn \in [Messages -> Places]
  BY IntervalPlaces
<1>3. <<>> \in Places /\ <<>> \notin Pairs
  BY PairPlaces, NoPair
<1>4. /\ Q[1] \in IntervalsAfter(s, k)
      /\ Chain(Line(Tail(Q), M, IntervalIn), Pairs, AfterInterval(s)[Q[1]], AfterInterval(s), Coming)
  BY <1>1, <1>2, <1>3, QueueServed
<1>5. k \in Int
  OBVIOUS
<1>6. PICK j : NextScan(s, k, j) /\ Q[1] = IntervalOf(j)
  BY <1>4, <1>5, IntervalAfter
<1>7. j \in DOMAIN Scans /\ j \in 1 .. Len(Scans)
  BY <1>6, ScanRange DEF NextScan, In
<1>8. AfterInterval(s)[Q[1]] = IntervalsAfter(s, j)
  BY <1>6, <1>7, IntervalsFollow
<1> QED BY <1>4, <1>6, <1>7, <1>8

LEMMA WriterLineFetched ==
  ASSUME NEW s, NEW M \in Seq(Messages), NEW w \in Writers, NEW v \in Writers, NEW n,
         Fetched(w, v), WriterLine(s, M, w, n)
  PROVE  WriterLine(s, M, v, n)
<1>1. PICK k \in 0 .. Len(Scans) : WriterIn(s, k, w)
  BY DEF WriterLine, InAScan
<1>2. DueIntervals(s, w) = IntervalsAfter(s, k)
  BY <1>1, WriterDue
<1>3. PICK Q \in Seq(Pairs) : Q = w.intervals /\ Q # <<>> /\ v.intervals = Tail(Q)
  BY DEF Writers, Pairs, Fetched
<1>4. Chain(Line(Q, M, IntervalIn), Pairs, IntervalsAfter(s, k), AfterInterval(s), IntervalsAfter(s, n))
  BY <1>2, <1>3 DEF WriterLine
<1>5. PICK j \in DOMAIN Scans :
           /\ NextScan(s, k, j) /\ Q[1] = IntervalOf(j) /\ j \in 1 .. Len(Scans)
           /\ Chain(Line(Tail(Q), M, IntervalIn), Pairs, IntervalsAfter(s, j), AfterInterval(s),
                    IntervalsAfter(s, n))
  BY <1>3, <1>4, IntervalServed
<1>6. w.intervals[1] = IntervalOf(j)
  BY <1>3, <1>5
<1>7. WriterIn(s, j, v)
  BY <1>1, <1>5, <1>6, ClockFetched
<1>8. j \in 0 .. Len(Scans)
  BY <1>5
<1>9. DueIntervals(s, v) = IntervalsAfter(s, j)
  BY <1>7, <1>8, WriterDue
<1> QED BY <1>3, <1>5, <1>7, <1>8, <1>9 DEF WriterLine, InAScan

\* A step that leaves the writer in its scan, and does not change its intervals.
LEMMA WriterLineSame ==
  ASSUME NEW s, NEW M, NEW w, NEW v, NEW n, v.intervals = w.intervals,
         \A k \in 0 .. Len(Scans) : WriterIn(s, k, w) => WriterIn(s, k, v),
         WriterLine(s, M, w, n)
  PROVE  WriterLine(s, M, v, n)
<1>1. PICK k \in 0 .. Len(Scans) : WriterIn(s, k, w) /\ WriterIn(s, k, v)
  BY DEF WriterLine, InAScan
<1>2. DueIntervals(s, w) = IntervalsAfter(s, k) /\ DueIntervals(s, v) = IntervalsAfter(s, k)
  BY <1>1, WriterDue
<1> QED BY <1>1, <1>2 DEF WriterLine, InAScan

LEMMA WriterLineWorked ==
  ASSUME NEW s, NEW M \in Seq(Messages), NEW w \in Writers, NEW v \in Writers, NEW n,
         Worked(w, v), WriterLine(s, M, w, n)
  PROVE  WriterLine(s, M, v, n)
<1>1. CASE Fetched(w, v)
  BY <1>1, WriterLineFetched
<1>2. CASE Found(w, v)
  <2>1. w.time \in Int /\ v.intervals = w.intervals
    BY <1>2 DEF Writers, Found
  <2>2. \A k \in 0 .. Len(Scans) : WriterIn(s, k, w) => WriterIn(s, k, v)
    BY <1>2, <2>1, ClockFound
  <2> QED BY <2>1, <2>2, WriterLineSame
<1>3. CASE Begun(w, v)
  <2>1. v.intervals = w.intervals
    BY <1>3 DEF Begun
  <2>2. \A k \in 0 .. Len(Scans) : WriterIn(s, k, w) => WriterIn(s, k, v)
    BY <1>3, ClockBegun
  <2> QED BY <2>1, <2>2, WriterLineSame
<1>4. CASE Written(w, v)
  <2>1. v.intervals = w.intervals
    BY <1>4 DEF Written
  <2>2. \A k \in 0 .. Len(Scans) : WriterIn(s, k, w) => WriterIn(s, k, v)
    BY <1>4, ClockWritten
  <2> QED BY <2>1, <2>2, WriterLineSame
<1>5. CASE Ended(w, v)
  <2>1. v.intervals = w.intervals
    BY <1>5 DEF Ended
  <2>2. \A k \in 0 .. Len(Scans) : WriterIn(s, k, w) => WriterIn(s, k, v)
    BY <1>5, ClockEnded
  <2> QED BY <2>1, <2>2, WriterLineSame
<1> QED BY <1>1, <1>2, <1>3, <1>4, <1>5 DEF Worked

LEMMA WriterLineMessage ==
  ASSUME NEW s, NEW ch, NEW M \in Seq(Messages), NEW N \in Seq(Messages),
         NEW w \in Writers, NEW v \in Writers, NEW n,
         TookMessage(ch, M, N, w, v), WriterLine(s, M, w, n)
  PROVE  WriterLine(s, N, v, n)
<1>1. M # <<>> /\ N = Tail(M) /\ M[1] \in Messages
  BY DEF TookMessage
<1>2. PICK k \in 0 .. Len(Scans) : WriterIn(s, k, w)
  BY DEF WriterLine, InAScan
<1>3. WriterIn(s, k, v)
  <2>1. /\ v.pc = w.pc /\ v.time = w.time /\ v.stop = w.stop /\ v.start = w.start /\ v.left = w.left
    BY DEF TookMessage, GotInterval, GotSlice
  <2> QED BY <1>2, <2>1, ClockSame
<1>4. PICK D : D = DueIntervals(s, w) /\ D = DueIntervals(s, v)
  BY <1>2, <1>3, WriterDue
<1>5. PICK Q \in Seq(Places) : Q = w.intervals
  BY PairPlaces DEF Writers, Pairs
<1>6. Chain(Line(Q, M, IntervalIn), Pairs, D, AfterInterval(s), IntervalsAfter(s, n))
  BY <1>4, <1>5 DEF WriterLine
<1>7. IntervalIn \in [Messages -> Places]
  BY IntervalPlaces
<1>8. CASE M[1].type = "SET_TIME"
  <2>1. v.intervals = Append(Q, <<M[1].start, M[1].stop>>)
    BY <1>5, <1>8 DEF TookMessage, GotInterval
  <2>2. IntervalIn[M[1]] = <<M[1].start, M[1].stop>>
    BY <1>1, <1>8, IntervalPlaces
  <2>3. Line(Append(Q, IntervalIn[M[1]]), Tail(M), IntervalIn) = Line(Q, M, IntervalIn)
    BY <1>1, <1>7, NextReceived
  <2>4. Chain(Line(v.intervals, N, IntervalIn), Pairs, D, AfterInterval(s), IntervalsAfter(s, n))
    BY <1>1, <1>6, <2>1, <2>2, <2>3
  <2> QED BY <1>3, <1>4, <2>4 DEF WriterLine, InAScan
<1>9. CASE M[1].type # "SET_TIME"
  <2>1. v.intervals = Q
    BY <1>5, <1>9 DEF TookMessage, GotSlice
  <2>2. IntervalIn[M[1]] \notin Pairs
    BY <1>1, <1>9, IntervalPlaces
  <2>3. Chain(Line(Q, Tail(M), IntervalIn), Pairs, D, AfterInterval(s), IntervalsAfter(s, n))
    BY <1>1, <1>6, <1>7, <2>2, OtherReceived
  <2> QED BY <1>1, <1>3, <1>4, <2>1, <2>3 DEF WriterLine, InAScan
<1> QED BY <1>8, <1>9

LEMMA WriterLineSeen ==
  ASSUME NEW s, NEW ch, NEW M \in Seq(Messages), NEW N \in Seq(Messages),
         NEW w \in Writers, NEW v \in Writers, NEW n,
         Seen(ch, M, N, w, v), WriterLine(s, M, w, n)
  PROVE  WriterLine(s, N, v, n)
BY WriterLineMessage, WriterLineWorked DEF Seen

\* The manager goes to the next scan.
LEMMA NextOfScan ==
  ASSUME NEW s, NEW n \in Nat, n + 1 \in DOMAIN Scans
  PROVE  /\ In(s, n + 1) => IntervalsAfter(s, n) = {IntervalOf(n + 1)}
                            /\ StartsAfter(s, n) = {Scans[n + 1].start}
         /\ ~In(s, n + 1) => IntervalsAfter(s, n + 1) = IntervalsAfter(s, n)
                             /\ StartsAfter(s, n + 1) = StartsAfter(s, n)
<1>1. ASSUME In(s, n + 1)
      PROVE  IntervalsAfter(s, n) = {IntervalOf(n + 1)} /\ StartsAfter(s, n) = {Scans[n + 1].start}
  <2>1. NextScan(s, n, n + 1)
    BY <1>1, ScanRange DEF NextScan
  <2> QED BY <2>1, IntervalAfter, StartAfter
<1>2. ASSUME ~In(s, n + 1)
      PROVE  \A j : NextScan(s, n + 1, j) <=> NextScan(s, n, j)
  <2>1. \A j : In(s, j) => (n + 1 < j <=> n < j)
    BY <1>2, ScanRange DEF In
  <2>2. s \notin Scans[n + 1].stations
    BY <1>2 DEF In
  <2>3. \A i \in DOMAIN Scans : n < i => i = n + 1 \/ n + 1 < i
    BY ScanRange
  <2>4. \A i \in DOMAIN Scans : n + 1 < i => n < i
    BY ScanRange
  <2> QED BY <2>1, <2>2, <2>3, <2>4 DEF NextScan
<1>3. ~In(s, n + 1) => IntervalsAfter(s, n + 1) = IntervalsAfter(s, n)
                       /\ StartsAfter(s, n + 1) = StartsAfter(s, n)
  BY <1>2 DEF IntervalsAfter, StartsAfter
<1> QED BY <1>1, <1>3

LEMMA NoScanLeft ==
  ASSUME NEW s, NEW n \in Nat, n >= Len(Scans)
  PROVE  IntervalsAfter(s, n) = {} /\ StartsAfter(s, n) = {}
BY ScanRange DEF IntervalsAfter, StartsAfter, NextScan, In

LEMMA TwoAdded ==
  ASSUME NEW M \in Seq(Messages), NEW a \in Messages, NEW b \in Messages
  PROVE  M \o <<a, b>> = Append(Append(M, a), b) /\ M \o <<a>> = Append(M, a)
OBVIOUS

\* What the manager sends to station s.
Mailing(s, M, N, n, m) ==
  \/ N = M /\ m = n
  \/ N = M /\ n + 1 \in DOMAIN Scans /\ m = n + 1 /\ ~In(s, m)
  \/ \E a, b \in Messages :
       /\ a.type = "TRACK_PARAMETERS" /\ b.type = "SET_TIME"
       /\ b.start = Scans[n + 1].start /\ b.stop = Scans[n + 1].stop
       /\ N = Append(Append(M, a), b) /\ n + 1 \in DOMAIN Scans /\ m = n + 1 /\ In(s, m)
  \/ \E a \in Messages : a.type = "ADD_TIME_SLICE" /\ N = Append(M, a) /\ m = n
  \/ \E a \in Messages : a.type = "END_NODE" /\ N = Append(M, a) /\ n = Len(Scans) /\ m = n + 1

LEMMA ManagerMailing ==
  ASSUME Types, ManagerStep, NEW s \in Stations
  PROVE  Mailing(s, mail[s], mail'[s], mScan, mScan')
<1>1. PICK M \in Seq(Messages), n \in Nat : M = mail[s] /\ n = mScan
  <2>1. mail[s] \in Seq(Messages) /\ mScan \in Nat
    BY ScanRange DEF Types, InputTypes, SupplyTypes
  <2> QED BY <2>1
<1>2. mail \in [Stations -> Seq(Messages)]
  BY DEF Types, InputTypes
<1>3. CASE StartNewScan
  <2>1. PICK S \in SUBSET Stations, a \in Messages, b \in Messages :
           /\ Send(S, <<a, b>>) /\ S = Scans[mScan'].stations
           /\ a.type = "TRACK_PARAMETERS" /\ b.type = "SET_TIME"
           /\ b.start = Scans[mScan'].start /\ b.stop = Scans[mScan'].stop
           /\ mScan' \in 0 .. Len(Scans) /\ mTime' \in Nat /\ mChannels' = Channels
    BY <1>3, SupplyAssumption, NewScanFacts, Zenon
  <2>2. mScan' = n + 1
    BY <1>1, <1>3 DEF StartNewScan
  <2>3. n + 1 \in DOMAIN Scans
    BY <1>1, <2>1, <2>2, ScanRange
  <2>4. <<a, b>> \in Seq(Messages)
    OBVIOUS
  <2>5. CASE s \in S
    <3>1. mail'[s] = M \o <<a, b>>
      BY <1>1, <1>2, <2>1, <2>4, <2>5, SendFacts
    <3>2. mail'[s] = Append(Append(M, a), b)
      BY <3>1, TwoAdded
    <3>3. In(s, mScan')
      BY <2>1, <2>2, <2>3, <2>5 DEF In
    <3>4. b.start = Scans[n + 1].start /\ b.stop = Scans[n + 1].stop
      BY <2>1, <2>2
    <3> QED BY <1>1, <2>1, <2>2, <2>3, <3>2, <3>3, <3>4 DEF Mailing
  <2>6. CASE s \notin S
    <3>1. mail'[s] = M
      BY <1>1, <1>2, <2>1, <2>4, <2>6, SendFacts
    <3>2. ~In(s, mScan')
      BY <2>1, <2>6 DEF In
    <3> QED BY <1>1, <2>2, <2>3, <3>1, <3>2 DEF Mailing
  <2> QED BY <2>5, <2>6
<1>4. CASE StartCorrelatorNode
  <2>1. PICK S \in SUBSET Stations, m \in Messages, c \in Nodes, g \in SlicesGiven :
            /\ Send(S, <<m>>) /\ m.type = "ADD_TIME_SLICE" /\ m.stream = c
            /\ g.stations = S /\ handed' = [handed EXCEPT ![c] = Append(@, g)]
            /\ ready # <<>> /\ c = ready[1] /\ ready' = Tail(ready)
            /\ mScan \in 1 .. Len(Scans)
            /\ mTime' \in Nat /\ mChannels' \in SUBSET Channels /\ mChannels' # {}
            /\ m.channel = g.channel /\ S = Scans[mScan].stations
            /\ g.channel \in mChannels /\ g.time = mTime
            /\ IF mChannels = {g.channel}
               THEN mTime' = mTime + IntegrationUnits /\ mChannels' = Channels
               ELSE mTime' = mTime /\ mChannels' = mChannels \ {g.channel}
    BY <1>4, InputNodeAssumption, SupplyAssumption, HandOutFacts, Zenon
  <2>2. mScan' = n
    BY <1>1, <1>4 DEF StartCorrelatorNode
  <2>3. <<m>> \in Seq(Messages)
    OBVIOUS
  <2>4. mail'[s] = M \o <<m>> \/ mail'[s] = M
    BY <1>1, <1>2, <2>1, <2>3, SendFacts
  <2>5. mail'[s] = Append(M, m) \/ mail'[s] = M
    BY <2>4, TwoAdded
  <2> QED BY <1>1, <2>1, <2>2, <2>5 DEF Mailing
<1>5. CASE EndNodes
  <2>1. EndNode \in Messages /\ EndNode.type = "END_NODE"
    BY EndMessage
  <2>2. Send(Stations, <<EndNode>>) /\ n = Len(Scans) /\ mScan' = n + 1
    BY <1>1, <1>5 DEF EndNodes
  <2>3. <<EndNode>> \in Seq(Messages)
    BY <2>1
  <2>4. mail'[s] = M \o <<EndNode>>
    BY <1>1, <1>2, <2>2, <2>3, SendFacts
  <2>5. mail'[s] = Append(M, EndNode)
    BY <2>1, <2>4, TwoAdded
  <2> QED BY <1>1, <2>1, <2>2, <2>5 DEF Mailing
<1> QED BY <1>3, <1>4, <1>5 DEF ManagerStep

\* The intervals of the scans are mailed in their order.
LEMMA IntervalsMailed ==
  ASSUME NEW s, NEW M \in Seq(Messages), NEW N \in Seq(Messages), NEW n \in Nat, NEW m,
         Mailing(s, M, N, n, m), NEW Q \in Seq(Places), NEW Due,
         Chain(Line(Q, M, IntervalIn), Pairs, Due, AfterInterval(s), IntervalsAfter(s, n))
  PROVE  Chain(Line(Q, N, IntervalIn), Pairs, Due, AfterInterval(s), IntervalsAfter(s, m))
<1>1. IntervalIn \in [Messages -> Places]
  BY IntervalPlaces
<1>2. CASE N = M /\ m = n
  BY <1>2
<1>3. CASE N = M /\ n + 1 \in DOMAIN Scans /\ m = n + 1 /\ ~In(s, m)
  BY <1>3, NextOfScan
<1>4. ASSUME NEW a \in Messages, NEW b \in Messages,
             a.type = "TRACK_PARAMETERS", b.type = "SET_TIME",
             b.start = Scans[n + 1].start, b.stop = Scans[n + 1].stop,
             N = Append(Append(M, a), b), n + 1 \in DOMAIN Scans, m = n + 1, In(s, m)
      PROVE  Chain(Line(Q, N, IntervalIn), Pairs, Due, AfterInterval(s), IntervalsAfter(s, m))
  <2>1. IntervalIn[a] \notin Pairs
    BY <1>4, IntervalPlaces
  <2>2. PICK K \in Seq(Messages) : K = Append(M, a)
    <3>1. Append(M, a) \in Seq(Messages)
      BY MailAdded
    <3> QED BY <3>1
  <2>3. Chain(Line(Q, K, IntervalIn), Pairs, Due, AfterInterval(s), IntervalsAfter(s, n))
    BY <1>1, <2>1, <2>2, OtherMailed
  <2>4. IntervalIn[b] = IntervalOf(n + 1) /\ IntervalIn[b] \in Pairs
    BY <1>4, IntervalPlaces DEF IntervalOf
  <2>5. IntervalIn[b] \in IntervalsAfter(s, n)
    BY <1>4, <2>4, NextOfScan
  <2>6. AfterInterval(s)[IntervalIn[b]] = IntervalsAfter(s, n + 1)
    BY <1>4, <2>4, IntervalsFollow
  <2>7. IntervalsAfter(s, n + 1) \subseteq AfterInterval(s)[IntervalIn[b]]
    BY <2>6
  <2>8. Chain(Line(Q, Append(K, b), IntervalIn), Pairs, Due, AfterInterval(s), IntervalsAfter(s, n + 1))
    BY <1>1, <2>3, <2>4, <2>5, <2>7, NextMailed
  <2> QED BY <1>4, <2>2, <2>8
<1>5. ASSUME NEW a \in Messages, a.type # "SET_TIME", N = Append(M, a)
      PROVE  Chain(Line(Q, N, IntervalIn), Pairs, Due, AfterInterval(s), IntervalsAfter(s, n))
  <2>1. IntervalIn[a] \notin Pairs
    BY <1>5, IntervalPlaces
  <2> QED BY <1>1, <1>5, <2>1, OtherMailed
<1>6. ASSUME n = Len(Scans), m = n + 1
      PROVE  IntervalsAfter(s, m) = IntervalsAfter(s, n)
  <2>1. m \in Nat /\ m >= Len(Scans) /\ n >= Len(Scans)
    BY <1>6
  <2> QED BY <2>1, NoScanLeft
<1> QED BY <1>2, <1>3, <1>4, <1>5, <1>6 DEF Mailing

LEMMA WriterLineMailed ==
  ASSUME NEW s, NEW M \in Seq(Messages), NEW N \in Seq(Messages), NEW n \in Nat, NEW m,
         Mailing(s, M, N, n, m), NEW w \in Writers, WriterLine(s, M, w, n)
  PROVE  WriterLine(s, N, w, m)
<1>1. PICK Q \in Seq(Places) : Q = w.intervals
  BY PairPlaces DEF Writers, Pairs
<1> QED BY <1>1, IntervalsMailed DEF WriterLine

\* The intervals of the reader of station s.
ReaderLine(s, M, R, t, n) ==
  /\ InReading(s, R, t)
  /\ Chain(Line(ReaderIntervals(R), M, IntervalIn), Pairs, DueReading(s, R, t), AfterInterval(s),
           IntervalsAfter(s, n))

\* The intervals R of a reader and its time t become P and u.
ReadingMessage(M, N, R, P, t, u) ==
  /\ M # <<>> /\ N = Tail(M) /\ u = t
  /\ \/ M[1].type # "SET_TIME" /\ P = R
     \/ M[1].type = "SET_TIME" /\ P = Append(R, <<M[1].start, M[1].stop + 1>>)
ReadOn(R, P, t, u) == P = R /\ R # <<>> /\ t < R[1][2] /\ u = t + 1
ReadNext(R, P, t, u) == Len(R) > 1 /\ t >= R[1][2] /\ P = Tail(R) /\ u = P[1][1]
ReadingSeen(M, N, R, P, t, u) ==
  \/ ReadingMessage(M, N, R, P, t, u)
  \/ N = M /\ ((P = R /\ u = t) \/ ReadOn(R, P, t, u) \/ ReadNext(R, P, t, u))

LEMMA StationReading ==
  ASSUME InputTypes, NEW r \in Stations, InputStep(r), NEW s \in Stations, Alive(s)'
  PROVE  ReadingSeen(mail[s], mail'[s], reading[s], reading'[s], readTime[s], readTime'[s])
<1>1. CASE s # r
  <2>1. mail'[s] = mail[s] /\ reading'[s] = reading[s] /\ readTime'[s] = readTime[s]
    BY <1>1, OtherStation
  <2> QED BY <2>1 DEF ReadingSeen
<1>2. PICK M \in Seq(Messages), R \in Seq(Pairs), t \in Int :
        M = mail[s] /\ R = reading[s] /\ t = readTime[s]
  BY DEF InputTypes, Pairs
<1>3. ASSUME NEW type, Takes(s, type)
      PROVE  M # <<>> /\ M[1] = Head(M) /\ M[1].type = type /\ mail'[s] = Tail(M)
  <2>1. mail \in [Stations -> Seq(Messages)]
    BY DEF InputTypes
  <2>2. M # <<>> /\ Head(M).type = type /\ mail'[s] = Tail(M)
    BY <1>2, <1>3, <2>1, TakesFacts, SMTT(30)
  <2> QED BY <1>2, <2>2
<1>4. CASE ReceiveParameters(s) \/ ReceiveTimeSlice(s)
  <2>1. UNCHANGED <<reading, readTime>>
    BY <1>4, ZenonT(30) DEF ReceiveParameters, ReceiveTimeSlice
  <2>2. Takes(s, "TRACK_PARAMETERS") \/ Takes(s, "ADD_TIME_SLICE")
    BY <1>4 DEF ReceiveParameters, ReceiveTimeSlice
  <2>3. M # <<>> /\ M[1].type # "SET_TIME" /\ mail'[s] = Tail(M)
    BY <1>3, <2>2
  <2> QED BY <1>2, <2>1, <2>3 DEF ReadingSeen, ReadingMessage
<1>5. CASE ReceiveTimeInterval(s)
  <2>1. Takes(s, "SET_TIME") /\ readTime' = readTime
    BY <1>5 DEF ReceiveTimeInterval
  <2>2. M # <<>> /\ M[1] = Head(M) /\ M[1].type = "SET_TIME" /\ mail'[s] = Tail(M)
    BY <1>3, <2>1
  <2>3. reading'[s] = Append(R, <<Head(M).start, Head(M).stop + 1>>)
    BY <1>2, <1>5 DEF ReceiveTimeInterval, InputTypes
  <2>4. reading'[s] = Append(R, <<M[1].start, M[1].stop + 1>>)
    BY <2>2, <2>3
  <2> QED BY <1>2, <2>1, <2>2, <2>4 DEF ReadingSeen, ReadingMessage
<1>6. ~ReceiveEndNode(s) /\ ~Terminated(s)
  BY DEF ReceiveEndNode, Terminated, Alive, InputTypes
<1>7. CASE ReadBlocks(s)
  <2>1. R # <<>> /\ t < R[1][2] /\ readTime'[s] = t + 1 /\ reading' = reading /\ mail' = mail
    BY <1>2, <1>7 DEF ReadBlocks, InputTypes
  <2> QED BY <1>2, <2>1 DEF ReadingSeen, ReadOn
<1>8. CASE NextInterval(s)
  <2>1. Len(R) > 1 /\ mail' = mail
    BY <1>2, <1>8 DEF NextInterval
  <2>2. R # <<>> /\ Head(R) = R[1] /\ Tail(R) # <<>> /\ Head(Tail(R)) = Tail(R)[1]
    BY <2>1, ReaderTaken
  <2>3. t >= Head(R)[2]
    BY <1>2, <1>8 DEF NextInterval
  <2>4. reading'[s] = Tail(R)
    BY <1>2, <1>8 DEF NextInterval, InputTypes
  <2>5. readTime'[s] = Head(reading'[s])[1]
    BY <1>8 DEF NextInterval, InputTypes
  <2>6. t >= R[1][2] /\ readTime'[s] = Tail(R)[1][1]
    BY <2>2, <2>3, <2>4, <2>5, SMTT(30)
  <2> QED BY <1>2, <2>1, <2>4, <2>6 DEF ReadingSeen, ReadNext
<1>9. ASSUME NEW ch \in Channels, WriterStep(s, ch)
      PROVE  UNCHANGED <<mail, reading, readTime>>
  BY <1>9, ZenonT(30) DEF WriterStep, FetchNextTimeInterval, FindWork, Activate, SkipOldBlock, WriteBlock, EndSlice
<1>10. CASE UNCHANGED <<mail, reading, readTime>>
  BY <1>10 DEF ReadingSeen
<1> QED BY <1>1, <1>4, <1>5, <1>6, <1>7, <1>8, <1>9, <1>10 DEF InputStep, MessageStep, ReaderStep

LEMMA ReaderLineMessage ==
  ASSUME NEW s, NEW M \in Seq(Messages), NEW N \in Seq(Messages), NEW R \in Seq(Pairs), NEW P,
         NEW t \in Int, NEW u, NEW n,
         ReadingMessage(M, N, R, P, t, u), ReaderLine(s, M, R, t, n)
  PROVE  ReaderLine(s, N, P, u, n)
<1>1. M # <<>> /\ N = Tail(M) /\ M[1] \in Messages /\ u = t
  BY DEF ReadingMessage
<1>2. PICK k \in 0 .. Len(Scans) : ReaderIn(s, k, R, t)
  BY DEF ReaderLine, InReading
<1>3. R # <<>>
  BY <1>2 DEF ReaderIn
<1>4. PICK Q \in Seq(Places) : Q = ReaderIntervals(R)
  BY <1>3, ReaderType, PairPlaces
<1>5. Chain(Line(Q, M, IntervalIn), Pairs, DueReading(s, R, t), AfterInterval(s), IntervalsAfter(s, n))
  BY <1>4 DEF ReaderLine
<1>6. IntervalIn \in [Messages -> Places]
  BY IntervalPlaces
<1>7. CASE M[1].type = "SET_TIME"
  <2>1. PICK a \in Int, b \in Int : a = M[1].start /\ b = M[1].stop
    BY <1>1, <1>7, IntervalMessage
  <2>2. P = Append(R, <<a, b + 1>>)
    BY <1>7, <2>1 DEF ReadingMessage
  <2>3. ReaderIntervals(P) = Append(Q, <<a, b>>)
    BY <1>3, <1>4, <2>2, ReaderAdded
  <2>4. IntervalIn[M[1]] = <<a, b>>
    BY <1>1, <1>7, <2>1, IntervalPlaces
  <2>5. Line(Append(Q, IntervalIn[M[1]]), Tail(M), IntervalIn) = Line(Q, M, IntervalIn)
    BY <1>1, <1>6, NextReceived
  <2>6. P # <<>> /\ P[1] = R[1]
    <3>1. <<a, b + 1>> \in Pairs
      BY DEF Pairs
    <3> QED BY <1>3, <2>2, <3>1
  <2>7. ReaderIn(s, k, P, t)
    BY <1>2, <2>6 DEF ReaderIn
  <2>8. DueReading(s, P, t) = DueReading(s, R, t)
    BY <1>2, <2>7, ReaderDue
  <2> QED BY <1>1, <1>5, <2>3, <2>4, <2>5, <2>7, <2>8 DEF ReaderLine, InReading
<1>8. CASE M[1].type # "SET_TIME"
  <2>1. P = R
    BY <1>8 DEF ReadingMessage
  <2>2. IntervalIn[M[1]] \notin Pairs
    BY <1>1, <1>8, IntervalPlaces
  <2>3. Chain(Line(Q, Tail(M), IntervalIn), Pairs, DueReading(s, R, t), AfterInterval(s), IntervalsAfter(s, n))
    BY <1>1, <1>5, <1>6, <2>2, OtherReceived
  <2> QED BY <1>1, <1>4, <2>1, <2>3 DEF ReaderLine
<1> QED BY <1>7, <1>8

\* The reader in its scan, and when it goes to the next.
LEMMA ReaderOn ==
  ASSUME NEW s, NEW k \in 0 .. Len(Scans), NEW R, NEW t \in Int, NEW P, NEW u, ReadOn(R, P, t, u),
         ReaderIn(s, k, R, t)
  PROVE  k # 0 /\ t <= Scans[k].stop /\ ReaderIn(s, k, P, u)
<1>1. k # 0
  BY DEF ReaderIn, ReadOn, NoInterval
<1>2. k \in DOMAIN Scans
  BY <1>1, ScanRange
<1>3. PICK a \in Nat, b \in Nat : a = Scans[k].start /\ b = Scans[k].stop
  BY <1>2, ScanRange
<1>4. R[1] = <<a, b + 1>> /\ In(s, k) /\ a <= t /\ R # <<>>
  BY <1>1, <1>3 DEF ReaderIn
<1>5. R[1][2] = b + 1 /\ t < R[1][2] /\ u = t + 1 /\ P = R
  BY <1>4 DEF ReadOn
<1>6. t <= b /\ a <= u /\ u <= b + 1
  BY <1>4, <1>5
<1> QED BY <1>1, <1>3, <1>4, <1>5, <1>6 DEF ReaderIn

LEMMA ReaderNext ==
  ASSUME NEW s, NEW M \in Seq(Messages), NEW R \in Seq(Pairs), NEW P, NEW t \in Int, NEW u, NEW n,
         NEW k \in 0 .. Len(Scans), ReaderIn(s, k, R, t), ReadNext(R, P, t, u),
         ReaderLine(s, M, R, t, n)
  PROVE  \E j \in DOMAIN Scans :
           /\ NextScan(s, k, j) /\ j \in 0 .. Len(Scans) /\ ReaderIn(s, j, P, u) /\ u = Scans[j].start
           /\ Chain(Line(ReaderIntervals(P), M, IntervalIn), Pairs, IntervalsAfter(s, j), AfterInterval(s),
                    IntervalsAfter(s, n))
<1>1. Len(R) > 1 /\ P = Tail(R) /\ u = P[1][1] /\ R # <<>>
  BY DEF ReadNext, ReaderIn
<1>2. PICK Q \in Seq(Pairs) : Q = ReaderIntervals(R)
  BY <1>1, ReaderType
<1>3. Q # <<>> /\ Tail(Q) = ReaderIntervals(P) /\ Q[1] = <<R[2][1], R[2][2] - 1>>
  BY <1>1, <1>2, ReaderTaken
<1>4. P # <<>> /\ P[1] = R[2] /\ R[2] \in Pairs
  BY <1>1, ReaderTaken
<1>5. DueReading(s, R, t) = IntervalsAfter(s, k)
  BY ReaderDue
<1>6. Chain(Line(Q, M, IntervalIn), Pairs, IntervalsAfter(s, k), AfterInterval(s), IntervalsAfter(s, n))
  BY <1>2, <1>5 DEF ReaderLine
<1>7. PICK j \in DOMAIN Scans :
           /\ NextScan(s, k, j) /\ Q[1] = IntervalOf(j) /\ j \in 1 .. Len(Scans)
           /\ Chain(Line(Tail(Q), M, IntervalIn), Pairs, IntervalsAfter(s, j), AfterInterval(s),
                    IntervalsAfter(s, n))
  BY <1>3, <1>6, IntervalServed
<1>8. PICK a \in Nat, b \in Nat : a = Scans[j].start /\ b = Scans[j].stop /\ a < b
  BY <1>7, ScanRange
<1>9. PICK x \in Int, y \in Int : R[2] = <<x, y>>
  BY <1>4 DEF Pairs
<1>10. x = a /\ y = b + 1
  <2>1. <<x, y - 1>> = <<a, b>>
    BY <1>3, <1>7, <1>8, <1>9 DEF IntervalOf
  <2> QED BY <1>8, <1>9, <2>1
<1>11. P[1] = <<a, b + 1>> /\ u = a
  BY <1>1, <1>4, <1>9, <1>10
<1>12. In(s, j) /\ j # 0
  BY <1>7, ScanRange DEF NextScan
<1>13. ReaderIn(s, j, P, u)
  BY <1>4, <1>8, <1>11, <1>12 DEF ReaderIn
<1>14. j \in 0 .. Len(Scans) /\ u = Scans[j].start
  BY <1>7, <1>8, <1>11
<1>15. Chain(Line(ReaderIntervals(P), M, IntervalIn), Pairs, IntervalsAfter(s, j), AfterInterval(s),
             IntervalsAfter(s, n))
  BY <1>3, <1>7
<1> QED BY <1>7, <1>13, <1>14, <1>15, Zenon

LEMMA ReaderLineSeen ==
  ASSUME NEW s, NEW M \in Seq(Messages), NEW N \in Seq(Messages), NEW R \in Seq(Pairs), NEW P,
         NEW t \in Int, NEW u, NEW n,
         ReadingSeen(M, N, R, P, t, u), ReaderLine(s, M, R, t, n)
  PROVE  ReaderLine(s, N, P, u, n)
<1>1. PICK k \in 0 .. Len(Scans) : ReaderIn(s, k, R, t)
  BY DEF ReaderLine, InReading
<1>2. ASSUME ReadOn(R, P, t, u)
      PROVE  ReaderLine(s, M, P, u, n)
  <2>1. ReaderIn(s, k, P, u)
    BY <1>1, <1>2, ReaderOn
  <2>2. DueReading(s, P, u) = DueReading(s, R, t)
    BY <1>1, <2>1, ReaderDue
  <2>3. P = R
    BY <1>2 DEF ReadOn
  <2> QED BY <2>1, <2>2, <2>3 DEF ReaderLine, InReading
<1>3. ASSUME ReadNext(R, P, t, u)
      PROVE  ReaderLine(s, M, P, u, n)
  <2>1. PICK j \in DOMAIN Scans :
           /\ NextScan(s, k, j) /\ j \in 0 .. Len(Scans) /\ ReaderIn(s, j, P, u) /\ u = Scans[j].start
           /\ Chain(Line(ReaderIntervals(P), M, IntervalIn), Pairs, IntervalsAfter(s, j), AfterInterval(s),
                    IntervalsAfter(s, n))
    BY <1>1, <1>3, ReaderNext
  <2>2. DueReading(s, P, u) = IntervalsAfter(s, j)
    BY <2>1, ReaderDue
  <2> QED BY <2>1, <2>2 DEF ReaderLine, InReading
<1> QED BY <1>2, <1>3, ReaderLineMessage DEF ReadingSeen

LEMMA ReaderLineMailed ==
  ASSUME NEW s, NEW M \in Seq(Messages), NEW N \in Seq(Messages), NEW n \in Nat, NEW m,
         Mailing(s, M, N, n, m), NEW R \in Seq(Pairs), NEW t, ReaderLine(s, M, R, t, n)
  PROVE  ReaderLine(s, N, R, t, m)
<1>1. R # <<>>
  BY DEF ReaderLine, InReading, ReaderIn
<1>2. PICK Q \in Seq(Places) : Q = ReaderIntervals(R)
  BY <1>1, ReaderType, PairPlaces
<1> QED BY <1>2, IntervalsMailed DEF ReaderLine

-----------------------------------------------------------------------------
\* The clocks of the manager, the readers and the writers, as long as these are not cancelled.
WritersAlive == \A s \in Stations, ch \in Channels : writer[s][ch].pc # "cancelled" => Alive(s)
WriterClocks ==
  \A s \in Stations, ch \in Channels :
    Alive(s) => WriterLine(s, mail[s], writer[s][ch], mScan)
ReaderClocks ==
  \A s \in Stations : Alive(s) => ReaderLine(s, mail[s], reading[s], readTime[s], mScan)
ManagerClock ==
  mScan \in DOMAIN Scans =>
    /\ Aligned(mScan, mTime)
    /\ mChannels # Channels => mTime < Scans[mScan].stop
Clocks == WritersAlive /\ WriterClocks /\ ReaderClocks /\ ManagerClock

LEMMA ChainEmpty ==
  ASSUME NEW V, NEW Due, NEW After
  PROVE  Chain(<<>>, V, Due, After, Due)
BY DEF Chain, FirstDue, InTurn, LastNext, NoneNext

LEMMA LineEmpty ==
  ASSUME NEW S, NEW F \in [Messages -> S]
  PROVE  Line(<<>>, <<>>, F) = <<>>
<1>1. Mapped(<<>>, F) \in Seq(S) /\ Len(Mapped(<<>>, F)) = 0
  <2>1. <<>> \in Seq(Messages) /\ Len(<<>>) = 0
    OBVIOUS
  <2> QED BY <2>1, MappedType
<1>2. Mapped(<<>>, F) = <<>>
  BY <1>1
<1> QED BY <1>2 DEF Line

LEMMA ClocksInit ==
  ASSUME Init
  PROVE  Clocks
<1>1. /\ mail = [s \in Stations |-> <<>>] /\ iStatus = [s \in Stations |-> "WAITING"]
      /\ reading = [s \in Stations |-> <<NoInterval>>] /\ readTime = [s \in Stations |-> 0]
      /\ writer = [s \in Stations |-> [ch \in Channels |-> NewWriter]] /\ mScan = 0
  BY DEF Init, InputInit
<1>2. 0 \in 0 .. Len(Scans) /\ 0 \notin DOMAIN Scans
  BY ScanRange
<1>3. Line(<<>>, <<>>, IntervalIn) = <<>>
  BY IntervalPlaces, LineEmpty
<1>4. ASSUME NEW s \in Stations PROVE WriterLine(s, <<>>, NewWriter, 0)
  <2>1. WriterIn(s, 0, NewWriter) /\ NewWriter.intervals = <<>>
    BY DEF WriterIn, StopOf, NewWriter
  <2>2. DueIntervals(s, NewWriter) = IntervalsAfter(s, 0)
    BY <1>2, <2>1, WriterDue
  <2> QED BY <1>2, <1>3, <2>1, <2>2, ChainEmpty DEF WriterLine, InAScan
<1>5. ASSUME NEW s \in Stations PROVE ReaderLine(s, <<>>, <<NoInterval>>, 0, 0)
  <2>1. ReaderIn(s, 0, <<NoInterval>>, 0)
    BY DEF ReaderIn
  <2>2. DueReading(s, <<NoInterval>>, 0) = IntervalsAfter(s, 0)
    BY <1>2, <2>1, ReaderDue
  <2>3. <<NoInterval>> \in Seq(Pairs) /\ <<NoInterval>> # <<>> /\ Len(<<NoInterval>>) = 1
    BY DEF Pairs, NoInterval
  <2>4. ReaderIntervals(<<NoInterval>>) \in Seq(Pairs) /\ Len(ReaderIntervals(<<NoInterval>>)) = 0
    <3>1. PICK R \in Seq(Pairs) : R = <<NoInterval>> /\ R # <<>> /\ Len(R) = 1
      BY <2>3
    <3>2. ReaderIntervals(R) \in Seq(Pairs) /\ Len(ReaderIntervals(R)) = Len(R) - 1
      BY <3>1, ReaderType
    <3>3. ReaderIntervals(R) \in Seq(Pairs) /\ Len(ReaderIntervals(R)) = 0
      BY <3>1, <3>2
    <3> QED BY <3>1, <3>3
  <2>5. ReaderIntervals(<<NoInterval>>) = <<>>
    BY <2>4
  <2> QED BY <1>2, <1>3, <2>1, <2>2, <2>5, ChainEmpty DEF ReaderLine, InReading
<1>6. WritersAlive
  BY <1>1 DEF WritersAlive, Alive
<1>7. WriterClocks
  BY <1>1, <1>4 DEF WriterClocks
<1>8. ReaderClocks
  BY <1>1, <1>5 DEF ReaderClocks
<1>9. ManagerClock
  BY <1>1, <1>2 DEF ManagerClock
<1> QED BY <1>6, <1>7, <1>8, <1>9 DEF Clocks

LEMMA ManagerClockNext ==
  ASSUME Types, ManagerStep, ManagerClock
  PROVE  ManagerClock'
<1>1. CASE StartNewScan
  <2>1. PICK S \in SUBSET Stations, a \in Messages, b \in Messages :
           /\ Send(S, <<a, b>>) /\ S = Scans[mScan'].stations
           /\ a.type = "TRACK_PARAMETERS" /\ b.type = "SET_TIME"
           /\ b.start = Scans[mScan'].start /\ b.stop = Scans[mScan'].stop
           /\ mScan' \in 0 .. Len(Scans) /\ mTime' \in Nat /\ mChannels' = Channels
    BY <1>1, SupplyAssumption, NewScanFacts, Zenon
  <2>2. mTime' = Scans[mScan'].start
    BY <1>1 DEF StartNewScan
  <2>3. mScan' \in DOMAIN Scans => Aligned(mScan', mTime')
    BY <2>2, AlignedStart
  <2>4. mChannels' = Channels
    BY <2>1
  <2> QED BY <2>3, <2>4 DEF ManagerClock, Aligned
<1>2. CASE StartCorrelatorNode
  <2>1. PICK S \in SUBSET Stations, m \in Messages, c \in Nodes, g \in SlicesGiven :
            /\ Send(S, <<m>>) /\ m.type = "ADD_TIME_SLICE" /\ m.stream = c
            /\ g.stations = S /\ handed' = [handed EXCEPT ![c] = Append(@, g)]
            /\ ready # <<>> /\ c = ready[1] /\ ready' = Tail(ready)
            /\ mScan \in 1 .. Len(Scans)
            /\ mTime' \in Nat /\ mChannels' \in SUBSET Channels /\ mChannels' # {}
            /\ m.channel = g.channel /\ S = Scans[mScan].stations
            /\ g.channel \in mChannels /\ g.time = mTime
            /\ IF mChannels = {g.channel}
               THEN mTime' = mTime + IntegrationUnits /\ mChannels' = Channels
               ELSE mTime' = mTime /\ mChannels' = mChannels \ {g.channel}
    BY <1>2, InputNodeAssumption, SupplyAssumption, HandOutFacts, Zenon
  <2>2. mScan \in DOMAIN Scans /\ ~(mTime >= Scans[mScan].stop) /\ mScan' = mScan
    BY <1>2 DEF StartCorrelatorNode, SliceDone
  <2>3. mTime \in Int
    BY DEF Types, SupplyTypes
  <2>4. mTime < Scans[mScan].stop
    BY <2>2, <2>3, ScanRange
  <2>5. Aligned(mScan, mTime)
    BY <2>2 DEF ManagerClock
  <2>6. Aligned(mScan, mTime + IntegrationUnits)
    BY <2>2, <2>3, <2>4, <2>5, AlignedNext
  <2>7. CASE mChannels = {g.channel}
    <3>1. mTime' = mTime + IntegrationUnits /\ mChannels' = Channels
      BY <2>1, <2>7
    <3> QED BY <2>2, <2>6, <3>1 DEF ManagerClock, Aligned
  <2>8. CASE mChannels # {g.channel}
    <3>1. mTime' = mTime
      BY <2>1, <2>8
    <3> QED BY <2>2, <2>4, <2>5, <3>1 DEF ManagerClock, Aligned
  <2> QED BY <2>7, <2>8
<1>3. CASE EndNodes
  <2>1. mScan' = Len(Scans) + 1
    BY <1>3 DEF EndNodes
  <2>2. mScan' \notin DOMAIN Scans
    BY <2>1, ScanRange
  <2> QED BY <2>2 DEF ManagerClock
<1> QED BY <1>1, <1>2, <1>3 DEF ManagerStep

\* No writer takes part in its station when this does not.
LEMMA AliveNext ==
  ASSUME Types, WriterStates, WritersAlive, NEW r \in Stations, InputStep(r)
  PROVE  WritersAlive'
<1>1. SUFFICES ASSUME NEW s \in Stations, NEW ch \in Channels, writer'[s][ch].pc # "cancelled"
               PROVE  Alive(s)'
  BY DEF WritersAlive
<1>2. InputTypes /\ writer \in [Stations -> [Channels -> Writers]]
  BY DEF Types, InputTypes
<1>3. ASSUME iStatus'[s] = iStatus[s], writer[s][ch].pc # "cancelled"
      PROVE  Alive(s)'
  BY <1>3 DEF WritersAlive, Alive
<1>4. CASE s # r
  <2>1. iStatus'[s] = iStatus[s] /\ writer'[s] = writer[s]
    BY <1>2, <1>4, OtherStation
  <2> QED BY <1>1, <1>3, <2>1
<1>5. CASE s = r /\ ReceiveParameters(s)
  BY <1>5 DEF ReceiveParameters, Alive, Types, InputTypes
<1>6. CASE s = r /\ (ReceiveTimeInterval(s) \/ ReceiveTimeSlice(s))
  <2>1. iStatus' = iStatus /\ iStatus[s] \in {"WAITING", "WRITING"}
    BY <1>6 DEF ReceiveTimeInterval, ReceiveTimeSlice, Takes
  <2> QED BY <2>1, SMTT(30) DEF Alive
<1>7. CASE s = r /\ ReceiveEndNode(s)
  <2>1. writer'[s][ch] = [writer[s][ch] EXCEPT !.pc = "cancelled"]
    BY <1>2, <1>7, CancelFacts
  <2>2. writer[s][ch] \in Writers
    BY <1>2
  <2>3. writer'[s][ch].pc = "cancelled"
    BY <2>1, <2>2 DEF Writers
  <2> QED BY <1>1, <2>3
<1>8. CASE s = r /\ Terminated(s)
  <2>1. writer' = writer /\ iStatus[s] = "TERMINATING"
    BY <1>8 DEF Terminated
  <2> QED BY <1>1, <2>1 DEF WritersAlive, Alive
<1>9. CASE s = r /\ ReaderStep(s)
  <2>1. writer' = writer /\ iStatus' = iStatus
    BY <1>9 DEF ReaderStep, ReadBlocks, NextInterval
  <2> QED BY <1>1, <1>3, <2>1
<1>10. ASSUME NEW d \in Channels, WriterStep(s, d)
       PROVE  Alive(s)'
  <2>1. /\ iStatus' = iStatus
        /\ \A e \in Channels :
              writer'[s][e] = writer[s][e] \/ Worked(writer[s][e], writer'[s][e])
    BY <1>2, <1>10, WriterSeen
  <2>2. writer[s][ch].pc # "cancelled"
    BY <1>1, <2>1 DEF Worked, Fetched, Found, Begun, Written, Ended
  <2> QED BY <1>3, <2>1, <2>2
<1> QED BY <1>4, <1>5, <1>6, <1>7, <1>8, <1>9, <1>10 DEF InputStep, MessageStep, WriterStep

LEMMA ClocksNext ==
  ASSUME Types, Types', WriterStates, Clocks, [Next]_vars
  PROVE  Clocks'
<1>1. InputTypes /\ InputTypes'
  BY DEF Types
<1>2. CASE ManagerStep
  <2>1. UNCHANGED <<iStatus, reading, readTime, writer>>
    BY <1>2 DEF ManagerStep, StartNewScan, StartCorrelatorNode, EndNodes
  <2>2. mScan \in Nat
    BY ScanRange DEF Types, SupplyTypes
  <2>3. ASSUME NEW s \in Stations PROVE Mailing(s, mail[s], mail'[s], mScan, mScan')
    BY <1>2, ManagerMailing
  <2>4. ASSUME NEW s \in Stations PROVE mail[s] \in Seq(Messages) /\ mail'[s] \in Seq(Messages)
    BY <1>1 DEF InputTypes
  <2>5. WriterClocks'
    <3>1. SUFFICES ASSUME NEW s \in Stations, NEW ch \in Channels, Alive(s)
                   PROVE  WriterLine(s, mail'[s], writer[s][ch], mScan')
      BY <2>1 DEF WriterClocks, Alive
    <3>2. writer[s][ch] \in Writers
      BY <1>1 DEF InputTypes
    <3>3. WriterLine(s, mail[s], writer[s][ch], mScan)
      BY <3>1 DEF Clocks, WriterClocks
    <3> QED BY <2>2, <2>3, <2>4, <3>2, <3>3, WriterLineMailed
  <2>6. ReaderClocks'
    <3>1. SUFFICES ASSUME NEW s \in Stations, Alive(s)
                   PROVE  ReaderLine(s, mail'[s], reading[s], readTime[s], mScan')
      BY <2>1 DEF ReaderClocks, Alive
    <3>2. reading[s] \in Seq(Pairs)
      BY <1>1 DEF InputTypes, Pairs
    <3>3. ReaderLine(s, mail[s], reading[s], readTime[s], mScan)
      BY <3>1 DEF Clocks, ReaderClocks
    <3> QED BY <2>2, <2>3, <2>4, <3>2, <3>3, ReaderLineMailed
  <2>7. WritersAlive'
    BY <2>1 DEF Clocks, WritersAlive, Alive
  <2>8. ManagerClock'
    BY <1>2, ManagerClockNext DEF Clocks
  <2> QED BY <2>5, <2>6, <2>7, <2>8 DEF Clocks
<1>3. ASSUME UNCHANGED <<mail, iStatus, reading, readTime, writer, mScan, mTime, mChannels>>
      PROVE  Clocks'
  BY <1>3 DEF Clocks, WritersAlive, WriterClocks, ReaderClocks, ManagerClock, Alive
<1>4. ASSUME NEW c \in Nodes, NodeStep(c)
      PROVE  Clocks'
  <2>1. UNCHANGED <<mail, iStatus, reading, readTime, writer, mScan, mTime, mChannels>>
    BY <1>4 DEF NodeStep, Correlate, Request, FinishSlice, iVars
  <2> QED BY <1>3, <2>1
<1>5. ASSUME NEW r \in Stations, InputStep(r)
      PROVE  Clocks'
  <2>1. mScan' = mScan /\ mTime' = mTime /\ mChannels' = mChannels
    BY <1>5 DEF InputStep, sVars
  <2>2. ManagerClock'
    BY <2>1 DEF Clocks, ManagerClock
  <2>3. WritersAlive'
    BY <1>5, AliveNext DEF Clocks
  <2>4. ASSUME NEW s \in Stations PROVE mail[s] \in Seq(Messages) /\ mail'[s] \in Seq(Messages)
    BY <1>1 DEF InputTypes
  <2>5. WriterClocks'
    <3>1. SUFFICES ASSUME NEW s \in Stations, NEW ch \in Channels, Alive(s)'
                   PROVE  WriterLine(s, mail'[s], writer'[s][ch], mScan)
      BY <2>1 DEF WriterClocks
    <3>2. writer[s][ch] \in Writers /\ writer'[s][ch] \in Writers
      BY <1>1 DEF InputTypes
    <3>3. Alive(s) /\ Seen(ch, mail[s], mail'[s], writer[s][ch], writer'[s][ch])
      BY <1>1, <1>5, <3>1, StationSeen
    <3>4. WriterLine(s, mail[s], writer[s][ch], mScan)
      BY <3>3 DEF Clocks, WriterClocks
    <3> QED BY <2>4, <3>2, <3>3, <3>4, WriterLineSeen
  <2>6. ReaderClocks'
    <3>1. SUFFICES ASSUME NEW s \in Stations, Alive(s)'
                   PROVE  ReaderLine(s, mail'[s], reading'[s], readTime'[s], mScan)
      BY <2>1 DEF ReaderClocks
    <3>2. reading[s] \in Seq(Pairs) /\ readTime[s] \in Int
      BY <1>1 DEF InputTypes, Pairs
    <3>3. ReadingSeen(mail[s], mail'[s], reading[s], reading'[s], readTime[s], readTime'[s])
      BY <1>1, <1>5, <3>1, StationReading
    <3>4. Alive(s)
      BY <1>1, <1>5, <3>1, StationSeen
    <3>5. ReaderLine(s, mail[s], reading[s], readTime[s], mScan)
      BY <3>4 DEF Clocks, ReaderClocks
    <3> QED BY <2>4, <3>2, <3>3, <3>5, ReaderLineSeen
  <2> QED BY <2>2, <2>3, <2>5, <2>6 DEF Clocks
<1>6. CASE UNCHANGED vars
  BY <1>3, <1>6 DEF vars, iVars, sVars
<1> QED BY <1>2, <1>4, <1>5, <1>6 DEF Next

-----------------------------------------------------------------------------
\* The slice of a node with the slices h that waits at station s, when one does, is the last
\* the station has data of.
LastOf(h, s) == IF Len(h) = 2 /\ s \in h[2].stations THEN h[2] ELSE h[1]

\* The times of the slices of channel ch that wait at a station, where T gives that of each
\* node: those that writer w has not begun, and those in the mail.
NodeTimes == [Nodes -> Int]
QueueTimes(w, T) ==
  [i \in DOMAIN w.slices |-> IF Waits(w, i, w.slices[i]) THEN T[w.slices[i]] ELSE -1]
TimeIn(ch, T) ==
  [m \in Messages |-> IF m.type = "ADD_TIME_SLICE"
                      THEN IF m.channel = ch THEN T[m.stream] ELSE -1
                      ELSE -1]
SliceLine(s, ch, M, w, T, Coming) ==
  Chain(Line(QueueTimes(w, T), M, TimeIn(ch, T)), Nat, DueTimes(s, w), AfterTime(s), Coming)

LEMMA TimePlaces ==
  ASSUME NEW ch, NEW T \in NodeTimes
  PROVE  /\ TimeIn(ch, T) \in [Messages -> Int]
         /\ \A m \in Messages :
              /\ m.type # "ADD_TIME_SLICE" => TimeIn(ch, T)[m] = -1
              /\ m.type = "ADD_TIME_SLICE" /\ m.channel # ch => TimeIn(ch, T)[m] = -1
              /\ m.type = "ADD_TIME_SLICE" /\ m.channel = ch => TimeIn(ch, T)[m] = T[m.stream]
<1>1. \A m \in Messages : m.type = "ADD_TIME_SLICE" => T[m.stream] \in Int
  BY SliceMessage DEF NodeTimes
<1> QED BY <1>1 DEF TimeIn

LEMMA QueueType ==
  ASSUME NEW w \in Writers, NEW T \in NodeTimes
  PROVE  /\ QueueTimes(w, T) \in Seq(Int) /\ Len(QueueTimes(w, T)) = Len(w.slices)
         /\ w.slices \in Seq(Nodes)
         /\ \A i \in 1 .. Len(w.slices) :
              /\ (i = 1 /\ w.pc = "write") => QueueTimes(w, T)[i] = -1
              /\ ~(i = 1 /\ w.pc = "write") => QueueTimes(w, T)[i] = T[w.slices[i]]
<1>1. PICK L \in Seq(Nodes) : L = w.slices
  BY DEF Writers
<1>2. PICK n \in Nat : n = Len(L) /\ DOMAIN L = 1 .. n
  OBVIOUS
<1>3. \A i \in 1 .. n : T[L[i]] \in Int
  BY <1>2 DEF NodeTimes
<1>4. QueueTimes(w, T) = [i \in 1 .. n |-> IF ~(i = 1 /\ w.pc = "write") THEN T[L[i]] ELSE -1]
  BY <1>1, <1>2 DEF QueueTimes, Waits
<1>5. QueueTimes(w, T) \in [1 .. n -> Int]
  BY <1>3, <1>4
<1>6. QueueTimes(w, T) \in Seq(Int) /\ Len(QueueTimes(w, T)) = n
  BY <1>5
<1> QED BY <1>1, <1>2, <1>4, <1>6

\* The queue of a writer that goes on with the same slice, that gets one, and that ends one.
LEMMA TimesSame ==
  ASSUME NEW w \in Writers, NEW v \in Writers, NEW T \in NodeTimes, v.slices = w.slices,
         v.pc = "write" <=> w.pc = "write"
  PROVE  QueueTimes(v, T) = QueueTimes(w, T)
BY DEF QueueTimes, Waits

LEMMA TimesAdded ==
  ASSUME NEW w \in Writers, NEW v \in Writers, NEW T \in NodeTimes, NEW e \in Nodes,
         v.slices = Append(w.slices, e), v.pc = w.pc, w.pc = "write" => w.slices # <<>>
  PROVE  QueueTimes(v, T) = Append(QueueTimes(w, T), T[e])
<1>1. PICK Q \in Seq(Int), K \in Seq(Int), L \in Seq(Nodes), A \in Seq(Nodes) :
        Q = QueueTimes(w, T) /\ K = QueueTimes(v, T) /\ L = w.slices /\ A = v.slices
  BY QueueType
<1>2. PICK n \in Nat : n = Len(L)
  OBVIOUS
<1>3. A = Append(L, e)
  BY <1>1
<1>4. Len(A) = n + 1 /\ A[n + 1] = e /\ \A i \in 1 .. n : A[i] = L[i]
  BY <1>2, <1>3
<1>5. Len(Q) = n /\ Len(K) = n + 1
  BY <1>1, <1>2, <1>4, QueueType
<1>6. T[e] \in Int
  BY DEF NodeTimes
<1>7. PICK J \in Seq(Int) : J = Append(Q, T[e])
  <2>1. Append(Q, T[e]) \in Seq(Int)
    BY <1>6
  <2> QED BY <2>1
<1>8. Len(J) = n + 1 /\ J[n + 1] = T[e] /\ \A i \in 1 .. n : J[i] = Q[i]
  BY <1>5, <1>6, <1>7
<1>9. n = 0 => w.pc # "write"
  <2>1. Len(L) = 0 => L = <<>>
    BY EmptySeq
  <2> QED BY <1>1, <1>2, <2>1
<1>10. K[n + 1] = T[e]
  <2>1. n + 1 \in 1 .. Len(A) /\ ~(n + 1 = 1 /\ v.pc = "write")
    BY <1>2, <1>4, <1>9
  <2>2. K[n + 1] = T[A[n + 1]]
    BY <1>1, <2>1, QueueType
  <2> QED BY <1>4, <2>2
<1>11. \A i \in 1 .. n : K[i] = Q[i]
  <2> SUFFICES ASSUME NEW i \in 1 .. n PROVE K[i] = Q[i]
    OBVIOUS
  <2>1. i \in 1 .. Len(A) /\ i \in 1 .. Len(L)
    BY <1>2, <1>4
  <2>2. (i = 1 /\ v.pc = "write" => K[i] = -1) /\ (~(i = 1 /\ v.pc = "write") => K[i] = T[A[i]])
    BY <1>1, <2>1, QueueType
  <2>3. (i = 1 /\ w.pc = "write" => Q[i] = -1) /\ (~(i = 1 /\ w.pc = "write") => Q[i] = T[L[i]])
    BY <1>1, <2>1, QueueType
  <2> QED BY <1>4, <2>2, <2>3
<1>12. Len(K) = Len(J) /\ \A i \in 1 .. Len(J) : K[i] = J[i]
  BY <1>5, <1>8, <1>10, <1>11
<1>13. K = J
  BY <1>12, SameLine
<1> QED BY <1>1, <1>7, <1>13

LEMMA TimesEnded ==
  ASSUME NEW w \in Writers, NEW v \in Writers, NEW T \in NodeTimes,
         w.slices # <<>>, v.slices = Tail(w.slices), w.pc = "write", v.pc = "idle"
  PROVE  /\ QueueTimes(w, T) # <<>> /\ QueueTimes(w, T)[1] = -1
         /\ QueueTimes(v, T) = Tail(QueueTimes(w, T))
<1>1. PICK Q \in Seq(Int), K \in Seq(Int), L \in Seq(Nodes), A \in Seq(Nodes) :
        Q = QueueTimes(w, T) /\ K = QueueTimes(v, T) /\ L = w.slices /\ A = v.slices
  BY QueueType
<1>2. PICK n \in Nat : n = Len(L) /\ n > 0
  BY <1>1
<1>3. A = Tail(L) /\ L # <<>>
  BY <1>1
<1>4. Len(A) = n - 1 /\ \A i \in 1 .. n - 1 : A[i] = L[i + 1]
  BY <1>2, <1>3, HeadTailProperties
<1>5. Len(Q) = n /\ Len(K) = n - 1
  BY <1>1, <1>2, <1>4, QueueType
<1>6. Q # <<>>
  BY <1>2, <1>5
<1>7. PICK J \in Seq(Int) : J = Tail(Q)
  <2>1. Tail(Q) \in Seq(Int)
    BY <1>6
  <2> QED BY <2>1
<1>8. Len(J) = n - 1 /\ \A i \in 1 .. n - 1 : J[i] = Q[i + 1]
  BY <1>5, <1>6, <1>7, HeadTailProperties
<1>9. Q[1] = -1
  <2>1. 1 \in 1 .. Len(L)
    BY <1>2
  <2> QED BY <1>1, <2>1, QueueType
<1>10. \A i \in 1 .. n - 1 : K[i] = J[i]
  <2> SUFFICES ASSUME NEW i \in 1 .. n - 1 PROVE K[i] = J[i]
    OBVIOUS
  <2>1. i \in 1 .. Len(A) /\ i + 1 \in 1 .. Len(L) /\ i + 1 # 1
    BY <1>2, <1>4
  <2>2. K[i] = T[A[i]]
    BY <1>1, <2>1, QueueType
  <2>3. Q[i + 1] = T[L[i + 1]]
    BY <1>1, <2>1, QueueType
  <2> QED BY <1>4, <1>8, <2>2, <2>3
<1>11. K = J
  BY <1>5, <1>8, <1>10, SameLine
<1> QED BY <1>1, <1>6, <1>7, <1>9, <1>11

\* The line of slices after each step of a station: T and what the manager hands out next, C,
\* are the same.
LEMMA SliceLineSame ==
  ASSUME NEW s, NEW ch, NEW M, NEW w \in Writers, NEW v \in Writers, NEW T \in NodeTimes, NEW C,
         v.slices = w.slices, v.pc = "write" <=> w.pc = "write",
         \A k \in 0 .. Len(Scans) : WriterIn(s, k, w) => WriterIn(s, k, v) /\ Clock(v) = Clock(w),
         InAScan(s, w), SliceLine(s, ch, M, w, T, C)
  PROVE  SliceLine(s, ch, M, v, T, C)
<1>1. PICK k \in 0 .. Len(Scans) : WriterIn(s, k, w) /\ WriterIn(s, k, v) /\ Clock(v) = Clock(w)
  BY DEF InAScan
<1>2. DueTimes(s, v) = DueTimes(s, w)
  BY <1>1, WriterDue
<1>3. QueueTimes(v, T) = QueueTimes(w, T)
  BY TimesSame
<1> QED BY <1>2, <1>3 DEF SliceLine

LEMMA SliceLineMessage ==
  ASSUME NEW s, NEW ch, NEW M \in Seq(Messages), NEW N \in Seq(Messages),
         NEW w \in Writers, NEW v \in Writers, NEW T \in NodeTimes, NEW C,
         TookMessage(ch, M, N, w, v), w.pc = "write" => w.slices # <<>>,
         InAScan(s, w), SliceLine(s, ch, M, w, T, C)
  PROVE  SliceLine(s, ch, N, v, T, C)
<1>1. M # <<>> /\ N = Tail(M) /\ M[1] \in Messages
  BY DEF TookMessage
<1>2. v.pc = w.pc /\ v.time = w.time /\ v.stop = w.stop /\ v.start = w.start /\ v.left = w.left
  BY DEF TookMessage, GotInterval, GotSlice
<1>3. \A k \in 0 .. Len(Scans) : WriterIn(s, k, w) => WriterIn(s, k, v) /\ Clock(v) = Clock(w)
  BY <1>2, ClockSame
<1>4. PICK D : D = DueTimes(s, w) /\ D = DueTimes(s, v)
  BY <1>3, WriterDue DEF InAScan
<1>5. PICK Q \in Seq(Int) : Q = QueueTimes(w, T)
  BY QueueType
<1>6. Chain(Line(Q, M, TimeIn(ch, T)), Nat, D, AfterTime(s), C)
  BY <1>4, <1>5 DEF SliceLine
<1>7. TimeIn(ch, T) \in [Messages -> Int]
  BY TimePlaces
<1>8. CASE M[1].type = "ADD_TIME_SLICE" /\ M[1].channel = ch
  <2>1. PICK e \in Nodes : e = M[1].stream
    BY <1>1, <1>8, SliceMessage
  <2>2. v.slices = Append(w.slices, e)
    BY <1>8, <2>1 DEF TookMessage, GotSlice
  <2>3. QueueTimes(v, T) = Append(Q, T[e])
    BY <1>2, <1>5, <2>2, TimesAdded
  <2>4. TimeIn(ch, T)[M[1]] = T[e]
    BY <1>1, <1>8, <2>1, TimePlaces
  <2>5. Line(Append(Q, TimeIn(ch, T)[M[1]]), Tail(M), TimeIn(ch, T)) = Line(Q, M, TimeIn(ch, T))
    BY <1>1, <1>7, NextReceived
  <2> QED BY <1>1, <1>4, <1>6, <2>3, <2>4, <2>5 DEF SliceLine
<1>9. CASE ~(M[1].type = "ADD_TIME_SLICE" /\ M[1].channel = ch)
  <2>1. TimeIn(ch, T)[M[1]] \notin Nat
    <3>1. TimeIn(ch, T)[M[1]] = -1
      BY <1>1, <1>9, TimePlaces
    <3> QED BY <3>1
  <2>2. Chain(Line(Q, Tail(M), TimeIn(ch, T)), Nat, D, AfterTime(s), C)
    BY <1>1, <1>6, <1>7, <2>1, OtherReceived
  <2>3. v.slices = w.slices
    BY <1>9 DEF TookMessage, GotInterval
  <2>4. QueueTimes(v, T) = Q
    BY <1>2, <1>5, <2>3, TimesSame
  <2> QED BY <1>1, <1>4, <2>2, <2>4 DEF SliceLine
<1> QED BY <1>8, <1>9

LEMMA SliceLineFetched ==
  ASSUME NEW s, NEW ch, NEW M \in Seq(Messages), NEW w \in Writers, NEW v \in Writers,
         NEW T \in NodeTimes, NEW C, NEW n,
         Fetched(w, v), WriterLine(s, M, w, n), SliceLine(s, ch, M, w, T, C)
  PROVE  SliceLine(s, ch, M, v, T, C)
<1>1. PICK k \in 0 .. Len(Scans) : WriterIn(s, k, w)
  BY DEF WriterLine, InAScan
<1>2. DueIntervals(s, w) = IntervalsAfter(s, k) /\ DueTimes(s, w) = TimesFrom(s, k, Clock(w))
  BY <1>1, WriterDue
<1>3. PICK Q \in Seq(Pairs) : Q = w.intervals /\ Q # <<>>
  BY DEF Writers, Pairs, Fetched
<1>4. Chain(Line(Q, M, IntervalIn), Pairs, IntervalsAfter(s, k), AfterInterval(s), IntervalsAfter(s, n))
  BY <1>2, <1>3 DEF WriterLine
<1>5. PICK j \in DOMAIN Scans :
           /\ NextScan(s, k, j) /\ Q[1] = IntervalOf(j) /\ j \in 1 .. Len(Scans)
           /\ Chain(Line(Tail(Q), M, IntervalIn), Pairs, IntervalsAfter(s, j), AfterInterval(s),
                    IntervalsAfter(s, n))
  BY <1>3, <1>4, IntervalServed
<1>6. w.intervals[1] = IntervalOf(j)
  BY <1>3, <1>5
<1>7. WriterIn(s, j, v) /\ Clock(v) = Scans[j].start
  <2>1. NextScan(s, k, j)
    BY <1>5
  <2>2. WriterIn(s, j, v)
    BY <1>1, <1>6, <2>1, ClockFetched
  <2>3. Clock(v) = Scans[j].start
    BY <1>6 DEF Fetched, Clock, IntervalOf
  <2> QED BY <2>2, <2>3
<1>8. j \in 0 .. Len(Scans) /\ j # 0
  BY <1>5
<1>9. DueTimes(s, v) = TimesFrom(s, j, Scans[j].start)
  BY <1>7, <1>8, WriterDue
<1>10. TimesFrom(s, j, Scans[j].start) = {Scans[j].start}
  BY <1>5, <1>8, ScanRange DEF TimesFrom, StopOf
<1>11. TimesFrom(s, k, Clock(w)) = {Scans[j].start}
  <2>1. Clock(w) = w.time /\ w.time >= w.stop /\ w.stop = StopOf(k)
    BY <1>1 DEF Fetched, Clock, WriterIn
  <2>2. w.time \in Int /\ w.stop \in Int
    BY DEF Writers
  <2>3. ~(Clock(w) < StopOf(k))
    BY <2>1, <2>2
  <2>4. StartsAfter(s, k) = {Scans[j].start}
    BY <1>5, StartAfter
  <2> QED BY <2>3, <2>4 DEF TimesFrom
<1>12. v.slices = w.slices /\ v.pc = w.pc
  BY DEF Fetched
<1>13. QueueTimes(v, T) = QueueTimes(w, T)
  BY <1>12, TimesSame
<1>14. DueTimes(s, v) = DueTimes(s, w)
  BY <1>2, <1>9, <1>10, <1>11
<1> QED BY <1>13, <1>14 DEF SliceLine

\* The slice that a writer begins is of the time of its clock.
LEMMA SliceLineBegun ==
  ASSUME NEW s, NEW ch, NEW M \in Seq(Messages), NEW w \in Writers, NEW v \in Writers,
         NEW T \in NodeTimes, NEW C, Begun(w, v), w.slices # <<>>, T[w.slices[1]] \in Nat,
         InAScan(s, w), SliceLine(s, ch, M, w, T, C)
  PROVE  T[w.slices[1]] = w.time /\ SliceLine(s, ch, M, v, T, C)
<1>1. PICK k \in 0 .. Len(Scans) : WriterIn(s, k, w)
  BY DEF InAScan
<1>2. /\ WriterIn(s, k, v) /\ Clock(w) = w.time /\ w.time < w.stop
      /\ Clock(v) = w.time + IntegrationUnits
  <2>1. WriterIn(s, k, v)
    BY <1>1, ClockBegun
  <2>2. Clock(w) = w.time /\ w.time < w.stop
    BY <1>1, ClockBegun
  <2>3. Clock(v) = w.time + IntegrationUnits
    BY DEF Begun, Clock
  <2> QED BY <2>1, <2>2, <2>3
<1>3. DueTimes(s, w) = {w.time} /\ DueTimes(s, v) = TimesFrom(s, k, w.time + IntegrationUnits)
  <2>1. DueTimes(s, w) = TimesFrom(s, k, w.time) /\ DueTimes(s, v) = TimesFrom(s, k, w.time + IntegrationUnits)
    BY <1>1, <1>2, WriterDue
  <2>2. w.time < StopOf(k)
    BY <1>1, <1>2 DEF WriterIn
  <2> QED BY <2>1, <2>2 DEF TimesFrom
<1>4. PICK Q \in Seq(Int), K \in Seq(Int), L \in Seq(Nodes) :
        Q = QueueTimes(w, T) /\ K = QueueTimes(v, T) /\ L = w.slices /\ L = v.slices
  BY QueueType DEF Begun
<1>5. PICK m \in Nat : m = Len(L) /\ m > 0 /\ 1 \in 1 .. Len(L)
  <2>1. L # <<>>
    BY <1>4
  <2> QED BY <2>1, EmptySeq
<1>6. Len(Q) = m /\ Len(K) = m
  BY <1>4, <1>5, QueueType
<1>7. w.pc = "found" /\ v.pc = "write"
  BY DEF Begun
<1>17. \A i \in 1 .. Len(L) : ~(i = 1 /\ w.pc = "write") => Q[i] = T[L[i]]
  <2>1. \A i \in 1 .. Len(w.slices) : ~(i = 1 /\ w.pc = "write") => QueueTimes(w, T)[i] = T[w.slices[i]]
    BY QueueType
  <2> QED BY <1>4, <2>1
<1>18. \A i \in 1 .. Len(L) : /\ ~(i = 1 /\ v.pc = "write") => K[i] = T[L[i]]
                              /\ (i = 1 /\ v.pc = "write") => K[i] = -1
  <2>1. \A i \in 1 .. Len(v.slices) :
          /\ ~(i = 1 /\ v.pc = "write") => QueueTimes(v, T)[i] = T[v.slices[i]]
          /\ (i = 1 /\ v.pc = "write") => QueueTimes(v, T)[i] = -1
    BY QueueType
  <2> QED BY <1>4, <2>1
<1>8. Q[1] = T[L[1]] /\ K[1] = -1 /\ Q # <<>>
  <2>1. Q[1] = T[L[1]]
    BY <1>5, <1>7, <1>17
  <2>2. K[1] = -1
    BY <1>5, <1>7, <1>18
  <2> QED BY <1>5, <1>6, <2>1, <2>2
<1>9. \A i \in 2 .. Len(Q) : K[i] = Q[i]
  <2> SUFFICES ASSUME NEW i \in 2 .. Len(Q) PROVE K[i] = Q[i]
    OBVIOUS
  <2>1. i \in 1 .. Len(L) /\ i # 1
    BY <1>5, <1>6
  <2>2. K[i] = T[L[i]] /\ Q[i] = T[L[i]]
    BY <1>17, <1>18, <2>1
  <2> QED BY <2>2
<1>10. Q[1] \in Nat /\ K[1] \notin Nat
  BY <1>4, <1>8
<1>11. Chain(Line(Q, M, TimeIn(ch, T)), Nat, {w.time}, AfterTime(s), C)
  BY <1>3, <1>4 DEF SliceLine
<1>12. TimeIn(ch, T) \in [Messages -> Int]
  BY TimePlaces
<1>13. Len(K) = Len(Q)
  BY <1>6
<1>14. Q[1] \in {w.time} /\ Chain(Line(K, M, TimeIn(ch, T)), Nat, AfterTime(s)[Q[1]], AfterTime(s), C)
  BY <1>8, <1>9, <1>10, <1>11, <1>12, <1>13, QueueBegins
<1>15. Q[1] = w.time
  BY <1>14
<1>16. AfterTime(s)[w.time] = TimesFrom(s, k, w.time + IntegrationUnits)
  <2>1. k # 0
    BY <1>1, <1>7, WriterTime
  <2>2. k \in DOMAIN Scans /\ In(s, k) /\ w.stop = Scans[k].stop /\ Scans[k].start <= w.time
    BY <1>1, <2>1, WriterTime
  <2>3. w.time \in Nat
    BY <1>10, <1>15
  <2> QED BY <1>2, <2>2, <2>3, TimeAfter
<1> QED BY <1>3, <1>4, <1>8, <1>14, <1>15, <1>16 DEF SliceLine

LEMMA SliceLineEnded ==
  ASSUME NEW s, NEW ch, NEW M \in Seq(Messages), NEW w \in Writers, NEW v \in Writers,
         NEW T \in NodeTimes, NEW C, Ended(w, v), w.slices # <<>>,
         InAScan(s, w), SliceLine(s, ch, M, w, T, C)
  PROVE  SliceLine(s, ch, M, v, T, C)
<1>1. PICK k \in 0 .. Len(Scans) : WriterIn(s, k, w)
  BY DEF InAScan
<1>2. WriterIn(s, k, v) /\ Clock(v) = Clock(w)
  BY <1>1, ClockEnded
<1>3. DueTimes(s, v) = DueTimes(s, w)
  BY <1>1, <1>2, WriterDue
<1>4. PICK Q \in Seq(Int) : Q = QueueTimes(w, T)
  BY QueueType
<1>5. Q # <<>> /\ Q[1] = -1 /\ QueueTimes(v, T) = Tail(Q)
  BY <1>4, TimesEnded DEF Ended
<1>6. Q[1] \notin Nat
  BY <1>5
<1>7. TimeIn(ch, T) \in [Messages -> Int]
  BY TimePlaces
<1>8. Chain(Line(Q, M, TimeIn(ch, T)), Nat, DueTimes(s, w), AfterTime(s), C)
  BY <1>4 DEF SliceLine
<1>9. Chain(Line(Tail(Q), M, TimeIn(ch, T)), Nat, DueTimes(s, w), AfterTime(s), C)
  BY <1>5, <1>6, <1>7, <1>8, QueuePassed
<1> QED BY <1>3, <1>5, <1>9 DEF SliceLine

LEMMA SliceLineSeen ==
  ASSUME NEW s, NEW ch, NEW M \in Seq(Messages), NEW N \in Seq(Messages),
         NEW w \in Writers, NEW v \in Writers, NEW T \in NodeTimes, NEW C, NEW n,
         Seen(ch, M, N, w, v), w.pc \in {"found", "write"} => w.slices # <<>>,
         w.pc = "found" => T[w.slices[1]] \in Nat,
         WriterLine(s, M, w, n), SliceLine(s, ch, M, w, T, C)
  PROVE  SliceLine(s, ch, N, v, T, C)
<1>1. InAScan(s, w)
  BY DEF WriterLine
<1>2. CASE TookMessage(ch, M, N, w, v)
  BY <1>1, <1>2, SliceLineMessage
<1>3. CASE Fetched(w, v) /\ N = M
  BY <1>3, SliceLineFetched
<1>4. CASE Found(w, v) /\ N = M
  <2>1. w.time \in Int /\ v.slices = w.slices /\ (v.pc = "write" <=> w.pc = "write")
    BY <1>4 DEF Writers, Found
  <2>2. \A k \in 0 .. Len(Scans) : WriterIn(s, k, w) => WriterIn(s, k, v) /\ Clock(v) = Clock(w)
    BY <1>4, <2>1, ClockFound
  <2>3. (v.pc = "write") <=> (w.pc = "write")
    BY <2>1
  <2> QED BY <1>1, <1>4, <2>1, <2>2, <2>3, SliceLineSame
<1>5. CASE Begun(w, v) /\ N = M
  <2>1. w.pc = "found"
    BY <1>5 DEF Begun
  <2>2. w.slices # <<>> /\ T[w.slices[1]] \in Nat
    BY <2>1
  <2> QED BY <1>1, <1>5, <2>2, SliceLineBegun
<1>6. CASE Written(w, v) /\ N = M
  <2>1. v.slices = w.slices /\ (v.pc = "write" <=> w.pc = "write")
    BY <1>6 DEF Written
  <2>2. \A k \in 0 .. Len(Scans) : WriterIn(s, k, w) => WriterIn(s, k, v) /\ Clock(v) = Clock(w)
    BY <1>6, ClockWritten
  <2> QED BY <1>1, <1>6, <2>1, <2>2, SliceLineSame
<1>7. CASE Ended(w, v) /\ N = M
  <2>1. w.pc = "write"
    BY <1>7 DEF Ended
  <2>2. w.slices # <<>>
    BY <2>1
  <2> QED BY <1>1, <1>7, <2>2, SliceLineEnded
<1> QED BY <1>2, <1>3, <1>4, <1>5, <1>6, <1>7 DEF Seen, Worked

-----------------------------------------------------------------------------
\* What waits, and what is written, is owed.
LEMMA WaitingOwed ==
  ASSUME NumberFfts \in Nat, NEW M, NEW W \in [Channels -> Writers], NEW a, NEW L \in Nat,
         NEW owed \in Nat, NEW c, StreamOK(M, W, a, L, owed, c)
  PROVE  /\ Waiting(M, W, c) => owed >= NumberFfts + 1
         /\ \A ch \in Channels : Writes(W[ch], c) => owed >= L + W[ch].left + 1
         /\ \A ch \in Channels : Writes(W[ch], c) /\ Waiting(M, W, c) =>
              owed >= L + W[ch].left + NumberFfts + 2
<1>1. \A ch \in Channels : W[ch].left \in Nat
  BY DEF Writers
<1>2. PICK later \in Nat : later = IF Waiting(M, W, c) THEN NumberFfts + 1 ELSE 0
  OBVIOUS
<1>3. /\ \A ch \in Channels : Writes(W[ch], c) => L + W[ch].left + 1 + later = owed
      /\ (\A ch \in Channels : ~Writes(W[ch], c)) => L + later = owed
  BY <1>2 DEF StreamOK, Balance
<1>4. Waiting(M, W, c) => later = NumberFfts + 1
  BY <1>2
<1>5. ASSUME NEW ch \in Channels, Writes(W[ch], c)
      PROVE  owed >= L + W[ch].left + 1 /\ (Waiting(M, W, c) => owed >= L + W[ch].left + NumberFfts + 2)
  <2>1. PICK left \in Nat : left = W[ch].left
    BY <1>1
  <2>2. L + left + 1 + later = owed
    BY <1>3, <1>5, <2>1
  <2> QED BY <1>4, <2>1, <2>2
<1>6. ASSUME Waiting(M, W, c) PROVE owed >= NumberFfts + 1
  <2>1. CASE \E ch \in Channels : Writes(W[ch], c)
    <3>1. PICK ch \in Channels, left \in Nat : Writes(W[ch], c) /\ left = W[ch].left
      BY <1>1, <2>1
    <3>2. L + left + 1 + later = owed
      BY <1>3, <3>1
    <3> QED BY <1>4, <1>6, <3>2
  <2>2. CASE \A ch \in Channels : ~Writes(W[ch], c)
    BY <1>3, <1>4, <1>6, <2>2
  <2> QED BY <2>1, <2>2
<1> QED BY <1>5, <1>6

\* The slices of a node and what is owed of them to it.
LEMMA OwedSlices ==
  ASSUME NumberFfts \in Nat, NEW h \in Seq(SlicesGiven), Len(h) \in {0, 1, 2},
         NEW f \in 0 .. NumberFfts, NEW s
  PROVE  /\ Owed(h, f, s) > 0 => h # <<>> /\ Len(h) \in {1, 2}
         /\ Len(h) = 1 => LastOf(h, s) = h[1] /\ Owed(h, f, s) = OwedOf(h[1], s, f)
         /\ Len(h) = 2 /\ s \in h[2].stations =>
              LastOf(h, s) = h[2] /\ Owed(h, f, s) = OwedOf(h[1], s, f) + NumberFfts + 1
         /\ Len(h) = 2 /\ s \notin h[2].stations =>
              LastOf(h, s) = h[1] /\ Owed(h, f, s) = OwedOf(h[1], s, f)
         /\ OwedOf(h[1], s, f) \in 0 .. NumberFfts + 1
         /\ s \notin h[1].stations => OwedOf(h[1], s, f) = 0
         /\ s \in h[1].stations => OwedOf(h[1], s, f) = NumberFfts + 1 - f
<1>1. PICK n \in {0, 1, 2} : n = Len(h)
  OBVIOUS
<1>2. /\ OwedOf(h[1], s, f) \in 0 .. NumberFfts + 1
      /\ s \notin h[1].stations => OwedOf(h[1], s, f) = 0
      /\ s \in h[1].stations => OwedOf(h[1], s, f) = NumberFfts + 1 - f
  BY DEF OwedOf
<1>3. Owed(h, f, s) > 0 => h # <<>> /\ Len(h) \in {1, 2}
  <2>1. Len(h) = 0 => Owed(h, f, s) = 0
    BY DEF Owed
  <2>2. Len(h) # 0 => h # <<>>
    BY EmptySeq
  <2> QED BY <1>1, <2>1, <2>2
<1>4. Len(h) = 1 => LastOf(h, s) = h[1] /\ Owed(h, f, s) = OwedOf(h[1], s, f)
  BY <1>1 DEF LastOf, Owed
<1>5. Len(h) = 2 => Owed(h, f, s) = OwedOf(h[1], s, f) + OwedOf(h[2], s, 0)
  BY <1>1 DEF Owed
<1>6. /\ s \in h[2].stations => OwedOf(h[2], s, 0) = NumberFfts + 1
      /\ s \notin h[2].stations => OwedOf(h[2], s, 0) = 0
  BY DEF OwedOf
<1>7. Len(h) = 2 /\ s \in h[2].stations =>
              LastOf(h, s) = h[2] /\ Owed(h, f, s) = OwedOf(h[1], s, f) + NumberFfts + 1
  BY <1>2, <1>5, <1>6 DEF LastOf
<1>8. Len(h) = 2 /\ s \notin h[2].stations =>
              LastOf(h, s) = h[1] /\ Owed(h, f, s) = OwedOf(h[1], s, f)
  BY <1>2, <1>5, <1>6 DEF LastOf
<1> QED BY <1>2, <1>3, <1>4, <1>7, <1>8

\* The streams of a station, in every state of the invariant.
LEMMA StreamState ==
  ASSUME SInv, NEW s \in Stations, NEW c \in Nodes
  PROVE  \E M \in Seq(Messages), W \in [Channels -> Writers], a \in BOOLEAN, L \in Nat,
            h \in Seq(SlicesGiven), f \in 0 .. NumberFfts, owed \in Nat :
           /\ M = mail[s] /\ W = writer[s] /\ a = active[s][c] /\ L = Len(wire[s][c])
           /\ h = handed[c] /\ f = fft[c] /\ owed = Owed(h, f, s)
           /\ Len(h) \in {0, 1, 2} /\ StreamOK(M, W, a, L, owed, c)
<1>1. NumberFfts \in Nat /\ Owed(handed[c], fft[c], s) \in Nat /\ Len(wire[s][c]) \in Nat
  BY InputNodeAssumption, StreamNumbers DEF SInv
<1>2. /\ mail[s] \in Seq(Messages) /\ writer[s] \in [Channels -> Writers] /\ active[s][c] \in BOOLEAN
      /\ handed[c] \in Seq(SlicesGiven) /\ fft[c] \in 0 .. NumberFfts
  BY DEF SInv, Types, InputTypes, SupplyTypes
<1>3. Len(handed[c]) \in {0, 1, 2}
  <2>1. handed[c] = <<>> => Len(handed[c]) = 0
    OBVIOUS
  <2> QED BY <2>1 DEF SInv, Requests
<1>4. StreamOK(mail[s], writer[s], active[s][c], Len(wire[s][c]), Owed(handed[c], fft[c], s), c)
  BY DEF SInv, Streams, StreamOf
<1> QED BY <1>1, <1>2, <1>3, <1>4

\* The slice that waits is the last that the node was given.
LEMMA WaitsForLast ==
  ASSUME SInv, NEW s \in Stations, NEW c \in Nodes, Waiting(mail[s], writer[s], c)
  PROVE  /\ handed[c] # <<>> /\ Len(handed[c]) \in {1, 2}
         /\ LastOf(handed[c], s) \in SlicesGiven
         /\ \/ Len(handed[c]) = 2 /\ s \in handed[c][2].stations
            \/ s \in handed[c][1].stations /\ fft[c] = 0
<1>1. PICK M \in Seq(Messages), W \in [Channels -> Writers], a \in BOOLEAN, L \in Nat,
           h \in Seq(SlicesGiven), f \in 0 .. NumberFfts, owed \in Nat :
           /\ M = mail[s] /\ W = writer[s] /\ a = active[s][c] /\ L = Len(wire[s][c])
           /\ h = handed[c] /\ f = fft[c] /\ owed = Owed(h, f, s)
           /\ Len(h) \in {0, 1, 2} /\ StreamOK(M, W, a, L, owed, c)
  BY StreamState, Zenon
<1>2. NumberFfts \in Nat /\ f \in Nat
  BY InputNodeAssumption
<1>3. owed >= NumberFfts + 1
  <2>1. Waiting(M, W, c)
    BY <1>1
  <2> QED BY <1>1, <1>2, <2>1, WaitingOwed
<1>4. h # <<>> /\ Len(h) \in {1, 2}
  <2>1. Owed(h, f, s) > 0
    BY <1>1, <1>2, <1>3
  <2> QED BY <1>1, <1>2, <2>1, OwedSlices
<1>5. LastOf(h, s) \in SlicesGiven
  BY <1>4 DEF LastOf
<1>6. PICK o \in 0 .. NumberFfts + 1 : o = OwedOf(h[1], s, f)
  BY <1>1, <1>2, OwedSlices
<1>7. (Len(h) = 2 /\ s \in h[2].stations) \/ owed = o
  BY <1>1, <1>2, <1>4, <1>6, OwedSlices
<1>8. owed = o => s \in h[1].stations /\ f = 0
  <2>1. s \notin h[1].stations => o = 0
    BY <1>1, <1>2, <1>6, OwedSlices
  <2>2. s \in h[1].stations => o = NumberFfts + 1 - f
    BY <1>1, <1>2, <1>6, OwedSlices, SMTT(30)
  <2> QED BY <1>2, <1>3, <1>6, <2>1, <2>2
<1> QED BY <1>1, <1>4, <1>5, <1>7, <1>8

\* Node c is given the slice g, by the message m to the stations of the scan.
HandsOut(c, g, m) ==
  /\ m.type = "ADD_TIME_SLICE" /\ m.channel = g.channel /\ m.stream = c
  /\ handed' = [handed EXCEPT ![c] = Append(@, g)]
  /\ \A s \in Stations : mail'[s] = IF s \in g.stations THEN Append(mail[s], m) ELSE mail[s]
  /\ UNCHANGED <<writer, iStatus, wire, fft, mScan>>
  /\ mScan \in DOMAIN Scans /\ mTime \in Nat /\ mTime < Scans[mScan].stop
  /\ g.stations = Scans[mScan].stations /\ g.time = mTime /\ g.channel \in mChannels
  /\ \/ mChannels = {g.channel} /\ mTime' = mTime + IntegrationUnits /\ mChannels' = Channels
     \/ mTime' = mTime /\ mChannels' = mChannels \ {g.channel}

LEMMA HandingOut ==
  ASSUME SInv, StartCorrelatorNode
  PROVE  \E c \in Nodes, g \in SlicesGiven, m \in Messages :
           /\ HandsOut(c, g, m) /\ Len(handed[c]) \in {0, 1}
           /\ \A s \in Stations : ~Waiting(mail[s], writer[s], c)
<1>1. Types
  BY DEF SInv
<1>2. PICK S \in SUBSET Stations, m \in Messages, c \in Nodes, g \in SlicesGiven :
            /\ Send(S, <<m>>) /\ m.type = "ADD_TIME_SLICE" /\ m.stream = c
            /\ g.stations = S /\ handed' = [handed EXCEPT ![c] = Append(@, g)]
            /\ ready # <<>> /\ c = ready[1] /\ ready' = Tail(ready)
            /\ mScan \in 1 .. Len(Scans)
            /\ mTime' \in Nat /\ mChannels' \in SUBSET Channels /\ mChannels' # {}
            /\ m.channel = g.channel /\ S = Scans[mScan].stations
            /\ g.channel \in mChannels /\ g.time = mTime
            /\ IF mChannels = {g.channel}
               THEN mTime' = mTime + IntegrationUnits /\ mChannels' = Channels
               ELSE mTime' = mTime /\ mChannels' = mChannels \ {g.channel}
  BY <1>1, InputNodeAssumption, SupplyAssumption, HandOutFacts, Zenon
<1>3. ASSUME NEW s \in Stations
      PROVE  mail'[s] = IF s \in g.stations THEN Append(mail[s], m) ELSE mail[s]
  <2>1. mail \in [Stations -> Seq(Messages)] /\ <<m>> \in Seq(Messages)
    BY <1>1 DEF Types, InputTypes
  <2>2. /\ s \in S => mail'[s] = mail[s] \o <<m>>
        /\ s \notin S => mail'[s] = mail[s]
    BY <1>2, <2>1, SendFacts, ZenonT(60)
  <2>3. mail[s] \o <<m>> = Append(mail[s], m)
    BY <2>1, TwoAdded
  <2> QED BY <1>2, <2>2, <2>3
<1>4. UNCHANGED <<writer, iStatus, wire, fft, mScan>> /\ mScan \in DOMAIN Scans /\ ~SliceDone
  BY DEF StartCorrelatorNode
<1>5. mTime \in Nat /\ mTime < Scans[mScan].stop
  <2>1. mTime \in Nat
    BY <1>1 DEF Types, SupplyTypes
  <2> QED BY <1>4, <2>1, ScanRange DEF SliceDone
<1>6. \/ mChannels = {g.channel} /\ mTime' = mTime + IntegrationUnits /\ mChannels' = Channels
      \/ mTime' = mTime /\ mChannels' = mChannels \ {g.channel}
  BY <1>2
<1>7. HandsOut(c, g, m)
  BY <1>2, <1>3, <1>4, <1>5, <1>6 DEF HandsOut
<1>8. InReady(c)
  <2>1. 1 \in DOMAIN ready
    BY <1>1, <1>2 DEF Types, SupplyTypes
  <2> QED BY <1>2, <2>1 DEF InReady
<1>9. \A s \in Stations : ~Waiting(mail[s], writer[s], c)
  BY <1>8 DEF SInv, ReadyIdle
<1>10. Len(handed[c]) \in {0, 1}
  <2>1. handed[c] = <<>> => Len(handed[c]) = 0
    OBVIOUS
  <2> QED BY <1>8, <2>1 DEF SInv, Requests
<1> QED BY <1>7, <1>9, <1>10

\* The slices of node d, which is not c, and of c, when c is given the slice g.
LEMMA HandedTo ==
  ASSUME SInv, NEW c \in Nodes, NEW g \in SlicesGiven, NEW m, HandsOut(c, g, m)
  PROVE  /\ \A d \in Nodes \ {c} : handed'[d] = handed[d]
         /\ handed'[c] = Append(handed[c], g) /\ handed[c] \in Seq(SlicesGiven)
<1>1. handed \in [Nodes -> Seq(SlicesGiven)]
  BY DEF SInv, Types, SupplyTypes
<1> QED BY <1>1 DEF HandsOut

LEMMA LastHanded ==
  ASSUME NEW h \in Seq(SlicesGiven), Len(h) \in {0, 1}, NEW g \in SlicesGiven, NEW s
  PROVE  /\ Append(h, g) \in Seq(SlicesGiven) /\ Append(h, g) # <<>>
         /\ Len(Append(h, g)) = Len(h) + 1
         /\ s \in g.stations => LastOf(Append(h, g), s) = g
         /\ s \notin g.stations /\ Len(h) = 1 => LastOf(Append(h, g), s) = h[1]
         /\ Len(h) = 1 => Append(h, g)[1] = h[1] /\ Append(h, g)[2] = g
         /\ Len(h) = 0 => Append(h, g)[1] = g
<1>1. PICK n \in {0, 1} : n = Len(h)
  OBVIOUS
<1>2. Append(h, g) \in Seq(SlicesGiven) /\ Len(Append(h, g)) = n + 1 /\ Append(h, g)[n + 1] = g
      /\ \A i \in 1 .. n : Append(h, g)[i] = h[i]
  BY <1>1
<1>3. PICK k \in Seq(SlicesGiven) : k = Append(h, g)
  BY <1>2
<1>4. k # <<>>
  BY <1>1, <1>2, <1>3
<1>5. n = 0 => k[1] = g /\ Len(k) = 1
  BY <1>2, <1>3
<1>6. n = 1 => k[1] = h[1] /\ k[2] = g /\ Len(k) = 2
  BY <1>2, <1>3
<1>7. LastOf(k, s) = IF Len(k) = 2 /\ s \in k[2].stations THEN k[2] ELSE k[1]
  BY DEF LastOf
<1>8. s \in g.stations => LastOf(k, s) = g
  BY <1>1, <1>5, <1>6, <1>7
<1>9. s \notin g.stations /\ n = 1 => LastOf(k, s) = h[1]
  BY <1>6, <1>7
<1> QED BY <1>1, <1>2, <1>3, <1>4, <1>5, <1>6, <1>8, <1>9

LEMMA LastLeft ==
  ASSUME NEW h \in Seq(SlicesGiven), Len(h) \in {1, 2}, NEW s
  PROVE  /\ Tail(h) \in Seq(SlicesGiven) /\ Len(Tail(h)) = Len(h) - 1
         /\ Len(h) = 2 => Tail(h) # <<>> /\ Tail(h)[1] = h[2] /\ LastOf(Tail(h), s) = h[2]
         /\ Len(h) = 1 => Tail(h) = <<>>
<1>1. h # <<>>
  BY EmptySeq
<1>2. PICK k \in Seq(SlicesGiven) : k = Tail(h)
  <2>1. Tail(h) \in Seq(SlicesGiven)
    BY <1>1, HeadTailProperties
  <2> QED BY <2>1
<1>3. Len(k) = Len(h) - 1
  BY <1>1, <1>2, HeadTailProperties
<1>4. Len(h) = 2 => k # <<>> /\ k[1] = h[2]
  <2>1. Len(h) = 2 => 1 \in 1 .. Len(k)
    BY <1>3
  <2>2. \A i \in 1 .. Len(k) : k[i] = h[i + 1]
    BY <1>1, <1>2, <1>3, HeadTailProperties
  <2>3. Len(h) = 2 => k[1] = h[2]
    BY <2>1, <2>2
  <2>4. Len(k) # 0 => k # <<>>
    BY EmptySeq
  <2>5. Len(h) = 2 => Len(k) # 0
    BY <1>3
  <2> QED BY <2>3, <2>4, <2>5
<1>5. Len(h) = 1 => k = <<>>
  BY <1>3, EmptySeq
<1>6. Len(h) = 2 => LastOf(k, s) = h[2]
  BY <1>3, <1>4 DEF LastOf
<1> QED BY <1>2, <1>3, <1>4, <1>5, <1>6

\* What a slice that waits is does not change when another is handed out or done.
LEMMA StillLast ==
  ASSUME SInv, ManagerStep \/ \E d \in Nodes : NodeStep(d),
         NEW s \in Stations, NEW c \in Nodes, Waiting(mail[s], writer[s], c)
  PROVE  handed[c] # <<>> /\ handed'[c] # <<>> /\ LastOf(handed'[c], s) = LastOf(handed[c], s)
<1>1. /\ handed[c] # <<>> /\ Len(handed[c]) \in {1, 2}
      /\ \/ Len(handed[c]) = 2 /\ s \in handed[c][2].stations
         \/ s \in handed[c][1].stations /\ fft[c] = 0
  BY WaitsForLast
<1>2. handed \in [Nodes -> Seq(SlicesGiven)]
  BY DEF SInv, Types, SupplyTypes
<1>3. CASE StartNewScan \/ EndNodes
  BY <1>1, <1>3 DEF StartNewScan, EndNodes
<1>4. CASE StartCorrelatorNode
  <2>1. PICK e \in Nodes, g \in SlicesGiven, m \in Messages :
           /\ HandsOut(e, g, m) /\ Len(handed[e]) \in {0, 1}
           /\ \A r \in Stations : ~Waiting(mail[r], writer[r], e)
    BY <1>4, HandingOut
  <2>2. c # e
    BY <2>1
  <2>3. handed'[c] = handed[c]
    BY <2>1, <2>2, HandedTo
  <2> QED BY <1>1, <2>3
<1>5. ASSUME NEW d \in Nodes, Correlate(d) \/ Request(d)
      PROVE  handed' = handed
  BY <1>5 DEF Correlate, Request
<1>6. ASSUME NEW d \in Nodes, FinishSlice(d)
      PROVE  handed'[c] # <<>> /\ LastOf(handed'[c], s) = LastOf(handed[c], s)
  <2>1. CASE c # d
    <3>1. handed'[c] = handed[c]
      BY <1>2, <1>6, <2>1 DEF FinishSlice
    <3> QED BY <1>1, <3>1
  <2>2. CASE c = d
    <3>1. handed'[c] = Tail(handed[c]) /\ fft[c] = NumberFfts
      BY <1>2, <1>6, <2>2 DEF FinishSlice
    <3>2. fft[c] # 0
      BY <3>1, InputNodeAssumption
    <3>3. Len(handed[c]) = 2 /\ s \in handed[c][2].stations
      BY <1>1, <3>2
    <3>4. Tail(handed[c]) # <<>> /\ LastOf(Tail(handed[c]), s) = handed[c][2]
      BY <1>1, <1>2, <3>3, LastLeft
    <3>5. LastOf(handed[c], s) = handed[c][2]
      BY <3>3 DEF LastOf
    <3> QED BY <3>1, <3>4, <3>5
  <2> QED BY <2>1, <2>2
<1> QED BY <1>1, <1>3, <1>4, <1>5, <1>6 DEF ManagerStep, NodeStep

-----------------------------------------------------------------------------
\* The times of the slices that wait at station s, by node, when H has the slices of the nodes,
\* and the time of what the manager hands out next of channel ch, when it is at time t of scan
\* k and has the channels C left.
HandedOK(H) == H \in [Nodes -> Seq(SlicesGiven)] /\ \A c \in Nodes : Len(H[c]) \in {0, 1, 2}
Times(H, s) == [c \in Nodes |-> IF H[c] = <<>> THEN -1 ELSE LastOf(H[c], s).time]
TimesNext(s, ch, k, t, C) ==
  IF In(s, k) THEN TimesFrom(s, k, IF ch \in C THEN t ELSE t + IntegrationUnits)
  ELSE StartsAfter(s, k)

\* The slices of a channel are begun in the order in which the manager hands them out.
SlicesInTurn ==
  \A s \in Stations, ch \in Channels :
    Alive(s) => SliceLine(s, ch, mail[s], writer[s][ch], Times(handed, s),
                          TimesNext(s, ch, mScan, mTime, mChannels))

LEMMA HandedKnown ==
  ASSUME SInv
  PROVE  HandedOK(handed)
<1>1. handed \in [Nodes -> Seq(SlicesGiven)]
  BY DEF SInv, Types, SupplyTypes
<1>2. ASSUME NEW c \in Nodes PROVE Len(handed[c]) \in {0, 1, 2}
  <2>1. handed[c] = <<>> => Len(handed[c]) = 0
    OBVIOUS
  <2> QED BY <2>1 DEF SInv, Requests
<1> QED BY <1>1, <1>2 DEF HandedOK

LEMMA HandedNext ==
  ASSUME SInv'
  PROVE  HandedOK(handed')
<1>1. handed' \in [Nodes -> Seq(SlicesGiven)]
  BY DEF SInv, Types, SupplyTypes
<1>2. ASSUME NEW c \in Nodes PROVE Len(handed'[c]) \in {0, 1, 2}
  <2>1. handed'[c] = <<>> => Len(handed'[c]) = 0
    OBVIOUS
  <2> QED BY <2>1 DEF SInv, Requests
<1> QED BY <1>1, <1>2 DEF HandedOK

LEMMA TimesType ==
  ASSUME NEW H, HandedOK(H), NEW s
  PROVE  /\ Times(H, s) \in NodeTimes
         /\ \A c \in Nodes : H[c] # <<>> => Times(H, s)[c] = LastOf(H[c], s).time
                                            /\ LastOf(H[c], s) \in SlicesGiven
<1>1. ASSUME NEW c \in Nodes, H[c] # <<>> PROVE LastOf(H[c], s) \in SlicesGiven
  <2>1. PICK h \in Seq(SlicesGiven) : h = H[c] /\ h # <<>> /\ Len(h) \in {0, 1, 2}
    BY <1>1 DEF HandedOK
  <2>2. Len(h) \in {1, 2}
    BY <2>1
  <2>3. LastOf(h, s) \in SlicesGiven
    BY <2>2 DEF LastOf
  <2> QED BY <2>1, <2>3
<1>2. ASSUME NEW c \in Nodes, H[c] # <<>> PROVE LastOf(H[c], s).time \in Int
  BY <1>1, <1>2 DEF SlicesGiven
<1>3. Times(H, s) \in NodeTimes
  BY <1>2 DEF Times, NodeTimes
<1> QED BY <1>1, <1>3 DEF Times

\* The line of slices depends on the times of those that wait only.
LEMMA SameTimes ==
  ASSUME NEW M \in Seq(Messages), NEW W \in [Channels -> Writers], NEW ch \in Channels,
         NEW T \in NodeTimes, NEW U \in NodeTimes,
         \A c \in Nodes : Waiting(M, W, c) => U[c] = T[c],
         NEW s, NEW C, SliceLine(s, ch, M, W[ch], T, C)
  PROVE  SliceLine(s, ch, M, W[ch], U, C)
<1>1. \A c \in Nodes : Queued(W, c) => U[c] = T[c]
  BY DEF Waiting
<1>2. \A c \in Nodes : Mailed(M, c) => U[c] = T[c]
  BY DEF Waiting
<1>3. QueueTimes(W[ch], U) = QueueTimes(W[ch], T)
  <2>1. PICK w \in Writers : w = W[ch]
    OBVIOUS
  <2>2. w.slices \in Seq(Nodes)
    BY QueueType
  <2>3. ASSUME NEW i \in DOMAIN w.slices, Waits(w, i, w.slices[i])
        PROVE  U[w.slices[i]] = T[w.slices[i]]
    <3>1. w.slices[i] \in Nodes
      BY <2>2
    <3>2. Queued(W, w.slices[i])
      BY <2>1, <2>3 DEF Queued
    <3> QED BY <1>1, <3>1, <3>2
  <2>4. QueueTimes(w, U) = QueueTimes(w, T)
    BY <2>3 DEF QueueTimes
  <2> QED BY <2>1, <2>4
<1>4. Mapped(M, TimeIn(ch, U)) = Mapped(M, TimeIn(ch, T))
  <2>1. ASSUME NEW i \in DOMAIN M PROVE TimeIn(ch, U)[M[i]] = TimeIn(ch, T)[M[i]]
    <3>1. PICK m \in Messages : m = M[i]
      OBVIOUS
    <3>2. CASE m.type = "ADD_TIME_SLICE" /\ m.channel = ch
      <4>1. m.stream \in Nodes
        BY <3>2, SliceMessage
      <4>2. Mailed(M, m.stream)
        BY <3>1, <3>2 DEF Mailed, IsFor
      <4>3. U[m.stream] = T[m.stream]
        BY <1>2, <4>1, <4>2
      <4>4. TimeIn(ch, U)[m] = U[m.stream] /\ TimeIn(ch, T)[m] = T[m.stream]
        BY <3>2, TimePlaces
      <4> QED BY <3>1, <4>3, <4>4
    <3>3. CASE ~(m.type = "ADD_TIME_SLICE" /\ m.channel = ch)
      <4>1. TimeIn(ch, U)[m] = -1 /\ TimeIn(ch, T)[m] = -1
        BY <3>3, TimePlaces
      <4> QED BY <3>1, <4>1
    <3> QED BY <3>2, <3>3
  <2> QED BY <2>1 DEF Mapped
<1> QED BY <1>3, <1>4 DEF SliceLine, Line

LEMMA SlicesInit ==
  ASSUME Init
  PROVE  SlicesInTurn
<1>1. /\ mail = [s \in Stations |-> <<>>] /\ mScan = 0
      /\ writer = [s \in Stations |-> [ch \in Channels |-> NewWriter]]
      /\ handed = [c \in Nodes |-> <<>>]
  BY DEF Init, InputInit
<1>2. 0 \in 0 .. Len(Scans) /\ 0 \notin DOMAIN Scans
  BY ScanRange
<1>3. ASSUME NEW s \in Stations, NEW ch \in Channels
      PROVE  SliceLine(s, ch, <<>>, NewWriter, Times(handed, s), StartsAfter(s, 0))
  <2>1. HandedOK(handed)
    BY <1>1 DEF HandedOK
  <2>2. Times(handed, s) \in NodeTimes
    BY <2>1, TimesType
  <2>3. TimeIn(ch, Times(handed, s)) \in [Messages -> Int]
    BY <2>2, TimePlaces
  <2>4. WriterIn(s, 0, NewWriter) /\ NewWriter.slices = <<>> /\ Clock(NewWriter) = 0
    BY DEF WriterIn, StopOf, NewWriter, Clock
  <2>5. QueueTimes(NewWriter, Times(handed, s)) = <<>>
    BY <2>4 DEF QueueTimes
  <2>6. Line(<<>>, <<>>, TimeIn(ch, Times(handed, s))) = <<>>
    BY <2>3, LineEmpty
  <2>7. DueTimes(s, NewWriter) = TimesFrom(s, 0, 0)
    BY <1>2, <2>4, WriterDue
  <2>8. TimesFrom(s, 0, 0) = StartsAfter(s, 0)
    BY DEF TimesFrom, StopOf
  <2> QED BY <2>5, <2>6, <2>7, <2>8, ChainEmpty DEF SliceLine
<1>4. ASSUME NEW s, NEW ch PROVE TimesNext(s, ch, 0, mTime, mChannels) = StartsAfter(s, 0)
  BY <1>2 DEF TimesNext, In
<1> QED BY <1>1, <1>3, <1>4 DEF SlicesInTurn

\* The steps of the stations and of the nodes.
LEMMA SlicesStation ==
  ASSUME SInv, SInv', Clocks, SlicesInTurn, NEW r \in Stations, InputStep(r)
  PROVE  SlicesInTurn'
<1>1. InputTypes /\ InputTypes' /\ WriterStates /\ HandedOK(handed)
  BY HandedKnown DEF SInv, Types
<1>2. UNCHANGED <<handed, mScan, mTime, mChannels>>
  BY DEF InputStep, sVars
<1>3. SUFFICES ASSUME NEW s \in Stations, NEW ch \in Channels, Alive(s)'
               PROVE  SliceLine(s, ch, mail'[s], writer'[s][ch], Times(handed, s),
                                TimesNext(s, ch, mScan, mTime, mChannels))
  BY <1>2 DEF SlicesInTurn
<1>4. /\ mail[s] \in Seq(Messages) /\ mail'[s] \in Seq(Messages)
      /\ writer[s][ch] \in Writers /\ writer'[s][ch] \in Writers
  BY <1>1 DEF InputTypes
<1>5. Alive(s) /\ Seen(ch, mail[s], mail'[s], writer[s][ch], writer'[s][ch])
  BY <1>1, <1>3, StationSeen
<1>6. WriterLine(s, mail[s], writer[s][ch], mScan)
  BY <1>5 DEF Clocks, WriterClocks
<1>7. SliceLine(s, ch, mail[s], writer[s][ch], Times(handed, s), TimesNext(s, ch, mScan, mTime, mChannels))
  BY <1>5 DEF SlicesInTurn
<1>8. Times(handed, s) \in NodeTimes
  BY <1>1, TimesType
<1>9. PICK w \in Writers, v \in Writers, M \in Seq(Messages), N \in Seq(Messages), T \in NodeTimes :
        w = writer[s][ch] /\ v = writer'[s][ch] /\ M = mail[s] /\ N = mail'[s] /\ T = Times(handed, s)
  BY <1>4, <1>8
<1>10. w.pc \in {"found", "write"} => w.slices # <<>>
  BY <1>1, <1>9 DEF WriterStates
<1>11. w.pc = "found" => T[w.slices[1]] \in Nat
  <2>1. SUFFICES ASSUME w.pc = "found" PROVE T[w.slices[1]] \in Nat
    OBVIOUS
  <2>2. PICK c \in Nodes : c = w.slices[1] /\ 1 \in DOMAIN w.slices
    BY <1>10, <2>1 DEF Writers
  <2>3. Waits(w, 1, c)
    BY <2>1, <2>2 DEF Waits
  <2>4. Queued(writer[s], c)
    BY <1>9, <2>2, <2>3 DEF Queued
  <2>5. handed[c] # <<>>
    BY <2>4, WaitsForLast DEF Waiting
  <2>6. T[c] = LastOf(handed[c], s).time /\ LastOf(handed[c], s) \in SlicesGiven
    BY <1>1, <1>9, <2>5, TimesType
  <2> QED BY <2>2, <2>6 DEF SlicesGiven
<1>12. SliceLine(s, ch, N, v, T, TimesNext(s, ch, mScan, mTime, mChannels))
  BY <1>5, <1>6, <1>7, <1>9, <1>10, <1>11, SliceLineSeen
<1> QED BY <1>9, <1>12

LEMMA SlicesNode ==
  ASSUME SInv, SInv', SlicesInTurn, NEW d \in Nodes, NodeStep(d)
  PROVE  SlicesInTurn'
<1>1. UNCHANGED <<mail, iStatus, writer, mScan, mTime, mChannels>>
  BY DEF NodeStep, Correlate, Request, FinishSlice, iVars
<1>2. SUFFICES ASSUME NEW s \in Stations, NEW ch \in Channels, Alive(s)
               PROVE  SliceLine(s, ch, mail[s], writer[s][ch], Times(handed', s),
                                TimesNext(s, ch, mScan, mTime, mChannels))
  BY <1>1 DEF SlicesInTurn, Alive
<1>3. SliceLine(s, ch, mail[s], writer[s][ch], Times(handed, s), TimesNext(s, ch, mScan, mTime, mChannels))
  BY <1>2 DEF SlicesInTurn
<1>4. HandedOK(handed) /\ HandedOK(handed')
  BY HandedKnown, HandedNext
<1>5. mail[s] \in Seq(Messages) /\ writer[s] \in [Channels -> Writers]
  BY DEF SInv, Types, InputTypes
<1>6. ASSUME NEW c \in Nodes, Waiting(mail[s], writer[s], c)
      PROVE  Times(handed', s)[c] = Times(handed, s)[c]
  <2>1. handed[c] # <<>> /\ handed'[c] # <<>> /\ LastOf(handed'[c], s) = LastOf(handed[c], s)
    BY <1>6, StillLast
  <2> QED BY <1>4, <2>1, TimesType
<1> QED BY <1>3, <1>4, <1>5, <1>6, TimesType, SameTimes

\* The manager, when it is done with a scan.
LEMMA NextWhenDone ==
  ASSUME SInv, ManagerClock, mScan = 0 \/ SliceDone, NEW s, NEW ch \in Channels
  PROVE  TimesNext(s, ch, mScan, mTime, mChannels) = StartsAfter(s, mScan)
<1>1. CASE ~In(s, mScan)
  BY <1>1 DEF TimesNext
<1>2. CASE In(s, mScan)
  <2>1. mScan \in DOMAIN Scans /\ mScan # 0 /\ mTime >= Scans[mScan].stop
    BY <1>2, ScanRange DEF In, SliceDone
  <2>2. mTime \in Nat /\ Scans[mScan].stop \in Nat
    BY <2>1, ScanRange DEF SInv, Types, SupplyTypes
  <2>3. mChannels = Channels
    BY <2>1, <2>2 DEF ManagerClock
  <2>4. ~(mTime < StopOf(mScan))
    BY <2>1, <2>2 DEF StopOf
  <2> QED BY <1>2, <2>3, <2>4 DEF TimesNext, TimesFrom
<1> QED BY <1>1, <1>2

LEMMA NextAfterStart ==
  ASSUME SInv, StartNewScan, NEW s, NEW ch \in Channels
  PROVE  TimesNext(s, ch, mScan', mTime', mChannels') = StartsAfter(s, mScan)
<1>1. /\ mScan' = mScan + 1 /\ mTime' = Scans[mScan'].start /\ mChannels' = Channels
      /\ mScan < Len(Scans)
  BY DEF StartNewScan
<1>2. PICK n \in Nat : n = mScan /\ n + 1 \in DOMAIN Scans /\ n + 1 # 0
  BY <1>1, ScanRange DEF SInv, Types, SupplyTypes
<1>3. CASE In(s, n + 1)
  <2>1. StartsAfter(s, n) = {Scans[n + 1].start}
    BY <1>2, <1>3, NextOfScan
  <2>2. Scans[n + 1].start < StopOf(n + 1)
    BY <1>2, ScanRange DEF StopOf
  <2> QED BY <1>1, <1>2, <1>3, <2>1, <2>2 DEF TimesNext, TimesFrom
<1>4. CASE ~In(s, n + 1)
  <2>1. StartsAfter(s, n + 1) = StartsAfter(s, n)
    BY <1>2, <1>4, NextOfScan
  <2> QED BY <1>1, <1>2, <1>4, <2>1 DEF TimesNext
<1> QED BY <1>3, <1>4

\* Messages that are no slices.
LEMMA SliceLineOther ==
  ASSUME NEW s, NEW ch, NEW M \in Seq(Messages), NEW w \in Writers, NEW T \in NodeTimes, NEW C,
         NEW m \in Messages, m.type # "ADD_TIME_SLICE" \/ m.channel # ch,
         SliceLine(s, ch, M, w, T, C)
  PROVE  SliceLine(s, ch, Append(M, m), w, T, C)
<1>1. TimeIn(ch, T) \in [Messages -> Int] /\ QueueTimes(w, T) \in Seq(Int)
  BY TimePlaces, QueueType
<1>2. TimeIn(ch, T)[m] = -1
  BY TimePlaces
<1>3. PICK F \in [Messages -> Int], Q \in Seq(Int) : F = TimeIn(ch, T) /\ Q = QueueTimes(w, T)
  BY <1>1
<1>4. F[m] \notin Nat
  BY <1>2, <1>3
<1>5. Chain(Line(Q, M, F), Nat, DueTimes(s, w), AfterTime(s), C)
  BY <1>3 DEF SliceLine
<1>6. Chain(Line(Q, Append(M, m), F), Nat, DueTimes(s, w), AfterTime(s), C)
  BY <1>4, <1>5, OtherMailed
<1> QED BY <1>3, <1>6 DEF SliceLine

\* A slice of the channel is handed out: it is of the time that comes next.
LEMMA SliceLineHanded ==
  ASSUME NEW s, NEW ch, NEW M \in Seq(Messages), NEW w \in Writers, NEW T \in NodeTimes,
         NEW m \in Messages, m.type = "ADD_TIME_SLICE", m.channel = ch,
         NEW k \in DOMAIN Scans, In(s, k), NEW t \in Nat, Aligned(k, t), t < Scans[k].stop,
         T[m.stream] = t, SliceLine(s, ch, M, w, T, {t})
  PROVE  SliceLine(s, ch, Append(M, m), w, T, TimesFrom(s, k, t + IntegrationUnits))
<1>1. TimeIn(ch, T) \in [Messages -> Int] /\ QueueTimes(w, T) \in Seq(Int)
  BY TimePlaces, QueueType
<1>2. TimeIn(ch, T)[m] = t
  BY TimePlaces
<1>3. PICK F \in [Messages -> Int], Q \in Seq(Int) : F = TimeIn(ch, T) /\ Q = QueueTimes(w, T)
  BY <1>1
<1>4. F[m] = t
  BY <1>2, <1>3
<1>5. AfterTime(s)[t] = TimesFrom(s, k, t + IntegrationUnits)
  BY TimeAfter DEF Aligned
<1>6. Chain(Line(Q, M, F), Nat, DueTimes(s, w), AfterTime(s), {t})
  BY <1>3 DEF SliceLine
<1>7. /\ F[m] \in Nat /\ F[m] \in {t}
      /\ TimesFrom(s, k, t + IntegrationUnits) \subseteq AfterTime(s)[F[m]]
  BY <1>4, <1>5
<1>8. Chain(Line(Q, Append(M, m), F), Nat, DueTimes(s, w), AfterTime(s),
            TimesFrom(s, k, t + IntegrationUnits))
  BY <1>6, <1>7, NextMailed
<1> QED BY <1>3, <1>8 DEF SliceLine

\* The times that come next when a slice of channel g is handed out.
LEMMA NextAfterHanded ==
  ASSUME SInv, Clocks, NEW c \in Nodes, NEW g \in SlicesGiven, NEW m, HandsOut(c, g, m),
         NEW s, In(s, mScan), NEW ch \in Channels
  PROVE  /\ ch = g.channel =>
              /\ TimesNext(s, ch, mScan, mTime, mChannels) = {mTime}
              /\ TimesNext(s, ch, mScan, mTime', mChannels')
                   = TimesFrom(s, mScan, mTime + IntegrationUnits)
         /\ ch # g.channel => TimesNext(s, ch, mScan, mTime', mChannels')
                                = TimesNext(s, ch, mScan, mTime, mChannels)
<1>1. /\ mScan \in DOMAIN Scans /\ mTime \in Nat /\ mTime < Scans[mScan].stop
      /\ g.channel \in mChannels
      /\ \/ mChannels = {g.channel} /\ mTime' = mTime + IntegrationUnits /\ mChannels' = Channels
         \/ mTime' = mTime /\ mChannels' = mChannels \ {g.channel}
  BY DEF HandsOut
<1>2. mScan # 0 /\ StopOf(mScan) = Scans[mScan].stop
  BY <1>1, ScanRange DEF StopOf
<1>3. ASSUME ch = g.channel
      PROVE  TimesNext(s, ch, mScan, mTime, mChannels) = {mTime}
  BY <1>1, <1>2, <1>3 DEF TimesNext, TimesFrom
<1>4. ASSUME ch = g.channel
      PROVE  TimesNext(s, ch, mScan, mTime', mChannels') = TimesFrom(s, mScan, mTime + IntegrationUnits)
  BY <1>1, <1>4 DEF TimesNext
<1>5. ASSUME ch # g.channel
      PROVE  TimesNext(s, ch, mScan, mTime', mChannels') = TimesNext(s, ch, mScan, mTime, mChannels)
  <2>1. (IF ch \in mChannels' THEN mTime' ELSE mTime' + IntegrationUnits)
          = (IF ch \in mChannels THEN mTime ELSE mTime + IntegrationUnits)
    BY <1>1, <1>5
  <2> QED BY <2>1 DEF TimesNext
<1> QED BY <1>3, <1>4, <1>5

LEMMA SlicesHandedOut ==
  ASSUME SInv, SInv', Clocks, SlicesInTurn, StartCorrelatorNode
  PROVE  SlicesInTurn'
<1>1. PICK c \in Nodes, g \in SlicesGiven, m \in Messages :
           /\ HandsOut(c, g, m) /\ Len(handed[c]) \in {0, 1}
           /\ \A s \in Stations : ~Waiting(mail[s], writer[s], c)
  BY HandingOut
<1>2. /\ UNCHANGED <<writer, iStatus, mScan>>
      /\ \A s \in Stations : mail'[s] = IF s \in g.stations THEN Append(mail[s], m) ELSE mail[s]
      /\ m.type = "ADD_TIME_SLICE" /\ m.channel = g.channel /\ m.stream = c
      /\ mScan \in DOMAIN Scans /\ g.stations = Scans[mScan].stations /\ g.time = mTime
      /\ mTime \in Nat /\ mTime < Scans[mScan].stop
  BY <1>1 DEF HandsOut
<1>3. HandedOK(handed) /\ HandedOK(handed')
  BY HandedKnown, HandedNext
<1>4. /\ \A d \in Nodes \ {c} : handed'[d] = handed[d]
      /\ handed'[c] = Append(handed[c], g) /\ handed[c] \in Seq(SlicesGiven)
  BY <1>1, HandedTo
<1>5. SUFFICES ASSUME NEW s \in Stations, NEW ch \in Channels, Alive(s)
               PROVE  SliceLine(s, ch, mail'[s], writer[s][ch], Times(handed', s),
                                TimesNext(s, ch, mScan, mTime', mChannels'))
  BY <1>2 DEF SlicesInTurn, Alive
<1>6. PICK M \in Seq(Messages), W \in [Channels -> Writers], T \in NodeTimes, U \in NodeTimes :
        M = mail[s] /\ W = writer[s] /\ T = Times(handed, s) /\ U = Times(handed', s)
  BY <1>3, TimesType DEF SInv, Types, InputTypes
<1>7. SliceLine(s, ch, M, W[ch], T, TimesNext(s, ch, mScan, mTime, mChannels))
  BY <1>5, <1>6 DEF SlicesInTurn
<1>8. ASSUME NEW d \in Nodes, Waiting(M, W, d) PROVE U[d] = T[d]
  <2>1. d # c
    BY <1>1, <1>6, <1>8
  <2>2. handed'[d] = handed[d]
    BY <1>4, <2>1
  <2> QED BY <1>6, <2>2 DEF Times
<1>9. SliceLine(s, ch, M, W[ch], U, TimesNext(s, ch, mScan, mTime, mChannels))
  BY <1>7, <1>8, SameTimes
<1>10. CASE s \notin g.stations
  <2>1. ~In(s, mScan)
    BY <1>2, <1>10 DEF In
  <2>2. TimesNext(s, ch, mScan, mTime', mChannels') = TimesNext(s, ch, mScan, mTime, mChannels)
    BY <2>1 DEF TimesNext
  <2> QED BY <1>2, <1>6, <1>9, <1>10, <2>2
<1>11. CASE s \in g.stations
  <2>1. In(s, mScan) /\ mail'[s] = Append(M, m)
    BY <1>2, <1>6, <1>11 DEF In
  <2>2. CASE ch = g.channel
    <3>1. U[c] = mTime
      <4>1. LastOf(handed'[c], s) = g /\ handed'[c] # <<>>
        BY <1>1, <1>4, <1>11, LastHanded
      <4> QED BY <1>2, <1>3, <1>6, <4>1, TimesType
    <3>2. /\ TimesNext(s, ch, mScan, mTime, mChannels) = {mTime}
          /\ TimesNext(s, ch, mScan, mTime', mChannels') = TimesFrom(s, mScan, mTime + IntegrationUnits)
      BY <1>1, <2>1, <2>2, NextAfterHanded
    <3>3. SliceLine(s, ch, M, W[ch], U, {mTime})
      BY <1>9, <3>2
    <3>4. Aligned(mScan, mTime)
      BY <1>2 DEF Clocks, ManagerClock
    <3>5. SliceLine(s, ch, Append(M, m), W[ch], U, TimesFrom(s, mScan, mTime + IntegrationUnits))
      <4>1. U[m.stream] = mTime /\ m.channel = ch
        BY <1>2, <2>2, <3>1
      <4>2. W[ch] \in Writers
        OBVIOUS
      <4> QED BY <1>2, <2>1, <3>3, <3>4, <4>1, <4>2, SliceLineHanded
    <3> QED BY <1>6, <2>1, <3>2, <3>5
  <2>3. CASE ch # g.channel
    <3>1. TimesNext(s, ch, mScan, mTime', mChannels') = TimesNext(s, ch, mScan, mTime, mChannels)
      BY <1>1, <2>1, <2>3, NextAfterHanded
    <3>2. W[ch] \in Writers /\ m.channel # ch
      BY <1>2, <2>3
    <3>3. SliceLine(s, ch, Append(M, m), W[ch], U, TimesNext(s, ch, mScan, mTime, mChannels))
      BY <1>9, <3>2, SliceLineOther
    <3> QED BY <1>6, <2>1, <3>1, <3>3
  <2> QED BY <2>2, <2>3
<1> QED BY <1>10, <1>11

LEMMA SlicesManager ==
  ASSUME SInv, SInv', Clocks, SlicesInTurn, StartNewScan \/ EndNodes
  PROVE  SlicesInTurn'
<1>1. UNCHANGED <<iStatus, writer, handed>>
  BY DEF StartNewScan, EndNodes
<1>2. SUFFICES ASSUME NEW s \in Stations, NEW ch \in Channels, Alive(s)
               PROVE  SliceLine(s, ch, mail'[s], writer[s][ch], Times(handed, s),
                                TimesNext(s, ch, mScan', mTime', mChannels'))
  BY <1>1 DEF SlicesInTurn, Alive
<1>3. PICK M \in Seq(Messages), w \in Writers, T \in NodeTimes :
        M = mail[s] /\ w = writer[s][ch] /\ T = Times(handed, s)
  BY HandedKnown, TimesType DEF SInv, Types, InputTypes
<1>4. TimesNext(s, ch, mScan, mTime, mChannels) = StartsAfter(s, mScan)
  <2>1. mScan = 0 \/ SliceDone
    BY DEF StartNewScan, EndNodes
  <2>2. ManagerClock
    BY DEF Clocks
  <2> QED BY <2>1, <2>2, NextWhenDone
<1>5. SliceLine(s, ch, M, w, T, StartsAfter(s, mScan))
  BY <1>2, <1>3, <1>4 DEF SlicesInTurn
<1>6. TimesNext(s, ch, mScan', mTime', mChannels') = StartsAfter(s, mScan)
  <2>1. CASE StartNewScan
    BY <2>1, NextAfterStart
  <2>2. CASE EndNodes
    <3>1. PICK n \in Nat : n = mScan /\ n = Len(Scans) /\ mScan' = n + 1
      BY <2>2, ScanRange DEF EndNodes
    <3>2. StartsAfter(s, n) = {} /\ StartsAfter(s, n + 1) = {}
      BY <3>1, NoScanLeft
    <3>3. ~In(s, n + 1)
      BY <3>1, ScanRange DEF In
    <3> QED BY <3>1, <3>2, <3>3 DEF TimesNext
  <2> QED BY <2>1, <2>2
<1>7. \/ mail'[s] = M
      \/ \E a, b \in Messages :
           a.type # "ADD_TIME_SLICE" /\ b.type # "ADD_TIME_SLICE" /\ mail'[s] = Append(Append(M, a), b)
      \/ \E a \in Messages : a.type # "ADD_TIME_SLICE" /\ mail'[s] = Append(M, a)
  <2>1. mail \in [Stations -> Seq(Messages)]
    BY DEF SInv, Types, InputTypes
  <2>2. CASE StartNewScan
    <3>1. PICK S \in SUBSET Stations, a \in Messages, b \in Messages :
           /\ Send(S, <<a, b>>) /\ S = Scans[mScan'].stations
           /\ a.type = "TRACK_PARAMETERS" /\ b.type = "SET_TIME"
           /\ b.start = Scans[mScan'].start /\ b.stop = Scans[mScan'].stop
           /\ mScan' \in 0 .. Len(Scans) /\ mTime' \in Nat /\ mChannels' = Channels
      BY <2>2, SupplyAssumption, NewScanFacts, Zenon DEF SInv
    <3>2. <<a, b>> \in Seq(Messages)
      OBVIOUS
    <3>3. /\ s \in S => mail'[s] = M \o <<a, b>>
          /\ s \notin S => mail'[s] = M
      BY <1>3, <2>1, <3>1, <3>2, SendFacts, ZenonT(30)
    <3>4. M \o <<a, b>> = Append(Append(M, a), b)
      BY TwoAdded
    <3>5. a.type # "ADD_TIME_SLICE" /\ b.type # "ADD_TIME_SLICE"
      BY <3>1
    <3> QED BY <3>3, <3>4, <3>5
  <2>3. CASE EndNodes
    <3>1. Send(Stations, <<EndNode>>)
      BY <2>3 DEF EndNodes
    <3>2. PICK a \in Messages : a = EndNode /\ a.type = "END_NODE"
      BY EndMessage
    <3>3. <<a>> \in Seq(Messages)
      OBVIOUS
    <3>4. mail'[s] = M \o <<a>>
      BY <1>3, <2>1, <3>1, <3>2, <3>3, SendFacts
    <3>5. M \o <<a>> = Append(M, a)
      BY TwoAdded
    <3>6. a.type # "ADD_TIME_SLICE"
      BY <3>2
    <3> QED BY <3>4, <3>5, <3>6
  <2> QED BY <2>2, <2>3
<1>8. ASSUME NEW a \in Messages, a.type # "ADD_TIME_SLICE", NEW N \in Seq(Messages),
             SliceLine(s, ch, N, w, T, StartsAfter(s, mScan))
      PROVE  SliceLine(s, ch, Append(N, a), w, T, StartsAfter(s, mScan))
  BY <1>8, SliceLineOther
<1>9. SliceLine(s, ch, mail'[s], w, T, StartsAfter(s, mScan))
  <2>1. CASE mail'[s] = M
    BY <1>5, <2>1
  <2>2. ASSUME NEW a \in Messages, a.type # "ADD_TIME_SLICE"
        PROVE  Append(M, a) \in Seq(Messages) /\ SliceLine(s, ch, Append(M, a), w, T, StartsAfter(s, mScan))
    BY <1>5, <1>8, <2>2
  <2>3. ASSUME NEW a \in Messages, NEW b \in Messages, a.type # "ADD_TIME_SLICE", b.type # "ADD_TIME_SLICE"
        PROVE  SliceLine(s, ch, Append(Append(M, a), b), w, T, StartsAfter(s, mScan))
    BY <1>8, <2>2, <2>3
  <2> QED BY <1>7, <2>1, <2>2, <2>3
<1> QED BY <1>3, <1>6, <1>9

LEMMA SlicesNext ==
  ASSUME SInv, SInv', Clocks, SlicesInTurn, [Next]_vars
  PROVE  SlicesInTurn'
<1>1. CASE UNCHANGED vars
  BY <1>1 DEF vars, iVars, sVars, SlicesInTurn, Alive
<1> QED BY <1>1, SlicesStation, SlicesNode, SlicesHandedOut, SlicesManager DEF Next, ManagerStep

-----------------------------------------------------------------------------
\* A slice of node c waits, in the mail M or the queue of writer w, for channel ch.
WaitsFor(M, w, ch, c) ==
  \/ \E i \in DOMAIN M : IsFor(M[i], c) /\ M[i].channel = ch
  \/ \E i \in DOMAIN w.slices : Waits(w, i, c)

\* It waits for the channel of the last slice that the node was given.
RightChannels ==
  \A s \in Stations, ch \in Channels, c \in Nodes :
    Alive(s) /\ WaitsFor(mail[s], writer[s][ch], ch, c) => LastOf(handed[c], s).channel = ch

LEMMA WaitsWaiting ==
  ASSUME NEW M \in Seq(Messages), NEW W, NEW c
  PROVE  Waiting(M, W, c) <=> \E ch \in Channels : WaitsFor(M, W[ch], ch, c)
<1>1. ASSUME NEW ch \in Channels, WaitsFor(M, W[ch], ch, c)
      PROVE  Waiting(M, W, c)
  BY <1>1 DEF WaitsFor, Waiting, Mailed, Queued
<1>2. ASSUME Queued(W, c) PROVE \E ch \in Channels : WaitsFor(M, W[ch], ch, c)
  BY <1>2 DEF Queued, WaitsFor
<1>3. ASSUME NEW i \in DOMAIN M, IsFor(M[i], c)
      PROVE  \E ch \in Channels : WaitsFor(M, W[ch], ch, c)
  <2>1. PICK m \in Messages : m = M[i] /\ m.type = "ADD_TIME_SLICE"
    BY <1>3 DEF IsFor
  <2>2. m.channel \in Channels
    BY <2>1, SliceMessage
  <2>3. WaitsFor(M, W[m.channel], m.channel, c)
    BY <1>3, <2>1 DEF WaitsFor
  <2> QED BY <2>2, <2>3
<1> QED BY <1>1, <1>2, <1>3 DEF Waiting, Mailed

\* No step of a station makes a slice wait.
LEMMA WaitsSeen ==
  ASSUME NEW ch, NEW M \in Seq(Messages), NEW N \in Seq(Messages),
         NEW w \in Writers, NEW v \in Writers,
         Seen(ch, M, N, w, v), w.pc \in {"found", "write"} => w.slices # <<>>,
         NEW c, WaitsFor(N, v, ch, c)
  PROVE  WaitsFor(M, w, ch, c)
<1>1. w.slices \in Seq(Nodes) /\ v.slices \in Seq(Nodes)
  BY DEF Writers
<1>2. ASSUME v.slices = w.slices, w.pc = "write" => v.pc = "write",
             NEW i \in DOMAIN v.slices, Waits(v, i, c)
      PROVE  Waits(w, i, c) /\ i \in DOMAIN w.slices
  BY <1>2 DEF Waits
<1>3. CASE TookMessage(ch, M, N, w, v)
  <2>1. M # <<>> /\ N = Tail(M) /\ Len(N) = Len(M) - 1
    BY <1>3, HeadTailProperties DEF TookMessage
  <2>2. ASSUME NEW i \in DOMAIN N PROVE i + 1 \in DOMAIN M /\ N[i] = M[i + 1]
    <3>1. i \in 1 .. Len(M) - 1
      BY <2>1
    <3> QED BY <2>1, <3>1, HeadTailProperties
  <2>3. ASSUME NEW i \in DOMAIN N, IsFor(N[i], c), N[i].channel = ch
        PROVE  WaitsFor(M, w, ch, c)
    BY <2>2, <2>3 DEF WaitsFor
  <2>4. ASSUME NEW i \in DOMAIN v.slices, Waits(v, i, c)
        PROVE  WaitsFor(M, w, ch, c)
    <3>1. CASE v = w
      BY <2>4, <3>1 DEF WaitsFor
    <3>2. CASE GotInterval(w, v, <<M[1].start, M[1].stop>>)
      <4>1. v.slices = w.slices /\ v.pc = w.pc
        BY <3>2 DEF GotInterval
      <4> QED BY <1>2, <2>4, <4>1 DEF WaitsFor
    <3>3. CASE M[1].type = "ADD_TIME_SLICE" /\ M[1].channel = ch /\ GotSlice(w, v, M[1].stream)
      <4>1. v.slices = Append(w.slices, M[1].stream) /\ v.pc = w.pc
        BY <3>3 DEF GotSlice
      <4>2. PICK m \in Messages : m = M[1] /\ 1 \in DOMAIN M
        BY <2>1
      <4>3. PICK e \in Nodes : e = m.stream
        BY <3>3, <4>2, SliceMessage
      <4>4. v.slices = Append(w.slices, e)
        BY <4>1, <4>2, <4>3
      <4>5. CASE i \in DOMAIN w.slices
        <5>1. v.slices[i] = w.slices[i]
          BY <1>1, <4>4, <4>5
        <5> QED BY <2>4, <4>1, <4>5, <5>1 DEF WaitsFor, Waits
      <4>6. CASE i \notin DOMAIN w.slices
        <5>1. v.slices[i] = e
          BY <1>1, <2>4, <4>4, <4>6
        <5>2. c = e
          BY <2>4, <5>1 DEF Waits
        <5> QED BY <3>3, <4>2, <4>3, <5>2 DEF WaitsFor, IsFor
      <4> QED BY <4>5, <4>6
    <3> QED BY <1>3, <3>1, <3>2, <3>3 DEF TookMessage
  <2> QED BY <2>3, <2>4 DEF WaitsFor
<1>4. CASE N = M /\ v = w
  BY <1>4
<1>5. CASE N = M /\ Worked(w, v)
  <2>1. CASE Ended(w, v)
    <3>1. w.pc = "write" /\ v.slices = Tail(w.slices) /\ v.pc = "idle"
      BY <2>1 DEF Ended
    <3>2. w.slices # <<>>
      BY <3>1
    <3>3. ASSUME NEW i \in DOMAIN v.slices, Waits(v, i, c)
          PROVE  WaitsFor(M, w, ch, c)
      <4>1. i \in 1 .. Len(w.slices) - 1 /\ i + 1 \in DOMAIN w.slices
        BY <1>1, <3>1, <3>2, <3>3, HeadTailProperties
      <4>2. v.slices[i] = w.slices[i + 1] /\ i + 1 # 1
        BY <1>1, <3>1, <3>2, <4>1, HeadTailProperties
      <4>3. Waits(w, i + 1, c)
        BY <3>3, <4>2 DEF Waits
      <4> QED BY <4>1, <4>3 DEF WaitsFor
    <3> QED BY <1>5, <3>3 DEF WaitsFor
  <2>2. CASE Fetched(w, v) \/ Found(w, v) \/ Begun(w, v) \/ Written(w, v)
    <3>1. v.slices = w.slices /\ (w.pc = "write" => v.pc = "write")
      BY <2>2 DEF Fetched, Found, Begun, Written
    <3> QED BY <1>2, <1>5, <3>1 DEF WaitsFor
  <2> QED BY <1>5, <2>1, <2>2 DEF Worked
<1> QED BY <1>3, <1>4, <1>5 DEF Seen

LEMMA ChannelsStation ==
  ASSUME SInv, SInv', RightChannels, NEW r \in Stations, InputStep(r)
  PROVE  RightChannels'
<1>1. InputTypes /\ InputTypes' /\ WriterStates
  BY DEF SInv, Types
<1>2. handed' = handed
  BY DEF InputStep, sVars
<1>3. SUFFICES ASSUME NEW s \in Stations, NEW ch \in Channels, NEW c \in Nodes, Alive(s)',
                      WaitsFor(mail'[s], writer'[s][ch], ch, c)
               PROVE  LastOf(handed[c], s).channel = ch
  BY <1>2 DEF RightChannels
<1>4. Alive(s) /\ Seen(ch, mail[s], mail'[s], writer[s][ch], writer'[s][ch])
  BY <1>1, <1>3, StationSeen
<1>5. PICK w \in Writers, v \in Writers, M \in Seq(Messages), N \in Seq(Messages) :
        w = writer[s][ch] /\ v = writer'[s][ch] /\ M = mail[s] /\ N = mail'[s]
  BY <1>1 DEF InputTypes
<1>6. w.pc \in {"found", "write"} => w.slices # <<>>
  BY <1>1, <1>5 DEF WriterStates
<1>7. WaitsFor(M, w, ch, c)
  BY <1>3, <1>4, <1>5, <1>6, WaitsSeen
<1> QED BY <1>4, <1>5, <1>7 DEF RightChannels

\* The mail of a station, and what the manager changes of it.
LEMMA WaitsMailed ==
  ASSUME NEW M \in Seq(Messages), NEW m \in Messages, NEW w, NEW ch, NEW c
  PROVE  /\ WaitsFor(Append(M, m), w, ch, c) =>
              WaitsFor(M, w, ch, c) \/ (IsFor(m, c) /\ m.channel = ch)
         /\ m.type # "ADD_TIME_SLICE" =>
              (WaitsFor(Append(M, m), w, ch, c) => WaitsFor(M, w, ch, c))
<1>1. \A i \in DOMAIN Append(M, m) :
        (i \in DOMAIN M /\ Append(M, m)[i] = M[i]) \/ Append(M, m)[i] = m
  BY AppendProperties
<1> QED BY <1>1 DEF WaitsFor, IsFor

LEMMA ChannelsManager ==
  ASSUME SInv, SInv', RightChannels, ManagerStep
  PROVE  RightChannels'
<1>1. CASE StartCorrelatorNode
  <2>1. PICK e \in Nodes, g \in SlicesGiven, m \in Messages :
           /\ HandsOut(e, g, m) /\ Len(handed[e]) \in {0, 1}
           /\ \A s \in Stations : ~Waiting(mail[s], writer[s], e)
    BY <1>1, HandingOut
  <2>2. /\ UNCHANGED <<writer, iStatus>>
        /\ \A s \in Stations : mail'[s] = IF s \in g.stations THEN Append(mail[s], m) ELSE mail[s]
        /\ m.type = "ADD_TIME_SLICE" /\ m.channel = g.channel /\ m.stream = e
    BY <2>1 DEF HandsOut
  <2>3. /\ \A d \in Nodes \ {e} : handed'[d] = handed[d]
        /\ handed'[e] = Append(handed[e], g) /\ handed[e] \in Seq(SlicesGiven)
    BY <2>1, HandedTo
  <2>4. SUFFICES ASSUME NEW s \in Stations, NEW ch \in Channels, NEW c \in Nodes, Alive(s),
                        WaitsFor(mail'[s], writer[s][ch], ch, c)
                 PROVE  LastOf(handed'[c], s).channel = ch
    BY <2>2 DEF RightChannels, Alive
  <2>5. mail[s] \in Seq(Messages)
    BY DEF SInv, Types, InputTypes
  <2>6. \/ WaitsFor(mail[s], writer[s][ch], ch, c)
        \/ s \in g.stations /\ c = e /\ m.channel = ch
    BY <2>2, <2>4, <2>5, WaitsMailed DEF IsFor
  <2>7. CASE WaitsFor(mail[s], writer[s][ch], ch, c)
    <3>1. Waiting(mail[s], writer[s], c)
      BY <2>5, <2>7, WaitsWaiting
    <3>2. c # e
      BY <2>1, <3>1
    <3> QED BY <2>3, <2>4, <2>7, <3>2 DEF RightChannels
  <2>8. CASE s \in g.stations /\ c = e /\ m.channel = ch
    <3>1. LastOf(handed'[e], s) = g
      BY <2>1, <2>3, <2>8, LastHanded
    <3> QED BY <2>2, <2>8, <3>1
  <2> QED BY <2>6, <2>7, <2>8
<1>2. CASE StartNewScan \/ EndNodes
  <2>1. UNCHANGED <<iStatus, writer, handed>>
    BY <1>2 DEF StartNewScan, EndNodes
  <2>2. SUFFICES ASSUME NEW s \in Stations, NEW ch \in Channels, NEW c \in Nodes, Alive(s),
                        WaitsFor(mail'[s], writer[s][ch], ch, c)
                 PROVE  WaitsFor(mail[s], writer[s][ch], ch, c)
    BY <2>1 DEF RightChannels, Alive
  <2>3. PICK M \in Seq(Messages), n \in Nat : M = mail[s] /\ n = mScan
    BY ScanRange DEF SInv, Types, InputTypes, SupplyTypes
  <2>4. Mailing(s, M, mail'[s], n, mScan')
    BY <1>2, <2>3, ManagerMailing DEF SInv, ManagerStep
  <2>5. ASSUME NEW a \in Messages, a.type = "ADD_TIME_SLICE", mail'[s] = Append(M, a), mScan' = n
        PROVE  FALSE
    <3>1. mScan' = mScan + 1
      BY <1>2 DEF StartNewScan, EndNodes
    <3> QED BY <2>3, <2>5, <3>1
  <2>6. ASSUME NEW a \in Messages, NEW b \in Messages, a.type = "TRACK_PARAMETERS", b.type = "SET_TIME",
               mail'[s] = Append(Append(M, a), b)
        PROVE  WaitsFor(M, writer[s][ch], ch, c)
    <3>1. PICK N \in Seq(Messages) : N = Append(M, a)
      BY AppendProperties
    <3>2. WaitsFor(Append(N, b), writer[s][ch], ch, c)
      BY <2>2, <2>6, <3>1
    <3>3. WaitsFor(N, writer[s][ch], ch, c)
      BY <2>6, <3>2, WaitsMailed
    <3> QED BY <2>6, <3>1, <3>3, WaitsMailed
  <2>7. ASSUME NEW a \in Messages, a.type = "END_NODE", mail'[s] = Append(M, a)
        PROVE  WaitsFor(M, writer[s][ch], ch, c)
    <3>1. a.type # "ADD_TIME_SLICE"
      BY <2>7
    <3> QED BY <2>2, <2>7, <3>1, WaitsMailed
  <2> QED BY <2>2, <2>3, <2>4, <2>5, <2>6, <2>7 DEF Mailing
<1> QED BY <1>1, <1>2 DEF ManagerStep

LEMMA ChannelsNext ==
  ASSUME SInv, SInv', RightChannels, [Next]_vars
  PROVE  RightChannels'
<1>1. CASE UNCHANGED vars
  BY <1>1 DEF vars, iVars, sVars, RightChannels, Alive
<1>2. ASSUME NEW d \in Nodes, NodeStep(d)
      PROVE  RightChannels'
  <2>1. UNCHANGED <<mail, iStatus, writer>>
    BY <1>2 DEF NodeStep, Correlate, Request, FinishSlice, iVars
  <2>2. SUFFICES ASSUME NEW s \in Stations, NEW ch \in Channels, NEW c \in Nodes, Alive(s),
                        WaitsFor(mail[s], writer[s][ch], ch, c)
                 PROVE  LastOf(handed'[c], s).channel = ch
    BY <2>1 DEF RightChannels, Alive
  <2>3. mail[s] \in Seq(Messages)
    BY DEF SInv, Types, InputTypes
  <2>4. Waiting(mail[s], writer[s], c)
    BY <2>2, <2>3, WaitsWaiting
  <2>5. LastOf(handed'[c], s) = LastOf(handed[c], s)
    BY <1>2, <2>4, StillLast
  <2> QED BY <2>2, <2>5 DEF RightChannels
<1> QED BY <1>1, <1>2, ChannelsStation, ChannelsManager DEF Next

-----------------------------------------------------------------------------
\* What is put on the stream to node c.
LEMMA WireSeen ==
  ASSUME InputTypes, WriterStates, NEW r \in Stations, InputStep(r), NEW s \in Stations, NEW c \in Nodes
  PROVE  \/ wire'[s][c] = wire[s][c]
         \/ \E ch \in Channels, u \in Units :
              /\ Writes(writer[s][ch], c) /\ wire'[s][c] = Append(wire[s][c], u)
              /\ \/ /\ Written(writer[s][ch], writer'[s][ch]) /\ WriteBlock(s, ch)
                    /\ u = Unit(ch, blocks[s][ch][1])
                 \/ Ended(writer[s][ch], writer'[s][ch]) /\ u = EndOfStream
<1>1. wire \in [Stations -> [Nodes -> Seq(Units)]] /\ writer \in [Stations -> [Channels -> Writers]]
  BY DEF InputTypes
<1>2. CASE s # r
  BY <1>2, OtherStation
<1>3. CASE s = r
  <2>1. CASE MessageStep(s) \/ ReaderStep(s)
    <3>1. wire' = wire
      BY <2>1, ZenonT(30) DEF MessageStep, ReaderStep, ReceiveParameters, ReceiveTimeInterval, ReceiveTimeSlice,
                  ReceiveEndNode, Terminated, ReadBlocks, NextInterval
    <3> QED BY <3>1, SMTT(30)
  <2>2. ASSUME NEW ch \in Channels, WriterStep(s, ch)
        PROVE  \/ wire'[s][c] = wire[s][c]
               \/ \E u \in Units :
                    /\ Writes(writer[s][ch], c) /\ wire'[s][c] = Append(wire[s][c], u)
                    /\ \/ /\ Written(writer[s][ch], writer'[s][ch]) /\ WriteBlock(s, ch)
                          /\ u = Unit(ch, blocks[s][ch][1])
                       \/ Ended(writer[s][ch], writer'[s][ch]) /\ u = EndOfStream
    <3>1. CASE FetchNextTimeInterval(s, ch) \/ FindWork(s, ch) \/ Activate(s, ch) \/ SkipOldBlock(s, ch)
      <4>1. wire' = wire
        BY <3>1, SMTT(30) DEF FetchNextTimeInterval, FindWork, Activate, SkipOldBlock
      <4> QED BY <4>1
    <3>2. CASE WriteBlock(s, ch)
      <4>1. writer[s][ch].slices # <<>>
        BY <3>2 DEF WriteBlock, WriterStates
      <4>2. PICK v \in Writers, e \in Nodes, u \in Units :
           /\ Turns(s, ch, v) /\ writer[s][ch].pc = "write" /\ v.pc = "write"
           /\ v.slices = writer[s][ch].slices /\ e = writer[s][ch].slices[1]
           /\ writer[s][ch].left \in Nat /\ writer[s][ch].left > 0
           /\ v.left = writer[s][ch].left - 1
           /\ wire' = [wire EXCEPT ![s][e] = @ \o <<u>>]
           /\ u = Unit(ch, blocks[s][ch][1])
           /\ Written(writer[s][ch], v)
        BY <3>2, <4>1, InputNodeAssumption, WriteFacts, Zenon
      <4>3. writer'[s][ch] = v
        <5>1. Turns(s, ch, v)
          BY <4>2
        <5> QED BY <1>1, <5>1, TurnsFacts, ZenonT(30)
      <4>4. c # e => wire'[s][c] = wire[s][c]
        BY <1>1, <4>2
      <4>5. c = e => wire'[s][c] = Append(wire[s][c], u)
        <5>1. c = e => wire'[s][c] = wire[s][c] \o <<u>>
          BY <1>1, <4>2, ZenonT(30)
        <5>2. PICK X \in Seq(Units) : X = wire[s][c]
          BY <1>1
        <5>3. X \o <<u>> = Append(X, u)
          BY SMTT(30)
        <5> QED BY <5>1, <5>2, <5>3, SMTT(30)
      <4>6. c = e => Writes(writer[s][ch], c)
        BY <4>1, <4>2, ZenonT(60) DEF Writes
      <4> QED BY <3>2, <4>2, <4>3, <4>4, <4>5, <4>6, ZenonT(30)
    <3>3. CASE EndSlice(s, ch)
      <4>1. writer[s][ch].slices # <<>>
        BY <3>3 DEF EndSlice, WriterStates
      <4>2. PICK v \in Writers, e \in Nodes :
           /\ Turns(s, ch, v) /\ writer[s][ch].pc = "write" /\ v.pc = "idle"
           /\ v.slices = Tail(writer[s][ch].slices) /\ e = writer[s][ch].slices[1]
           /\ writer[s][ch].left = 0
           /\ wire' = [wire EXCEPT ![s][e] = Append(@, EndOfStream)]
           /\ active' = [active EXCEPT ![s][e] = FALSE]
           /\ Ended(writer[s][ch], v)
        BY <3>3, <4>1, InputNodeAssumption, EndFacts, Zenon
      <4>3. writer'[s][ch] = v
        BY <1>1, <4>2, TurnsFacts
      <4>4. c # e => wire'[s][c] = wire[s][c]
        BY <1>1, <4>2, SMTT(30)
      <4>5. c = e => wire'[s][c] = Append(wire[s][c], EndOfStream)
        BY <1>1, <4>2
      <4>6. c = e => Writes(writer[s][ch], c)
        BY <4>1, <4>2 DEF Writes
      <4>7. EndOfStream \in Units
        BY DEF Units
      <4> QED BY <4>2, <4>3, <4>4, <4>5, <4>6, <4>7
    <3> QED BY <2>2, <3>1, <3>2, <3>3 DEF WriterStep
  <2> QED BY <1>3, <2>1, <2>2 DEF InputStep
<1> QED BY <1>2, <1>3

\* What a writer still has to put on a stream, and whether a slice waits for it.
LEMMA WorkOwed ==
  ASSUME NumberFfts \in Nat, NEW M, NEW W \in [Channels -> Writers], NEW a, NEW L \in Nat,
         NEW owed \in Nat, NEW c, NEW ch \in Channels, Writes(W[ch], c), StreamOK(M, W, a, L, owed, c)
  PROVE  \E left \in 0 .. NumberFfts, later \in Nat :
           /\ left = W[ch].left /\ L + left + 1 + later = owed
           /\ Waiting(M, W, c) => later = NumberFfts + 1
           /\ ~Waiting(M, W, c) => later = 0
<1>1. PICK left \in 0 .. NumberFfts : left = W[ch].left
  BY DEF Writers
<1>2. PICK later \in Nat : later = IF Waiting(M, W, c) THEN NumberFfts + 1 ELSE 0
  OBVIOUS
<1>3. L + left + 1 + later = owed
  BY <1>1, <1>2 DEF StreamOK, Balance
<1> QED BY <1>1, <1>2, <1>3

\* A writer that goes on with a slice: what waits for the stream still waits.
LEMMA WorkSame ==
  ASSUME NumberFfts \in Nat \ {0}, NEW M, NEW N,
         NEW W \in [Channels -> Writers], NEW V \in [Channels -> Writers],
         NEW a, NEW b, NEW L \in Nat, NEW K \in Nat, L <= K, K <= L + 1, NEW owed \in Nat, NEW c,
         NEW ch \in Channels, Writes(W[ch], c), Writes(V[ch], c),
         V[ch].left = W[ch].left \/ V[ch].left = W[ch].left - 1,
         StreamOK(M, W, a, L, owed, c), StreamOK(N, V, b, K, owed, c)
  PROVE  Waiting(N, V, c) <=> Waiting(M, W, c)
<1>1. PICK left \in 0 .. NumberFfts, later \in Nat :
           /\ left = W[ch].left /\ L + left + 1 + later = owed
           /\ Waiting(M, W, c) => later = NumberFfts + 1
           /\ ~Waiting(M, W, c) => later = 0
  BY WorkOwed
<1>2. PICK rest \in 0 .. NumberFfts, still \in Nat :
           /\ rest = V[ch].left /\ K + rest + 1 + still = owed
           /\ Waiting(N, V, c) => still = NumberFfts + 1
           /\ ~Waiting(N, V, c) => still = 0
  BY WorkOwed
<1>3. rest = left \/ rest = left - 1
  BY <1>1, <1>2
<1>4. later = 0 \/ later = NumberFfts + 1
  BY <1>1
<1>5. still = 0 \/ still = NumberFfts + 1
  BY <1>2
<1>6. later = still
  BY <1>1, <1>2, <1>3, <1>4, <1>5
<1> QED BY <1>1, <1>2, <1>6

\* The slice that is written to node c: not the one that waits.
InWork(s, c) == IF Waiting(mail[s], writer[s], c) THEN handed[c][1] ELSE LastOf(handed[c], s)
IsSlice(g, ch, w) == g.channel = ch /\ g.time = w.start
RightSlices ==
  \A s \in Stations, ch \in Channels, c \in Nodes :
    Writes(writer[s][ch], c) => IsSlice(InWork(s, c), ch, writer[s][ch])

\* The streams in the invariant before and after a step.
LEMMA StreamAfter ==
  ASSUME SInv', NEW s \in Stations, NEW c \in Nodes
  PROVE  \E M \in Seq(Messages), W \in [Channels -> Writers], a \in BOOLEAN, L \in Nat,
            h \in Seq(SlicesGiven), f \in 0 .. NumberFfts, owed \in Nat :
           /\ M = mail'[s] /\ W = writer'[s] /\ a = active'[s][c] /\ L = Len(wire'[s][c])
           /\ h = handed'[c] /\ f = fft'[c] /\ owed = Owed(h, f, s)
           /\ Len(h) \in {0, 1, 2} /\ StreamOK(M, W, a, L, owed, c)
<1>1. /\ mail'[s] \in Seq(Messages) /\ writer'[s] \in [Channels -> Writers] /\ active'[s][c] \in BOOLEAN
      /\ handed'[c] \in Seq(SlicesGiven) /\ fft'[c] \in 0 .. NumberFfts /\ Len(wire'[s][c]) \in Nat
  BY DEF SInv, Types, InputTypes, SupplyTypes
<1>2. Len(handed'[c]) \in {0, 1, 2}
  <2>1. handed'[c] = <<>> => Len(handed'[c]) = 0
    OBVIOUS
  <2> QED BY <2>1 DEF SInv, Requests
<1>3. StreamOK(mail'[s], writer'[s], active'[s][c], Len(wire'[s][c]), Owed(handed'[c], fft'[c], s), c)
  BY DEF SInv, Streams, StreamOf
<1>4. PICK h \in Seq(SlicesGiven), f \in 0 .. NumberFfts : h = handed'[c] /\ f = fft'[c]
  BY <1>1
<1>5. Owed(h, f, s) \in Nat
  BY InputNodeAssumption, OwedNatural
<1> QED BY <1>1, <1>2, <1>3, <1>4, <1>5

\* A writer that goes on writing while the slices of the node stay as they are.
LEMMA WorkGoesOn ==
  ASSUME SInv, SInv', NEW s \in Stations, NEW ch \in Channels, NEW c \in Nodes,
         handed'[c] = handed[c], fft'[c] = fft[c],
         Writes(writer[s][ch], c), Writes(writer'[s][ch], c),
         writer'[s][ch].start = writer[s][ch].start,
         \/ writer'[s][ch].left = writer[s][ch].left
         \/ writer'[s][ch].left = writer[s][ch].left - 1,
         Len(wire'[s][c]) = Len(wire[s][c]) \/ Len(wire'[s][c]) = Len(wire[s][c]) + 1,
         IsSlice(InWork(s, c), ch, writer[s][ch])
  PROVE  IsSlice(InWork(s, c)', ch, writer'[s][ch])
<1>1. PICK M \in Seq(Messages), W \in [Channels -> Writers], a \in BOOLEAN, L \in Nat,
           h \in Seq(SlicesGiven), f \in 0 .. NumberFfts, owed \in Nat :
           /\ M = mail[s] /\ W = writer[s] /\ a = active[s][c] /\ L = Len(wire[s][c])
           /\ h = handed[c] /\ f = fft[c] /\ owed = Owed(h, f, s)
           /\ Len(h) \in {0, 1, 2} /\ StreamOK(M, W, a, L, owed, c)
  BY StreamState, Zenon
<1>2. PICK N \in Seq(Messages), V \in [Channels -> Writers], b \in BOOLEAN, K \in Nat,
           k \in Seq(SlicesGiven), i \in 0 .. NumberFfts, due \in Nat :
           /\ N = mail'[s] /\ V = writer'[s] /\ b = active'[s][c] /\ K = Len(wire'[s][c])
           /\ k = handed'[c] /\ i = fft'[c] /\ due = Owed(k, i, s)
           /\ Len(k) \in {0, 1, 2} /\ StreamOK(N, V, b, K, due, c)
  BY StreamAfter, Zenon
<1>3. due = owed
  BY <1>1, <1>2
<1>4. Waiting(N, V, c) <=> Waiting(M, W, c)
  <2>1. NumberFfts \in Nat \ {0}
    BY InputNodeAssumption
  <2>2. L <= K /\ K <= L + 1
    BY <1>1, <1>2
  <2>3. Writes(W[ch], c) /\ Writes(V[ch], c)
    BY <1>1, <1>2
  <2>4. V[ch].left = W[ch].left \/ V[ch].left = W[ch].left - 1
    BY <1>1, <1>2
  <2>5. StreamOK(N, V, b, K, owed, c)
    BY <1>2, <1>3
  <2> QED BY <1>1, <2>1, <2>2, <2>3, <2>4, <2>5, WorkSame
<1>5. InWork(s, c)' = InWork(s, c)
  BY <1>1, <1>2, <1>4, SMTT(30) DEF InWork
<1> QED BY <1>5 DEF IsSlice

\* A writer that begins: no other slice waits then.
LEMMA WorkBegins ==
  ASSUME SInv, SInv', NEW s \in Stations, NEW ch \in Channels, NEW c \in Nodes,
         handed'[c] = handed[c], fft'[c] = fft[c], wire'[s][c] = wire[s][c],
         Begun(writer[s][ch], writer'[s][ch]), writer[s][ch].slices # <<>>,
         c = writer[s][ch].slices[1]
  PROVE  ~Waiting(mail'[s], writer'[s], c)
<1>1. PICK M \in Seq(Messages), W \in [Channels -> Writers], a \in BOOLEAN, L \in Nat,
           h \in Seq(SlicesGiven), f \in 0 .. NumberFfts, owed \in Nat :
           /\ M = mail[s] /\ W = writer[s] /\ a = active[s][c] /\ L = Len(wire[s][c])
           /\ h = handed[c] /\ f = fft[c] /\ owed = Owed(h, f, s)
           /\ Len(h) \in {0, 1, 2} /\ StreamOK(M, W, a, L, owed, c)
  BY StreamState, Zenon
<1>2. PICK N \in Seq(Messages), V \in [Channels -> Writers], b \in BOOLEAN, K \in Nat,
           k \in Seq(SlicesGiven), i \in 0 .. NumberFfts, due \in Nat :
           /\ N = mail'[s] /\ V = writer'[s] /\ b = active'[s][c] /\ K = Len(wire'[s][c])
           /\ k = handed'[c] /\ i = fft'[c] /\ due = Owed(k, i, s)
           /\ Len(k) \in {0, 1, 2} /\ StreamOK(N, V, b, K, due, c)
  BY StreamAfter, Zenon
<1>3. due = owed /\ K = L
  BY <1>1, <1>2, ZenonT(60)
<1>4. /\ W[ch].pc = "found" /\ W[ch].slices # <<>> /\ W[ch].slices[1] = c
      /\ V[ch].pc = "write" /\ V[ch].slices = W[ch].slices /\ V[ch].left = NumberFfts
  BY <1>1, <1>2, ZenonT(60) DEF Begun
<1>5. ~a /\ \A d \in Channels : ~Writes(W[d], c)
  BY <1>1, <1>4, ZenonT(30) DEF StreamOK, OneWrites
<1>6. Writes(V[ch], c)
  BY <1>4 DEF Writes
<1>7. L <= owed /\ owed <= L + NumberFfts + 1
  <2>1. PICK later \in Nat : later = IF Waiting(M, W, c) THEN NumberFfts + 1 ELSE 0
    BY InputNodeAssumption, SMTT(30)
  <2>2. L + later = owed
    BY <1>1, <1>5, <2>1, ZenonT(30) DEF StreamOK, Balance
  <2> QED BY <2>1, <2>2, InputNodeAssumption
<1>8. PICK later \in Nat : later = IF Waiting(N, V, c) THEN NumberFfts + 1 ELSE 0
  BY InputNodeAssumption
<1>9. K + NumberFfts + 1 + later = due
  <2>1. StreamOK(N, V, b, K, due, c)
    BY <1>2
  <2> QED BY <1>4, <1>6, <1>8, <2>1 DEF StreamOK, Balance
<1>10. ~Waiting(N, V, c)
  BY <1>3, <1>7, <1>8, <1>9, InputNodeAssumption
<1> QED BY <1>2, <1>10, ZenonT(30)

\* Nothing is written to the node of a slice that a writer is about to begin.
LEMMA FoundFree ==
  ASSUME SInv, NEW s \in Stations, NEW ch \in Channels, NEW c \in Nodes,
         writer[s][ch].pc = "found", writer[s][ch].slices[1] = c
  PROVE  \A d \in Channels : ~Writes(writer[s][d], c)
<1>1. StreamOK(mail[s], writer[s], active[s][c], Len(wire[s][c]), Owed(handed[c], fft[c], s), c)
  BY DEF SInv, Streams, StreamOf
<1>2. OneWrites(writer[s], active[s][c], c)
  BY <1>1 DEF StreamOK
<1> QED BY <1>2 DEF OneWrites

\* What a writer that writes did before.
LEMMA WorkBefore ==
  ASSUME NEW ch, NEW M \in Seq(Messages), NEW N, NEW w \in Writers, NEW v \in Writers,
         w.pc \in {"found", "write"} => w.slices # <<>>,
         Seen(ch, M, N, w, v), NEW c, Writes(v, c)
  PROVE  \/ Begun(w, v) /\ w.slices # <<>> /\ c = w.slices[1] /\ N = M
         \/ Writes(w, c) /\ v.start = w.start /\ (v.left = w.left \/ v.left = w.left - 1)
<1>1. v.pc = "write" /\ v.slices # <<>> /\ v.slices[1] = c /\ w.slices \in Seq(Nodes)
  BY DEF Writes, Writers
<1>2. CASE TookMessage(ch, M, N, w, v)
  <2>1. CASE v = w
    BY <2>1
  <2>2. CASE GotInterval(w, v, <<M[1].start, M[1].stop>>)
    BY <2>2 DEF GotInterval, Writes
  <2>3. CASE M[1].type = "ADD_TIME_SLICE" /\ GotSlice(w, v, M[1].stream)
    <3>1. PICK e \in Nodes : e = M[1].stream
      <4>1. M # <<>>
        BY <1>2 DEF TookMessage
      <4>2. M[1] \in Messages
        BY <4>1
      <4> QED BY <2>3, <4>2, SliceMessage
    <3>2. v.slices = Append(w.slices, e) /\ v.pc = w.pc /\ v.start = w.start /\ v.left = w.left
      BY <2>3, <3>1 DEF GotSlice
    <3>3. w.pc = "write" /\ w.slices # <<>>
      BY <1>1, <3>2
    <3>4. v.slices[1] = w.slices[1]
      BY <1>1, <3>2, <3>3
    <3> QED BY <1>1, <3>2, <3>3, <3>4 DEF Writes
  <2> QED BY <1>2, <2>1, <2>2, <2>3 DEF TookMessage
<1>3. CASE N = M /\ v = w
  BY <1>3
<1>4. CASE N = M /\ Worked(w, v)
  <2>1. CASE Begun(w, v)
    <3>1. w.pc = "found" /\ v.slices = w.slices
      BY <2>1 DEF Begun
    <3> QED BY <1>1, <1>4, <2>1, <3>1
  <2>2. CASE Written(w, v)
    <3>1. w.pc = "write" /\ v.slices = w.slices /\ v.start = w.start /\ v.left = w.left - 1
      BY <2>2 DEF Written
    <3> QED BY <1>1, <3>1 DEF Writes
  <2>3. CASE Fetched(w, v) \/ Found(w, v) \/ Ended(w, v)
    <3>1. v.pc = "idle" \/ v.pc = "found"
      BY <2>3 DEF Fetched, Found, Ended
    <3> QED BY <1>1, <3>1
  <2> QED BY <1>4, <2>1, <2>2, <2>3 DEF Worked
<1> QED BY <1>2, <1>3, <1>4 DEF Seen

\* The slice that a writer begins is one of its channel, and of the time of its clock.
LEMMA BegunRight ==
  ASSUME SInv, Clocks, SlicesInTurn, RightChannels,
         NEW s \in Stations, NEW ch \in Channels, NEW c \in Nodes, Alive(s),
         NEW v \in Writers, Begun(writer[s][ch], v), writer[s][ch].slices # <<>>,
         c = writer[s][ch].slices[1]
  PROVE  IsSlice(LastOf(handed[c], s), ch, v)
<1>1. PICK w \in Writers, M \in Seq(Messages) : w = writer[s][ch] /\ M = mail[s]
  BY DEF SInv, Types, InputTypes
<1>2. w.pc = "found" /\ v.start = w.time /\ w.slices # <<>> /\ c = w.slices[1]
  BY <1>1 DEF Begun
<1>3. 1 \in DOMAIN w.slices /\ Waits(w, 1, c)
  <2>1. w.slices \in Seq(Nodes)
    BY DEF Writers
  <2> QED BY <1>2, <2>1 DEF Waits
<1>4. WaitsFor(M, w, ch, c)
  BY <1>3 DEF WaitsFor
<1>5. LastOf(handed[c], s).channel = ch
  BY <1>1, <1>4 DEF RightChannels
<1>6. handed[c] # <<>>
  <2>1. Waiting(M, writer[s], c)
    BY <1>1, <1>4, WaitsWaiting
  <2> QED BY <1>1, <2>1, WaitsForLast
<1>7. HandedOK(handed)
  BY HandedKnown
<1>8. PICK T \in NodeTimes : T = Times(handed, s)
  BY <1>7, TimesType
<1>9. T[c] = LastOf(handed[c], s).time /\ T[c] \in Nat
  BY <1>6, <1>7, <1>8, TimesType DEF SlicesGiven
<1>10. InAScan(s, w) /\ SliceLine(s, ch, M, w, T, TimesNext(s, ch, mScan, mTime, mChannels))
  BY <1>1, <1>8 DEF Clocks, WriterClocks, WriterLine, SlicesInTurn
<1>11. T[w.slices[1]] = w.time
  <2>1. Begun(w, v)
    BY <1>1
  <2>2. T[w.slices[1]] \in Nat
    BY <1>2, <1>9
  <2>3. PICK C : SliceLine(s, ch, M, w, T, C)
    BY <1>10
  <2>4. w.slices # <<>> /\ InAScan(s, w)
    BY <1>2, <1>10
  <2>5. T[w.slices[1]] = w.time /\ SliceLine(s, ch, M, v, T, C)
    BY <2>1, <2>2, <2>3, <2>4, SliceLineBegun
  <2> QED BY <2>5
<1> QED BY <1>2, <1>5, <1>9, <1>11 DEF IsSlice

LEMMA RightSlicesStation ==
  ASSUME SInv, SInv', Clocks, Clocks', SlicesInTurn, RightChannels, RightSlices,
         NEW r \in Stations, InputStep(r)
  PROVE  RightSlices'
<1>1. InputTypes /\ InputTypes' /\ WriterStates
  BY DEF SInv, Types
<1>2. handed' = handed /\ fft' = fft
  BY DEF InputStep, sVars
<1>3. SUFFICES ASSUME NEW s \in Stations, NEW ch \in Channels, NEW c \in Nodes, Writes(writer'[s][ch], c)
               PROVE  IsSlice(InWork(s, c)', ch, writer'[s][ch])
  BY DEF RightSlices
<1>4. Alive(s)'
  BY <1>3 DEF Writes, Clocks, WritersAlive
<1>5. Alive(s) /\ Seen(ch, mail[s], mail'[s], writer[s][ch], writer'[s][ch])
  BY <1>1, <1>4, StationSeen
<1>6. PICK w \in Writers, v \in Writers, M \in Seq(Messages), N \in Seq(Messages) :
        w = writer[s][ch] /\ v = writer'[s][ch] /\ M = mail[s] /\ N = mail'[s]
  BY <1>1 DEF InputTypes
<1>7. w.pc \in {"found", "write"} => w.slices # <<>>
  BY <1>1, <1>6 DEF WriterStates
<1>8. \/ Begun(w, v) /\ w.slices # <<>> /\ c = w.slices[1]
      \/ Writes(w, c) /\ v.start = w.start /\ (v.left = w.left \/ v.left = w.left - 1)
  BY <1>3, <1>5, <1>6, <1>7, WorkBefore
<1>9. CASE Begun(w, v) /\ w.slices # <<>> /\ c = w.slices[1]
  <2>1. \A d \in Channels : ~Writes(writer[s][d], c)
    BY <1>6, <1>9, FoundFree DEF Begun
  <2>2. wire'[s][c] = wire[s][c]
    BY <1>1, <2>1, WireSeen
  <2>3. ~Waiting(mail'[s], writer'[s], c)
    BY <1>2, <1>6, <1>9, <2>2, WorkBegins
  <2>4. IsSlice(LastOf(handed[c], s), ch, v)
    BY <1>5, <1>6, <1>9, BegunRight
  <2>5. InWork(s, c)' = LastOf(handed[c], s)
    BY <1>2, <2>3 DEF InWork
  <2> QED BY <1>6, <2>4, <2>5
<1>10. CASE Writes(w, c) /\ v.start = w.start /\ (v.left = w.left \/ v.left = w.left - 1)
  <2>1. Len(wire'[s][c]) = Len(wire[s][c]) \/ Len(wire'[s][c]) = Len(wire[s][c]) + 1
    <3>1. wire[s][c] \in Seq(Units)
      BY <1>1 DEF InputTypes
    <3>2. \A u \in Units : Len(Append(wire[s][c], u)) = Len(wire[s][c]) + 1
      BY <3>1
    <3> QED BY <1>1, <3>2, WireSeen, SMTT(30)
  <2>2. IsSlice(InWork(s, c), ch, writer[s][ch])
    BY <1>6, <1>10 DEF RightSlices
  <2>3. Writes(writer[s][ch], c) /\ writer'[s][ch].start = writer[s][ch].start
    BY <1>6, <1>10
  <2>4. \/ writer'[s][ch].left = writer[s][ch].left
        \/ writer'[s][ch].left = writer[s][ch].left - 1
    BY <1>6, <1>10
  <2> QED BY <1>2, <1>3, <2>1, <2>2, <2>3, <2>4, WorkGoesOn
<1> QED BY <1>8, <1>9, <1>10

\* A node that has all data of its first slice, while more is written to it: what is written is
\* of its second slice, and no other waits.
LEMMA WorkOfNext ==
  ASSUME SInv, SInv', NEW s \in Stations, NEW ch \in Channels, NEW c \in Nodes,
         FinishSlice(c), Writes(writer[s][ch], c)
  PROVE  /\ ~Waiting(mail[s], writer[s], c) /\ ~Waiting(mail'[s], writer'[s], c)
         /\ LastOf(handed'[c], s) = LastOf(handed[c], s)
<1>1. PICK N \in Seq(Messages), V \in [Channels -> Writers], b \in BOOLEAN, K \in Nat,
           k \in Seq(SlicesGiven), i \in 0 .. NumberFfts, due \in Nat :
           /\ N = mail'[s] /\ V = writer'[s] /\ b = active'[s][c] /\ K = Len(wire'[s][c])
           /\ k = handed'[c] /\ i = fft'[c] /\ due = Owed(k, i, s)
           /\ Len(k) \in {0, 1, 2} /\ StreamOK(N, V, b, K, due, c)
  BY StreamAfter, Zenon
<1>2. mail' = mail /\ writer' = writer /\ handed[c] # <<>>
  BY DEF FinishSlice
<1>3. PICK h \in Seq(SlicesGiven) : h = handed[c] /\ k = Tail(h) /\ i = 0
  BY <1>1 DEF FinishSlice, SInv, Types, SupplyTypes
<1>4. Len(h) \in {1, 2}
  BY <1>2, <1>3, SlicesOfNode DEF SInv
<1>5. NumberFfts \in Nat /\ 0 \in 0 .. NumberFfts /\ NumberFfts + 1 > 0
  BY InputNodeAssumption
<1>6. PICK left \in 0 .. NumberFfts, later \in Nat :
           /\ left = V[ch].left /\ K + left + 1 + later = due
           /\ Waiting(N, V, c) => later = NumberFfts + 1
           /\ ~Waiting(N, V, c) => later = 0
  <2>1. PICK left \in 0 .. NumberFfts : left = V[ch].left
    BY DEF Writers
  <2>2. PICK later \in Nat : later = IF Waiting(N, V, c) THEN NumberFfts + 1 ELSE 0
    BY <1>5
  <2>3. Writes(V[ch], c) /\ StreamOK(N, V, b, K, due, c)
    BY <1>1, <1>2
  <2>4. K + left + 1 + later = due
    BY <2>1, <2>2, <2>3 DEF StreamOK, Balance
  <2> QED BY <2>1, <2>2, <2>4
<1>7. due > 0 /\ due = Owed(k, 0, s)
  BY <1>1, <1>3, <1>6, SMTT(30)
<1>8. Len(h) = 2
  <2>1. Owed(k, 0, s) > 0 => k # <<>>
    BY <1>1, <1>5, OwedSlices
  <2>2. Len(h) = 1 => k = <<>>
    BY <1>3, <1>4, LastLeft
  <2> QED BY <1>4, <1>7, <2>1, <2>2
<1>9. k # <<>> /\ k[1] = h[2] /\ LastOf(k, s) = h[2] /\ Len(k) = 1
  BY <1>3, <1>4, <1>8, LastLeft, SMTT(30)
<1>10. PICK o \in 0 .. NumberFfts + 1 : o = OwedOf(k[1], s, 0)
  BY <1>1, <1>5, OwedSlices
<1>11. /\ due = o /\ (s \notin k[1].stations => o = 0)
  <2>1. Owed(k, 0, s) = OwedOf(k[1], s, 0)
    BY <1>1, <1>5, <1>9, OwedSlices
  <2>2. s \notin k[1].stations => OwedOf(k[1], s, 0) = 0
    BY <1>1, <1>5, <1>9, OwedSlices
  <2> QED BY <1>7, <1>10, <2>1, <2>2
<1>12. s \in h[2].stations
  BY <1>7, <1>9, <1>11
<1>13. later = 0
  BY <1>5, <1>6, <1>10, <1>11
<1>14. ~Waiting(N, V, c)
  BY <1>5, <1>6, <1>13
<1>15. LastOf(h, s) = h[2]
  BY <1>8, <1>12 DEF LastOf
<1> QED BY <1>1, <1>2, <1>3, <1>9, <1>14, <1>15

LEMMA RightSlicesNode ==
  ASSUME SInv, SInv', RightSlices, NEW d \in Nodes, NodeStep(d)
  PROVE  RightSlices'
<1>1. mail' = mail /\ writer' = writer
  BY DEF NodeStep, Correlate, Request, FinishSlice, iVars
<1>2. SUFFICES ASSUME NEW s \in Stations, NEW ch \in Channels, NEW c \in Nodes, Writes(writer[s][ch], c)
               PROVE  IsSlice(InWork(s, c)', ch, writer[s][ch])
  BY <1>1 DEF RightSlices
<1>3. IsSlice(InWork(s, c), ch, writer[s][ch])
  BY <1>2 DEF RightSlices
<1>4. CASE handed'[c] = handed[c]
  <2>1. InWork(s, c)' = InWork(s, c)
    BY <1>1, <1>4 DEF InWork
  <2> QED BY <1>3, <2>1
<1>5. CASE FinishSlice(d) /\ c = d
  <2>1. /\ ~Waiting(mail[s], writer[s], c) /\ ~Waiting(mail'[s], writer'[s], c)
        /\ LastOf(handed'[c], s) = LastOf(handed[c], s)
    BY <1>2, <1>5, WorkOfNext
  <2>2. InWork(s, c)' = InWork(s, c)
    BY <2>1 DEF InWork
  <2> QED BY <1>3, <2>2
<1>6. handed'[c] = handed[c] \/ (FinishSlice(d) /\ c = d)
  <2>1. CASE Correlate(d) \/ Request(d)
    BY <2>1 DEF Correlate, Request
  <2>2. CASE FinishSlice(d)
    <3>1. handed \in [Nodes -> Seq(SlicesGiven)]
      BY DEF SInv, Types, SupplyTypes
    <3> QED BY <2>2, <3>1 DEF FinishSlice
  <2> QED BY <2>1, <2>2 DEF NodeStep
<1> QED BY <1>4, <1>5, <1>6

\* A node that is given its second slice while its first is still written.
LEMMA WorkOfFirst ==
  ASSUME SInv, NEW s \in Stations, NEW ch \in Channels, NEW c \in Nodes, NEW g \in SlicesGiven,
         NEW m \in Messages, HandsOut(c, g, m), Len(handed[c]) \in {0, 1},
         ~Waiting(mail[s], writer[s], c), Writes(writer[s][ch], c)
  PROVE  InWork(s, c)' = InWork(s, c)
<1>1. PICK M \in Seq(Messages), W \in [Channels -> Writers], a \in BOOLEAN, L \in Nat,
           h \in Seq(SlicesGiven), f \in 0 .. NumberFfts, owed \in Nat :
           /\ M = mail[s] /\ W = writer[s] /\ a = active[s][c] /\ L = Len(wire[s][c])
           /\ h = handed[c] /\ f = fft[c] /\ owed = Owed(h, f, s)
           /\ Len(h) \in {0, 1, 2} /\ StreamOK(M, W, a, L, owed, c)
  BY StreamState, Zenon
<1>2. NumberFfts \in Nat
  BY InputNodeAssumption
<1>3. owed > 0
  <2>1. owed >= L + W[ch].left + 1
    BY <1>1, <1>2, WaitingOwed
  <2>2. W[ch].left \in Nat
    BY DEF Writers
  <2> QED BY <2>1, <2>2
<1>4. Len(h) = 1
  <2>1. Owed(h, f, s) > 0
    BY <1>1, <1>2, <1>3
  <2>2. Len(h) \in {1, 2}
    BY <1>1, <1>2, <2>1, OwedSlices
  <2>3. PICK n \in {0, 1} : n = Len(h)
    BY <1>1
  <2>4. n = 1
    BY <2>2, <2>3
  <2> QED BY <2>3, <2>4
<1>5. LastOf(h, s) = h[1]
  BY <1>4 DEF LastOf
<1>6. InWork(s, c) = h[1]
  BY <1>1, <1>5 DEF InWork
<1>7. handed'[c] = Append(h, g)
  BY <1>1, HandedTo
<1>8. Append(h, g)[1] = h[1]
  BY <1>4, LastHanded
<1>9. CASE s \in g.stations
  <2>1. mail'[s] = Append(M, m) /\ IsFor(m, c)
    BY <1>1, <1>9 DEF HandsOut, IsFor
  <2>2. Mailed(Append(M, m), c)
    BY <2>1, MailAdded
  <2>3. Waiting(mail'[s], writer'[s], c)
    BY <2>1, <2>2 DEF Waiting
  <2> QED BY <1>6, <1>7, <1>8, <2>3 DEF InWork
<1>10. CASE s \notin g.stations
  <2>1. mail'[s] = mail[s] /\ writer' = writer
    BY <1>10 DEF HandsOut
  <2>2. LastOf(Append(h, g), s) = h[1]
    BY <1>4, <1>10, LastHanded
  <2> QED BY <1>6, <1>7, <2>1, <2>2 DEF InWork
<1> QED BY <1>9, <1>10

LEMMA RightSlicesManager ==
  ASSUME SInv, SInv', RightSlices, ManagerStep
  PROVE  RightSlices'
<1>1. writer' = writer /\ wire' = wire /\ fft' = fft
  BY DEF ManagerStep, StartNewScan, StartCorrelatorNode, EndNodes
<1>2. SUFFICES ASSUME NEW s \in Stations, NEW ch \in Channels, NEW c \in Nodes, Writes(writer[s][ch], c)
               PROVE  IsSlice(InWork(s, c)', ch, writer'[s][ch])
  BY <1>1 DEF RightSlices
<1>3. IsSlice(InWork(s, c), ch, writer[s][ch])
  BY <1>2 DEF RightSlices
<1>4. ASSUME handed'[c] = handed[c]
      PROVE  IsSlice(InWork(s, c)', ch, writer'[s][ch])
  BY <1>1, <1>2, <1>3, <1>4, WorkGoesOn
<1>5. CASE StartCorrelatorNode
  <2>1. PICK e \in Nodes, g \in SlicesGiven, m \in Messages :
           /\ HandsOut(e, g, m) /\ Len(handed[e]) \in {0, 1}
           /\ \A r \in Stations : ~Waiting(mail[r], writer[r], e)
    BY <1>5, HandingOut
  <2>2. CASE c # e
    <3>1. handed'[c] = handed[c]
      BY <2>1, <2>2, HandedTo
    <3> QED BY <1>4, <3>1
  <2>3. CASE c = e
    <3>1. InWork(s, c)' = InWork(s, c)
      BY <1>2, <2>1, <2>3, WorkOfFirst
    <3> QED BY <1>1, <1>3, <3>1
  <2> QED BY <2>2, <2>3
<1>6. CASE StartNewScan \/ EndNodes
  <2>1. handed' = handed
    BY <1>6 DEF StartNewScan, EndNodes
  <2> QED BY <1>4, <2>1
<1> QED BY <1>5, <1>6 DEF ManagerStep

LEMMA RightSlicesNext ==
  ASSUME SInv, SInv', Clocks, Clocks', SlicesInTurn, RightChannels, RightSlices, [Next]_vars
  PROVE  RightSlices'
<1>1. CASE UNCHANGED vars
  BY <1>1 DEF vars, iVars, sVars, RightSlices, InWork
<1> QED BY <1>1, RightSlicesStation, RightSlicesNode, RightSlicesManager DEF Next

-----------------------------------------------------------------------------
\* The blocks F of a channel that its data writer has not read and, as the last, that which the
\* reader reads next: each follows the one before, or begins the next scan of the station.
FollowsBlock(s, a, b) ==
  /\ a \in Nat
  /\ \/ b = a + 1
     \/ \E k, j \in DOMAIN Scans : a = Scans[k].stop /\ NextScan(s, k, j) /\ b = Scans[j].start
Linked(s, F) == \A i \in 1 .. Len(F) - 1 : FollowsBlock(s, F[i], F[i + 1])

\* None of the data that writer w takes next has been passed, and in a slice they are the first.
FeedOK(s, F, w) ==
  /\ Linked(s, F)
  /\ \A u \in Needed(s, w) : F[1] <= u
  /\ w.pc = "write" /\ w.left < NumberFfts /\ w.left > 0 => F[1] = w.time
Feeds ==
  \A s \in Stations, ch \in Channels :
    Alive(s) => FeedOK(s, Append(blocks[s][ch], readTime[s]), writer[s][ch])

\* The order of the scans of a station.
LEMMA NextLeast ==
  ASSUME NEW s, NEW k \in Nat, NEW j, NextScan(s, k, j), NEW i, In(s, i), k < i
  PROVE  Scans[j].start <= Scans[i].start
<1>1. i \in DOMAIN Scans /\ j \in DOMAIN Scans /\ i \in Nat /\ j \in Nat
  BY ScanRange DEF In, NextScan
<1>2. ~(i < j)
  BY <1>1 DEF NextScan, In
<1>3. CASE i = j
  BY <1>1, <1>3, ScanRange
<1>4. CASE j < i
  <2>1. Scans[j].stop <= Scans[i].start
    BY <1>1, <1>4, ScanOrder
  <2>2. Scans[j].start < Scans[j].stop /\ Scans[j].start \in Nat /\ Scans[j].stop \in Nat
        /\ Scans[i].start \in Nat
    BY <1>1, ScanRange
  <2> QED BY <2>1, <2>2
<1> QED BY <1>1, <1>2, <1>3, <1>4

\* Between two scans that do not follow each other at once.
LEMMA ScanGap ==
  ASSUME ScansApart, NEW j \in DOMAIN Scans, NEW k \in DOMAIN Scans, j < k
  PROVE  Scans[j].stop < Scans[k].start
<1>1. j \in Nat /\ k \in Nat /\ j > 0 /\ DOMAIN Scans = 1 .. Len(Scans) /\ Len(Scans) \in Nat
  BY ScanRange
<1>2. PICK h \in DOMAIN Scans : h = k - 1 /\ (h = j \/ j < h)
  BY <1>1
<1>3. k > 1
  BY <1>1
<1>4. Scans[h].stop < Scans[k].start
  BY <1>2, <1>3 DEF ScansApart
<1>5. CASE h = j
  BY <1>4, <1>5
<1>6. CASE j < h
  <2>1. Scans[j].stop <= Scans[h].start
    BY <1>6, ScanOrder
  <2>2. PICK a \in Nat, b \in Nat, d \in Nat, e \in Nat :
          a = Scans[j].stop /\ b = Scans[h].start /\ d = Scans[h].stop /\ e = Scans[k].start
    BY ScanRange
  <2>3. a <= b /\ b < d /\ d < e
    BY <1>4, <2>1, <2>2, ScanRange
  <2>4. a < e
    BY <2>3
  <2> QED BY <2>2, <2>4
<1> QED BY <1>2, <1>5, <1>6

LEMMA LaterScan ==
  ASSUME ScansApart, NEW k \in DOMAIN Scans, NEW i \in DOMAIN Scans, NEW t \in Int,
         Scans[k].stop < t, t <= Scans[i].stop
  PROVE  k < i /\ Scans[k].stop < Scans[i].start
<1>1. /\ i \in Nat /\ k \in Nat /\ Scans[i].stop \in Nat /\ Scans[k].stop \in Nat
      /\ Scans[k].start \in Nat /\ Scans[k].start < Scans[k].stop
  BY ScanRange
<1>2. i # k
  BY <1>1
<1>3. ~(i < k)
  <2>1. i < k => Scans[i].stop < Scans[k].start
    BY ScanGap
  <2> QED BY <1>1, <2>1
<1>4. k < i
  BY <1>1, <1>2, <1>3
<1> QED BY <1>4, ScanGap

\* What follows a block.
LEMMA Follows ==
  ASSUME ScansApart, NEW s, NEW a, NEW b, FollowsBlock(s, a, b)
  PROVE  /\ a \in Nat /\ b \in Nat /\ a < b
         /\ \A k \in DOMAIN Scans : In(s, k) /\ a < Scans[k].stop /\ Scans[k].start <= a => b = a + 1
         /\ \A k \in DOMAIN Scans, t \in Int :
              In(s, k) /\ Scans[k].start <= t /\ t <= Scans[k].stop /\ a < t => b <= t
<1>1. a \in Nat
  BY DEF FollowsBlock
<1>2. CASE b = a + 1
  BY <1>1, <1>2
<1>3. CASE \E k, j \in DOMAIN Scans : a = Scans[k].stop /\ NextScan(s, k, j) /\ b = Scans[j].start
  <2>1. PICK i \in DOMAIN Scans, j \in DOMAIN Scans :
          a = Scans[i].stop /\ NextScan(s, i, j) /\ b = Scans[j].start
    BY <1>3
  <2>2. i \in Nat /\ j \in Nat /\ i < j /\ b \in Nat
    BY <2>1, ScanRange DEF NextScan
  <2>3. a < b
    BY <2>1, <2>2, ScanGap
  <2>4. ASSUME NEW k \in DOMAIN Scans, a < Scans[k].stop, Scans[k].start <= a
        PROVE  FALSE
    <3>1. /\ Scans[k].start \in Nat /\ Scans[k].stop \in Nat /\ Scans[i].start \in Nat
          /\ Scans[i].start < a /\ k \in Nat
      BY <2>1, ScanRange
    <3>2. ~(i < k)
      <4>1. i < k => a < Scans[k].start
        BY <2>1, ScanGap
      <4> QED BY <1>1, <2>4, <3>1, <4>1
    <3>3. ~(k < i)
      <4>1. k < i => Scans[k].stop <= Scans[i].start
        BY ScanOrder
      <4> QED BY <1>1, <2>4, <3>1, <4>1
    <3>4. i = k
      BY <2>2, <3>1, <3>2, <3>3
    <3> QED BY <1>1, <2>1, <2>4, <3>1, <3>4
  <2>5. ASSUME NEW k \in DOMAIN Scans, NEW t \in Int, In(s, k), Scans[k].start <= t,
               t <= Scans[k].stop, a < t
        PROVE  b <= t
    <3>1. i < k
      BY <2>1, <2>5, LaterScan
    <3>2. b <= Scans[k].start
      BY <2>1, <2>2, <2>5, <3>1, NextLeast
    <3>3. Scans[k].start \in Nat
      BY ScanRange
    <3> QED BY <2>2, <2>5, <3>2, <3>3
  <2> QED BY <1>1, <2>2, <2>3, <2>4, <2>5
<1> QED BY <1>2, <1>3 DEF FollowsBlock

\* What a writer needs that is later in its scan, or is done with it, comes later.
LEMMA NeededLater ==
  ASSUME NEW s, NEW k \in 0 .. Len(Scans), NEW w, NEW v, WriterIn(s, k, w), WriterIn(s, k, v),
         w.time \in Int, v.time \in Int, w.time <= v.time, NEW x \in Int,
         \A u \in Needed(s, w) : x <= u
  PROVE  \A u \in Needed(s, v) : x <= u
<1>1. Needed(s, w) = TimesFrom(s, k, w.time) /\ Needed(s, v) = TimesFrom(s, k, v.time)
  BY WriterDue
<1>2. StopOf(k) \in Nat
  BY ScanRange DEF StopOf
<1>3. CASE v.time < StopOf(k)
  <2>1. w.time < StopOf(k)
    BY <1>2, <1>3
  <2>2. x <= w.time
    BY <1>1, <2>1 DEF TimesFrom
  <2>3. Needed(s, v) = {v.time}
    BY <1>1, <1>3 DEF TimesFrom
  <2> QED BY <2>2, <2>3
<1>4. CASE ~(v.time < StopOf(k)) /\ w.time < StopOf(k)
  <2>1. x <= w.time
    BY <1>1, <1>4 DEF TimesFrom
  <2>2. Needed(s, v) = StartsAfter(s, k)
    BY <1>1, <1>4 DEF TimesFrom
  <2>3. ASSUME NEW j, NextScan(s, k, j) PROVE x <= Scans[j].start
    <3>1. j \in DOMAIN Scans /\ k < j /\ Scans[j].start \in Nat
      BY <2>3, ScanRange DEF NextScan, In
    <3>2. StopOf(k) <= Scans[j].start
      <4>1. CASE k = 0
        BY <3>1, <4>1 DEF StopOf
      <4>2. CASE k # 0
        <5>1. k \in DOMAIN Scans
          BY <4>2, ScanRange
        <5>2. Scans[k].stop <= Scans[j].start /\ Scans[k].stop \in Nat
          BY <3>1, <5>1, ScanOrder, ScanRange
        <5> QED BY <3>1, <4>2, <5>2 DEF StopOf
      <4> QED BY <4>1, <4>2
    <3> QED BY <1>2, <1>4, <2>1, <3>1, <3>2
  <2>4. ASSUME NEW u \in Needed(s, v) PROVE x <= u
    <3>1. PICK j : NextScan(s, k, j) /\ u = Scans[j].start
      BY <2>2, <2>4, StartAfter
    <3> QED BY <2>3, <3>1
  <2> QED BY <2>4
<1>5. CASE ~(v.time < StopOf(k)) /\ ~(w.time < StopOf(k))
  BY <1>1, <1>5 DEF TimesFrom
<1> QED BY <1>3, <1>4, <1>5

\* The feed when its first block is read, as a sequence.
LEMMA FeedPlaces ==
  ASSUME NEW B \in Seq(Int), NEW t \in Int
  PROVE  /\ Append(B, t) \in Seq(Int) /\ Len(Append(B, t)) = Len(B) + 1 /\ Len(B) \in Nat
         /\ \A i \in 1 .. Len(B) : Append(B, t)[i] = B[i]
         /\ Append(B, t)[Len(B) + 1] = t /\ Append(B, t)[1] \in Int
BY SMTT(30)

LEMMA FeedTail ==
  ASSUME NEW B \in Seq(Int), B # <<>>, NEW t \in Int
  PROVE  /\ Len(Append(Tail(B), t)) = Len(B) /\ Len(B) \in Nat \ {0}
         /\ \A i \in 1 .. Len(B) : Append(Tail(B), t)[i] = Append(B, t)[i + 1]
<1>1. PICK C \in Seq(Int) : C = Tail(B) /\ Len(C) = Len(B) - 1 /\ \A i \in 1 .. Len(C) : C[i] = B[i + 1]
  <2>1. Tail(B) \in Seq(Int) /\ Len(Tail(B)) = Len(B) - 1
        /\ \A i \in 1 .. Len(Tail(B)) : Tail(B)[i] = B[i + 1]
    BY HeadTailProperties
  <2> QED BY <2>1, ZenonT(30)
<1>2. PICK n \in Nat \ {0} : n = Len(B)
  BY EmptySeq
<1>3. /\ Len(Append(C, t)) = n /\ Append(C, t)[n] = t
      /\ \A i \in 1 .. n - 1 : Append(C, t)[i] = C[i]
  BY <1>1, <1>2, FeedPlaces
<1>4. Append(B, t)[n + 1] = t /\ \A i \in 1 .. n : Append(B, t)[i] = B[i]
  BY <1>2, FeedPlaces
<1>5. ASSUME NEW i \in 1 .. n PROVE Append(C, t)[i] = Append(B, t)[i + 1]
  <2>1. CASE i = n
    BY <1>3, <1>4, <2>1, ZenonT(30)
  <2>2. CASE i # n
    <3>1. i \in 1 .. n - 1
      BY <2>2
    <3>2. i + 1 \in 1 .. n /\ Len(C) = n - 1
      BY <1>1, <1>2, <3>1
    <3> QED BY <1>1, <1>3, <1>4, <3>1, <3>2, ZenonT(30)
  <2> QED BY <2>1, <2>2
<1> QED BY <1>1, <1>2, <1>3, <1>5

\* What a writer needs is of a scan of the station.
LEMMA NeededScan ==
  ASSUME NEW s, NEW w \in Writers, NEW k \in 0 .. Len(Scans), WriterIn(s, k, w), NEW u \in Needed(s, w)
  PROVE  \E i \in DOMAIN Scans : In(s, i) /\ Scans[i].start <= u /\ u <= Scans[i].stop /\ u \in Int
<1>1. Needed(s, w) = TimesFrom(s, k, w.time)
  BY WriterDue
<1>2. w.stop = StopOf(k) /\ w.time \in Int
  BY DEF WriterIn, Writers
<1>3. CASE w.time < StopOf(k)
  <2>1. u = w.time
    BY <1>1, <1>3 DEF TimesFrom
  <2>2. k # 0
    BY <1>3 DEF StopOf, WriterIn
  <2>3. k \in DOMAIN Scans /\ In(s, k) /\ w.stop = Scans[k].stop /\ Scans[k].start <= w.time
        /\ w.time <= w.stop
    BY <2>2, WriterTime
  <2> QED BY <1>2, <2>1, <2>3
<1>4. CASE ~(w.time < StopOf(k))
  <2>1. u \in StartsAfter(s, k)
    BY <1>1, <1>4 DEF TimesFrom
  <2>2. PICK j : NextScan(s, k, j) /\ u = Scans[j].start
    BY <2>1, StartAfter
  <2>3. j \in DOMAIN Scans /\ In(s, j)
    BY <2>2 DEF NextScan, In
  <2>4. Scans[j].start \in Nat /\ Scans[j].stop \in Nat /\ Scans[j].start < Scans[j].stop
    BY <2>3, ScanRange
  <2> QED BY <2>2, <2>3, <2>4
<1> QED BY <1>3, <1>4

\* A writer that is within a slice.
LEMMA WithinSlice ==
  ASSUME NEW s, NEW w \in Writers, NEW k \in 0 .. Len(Scans), WriterIn(s, k, w), w.pc = "write",
         w.left > 0
  PROVE  /\ k \in DOMAIN Scans /\ In(s, k) /\ w.time \in Nat
         /\ Scans[k].start <= w.time /\ w.time < Scans[k].stop
         /\ w.left < NumberFfts => Scans[k].start < w.time
         /\ Needed(s, w) = {w.time}
<1>1. PICK N \in Nat : N = NumberFfts /\ N > 0
  BY InputNodeAssumption
<1>2. PICK x \in Int, z \in Nat, l \in 0 .. N : x = w.time /\ z = w.start /\ l = w.left
  BY <1>1, WriterTime DEF Writers
<1>3. k # 0 /\ Scans[k].start <= z /\ x = z + N - l /\ x < w.stop
  BY <1>1, <1>2, WriterTime
<1>4. k \in DOMAIN Scans /\ In(s, k) /\ w.stop = Scans[k].stop
  BY <1>3, WriterTime
<1>5. PICK a \in Nat : a = Scans[k].start
  BY <1>4, ScanRange
<1>6. x \in Nat /\ a <= x /\ (l < N => a < x)
  <2>1. a <= z /\ x = z + N - l
    BY <1>3, <1>5
  <2>2. z <= x /\ (l < N => z < x)
    BY <1>1, <2>1
  <2> QED BY <2>1, <2>2
<1>7. Needed(s, w) = TimesFrom(s, k, x) /\ w.stop = StopOf(k)
  BY <1>2, WriterDue DEF WriterIn
<1>8. Needed(s, w) = {x}
  BY <1>3, <1>7 DEF TimesFrom
<1> QED BY <1>1, <1>2, <1>3, <1>4, <1>5, <1>6, <1>8

\* The reader reads a block: the next follows it.
LEMMA FeedRead ==
  ASSUME NEW s, NEW k \in 0 .. Len(Scans), NEW R, NEW P, NEW t \in Int, NEW u,
         ReaderIn(s, k, R, t), ReadOn(R, P, t, u),
         NEW B \in Seq(Int), NEW w, FeedOK(s, Append(B, t), w)
  PROVE  FeedOK(s, Append(Append(B, t), u), w)
<1>1. k # 0 /\ u = t + 1 /\ t \in Nat
  <2>1. k # 0
    BY ReaderOn
  <2>2. k \in DOMAIN Scans /\ Scans[k].start <= t
    BY <2>1, ScanRange DEF ReaderIn
  <2>3. Scans[k].start \in Nat
    BY <2>2, ScanRange
  <2> QED BY <2>1, <2>2, <2>3 DEF ReadOn
<1>2. PICK F \in Seq(Int) :
        F = Append(B, t) /\ Len(F) = Len(B) + 1 /\ Len(B) \in Nat /\ F[Len(B) + 1] = t
  BY FeedPlaces
<1>3. u \in Int
  BY <1>1
<1>4. PICK n \in Nat \ {0} : n = Len(F)
  BY <1>2
<1>5. PICK G \in Seq(Int) : /\ G = Append(F, u) /\ Len(G) = n + 1 /\ G[n + 1] = u
                            /\ \A i \in 1 .. n : G[i] = F[i]
  BY <1>3, <1>4, FeedPlaces, ZenonT(60)
<1>6. FollowsBlock(s, F[n], u)
  BY <1>1, <1>2, <1>4 DEF FollowsBlock
<1>7. \A i \in 1 .. n - 1 : FollowsBlock(s, F[i], F[i + 1])
  BY <1>2, <1>4 DEF FeedOK, Linked
<1>8. ASSUME NEW i \in 1 .. n PROVE FollowsBlock(s, G[i], G[i + 1])
  <2>1. G[i] = F[i]
    BY <1>5
  <2>2. CASE i = n
    BY <1>5, <1>6, <2>1, <2>2
  <2>3. CASE i # n
    <3>1. i \in 1 .. n - 1 /\ i + 1 \in 1 .. n
      BY <2>3
    <3>2. G[i + 1] = F[i + 1]
      BY <1>5, <3>1
    <3> QED BY <1>7, <2>1, <3>1, <3>2
  <2> QED BY <2>2, <2>3
<1>9. Linked(s, G)
  BY <1>5, <1>8 DEF Linked
<1>10. G[1] = F[1]
  BY <1>5
<1> QED BY <1>2, <1>5, <1>9, <1>10 DEF FeedOK

\* The reader goes to the next interval: nothing lies between.
LEMMA FeedGap ==
  ASSUME ScansApart, NEW s, NEW k \in 0 .. Len(Scans), NEW j, NextScan(s, k, j), NEW R, NEW P, NEW t \in Int,
         NEW u, ReaderIn(s, k, R, t), ReadNext(R, P, t, u)
  PROVE  /\ t = IF k = 0 THEN 0 ELSE Scans[k].stop + 1
         /\ \A a : FollowsBlock(s, a, t) => FollowsBlock(s, a, Scans[j].start)
         /\ \A i \in DOMAIN Scans, x \in Int :
              In(s, i) /\ Scans[i].start <= x /\ x <= Scans[i].stop /\ t <= x => Scans[j].start <= x
<1>1. j \in DOMAIN Scans /\ Scans[j].start \in Nat
  BY ScanRange DEF NextScan, In
<1>2. CASE k = 0
  <2>1. t = 0
    BY <1>2 DEF ReaderIn
  <2>2. ASSUME NEW a, FollowsBlock(s, a, t) PROVE FALSE
    BY <2>1, <2>2, Follows
  <2>3. ASSUME NEW i \in DOMAIN Scans, NEW x \in Int, In(s, i), Scans[i].start <= x
        PROVE  Scans[j].start <= x
    <3>1. i > 0 /\ Scans[i].start \in Nat
      BY ScanRange
    <3>2. Scans[j].start <= Scans[i].start
      BY <1>2, <2>3, <3>1, NextLeast
    <3> QED BY <1>1, <2>3, <3>1, <3>2
  <2> QED BY <1>2, <2>1, <2>2, <2>3
<1>3. CASE k # 0
  <2>1. k \in DOMAIN Scans
    BY <1>3, ScanRange
  <2>2. PICK b \in Nat : b = Scans[k].stop
    BY <2>1, ScanRange
  <2>3. In(s, k) /\ R[1] = <<Scans[k].start, b + 1>> /\ t <= b + 1 /\ t >= R[1][2]
    BY <1>3, <2>2 DEF ReaderIn, ReadNext
  <2>4. t = b + 1
    BY <2>2, <2>3
  <2>5. ASSUME NEW a, FollowsBlock(s, a, t) PROVE FollowsBlock(s, a, Scans[j].start)
    <3>1. a \in Nat
      BY <2>5 DEF FollowsBlock
    <3>2. CASE t = a + 1
      <4>1. a = Scans[k].stop
        BY <2>2, <2>4, <3>1, <3>2
      <4> QED BY <1>1, <2>1, <3>1, <4>1 DEF FollowsBlock
    <3>3. CASE \E i, m \in DOMAIN Scans : a = Scans[i].stop /\ NextScan(s, i, m) /\ t = Scans[m].start
      <4>1. PICK i \in DOMAIN Scans, m \in DOMAIN Scans :
              a = Scans[i].stop /\ NextScan(s, i, m) /\ t = Scans[m].start
        BY <3>3
      <4>2. k < m
        <5>1. Scans[k].stop < t /\ t <= Scans[m].stop
          BY <2>2, <2>4, <4>1, ScanRange
        <5> QED BY <2>1, <5>1, LaterScan
      <4>3. i \in Nat /\ k \in Nat /\ m \in Nat
        BY <2>1, ScanRange
      <4>4. ~(i < k)
        BY <2>1, <2>3, <4>1, <4>2 DEF NextScan, In
      <4>5. ~(k < i)
        <5>1. ASSUME k < i PROVE FALSE
          <6>1. Scans[k].stop <= Scans[i].start /\ Scans[i].start < Scans[i].stop
                /\ Scans[i].start \in Nat /\ Scans[i].stop \in Nat
            BY <2>1, <5>1, ScanOrder, ScanRange
          <6>2. a < t
            BY <2>5, Follows
          <6> QED BY <2>2, <2>4, <4>1, <6>1, <6>2
        <5> QED BY <5>1
      <4>6. i = k
        BY <4>3, <4>4, <4>5
      <4> QED BY <1>1, <2>1, <3>1, <4>1, <4>6 DEF FollowsBlock
    <3> QED BY <2>5, <3>2, <3>3 DEF FollowsBlock
  <2>6. ASSUME NEW i \in DOMAIN Scans, NEW x \in Int, In(s, i), Scans[i].start <= x,
               x <= Scans[i].stop, t <= x
        PROVE  Scans[j].start <= x
    <3>1. Scans[k].stop < x
      BY <2>2, <2>4, <2>6
    <3>2. k < i
      BY <2>1, <2>6, <3>1, LaterScan
    <3>3. Scans[j].start <= Scans[i].start /\ Scans[i].start \in Nat
      BY <2>1, <2>6, <3>2, NextLeast, ScanRange
    <3> QED BY <1>1, <2>6, <3>3
  <2> QED BY <1>3, <2>2, <2>4, <2>5, <2>6
<1> QED BY <1>2, <1>3

LEMMA FeedNext ==
  ASSUME ScansApart, NEW s, NEW k \in 0 .. Len(Scans), NEW j, NextScan(s, k, j), NEW R, NEW P, NEW t \in Int,
         ReaderIn(s, k, R, t), ReadNext(R, P, t, Scans[j].start),
         NEW n \in 0 .. Len(Scans), NEW w \in Writers, WriterIn(s, n, w),
         NEW B \in Seq(Int), FeedOK(s, Append(B, t), w)
  PROVE  FeedOK(s, Append(B, Scans[j].start), w)
<1>1. PICK u \in Nat : u = Scans[j].start
  BY ScanRange DEF NextScan, In
<1>2. /\ t = IF k = 0 THEN 0 ELSE Scans[k].stop + 1
      /\ \A a : FollowsBlock(s, a, t) => FollowsBlock(s, a, u)
      /\ \A i \in DOMAIN Scans, x \in Int :
           In(s, i) /\ Scans[i].start <= x /\ x <= Scans[i].stop /\ t <= x => u <= x
  <2>1. t = IF k = 0 THEN 0 ELSE Scans[k].stop + 1
    BY FeedGap
  <2>2. \A a : FollowsBlock(s, a, t) => FollowsBlock(s, a, Scans[j].start)
    BY FeedGap
  <2>3. ASSUME NEW i \in DOMAIN Scans, NEW x \in Int, In(s, i), Scans[i].start <= x,
               x <= Scans[i].stop, t <= x
        PROVE  Scans[j].start <= x
    BY <2>3, FeedGap
  <2> QED BY <1>1, <2>1, <2>2, <2>3
<1>3. PICK m \in Nat : m = Len(B)
  BY FeedPlaces
<1>4. PICK F \in Seq(Int) : /\ F = Append(B, t) /\ Len(F) = m + 1 /\ F[m + 1] = t
                            /\ \A i \in 1 .. m : F[i] = B[i]
  BY <1>3, FeedPlaces
<1>5. PICK G \in Seq(Int) : /\ G = Append(B, u) /\ Len(G) = m + 1 /\ G[m + 1] = u
                            /\ \A i \in 1 .. m : G[i] = B[i]
  <2>1. u \in Int
    OBVIOUS
  <2> QED BY <1>3, <2>1, FeedPlaces
<1>6. \A i \in 1 .. m : FollowsBlock(s, F[i], F[i + 1])
  <2>1. Linked(s, F) /\ Len(F) - 1 = m
    BY <1>4 DEF FeedOK
  <2> QED BY <2>1 DEF Linked
<1>7. ASSUME NEW i \in 1 .. m PROVE FollowsBlock(s, G[i], G[i + 1])
  <2>1. G[i] = F[i] /\ FollowsBlock(s, F[i], F[i + 1])
    BY <1>4, <1>5, <1>6
  <2>2. CASE i = m
    BY <1>2, <1>4, <1>5, <2>1, <2>2
  <2>3. CASE i # m
    <3>1. i + 1 \in 1 .. m
      BY <2>3
    <3>2. G[i + 1] = F[i + 1]
      BY <1>4, <1>5, <3>1
    <3> QED BY <2>1, <3>2
  <2> QED BY <2>2, <2>3
<1>8. Linked(s, G)
  <2>1. Len(G) - 1 = m
    BY <1>5
  <2> QED BY <1>7, <2>1 DEF Linked
<1>9. /\ \A x \in Needed(s, w) : F[1] <= x
      /\ w.pc = "write" /\ w.left < NumberFfts /\ w.left > 0 => F[1] = w.time
  BY <1>4 DEF FeedOK
<1>10. CASE m > 0
  <2>1. G[1] = F[1]
    BY <1>4, <1>5, <1>10
  <2> QED BY <1>1, <1>5, <1>8, <1>9, <2>1 DEF FeedOK
<1>11. CASE m = 0
  <2>1. F[1] = t /\ G[1] = u
    BY <1>4, <1>5, <1>11
  <2>2. ASSUME NEW x \in Needed(s, w) PROVE u <= x
    <3>1. PICK i \in DOMAIN Scans :
            In(s, i) /\ Scans[i].start <= x /\ x <= Scans[i].stop /\ x \in Int
      BY NeededScan
    <3>2. t <= x
      BY <1>9, <2>1
    <3> QED BY <1>2, <3>1, <3>2
  <2>3. ASSUME w.pc = "write", w.left < NumberFfts, w.left > 0 PROVE FALSE
    <3>1. /\ n \in DOMAIN Scans /\ w.time \in Nat
          /\ Scans[n].start < w.time /\ w.time < Scans[n].stop
      BY <2>3, WithinSlice
    <3>2. t = w.time
      BY <1>9, <2>1, <2>3
    <3>3. Scans[n].start \in Nat /\ Scans[n].stop \in Nat
      BY <3>1, ScanRange
    <3>4. k # 0
      BY <1>2, <3>1, <3>2, <3>3
    <3>5. k \in DOMAIN Scans
      BY <3>4, ScanRange
    <3>6. PICK b \in Nat : b = Scans[k].stop
      BY <3>5, ScanRange
    <3>7. t = b + 1
      BY <1>2, <3>4, <3>6
    <3>8. b < Scans[n].start
      <4>1. Scans[k].stop < t /\ t <= Scans[n].stop
        BY <3>1, <3>2, <3>3, <3>6, <3>7, SMTT(30)
      <4> QED BY <3>1, <3>5, <3>6, <4>1, LaterScan
    <3> QED BY <3>1, <3>2, <3>3, <3>7, <3>8
  <2> QED BY <1>1, <1>5, <1>8, <2>1, <2>2, <2>3 DEF FeedOK
<1> QED BY <1>3, <1>10, <1>11

\* The first block is taken.
LEMMA LinkedTail ==
  ASSUME NEW s, NEW B \in Seq(Int), B # <<>>, NEW t \in Int, Linked(s, Append(B, t))
  PROVE  /\ Linked(s, Append(Tail(B), t))
         /\ FollowsBlock(s, Append(B, t)[1], Append(Tail(B), t)[1])
         /\ Append(B, t)[1] = B[1]
<1>1. PICK m \in Nat \ {0} : m = Len(B)
  BY EmptySeq
<1>2. PICK F \in Seq(Int) :
        F = Append(B, t) /\ Len(F) = m + 1 /\ \A i \in 1 .. m : F[i] = B[i]
  BY <1>1, FeedPlaces
<1>3. PICK G : G = Append(Tail(B), t) /\ Len(G) = m /\ \A i \in 1 .. m : G[i] = F[i + 1]
  <2>1. /\ Len(Append(Tail(B), t)) = m
        /\ \A i \in 1 .. m : Append(Tail(B), t)[i] = Append(B, t)[i + 1]
    BY <1>1, FeedTail
  <2> QED BY <1>2, <2>1
<1>4. \A i \in 1 .. m : FollowsBlock(s, F[i], F[i + 1])
  <2>1. Linked(s, F) /\ Len(F) - 1 = m
    BY <1>2
  <2> QED BY <2>1 DEF Linked
<1>5. ASSUME NEW i \in 1 .. Len(G) - 1 PROVE FollowsBlock(s, G[i], G[i + 1])
  <2>1. i \in 1 .. m /\ i + 1 \in 1 .. m
    BY <1>3
  <2>2. FollowsBlock(s, F[i + 1], F[(i + 1) + 1]) /\ G[i] = F[i + 1] /\ G[i + 1] = F[(i + 1) + 1]
    BY <1>3, <1>4, <2>1
  <2> QED BY <2>2
<1>6. 1 \in 1 .. m /\ G[1] = F[1 + 1] /\ FollowsBlock(s, F[1], F[1 + 1]) /\ F[1] = B[1]
  BY <1>2, <1>3, <1>4
<1> QED BY <1>2, <1>3, <1>5, <1>6 DEF Linked

LEMMA FeedSkipped ==
  ASSUME ScansApart, NEW s, NEW n \in 0 .. Len(Scans), NEW w \in Writers, WriterIn(s, n, w),
         NEW B \in Seq(Int), B # <<>>, NEW t \in Int, FeedOK(s, Append(B, t), w),
         w.pc = "write", w.left = NumberFfts, B[1] < w.time
  PROVE  FeedOK(s, Append(Tail(B), t), w)
<1>1. NumberFfts \in Nat /\ NumberFfts > 0
  BY InputNodeAssumption
<1>2. /\ n \in DOMAIN Scans /\ In(s, n) /\ w.time \in Nat
      /\ Scans[n].start <= w.time /\ w.time < Scans[n].stop
      /\ Needed(s, w) = {w.time}
  BY <1>1, WithinSlice
<1>3. /\ Linked(s, Append(Tail(B), t))
      /\ FollowsBlock(s, B[1], Append(Tail(B), t)[1])
  BY LinkedTail DEF FeedOK
<1>4. PICK G, b : G = Append(Tail(B), t) /\ b = G[1]
  OBVIOUS
<1>5. Scans[n].stop \in Nat
  BY <1>2, ScanRange
<1>6. b <= w.time
  <2>1. PICK a : a = B[1] /\ FollowsBlock(s, a, b) /\ a < w.time
    BY <1>3, <1>4
  <2>2. \A k \in DOMAIN Scans, x \in Int :
          In(s, k) /\ Scans[k].start <= x /\ x <= Scans[k].stop /\ a < x => b <= x
    BY <2>1, Follows
  <2>3. w.time <= Scans[n].stop /\ w.time \in Int
    BY <1>2, <1>5
  <2> QED BY <1>2, <2>1, <2>2, <2>3
<1>7. Linked(s, G) /\ \A u \in Needed(s, w) : G[1] <= u
  BY <1>2, <1>3, <1>4, <1>6
<1>8. ~(w.left < NumberFfts)
  BY <1>1
<1>9. FeedOK(s, G, w)
  BY <1>7, <1>8 DEF FeedOK
<1> QED BY <1>4, <1>9

LEMMA FeedWritten ==
  ASSUME ScansApart, NEW s, NEW n \in 0 .. Len(Scans), NEW w \in Writers, NEW v \in Writers, WriterIn(s, n, w),
         NEW B \in Seq(Int), B # <<>>, NEW t \in Int, FeedOK(s, Append(B, t), w),
         Written(w, v), ~(w.left = NumberFfts /\ B[1] < w.time)
  PROVE  B[1] = w.time /\ FeedOK(s, Append(Tail(B), t), v)
<1>1. PICK N \in Nat : N = NumberFfts /\ N > 0
  BY InputNodeAssumption
<1>2. PICK l \in 0 .. N : l = w.left
  BY <1>1 DEF Writers
<1>3. w.pc = "write" /\ l > 0 /\ v.time = w.time + 1
  BY <1>2 DEF Written
<1>4. /\ n \in DOMAIN Scans /\ In(s, n) /\ w.time \in Nat
      /\ Scans[n].start <= w.time /\ w.time < Scans[n].stop
      /\ Needed(s, w) = {w.time}
  BY <1>2, <1>3, WithinSlice
<1>5. PICK F \in Seq(Int), a \in Int : F = Append(B, t) /\ a = F[1]
  BY FeedPlaces
<1>6. PICK G, b : G = Append(Tail(B), t) /\ b = G[1]
  OBVIOUS
<1>7. Linked(s, G) /\ FollowsBlock(s, a, b) /\ a = B[1]
  BY <1>5, <1>6, LinkedTail DEF FeedOK
<1>8. a = w.time
  <2>1. \A u \in Needed(s, w) : F[1] <= u
    BY <1>5 DEF FeedOK
  <2>2. a <= w.time
    BY <1>4, <1>5, <2>1
  <2>3. CASE l = N
    BY <1>1, <1>2, <1>4, <1>7, <2>2, <2>3
  <2>4. CASE l # N
    <3>1. w.left < NumberFfts /\ w.left > 0
      BY <1>1, <1>2, <1>3, <2>4
    <3> QED BY <1>3, <1>5, <3>1 DEF FeedOK
  <2> QED BY <2>3, <2>4
<1>9. b = v.time
  <2>1. \A k \in DOMAIN Scans : In(s, k) /\ a < Scans[k].stop /\ Scans[k].start <= a => b = a + 1
    BY <1>7, Follows
  <2> QED BY <1>3, <1>4, <1>8, <2>1
<1>10. WriterIn(s, n, v)
  BY ClockWritten
<1>11. Needed(s, v) = TimesFrom(s, n, v.time)
  BY <1>10, WriterDue
<1>12. \A u \in Needed(s, v) : b <= u
  <2>1. CASE v.time < StopOf(n)
    <3>1. Needed(s, v) = {v.time} /\ v.time \in Int
      BY <1>3, <1>4, <1>11, <2>1 DEF TimesFrom
    <3> QED BY <1>9, <3>1
  <2>2. CASE ~(v.time < StopOf(n))
    <3>1. Needed(s, v) = StartsAfter(s, n)
      BY <1>11, <2>2 DEF TimesFrom
    <3>2. ASSUME NEW u \in Needed(s, v) PROVE b <= u
      <4>1. PICK j : NextScan(s, n, j) /\ u = Scans[j].start
        BY <3>1, <3>2, <1>4, ScanRange, StartAfter
      <4>2. j \in DOMAIN Scans /\ n < j
        BY <4>1 DEF NextScan, In
      <4>3. Scans[n].stop <= Scans[j].start /\ Scans[j].start \in Nat /\ Scans[n].stop \in Nat
        BY <1>4, <4>2, ScanOrder, ScanRange
      <4> QED BY <1>3, <1>4, <1>9, <4>1, <4>3, SMTT(30)
    <3> QED BY <3>2
  <2> QED BY <2>1, <2>2
<1>13. FeedOK(s, G, v)
  BY <1>6, <1>7, <1>9, <1>12 DEF FeedOK
<1> QED BY <1>6, <1>7, <1>8, <1>13

\* A step of a writer that takes no block.
Calm(w, v) ==
  \/ v = w \/ Fetched(w, v) \/ Found(w, v) \/ Begun(w, v) \/ Ended(w, v)
  \/ \E i : GotInterval(w, v, i)
  \/ \E e : GotSlice(w, v, e)

LEMMA FeedCalm ==
  ASSUME NEW s, NEW M \in Seq(Messages), NEW w \in Writers, NEW v \in Writers, NEW n,
         Calm(w, v), WriterLine(s, M, w, n), NEW F, F[1] \in Int, FeedOK(s, F, w)
  PROVE  FeedOK(s, F, v)
<1>1. PICK k \in 0 .. Len(Scans) : WriterIn(s, k, w)
  BY DEF WriterLine, InAScan
<1>2. PICK x \in Int : x = F[1]
  OBVIOUS
<1>3. Linked(s, F) /\ (\A u \in Needed(s, w) : x <= u)
      /\ (w.pc = "write" /\ w.left < NumberFfts /\ w.left > 0 => F[1] = w.time)
  BY <1>2 DEF FeedOK
<1>4. ASSUME WriterIn(s, k, v), v.time = w.time
      PROVE  \A u \in Needed(s, v) : x <= u
  <2>1. Needed(s, v) = Needed(s, w)
    BY <1>1, <1>4, WriterDue
  <2> QED BY <1>3, <2>1
<1>5. ASSUME \A u \in Needed(s, v) : x <= u, ~(v.pc = "write" /\ v.left < NumberFfts)
      PROVE  FeedOK(s, F, v)
  BY <1>2, <1>3, <1>5 DEF FeedOK
<1>6. CASE v = w
  BY <1>6
<1>7. CASE (\E i : GotInterval(w, v, i)) \/ (\E e : GotSlice(w, v, e))
  <2>1. v.pc = w.pc /\ v.time = w.time /\ v.stop = w.stop /\ v.start = w.start /\ v.left = w.left
    BY <1>7 DEF GotInterval, GotSlice
  <2>2. WriterIn(s, k, v)
    BY <1>1, <2>1, ClockSame
  <2> QED BY <1>2, <1>3, <1>4, <2>1, <2>2 DEF FeedOK
<1>8. CASE Found(w, v)
  <2>1. w.time \in Int /\ v.time = w.time /\ v.pc = "found"
    BY <1>8 DEF Writers, Found
  <2>2. WriterIn(s, k, v)
    BY <1>1, <1>8, <2>1, ClockFound
  <2> QED BY <1>4, <1>5, <2>1, <2>2
<1>9. CASE Begun(w, v)
  <2>1. v.time = w.time /\ v.left = NumberFfts /\ NumberFfts \in Nat
    BY <1>9, InputNodeAssumption DEF Begun
  <2>2. WriterIn(s, k, v)
    BY <1>1, <1>9, ClockBegun
  <2> QED BY <1>4, <1>5, <2>1, <2>2
<1>10. CASE Ended(w, v)
  <2>1. v.pc = "idle" /\ w.pc = "write" /\ w.left = 0 /\ v.time = w.start + IntegrationUnits
    BY <1>10 DEF Ended
  <2>2. WriterIn(s, k, v)
    BY <1>1, <1>10, ClockEnded
  <2>3. w.start \in Nat /\ w.time = w.start + NumberFfts - w.left
    BY <1>1, <2>1, WriterTime
  <2>4. w.time \in Int /\ v.time \in Int /\ w.time <= v.time
    BY <2>1, <2>3, InputNodeAssumption
  <2>5. \A u \in Needed(s, v) : x <= u
    BY <1>1, <1>3, <2>2, <2>4, NeededLater
  <2> QED BY <1>5, <2>1, <2>5
<1>11. CASE Fetched(w, v)
  <2>1. DueIntervals(s, w) = IntervalsAfter(s, k)
    BY <1>1, WriterDue
  <2>2. PICK Q \in Seq(Pairs) : Q = w.intervals /\ Q # <<>>
    BY <1>11 DEF Writers, Pairs, Fetched
  <2>3. Chain(Line(Q, M, IntervalIn), Pairs, IntervalsAfter(s, k), AfterInterval(s), IntervalsAfter(s, n))
    BY <2>1, <2>2 DEF WriterLine
  <2>4. PICK j \in DOMAIN Scans :
             /\ NextScan(s, k, j) /\ Q[1] = IntervalOf(j) /\ j \in 1 .. Len(Scans)
             /\ Chain(Line(Tail(Q), M, IntervalIn), Pairs, IntervalsAfter(s, j), AfterInterval(s),
                      IntervalsAfter(s, n))
    BY <2>2, <2>3, IntervalServed
  <2>5. w.intervals[1] = IntervalOf(j)
    BY <2>2, <2>4
  <2>6. WriterIn(s, j, v) /\ v.time = Scans[j].start /\ v.pc = "idle" /\ w.time >= w.stop
    <3>1. WriterIn(s, j, v) /\ v.time = Scans[j].start
      BY <1>1, <1>11, <2>4, <2>5, ClockFetched, SMTT(30)
    <3> QED BY <1>11, <3>1 DEF Fetched
  <2>7. Needed(s, v) = TimesFrom(s, j, Scans[j].start)
    <3>1. j \in 0 .. Len(Scans)
      BY <2>4
    <3> QED BY <2>6, <3>1, WriterDue
  <2>8. Scans[j].start \in Nat /\ Scans[j].start < Scans[j].stop /\ j # 0
    BY <2>4, ScanRange
  <2>9. Needed(s, v) = {Scans[j].start}
    BY <2>7, <2>8 DEF TimesFrom, StopOf
  <2>10. Needed(s, w) = StartsAfter(s, k)
    <3>1. w.stop = StopOf(k) /\ w.stop \in Int /\ w.time \in Int
      BY <1>1 DEF WriterIn, Writers
    <3>2. Needed(s, w) = TimesFrom(s, k, w.time)
      BY <1>1, WriterDue
    <3> QED BY <2>6, <3>1, <3>2 DEF TimesFrom
  <2>11. StartsAfter(s, k) = {Scans[j].start}
    BY <2>4, StartAfter
  <2>12. \A u \in Needed(s, v) : x <= u
    BY <1>3, <2>9, <2>10, <2>11
  <2> QED BY <1>5, <2>6, <2>12
<1> QED BY <1>6, <1>7, <1>8, <1>9, <1>10, <1>11 DEF Calm

\* What a step of a station is to the feed: B and C are the blocks of a channel before and
\* after it, w and v its writer, t and u the time of the reader.
FeedMoves(w, v, B, C, R, P, t, u) ==
  \/ C = B /\ u = t /\ Calm(w, v)
  \/ C = Append(B, t) /\ v = w /\ ReadOn(R, P, t, u)
  \/ C = B /\ v = w /\ ReadNext(R, P, t, u)
  \/ /\ B # <<>> /\ C = Tail(B) /\ v = w /\ u = t
     /\ w.pc = "write" /\ w.left = NumberFfts /\ B[1] < w.time
  \/ /\ B # <<>> /\ C = Tail(B) /\ u = t
     /\ Written(w, v) /\ ~(w.left = NumberFfts /\ B[1] < w.time)

LEMMA WriterFeed ==
  ASSUME InputTypes, WriterStates, NEW s \in Stations, NEW ch \in Channels, WriterStep(s, ch)
  PROVE  FeedMoves(writer[s][ch], writer'[s][ch], blocks[s][ch], blocks'[s][ch],
                   reading[s], reading'[s], readTime[s], readTime'[s])
<1>1. writer \in [Stations -> [Channels -> Writers]]
  BY DEF InputTypes
<1>2. PICK B \in Seq(Int), w \in Writers : B = blocks[s][ch] /\ w = writer[s][ch]
  BY SMTT(30) DEF InputTypes
<1>3. readTime' = readTime
  BY ZenonT(30) DEF WriterStep, FetchNextTimeInterval, FindWork, Activate, SkipOldBlock, WriteBlock, EndSlice
<1>4. CASE FetchNextTimeInterval(s, ch)
  <2>1. PICK v \in Writers :
          /\ Turns(s, ch, v)
          /\ v.pc = writer[s][ch].pc /\ v.slices = writer[s][ch].slices
          /\ v.left = writer[s][ch].left
          /\ Fetched(writer[s][ch], v)
    BY <1>4, FetchFacts, Zenon
  <2>2. writer'[s][ch] = v
    BY <1>1, <2>1, TurnsFacts
  <2>3. blocks' = blocks
    BY <1>4 DEF FetchNextTimeInterval
  <2> QED BY <1>3, <2>1, <2>2, <2>3 DEF FeedMoves, Calm
<1>5. CASE FindWork(s, ch)
  <2>1. PICK v \in Writers :
           /\ Turns(s, ch, v) /\ writer[s][ch].pc = "idle" /\ writer[s][ch].slices # <<>>
           /\ ~active[s][writer[s][ch].slices[1]]
           /\ v = [writer[s][ch] EXCEPT !.pc = "found"]
           /\ Found(writer[s][ch], v)
    BY <1>5, FindFacts, Zenon
  <2>2. writer'[s][ch] = v
    BY <1>1, <2>1, TurnsFacts
  <2>3. blocks' = blocks
    BY <1>5 DEF FindWork
  <2> QED BY <1>3, <2>1, <2>2, <2>3 DEF FeedMoves, Calm
<1>6. CASE Activate(s, ch)
  <2>1. writer[s][ch].slices # <<>>
    BY <1>6 DEF Activate, WriterStates
  <2>2. PICK v \in Writers, e \in Nodes :
           /\ Turns(s, ch, v) /\ writer[s][ch].pc = "found" /\ v.pc = "write"
           /\ v.slices = writer[s][ch].slices /\ v.left = NumberFfts
           /\ e = writer[s][ch].slices[1]
           /\ active' = [active EXCEPT ![s][e] = TRUE]
           /\ Begun(writer[s][ch], v)
    BY <1>6, <2>1, InputNodeAssumption, ActivateFacts, Zenon
  <2>3. writer'[s][ch] = v
    BY <1>1, <2>2, TurnsFacts
  <2>4. blocks' = blocks
    BY <1>6 DEF Activate
  <2> QED BY <1>3, <2>2, <2>3, <2>4 DEF FeedMoves, Calm
<1>7. CASE SkipOldBlock(s, ch)
  <2>1. B # <<>> /\ w.pc = "write" /\ w.left = NumberFfts /\ Head(B) < w.time /\ writer' = writer
    BY <1>2, <1>7 DEF SkipOldBlock, Old
  <2>2. blocks'[s][ch] = Tail(B)
    BY <1>2, <1>7 DEF SkipOldBlock, InputTypes
  <2>3. Head(B) = B[1]
    BY <2>1, SMTT(30)
  <2> QED BY <1>2, <1>3, <2>1, <2>2, <2>3 DEF FeedMoves
<1>8. CASE WriteBlock(s, ch)
  <2>1. writer[s][ch].slices # <<>>
    BY <1>8 DEF WriteBlock, WriterStates
  <2>2. PICK v \in Writers, e \in Nodes, u \in Units :
           /\ Turns(s, ch, v) /\ writer[s][ch].pc = "write" /\ v.pc = "write"
           /\ v.slices = writer[s][ch].slices /\ e = writer[s][ch].slices[1]
           /\ writer[s][ch].left \in Nat /\ writer[s][ch].left > 0
           /\ v.left = writer[s][ch].left - 1
           /\ wire' = [wire EXCEPT ![s][e] = @ \o <<u>>]
           /\ u = Unit(ch, blocks[s][ch][1])
           /\ Written(writer[s][ch], v)
    BY <1>8, <2>1, InputNodeAssumption, WriteFacts, Zenon
  <2>3. writer'[s][ch] = v
    BY <1>1, <2>2, TurnsFacts
  <2>4. B # <<>> /\ ~(w.left = NumberFfts /\ Head(B) < w.time)
    BY <1>2, <1>8 DEF WriteBlock, Old
  <2>5. blocks'[s][ch] = Tail(B)
    BY <1>2, <1>8 DEF WriteBlock, InputTypes
  <2>6. Head(B) = B[1]
    BY <2>4, SMTT(30)
  <2> QED BY <1>2, <1>3, <2>2, <2>3, <2>4, <2>5, <2>6, ZenonT(30) DEF FeedMoves
<1>9. CASE EndSlice(s, ch)
  <2>1. writer[s][ch].slices # <<>>
    BY <1>9 DEF EndSlice, WriterStates
  <2>2. PICK v \in Writers, e \in Nodes :
           /\ Turns(s, ch, v) /\ writer[s][ch].pc = "write" /\ v.pc = "idle"
           /\ v.slices = Tail(writer[s][ch].slices) /\ e = writer[s][ch].slices[1]
           /\ writer[s][ch].left = 0
           /\ wire' = [wire EXCEPT ![s][e] = Append(@, EndOfStream)]
           /\ active' = [active EXCEPT ![s][e] = FALSE]
           /\ Ended(writer[s][ch], v)
    BY <1>9, <2>1, InputNodeAssumption, EndFacts, Zenon
  <2>3. writer'[s][ch] = v
    BY <1>1, <2>2, TurnsFacts
  <2>4. blocks' = blocks
    BY <1>9 DEF EndSlice
  <2> QED BY <1>3, <2>2, <2>3, <2>4 DEF FeedMoves, Calm
<1> QED BY <1>4, <1>5, <1>6, <1>7, <1>8, <1>9 DEF WriterStep

\* The other channels.
LEMMA OtherChannel ==
  ASSUME InputTypes, NEW s \in Stations, NEW d \in Channels, WriterStep(s, d),
         NEW ch \in Channels \ {d}
  PROVE  /\ writer'[s][ch] = writer[s][ch] /\ blocks'[s][ch] = blocks[s][ch]
         /\ readTime' = readTime
<1>1. readTime' = readTime
  BY ZenonT(30) DEF WriterStep, FetchNextTimeInterval, FindWork, Activate, SkipOldBlock, WriteBlock, EndSlice
<1>2. writer'[s][ch] = writer[s][ch]
  <2>1. ASSUME NEW x, writer' = [writer EXCEPT ![s][d] = x]
        PROVE  writer'[s][ch] = writer[s][ch]
    BY <2>1 DEF InputTypes
  <2>2. CASE FetchNextTimeInterval(s, d)
    BY <2>1, <2>2 DEF FetchNextTimeInterval
  <2>3. CASE FindWork(s, d)
    BY <2>3 DEF FindWork, InputTypes
  <2>4. CASE Activate(s, d)
    BY <2>1, <2>4 DEF Activate
  <2>5. CASE SkipOldBlock(s, d)
    BY <2>5 DEF SkipOldBlock
  <2>6. CASE WriteBlock(s, d)
    BY <2>1, <2>6 DEF WriteBlock
  <2>7. CASE EndSlice(s, d)
    BY <2>1, <2>7 DEF EndSlice
  <2> QED BY <2>2, <2>3, <2>4, <2>5, <2>6, <2>7 DEF WriterStep
<1>3. blocks'[s][ch] = blocks[s][ch]
  <2>1. \/ blocks' = blocks
        \/ blocks' = [blocks EXCEPT ![s][d] = Tail(blocks[s][d])]
    BY ZenonT(30) DEF WriterStep, FetchNextTimeInterval, FindWork, Activate, SkipOldBlock, WriteBlock, EndSlice
  <2> QED BY <2>1, SMTT(30) DEF InputTypes
<1> QED BY <1>1, <1>2, <1>3, SMTT(30)

LEMMA FeedSeen ==
  ASSUME InputTypes, WriterStates, NEW r \in Stations, InputStep(r), NEW s \in Stations, Alive(s)',
         NEW ch \in Channels
  PROVE  FeedMoves(writer[s][ch], writer'[s][ch], blocks[s][ch], blocks'[s][ch],
                   reading[s], reading'[s], readTime[s], readTime'[s])
<1>1. ASSUME writer'[s][ch] = writer[s][ch], blocks'[s][ch] = blocks[s][ch],
             readTime'[s] = readTime[s]
      PROVE  FeedMoves(writer[s][ch], writer'[s][ch], blocks[s][ch], blocks'[s][ch],
                       reading[s], reading'[s], readTime[s], readTime'[s])
  BY <1>1 DEF FeedMoves, Calm
<1>2. CASE s # r
  <2>1. blocks'[s] = blocks[s] /\ writer'[s] = writer[s] /\ readTime'[s] = readTime[s]
    BY <1>2, OtherStation
  <2> QED BY <1>1, <2>1
<1>3. PICK B \in Seq(Int), R \in Seq(Pairs), t \in Int :
        B = blocks[s][ch] /\ R = reading[s] /\ t = readTime[s]
  BY DEF InputTypes, Pairs
<1>4. CASE s = r /\ MessageStep(s)
  <2>1. TookMessage(ch, mail[s], mail'[s], writer[s][ch], writer'[s][ch])
    BY <1>4, MessageSeen
  <2>2. Calm(writer[s][ch], writer'[s][ch])
    BY <2>1 DEF TookMessage, Calm
  <2>3. ~ReceiveEndNode(s)
    BY SMTT(30) DEF ReceiveEndNode, Alive, InputTypes
  <2>4. blocks' = blocks /\ readTime' = readTime
    BY <1>4, <2>3 DEF MessageStep, ReceiveParameters, ReceiveTimeInterval, ReceiveTimeSlice, Terminated
  <2> QED BY <2>2, <2>4 DEF FeedMoves
<1>5. CASE s = r /\ ReadBlocks(s)
  <2>1. R # <<>> /\ t < R[1][2] /\ readTime'[s] = t + 1 /\ reading' = reading /\ writer' = writer
    BY <1>3, <1>5 DEF ReadBlocks, InputTypes
  <2>2. iStatus[s] # "TERMINATING"
    BY <1>5 DEF ReadBlocks, Alive
  <2>3. blocks' = [blocks EXCEPT ![s] = [d \in Channels |-> Append(@[d], readTime[s])]]
    BY <1>5, <2>2 DEF ReadBlocks
  <2>4. blocks'[s][ch] = Append(B, t)
    BY <1>3, <2>3 DEF InputTypes
  <2> QED BY <1>3, <2>1, <2>4 DEF FeedMoves, ReadOn
<1>6. CASE s = r /\ NextInterval(s)
  <2>1. Len(R) > 1 /\ blocks' = blocks /\ writer' = writer
    BY <1>3, <1>6 DEF NextInterval
  <2>2. R # <<>> /\ Head(R) = R[1] /\ Tail(R) # <<>> /\ Head(Tail(R)) = Tail(R)[1]
    BY <2>1, ReaderTaken
  <2>3. t >= Head(R)[2]
    BY <1>3, <1>6 DEF NextInterval
  <2>4. reading'[s] = Tail(R)
    BY <1>3, <1>6 DEF NextInterval, InputTypes
  <2>5. readTime'[s] = Head(reading'[s])[1]
    BY <1>6 DEF NextInterval, InputTypes
  <2>6. t >= R[1][2] /\ readTime'[s] = Tail(R)[1][1]
    BY <2>2, <2>3, <2>4, <2>5
  <2> QED BY <1>3, <2>1, <2>4, <2>6 DEF FeedMoves, ReadNext
<1>7. CASE s = r /\ \E d \in Channels : WriterStep(s, d)
  <2>1. PICK d \in Channels : WriterStep(s, d)
    BY <1>7
  <2>2. CASE ch = d
    BY <2>1, <2>2, WriterFeed
  <2>3. CASE ch # d
    <3>1. /\ writer'[s][ch] = writer[s][ch] /\ blocks'[s][ch] = blocks[s][ch]
          /\ readTime' = readTime
      BY <2>1, <2>3, OtherChannel
    <3> QED BY <1>1, <3>1
  <2> QED BY <2>2, <2>3
<1> QED BY <1>2, <1>4, <1>5, <1>6, <1>7 DEF InputStep, ReaderStep

LEMMA FeedStep ==
  ASSUME ScansApart, NEW s, NEW M \in Seq(Messages), NEW n, NEW w \in Writers, NEW v \in Writers,
         NEW B \in Seq(Int), NEW C, NEW R \in Seq(Pairs), NEW P, NEW t \in Int, NEW u,
         WriterLine(s, M, w, n), ReaderLine(s, M, R, t, n), FeedMoves(w, v, B, C, R, P, t, u),
         FeedOK(s, Append(B, t), w)
  PROVE  FeedOK(s, Append(C, u), v)
<1>1. PICK k \in 0 .. Len(Scans) : WriterIn(s, k, w)
  BY DEF WriterLine, InAScan
<1>2. PICK i \in 0 .. Len(Scans) : ReaderIn(s, i, R, t)
  BY DEF ReaderLine, InReading
<1>3. CASE C = B /\ u = t /\ Calm(w, v)
  <2>1. PICK F : F = Append(B, t) /\ F[1] \in Int
    BY FeedPlaces
  <2>2. FeedOK(s, F, v)
    BY <1>3, <2>1, FeedCalm
  <2> QED BY <1>3, <2>1, <2>2
<1>4. CASE C = Append(B, t) /\ v = w /\ ReadOn(R, P, t, u)
  <2>1. FeedOK(s, Append(Append(B, t), u), w)
    BY <1>2, <1>4, FeedRead
  <2> QED BY <1>4, <2>1
<1>5. CASE C = B /\ v = w /\ ReadNext(R, P, t, u)
  <2>1. ReadNext(R, P, t, u)
    BY <1>5
  <2>2. PICK j \in DOMAIN Scans :
           /\ NextScan(s, i, j) /\ j \in 0 .. Len(Scans) /\ ReaderIn(s, j, P, u) /\ u = Scans[j].start
           /\ Chain(Line(ReaderIntervals(P), M, IntervalIn), Pairs, IntervalsAfter(s, j), AfterInterval(s),
                    IntervalsAfter(s, n))
    BY <1>2, <2>1, ReaderNext, Zenon
  <2>3. ReadNext(R, P, t, Scans[j].start)
    BY <2>1, <2>2
  <2>4. FeedOK(s, Append(B, Scans[j].start), w)
    BY <1>1, <1>2, <2>2, <2>3, FeedNext
  <2> QED BY <1>5, <2>2, <2>4
<1>6. CASE /\ B # <<>> /\ C = Tail(B) /\ v = w /\ u = t
           /\ w.pc = "write" /\ w.left = NumberFfts /\ B[1] < w.time
  <2>1. FeedOK(s, Append(Tail(B), t), w)
    BY <1>1, <1>6, FeedSkipped
  <2> QED BY <1>6, <2>1
<1>7. CASE /\ B # <<>> /\ C = Tail(B) /\ u = t
           /\ Written(w, v) /\ ~(w.left = NumberFfts /\ B[1] < w.time)
  <2>1. FeedOK(s, Append(Tail(B), t), v)
    BY <1>1, <1>7, FeedWritten
  <2> QED BY <1>7, <2>1
<1> QED BY <1>3, <1>4, <1>5, <1>6, <1>7 DEF FeedMoves

LEMMA FeedsNext ==
  ASSUME ScansApart, SInv, SInv', Clocks, Feeds, [Next]_vars
  PROVE  Feeds'
<1>1. InputTypes /\ InputTypes' /\ WriterStates
  BY DEF SInv, Types
<1>2. CASE UNCHANGED <<iStatus, blocks, readTime, writer>>
  BY <1>2 DEF Feeds, Alive
<1>3. CASE \E r \in Stations : InputStep(r)
  <2>1. PICK r \in Stations : InputStep(r)
    BY <1>3
  <2>2. ASSUME NEW s \in Stations, NEW ch \in Channels, Alive(s)'
        PROVE  FeedOK(s, Append(blocks'[s][ch], readTime'[s]), writer'[s][ch])
    <3>1. PICK M \in Seq(Messages), w \in Writers, v \in Writers, B \in Seq(Int), R \in Seq(Pairs),
               t \in Int :
            /\ M = mail[s] /\ w = writer[s][ch] /\ v = writer'[s][ch] /\ B = blocks[s][ch]
            /\ R = reading[s] /\ t = readTime[s]
      BY <1>1, SMTT(30) DEF InputTypes, Pairs
    <3>2. Alive(s)
      BY <1>1, <2>1, <2>2, StationSeen
    <3>3. WriterLine(s, M, w, mScan) /\ ReaderLine(s, M, R, t, mScan)
      BY <3>1, <3>2 DEF Clocks, WriterClocks, ReaderClocks
    <3>4. FeedMoves(w, v, B, blocks'[s][ch], R, reading'[s], t, readTime'[s])
      BY <1>1, <2>1, <2>2, <3>1, FeedSeen
    <3>5. FeedOK(s, Append(B, t), w)
      BY <3>1, <3>2 DEF Feeds
    <3>6. FeedOK(s, Append(blocks'[s][ch], readTime'[s]), v)
      BY <3>3, <3>4, <3>5, FeedStep
    <3> QED BY <3>1, <3>6
  <2> QED BY <2>2 DEF Feeds
<1>4. CASE \E c \in Nodes : NodeStep(c)
  BY <1>2, <1>4 DEF NodeStep, Correlate, Request, FinishSlice, iVars
<1>5. CASE ManagerStep
  BY <1>2, <1>5 DEF ManagerStep, StartNewScan, StartCorrelatorNode, EndNodes
<1>6. CASE UNCHANGED vars
  BY <1>2, <1>6 DEF vars, iVars
<1> QED BY <1>3, <1>4, <1>5, <1>6 DEF Next

LEMMA FeedsInit ==
  ASSUME Init
  PROVE  Feeds
<1>1. ASSUME NEW s \in Stations, NEW ch \in Channels
      PROVE  FeedOK(s, Append(blocks[s][ch], readTime[s]), writer[s][ch])
  <2>1. blocks[s][ch] = <<>> /\ readTime[s] = 0 /\ writer[s][ch] = NewWriter
    BY DEF Init, InputInit
  <2>2. Append(<<>>, 0) = <<0>>
    OBVIOUS
  <2>3. Linked(s, <<0>>)
    BY DEF Linked
  <2>4. \A u \in Needed(s, NewWriter) : 0 <= u
    <3>1. NewWriter \in Writers /\ WriterIn(s, 0, NewWriter) /\ NewWriter.time = 0
      <4>1. NumberFfts \in Nat
        BY InputNodeAssumption
      <4> QED BY <4>1 DEF NewWriter, Writers, WriterIn, StopOf
    <3>2. 0 \in 0 .. Len(Scans)
      BY ScanRange
    <3>3. Needed(s, NewWriter) = TimesFrom(s, 0, 0)
      BY <3>1, <3>2, WriterDue
    <3>4. Needed(s, NewWriter) = StartsAfter(s, 0)
      BY <3>3 DEF TimesFrom, StopOf
    <3>5. ASSUME NEW u \in Needed(s, NewWriter) PROVE 0 <= u
      <4>1. PICK j : NextScan(s, 0, j) /\ u = Scans[j].start
        BY <3>4, <3>5, StartAfter
      <4> QED BY <4>1, ScanRange DEF NextScan, In
    <3> QED BY <3>5
  <2> QED BY <2>1, <2>2, <2>3, <2>4 DEF FeedOK, NewWriter
<1> QED BY <1>1 DEF Feeds

-----------------------------------------------------------------------------
\* The p-th unit on the stream from station s to a node with the slices h, of the first of
\* which it has read f units.
UnitAt(h, f, s, p) ==
  IF s \in h[1].stations
  THEN IF f + p <= NumberFfts + 1 THEN UnitOf(h[1], f + p) ELSE UnitOf(h[2], f + p - NumberFfts - 1)
  ELSE UnitOf(h[2], p)

Contents ==
  \A s \in Stations, c \in Nodes : \A p \in DOMAIN wire[s][c] :
    wire[s][c][p] = UnitAt(handed[c], fft[c], s, p)

\* No more is on a stream than is owed.
LEMMA WireOwed ==
  ASSUME NumberFfts \in Nat, NEW M, NEW W \in [Channels -> Writers], NEW a, NEW L \in Nat,
         NEW owed \in Nat, NEW c, StreamOK(M, W, a, L, owed, c)
  PROVE  L <= owed
<1>1. PICK later \in Nat : later = IF Waiting(M, W, c) THEN NumberFfts + 1 ELSE 0
  OBVIOUS
<1>2. CASE \E ch \in Channels : Writes(W[ch], c)
  <2>1. PICK ch \in Channels, left \in Nat : Writes(W[ch], c) /\ left = W[ch].left
    BY <1>2 DEF Writers
  <2>2. L + left + 1 + later = owed
    BY <1>1, <2>1 DEF StreamOK, Balance
  <2> QED BY <2>2
<1>3. CASE \A ch \in Channels : ~Writes(W[ch], c)
  <2>1. L + later = owed
    BY <1>1, <1>3 DEF StreamOK, Balance
  <2> QED BY <2>1
<1> QED BY <1>2, <1>3

\* Which unit of a slice it is that leaves `left` units, and the end, to be written.
LEMMA UnitLeft ==
  ASSUME NEW N \in Nat, NEW f \in Nat, NEW L \in Nat, NEW left \in Nat, left <= N,
         NEW first \in Nat, first = N + 1 - f
  PROVE  /\ L + left + 1 = first => f + (L + 1) = N - left + 1 /\ f + (L + 1) <= N + 1
         /\ L + left + 1 = first + N + 1 =>
              ~(f + (L + 1) <= N + 1) /\ f + (L + 1) - N - 1 = N - left + 1
<1>1. ASSUME L + left + 1 = first
      PROVE  f + (L + 1) = N - left + 1 /\ f + (L + 1) <= N + 1
  BY <1>1
<1>2. ASSUME L + left + 1 = first + N + 1
      PROVE  ~(f + (L + 1) <= N + 1) /\ f + (L + 1) - N - 1 = N - left + 1
  BY <1>2
<1> QED BY <1>1, <1>2

LEMMA OwedLater ==
  ASSUME NEW N \in Nat, NEW x \in Nat, NEW first \in Nat, NEW owed, NEW later \in Nat,
         x + later = owed
  PROVE  /\ owed = first /\ later = 0 => x = first
         /\ owed = first + N + 1 /\ later = 0 => x = first + N + 1
         /\ owed = first + N + 1 /\ later = N + 1 => x = first
OBVIOUS

LEMMA UnitOwed ==
  ASSUME NumberFfts \in Nat, NEW h \in Seq(SlicesGiven), NEW s \in Stations,
         NEW f \in 0 .. NumberFfts, NEW left \in 0 .. NumberFfts, NEW p \in Nat \ {0},
         NEW k, k = NumberFfts - left + 1
  PROVE  /\ p + left = OwedOf(h[1], s, f) => UnitAt(h, f, s, p) = UnitOf(h[1], k)
         /\ p + left = OwedOf(h[1], s, f) + NumberFfts + 1 => UnitAt(h, f, s, p) = UnitOf(h[2], k)
<1>1. PICK N \in Nat : N = NumberFfts
  OBVIOUS
<1>2. PICK first \in Nat : first = OwedOf(h[1], s, f)
  <2>1. NumberFfts + 1 - f \in Nat
    OBVIOUS
  <2> QED BY <2>1 DEF OwedOf
<1>3. /\ s \notin h[1].stations => first = 0
      /\ s \in h[1].stations => first = N + 1 - f
  BY <1>1, <1>2 DEF OwedOf
<1>4. f \in Nat /\ left \in Nat /\ left <= N
  BY <1>1
<1>5. PICK L \in Nat : p = L + 1
  <2>1. p - 1 \in Nat /\ p = (p - 1) + 1
    OBVIOUS
  <2> QED BY <2>1
<1>6. ASSUME p + left = first
      PROVE  UnitAt(h, f, s, p) = UnitOf(h[1], k)
  <2>1. s \in h[1].stations /\ first = N + 1 - f
    BY <1>3, <1>4, <1>6
  <2>2. f + p = k /\ f + p <= N + 1
    BY <1>1, <1>4, <1>5, <1>6, <2>1, UnitLeft
  <2> QED BY <1>1, <2>1, <2>2 DEF UnitAt
<1>7. ASSUME p + left = first + N + 1
      PROVE  UnitAt(h, f, s, p) = UnitOf(h[2], k)
  <2>1. CASE s \in h[1].stations
    <3>1. first = N + 1 - f
      BY <1>3, <2>1
    <3>2. ~(f + p <= N + 1) /\ f + p - N - 1 = k
      BY <1>1, <1>4, <1>5, <1>7, <3>1, UnitLeft
    <3> QED BY <1>1, <2>1, <3>2 DEF UnitAt
  <2>2. CASE s \notin h[1].stations
    <3>1. p = k
      BY <1>1, <1>3, <1>4, <1>7, <2>2
    <3> QED BY <2>2, <3>1 DEF UnitAt
  <2> QED BY <2>1, <2>2
<1> QED BY <1>1, <1>2, <1>6, <1>7

\* The same when nothing else is owed, or the slice that waits.
DueUnit(h, f, s, left, p, k) ==
  /\ p + left = Owed(h, f, s) => UnitAt(h, f, s, p) = UnitOf(LastOf(h, s), k)
  /\ p + left + NumberFfts + 1 = Owed(h, f, s) => UnitAt(h, f, s, p) = UnitOf(h[1], k)

LEMMA UnitDue ==
  ASSUME NumberFfts \in Nat, NEW h \in Seq(SlicesGiven), Len(h) \in {0, 1, 2},
         NEW s \in Stations, NEW f \in 0 .. NumberFfts, NEW left \in 0 .. NumberFfts,
         NEW p \in Nat \ {0}, NEW k, k = NumberFfts - left + 1
  PROVE  DueUnit(h, f, s, left, p, k)
<1> USE DEF DueUnit
<1>1. PICK n \in {0, 1, 2} : n = Len(h)
  OBVIOUS
<1>2. PICK first \in Nat : first = OwedOf(h[1], s, f)
  <2>1. NumberFfts + 1 - f \in Nat
    OBVIOUS
  <2> QED BY <2>1 DEF OwedOf
<1>3. PICK x \in Nat : x = p + left /\ x > 0
  <2>1. p + left \in Nat /\ p + left > 0
    OBVIOUS
  <2> QED BY <2>1
<1>4. PICK N \in Nat : N = NumberFfts
  OBVIOUS
<1>5. /\ x = first => UnitAt(h, f, s, p) = UnitOf(h[1], k)
      /\ x = first + N + 1 => UnitAt(h, f, s, p) = UnitOf(h[2], k)
  <2>1. /\ p + left = OwedOf(h[1], s, f) => UnitAt(h, f, s, p) = UnitOf(h[1], k)
        /\ p + left = OwedOf(h[1], s, f) + NumberFfts + 1 => UnitAt(h, f, s, p) = UnitOf(h[2], k)
    BY UnitOwed
  <2> QED BY <1>2, <1>3, <1>4, <2>1
<1>6. first <= N + 1
  <2>1. OwedOf(h[1], s, f) \in 0 .. NumberFfts + 1
    BY OwedSlices
  <2> QED BY <1>2, <1>4, <2>1
<1>7. Owed(h, f, s) > 0 => n \in {1, 2}
  BY <1>1, OwedSlices
<1>8. CASE n = 0
  <2>1. ~(Owed(h, f, s) > 0)
    BY <1>7, <1>8
  <2> QED BY <1>3, <2>1
<1>9. CASE n # 0 /\ (n = 1 \/ s \notin h[2].stations)
  <2>1. LastOf(h, s) = h[1] /\ Owed(h, f, s) = OwedOf(h[1], s, f)
    BY <1>1, <1>9, OwedSlices
  <2>2. Owed(h, f, s) = first
    BY <1>2, <2>1
  <2>3. ~(x + N + 1 = first)
    BY <1>3, <1>6
  <2> QED BY <1>3, <1>4, <1>5, <2>1, <2>2, <2>3
<1>10. CASE n = 2 /\ s \in h[2].stations
  <2>1. LastOf(h, s) = h[2] /\ Owed(h, f, s) = OwedOf(h[1], s, f) + NumberFfts + 1
    <3>1. Len(h) = 2 /\ s \in h[2].stations
      BY <1>1, <1>10
    <3> QED BY <3>1, OwedSlices
  <2>2. Owed(h, f, s) = first + N + 1
    BY <1>2, <1>4, <2>1
  <2>3. x + N + 1 = first + N + 1 => x = first
    BY <1>3
  <2> QED BY <1>3, <1>4, <1>5, <2>1, <2>2, <2>3
<1> QED BY <1>8, <1>9, <1>10

\* The unit that a writer puts on the stream is that of the slice g it works on.
LEMMA UnitWritten ==
  ASSUME NumberFfts \in Nat, NEW left \in 0 .. NumberFfts, NEW g, NEW ch, NEW start \in Int,
         g.channel = ch, g.time = start, NEW b, NEW k, k = NumberFfts - left + 1
  PROVE  /\ left > 0 /\ b = start + NumberFfts - left => Unit(ch, b) = UnitOf(g, k)
         /\ left = 0 => EndOfStream = UnitOf(g, k)
<1>1. ASSUME left > 0, b = start + NumberFfts - left PROVE Unit(ch, b) = UnitOf(g, k)
  <2>1. k <= NumberFfts /\ start + k - 1 = b
    BY <1>1
  <2> QED BY <2>1 DEF UnitOf
<1>2. ASSUME left = 0 PROVE EndOfStream = UnitOf(g, k)
  <2>1. ~(k <= NumberFfts)
    BY <1>2
  <2> QED BY <2>1 DEF UnitOf
<1> QED BY <1>1, <1>2

\* The block that is written is that of the writer's clock.
LEMMA BlockWritten ==
  ASSUME ScansApart, SInv, SInv', Clocks, Feeds, NEW s \in Stations, NEW ch \in Channels, Alive(s),
         Written(writer[s][ch], writer'[s][ch]), WriteBlock(s, ch)
  PROVE  blocks[s][ch][1] = writer[s][ch].start + NumberFfts - writer[s][ch].left
<1>1. InputTypes /\ InputTypes'
  BY DEF SInv, Types
<1>2. PICK w \in Writers, v \in Writers, B \in Seq(Int), t \in Int :
        w = writer[s][ch] /\ v = writer'[s][ch] /\ B = blocks[s][ch] /\ t = readTime[s]
  BY <1>1 DEF InputTypes
<1>3. PICK n \in 0 .. Len(Scans) : WriterIn(s, n, w)
  BY <1>2 DEF Clocks, WriterClocks, WriterLine, InAScan
<1>4. FeedOK(s, Append(B, t), w)
  BY <1>2 DEF Feeds
<1>5. B # <<>>
  BY <1>2 DEF WriteBlock
<1>10. ~(w.left = NumberFfts /\ B[1] < w.time)
  BY <1>2, <1>5 DEF WriteBlock, Old
<1>6. w.pc = "write"
  BY <1>2 DEF Written
<1>7. w.time = w.start + NumberFfts - w.left
  BY <1>3, <1>6, WriterTime
<1>8. Written(w, v)
  BY <1>2
<1>9. B[1] = w.time
  <2>1. B[1] = w.time /\ FeedOK(s, Append(Tail(B), t), v)
    BY <1>3, <1>4, <1>5, <1>8, <1>10, FeedWritten
  <2> QED BY <2>1
<1> QED BY <1>2, <1>7, <1>9

\* What a step of a station adds to a stream is the next of its units.
Puts(s, ch, u) ==
  \/ /\ Written(writer[s][ch], writer'[s][ch]) /\ WriteBlock(s, ch)
     /\ u = Unit(ch, blocks[s][ch][1])
  \/ Ended(writer[s][ch], writer'[s][ch]) /\ u = EndOfStream

LEMMA UnitAdded ==
  ASSUME ScansApart, SInv, SInv', Clocks, Feeds, RightSlices,
         NEW s \in Stations, NEW c \in Nodes, NEW ch \in Channels, Writes(writer[s][ch], c), NEW u,
         Puts(s, ch, u)
  PROVE  UnitAt(handed[c], fft[c], s, Len(wire[s][c]) + 1) = u
<1>1. NumberFfts \in Nat /\ InputTypes
  BY InputNodeAssumption DEF SInv, Types
<1>2. PICK M \in Seq(Messages), W \in [Channels -> Writers], a \in BOOLEAN, L \in Nat,
           h \in Seq(SlicesGiven), f \in 0 .. NumberFfts, owed \in Nat :
        /\ M = mail[s] /\ W = writer[s] /\ a = active[s][c] /\ L = Len(wire[s][c])
        /\ h = handed[c] /\ f = fft[c] /\ owed = Owed(h, f, s)
        /\ Len(h) \in {0, 1, 2} /\ StreamOK(M, W, a, L, owed, c)
  BY StreamState, ZenonT(30)
<1>3. PICK left \in 0 .. NumberFfts : W[ch].left = left
  BY DEF Writers
<1>4. PICK p \in Nat \ {0} : p = L + 1
  <2>1. L + 1 \in Nat \ {0}
    BY <1>2
  <2> QED BY <2>1
<1>5. PICK k \in Nat : k = NumberFfts - left + 1
  <2>1. NumberFfts - left + 1 \in Nat
    BY <1>1, <1>3
  <2> QED BY <2>1
<1>6. UnitAt(h, f, s, p) = UnitOf(IF Waiting(M, W, c) THEN h[1] ELSE LastOf(h, s), k)
  <2>1. /\ Waiting(M, W, c) => L + left + 1 + (NumberFfts + 1) = owed
        /\ ~Waiting(M, W, c) => L + left + 1 + 0 = owed
    BY <1>2, <1>3 DEF StreamOK, Balance
  <2>2. PICK N \in Nat, n \in Nat : N = NumberFfts /\ n = left
    BY <1>1
  <2>3. L + n + 1 + (N + 1) = p + n + N + 1 /\ L + n + 1 + 0 = p + n
    BY <1>4
  <2>4. /\ Waiting(M, W, c) => p + left + NumberFfts + 1 = Owed(h, f, s)
        /\ ~Waiting(M, W, c) => p + left = Owed(h, f, s)
    BY <1>2, <2>1, <2>2, <2>3
  <2>5. Len(h) \in {0, 1, 2}
    BY <1>2
  <2>6. DueUnit(h, f, s, left, p, k)
    BY <1>1, <1>5, <2>5, UnitDue
  <2> QED BY <2>4, <2>6 DEF DueUnit
<1>7. PICK g : g = IF Waiting(M, W, c) THEN h[1] ELSE LastOf(h, s)
  OBVIOUS
<1>8. g.channel = ch /\ g.time = W[ch].start
  BY <1>2, <1>7 DEF RightSlices, IsSlice, InWork
<1>9. PICK start \in Int : W[ch].start = start
  BY DEF Writers
<1>10. u = UnitOf(g, k)
  <2>1. /\ left > 0 /\ blocks[s][ch][1] = start + NumberFfts - left =>
             Unit(ch, blocks[s][ch][1]) = UnitOf(g, k)
        /\ left = 0 => EndOfStream = UnitOf(g, k)
    BY <1>1, <1>5, <1>8, <1>9, UnitWritten
  <2>2. CASE Written(writer[s][ch], writer'[s][ch]) /\ WriteBlock(s, ch)
             /\ u = Unit(ch, blocks[s][ch][1])
    <3>1. left > 0
      BY <1>2, <1>3, <2>2 DEF Written
    <3>2. Alive(s)
      BY DEF Writes, Clocks, WritersAlive
    <3>3. blocks[s][ch][1] = start + NumberFfts - left
      BY <1>2, <1>3, <1>9, <2>2, <3>2, BlockWritten
    <3> QED BY <2>1, <2>2, <3>1, <3>3
  <2>3. CASE Ended(writer[s][ch], writer'[s][ch]) /\ u = EndOfStream
    <3>1. left = 0
      BY <1>2, <1>3, <2>3 DEF Ended
    <3> QED BY <2>1, <2>3, <3>1
  <2> QED BY <2>2, <2>3 DEF Puts
<1> QED BY <1>2, <1>4, <1>6, <1>7, <1>10

LEMMA ContentsAdded ==
  ASSUME NEW Q \in Seq(Units), NEW u \in Units, NEW h, NEW f, NEW s,
         \A p \in DOMAIN Q : Q[p] = UnitAt(h, f, s, p), UnitAt(h, f, s, Len(Q) + 1) = u
  PROVE  \A p \in DOMAIN Append(Q, u) : Append(Q, u)[p] = UnitAt(h, f, s, p)
<1>1. PICK R \in Seq(Units) : R = Append(Q, u)
  <2>1. Append(Q, u) \in Seq(Units)
    OBVIOUS
  <2> QED BY <2>1
<1>2. PICK n \in Nat : n = Len(Q) /\ DOMAIN Q = 1 .. n
  OBVIOUS
<1>3. DOMAIN R = 1 .. n + 1 /\ R[n + 1] = u /\ \A i \in 1 .. n : R[i] = Q[i]
  BY <1>1, <1>2, AppendProperties
<1>4. ASSUME NEW p \in DOMAIN R PROVE R[p] = UnitAt(h, f, s, p)
  <2>1. CASE p \in 1 .. n
    BY <1>2, <1>3, <2>1
  <2>2. CASE p \notin 1 .. n
    <3>1. p = n + 1
      BY <1>3, <2>2
    <3> QED BY <1>2, <1>3, <3>1
  <2> QED BY <2>1, <2>2
<1> QED BY <1>1, <1>4

LEMMA ContentsStation ==
  ASSUME ScansApart, SInv, SInv', Clocks, Feeds, RightSlices, Contents, NEW r \in Stations, InputStep(r)
  PROVE  Contents'
<1>1. InputTypes /\ WriterStates /\ handed' = handed /\ fft' = fft
  BY DEF SInv, Types, InputStep, sVars
<1>2. ASSUME NEW s \in Stations, NEW c \in Nodes
      PROVE  \A p \in DOMAIN wire'[s][c] : wire'[s][c][p] = UnitAt(handed[c], fft[c], s, p)
  <2>1. \A p \in DOMAIN wire[s][c] : wire[s][c][p] = UnitAt(handed[c], fft[c], s, p)
    BY DEF Contents
  <2>2. CASE wire'[s][c] = wire[s][c]
    BY <2>1, <2>2
  <2>3. CASE wire'[s][c] # wire[s][c]
    <3>1. PICK ch \in Channels, u \in Units :
            /\ Writes(writer[s][ch], c) /\ wire'[s][c] = Append(wire[s][c], u)
            /\ \/ /\ Written(writer[s][ch], writer'[s][ch]) /\ WriteBlock(s, ch)
                  /\ u = Unit(ch, blocks[s][ch][1])
               \/ Ended(writer[s][ch], writer'[s][ch]) /\ u = EndOfStream
      BY <1>1, <2>3, WireSeen
    <3>5. Puts(s, ch, u)
      BY <3>1 DEF Puts
    <3>2. UnitAt(handed[c], fft[c], s, Len(wire[s][c]) + 1) = u
      BY <3>1, <3>5, UnitAdded
    <3>3. wire[s][c] \in Seq(Units)
      BY <1>1 DEF InputTypes
    <3>4. \A p \in DOMAIN Append(wire[s][c], u) :
            Append(wire[s][c], u)[p] = UnitAt(handed[c], fft[c], s, p)
      BY <2>1, <3>2, <3>3, ContentsAdded
    <3> QED BY <3>1, <3>4
  <2> QED BY <2>2, <2>3
<1> QED BY <1>1, <1>2 DEF Contents

\* The units of a stream when its node has read one, or the last of its first slice.
LEMMA UnitRead ==
  ASSUME NumberFfts \in Nat, NEW h, NEW s, NEW f \in Nat, NEW p \in Nat
  PROVE  /\ s \in h[1].stations => UnitAt(h, f, s, p + 1) = UnitAt(h, f + 1, s, p)
         /\ s \notin h[1].stations => UnitAt(h, f, s, p) = UnitAt(h, f + 1, s, p)
<1>1. PICK N \in Nat : N = NumberFfts
  OBVIOUS
<1>2. /\ f + (p + 1) = (f + 1) + p
      /\ (f + (p + 1) <= N + 1) <=> ((f + 1) + p <= N + 1)
  OBVIOUS
<1> QED BY <1>1, <1>2 DEF UnitAt

LEMMA UnitEnd ==
  ASSUME NumberFfts \in Nat, NEW h, NEW g, g[1] = h[2], NEW s, s \in g[1].stations,
         NEW p \in Nat, p > 0, p <= NumberFfts + 1
  PROVE  /\ s \in h[1].stations => UnitAt(h, NumberFfts, s, p + 1) = UnitAt(g, 0, s, p)
         /\ s \notin h[1].stations => UnitAt(h, NumberFfts, s, p) = UnitAt(g, 0, s, p)
<1>1. PICK N \in Nat : N = NumberFfts
  OBVIOUS
<1>2. /\ ~(N + (p + 1) <= N + 1) /\ N + (p + 1) - N - 1 = p
      /\ 0 + p <= N + 1 /\ 0 + p = p
  BY <1>1
<1>3. UnitAt(g, 0, s, p) = UnitOf(h[2], p)
  BY <1>1, <1>2 DEF UnitAt
<1> QED BY <1>1, <1>2, <1>3 DEF UnitAt

LEMMA ContentsTaken ==
  ASSUME NEW Q \in Seq(Units), Q # <<>>, NEW h, NEW f, NEW g, NEW e, NEW s,
         \A p \in DOMAIN Q : Q[p] = UnitAt(h, f, s, p),
         \A p \in 1 .. Len(Tail(Q)) : UnitAt(h, f, s, p + 1) = UnitAt(g, e, s, p)
  PROVE  \A p \in DOMAIN Tail(Q) : Tail(Q)[p] = UnitAt(g, e, s, p)
<1>1. PICK n \in Nat : n = Len(Q) /\ n > 0 /\ DOMAIN Q = 1 .. n
  BY EmptySeq
<1>2. PICK R \in Seq(Units) : R = Tail(Q)
  <2>1. Tail(Q) \in Seq(Units)
    BY HeadTailProperties
  <2> QED BY <2>1
<1>3. DOMAIN R = 1 .. n - 1 /\ Len(R) = n - 1 /\ \A i \in 1 .. n - 1 : R[i] = Q[i + 1]
  BY <1>1, <1>2, HeadTailProperties
<1>4. ASSUME NEW p \in 1 .. n - 1 PROVE R[p] = UnitAt(g, e, s, p)
  <2>1. p + 1 \in DOMAIN Q
    BY <1>1
  <2>2. Q[p + 1] = UnitAt(h, f, s, p + 1)
    BY <2>1
  <2>3. UnitAt(h, f, s, p + 1) = UnitAt(g, e, s, p)
    BY <1>2, <1>3
  <2> QED BY <1>3, <2>2, <2>3
<1> QED BY <1>2, <1>3, <1>4

\* A stream when node c reads of its streams, and how much is on it.
ReadOf(s, c) ==
  \/ s \in handed[c][1].stations /\ wire[s][c] # <<>> /\ wire'[s][c] = Tail(wire[s][c])
  \/ s \notin handed[c][1].stations /\ wire'[s][c] = wire[s][c]

LEMMA StreamsRead ==
  ASSUME SInv, NEW c \in Nodes, Correlate(c) \/ FinishSlice(c), NEW s \in Stations
  PROVE  /\ handed[c] # <<>> /\ handed[c] \in Seq(SlicesGiven) /\ Len(handed[c]) \in {1, 2}
         /\ ReadOf(s, c)
         /\ wire[s][c] \in Seq(Units) /\ wire'[s][c] \in Seq(Units)
         /\ \A d \in Nodes \ {c} : wire'[s][d] = wire[s][d] /\ handed'[d] = handed[d] /\ fft'[d] = fft[d]
<1>1. Types /\ Requests
  BY DEF SInv
<1>2. /\ handed[c] # <<>> /\ Take(c)
      /\ \A r \in Present(c).stations : wire[r][c] # <<>>
  BY DEF Correlate, FinishSlice
<1>3. /\ wire' \in [Stations -> [Nodes -> Seq(Units)]]
      /\ s \in handed[c][1].stations => wire'[s][c] = Tail(wire[s][c])
      /\ s \notin handed[c][1].stations => wire'[s][c] = wire[s][c]
      /\ \A d \in Nodes \ {c} : wire'[s][d] = wire[s][d]
  BY <1>1, <1>2, TakeFacts
<1>4. handed[c] \in Seq(SlicesGiven) /\ Len(handed[c]) \in {1, 2}
  BY <1>1, <1>2, SlicesOfNode
<1>5. \A d \in Nodes \ {c} : handed'[d] = handed[d] /\ fft'[d] = fft[d]
  BY <1>1 DEF Types, SupplyTypes, Correlate, FinishSlice
<1>6. wire[s][c] \in Seq(Units) /\ wire'[s][c] \in Seq(Units)
  BY <1>1, <1>3 DEF Types, InputTypes
<1>7. s \in handed[c][1].stations => wire[s][c] # <<>>
  BY <1>2 DEF Present
<1> QED BY <1>2, <1>3, <1>4, <1>5, <1>6, <1>7 DEF ReadOf

LEMMA ContentsCorrelate ==
  ASSUME SInv, Contents, NEW c \in Nodes, Correlate(c), NEW s \in Stations
  PROVE  \A p \in DOMAIN wire'[s][c] : wire'[s][c][p] = UnitAt(handed'[c], fft'[c], s, p)
<1>1. PICK f \in Nat, h \in Seq(SlicesGiven), Q \in Seq(Units) :
        f = fft[c] /\ h = handed[c] /\ Q = wire[s][c] /\ handed'[c] = h /\ fft'[c] = f + 1
  <2>2. handed[c] \in Seq(SlicesGiven)
    BY StreamsRead
  <2>1. fft \in [Nodes -> 0 .. NumberFfts] /\ NumberFfts \in Nat /\ wire \in [Stations -> [Nodes -> Seq(Units)]]
    BY InputNodeAssumption DEF SInv, Types, SupplyTypes, InputTypes
  <2>3. fft[c] \in Nat /\ wire[s][c] \in Seq(Units)
    BY <2>1
  <2> QED BY <2>1, <2>2, <2>3 DEF Correlate
<1>2. NumberFfts \in Nat
  BY InputNodeAssumption
<1>3. \A p \in DOMAIN Q : Q[p] = UnitAt(h, f, s, p)
  BY <1>1 DEF Contents
<1>4. ReadOf(s, c)
  BY StreamsRead
<1>5. CASE s \in h[1].stations
  <2>1. Q # <<>> /\ wire'[s][c] = Tail(Q)
    BY <1>1, <1>4, <1>5 DEF ReadOf
  <2>2. \A p \in Nat : UnitAt(h, f, s, p + 1) = UnitAt(h, f + 1, s, p)
    BY <1>2, <1>5, UnitRead
  <2>3. \A p \in 1 .. Len(Tail(Q)) : UnitAt(h, f, s, p + 1) = UnitAt(h, f + 1, s, p)
    BY <2>2
  <2>4. \A p \in DOMAIN Tail(Q) : Tail(Q)[p] = UnitAt(h, f + 1, s, p)
    BY <1>3, <2>1, <2>3, ContentsTaken
  <2> QED BY <1>1, <2>1, <2>4
<1>6. CASE s \notin h[1].stations
  <2>1. wire'[s][c] = Q
    BY <1>1, <1>4, <1>6 DEF ReadOf
  <2>2. \A p \in Nat : UnitAt(h, f, s, p) = UnitAt(h, f + 1, s, p)
    BY <1>2, <1>6, UnitRead
  <2>3. \A p \in DOMAIN Q : Q[p] = UnitAt(h, f + 1, s, p)
    BY <1>3, <2>2
  <2> QED BY <1>1, <2>1, <2>3
<1> QED BY <1>5, <1>6

LEMMA ContentsFinish ==
  ASSUME SInv, SInv', Contents, NEW c \in Nodes, FinishSlice(c), NEW s \in Stations
  PROVE  \A p \in DOMAIN wire'[s][c] : wire'[s][c][p] = UnitAt(handed'[c], fft'[c], s, p)
<1>1. NumberFfts \in Nat /\ Types
  BY InputNodeAssumption DEF SInv
<1>2. PICK h \in Seq(SlicesGiven), Q \in Seq(Units), R \in Seq(Units) :
        h = handed[c] /\ Q = wire[s][c] /\ R = wire'[s][c] /\ h # <<>> /\ Len(h) \in {1, 2}
  BY StreamsRead, ZenonT(30)
<1>3. fft[c] = NumberFfts /\ handed'[c] = Tail(h) /\ fft'[c] = 0
  BY <1>1, <1>2, SMTT(30) DEF FinishSlice, Types, SupplyTypes
<1>4. PICK g \in Seq(SlicesGiven) :
        /\ g = Tail(h) /\ Len(g) = Len(h) - 1
        /\ Len(h) = 2 => g # <<>> /\ g[1] = h[2]
        /\ Len(h) = 1 => g = <<>>
  <2>1. /\ Tail(h) \in Seq(SlicesGiven) /\ Len(Tail(h)) = Len(h) - 1
        /\ Len(h) = 2 => Tail(h) # <<>> /\ Tail(h)[1] = h[2]
        /\ Len(h) = 1 => Tail(h) = <<>>
    BY <1>2, LastLeft
  <2> QED BY <2>1, ZenonT(30)
<1>5. \A p \in DOMAIN Q : Q[p] = UnitAt(h, NumberFfts, s, p)
  BY <1>2, <1>3 DEF Contents
<1>6. ReadOf(s, c)
  BY StreamsRead
<1>7. Len(R) <= Owed(g, 0, s)
  <2>1. PICK M \in Seq(Messages), W \in [Channels -> Writers], a \in BOOLEAN, L \in Nat,
             e \in Seq(SlicesGiven), f \in 0 .. NumberFfts, owed \in Nat :
          /\ M = mail'[s] /\ W = writer'[s] /\ a = active'[s][c] /\ L = Len(wire'[s][c])
          /\ e = handed'[c] /\ f = fft'[c] /\ owed = Owed(e, f, s)
          /\ Len(e) \in {0, 1, 2} /\ StreamOK(M, W, a, L, owed, c)
    BY StreamAfter, ZenonT(30)
  <2>2. L <= owed
    BY <1>1, <2>1, WireOwed
  <2> QED BY <1>2, <1>3, <1>4, <2>1, <2>2
<1>8. CASE Len(R) = 0
  <2>1. DOMAIN R = {}
    BY <1>8
  <2> QED BY <1>2, <2>1
<1>9. CASE Len(R) # 0
  <2>1. Owed(g, 0, s) > 0 /\ Len(g) \in {0, 1}
    <3>1. PICK n \in {1, 2} : n = Len(h)
      BY <1>2
    <3>2. Len(g) \in {0, 1}
      BY <1>4, <3>1
    <3>3. Owed(g, 0, s) \in Nat
      BY <1>1, OwedNatural
    <3>4. Len(R) \in Nat
      OBVIOUS
    <3> QED BY <1>7, <1>9, <3>2, <3>3, <3>4
  <2>2. g # <<>>
    <3>1. Len(g) = 0 => Owed(g, 0, s) = 0
      BY DEF Owed
    <3> QED BY <1>4, <2>1, <3>1, EmptySeq
  <2>3. Len(h) = 2 /\ Len(g) = 1 /\ g[1] = h[2]
    BY <1>2, <1>4, <2>2
  <2>4. Owed(g, 0, s) = OwedOf(g[1], s, 0)
    BY <2>3 DEF Owed
  <2>5. s \in g[1].stations /\ Owed(g, 0, s) = NumberFfts + 1
    BY <1>1, <2>1, <2>4 DEF OwedOf
  <2>6. \A p \in 1 .. Len(R) :
          /\ s \in h[1].stations => UnitAt(h, NumberFfts, s, p + 1) = UnitAt(g, 0, s, p)
          /\ s \notin h[1].stations => UnitAt(h, NumberFfts, s, p) = UnitAt(g, 0, s, p)
    <3>1. TAKE p \in 1 .. Len(R)
    <3>2. p \in Nat /\ p > 0 /\ p <= NumberFfts + 1
      BY <1>1, <1>7, <2>5
    <3> QED BY <1>1, <2>3, <2>5, <3>2, UnitEnd
  <2>7. CASE s \in h[1].stations
    <3>1. Q # <<>> /\ R = Tail(Q)
      BY <1>2, <1>6, <2>7 DEF ReadOf
    <3>2. \A p \in 1 .. Len(Tail(Q)) : UnitAt(h, NumberFfts, s, p + 1) = UnitAt(g, 0, s, p)
      BY <2>6, <2>7, <3>1
    <3>3. \A p \in DOMAIN Tail(Q) : Tail(Q)[p] = UnitAt(g, 0, s, p)
      BY <1>5, <3>1, <3>2, ContentsTaken
    <3> QED BY <1>2, <1>3, <1>4, <3>1, <3>3
  <2>8. CASE s \notin h[1].stations
    <3>1. R = Q
      BY <1>2, <1>6, <2>8 DEF ReadOf
    <3>2. \A p \in DOMAIN R : R[p] = UnitAt(g, 0, s, p)
      BY <1>5, <2>6, <2>8, <3>1
    <3> QED BY <1>2, <1>3, <1>4, <3>2
  <2> QED BY <2>7, <2>8
<1> QED BY <1>8, <1>9

LEMMA ContentsNode ==
  ASSUME SInv, SInv', Contents, NEW c \in Nodes, NodeStep(c)
  PROVE  Contents'
<1>1. CASE Request(c)
  BY <1>1 DEF Contents, Request, iVars
<1>2. CASE Correlate(c) \/ FinishSlice(c)
  <2>1. ASSUME NEW s \in Stations, NEW d \in Nodes
        PROVE  \A p \in DOMAIN wire'[s][d] : wire'[s][d][p] = UnitAt(handed'[d], fft'[d], s, p)
    <3>1. CASE d # c
      <4>1. wire'[s][d] = wire[s][d] /\ handed'[d] = handed[d] /\ fft'[d] = fft[d]
        BY <1>2, <3>1, StreamsRead
      <4> QED BY <4>1 DEF Contents
    <3>2. CASE d = c /\ Correlate(c)
      BY <3>2, ContentsCorrelate
    <3>3. CASE d = c /\ FinishSlice(c)
      BY <3>3, ContentsFinish
    <3> QED BY <1>2, <3>1, <3>2, <3>3
  <2> QED BY <2>1 DEF Contents
<1> QED BY <1>1, <1>2 DEF NodeStep

\* The manager gives a node a slice: what is on a stream is of the first slice of the node then.
LEMMA UnitGiven ==
  ASSUME NEW N \in Nat, NEW f \in 0 .. N, NEW L \in Nat, NEW owed \in Nat, L <= owed, owed = N + 1 - f
  PROVE  \A p \in 1 .. L : f + p <= N + 1
OBVIOUS

LEMMA ContentsHandedOut ==
  ASSUME SInv, Contents, NEW c \in Nodes, NEW g \in SlicesGiven, NEW m, HandsOut(c, g, m),
         Len(handed[c]) \in {0, 1}, NEW s \in Stations
  PROVE  \A p \in DOMAIN wire[s][c] : wire[s][c][p] = UnitAt(handed'[c], fft[c], s, p)
<1>1. NumberFfts \in Nat
  BY InputNodeAssumption
<1>2. PICK M \in Seq(Messages), W \in [Channels -> Writers], a \in BOOLEAN, L \in Nat,
           h \in Seq(SlicesGiven), f \in 0 .. NumberFfts, owed \in Nat :
        /\ M = mail[s] /\ W = writer[s] /\ a = active[s][c] /\ L = Len(wire[s][c])
        /\ h = handed[c] /\ f = fft[c] /\ owed = Owed(h, f, s)
        /\ Len(h) \in {0, 1, 2} /\ StreamOK(M, W, a, L, owed, c)
  BY StreamState, ZenonT(30)
<1>3. L <= owed
  BY <1>1, <1>2, WireOwed
<1>4. PICK Q \in Seq(Units) : Q = wire[s][c] /\ DOMAIN Q = 1 .. L
  <2>1. wire[s][c] \in Seq(Units)
    BY DEF SInv, Types, InputTypes
  <2> QED BY <1>2, <2>1
<1>5. handed'[c] = Append(h, g)
  BY <1>2, HandedTo
<1>6. CASE Len(h) = 0
  <2>1. owed = 0
    BY <1>2, <1>6 DEF Owed
  <2>2. DOMAIN Q = {}
    BY <1>3, <1>4, <2>1
  <2> QED BY <1>4, <2>2
<1>7. CASE Len(h) = 1 /\ s \in h[1].stations
  <2>1. owed = OwedOf(h[1], s, f)
    BY <1>2, <1>7 DEF Owed
  <2>2. owed = NumberFfts + 1 - f
    BY <1>7, <2>1 DEF OwedOf
  <2>3. Append(h, g)[1] = h[1]
    BY <1>7, LastHanded
  <2>4. \A p \in DOMAIN Q : Q[p] = UnitAt(h, f, s, p)
    BY <1>2, <1>4 DEF Contents
  <2>5. ASSUME NEW p \in DOMAIN Q PROVE Q[p] = UnitAt(Append(h, g), f, s, p)
    <3>1. f + p <= NumberFfts + 1
      BY <1>1, <1>3, <1>4, <2>2, UnitGiven
    <3>2. UnitAt(Append(h, g), f, s, p) = UnitAt(h, f, s, p)
      BY <1>7, <2>3, <3>1 DEF UnitAt
    <3> QED BY <2>4, <3>2
  <2> QED BY <1>2, <1>4, <1>5, <2>5
<1>8. CASE Len(h) = 1 /\ s \notin h[1].stations
  <2>1. owed = OwedOf(h[1], s, f)
    BY <1>2, <1>8 DEF Owed
  <2>2. owed = 0
    BY <1>8, <2>1 DEF OwedOf
  <2>3. DOMAIN Q = {}
    BY <1>3, <1>4, <2>2
  <2> QED BY <1>4, <2>3
<1> QED BY <1>2, <1>6, <1>7, <1>8

LEMMA ContentsManager ==
  ASSUME SInv, Contents, ManagerStep
  PROVE  Contents'
<1>1. CASE StartNewScan \/ EndNodes
  BY <1>1 DEF Contents, StartNewScan, EndNodes
<1>2. CASE StartCorrelatorNode
  <2>1. PICK c \in Nodes, g \in SlicesGiven, m \in Messages :
          HandsOut(c, g, m) /\ Len(handed[c]) \in {0, 1}
    BY <1>2, HandingOut
  <2>2. wire' = wire /\ fft' = fft
    BY <2>1 DEF HandsOut
  <2>3. ASSUME NEW s \in Stations, NEW d \in Nodes
        PROVE  \A p \in DOMAIN wire[s][d] : wire[s][d][p] = UnitAt(handed'[d], fft[d], s, p)
    <3>1. CASE d # c
      <4>1. handed'[d] = handed[d]
        BY <2>1, <3>1, HandedTo
      <4> QED BY <4>1 DEF Contents
    <3>2. CASE d = c
      BY <2>1, <3>2, ContentsHandedOut
    <3> QED BY <3>1, <3>2
  <2> QED BY <2>2, <2>3 DEF Contents
<1> QED BY <1>1, <1>2 DEF ManagerStep

LEMMA ContentsNext ==
  ASSUME ScansApart, SInv, SInv', Clocks, Feeds, RightSlices, Contents, [Next]_vars
  PROVE  Contents'
<1>1. CASE \E r \in Stations : InputStep(r)
  BY <1>1, ContentsStation
<1>2. CASE \E c \in Nodes : NodeStep(c)
  BY <1>2, ContentsNode
<1>3. CASE ManagerStep
  BY <1>3, ContentsManager
<1>4. CASE UNCHANGED vars
  BY <1>4 DEF Contents, vars, iVars, sVars
<1> QED BY <1>1, <1>2, <1>3, <1>4 DEF Next

LEMMA ContentsInit ==
  ASSUME Init
  PROVE  RightChannels /\ RightSlices /\ Contents
<1>1. /\ \A s \in Stations : mail[s] = <<>>
      /\ \A s \in Stations, ch \in Channels : writer[s][ch] = NewWriter
      /\ \A s \in Stations, c \in Nodes : wire[s][c] = <<>>
  BY DEF Init, InputInit
<1>2. NewWriter.pc = "idle" /\ NewWriter.slices = <<>>
  BY DEF NewWriter
<1>3. \A s \in Stations, ch \in Channels, c \in Nodes : ~WaitsFor(mail[s], writer[s][ch], ch, c)
  BY <1>1, <1>2 DEF WaitsFor
<1>4. \A s \in Stations, ch \in Channels, c \in Nodes : ~Writes(writer[s][ch], c)
  BY <1>1, <1>2 DEF Writes
<1>5. \A s \in Stations, c \in Nodes : DOMAIN wire[s][c] = {}
  BY <1>1
<1> QED BY <1>3, <1>4, <1>5 DEF RightChannels, RightSlices, Contents

\* The units before a slice of a stream.
LEMMA BeforeSlice ==
  ASSUME NumberFfts \in Nat, NEW s \in Stations, NEW c \in Nodes
  PROVE  /\ Before(s, c, 1) = 0
         /\ s \in handed[c][1].stations => Before(s, c, 2) = NumberFfts + 1
         /\ s \notin handed[c][1].stations => Before(s, c, 2) = 0
<1>1. Cardinality({}) = 0 /\ Cardinality({1}) = 1
  BY FS_EmptySet, FS_Singleton
<1>2. {j \in 1 .. 1 - 1 : s \in handed[c][j].stations} = {}
  OBVIOUS
<1>3. 0 * (NumberFfts + 1) = 0 /\ 1 * (NumberFfts + 1) = NumberFfts + 1
  OBVIOUS
<1>4. CASE s \in handed[c][1].stations
  <2>1. {j \in 1 .. 2 - 1 : s \in handed[c][j].stations} = {1}
    BY <1>4
  <2> QED BY <1>1, <1>2, <1>3, <1>4, <2>1 DEF Before
<1>5. CASE s \notin handed[c][1].stations
  <2>1. {j \in 1 .. 2 - 1 : s \in handed[c][j].stations} = {}
    BY <1>5
  <2> QED BY <1>1, <1>2, <1>3, <1>5, <2>1 DEF Before
<1> QED BY <1>4, <1>5

\* The place of a unit in the slices of the node.
LEMMA UnitPlace ==
  ASSUME NEW N \in Nat, NEW f \in 0 .. N, NEW p \in Nat, p > 0, NEW owed \in Nat, p <= owed
  PROVE  /\ f + p <= N + 1 => f + p \in 1 .. N + 1
         /\ ~(f + p <= N + 1) => ~(owed = N + 1 - f)
         /\ ~(f + p <= N + 1) /\ owed = N + 1 - f + (N + 1) =>
              f + p - N - 1 \in 1 .. N + 1 /\ f + p = N + 1 + (f + p - N - 1)
         /\ owed = N + 1 => p \in 1 .. N + 1
         /\ f + p = 0 + (f + p) /\ 0 + p = p
OBVIOUS

LEMMA SlicesOnStream ==
  ASSUME SInv, Contents, NEW s \in Stations, NEW c \in Nodes, NEW p \in DOMAIN wire[s][c]
  PROVE  \E i \in DOMAIN handed[c], k \in 1 .. NumberFfts + 1 :
           /\ s \in handed[c][i].stations
           /\ HasRead(s, c) + p = Before(s, c, i) + k
           /\ wire[s][c][p] = UnitOf(handed[c][i], k)
<1>1. PICK N \in Nat : N = NumberFfts
  BY InputNodeAssumption
<1>2. PICK M \in Seq(Messages), W \in [Channels -> Writers], a \in BOOLEAN, L \in Nat,
           h \in Seq(SlicesGiven), f \in 0 .. NumberFfts, owed \in Nat :
        /\ M = mail[s] /\ W = writer[s] /\ a = active[s][c] /\ L = Len(wire[s][c])
        /\ h = handed[c] /\ f = fft[c] /\ owed = Owed(h, f, s)
        /\ Len(h) \in {0, 1, 2} /\ StreamOK(M, W, a, L, owed, c)
  BY StreamState, ZenonT(30)
<1>3. p \in Nat /\ p > 0 /\ p <= owed /\ wire[s][c][p] = UnitAt(h, f, s, p)
  <2>1. L <= owed
    BY <1>1, <1>2, WireOwed
  <2>2. p \in 1 .. L
    <3>1. wire[s][c] \in Seq(Units)
      BY DEF SInv, Types, InputTypes
    <3> QED BY <1>2, <3>1
  <2>3. wire[s][c][p] = UnitAt(h, f, s, p)
    BY <1>2 DEF Contents
  <2> QED BY <2>1, <2>2, <2>3
<1>4. /\ f + p <= N + 1 => f + p \in 1 .. N + 1
      /\ ~(f + p <= N + 1) => ~(owed = N + 1 - f)
      /\ ~(f + p <= N + 1) /\ owed = N + 1 - f + (N + 1) =>
           f + p - N - 1 \in 1 .. N + 1 /\ f + p = N + 1 + (f + p - N - 1)
      /\ owed = N + 1 => p \in 1 .. N + 1
      /\ f + p = 0 + (f + p) /\ 0 + p = p
  BY <1>1, <1>3, UnitPlace
<1>5. /\ Before(s, c, 1) = 0
      /\ s \in h[1].stations => Before(s, c, 2) = N + 1
      /\ s \notin h[1].stations => Before(s, c, 2) = 0
  BY <1>1, <1>2, BeforeSlice
<1>6. PICK n \in {1, 2} : n = Len(h) /\ h # <<>>
  <2>1. owed # 0
    BY <1>3
  <2>2. Len(h) # 0
    BY <1>2, <2>1 DEF Owed
  <2> QED BY <1>2, <2>2
<1>7. DOMAIN h = 1 .. n
  BY <1>6
<1>8. HasRead(s, c) = IF s \in h[1].stations THEN f ELSE 0
  BY <1>2, <1>6 DEF HasRead, Present
<1>9. owed = OwedOf(h[1], s, f) + (IF n = 2 THEN OwedOf(h[2], s, 0) ELSE 0)
  <2>1. OwedOf(h[1], s, f) \in Nat
    BY <1>1, OwedSlices, <1>2
  <2>2. CASE n = 1
    <3>1. owed = OwedOf(h[1], s, f)
      BY <1>2, <1>6, <2>2 DEF Owed
    <3> QED BY <2>1, <2>2, <3>1
  <2>3. CASE n = 2
    BY <1>2, <1>6, <2>3 DEF Owed
  <2> QED BY <2>2, <2>3
<1>10. SUFFICES \E i \in 1 .. n, k \in 1 .. N + 1 :
                  /\ s \in h[i].stations /\ HasRead(s, c) + p = Before(s, c, i) + k
                  /\ UnitAt(h, f, s, p) = UnitOf(h[i], k)
  BY <1>1, <1>2, <1>3, <1>7
<1>11. CASE s \in h[1].stations /\ f + p <= N + 1
  <2>1. UnitAt(h, f, s, p) = UnitOf(h[1], f + p)
    BY <1>1, <1>11 DEF UnitAt
  <2>2. HasRead(s, c) + p = Before(s, c, 1) + (f + p)
    BY <1>4, <1>5, <1>8, <1>11
  <2>3. 1 \in 1 .. n /\ f + p \in 1 .. N + 1
    BY <1>4, <1>11
  <2> QED BY <1>11, <2>1, <2>2, <2>3
<1>12. CASE s \in h[1].stations /\ ~(f + p <= N + 1)
  <2>1. OwedOf(h[1], s, f) = N + 1 - f
    BY <1>1, <1>12 DEF OwedOf
  <2>2. n = 2 /\ s \in h[2].stations /\ owed = N + 1 - f + (N + 1)
    <3>1. OwedOf(h[2], s, 0) = IF s \in h[2].stations THEN N + 1 ELSE 0
      BY <1>1 DEF OwedOf
    <3>2. n = 2
      BY <1>4, <1>9, <1>12, <2>1
    <3>3. s \in h[2].stations
      BY <1>4, <1>9, <1>12, <2>1, <3>1
    <3> QED BY <1>9, <2>1, <3>1, <3>2, <3>3
  <2>3. PICK k \in 1 .. N + 1 : k = f + p - N - 1 /\ f + p = N + 1 + k
    BY <1>4, <1>12, <2>2
  <2>4. UnitAt(h, f, s, p) = UnitOf(h[2], k)
    BY <1>1, <1>12, <2>3 DEF UnitAt
  <2>5. HasRead(s, c) + p = Before(s, c, 2) + k
    BY <1>5, <1>8, <1>12, <2>3
  <2> QED BY <2>2, <2>4, <2>5
<1>13. CASE s \notin h[1].stations
  <2>1. OwedOf(h[1], s, f) = 0
    BY <1>13 DEF OwedOf
  <2>2. n = 2 /\ s \in h[2].stations /\ owed = N + 1
    <3>1. OwedOf(h[2], s, 0) = IF s \in h[2].stations THEN N + 1 ELSE 0
      BY <1>1 DEF OwedOf
    <3>2. n = 2
      BY <1>3, <1>9, <2>1
    <3>3. s \in h[2].stations
      BY <1>3, <1>9, <2>1, <3>1
    <3> QED BY <1>9, <2>1, <3>1, <3>2, <3>3
  <2>3. p \in 1 .. N + 1
    BY <1>4, <2>2
  <2>4. UnitAt(h, f, s, p) = UnitOf(h[2], p)
    BY <1>13 DEF UnitAt
  <2>5. HasRead(s, c) + p = Before(s, c, 2) + p
    BY <1>4, <1>5, <1>8, <1>13
  <2> QED BY <2>2, <2>3, <2>4, <2>5
<1> QED BY <1>11, <1>12, <1>13

-----------------------------------------------------------------------------
\* The inductive invariant: what the streams owe, the clocks of writers, readers and manager,
\* the order in which slices and blocks come to a writer, and so what is on the streams.
Order == Clocks /\ SlicesInTurn /\ RightChannels /\ RightSlices /\ Feeds /\ Contents

LEMMA OrderInit ==
  ASSUME Init
  PROVE  Order
BY ClocksInit, SlicesInit, FeedsInit, ContentsInit DEF Order

LEMMA OrderNext ==
  ASSUME ScansApart, SInv, SInv', Order, [Next]_vars
  PROVE  Order'
<1>1. Clocks /\ SlicesInTurn /\ RightChannels /\ RightSlices /\ Feeds /\ Contents
  BY DEF Order
<1>2. Types /\ Types' /\ WriterStates
  BY DEF SInv
<1>3. Clocks'
  BY <1>1, <1>2, ClocksNext
<1>4. SlicesInTurn'
  BY <1>1, SlicesNext
<1>5. RightChannels'
  BY <1>1, ChannelsNext
<1>6. RightSlices'
  BY <1>1, <1>3, RightSlicesNext
<1>7. Feeds'
  BY <1>1, FeedsNext
<1>8. Contents'
  BY <1>1, ContentsNext
<1> QED BY <1>3, <1>4, <1>5, <1>6, <1>7, <1>8 DEF Order

\* With more than one FFT in a slice each stream always carries the data of the slices that its
\* node was given, all of them, of the right channel and times and in the order in which the
\* node was given them, however many stations, channels, nodes and scans there are: although no
\* message tells a writer the time of its slice, the clocks of the writers (do_task,
\* fetch_next_time_interval) and that of the manager (start_next_timeslice_on_node) agree, and
\* the writers find the block of that time as the first of their queue.
THEOREM DataInOrder ==
  ASSUME SeveralFfts, ScansApart
  PROVE  Spec => []StreamsCarrySlices
<1>1. Init => SInv /\ Order
  BY InputNodeAssumption, SupplyAssumption, SInvInit, OrderInit
<1>2. SInv /\ Order /\ [Next]_vars => SInv' /\ Order'
  <2>1. SInv /\ [Next]_vars => SInv'
    BY InputNodeAssumption, SupplyAssumption, SInvNext
  <2> QED BY <2>1, OrderNext
<1>3. SInv /\ Order => StreamsCarrySlices
  BY SlicesOnStream DEF StreamsCarrySlices, Order
<1> QED BY <1>1, <1>2, <1>3, PTL DEF Spec

=============================================================================
