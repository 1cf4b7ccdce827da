--------------------------- MODULE Schedule_proofs ---------------------------
(***************************************************************************)
(* Proofs about the scheduling of slices and the order of the output, for  *)
(* any number of correlator nodes, channels, scans and FFTs.  First types  *)
(* and the request protocol; then where the slices are between the manager *)
(* and the output file, that the file gets them in order, that the job     *)
(* ends with all of them, and that it implements the ordered log; at the   *)
(* end, a job in which an assertion fails: END_NODE cuts the work off      *)
(* anywhere, and still the types and the requests hold, the file is a      *)
(* prefix of the output, and only a slice that was finished outlives it.   *)
(***************************************************************************)
EXTENDS Abort, WellFoundedInduction, SequenceTheorems, TLAPS

\* The loop is in the middle of a scan or of a time slice when its status says so.
InBounds ==
  /\ mStatus = "START_NEW_SCAN" => scan \in 1 .. NumberScans
  /\ scan >= 1
  /\ mStatus = "START_CORRELATOR_NODES_FOR_TIME_SLICE" => channel \in Channels

\* The inductive invariant.
IInv == TypeOK /\ InBounds /\ ReadyOnce /\ OneRequest

-----------------------------------------------------------------------------
Less == {ss \in Nat \X Nat : ss[1] < ss[2]}

\* A non-empty set of naturals has a least element.
LEMMA LeastNatural ==
  ASSUME NEW T \in SUBSET Nat, T # {}
  PROVE  \E x \in T : \A y \in T : x <= y
<1>1. IsWellFoundedOn(Less, Nat)
  BY NatLessThanWellFounded, Zenon DEF OpToRel, Less
<1>2. PICK x \in T : \A y \in T : <<y, x>> \notin Less
  BY <1>1, WFMin
<1>3. ASSUME NEW y \in T PROVE x <= y
  <2>1. y < x => <<y, x>> \in Less
    <3> DEFINE s == <<y, x>>
    <3>1. s \in Nat \X Nat /\ s[1] = y /\ s[2] = x
      OBVIOUS
    <3> QED BY <3>1 DEF Less
  <2>2. x \in Nat /\ y \in Nat
    OBVIOUS
  <2> QED BY <1>2, <2>1, <2>2
<1> QED BY <1>3

\* The loop over the channels moves forward, skips those done as cross channels
\* and no others, and stops behind the last one.
LEMMA NextChannelSkips ==
  ASSUME ManagerAssumption, NEW ch \in Channels
  PROVE  /\ NextChannel(ch) \in ch + 1 .. NumberChannels
         /\ \A x \in ch + 1 .. NextChannel(ch) - 1 : DoneAsCross(x)
         /\ NextChannel(ch) # NumberChannels => ~DoneAsCross(NextChannel(ch))
<1> DEFINE todo == {n \in ch + 1 .. NumberChannels - 1 : ~DoneAsCross(n)}
<1>1. NumberChannels \in Nat /\ ch \in 0 .. NumberChannels - 1
  BY DEF ManagerAssumption, Channels
<1>2. CASE todo = {}
  <2>1. NextChannel(ch) = NumberChannels
    BY <1>2 DEF NextChannel
  <2>2. \A x \in ch + 1 .. NumberChannels - 1 : DoneAsCross(x)
    BY <1>2
  <2> QED BY <1>1, <2>1, <2>2
<1>3. CASE todo # {}
  <2>1. todo \subseteq Nat
    BY <1>1
  <2>2. \E x \in todo : \A y \in todo : x <= y
    <3> HIDE DEF todo
    <3> QED BY <1>3, <2>1, LeastNatural
  <2>3. NextChannel(ch) \in todo /\ \A y \in todo : NextChannel(ch) <= y
    BY <1>3, <2>2 DEF NextChannel
  <2>4. PICK n \in todo : n = NextChannel(ch) /\ \A y \in todo : n <= y
    BY <2>3
  <2>5. n \in ch + 1 .. NumberChannels - 1 /\ ~DoneAsCross(n)
    OBVIOUS
  <2>6. ASSUME NEW x \in ch + 1 .. n - 1 PROVE DoneAsCross(x)
    <3>1. x \in ch + 1 .. NumberChannels - 1 /\ ~(n <= x)
      BY <1>1, <2>5
    <3>2. x \notin todo
      BY <2>4, <3>1
    <3> QED BY <3>1, <3>2
  <2> QED BY <1>1, <2>4, <2>5, <2>6
<1> QED BY <1>2, <1>3

LEMMA NextChannelType ==
  ASSUME ManagerAssumption, NEW ch \in Channels
  PROVE  NextChannel(ch) \in ch + 1 .. NumberChannels
BY NextChannelSkips

LEMMA ScansType ==
  ASSUME ManagerAssumption
  PROVE  /\ NumberScans \in Nat
         /\ \A i \in 1 .. NumberScans : ScanStart[i] \in Nat /\ ScanStop[i] \in Nat
<1>1. ScanStart \in Seq(Nat) /\ ScanStop \in [1 .. NumberScans -> Nat]
  BY DEF ManagerAssumption
<1>2. Len(ScanStart) \in Nat /\ ScanStart \in [1 .. Len(ScanStart) -> Nat]
  BY <1>1, LenProperties
<1> QED BY <1>1, <1>2 DEF NumberScans

LEMMA DivNat ==
  ASSUME NEW a \in Nat, NEW b \in Nat \ {0}
  PROVE  a \div b \in Nat
OBVIOUS

-----------------------------------------------------------------------------
\* A message more, or a message less, in one of the mailboxes f of the nodes.
LEMMA MailboxAppend ==
  ASSUME NEW f \in [Correlators -> Seq(Nat)], NEW c \in Correlators, NEW e \in Nat
  PROVE  LET g == [f EXCEPT ![c] = Append(@, e)] IN
         /\ g \in [Correlators -> Seq(Nat)]
         /\ \A d \in Correlators : Len(g[d]) = Len(f[d]) + (IF d = c THEN 1 ELSE 0)
<1>1. Append(f[c], e) \in Seq(Nat) /\ Len(Append(f[c], e)) = Len(f[c]) + 1
  BY AppendProperties
<1>2. \A d \in Correlators : Len(f[d]) \in Nat
  BY LenProperties
<1> QED BY <1>1, <1>2

LEMMA MailboxTail ==
  ASSUME NEW f \in [Correlators -> Seq(Nat)], NEW c \in Correlators, f[c] # <<>>
  PROVE  LET g == [f EXCEPT ![c] = Tail(@)] IN
         /\ Head(f[c]) \in Nat
         /\ g \in [Correlators -> Seq(Nat)]
         /\ \A d \in Correlators : Len(g[d]) = Len(f[d]) - (IF d = c THEN 1 ELSE 0)
<1>1. /\ Head(f[c]) \in Nat /\ Tail(f[c]) \in Seq(Nat)
      /\ Len(Tail(f[c])) = Len(f[c]) - 1
  BY HeadTailProperties
<1>2. \A d \in Correlators : Len(f[d]) \in Nat
  BY LenProperties
<1> QED BY <1>1, <1>2

-----------------------------------------------------------------------------
LEMMA InitIInv ==
  ASSUME ManagerAssumption, CorrelatorAssumption
  PROVE  Init => IInv
<1> SUFFICES ASSUME Init PROVE IInv
  OBVIOUS
<1> USE DEF Init, MailboxesInit, ManagerInit, CorrelatorInit, OutputInit
<1>1. MailboxesTypeOK
  <2>1. <<>> \in Seq(Nat)
    BY EmptySeq
  <2> QED BY <2>1 DEF MailboxesTypeOK, Slices
<1>2. ManagerTypeOK
  BY ManagerAssumption DEF ManagerTypeOK, MStatus, ManagerAssumption
<1>3. CorrelatorTypeOK
  <2>1. <<>> \in Seq(Nat)
    BY EmptySeq
  <2> QED BY <2>1, CorrelatorAssumption DEF CorrelatorTypeOK, CStatus, Slices, CorrelatorAssumption
<1>4. OutputTypeOK
  BY DEF OutputTypeOK, OStatus, Slices
<1>5. InBounds
  BY ManagerAssumption DEF InBounds, NumberScans, ManagerAssumption
<1>6. ReadyOnce /\ OneRequest
  <2>1. Len(<<>>) = 0 /\ DOMAIN <<>> = {}
    OBVIOUS
  <2>2. \A c \in Correlators : ~InReady(c)
    BY <2>1 DEF InReady
  <2>3. \A c \in Correlators : Requests(c) = 1
    BY <2>1, <2>2 DEF Requests, Waiting, Answered, Queued, Unsent
  <2> QED BY <2>1, <2>3 DEF ReadyOnce, OneRequest
<1> QED BY <1>1, <1>2, <1>3, <1>4, <1>5, <1>6 DEF IInv, TypeOK

-----------------------------------------------------------------------------
\* The steps of the manager.
LEMMA ManagerTypes ==
  ASSUME ManagerAssumption, CorrelatorAssumption, IInv, ManagerNext
  PROVE  MailboxesTypeOK' /\ ManagerTypeOK' /\ InBounds'
<1> USE DEF IInv, TypeOK, mVars, mailboxes
<1>1. CASE \E c \in Correlators : ReceiveEnded(c)
  <2>1. PICK c \in Correlators : ReceiveEnded(c)
    BY <1>1
  <2>2. ended' \in [Correlators -> Nat]
    BY <2>1 DEF ReceiveEnded, MailboxesTypeOK
  <2>3. readyNodes' \in Seq(Correlators)
    BY <2>1, AppendProperties DEF ReceiveEnded, ManagerTypeOK
  <2> QED BY <2>1, <2>2, <2>3 DEF ReceiveEnded, MailboxesTypeOK, ManagerTypeOK, InBounds
<1>2. CASE ReceiveFinished
  BY <1>2 DEF ReceiveFinished, SfxcAssert, Assertions, MailboxesTypeOK, ManagerTypeOK,
     MStatus, InBounds
<1>3. CASE StartNewScan
  <2>1. scan \in 1 .. NumberScans /\ mStatus = "START_NEW_SCAN"
    BY <1>3 DEF StartNewScan, InBounds
  <2>2. /\ ScanStart[scan] \in Nat /\ ScanStop[scan] \in Nat
        /\ IntegrationTime \in Nat \ {0} /\ StopTime \in Nat
        /\ StationTimes \subseteq Nat
    BY <2>1, ManagerAssumption, ScansType DEF ManagerAssumption
  <2>3. FirstSliceOfScan \in Nat
    <3>1. ScanStart[scan] + IntegrationTime - 1 \in Nat
      BY <2>2
    <3>2. (ScanStart[scan] + IntegrationTime - 1) \div IntegrationTime \in Nat
      BY <2>2, <3>1, DivNat
    <3> QED BY <3>2 DEF FirstSliceOfScan, ManagerTypeOK
  <2>4. \A t \in StationTimes : t \div IntegrationTime \in Nat
    BY <2>2, DivNat
  <2>5. integration' \in Nat
    BY <1>3, <2>3, <2>4 DEF StartNewScan, Larger
  <2>6. stopTimeScan' \in Int
    <3>1. AlignedStopOfScan \in Int
      BY <2>2 DEF AlignedStopOfScan, Lesser
    <3> QED BY <1>3, <3>1 DEF StartNewScan
  <2>7. failed' \subseteq Assertions
    BY <1>3 DEF StartNewScan, SfxcAssert, Assertions, MailboxesTypeOK
  <2>8. mStatus' \in {"STOP_CORRELATING", "START_CORRELATION_TIME_SLICE"}
    BY <1>3 DEF StartNewScan
  <2>9. /\ UNCHANGED <<scan, channel, outputSlice, readyNodes, dispatched>>
        /\ UNCHANGED <<ended, parameters, endNode, endOutput, priority, ready, finished, stream>>
    BY <1>3 DEF StartNewScan
  <2> QED BY <2>5, <2>6, <2>7, <2>8, <2>9 DEF MailboxesTypeOK, ManagerTypeOK, MStatus, InBounds
<1>4. CASE StartCorrelationTimeSlice
  BY <1>4, ManagerAssumption DEF StartCorrelationTimeSlice, MailboxesTypeOK, ManagerTypeOK,
     MStatus, InBounds, Channels, ManagerAssumption
<1>5. CASE StartCorrelatorNode
  <2>1. /\ mStatus = "START_CORRELATOR_NODES_FOR_TIME_SLICE"
        /\ channel \in Channels
        /\ NumberChannels \in Nat \ {0}
    BY <1>5, ManagerAssumption DEF StartCorrelatorNode, InBounds, ManagerAssumption
  <2>2. channel' \in channel + 1 .. NumberChannels
    BY <1>5, <2>1, ManagerAssumption, NextChannelType DEF StartCorrelatorNode
  <2>3. Head(readyNodes) \in Correlators /\ readyNodes' \in Seq(Correlators)
    BY <1>5 DEF StartCorrelatorNode, ManagerTypeOK
  <2>4. parameters' \in [Correlators -> Seq(Slices)] /\ outputSlice' \in Nat
    <3>1. parameters' = [parameters EXCEPT ![Head(readyNodes)] = Append(@, outputSlice)]
      BY <1>5 DEF StartCorrelatorNode
    <3>2. outputSlice \in Nat /\ outputSlice' = outputSlice + 1
      BY <1>5 DEF StartCorrelatorNode, ManagerTypeOK
    <3>3. parameters \in [Correlators -> Seq(Nat)]
      BY DEF MailboxesTypeOK, Slices
    <3> QED BY <2>3, <3>1, <3>2, <3>3, MailboxAppend DEF Slices
  <2>5. dispatched' \in Seq(Dispatch)
    <3> DEFINE d == [scan |-> scan, integration |-> integration, channel |-> channel]
    <3>1. d \in Dispatch
      BY <2>1 DEF Dispatch, ManagerTypeOK
    <3>2. dispatched' = Append(dispatched, d) /\ dispatched \in Seq(Dispatch)
      BY <1>5 DEF StartCorrelatorNode, ManagerTypeOK
    <3> QED BY <3>1, <3>2
  <2>6. failed' \subseteq Assertions
    BY <1>5 DEF StartCorrelatorNode, SfxcAssert, Assertions, MailboxesTypeOK
  <2>7. \/ mStatus' = "GOTO_NEXT_TIMESLICE" /\ channel' = NumberChannels
        \/ mStatus' = mStatus /\ channel' # NumberChannels
    BY <1>5 DEF StartCorrelatorNode
  <2>8. /\ UNCHANGED <<scan, integration, stopTimeScan>>
        /\ UNCHANGED <<ended, endNode, endOutput, priority, ready, finished, stream>>
    BY <1>5 DEF StartCorrelatorNode
  <2>9. channel' \in 0 .. NumberChannels /\ (channel' # NumberChannels => channel' \in Channels)
    BY <2>1, <2>2 DEF Channels
  <2>10. ManagerTypeOK'
    BY <2>1, <2>3, <2>4, <2>5, <2>7, <2>8, <2>9 DEF ManagerTypeOK, MStatus
  <2>11. MailboxesTypeOK'
    BY <2>4, <2>6, <2>8 DEF MailboxesTypeOK
  <2>12. InBounds'
    BY <2>1, <2>7, <2>8, <2>9 DEF InBounds
  <2> QED BY <2>10, <2>11, <2>12
<1>6. CASE GotoNextTimeslice
  <2>1. /\ UNCHANGED <<channel, stopTimeScan, outputSlice, readyNodes, dispatched>>
        /\ UNCHANGED mailboxes
        /\ integration' = integration + 1
    BY <1>6 DEF GotoNextTimeslice
  <2>2. \/ /\ scan' = scan
           /\ mStatus' \in {"STOP_CORRELATING", "START_CORRELATION_TIME_SLICE"}
        \/ /\ scan' = scan + 1
           /\ mStatus' = IF scan' > NumberScans THEN "STOP_CORRELATING" ELSE "START_NEW_SCAN"
    BY <1>6 DEF GotoNextTimeslice
  <2>3. NumberScans \in Nat
    BY ManagerAssumption, ScansType
  <2>4. MailboxesTypeOK'
    BY <2>1 DEF MailboxesTypeOK
  <2>5. ManagerTypeOK'
    BY <2>1, <2>2 DEF ManagerTypeOK, MStatus
  <2>6. InBounds'
    BY <2>2, <2>3, SMTT(30) DEF InBounds, ManagerTypeOK
  <2> QED BY <2>4, <2>5, <2>6
<1>7. CASE StopCorrelating
  BY <1>7 DEF StopCorrelating, MailboxesTypeOK, ManagerTypeOK, MStatus, InBounds, Slices
<1>8. CASE TerminateNodes
  BY <1>8 DEF TerminateNodes, MailboxesTypeOK, ManagerTypeOK, MStatus, InBounds
<1> QED BY <1>1, <1>2, <1>3, <1>4, <1>5, <1>6, <1>7, <1>8 DEF ManagerNext, ManagerLoop


\* What the request protocol counts, typed.
LEMMA RequestsType ==
  ASSUME TypeOK, NEW c \in Correlators
  PROVE  /\ ended[c] \in Nat /\ Len(parameters[c]) \in Nat /\ Len(queue[c]) \in Nat
         /\ parameters \in [Correlators -> Seq(Nat)] /\ queue \in [Correlators -> Seq(Nat)]
         /\ hasRequested \in [Correlators -> BOOLEAN]
<1>1. /\ parameters \in [Correlators -> Seq(Nat)] /\ queue \in [Correlators -> Seq(Nat)]
      /\ ended[c] \in Nat /\ hasRequested \in [Correlators -> BOOLEAN]
  BY DEF TypeOK, MailboxesTypeOK, CorrelatorTypeOK, Slices
<1>2. Len(parameters[c]) \in Nat /\ Len(queue[c]) \in Nat
  BY <1>1, LenProperties
<1> QED BY <1>1, <1>2

LEMMA ManagerRequests ==
  ASSUME IInv, ManagerNext, UNCHANGED cVars
  PROVE  ReadyOnce' /\ OneRequest'
<1>1. /\ TypeOK /\ ReadyOnce /\ readyNodes \in Seq(Correlators)
      /\ ended \in [Correlators -> Nat] /\ outputSlice \in Nat
  BY DEF IInv, TypeOK, ManagerTypeOK, MailboxesTypeOK
<1>2. \A c \in Correlators : Requests(c) = 1
  BY DEF IInv, OneRequest
<1>3. UNCHANGED <<queue, hasRequested>>
  BY DEF cVars
<1>4. Len(readyNodes) \in Nat /\ DOMAIN readyNodes = 1 .. Len(readyNodes)
  BY <1>1, LenProperties
<1>5. ASSUME NEW c \in Correlators, ReceiveEnded(c) PROVE ReadyOnce' /\ OneRequest'
  <2>1. /\ ended' = [ended EXCEPT ![c] = @ - 1] /\ ended[c] > 0
        /\ readyNodes' = Append(readyNodes, c)
        /\ UNCHANGED parameters
    BY <1>5 DEF ReceiveEnded
  <2>2. ~InReady(c)
    <3>1. Requests(c) = 1 /\ ended[c] >= 1
      BY <1>1, <1>2, <2>1, RequestsType
    <3>2. ended[c] \in Nat /\ Len(parameters[c]) \in Nat /\ Len(queue[c]) \in Nat
      BY <1>1, RequestsType
    <3> QED BY <3>1, <3>2 DEF Requests, Waiting, Answered, Queued, Unsent
  <2>3. /\ readyNodes' \in Seq(Correlators)
        /\ Len(readyNodes') = Len(readyNodes) + 1
        /\ \A i \in 1 .. Len(readyNodes) : readyNodes'[i] = readyNodes[i]
        /\ readyNodes'[Len(readyNodes) + 1] = c
    BY <1>1, <2>1, AppendProperties
  <2>4. DOMAIN readyNodes' = 1 .. Len(readyNodes) + 1
    BY <2>3, LenProperties
  <2>5. ReadyOnce'
    <3>1. \A i \in 1 .. Len(readyNodes) : readyNodes[i] # c
      BY <1>4, <2>2 DEF InReady
    <3> QED BY <1>1, <1>4, <2>3, <2>4, <3>1, SMTT(30) DEF ReadyOnce
  <2>6. \A d \in Correlators : InReady(d)' <=> (InReady(d) \/ d = c)
    BY <1>4, <2>3, <2>4 DEF InReady
  <2>7. ASSUME NEW d \in Correlators PROVE Requests(d)' = Requests(d)
    <3>1. /\ ended[d] \in Nat /\ Len(parameters[d]) \in Nat /\ Len(queue[d]) \in Nat
          /\ UNCHANGED <<parameters, queue, hasRequested>>
      BY <1>1, <1>3, <2>1, RequestsType
    <3>2. CASE d = c
      <4>1. ended'[d] = ended[d] - 1 /\ InReady(d)' /\ ~InReady(d)
        BY <1>1, <2>1, <2>2, <2>6, <3>2
      <4> QED BY <3>1, <4>1 DEF Requests, Waiting, Answered, Queued, Unsent
    <3>3. CASE d # c
      <4>1. ended'[d] = ended[d] /\ (InReady(d)' <=> InReady(d))
        BY <1>1, <2>1, <2>6, <3>3
      <4> QED BY <3>1, <4>1 DEF Requests, Waiting, Answered, Queued, Unsent
    <3> QED BY <3>2, <3>3
  <2> QED BY <1>2, <2>5, <2>7 DEF OneRequest
<1>6. CASE StartCorrelatorNode
  <2> DEFINE c == Head(readyNodes)
  <2>1. /\ parameters' = [parameters EXCEPT ![c] = Append(@, outputSlice)]
        /\ readyNodes' = Tail(readyNodes) /\ readyNodes # <<>>
        /\ UNCHANGED ended
    BY <1>6 DEF StartCorrelatorNode
  <2>2. /\ c \in Correlators /\ readyNodes' \in Seq(Correlators)
        /\ Len(readyNodes') = Len(readyNodes) - 1
        /\ \A i \in 1 .. Len(readyNodes') : readyNodes'[i] = readyNodes[i + 1]
    BY <1>1, <2>1, HeadTailProperties
  <2>3. c = readyNodes[1] /\ 1 \in DOMAIN readyNodes
    BY <1>1, <1>4, <2>1, EmptySeq
  <2>4. DOMAIN readyNodes' = 1 .. Len(readyNodes) - 1
    BY <2>2, LenProperties
  <2>5. ReadyOnce'
    <3>1. ASSUME NEW i \in DOMAIN readyNodes', NEW j \in DOMAIN readyNodes',
                 readyNodes'[i] = readyNodes'[j]
          PROVE  i = j
      <4>1. /\ i + 1 \in DOMAIN readyNodes /\ j + 1 \in DOMAIN readyNodes
            /\ readyNodes[i + 1] = readyNodes[j + 1] /\ i \in Nat /\ j \in Nat
        BY <1>4, <2>2, <2>4, <3>1
      <4>2. i + 1 = j + 1
        BY <1>1, <4>1 DEF ReadyOnce
      <4> QED BY <4>1, <4>2
    <3> QED BY <3>1 DEF ReadyOnce
  <2>6. \A d \in Correlators : InReady(d)' <=> (InReady(d) /\ d # c)
    <3>1. ASSUME NEW d \in Correlators, NEW i \in DOMAIN readyNodes', readyNodes'[i] = d
          PROVE  InReady(d) /\ d # c
      <4>1. i + 1 \in DOMAIN readyNodes /\ readyNodes[i + 1] = d /\ i + 1 # 1
        BY <1>4, <2>2, <2>4, <3>1
      <4> QED BY <1>1, <2>3, <4>1 DEF InReady, ReadyOnce
    <3>2. ASSUME NEW d \in Correlators, NEW i \in DOMAIN readyNodes, readyNodes[i] = d, d # c
          PROVE  \E j \in DOMAIN readyNodes' : readyNodes'[j] = d
      <4>1. i \in 1 .. Len(readyNodes) /\ i # 1
        BY <1>4, <2>3, <3>2
      <4>2. i - 1 \in DOMAIN readyNodes' /\ readyNodes'[i - 1] = d
        BY <1>4, <2>2, <2>4, <3>2, <4>1
      <4> QED BY <4>2
    <3> QED BY <3>1, <3>2 DEF InReady
  <2>7. ASSUME NEW d \in Correlators PROVE Requests(d)' = Requests(d)
    <3>1. /\ ended[d] \in Nat /\ Len(parameters[d]) \in Nat /\ Len(queue[d]) \in Nat
          /\ UNCHANGED <<ended, queue, hasRequested>>
      BY <1>1, <1>3, <2>1, RequestsType
    <3>2. Len(parameters'[d]) = Len(parameters[d]) + (IF d = c THEN 1 ELSE 0)
      BY <1>1, <2>1, <2>2, RequestsType, MailboxAppend
    <3>3. CASE d = c
      <4>1. ~InReady(d)' /\ InReady(d)
        BY <2>2, <2>3, <2>6, <3>3 DEF InReady
      <4>2. Len(parameters'[d]) = Len(parameters[d]) + 1
        BY <3>2, <3>3
      <4>3. Waiting(d)' = 0 /\ Waiting(d) = 1
        BY <4>1 DEF Waiting
      <4>4. Answered(d)' = Answered(d) + 1 /\ Answered(d) \in Nat
        BY <3>1, <4>2 DEF Answered
      <4>5. /\ UNCHANGED <<ended, Queued(d), Unsent(d)>>
            /\ Queued(d) \in Nat /\ Unsent(d) \in Nat
        BY <3>1 DEF Queued, Unsent
      <4>6. PICK n \in Nat, a \in Nat, q \in Nat, u \in Nat :
                   n = ended[d] /\ a = Answered(d) /\ q = Queued(d) /\ u = Unsent(d)
        BY <3>1, <4>4, <4>5
      <4>7. Requests(d) = n + 1 + a + q + u /\ Requests(d)' = n + 0 + (a + 1) + q + u
        BY <4>3, <4>4, <4>5, <4>6 DEF Requests
      <4> QED BY <4>7
    <3>4. CASE d # c
      <4>1. InReady(d)' <=> InReady(d)
        BY <2>6, <3>4
      <4>2. Len(parameters'[d]) = Len(parameters[d])
        BY <3>1, <3>2, <3>4
      <4> QED BY <3>1, <4>1, <4>2 DEF Requests, Waiting, Answered, Queued, Unsent
    <3> QED BY <3>3, <3>4
  <2> QED BY <1>2, <2>5, <2>7 DEF OneRequest
<1>7. CASE UNCHANGED <<ended, parameters, readyNodes>>
  <2>1. \A d \in Correlators : Requests(d)' = Requests(d)
    BY <1>3, <1>7 DEF Requests, Waiting, Answered, Queued, Unsent, InReady
  <2> QED BY <1>1, <1>2, <1>7, <2>1 DEF ReadyOnce, OneRequest
<1>8. ReceiveFinished \/ StartNewScan \/ StartCorrelationTimeSlice \/ GotoNextTimeslice
        \/ StopCorrelating \/ TerminateNodes => UNCHANGED <<ended, parameters, readyNodes>>
  BY DEF ReceiveFinished, StartNewScan, StartCorrelationTimeSlice, GotoNextTimeslice,
     StopCorrelating, TerminateNodes, mailboxes
<1> QED BY <1>5, <1>6, <1>7, <1>8 DEF ManagerNext, ManagerLoop

-----------------------------------------------------------------------------
\* The steps of a correlator node.
LEMMA SetParametersTypes ==
  ASSUME CorrelatorAssumption, TypeOK, NEW c \in Correlators,
         NEW q \in Seq(Nat), q # <<>>, SetParameters(c, q)
  PROVE  CorrelatorTypeOK' /\ priority' \in [Correlators -> Seq(Slices)]
<1>1. /\ Head(q) \in Nat /\ Tail(q) \in Seq(Nat)
  BY HeadTailProperties
<1>2. /\ priority \in [Correlators -> Seq(Nat)]
      /\ priority' = [priority EXCEPT ![c] = Append(@, Head(q))]
  BY DEF TypeOK, MailboxesTypeOK, SetParameters, Slices
<1>3. priority' \in [Correlators -> Seq(Nat)]
  BY <1>1, <1>2, MailboxAppend
<1>4. CorrelatorTypeOK'
  <2>1. CorrelatorTypeOK /\ 0 \in 0 .. NumberFfts
    BY CorrelatorAssumption DEF TypeOK, CorrelatorAssumption
  <2>2. queue' \in [Correlators -> Seq(Nat)] /\ slice' \in [Correlators -> Nat]
    BY <1>1, <2>1 DEF CorrelatorTypeOK, SetParameters, Slices
  <2>3. cStatus' \in [Correlators -> CStatus] /\ hasRequested' \in [Correlators -> BOOLEAN]
    BY <2>1 DEF CorrelatorTypeOK, SetParameters, CStatus
  <2>4. fft' \in [Correlators -> 0 .. NumberFfts]
    BY <2>1 DEF CorrelatorTypeOK, SetParameters
  <2> QED BY <2>2, <2>3, <2>4 DEF CorrelatorTypeOK, Slices
<1> QED BY <1>3, <1>4 DEF Slices

LEMMA RoundTypes ==
  ASSUME CorrelatorAssumption, TypeOK, NEW c \in Correlators, NEW n \in Nat,
         fft[c] + n <= NumberFfts, NEW st \in CStatus, Round(c, n, st)
  PROVE  /\ CorrelatorTypeOK'
         /\ ended' \in [Correlators -> Nat]
         /\ stream' \in [Correlators -> Seq(Slices)]
         /\ priority' \in [Correlators -> Seq(Slices)]
         /\ UNCHANGED <<parameters, endOutput, ready, finished, failed>>
<1>1. /\ queue \in [Correlators -> Seq(Nat)] /\ slice \in [Correlators -> Nat]
      /\ ended \in [Correlators -> Nat] /\ stream \in [Correlators -> Seq(Nat)]
      /\ priority \in [Correlators -> Seq(Nat)] /\ fft[c] \in 0 .. NumberFfts
  BY DEF TypeOK, CorrelatorTypeOK, MailboxesTypeOK, Slices
<1>2. ended' \in [Correlators -> Nat]
  BY <1>1, SMTT(30) DEF Round
<1>3. stream' \in [Correlators -> Seq(Nat)]
  BY <1>1, MailboxAppend DEF Round
<1>4. CorrelatorTypeOK' /\ priority' \in [Correlators -> Seq(Nat)]
  <2>1. CASE queue[c] # <<>> /\ SetParameters(c, queue[c])
    BY <1>1, <2>1, SetParametersTypes DEF Slices
  <2>2. CASE /\ fft' = [fft EXCEPT ![c] = fft[c] + n]
             /\ hasRequested' = [hasRequested EXCEPT ![c] =
                                   @ \/ (~hasRequested[c] /\ AlmostFinished(fft[c] + n))]
             /\ cStatus' = [cStatus EXCEPT ![c] = IF Finished(fft[c] + n) THEN "STOPPED" ELSE st]
             /\ UNCHANGED <<queue, slice, priority>>
    <3>1. fft[c] + n \in 0 .. NumberFfts
      BY <1>1, CorrelatorAssumption DEF CorrelatorAssumption
    <3>2. fft' \in [Correlators -> 0 .. NumberFfts] /\ cStatus' \in [Correlators -> CStatus]
      BY <2>2, <3>1 DEF TypeOK, CorrelatorTypeOK, CStatus
    <3>3. hasRequested' \in [Correlators -> BOOLEAN]
      BY <2>2 DEF TypeOK, CorrelatorTypeOK
    <3> QED BY <1>1, <2>2, <3>2, <3>3 DEF CorrelatorTypeOK, Slices
  <2> QED BY <2>1, <2>2 DEF Round
<1>5. UNCHANGED <<parameters, endOutput, ready, finished, failed>>
  BY DEF Round
<1> QED BY <1>2, <1>3, <1>4, <1>5 DEF Slices

\* The rounds of the main loop take no more input than the slice needs.
LEMMA RoundBounds ==
  ASSUME CorrelatorAssumption, TypeOK, NEW c \in Correlators, NEW n \in 0 .. NumberFfts - fft[c]
  PROVE  n \in Nat /\ fft[c] + n <= NumberFfts
<1>1. fft[c] \in 0 .. NumberFfts /\ NumberFfts \in Nat
  BY DEF TypeOK, CorrelatorTypeOK, CorrelatorAssumption
<1> QED BY <1>1

LEMMA CorrelatorTypes ==
  ASSUME CorrelatorAssumption, TypeOK, NEW c \in Correlators, CorrelatorNext(c)
  PROVE  MailboxesTypeOK' /\ CorrelatorTypeOK'
<1>1. MailboxesTypeOK /\ CorrelatorTypeOK
  BY DEF TypeOK
<1>2. CASE ReceiveParameters(c)
  <2> DEFINE q == Append(queue[c], Head(parameters[c]))
  <2>1. /\ parameters \in [Correlators -> Seq(Nat)] /\ queue \in [Correlators -> Seq(Nat)]
        /\ parameters[c] # <<>>
    BY <1>1, <1>2 DEF MailboxesTypeOK, CorrelatorTypeOK, ReceiveParameters, Slices
  <2>2. Head(parameters[c]) \in Nat /\ parameters' \in [Correlators -> Seq(Nat)]
    BY <1>2, <2>1, MailboxTail DEF ReceiveParameters
  <2>3. q \in Seq(Nat) /\ q # <<>>
    <3>1. queue[c] \in Seq(Nat)
      BY <2>1
    <3> QED BY <2>2, <3>1, AppendProperties
  <2>4. CorrelatorTypeOK' /\ priority' \in [Correlators -> Seq(Nat)]
    <3>1. CASE SetParameters(c, q)
      <4> HIDE DEF q
      <4> QED BY <2>3, <3>1, SetParametersTypes DEF Slices
    <3>2. CASE /\ queue' = [queue EXCEPT ![c] = q]
               /\ UNCHANGED <<cStatus, hasRequested, slice, fft, priority>>
      BY <1>1, <2>1, <2>3, <3>2 DEF CorrelatorTypeOK, MailboxesTypeOK, Slices
    <3> QED BY <1>2, <3>1, <3>2 DEF ReceiveParameters
  <2>5. UNCHANGED <<ended, endNode, endOutput, ready, finished, stream, failed>>
    BY <1>2 DEF ReceiveParameters
  <2> QED BY <1>1, <2>2, <2>4, <2>5 DEF MailboxesTypeOK, Slices
<1>3. CASE Correlate(c)
  <2>1. PICK n \in 0 .. NumberFfts - fft[c] : Round(c, n, "CORRELATING")
    BY <1>3 DEF Correlate
  <2>2. n \in Nat /\ fft[c] + n <= NumberFfts
    BY RoundBounds
  <2>3. /\ CorrelatorTypeOK'
        /\ ended' \in [Correlators -> Nat]
        /\ stream' \in [Correlators -> Seq(Slices)]
        /\ priority' \in [Correlators -> Seq(Slices)]
        /\ UNCHANGED <<parameters, endOutput, ready, finished, failed>>
    BY <2>1, <2>2, RoundTypes DEF CStatus
  <2>4. endNode' = endNode
    BY <1>3 DEF Correlate
  <2> QED BY <1>1, <2>3, <2>4 DEF MailboxesTypeOK
<1>4. CASE EndStopped(c)
  BY <1>1, <1>4 DEF EndStopped, TakeEndNode, MailboxesTypeOK, CorrelatorTypeOK, CStatus
<1>5. CASE EndCorrelating(c)
  <2>1. PICK n \in 0 .. NumberFfts - fft[c] : Round(c, n, "END_CORRELATING")
    BY <1>5 DEF EndCorrelating
  <2>2. n \in Nat /\ fft[c] + n <= NumberFfts
    BY RoundBounds
  <2>3. /\ CorrelatorTypeOK'
        /\ ended' \in [Correlators -> Nat]
        /\ stream' \in [Correlators -> Seq(Slices)]
        /\ priority' \in [Correlators -> Seq(Slices)]
        /\ UNCHANGED <<parameters, endOutput, ready, finished, failed>>
    BY <2>1, <2>2, RoundTypes DEF CStatus
  <2>4. endNode' \in [Correlators -> BOOLEAN]
    BY <1>1, <1>5 DEF EndCorrelating, TakeEndNode, MailboxesTypeOK
  <2> QED BY <1>1, <2>3, <2>4 DEF MailboxesTypeOK
<1> QED BY <1>2, <1>3, <1>4, <1>5 DEF CorrelatorNext

\* A step of one correlator node keeps the requests of the others.
LEMMA OthersRequests ==
  ASSUME TypeOK, OneRequest, NEW c \in Correlators,
         UNCHANGED readyNodes, Requests(c)' = 1,
         \A d \in Correlators \ {c} :
           UNCHANGED <<ended[d], parameters[d], queue[d], hasRequested[d]>>
  PROVE  OneRequest'
<1>1. ASSUME NEW d \in Correlators \ {c} PROVE Requests(d)' = Requests(d)
  BY DEF Requests, Waiting, InReady, Answered, Queued, Unsent
<1>2. \A d \in Correlators \ {c} : Requests(d)' = 1
  BY <1>1 DEF OneRequest
<1> QED BY <1>2 DEF OneRequest

\* The parts of a request, typed and summed.
LEMMA RequestParts ==
  ASSUME TypeOK, OneRequest, NEW c \in Correlators
  PROVE  /\ ended[c] \in Nat /\ Waiting(c) \in Nat /\ Answered(c) \in Nat
         /\ Queued(c) \in Nat /\ Unsent(c) \in Nat
         /\ ended[c] + Waiting(c) + Answered(c) + Queued(c) + Unsent(c) = 1
         /\ queue[c] # <<>> => Queued(c) >= 1
         /\ parameters[c] # <<>> => Answered(c) >= 1
         /\ (Unsent(c) = 0 <=> hasRequested[c])
<1>1. queue[c] \in Seq(Nat) /\ parameters[c] \in Seq(Nat)
  BY RequestsType
<1>2. /\ queue[c] # <<>> => Len(queue[c]) \in Nat \ {0}
      /\ parameters[c] # <<>> => Len(parameters[c]) \in Nat \ {0}
  BY <1>1, EmptySeq
<1> QED BY <1>2, RequestsType DEF OneRequest, Requests, Waiting, Answered, Queued, Unsent

LEMMA RoundRequests ==
  ASSUME TypeOK, OneRequest, NEW c \in Correlators, NEW n, NEW st, Round(c, n, st),
         UNCHANGED readyNodes
  PROVE  OneRequest'
<1> DEFINE request == ~hasRequested[c] /\ AlmostFinished(fft[c] + n)
<1>1. /\ queue \in [Correlators -> Seq(Nat)] /\ ended \in [Correlators -> Nat]
      /\ hasRequested \in [Correlators -> BOOLEAN]
  BY DEF TypeOK, MailboxesTypeOK, CorrelatorTypeOK, Slices
<1>2. /\ ended' = IF request THEN [ended EXCEPT ![c] = @ + 1] ELSE ended
      /\ UNCHANGED parameters
  BY DEF Round
<1>3. Waiting(c)' = Waiting(c) /\ Answered(c)' = Answered(c)
  BY <1>2 DEF Waiting, InReady, Answered
<1>4. CASE queue[c] # <<>> /\ SetParameters(c, queue[c])
  <2>1. /\ queue' = [queue EXCEPT ![c] = Tail(queue[c])]
        /\ hasRequested' = [hasRequested EXCEPT ![c] = FALSE]
    BY <1>4 DEF SetParameters
  <2>2. Unsent(c) = 0 /\ Queued(c) = 1 /\ ended[c] = 0 /\ Waiting(c) = 0 /\ Answered(c) = 0
    BY <1>4, RequestParts
  <2>3. ended' = ended
    BY <1>2, <2>2, RequestParts
  <2>4. Queued(c)' = 0
    <3>1. queue[c] \in Seq(Nat)
      BY <1>1
    <3>2. Len(Tail(queue[c])) = Len(queue[c]) - 1
      BY <1>4, <3>1, HeadTailProperties
    <3> QED BY <1>1, <2>1, <2>2, <3>2 DEF Queued
  <2>5. Unsent(c)' = 1
    BY <1>1, <2>1 DEF Unsent
  <2>6. Requests(c)' = 1
    BY <1>3, <2>2, <2>3, <2>4, <2>5 DEF Requests
  <2> QED BY <1>1, <1>2, <2>1, <2>3, <2>6, OthersRequests
<1>5. CASE /\ hasRequested' = [hasRequested EXCEPT ![c] = @ \/ request]
           /\ UNCHANGED queue
  <2>1. Queued(c)' = Queued(c)
    BY <1>5 DEF Queued
  <2>2. CASE request
    <3>1. ended'[c] = ended[c] + 1 /\ Unsent(c) = 1 /\ Unsent(c)' = 0
      BY <1>1, <1>2, <1>5, <2>2 DEF Unsent
    <3>2. Requests(c)' = 1
      BY <1>3, <2>1, <3>1, RequestParts DEF Requests
    <3> QED BY <1>1, <1>2, <1>5, <3>2, OthersRequests
  <2>3. CASE ~request
    <3>1. ended' = ended /\ Unsent(c)' = Unsent(c)
      BY <1>1, <1>2, <1>5, <2>3 DEF Unsent
    <3>2. Requests(c)' = 1
      BY <1>3, <2>1, <3>1, RequestParts DEF Requests
    <3> QED BY <1>1, <1>2, <1>5, <3>1, <3>2, OthersRequests
  <2> QED BY <2>2, <2>3
<1> QED BY <1>4, <1>5 DEF Round

LEMMA CorrelatorRequests ==
  ASSUME TypeOK, OneRequest, NEW c \in Correlators, CorrelatorNext(c), UNCHANGED readyNodes
  PROVE  OneRequest'
<1>1. CASE ReceiveParameters(c)
  <2> DEFINE q == Append(queue[c], Head(parameters[c]))
  <2>1. /\ parameters \in [Correlators -> Seq(Nat)] /\ queue \in [Correlators -> Seq(Nat)]
        /\ hasRequested \in [Correlators -> BOOLEAN]
        /\ parameters[c] # <<>> /\ parameters' = [parameters EXCEPT ![c] = Tail(@)]
        /\ UNCHANGED ended
    BY <1>1 DEF TypeOK, MailboxesTypeOK, CorrelatorTypeOK, ReceiveParameters, Slices
  <2>2. /\ Answered(c) = 1 /\ Queued(c) = 0 /\ Unsent(c) = 0
        /\ ended[c] = 0 /\ Waiting(c) = 0
    <3>1. parameters[c] # <<>>
      BY <2>1
    <3> QED BY <3>1, RequestParts
  <2>3. Answered(c)' = 0 /\ Waiting(c)' = 0
    <3>1. Len(parameters'[c]) = Len(parameters[c]) - 1
      <4>1. parameters[c] \in Seq(Nat) /\ parameters'[c] = Tail(parameters[c])
        BY <2>1
      <4> QED BY <2>1, <4>1, HeadTailProperties
    <3>2. Len(parameters[c]) = 1
      BY <2>2 DEF Answered
    <3>3. Answered(c)' = 0
      BY <3>1, <3>2 DEF Answered
    <3>4. Waiting(c)' = Waiting(c)
      BY DEF Waiting, InReady
    <3> QED BY <2>2, <3>3, <3>4
  <2>4. /\ q \in Seq(Nat) /\ Len(q) = 1 /\ q # <<>>
    <3>1. queue[c] \in Seq(Nat) /\ Head(parameters[c]) \in Nat /\ Len(queue[c]) = 0
      BY <2>1, <2>2, MailboxTail DEF Queued
    <3> QED BY <3>1, AppendProperties
  <2>5. CASE SetParameters(c, q)
    <3>1. /\ queue' = [queue EXCEPT ![c] = Tail(q)]
          /\ hasRequested' = [hasRequested EXCEPT ![c] = FALSE]
      BY <2>5 DEF SetParameters
    <3>2. Len(Tail(q)) = 0
      <4> HIDE DEF q
      <4> QED BY <2>4, HeadTailProperties
    <3>3. Queued(c)' = 0 /\ Unsent(c)' = 1
      BY <2>1, <3>1, <3>2 DEF Queued, Unsent
    <3>4. Requests(c)' = 1
      BY <2>1, <2>2, <2>3, <3>3 DEF Requests
    <3> QED BY <2>1, <3>1, <3>4, OthersRequests
  <2>6. CASE queue' = [queue EXCEPT ![c] = q] /\ UNCHANGED hasRequested
    <3>1. Queued(c)' = 1 /\ Unsent(c)' = 0
      BY <2>1, <2>2, <2>4, <2>6 DEF Queued, Unsent
    <3>2. Requests(c)' = 1
      BY <2>1, <2>2, <2>3, <3>1 DEF Requests
    <3> QED BY <2>1, <2>6, <3>2, OthersRequests
  <2> QED BY <1>1, <2>5, <2>6 DEF ReceiveParameters
<1>2. CASE Correlate(c)
  BY <1>2, RoundRequests DEF Correlate
<1>3. CASE EndStopped(c)
  <2>1. UNCHANGED <<ended, parameters, queue, hasRequested>>
    BY <1>3 DEF EndStopped
  <2>2. \A d \in Correlators : Requests(d)' = Requests(d)
    BY <2>1 DEF Requests, Waiting, InReady, Answered, Queued, Unsent
  <2> QED BY <2>2 DEF OneRequest
<1>4. CASE EndCorrelating(c)
  BY <1>4, RoundRequests DEF EndCorrelating
<1> QED BY <1>1, <1>2, <1>3, <1>4 DEF CorrelatorNext

-----------------------------------------------------------------------------
\* The steps of the output node.
LEMMA AfterMessageType ==
  ASSUME oStatus \in OStatus, NEW st \in OStatus, NEW map, NEW n
  PROVE  AfterMessage(st, map, n) \in OStatus
BY DEF AfterMessage, OStatus

LEMMA OutputTypes ==
  ASSUME TypeOK, OutputNext
  PROVE  MailboxesTypeOK' /\ OutputTypeOK' /\ UNCHANGED <<ended, parameters>>
<1>1. MailboxesTypeOK /\ OutputTypeOK
  BY DEF TypeOK
<1>2. /\ priority \in [Correlators -> Seq(Nat)] /\ stream \in [Correlators -> Seq(Nat)]
      /\ sizes \in [Correlators -> Seq(Nat)] /\ order \in SUBSET (Nat \X Correlators)
      /\ oStatus \in OStatus /\ file \in Seq(Nat) /\ ready \in Seq(Nat)
  BY <1>1 DEF MailboxesTypeOK, OutputTypeOK, Slices
<1>3. ASSUME NEW c \in Correlators, ReceivePriority(c)
      PROVE  MailboxesTypeOK' /\ OutputTypeOK' /\ UNCHANGED <<ended, parameters>>
  <2> DEFINE s == Head(priority[c])
  <2>1. s \in Nat /\ priority' \in [Correlators -> Seq(Nat)]
    BY <1>2, <1>3, MailboxTail DEF ReceivePriority
  <2>2. sizes' = [sizes EXCEPT ![c] = Append(@, s)] /\ (order' = order \cup {<<s, c>>} \/ order' = order)
    BY <1>3 DEF ReceivePriority
  <2>3. sizes' \in [Correlators -> Seq(Nat)] /\ order' \in SUBSET (Nat \X Correlators)
    <3>1. s \in Nat
      BY <2>1
    <3> HIDE DEF s
    <3>2. sizes' \in [Correlators -> Seq(Nat)]
      BY <1>2, <2>2, <3>1, MailboxAppend
    <3>3. <<s, c>> \in Nat \X Correlators
      BY <3>1
    <3> QED BY <1>2, <2>2, <3>2, <3>3
  <2>4. failed' \subseteq Assertions
    BY <1>1, <1>3 DEF ReceivePriority, SfxcAssert, MailboxesTypeOK, Assertions
  <2>5. oStatus' \in OStatus
    BY <1>2, <1>3, AfterMessageType DEF ReceivePriority
  <2>6. /\ UNCHANGED <<currSlice, currStream, numberOfSlices, file>>
        /\ UNCHANGED <<ended, parameters, endNode, endOutput, ready, finished, stream>>
    BY <1>3 DEF ReceivePriority
  <2> QED BY <1>1, <2>1, <2>3, <2>4, <2>5, <2>6 DEF MailboxesTypeOK, OutputTypeOK, Slices
<1>4. CASE ReceiveReady
  <2>1. Head(ready) \in Nat /\ ready' \in Seq(Nat) /\ numberOfSlices' = Head(ready)
    BY <1>2, <1>4, HeadTailProperties DEF ReceiveReady
  <2>2. oStatus' \in OStatus
    BY <1>2, <1>4, AfterMessageType DEF ReceiveReady
  <2>3. /\ UNCHANGED <<order, sizes, currSlice, currStream, file>>
        /\ UNCHANGED <<ended, parameters, endNode, endOutput, priority, finished, stream, failed>>
    BY <1>4 DEF ReceiveReady
  <2> QED BY <1>1, <2>1, <2>2, <2>3 DEF MailboxesTypeOK, OutputTypeOK, Slices
<1>5. CASE ReceiveEndOutput
  <2>1. "END_NODE" \in OStatus /\ "END_WRITING" \in OStatus
    BY DEF OStatus
  <2>2. oStatus' \in OStatus /\ endOutput' \in BOOLEAN
    BY <1>2, <1>5, <2>1, AfterMessageType DEF ReceiveEndOutput
  <2>3. /\ UNCHANGED <<order, sizes, currSlice, currStream, numberOfSlices, file>>
        /\ UNCHANGED <<ended, parameters, endNode, priority, ready, finished, stream, failed>>
    BY <1>5 DEF ReceiveEndOutput
  <2> QED BY <1>1, <2>2, <2>3 DEF MailboxesTypeOK, OutputTypeOK
<1>6. ASSUME ReadSlice
      PROVE  file' \in Seq(Nat) /\ stream' \in [Correlators -> Seq(Nat)]
  <2>1. PICK c \in currStream :
          /\ stream[c] # <<>>
          /\ file' = Append(file, Head(stream[c]))
          /\ stream' = [stream EXCEPT ![c] = Tail(@)]
    BY <1>6 DEF ReadSlice
  <2>2. c \in Correlators
    BY <1>1 DEF OutputTypeOK
  <2>3. Head(stream[c]) \in Nat /\ stream' \in [Correlators -> Seq(Nat)]
    BY <1>2, <2>1, <2>2, MailboxTail
  <2> QED BY <1>2, <2>1, <2>3, AppendProperties
<1>7. CASE StartNewSlice
  <2>1. PICK p \in order :
          /\ SfxcAssert("goto_next_slice", p[1] = currSlice /\ sizes[p[2]] # <<>>)
          /\ currStream' = {p[2]}
          /\ order' = order \ {p}
          /\ sizes' = [sizes EXCEPT ![p[2]] = IF @ = <<>> THEN @ ELSE Tail(@)]
    BY <1>7 DEF StartNewSlice
  <2>2. p[2] \in Correlators /\ sizes[p[2]] \in Seq(Nat)
    BY <1>2
  <2>3. (IF sizes[p[2]] = <<>> THEN sizes[p[2]] ELSE Tail(sizes[p[2]])) \in Seq(Nat)
    BY <2>2, HeadTailProperties
  <2>4. sizes' \in [Correlators -> Seq(Nat)]
    BY <1>2, <2>1, <2>2, <2>3
  <2>5. failed' \subseteq Assertions
    BY <1>1, <2>1 DEF SfxcAssert, MailboxesTypeOK, Assertions
  <2>6. /\ oStatus' = "WRITE_OUTPUT"
        /\ UNCHANGED <<currSlice, numberOfSlices, file>>
        /\ UNCHANGED <<ended, parameters, endNode, endOutput, priority, ready, finished, stream>>
    BY <1>7 DEF StartNewSlice
  <2> QED BY <1>1, <2>1, <2>2, <2>4, <2>5, <2>6 DEF MailboxesTypeOK, OutputTypeOK, OStatus, Slices
<1>8. CASE WriteOutput
  <2>1. file' \in Seq(Nat) /\ stream' \in [Correlators -> Seq(Nat)]
    BY <1>6, <1>8 DEF WriteOutput
  <2>2. /\ oStatus' = "END_SLICE"
        /\ UNCHANGED <<order, sizes, currSlice, currStream, numberOfSlices>>
        /\ UNCHANGED <<ended, parameters, endNode, endOutput, priority, ready, finished, failed>>
    BY <1>8 DEF WriteOutput
  <2> QED BY <1>1, <2>1, <2>2 DEF MailboxesTypeOK, OutputTypeOK, OStatus, Slices
<1>9. CASE EndWriting
  <2>1. file' \in Seq(Nat) /\ stream' \in [Correlators -> Seq(Nat)]
    BY <1>2, <1>6, <1>9 DEF EndWriting
  <2>2. /\ oStatus' \in {"END_NODE", "END_SLICE"}
        /\ UNCHANGED <<order, sizes, currSlice, currStream, numberOfSlices>>
        /\ UNCHANGED <<ended, parameters, endNode, endOutput, priority, ready, finished, failed>>
    BY <1>9 DEF EndWriting
  <2> QED BY <1>1, <2>1, <2>2 DEF MailboxesTypeOK, OutputTypeOK, OStatus, Slices
<1>10. CASE EndSlice
  BY <1>1, <1>10 DEF EndSlice, mailboxes, MailboxesTypeOK, OutputTypeOK, OStatus
<1>11. CASE ShutDown
  <2>1. failed' \subseteq Assertions
    BY <1>1, <1>11 DEF ShutDown, SfxcAssert, MailboxesTypeOK, Assertions
  <2>2. /\ oStatus' = "GONE" /\ finished' = finished + 1
        /\ UNCHANGED <<order, sizes, currSlice, currStream, numberOfSlices, file>>
        /\ UNCHANGED <<ended, parameters, endNode, endOutput, priority, ready, stream>>
    BY <1>11 DEF ShutDown
  <2> QED BY <1>1, <2>1, <2>2 DEF MailboxesTypeOK, OutputTypeOK, OStatus
<1> QED BY <1>3, <1>4, <1>5, <1>7, <1>8, <1>9, <1>10, <1>11 DEF OutputNext, OutputLoop

-----------------------------------------------------------------------------
LEMMA Inductive ==
  ASSUME ManagerAssumption, CorrelatorAssumption, IInv, [Next]_vars
  PROVE  IInv'
<1>1. TypeOK /\ InBounds /\ ReadyOnce /\ OneRequest
  BY DEF IInv
<1>2. CASE ManagerStep
  <2>1. ManagerNext /\ UNCHANGED <<cVars, oVars>>
    BY <1>2 DEF ManagerStep
  <2>2. CorrelatorTypeOK' /\ OutputTypeOK'
    BY <1>1, <2>1 DEF TypeOK, CorrelatorTypeOK, OutputTypeOK, cVars, oVars
  <2> QED BY <2>1, <2>2, ManagerTypes, ManagerRequests DEF IInv, TypeOK
<1>3. ASSUME NEW c \in Correlators, CorrelatorStep(c) PROVE IInv'
  <2>1. CorrelatorNext(c) /\ UNCHANGED <<mVars, oVars>>
    BY <1>3 DEF CorrelatorStep
  <2>2. ManagerTypeOK' /\ OutputTypeOK' /\ InBounds' /\ ReadyOnce' /\ readyNodes' = readyNodes
    BY <1>1, <2>1 DEF TypeOK, ManagerTypeOK, OutputTypeOK, InBounds, ReadyOnce, mVars, oVars
  <2> QED BY <1>1, <2>1, <2>2, CorrelatorTypes, CorrelatorRequests DEF IInv, TypeOK
<1>4. CASE OutputStep
  <2>1. OutputNext /\ UNCHANGED <<mVars, cVars>>
    BY <1>4 DEF OutputStep
  <2>2. /\ ManagerTypeOK' /\ CorrelatorTypeOK' /\ InBounds' /\ ReadyOnce'
        /\ UNCHANGED <<readyNodes, queue, hasRequested>>
    BY <1>1, <2>1 DEF TypeOK, ManagerTypeOK, CorrelatorTypeOK, InBounds, ReadyOnce, mVars, cVars
  <2>3. MailboxesTypeOK' /\ OutputTypeOK' /\ UNCHANGED <<ended, parameters>>
    BY <1>1, <2>1, OutputTypes
  <2>4. \A d \in Correlators : Requests(d)' = Requests(d)
    BY <2>2, <2>3 DEF Requests, Waiting, InReady, Answered, Queued, Unsent
  <2> QED BY <1>1, <2>2, <2>3, <2>4 DEF IInv, TypeOK, OneRequest
<1>5. CASE UNCHANGED vars
  BY <1>1, <1>5 DEF IInv, TypeOK, MailboxesTypeOK, ManagerTypeOK, CorrelatorTypeOK, OutputTypeOK,
     InBounds, ReadyOnce, OneRequest, Requests, Waiting, InReady, Answered, Queued, Unsent,
     vars, mailboxes, mVars, cVars, oVars
<1> QED BY <1>2, <1>3, <1>4, <1>5 DEF Next, Stay

\* IInv holds in every state of every job.
LEMMA Invariance ==
  ASSUME ManagerAssumption, CorrelatorAssumption
  PROVE  Spec => []IInv
<1>1. Init => IInv
  BY InitIInv
<1>2. IInv /\ [Next]_vars => IInv'
  BY Inductive
<1> QED BY <1>1, <1>2, PTL DEF Spec

\* The nodes and the messages keep their types, for any number of correlator
\* nodes, channels, scans and FFTs.
THEOREM TypeCorrect == Spec => []TypeOK
<1>1. IInv => TypeOK
  BY DEF IInv
<1> QED BY <1>1, Invariance, ManagerAssumption, CorrelatorAssumption, PTL

\* Every correlator node always has exactly one request for work in the
\* system: the credit that bounds its queue and the manager's list.
THEOREM OneRequestPerNode == Spec => [](OneRequest /\ ReadyOnce)
<1>1. IInv => OneRequest /\ ReadyOnce
  BY DEF IInv
<1> QED BY <1>1, Invariance, ManagerAssumption, CorrelatorAssumption, PTL

-----------------------------------------------------------------------------
\* One queue in front of another: concatenation, with a name so that a proof can
\* use its laws without looking at the elements; and a queue of one.
Then(s, t) == s \o t
One(e) == <<e>>

\* The slice of stream c the output node is reading.
Current(c) == IF currStream = {c} /\ oStatus = "WRITE_OUTPUT" THEN One(currSlice) ELSE <<>>

\* The slice correlator node c is working on.
Busy(c) == IF cStatus[c] = "CORRELATING" THEN One(slice[c]) ELSE <<>>

\* What the output node has been told, or will be told, that stream c brings.
Announced(c) == Then(Current(c), Then(sizes[c], priority[c]))

\* What stream c brings: slices written to it, and the one worked on.
Begun(c) == Then(stream[c], Busy(c))

\* The slices handed to correlator node c and not in the file yet, oldest first.
Given(c) == Then(Begun(c), Then(queue[c], parameters[c]))
GivenTo == [c \in Correlators |-> Given(c)]

\* The numbers from lo up to hi are shared out over the sequences of G, each
\* number to one of them, each sequence in increasing order.
InRange(G, lo, hi) == \A c \in Correlators : \A i \in 1 .. Len(G[c]) : lo <= G[c][i] /\ G[c][i] < hi
Increasing(G) == \A c \in Correlators : \A i, j \in 1 .. Len(G[c]) : i < j => G[c][i] < G[c][j]
Disjoint(G) ==
  \A c, d \in Correlators : \A i \in 1 .. Len(G[c]), j \in 1 .. Len(G[d]) :
    G[c][i] = G[d][j] => c = d
NoneMissing(G, lo, hi) ==
  \A s \in Nat : lo <= s /\ s < hi => \E c \in Correlators : \E i \in 1 .. Len(G[c]) : G[c][i] = s
SharedOut(G, lo, hi) ==
  /\ lo <= hi
  /\ InRange(G, lo, hi) /\ Increasing(G) /\ Disjoint(G) /\ NoneMissing(G, lo, hi)

\* A slice that was handed out is in the file or on its way there, and at one
\* place only: none is lost between the nodes and none is correlated twice.
SlicesKept == SharedOut(GivenTo, Len(file), outputSlice)

\* Both ways from a correlator node to the output node say the same.
AnnouncedIsBegun == \A c \in Correlators : Announced(c) = Begun(c)

\* input_streams_order and the sizes of the streams hold the same slices.
OrderIsSizes ==
  \A s \in Nat, c \in Correlators :
    <<s, c>> \in order <=> \E i \in 1 .. Len(sizes[c]) : sizes[c][i] = s

\* The loop of the output node.
Writing ==
  /\ \A i \in 1 .. Len(file) : file[i] = i - 1
  /\ Len(file) = IF oStatus = "END_SLICE" THEN currSlice + 1 ELSE currSlice
  /\ oStatus # "END_WRITING"
  /\ oStatus = "START_NEW_SLICE" => FirstIs(order, currSlice)
  /\ oStatus = "WRITE_OUTPUT" => \E c \in Correlators : currStream = {c}

\* How the job ends: the manager stops, the output node gets to know the number of
\* slices, writes the last one, goes, and then the manager sends END_NODE.
Closed == mStatus \in {"WAIT_FOR_OUTPUT_NODE", "END_NODE", "GONE"}
Ending ==
  /\ ~Closed => ready = <<>> /\ numberOfSlices = -1
  /\ Closed => \/ ready = <<outputSlice>> /\ numberOfSlices = -1
               \/ ready = <<>> /\ numberOfSlices = outputSlice
  /\ oStatus \in {"END_NODE", "GONE"} => currSlice = numberOfSlices
  /\ mStatus \in {"END_NODE", "GONE"} => oStatus = "GONE"
  /\ finished > 0 => finished = 1 /\ oStatus = "GONE" /\ mStatus = "WAIT_FOR_OUTPUT_NODE"
  /\ endOutput => mStatus = "GONE"
  /\ \A c \in Correlators : endNode[c] => mStatus = "GONE" /\ cStatus[c] # "END_CORRELATING"
  /\ \A c \in Correlators : cStatus[c] = "END_CORRELATING" => mStatus = "GONE"

\* The assertions on the path of a slice that are about the order of messages.
ProtocolAssertions == Assertions \ {"input_node_set_time", "start_next_timeslice_on_node"}
ProtocolHolds == failed \cap ProtocolAssertions = {}

OrderInv == SlicesKept /\ AnnouncedIsBegun /\ OrderIsSizes /\ Writing /\ Ending /\ ProtocolHolds

-----------------------------------------------------------------------------
\* The manager hands the next number to one of the nodes.
LEMMA IssueSharesOut ==
  ASSUME NEW G \in [Correlators -> Seq(Nat)], NEW c \in Correlators,
         NEW lo \in Nat, NEW hi \in Nat, SharedOut(G, lo, hi)
  PROVE  SharedOut([G EXCEPT ![c] = Append(@, hi)], lo, hi + 1)
<1> SUFFICES ASSUME NEW H \in [Correlators -> Seq(Nat)], H = [G EXCEPT ![c] = Append(@, hi)]
             PROVE  SharedOut(H, lo, hi + 1)
  BY AppendProperties
<1>1. /\ \A d \in Correlators : Len(G[d]) \in Nat /\ Len(H[d]) \in Nat
      /\ \A d \in Correlators : \A i \in 1 .. Len(G[d]) : G[d][i] \in Nat
      /\ \A d \in Correlators : \A i \in 1 .. Len(H[d]) : H[d][i] \in Nat
  BY LenProperties, ElementOfSeq
<1>2. /\ H[c] = Append(G[c], hi)
      /\ \A d \in Correlators : d # c => H[d] = G[d]
  OBVIOUS
<1>3. /\ Len(H[c]) = Len(G[c]) + 1 /\ H[c][Len(G[c]) + 1] = hi
      /\ \A i \in 1 .. Len(G[c]) : H[c][i] = G[c][i]
  BY <1>2, AppendProperties
<1>4. \A d \in Correlators :
        /\ \A i \in 1 .. Len(H[d]) :
             \/ i \in 1 .. Len(G[d]) /\ H[d][i] = G[d][i]
             \/ d = c /\ i = Len(G[c]) + 1 /\ H[d][i] = hi
        /\ \A i \in 1 .. Len(G[d]) : i \in 1 .. Len(H[d]) /\ H[d][i] = G[d][i]
  <2> TAKE d \in Correlators
  <2>1. CASE d = c
    BY <1>1, <1>3, <2>1
  <2>2. CASE d # c
    BY <1>2, <2>2
  <2> QED BY <2>1, <2>2
<1>5. InRange(H, lo, hi + 1)
  BY <1>1, <1>4, SMTT(30) DEF SharedOut, InRange
<1>6. Increasing(H)
  <2> SUFFICES ASSUME NEW d \in Correlators, NEW i \in 1 .. Len(H[d]), NEW j \in 1 .. Len(H[d]), i < j
               PROVE  H[d][i] < H[d][j]
    BY DEF Increasing
  <2>1. CASE j \in 1 .. Len(G[d]) /\ H[d][j] = G[d][j]
    BY <1>1, <1>4, <2>1 DEF SharedOut, Increasing
  <2>2. CASE d = c /\ j = Len(G[c]) + 1 /\ H[d][j] = hi
    BY <1>1, <1>4, <2>2 DEF SharedOut, InRange
  <2> QED BY <1>4, <2>1, <2>2
<1>7. Disjoint(H)
  BY <1>1, <1>4, SMTT(30) DEF SharedOut, InRange, Disjoint
<1>8. NoneMissing(H, lo, hi + 1)
  <2> SUFFICES ASSUME NEW s \in Nat, lo <= s, s < hi + 1
               PROVE  \E d \in Correlators : \E i \in 1 .. Len(H[d]) : H[d][i] = s
    BY DEF NoneMissing
  <2>1. CASE s = hi
    BY <1>1, <1>3, <2>1
  <2>2. CASE s < hi
    <3>1. PICK d \in Correlators : \E i \in 1 .. Len(G[d]) : G[d][i] = s
      BY <2>2 DEF SharedOut, NoneMissing
    <3> QED BY <1>4, <3>1
  <2> QED BY <2>1, <2>2
<1>9. lo <= hi + 1
  BY DEF SharedOut
<1> QED BY <1>5, <1>6, <1>7, <1>8, <1>9 DEF SharedOut

\* The output node takes the lowest number from the head of its sequence.
LEMMA WriteSharesOut ==
  ASSUME NEW G \in [Correlators -> Seq(Nat)], NEW c \in Correlators,
         NEW lo \in Nat, NEW hi \in Nat, SharedOut(G, lo, hi),
         G[c] # <<>>, Head(G[c]) = lo
  PROVE  lo < hi /\ SharedOut([G EXCEPT ![c] = Tail(@)], lo + 1, hi)
<1> SUFFICES ASSUME NEW H \in [Correlators -> Seq(Nat)], H = [G EXCEPT ![c] = Tail(@)]
             PROVE  lo < hi /\ SharedOut(H, lo + 1, hi)
  <2>1. Tail(G[c]) \in Seq(Nat)
    BY HeadTailProperties
  <2> QED BY <2>1
<1>1. /\ \A d \in Correlators : Len(G[d]) \in Nat /\ Len(H[d]) \in Nat
      /\ \A d \in Correlators : \A i \in 1 .. Len(G[d]) : G[d][i] \in Nat
      /\ \A d \in Correlators : \A i \in 1 .. Len(H[d]) : H[d][i] \in Nat
  BY LenProperties, ElementOfSeq
<1>2. /\ H[c] = Tail(G[c])
      /\ \A d \in Correlators : d # c => H[d] = G[d]
  OBVIOUS
<1>3. /\ Len(H[c]) = Len(G[c]) - 1 /\ Len(G[c]) > 0 /\ G[c][1] = lo
      /\ \A i \in 1 .. Len(H[c]) : H[c][i] = G[c][i + 1]
  <2>1. G[c] \in Seq(Nat)
    OBVIOUS
  <2>2. /\ Len(Tail(G[c])) = Len(G[c]) - 1
        /\ \A i \in 1 .. Len(Tail(G[c])) : Tail(G[c])[i] = G[c][i + 1]
    BY <2>1, HeadTailProperties
  <2>3. Len(G[c]) > 0 /\ G[c][1] = lo
    BY <2>1, EmptySeq
  <2> QED BY <1>2, <2>2, <2>3
<1>4. \A d \in Correlators : \A i \in 1 .. Len(H[d]) :
        \/ d = c /\ i + 1 \in 1 .. Len(G[c]) /\ H[d][i] = G[c][i + 1]
        \/ d # c /\ i \in 1 .. Len(G[d]) /\ H[d][i] = G[d][i]
  <2> TAKE d \in Correlators
  <2>1. CASE d = c
    BY <1>1, <1>3, <2>1
  <2>2. CASE d # c
    BY <1>2, <2>2
  <2> QED BY <2>1, <2>2
<1>5. lo < hi /\ InRange(H, lo + 1, hi)
  <2>1. lo < hi
    BY <1>1, <1>3 DEF SharedOut, InRange
  <2>2. ASSUME NEW d \in Correlators, NEW i \in 1 .. Len(H[d]) PROVE lo + 1 <= H[d][i] /\ H[d][i] < hi
    <3>1. CASE d = c
      <4>1. i + 1 \in 1 .. Len(G[c]) /\ H[d][i] = G[c][i + 1] /\ 1 \in 1 .. Len(G[c]) /\ 1 < i + 1
        BY <1>1, <1>3, <1>4, <3>1
      <4>2. G[c][1] < G[c][i + 1]
        BY <4>1 DEF SharedOut, Increasing
      <4> QED BY <1>1, <1>3, <4>1, <4>2 DEF SharedOut, InRange
    <3>2. CASE d # c
      <4>1. i \in 1 .. Len(G[d]) /\ H[d][i] = G[d][i] /\ 1 \in 1 .. Len(G[c])
        BY <1>1, <1>3, <1>4, <3>2
      <4>2. G[d][i] # G[c][1]
        BY <3>2, <4>1 DEF SharedOut, Disjoint
      <4>3. lo <= G[d][i] /\ G[d][i] < hi /\ G[d][i] \in Nat
        BY <1>1, <4>1 DEF SharedOut, InRange
      <4> QED BY <1>3, <4>1, <4>2, <4>3
    <3> QED BY <3>1, <3>2
  <2> QED BY <2>1, <2>2 DEF InRange
<1>6. Increasing(H)
  BY <1>1, <1>4 DEF SharedOut, Increasing
<1>7. Disjoint(H)
  BY <1>1, <1>4 DEF SharedOut, Disjoint
<1>8. NoneMissing(H, lo + 1, hi)
  <2> SUFFICES ASSUME NEW s \in Nat, lo + 1 <= s, s < hi
               PROVE  \E d \in Correlators : \E i \in 1 .. Len(H[d]) : H[d][i] = s
    BY DEF NoneMissing
  <2>1. PICK d \in Correlators : \E i \in 1 .. Len(G[d]) : G[d][i] = s
    <3>1. NoneMissing(G, lo, hi)
      BY DEF SharedOut
    <3>2. lo <= s
      OBVIOUS
    <3> QED BY <3>1, <3>2 DEF NoneMissing
  <2>2. CASE d = c
    <3>1. PICK i \in 1 .. Len(G[c]) : G[c][i] = s
      BY <2>1, <2>2
    <3>2. i # 1 /\ i - 1 \in 1 .. Len(H[c]) /\ H[c][i - 1] = G[c][i]
      BY <1>1, <1>3, <3>1
    <3> QED BY <2>2, <3>1, <3>2
  <2>3. CASE d # c
    BY <1>2, <2>1, <2>3
  <2> QED BY <2>2, <2>3
<1> QED BY <1>5, <1>6, <1>7, <1>8 DEF SharedOut

-----------------------------------------------------------------------------
\* The laws of Then and One, and what they do with the ends of a queue.
LEMMA ThenType == \A s, t \in Seq(Nat) : Then(s, t) \in Seq(Nat)
BY ConcatProperties DEF Then

LEMMA OneType == \A e \in Nat : One(e) \in Seq(Nat) /\ One(e) # <<>>
<1> SUFFICES ASSUME NEW e \in Nat PROVE <<e>> \in Seq(Nat) /\ <<e>> # <<>>
  BY DEF One
<1> QED OBVIOUS

LEMMA ThenNothing == \A s \in Seq(Nat) : Then(s, <<>>) = s /\ Then(<<>>, s) = s
BY ConcatEmptySeq DEF Then

LEMMA ThenAssociative == \A s, t, u \in Seq(Nat) : Then(Then(s, t), u) = Then(s, Then(t, u))
BY ConcatAssociative, SMTT(30) DEF Then

LEMMA AppendIsThen == \A s \in Seq(Nat), e \in Nat : Append(s, e) = Then(s, One(e))
BY AppendIsConcat DEF Then, One

LEMMA ThenIsNothing == \A s, t \in Seq(Nat) : Then(s, t) = <<>> => s = <<>> /\ t = <<>>
BY ConcatSimplifications!concIsEmpty DEF Then

LEMMA HeadOfThen ==
  \A a \in Nat, u \in Seq(Nat) :
    Then(One(a), u) # <<>> /\ Head(Then(One(a), u)) = a /\ Tail(Then(One(a), u)) = u
<1> TAKE a \in Nat, u \in Seq(Nat)
<1>1. One(a) \in Seq(Nat) /\ Len(One(a)) = 1 /\ One(a)[1] = a
  BY DEF One
<1>2. SUFFICES ASSUME NEW v \in Seq(Nat), v = Then(One(a), u)
               PROVE  v # <<>> /\ Head(v) = a /\ Tail(v) = u
  BY <1>1, ThenType
<1>3. /\ Len(v) = 1 + Len(u) /\ Len(u) \in Nat
      /\ v[1] = a /\ \A i \in 1 .. Len(u) : v[i + 1] = u[i]
  <2>1. /\ Len(v) = Len(One(a)) + Len(u) /\ Len(u) \in Nat
        /\ \A i \in 1 .. Len(One(a)) + Len(u) :
             v[i] = IF i <= Len(One(a)) THEN One(a)[i] ELSE u[i - Len(One(a))]
    BY <1>1, <1>2, ConcatProperties, LenProperties DEF Then
  <2> QED BY <1>1, <2>1
<1>4. v # <<>> /\ Head(v) = a
  BY <1>3, EmptySeq
<1>5. /\ Tail(v) \in Seq(Nat) /\ Len(Tail(v)) = Len(u)
      /\ \A i \in 1 .. Len(u) : Tail(v)[i] = u[i]
  BY <1>3, <1>4, HeadTailProperties
<1> QED BY <1>4, <1>5, SeqEqual

LEMMA HeadAndTail ==
  \A t \in Seq(Nat) : t # <<>> => /\ Head(t) \in Nat /\ Tail(t) \in Seq(Nat)
                                /\ Then(One(Head(t)), Tail(t)) = t
<1> SUFFICES ASSUME NEW t \in Seq(Nat), t # <<>>
             PROVE  /\ Head(t) \in Nat /\ Tail(t) \in Seq(Nat)
                    /\ Then(One(Head(t)), Tail(t)) = t
  OBVIOUS
<1>1. /\ Head(t) \in Nat /\ Tail(t) \in Seq(Nat) /\ Len(Tail(t)) = Len(t) - 1
      /\ \A i \in 1 .. Len(Tail(t)) : Tail(t)[i] = t[i + 1]
      /\ Len(t) \in Nat \ {0} /\ t[1] = Head(t)
  BY HeadTailProperties, EmptySeq
<1>2. PICK a \in Nat, u \in Seq(Nat) : a = Head(t) /\ u = Tail(t)
  BY <1>1
<1>3. PICK v \in Seq(Nat) : v = Then(One(a), u)
  BY ThenType, OneType
<1>4. v # <<>> /\ Head(v) = a /\ Tail(v) = u
  BY <1>3, HeadOfThen
<1>5. /\ Len(Tail(v)) = Len(v) - 1 /\ \A i \in 1 .. Len(Tail(v)) : Tail(v)[i] = v[i + 1]
      /\ Len(v) \in Nat \ {0} /\ v[1] = Head(v)
  BY <1>4, HeadTailProperties, EmptySeq
<1>6. Len(v) = Len(t)
  <2>1. Len(u) = Len(v) - 1
    BY <1>4, <1>5
  <2>2. Len(u) = Len(t) - 1
    BY <1>1, <1>2
  <2>3. Len(v) \in Nat /\ Len(t) \in Nat
    BY LenProperties
  <2> QED BY <2>1, <2>2, <2>3
<1>7. ASSUME NEW i \in 1 .. Len(v) PROVE v[i] = t[i]
  <2>1. CASE i = 1
    BY <1>1, <1>2, <1>4, <1>5, <2>1
  <2>2. CASE i # 1
    <3>1. PICK k \in 1 .. Len(Tail(t)) : i = k + 1
      BY <1>1, <1>5, <1>6, <2>2
    <3> QED BY <1>1, <1>2, <1>4, <1>5, <3>1
  <2> QED BY <2>1, <2>2
<1>8. v = t
  BY <1>6, <1>7, SeqEqual
<1> QED BY <1>1, <1>2, <1>3, <1>8

\* An element that goes from the head of one queue to the end of the one in front.
LEMMA MoveHead ==
  \A s, t \in Seq(Nat) :
    t # <<>> => Append(s, Head(t)) \in Seq(Nat) /\ Then(Append(s, Head(t)), Tail(t)) = Then(s, t)
<1> SUFFICES ASSUME NEW s \in Seq(Nat), NEW t \in Seq(Nat), t # <<>>
             PROVE  Append(s, Head(t)) \in Seq(Nat) /\ Then(Append(s, Head(t)), Tail(t)) = Then(s, t)
  OBVIOUS
<1>1. Head(t) \in Nat /\ Tail(t) \in Seq(Nat) /\ Then(One(Head(t)), Tail(t)) = t
  BY HeadAndTail
<1>2. PICK o \in Seq(Nat), r \in Seq(Nat) : o = One(Head(t)) /\ r = Tail(t) /\ Then(o, r) = t
  BY <1>1, OneType
<1>3. Append(s, Head(t)) = Then(s, o)
  BY <1>1, <1>2, AppendIsThen
<1>4. Then(Then(s, o), r) = Then(s, Then(o, r))
  BY ThenAssociative
<1>5. Then(s, o) \in Seq(Nat)
  BY ThenType
<1> QED BY <1>2, <1>3, <1>4, <1>5

\* The head of the first of two queues is the head of both.
LEMMA HeadInFront ==
  \A s, t \in Seq(Nat) :
    s # <<>> => Then(s, t) # <<>> /\ Head(Then(s, t)) = Head(s) /\ Tail(Then(s, t)) = Then(Tail(s), t)
<1> SUFFICES ASSUME NEW s \in Seq(Nat), NEW t \in Seq(Nat), s # <<>>
             PROVE  /\ Then(s, t) # <<>> /\ Head(Then(s, t)) = Head(s)
                    /\ Tail(Then(s, t)) = Then(Tail(s), t)
  OBVIOUS
<1>1. PICK h \in Nat, r \in Seq(Nat) : h = Head(s) /\ r = Tail(s) /\ Then(One(h), r) = s
  BY HeadAndTail
<1>2. PICK o \in Seq(Nat) : o = One(h)
  BY OneType
<1>3. Then(Then(o, r), t) = Then(o, Then(r, t))
  BY ThenAssociative
<1>4. Then(s, t) = Then(One(h), Then(r, t))
  BY <1>1, <1>2, <1>3
<1>5. Then(r, t) \in Seq(Nat)
  BY ThenType
<1> QED BY <1>1, <1>4, <1>5, HeadOfThen

\* A slice that is started leaves the queue q and is the one worked on.
LEMMA StartedSlice ==
  \A s, q, p \in Seq(Nat) :
    q # <<>> => Then(Then(s, One(Head(q))), Then(Tail(q), p)) = Then(s, Then(q, p))
<1> SUFFICES ASSUME NEW s \in Seq(Nat), NEW q \in Seq(Nat), NEW p \in Seq(Nat), q # <<>>
             PROVE  Then(Then(s, One(Head(q))), Then(Tail(q), p)) = Then(s, Then(q, p))
  OBVIOUS
<1>1. Head(q) \in Nat /\ Tail(q) \in Seq(Nat) /\ Then(One(Head(q)), Tail(q)) = q
  BY HeadAndTail
<1>2. PICK o \in Seq(Nat), r \in Seq(Nat) : o = One(Head(q)) /\ r = Tail(q) /\ Then(o, r) = q
  BY <1>1, OneType
<1>3. Then(r, p) \in Seq(Nat)
  BY ThenType
<1>4. Then(Then(s, o), Then(r, p)) = Then(s, Then(o, Then(r, p)))
  BY <1>3, ThenAssociative
<1>5. Then(Then(o, r), p) = Then(o, Then(r, p))
  BY ThenAssociative
<1> QED BY <1>2, <1>4, <1>5

\* A slice that is announced goes to the end of the announcements.
LEMMA AnnouncedSlice ==
  \A a, s, t \in Seq(Nat), e \in Nat :
    Then(a, Then(s, Append(t, e))) = Then(Then(a, Then(s, t)), One(e))
<1> TAKE a, s, t \in Seq(Nat), e \in Nat
<1>1. PICK o \in Seq(Nat) : o = One(e)
  BY OneType
<1>2. Append(t, e) = Then(t, o)
  BY <1>1, AppendIsThen
<1>3. Then(s, t) \in Seq(Nat)
  BY ThenType
<1>4. Then(s, Then(t, o)) = Then(Then(s, t), o)
  BY ThenAssociative
<1>5. Then(a, Then(Then(s, t), o)) = Then(Then(a, Then(s, t)), o)
  BY <1>3, ThenAssociative
<1> QED BY <1>1, <1>2, <1>4, <1>5

\* Where the elements of two queues are in both of them.
LEMMA InFirst ==
  \A s, t \in Seq(Nat) : \A i \in 1 .. Len(s) : i \in 1 .. Len(Then(s, t)) /\ Then(s, t)[i] = s[i]
<1> SUFFICES ASSUME NEW s \in Seq(Nat), NEW t \in Seq(Nat), NEW i \in 1 .. Len(s)
             PROVE  i \in 1 .. Len(s \o t) /\ (s \o t)[i] = s[i]
  BY DEF Then
<1>1. Len(s) \in Nat /\ Len(t) \in Nat
  BY LenProperties
<1> QED BY <1>1, ConcatProperties

LEMMA InSecond ==
  \A s, t \in Seq(Nat) : \A i \in 1 .. Len(t) :
    Len(s) + i \in 1 .. Len(Then(s, t)) /\ Then(s, t)[Len(s) + i] = t[i]
<1> SUFFICES ASSUME NEW s \in Seq(Nat), NEW t \in Seq(Nat), NEW i \in 1 .. Len(t)
             PROVE  Len(s) + i \in 1 .. Len(s \o t) /\ (s \o t)[Len(s) + i] = t[i]
  BY DEF Then
<1>1. Len(s) \in Nat /\ Len(t) \in Nat
  BY LenProperties
<1>2. SUFFICES ASSUME NEW k \in Nat, k = Len(s) + i
               PROVE  k \in 1 .. Len(s \o t) /\ (s \o t)[k] = t[i]
  BY <1>1
<1>3. k \in 1 .. Len(s) + Len(t) /\ ~(k <= Len(s)) /\ k - Len(s) = i
  BY <1>1, <1>2
<1> QED BY <1>3, ConcatProperties

\* The elements of sz, and after them the head of pr, are in g from place k on.
At(sz, pr, g, k) ==
  /\ \A i \in 1 .. Len(sz) : k + i \in 1 .. Len(g) /\ g[k + i] = sz[i]
  /\ pr # <<>> => /\ k + (Len(sz) + 1) \in 1 .. Len(g)
                  /\ g[k + (Len(sz) + 1)] = Head(pr)

\* Where the elements of three queues and a rest are in all of them.
LEMMA Positions ==
  \A cur, sz, pr, rest, g \in Seq(Nat) :
    g = Then(Then(cur, Then(sz, pr)), rest) => \E k \in Nat : At(sz, pr, g, k)
<1> SUFFICES ASSUME NEW cur \in Seq(Nat), NEW sz \in Seq(Nat), NEW pr \in Seq(Nat),
                    NEW rest \in Seq(Nat), NEW g \in Seq(Nat),
                    g = Then(Then(cur, Then(sz, pr)), rest)
             PROVE  \E k \in Nat : At(sz, pr, g, k)
  OBVIOUS
<1>1. PICK m \in Seq(Nat) : m = Then(sz, pr)
  BY ThenType
<1>2. PICK n \in Seq(Nat) : n = Then(cur, m)
  BY ThenType
<1>3. g = Then(n, rest)
  BY <1>1, <1>2
<1>4. \A i \in 1 .. Len(m) : Len(cur) + i \in 1 .. Len(n) /\ n[Len(cur) + i] = m[i]
  BY <1>2, InSecond, ZenonT(30)
<1>5. \A i \in 1 .. Len(n) : i \in 1 .. Len(g) /\ g[i] = n[i]
  <2>1. \A i \in 1 .. Len(n) : i \in 1 .. Len(Then(n, rest)) /\ Then(n, rest)[i] = n[i]
    BY InFirst
  <2> QED BY <1>3, <2>1
<1>6. \A i \in 1 .. Len(m) : Len(cur) + i \in 1 .. Len(g) /\ g[Len(cur) + i] = m[i]
  BY <1>4, <1>5
<1>7. \A i \in 1 .. Len(sz) : i \in 1 .. Len(m) /\ m[i] = sz[i]
  BY <1>1, InFirst
<1>8. \A i \in 1 .. Len(sz) : Len(cur) + i \in 1 .. Len(g) /\ g[Len(cur) + i] = sz[i]
  BY <1>6, <1>7
<1>9. ASSUME pr # <<>>
      PROVE  /\ Len(cur) + (Len(sz) + 1) \in 1 .. Len(g)
             /\ g[Len(cur) + (Len(sz) + 1)] = Head(pr)
  <2>1. 1 \in 1 .. Len(pr) /\ pr[1] = Head(pr)
    BY <1>9, EmptySeq
  <2>2. Len(sz) + 1 \in 1 .. Len(m) /\ m[Len(sz) + 1] = Head(pr)
    BY <1>1, <2>1, InSecond
  <2> QED BY <1>6, <2>2
<1> QED BY <1>8, <1>9, LenProperties DEF At

-----------------------------------------------------------------------------
\* The parts of what a node has been given are sequences of numbers.
LEMMA PlaceTypes ==
  ASSUME TypeOK, NEW c \in Correlators
  PROVE  /\ sizes[c] \in Seq(Nat) /\ priority[c] \in Seq(Nat) /\ stream[c] \in Seq(Nat)
         /\ queue[c] \in Seq(Nat) /\ parameters[c] \in Seq(Nat)
         /\ Current(c) \in Seq(Nat) /\ Busy(c) \in Seq(Nat)
         /\ Then(sizes[c], priority[c]) \in Seq(Nat) /\ Then(queue[c], parameters[c]) \in Seq(Nat)
         /\ Announced(c) \in Seq(Nat) /\ Begun(c) \in Seq(Nat) /\ Given(c) \in Seq(Nat)
<1>1. /\ sizes[c] \in Seq(Nat) /\ priority[c] \in Seq(Nat) /\ stream[c] \in Seq(Nat)
      /\ queue[c] \in Seq(Nat) /\ parameters[c] \in Seq(Nat)
      /\ currSlice \in Nat /\ slice[c] \in Nat
  BY DEF TypeOK, MailboxesTypeOK, CorrelatorTypeOK, OutputTypeOK, Slices
<1>2. <<>> \in Seq(Nat)
  OBVIOUS
<1>3. Current(c) \in Seq(Nat) /\ Busy(c) \in Seq(Nat)
  BY <1>1, <1>2, OneType DEF Current, Busy
<1>4. Then(sizes[c], priority[c]) \in Seq(Nat) /\ Then(queue[c], parameters[c]) \in Seq(Nat)
  BY <1>1, ThenType
<1>5. Announced(c) \in Seq(Nat) /\ Begun(c) \in Seq(Nat)
  BY <1>1, <1>3, <1>4, ThenType DEF Announced, Begun
<1>6. Given(c) \in Seq(Nat)
  BY <1>4, <1>5, ThenType DEF Given
<1> QED BY <1>1, <1>3, <1>4, <1>5, <1>6

LEMMA GivenToType ==
  ASSUME TypeOK
  PROVE  /\ GivenTo \in [Correlators -> Seq(Nat)]
         /\ \A c \in Correlators : GivenTo[c] = Given(c)
BY PlaceTypes DEF GivenTo

\* A node that has been given nothing is idle.
LEMMA NothingGiven ==
  ASSUME TypeOK, NEW c \in Correlators, Given(c) = <<>>
  PROVE  queue[c] = <<>> /\ parameters[c] = <<>> /\ cStatus[c] # "CORRELATING"
<1>1. Begun(c) = <<>> /\ Then(queue[c], parameters[c]) = <<>>
  BY PlaceTypes, ThenIsNothing DEF Given
<1>2. queue[c] = <<>> /\ parameters[c] = <<>>
  BY <1>1, PlaceTypes, ThenIsNothing
<1>3. Busy(c) = <<>>
  BY <1>1, PlaceTypes, ThenIsNothing DEF Begun
<1>4. slice[c] \in Nat
  BY DEF TypeOK, CorrelatorTypeOK, Slices
<1> QED BY <1>2, <1>3, <1>4, OneType DEF Busy

-----------------------------------------------------------------------------
\* The steps of a correlator node move slices, and lose none.

\* set_parameters: the slice that is started was the head of the queue.
LEMMA StartsSlice ==
  ASSUME TypeOK, NEW c \in Correlators, NEW q \in Seq(Nat), q # <<>>, SetParameters(c, q),
         Announced(c) = Begun(c), stream'[c] = Begun(c), UNCHANGED oVars,
         parameters'[c] \in Seq(Nat), Then(q, parameters'[c]) = Then(queue[c], parameters[c])
  PROVE  Given(c)' = Given(c) /\ Announced(c)' = Begun(c)'
<1>1. /\ Head(q) \in Nat /\ Begun(c) \in Seq(Nat) /\ Current(c) \in Seq(Nat)
      /\ sizes[c] \in Seq(Nat) /\ priority[c] \in Seq(Nat)
  BY HeadTailProperties, PlaceTypes
<1>2. /\ slice'[c] = Head(q) /\ cStatus'[c] = "CORRELATING"
      /\ priority'[c] = Append(priority[c], Head(q)) /\ queue'[c] = Tail(q)
  BY DEF SetParameters, TypeOK, MailboxesTypeOK, CorrelatorTypeOK
<1>3. Begun(c)' = Then(Begun(c), One(Head(q)))
  BY <1>2 DEF Begun, Busy
<1>4. Given(c)' = Given(c)
  <2>1. Given(c)' = Then(Then(Begun(c), One(Head(q))), Then(Tail(q), parameters'[c]))
    BY <1>2, <1>3 DEF Given
  <2>2. Given(c)' = Then(Begun(c), Then(q, parameters'[c]))
    BY <1>1, <2>1, StartedSlice
  <2> QED BY <2>2 DEF Given
<1>5. Announced(c)' = Then(Announced(c), One(Head(q)))
  <2>1. Announced(c)' = Then(Current(c), Then(sizes[c], Append(priority[c], Head(q))))
    BY <1>2 DEF Announced, Current, oVars
  <2>2. PICK a, u, v \in Seq(Nat), e \in Nat :
          a = Current(c) /\ u = sizes[c] /\ v = priority[c] /\ e = Head(q)
    BY <1>1
  <2>3. Announced(c) = Then(Current(c), Then(sizes[c], priority[c]))
    BY DEF Announced
  <2>4. Then(a, Then(u, Append(v, e))) = Then(Then(a, Then(u, v)), One(e))
    BY AnnouncedSlice
  <2> QED BY <2>1, <2>2, <2>3, <2>4
<1> QED BY <1>3, <1>4, <1>5

\* Nothing of another node changes when node c takes a step.
LEMMA OthersPlaces ==
  ASSUME NEW c \in Correlators, AnnouncedIsBegun, UNCHANGED oVars,
         \A d \in Correlators \ {c} :
           UNCHANGED <<stream[d], cStatus[d], slice[d], queue[d], parameters[d], priority[d]>>,
         Given(c)' = Given(c), Announced(c)' = Begun(c)'
  PROVE  (\A d \in Correlators : Given(d)' = Given(d)) /\ AnnouncedIsBegun'
<1>1. ASSUME NEW d \in Correlators \ {c}
      PROVE  Given(d)' = Given(d) /\ Announced(d)' = Announced(d) /\ Begun(d)' = Begun(d)
  BY DEF Given, Announced, Begun, Busy, Current, oVars
<1>2. \A d \in Correlators : Given(d)' = Given(d)
  BY <1>1
<1>3. \A d \in Correlators : Announced(d)' = Begun(d)'
  BY <1>1 DEF AnnouncedIsBegun
<1> QED BY <1>2, <1>3 DEF AnnouncedIsBegun

LEMMA RoundPlaces ==
  ASSUME TypeOK, AnnouncedIsBegun, NEW c \in Correlators, NEW n, cStatus[c] = "CORRELATING",
         Round(c, n, "CORRELATING"), UNCHANGED oVars
  PROVE  (\A d \in Correlators : Given(d)' = Given(d)) /\ AnnouncedIsBegun'
<1> DEFINE done == Finished(fft[c] + n)
<1>1. /\ stream' = IF done THEN [stream EXCEPT ![c] = Append(@, slice[c])] ELSE stream
      /\ UNCHANGED parameters
  BY DEF Round
<1>2. /\ stream \in [Correlators -> Seq(Nat)] /\ cStatus \in [Correlators -> CStatus]
      /\ slice \in [Correlators -> Nat] /\ queue \in [Correlators -> Seq(Nat)]
      /\ priority \in [Correlators -> Seq(Nat)]
  BY DEF TypeOK, MailboxesTypeOK, CorrelatorTypeOK, Slices
<1>3. Announced(c) = Begun(c) /\ Begun(c) = Then(stream[c], One(slice[c]))
  BY DEF AnnouncedIsBegun, Begun, Busy
<1>4. CASE done /\ queue[c] # <<>> /\ SetParameters(c, queue[c])
  <2>1. stream'[c] = Begun(c)
    BY <1>1, <1>2, <1>3, <1>4, AppendIsThen
  <2>2. Given(c)' = Given(c) /\ Announced(c)' = Begun(c)'
    BY <1>1, <1>2, <1>3, <1>4, <2>1, PlaceTypes, StartsSlice
  <2>3. \A d \in Correlators \ {c} :
          UNCHANGED <<stream[d], cStatus[d], slice[d], queue[d], parameters[d], priority[d]>>
    BY <1>1, <1>2, <1>4 DEF SetParameters
  <2> QED BY <2>2, <2>3, OthersPlaces
<1>5. CASE /\ cStatus' = [cStatus EXCEPT ![c] = IF done THEN "STOPPED" ELSE "CORRELATING"]
           /\ UNCHANGED <<queue, slice, priority>>
  <2>1. Begun(c)' = Begun(c)
    <3>1. CASE done
      <4>1. stream'[c] = Then(stream[c], One(slice[c])) /\ cStatus'[c] = "STOPPED"
        BY <1>1, <1>2, <1>5, <3>1, AppendIsThen
      <4>2. Begun(c)' = Then(Begun(c), <<>>)
        BY <1>3, <4>1 DEF Begun, Busy
      <4> QED BY <4>2, PlaceTypes, ThenNothing
    <3>2. CASE ~done
      BY <1>1, <1>2, <1>5, <3>2 DEF Begun, Busy
    <3> QED BY <3>1, <3>2
  <2>2. Given(c)' = Given(c) /\ Announced(c)' = Announced(c)
    BY <1>1, <1>5, <2>1 DEF Given, Announced, Current, oVars
  <2>3. \A d \in Correlators \ {c} :
          UNCHANGED <<stream[d], cStatus[d], slice[d], queue[d], parameters[d], priority[d]>>
    BY <1>1, <1>2, <1>5
  <2> QED BY <1>3, <2>1, <2>2, <2>3, OthersPlaces
<1> QED BY <1>4, <1>5 DEF Round

LEMMA CorrelatorPlaces ==
  ASSUME TypeOK, AnnouncedIsBegun, NEW c \in Correlators, UNCHANGED oVars,
         ReceiveParameters(c) \/ Correlate(c) \/ EndStopped(c)
  PROVE  (\A d \in Correlators : Given(d)' = Given(d)) /\ AnnouncedIsBegun'
<1>1. /\ parameters \in [Correlators -> Seq(Nat)] /\ cStatus \in [Correlators -> CStatus]
      /\ slice \in [Correlators -> Nat] /\ queue \in [Correlators -> Seq(Nat)]
      /\ priority \in [Correlators -> Seq(Nat)]
  BY DEF TypeOK, MailboxesTypeOK, CorrelatorTypeOK, Slices
<1>2. Announced(c) = Begun(c)
  BY DEF AnnouncedIsBegun
<1>3. CASE ReceiveParameters(c)
  <2> DEFINE q == Append(queue[c], Head(parameters[c]))
  <2>1. /\ parameters[c] # <<>> /\ parameters' = [parameters EXCEPT ![c] = Tail(@)]
        /\ UNCHANGED stream
    BY <1>3 DEF ReceiveParameters
  <2>2. /\ q \in Seq(Nat) /\ parameters'[c] = Tail(parameters[c]) /\ parameters'[c] \in Seq(Nat)
        /\ Then(q, parameters'[c]) = Then(queue[c], parameters[c])
        /\ q # <<>>
    <3>1. queue[c] \in Seq(Nat) /\ parameters[c] \in Seq(Nat) /\ Head(parameters[c]) \in Nat
      BY <1>1, <2>1, HeadTailProperties
    <3>2. /\ q \in Seq(Nat) /\ Tail(parameters[c]) \in Seq(Nat)
          /\ Then(q, Tail(parameters[c])) = Then(queue[c], parameters[c])
      BY <2>1, <3>1, MoveHead
    <3>3. q # <<>>
      BY <3>1, AppendProperties, ZenonT(60)
    <3>4. parameters'[c] = Tail(parameters[c])
      BY <1>1, <2>1
    <3> QED BY <3>2, <3>3, <3>4
  <2>3. CASE cStatus[c] = "STOPPED" /\ SetParameters(c, q)
    <3>2. stream'[c] = Begun(c)
      <4>1. Begun(c) = Then(stream[c], <<>>)
        BY <2>3 DEF Begun, Busy
      <4> QED BY <2>1, <4>1, PlaceTypes, ThenNothing
    <3>3. \A d \in Correlators \ {c} :
            UNCHANGED <<stream[d], cStatus[d], slice[d], queue[d], parameters[d], priority[d]>>
      BY <1>1, <2>1, <2>3 DEF SetParameters
    <3> HIDE DEF q
    <3>4. Given(c)' = Given(c) /\ Announced(c)' = Begun(c)'
      BY <1>2, <2>2, <2>3, <3>2, StartsSlice
    <3> QED BY <3>3, <3>4, OthersPlaces
  <2>4. CASE queue' = [queue EXCEPT ![c] = q] /\ UNCHANGED <<cStatus, slice, priority>>
    <3>1. Then(queue'[c], parameters'[c]) = Then(queue[c], parameters[c])
      BY <1>1, <2>2, <2>4
    <3>2. Given(c)' = Given(c) /\ Announced(c)' = Begun(c)'
      BY <1>2, <2>1, <2>4, <3>1 DEF Given, Announced, Begun, Busy, Current, oVars
    <3>3. \A d \in Correlators \ {c} :
            UNCHANGED <<stream[d], cStatus[d], slice[d], queue[d], parameters[d], priority[d]>>
      BY <1>1, <2>1, <2>4
    <3> QED BY <3>2, <3>3, OthersPlaces
  <2> QED BY <1>3, <2>3, <2>4 DEF ReceiveParameters
<1>4. CASE Correlate(c)
  BY <1>4, RoundPlaces DEF Correlate
<1>5. CASE EndStopped(c)
  <2>1. /\ UNCHANGED <<stream, slice, queue, parameters, priority>> /\ cStatus[c] = "STOPPED"
        /\ cStatus' = [cStatus EXCEPT ![c] = "END_CORRELATING"]
    BY <1>5 DEF EndStopped
  <2>2. Begun(c)' = Begun(c)
    BY <1>1, <2>1 DEF Begun, Busy
  <2>3. Given(c)' = Given(c) /\ Announced(c)' = Begun(c)'
    BY <1>2, <2>1, <2>2 DEF Given, Announced, Current, oVars
  <2>4. \A d \in Correlators \ {c} :
          UNCHANGED <<stream[d], cStatus[d], slice[d], queue[d], parameters[d], priority[d]>>
    BY <1>1, <2>1
  <2> QED BY <2>3, <2>4, OthersPlaces
<1> QED BY <1>3, <1>4, <1>5

-----------------------------------------------------------------------------
\* Nothing is lost or repeated in a step that leaves all slices where they are.
LEMMA KeptIfSame ==
  ASSUME SlicesKept, \A c \in Correlators : Given(c)' = Given(c),
         Len(file)' = Len(file), outputSlice' = outputSlice
  PROVE  SlicesKept'
<1>1. GivenTo' = GivenTo
  BY DEF GivenTo
<1> QED BY <1>1 DEF SlicesKept

\* What is announced to the output node is the first part of what is given.
LEMMA GivenIsAnnounced ==
  ASSUME AnnouncedIsBegun, NEW c \in Correlators
  PROVE  Given(c) = Then(Then(Current(c), Then(sizes[c], priority[c])),
                         Then(queue[c], parameters[c]))
BY DEF AnnouncedIsBegun, Given, Announced

\* What the sizes of the streams and the messages about priorities say of slices
\* that are shared out: none of them is below the lowest, they increase, and a
\* message about one more tells of a slice the output node has not been told of.
SizesInOrder(lo, hi) ==
  /\ \A c \in Correlators : \A i \in 1 .. Len(sizes[c]) : lo <= sizes[c][i] /\ sizes[c][i] < hi
  /\ \A c \in Correlators : \A i, j \in 1 .. Len(sizes[c]) : i < j => sizes[c][i] < sizes[c][j]
  /\ \A c, d \in Correlators : \A i \in 1 .. Len(sizes[c]), j \in 1 .. Len(sizes[d]) :
       sizes[c][i] = sizes[d][j] => c = d
  /\ \A c \in Correlators : priority[c] # <<>> =>
       /\ lo <= Head(priority[c])
       /\ \A d \in Correlators : \A i \in 1 .. Len(sizes[d]) : sizes[d][i] # Head(priority[c])

LEMMA SizesOfShares ==
  ASSUME TypeOK, NEW G \in [Correlators -> Seq(Nat)], NEW lo \in Nat, NEW hi \in Nat,
         SharedOut(G, lo, hi),
         \A c \in Correlators : \E k \in Nat : At(sizes[c], priority[c], G[c], k)
  PROVE  SizesInOrder(lo, hi)
<1>1. \A c \in Correlators : \E k \in Nat : At(sizes[c], priority[c], G[c], k)
  OBVIOUS
<1>2. \A c \in Correlators : \A i \in 1 .. Len(sizes[c]) :
        \E x \in 1 .. Len(G[c]) : G[c][x] = sizes[c][i]
  BY <1>1 DEF At
<1>3. \A c \in Correlators : priority[c] # <<>> =>
        \E x \in 1 .. Len(G[c]) : G[c][x] = Head(priority[c])
  BY <1>1 DEF At
<1>4. \A c \in Correlators : Len(sizes[c]) \in Nat
  BY PlaceTypes, LenProperties
<1>5. /\ InRange(G, lo, hi) /\ Increasing(G) /\ Disjoint(G)
  BY DEF SharedOut
<1>6. ASSUME NEW c \in Correlators, NEW i \in 1 .. Len(sizes[c])
      PROVE  lo <= sizes[c][i] /\ sizes[c][i] < hi
  BY <1>2, <1>5 DEF InRange
<1>7. ASSUME NEW c \in Correlators, NEW i \in 1 .. Len(sizes[c]), NEW j \in 1 .. Len(sizes[c]), i < j
      PROVE  sizes[c][i] < sizes[c][j]
  <2>1. PICK k \in Nat : At(sizes[c], priority[c], G[c], k)
    BY <1>1
  <2>2. k + i < k + j
    BY <1>4, <1>7
  <2> QED BY <1>5, <2>1, <2>2 DEF Increasing, At
<1>8. ASSUME NEW c \in Correlators, NEW d \in Correlators,
             NEW i \in 1 .. Len(sizes[c]), NEW j \in 1 .. Len(sizes[d]), sizes[c][i] = sizes[d][j]
      PROVE  c = d
  <2>1. PICK x \in 1 .. Len(G[c]) : G[c][x] = sizes[c][i]
    BY <1>2
  <2>2. PICK y \in 1 .. Len(G[d]) : G[d][y] = sizes[d][j]
    BY <1>2
  <2> QED BY <1>5, <1>8, <2>1, <2>2 DEF Disjoint
<1>9. ASSUME NEW c \in Correlators, priority[c] # <<>>
      PROVE  /\ lo <= Head(priority[c])
             /\ \A d \in Correlators : \A i \in 1 .. Len(sizes[d]) : sizes[d][i] # Head(priority[c])
  <2>1. PICK k \in Nat : At(sizes[c], priority[c], G[c], k)
    BY <1>1
  <2>2. lo <= Head(priority[c])
    BY <1>3, <1>5, <1>9 DEF InRange
  <2>3. ASSUME NEW d \in Correlators, NEW i \in 1 .. Len(sizes[d]), sizes[d][i] = Head(priority[c])
        PROVE  FALSE
    <3>1. CASE d = c
      <4>1. k + i \in 1 .. Len(G[c]) /\ G[c][k + i] = Head(priority[c])
        BY <2>1, <2>3, <3>1 DEF At
      <4>2. /\ k + (Len(sizes[c]) + 1) \in 1 .. Len(G[c])
            /\ G[c][k + (Len(sizes[c]) + 1)] = Head(priority[c])
        BY <1>9, <2>1 DEF At
      <4>3. k + i < k + (Len(sizes[c]) + 1)
        BY <1>4, <3>1
      <4>4. G[c][k + i] < G[c][k + (Len(sizes[c]) + 1)]
        BY <1>5, <4>1, <4>2, <4>3 DEF Increasing
      <4>5. Head(priority[c]) \in Nat
        BY <1>9, PlaceTypes, HeadTailProperties
      <4> QED BY <4>1, <4>2, <4>4, <4>5
    <3>2. CASE d # c
      BY <1>2, <1>3, <1>5, <1>9, <2>3, <3>2, SMTT(30) DEF Disjoint
    <3> QED BY <3>1, <3>2
  <2> QED BY <2>2, <2>3
<1> QED BY <1>6, <1>7, <1>8, <1>9 DEF SizesInOrder

\* The slices announced to the output node are not in the file.
LEMMA AnnouncedFacts ==
  ASSUME TypeOK, SlicesKept, AnnouncedIsBegun
  PROVE  SizesInOrder(Len(file), outputSlice)
<1>1. ASSUME NEW c \in Correlators
      PROVE  \E k \in Nat : At(sizes[c], priority[c], GivenTo[c], k)
  <2>1. /\ Current(c) \in Seq(Nat) /\ sizes[c] \in Seq(Nat) /\ priority[c] \in Seq(Nat)
        /\ Then(queue[c], parameters[c]) \in Seq(Nat) /\ GivenTo[c] \in Seq(Nat)
        /\ GivenTo[c] = Then(Then(Current(c), Then(sizes[c], priority[c])),
                             Then(queue[c], parameters[c]))
    BY PlaceTypes, GivenToType, GivenIsAnnounced
  <2> QED BY <2>1, Positions
<1>2. Len(file) \in Nat /\ outputSlice \in Nat
  BY LenProperties DEF TypeOK, OutputTypeOK, ManagerTypeOK, Slices
<1> QED BY <1>1, <1>2, GivenToType, SizesOfShares DEF SlicesKept

-----------------------------------------------------------------------------
\* The end of the job finds no slice on its way.
LEMMA AllWritten ==
  ASSUME TypeOK, SlicesKept, Writing, Ending, oStatus \in {"END_NODE", "GONE"}
  PROVE  /\ Closed /\ currSlice = outputSlice /\ Len(file) = outputSlice
         /\ \A c \in Correlators : Given(c) = <<>>
<1>1. currSlice = numberOfSlices /\ Len(file) = currSlice /\ currSlice \in Nat
  BY DEF Ending, Writing, TypeOK, OutputTypeOK
<1>2. Closed /\ numberOfSlices = outputSlice
  <2>1. numberOfSlices # -1
    BY <1>1
  <2> QED BY <2>1 DEF Ending
<1>3. ASSUME NEW c \in Correlators PROVE Given(c) = <<>>
  <2>1. Given(c) \in Seq(Nat) /\ GivenTo[c] = Given(c)
    BY PlaceTypes, GivenToType
  <2>2. SUFFICES ASSUME Given(c) # <<>> PROVE FALSE
    OBVIOUS
  <2>3. 1 \in 1 .. Len(Given(c)) /\ Given(c)[1] \in Nat
    BY <2>1, <2>2, EmptySeq, ElementOfSeq
  <2>4. outputSlice <= Given(c)[1] /\ Given(c)[1] < outputSlice
    BY <1>1, <1>2, <2>1, <2>3 DEF SlicesKept, SharedOut, InRange
  <2> QED BY <1>1, <1>2, <2>3, <2>4
<1> QED BY <1>1, <1>2, <1>3

\* END_NODE finds the correlator nodes idle.
LEMMA IdleAtEnd ==
  ASSUME TypeOK, OrderInv, mStatus = "GONE", NEW c \in Correlators
  PROVE  queue[c] = <<>> /\ parameters[c] = <<>> /\ cStatus[c] # "CORRELATING"
<1>1. oStatus = "GONE"
  BY DEF OrderInv, Ending
<1> QED BY <1>1, AllWritten, NothingGiven DEF OrderInv

-----------------------------------------------------------------------------
\* The steps of the manager.
LEMMA ManagerOrder ==
  ASSUME ManagerAssumption, IInv, OrderInv, ManagerNext, UNCHANGED <<cVars, oVars>>
  PROVE  OrderInv'
<1> USE DEF OrderInv
<1>1. /\ TypeOK /\ outputSlice \in Nat /\ failed \subseteq Assertions /\ finished \in Nat
      /\ mStatus \in MStatus
  BY DEF IInv, TypeOK, ManagerTypeOK, MailboxesTypeOK
<1>2. /\ UNCHANGED <<cStatus, queue, slice>>
      /\ UNCHANGED <<oStatus, order, sizes, currSlice, currStream, numberOfSlices, file>>
  BY DEF cVars, oVars
<1>3. UNCHANGED <<priority, stream>>
  BY DEF ManagerNext, ManagerLoop, ReceiveEnded, ReceiveFinished, StartNewScan,
     StartCorrelationTimeSlice, StartCorrelatorNode, GotoNextTimeslice, StopCorrelating,
     TerminateNodes, mailboxes
<1>4. /\ \A c \in Correlators : Announced(c)' = Announced(c) /\ Begun(c)' = Begun(c)
      /\ AnnouncedIsBegun' /\ OrderIsSizes' /\ Writing'
  <2>1. \A c \in Correlators : Announced(c)' = Announced(c) /\ Begun(c)' = Begun(c)
    BY <1>2, <1>3 DEF Announced, Begun, Current, Busy
  <2>2. AnnouncedIsBegun'
    BY <2>1 DEF AnnouncedIsBegun
  <2>3. OrderIsSizes'
    BY <1>2 DEF OrderIsSizes
  <2>4. Writing'
    BY <1>2 DEF Writing
  <2> QED BY <2>1, <2>2, <2>3, <2>4
<1>5. UNCHANGED <<parameters, outputSlice>> => SlicesKept'
  <2> SUFFICES ASSUME UNCHANGED <<parameters, outputSlice>> PROVE SlicesKept'
    OBVIOUS
  <2>1. \A c \in Correlators : Given(c)' = Given(c)
    BY <1>2, <1>4 DEF Given
  <2> QED BY <1>2, <2>1, KeptIfSame
<1>6. CASE \E c \in Correlators : ReceiveEnded(c)
  <2>1. /\ UNCHANGED <<mStatus, outputSlice, parameters, endNode, endOutput, ready, finished, failed>>
    BY <1>6 DEF ReceiveEnded
  <2>2. Ending' /\ ProtocolHolds'
    BY <1>2, <2>1 DEF Ending, Closed, ProtocolHolds
  <2> QED BY <1>4, <1>5, <2>1, <2>2
<1>7. CASE ReceiveFinished
  <2>1. /\ UNCHANGED <<outputSlice, parameters, endNode, endOutput, ready>>
        /\ finished > 0 /\ finished' = finished - 1
        /\ mStatus' = "END_NODE" /\ mStatus \notin {"END_NODE", "GONE"}
        /\ SfxcAssert("end_correlation", mStatus = "WAIT_FOR_OUTPUT_NODE")
    BY <1>7 DEF ReceiveFinished
  <2>2. finished = 1 /\ oStatus = "GONE" /\ mStatus = "WAIT_FOR_OUTPUT_NODE"
    BY <2>1 DEF Ending
  <2>3. failed' = failed
    BY <2>1, <2>2 DEF SfxcAssert
  <2>4. Ending' /\ ProtocolHolds'
    BY <1>2, <2>1, <2>2, <2>3 DEF Ending, Closed, ProtocolHolds
  <2> QED BY <1>4, <1>5, <2>1, <2>4
<1>8. CASE StartNewScan
  <2>1. /\ UNCHANGED <<outputSlice, parameters, endNode, endOutput, ready, finished>>
        /\ mStatus = "START_NEW_SCAN"
        /\ mStatus' \in {"STOP_CORRELATING", "START_CORRELATION_TIME_SLICE"}
        /\ failed' \subseteq failed \cup {"input_node_set_time"}
    BY <1>8 DEF StartNewScan, SfxcAssert
  <2>2. Ending'
    BY <1>2, <2>1 DEF Ending, Closed
  <2>3. ProtocolHolds'
    BY <2>1 DEF ProtocolHolds, ProtocolAssertions
  <2> QED BY <1>4, <1>5, <2>1, <2>2, <2>3
<1>9. CASE StartCorrelationTimeSlice \/ GotoNextTimeslice
  <2>1. /\ UNCHANGED <<outputSlice, parameters, endNode, endOutput, ready, finished, failed>>
        /\ ~Closed /\ ~Closed'
        /\ mStatus \notin {"END_NODE", "GONE"} /\ mStatus' \notin {"END_NODE", "GONE"}
        /\ mStatus # "WAIT_FOR_OUTPUT_NODE"
    BY <1>9 DEF StartCorrelationTimeSlice, GotoNextTimeslice, mailboxes, Closed
  <2>2. Ending' /\ ProtocolHolds'
    BY <1>2, <2>1 DEF Ending, Closed, ProtocolHolds
  <2> QED BY <1>4, <1>5, <2>1, <2>2
<1>10. CASE StartCorrelatorNode
  <2>1. PICK c \in Correlators : c = Head(readyNodes)
    <3>1. readyNodes \in Seq(Correlators) /\ readyNodes # <<>>
      BY <1>1, <1>10 DEF StartCorrelatorNode, TypeOK, ManagerTypeOK
    <3> QED BY <3>1, HeadTailProperties
  <2>2. /\ parameters' = [parameters EXCEPT ![c] = Append(@, outputSlice)]
        /\ outputSlice' = outputSlice + 1
        /\ UNCHANGED <<endNode, endOutput, ready, finished>>
        /\ mStatus = "START_CORRELATOR_NODES_FOR_TIME_SLICE"
        /\ mStatus' \in {"START_CORRELATOR_NODES_FOR_TIME_SLICE", "GOTO_NEXT_TIMESLICE"}
        /\ failed' \subseteq failed \cup {"start_next_timeslice_on_node"}
    BY <1>10, <2>1 DEF StartCorrelatorNode, SfxcAssert
  <2>3. Ending'
    BY <1>2, <2>2 DEF Ending, Closed
  <2>4. ProtocolHolds'
    BY <2>2 DEF ProtocolHolds, ProtocolAssertions
  <2>5. Given(c)' = Append(Given(c), outputSlice)
    <3>1. parameters'[c] = Append(parameters[c], outputSlice)
      BY <1>1, <2>2 DEF TypeOK, MailboxesTypeOK
    <3>2. Given(c)' = Then(Begun(c), Then(queue[c], Append(parameters[c], outputSlice)))
      BY <1>2, <1>4, <3>1 DEF Given
    <3>3. /\ Begun(c) \in Seq(Nat) /\ queue[c] \in Seq(Nat) /\ parameters[c] \in Seq(Nat)
          /\ Given(c) \in Seq(Nat)
      BY <1>1, PlaceTypes
    <3>4. Given(c)' = Then(Given(c), One(outputSlice))
      BY <1>1, <3>2, <3>3, AnnouncedSlice DEF Given
    <3> QED BY <1>1, <3>3, <3>4, AppendIsThen
  <2>6. \A d \in Correlators : d # c => Given(d)' = Given(d)
    BY <1>1, <1>2, <1>4, <2>2 DEF Given, TypeOK, MailboxesTypeOK
  <2>7. GivenTo' = [GivenTo EXCEPT ![c] = Append(@, outputSlice)]
    BY <2>5, <2>6 DEF GivenTo
  <2>8. SlicesKept'
    <3>1. GivenTo \in [Correlators -> Seq(Nat)] /\ Len(file) \in Nat
      BY <1>1, GivenToType, LenProperties DEF TypeOK, OutputTypeOK
    <3>2. SharedOut(GivenTo', Len(file), outputSlice + 1)
      BY <1>1, <2>7, <3>1, IssueSharesOut DEF SlicesKept
    <3> QED BY <1>2, <2>2, <3>2 DEF SlicesKept
  <2> QED BY <1>4, <2>3, <2>4, <2>8
<1>11. CASE StopCorrelating
  <2>1. /\ UNCHANGED <<outputSlice, parameters, endNode, endOutput, finished, failed>>
        /\ mStatus = "STOP_CORRELATING" /\ mStatus' = "WAIT_FOR_OUTPUT_NODE"
        /\ ready' = Append(ready, outputSlice)
    BY <1>11 DEF StopCorrelating
  <2>2. ready = <<>> /\ numberOfSlices = -1
    BY <2>1 DEF Ending, Closed
  <2>3. ready' = <<outputSlice>>
    BY <2>1, <2>2
  <2>4. Ending' /\ ProtocolHolds'
    BY <1>2, <2>1, <2>2, <2>3 DEF Ending, Closed, ProtocolHolds
  <2> QED BY <1>4, <1>5, <2>1, <2>4
<1>12. CASE TerminateNodes
  <2>1. /\ UNCHANGED <<outputSlice, parameters, ready, finished, failed>>
        /\ mStatus = "END_NODE" /\ mStatus' = "GONE"
    BY <1>12 DEF TerminateNodes
  <2>2. /\ oStatus = "GONE" /\ finished = 0
        /\ \A c \in Correlators : cStatus[c] # "END_CORRELATING"
    BY <1>1, <2>1 DEF Ending
  <2>3. Ending' /\ ProtocolHolds'
    BY <1>2, <2>1, <2>2 DEF Ending, Closed, ProtocolHolds
  <2> QED BY <1>4, <1>5, <2>1, <2>3
<1> QED BY <1>6, <1>7, <1>8, <1>9, <1>10, <1>11, <1>12 DEF ManagerNext, ManagerLoop

-----------------------------------------------------------------------------
\* The steps of a correlator node.
LEMMA CorrelatorOrder ==
  ASSUME IInv, OrderInv, NEW c \in Correlators, CorrelatorNext(c), UNCHANGED <<mVars, oVars>>
  PROVE  OrderInv'
<1> USE DEF OrderInv
<1>1. /\ TypeOK /\ cStatus \in [Correlators -> CStatus] /\ endNode \in [Correlators -> BOOLEAN]
  BY DEF IInv, TypeOK, CorrelatorTypeOK, MailboxesTypeOK
<1>2. /\ UNCHANGED <<mStatus, outputSlice>>
      /\ UNCHANGED <<oStatus, order, sizes, currSlice, currStream, numberOfSlices, file>>
  BY DEF mVars, oVars
<1>3. ~EndCorrelating(c)
  <2> SUFFICES ASSUME EndCorrelating(c) PROVE FALSE
    OBVIOUS
  <2>1. endNode[c] /\ cStatus[c] = "CORRELATING"
    BY DEF EndCorrelating, TakeEndNode
  <2>2. mStatus = "GONE"
    BY <2>1 DEF Ending
  <2> QED BY <1>1, <2>1, <2>2, IdleAtEnd
<1>4. (\A d \in Correlators : Given(d)' = Given(d)) /\ AnnouncedIsBegun'
  BY <1>1, <1>3, CorrelatorPlaces DEF CorrelatorNext
<1>5. SlicesKept'
  BY <1>2, <1>4, KeptIfSame
<1>6. OrderIsSizes' /\ Writing'
  BY <1>2 DEF OrderIsSizes, Writing
<1>7. UNCHANGED <<ready, finished, endOutput, failed>>
  BY <1>3 DEF CorrelatorNext, ReceiveParameters, Correlate, EndStopped, Round
<1>8. /\ \A d \in Correlators : endNode'[d] => endNode[d]
      /\ \A d \in Correlators : d # c => cStatus'[d] = cStatus[d]
      /\ cStatus'[c] = "END_CORRELATING" => endNode[c] /\ ~endNode'[c]
  <2>1. CASE ReceiveParameters(c)
    BY <1>1, <2>1 DEF ReceiveParameters, SetParameters
  <2>2. CASE Correlate(c)
    <3>1. PICK n \in 0 .. NumberFfts - fft[c] : Round(c, n, "CORRELATING")
      BY <2>2 DEF Correlate
    <3>2. endNode' = endNode
      BY <2>2 DEF Correlate
    <3> QED BY <1>1, <3>1, <3>2 DEF Round, SetParameters
  <2>3. CASE EndStopped(c)
    BY <1>1, <2>3 DEF EndStopped, TakeEndNode
  <2> QED BY <1>3, <2>1, <2>2, <2>3 DEF CorrelatorNext
<1>9. Ending'
  BY <1>2, <1>7, <1>8 DEF Ending, Closed
<1>10. ProtocolHolds'
  BY <1>7 DEF ProtocolHolds
<1> QED BY <1>4, <1>5, <1>6, <1>9, <1>10

-----------------------------------------------------------------------------
\* The steps of the output node: in a state of the job that has the invariant,
\* what it shares with the others, and what the others keep.
LEMMA OutputFrame ==
  ASSUME IInv, OrderInv, OutputNext, UNCHANGED <<mVars, cVars>>
  PROVE  /\ TypeOK /\ failed \subseteq Assertions /\ finished \in Nat /\ currSlice \in Nat
         /\ outputSlice \in Nat /\ file \in Seq(Nat) /\ Len(file) \in Nat /\ order \subseteq Nat \X Correlators
         /\ sizes \in [Correlators -> Seq(Nat)] /\ stream \in [Correlators -> Seq(Nat)]
         /\ priority \in [Correlators -> Seq(Nat)]
         /\ UNCHANGED <<mStatus, outputSlice, cStatus, slice, queue, parameters, endNode>>
<1>1. TypeOK
  BY DEF IInv
<1>2. /\ failed \subseteq Assertions /\ finished \in Nat /\ currSlice \in Nat
      /\ outputSlice \in Nat /\ file \in Seq(Nat) /\ order \subseteq Nat \X Correlators
      /\ sizes \in [Correlators -> Seq(Nat)] /\ stream \in [Correlators -> Seq(Nat)]
      /\ priority \in [Correlators -> Seq(Nat)]
  BY <1>1 DEF TypeOK, MailboxesTypeOK, OutputTypeOK, ManagerTypeOK, Slices
<1>3. UNCHANGED <<mStatus, outputSlice, cStatus, slice, queue>>
  BY DEF mVars, cVars
<1>4. UNCHANGED <<parameters, endNode>>
  BY DEF OutputNext, OutputLoop, ReceivePriority, ReceiveReady, ReceiveEndOutput, StartNewSlice,
     WriteOutput, EndWriting, EndSlice, ShutDown, mailboxes
<1> QED BY <1>1, <1>2, <1>3, <1>4, LenProperties

\* A step of the output node that reads no stream and starts no slice.
LEMMA SamePlaces ==
  ASSUME SlicesKept, AnnouncedIsBegun,
         UNCHANGED <<outputSlice, file, stream, cStatus, slice, queue, parameters>>,
         \A c \in Correlators : Announced(c)' = Announced(c)
  PROVE  SlicesKept' /\ AnnouncedIsBegun'
<1>1. \A c \in Correlators : Begun(c)' = Begun(c)
  BY DEF Begun, Busy
<1>2. \A c \in Correlators : Given(c)' = Given(c)
  BY <1>1 DEF Given
<1>3. SlicesKept'
  BY <1>2, KeptIfSame
<1> QED BY <1>1, <1>3 DEF AnnouncedIsBegun

\* A message about a priority adds its slice to the order and to the sizes.
LEMMA ToldInOrder ==
  ASSUME TypeOK, OrderIsSizes, NEW c \in Correlators, ReceivePriority(c),
         \A p \in order : p[1] # Head(priority[c])
  PROVE  /\ order' = order \cup {<<Head(priority[c]), c>>}
         /\ \A d \in Correlators : Then(sizes'[d], priority'[d]) = Then(sizes[d], priority[d])
         /\ OrderIsSizes'
<1>1. /\ sizes \in [Correlators -> Seq(Nat)] /\ priority \in [Correlators -> Seq(Nat)]
      /\ priority[c] # <<>> /\ sizes[c] \in Seq(Nat) /\ priority[c] \in Seq(Nat)
  BY DEF TypeOK, OutputTypeOK, MailboxesTypeOK, Slices, ReceivePriority
<1>2. PICK s \in Nat : s = Head(priority[c])
  BY <1>1, HeadTailProperties
<1>3. /\ order' = order \cup {<<s, c>>}
      /\ sizes' = [sizes EXCEPT ![c] = Append(@, s)]
      /\ priority' = [priority EXCEPT ![c] = Tail(@)]
  BY <1>2 DEF ReceivePriority
<1>4. ASSUME NEW d \in Correlators
      PROVE  Then(sizes'[d], priority'[d]) = Then(sizes[d], priority[d])
  <2>1. CASE d = c
    <3>1. Then(Append(sizes[c], Head(priority[c])), Tail(priority[c])) = Then(sizes[c], priority[c])
      BY <1>1, MoveHead
    <3>2. sizes'[c] = Append(sizes[c], Head(priority[c])) /\ priority'[c] = Tail(priority[c])
      BY <1>1, <1>2, <1>3
    <3> QED BY <2>1, <3>1, <3>2
  <2>2. CASE d # c
    <3>1. sizes'[d] = sizes[d] /\ priority'[d] = priority[d]
      BY <1>1, <1>3, <2>2
    <3> QED BY <3>1
  <2> QED BY <2>1, <2>2
<1>5. OrderIsSizes'
  <2> SUFFICES ASSUME NEW n \in Nat, NEW d \in Correlators
               PROVE  <<n, d>> \in order' <=> \E i \in 1 .. Len(sizes'[d]) : sizes'[d][i] = n
    BY DEF OrderIsSizes
  <2>1. <<n, d>> \in order <=> \E i \in 1 .. Len(sizes[d]) : sizes[d][i] = n
    BY DEF OrderIsSizes
  <2>2. <<n, d>> \in order' <=> <<n, d>> \in order \/ (n = s /\ d = c)
    BY <1>3
  <2>3. CASE d = c
    <3>1. PICK q \in Seq(Nat) : q = sizes[c]
      BY <1>1
    <3>2. PICK r \in Seq(Nat) : r = Append(q, s)
      BY AppendProperties
    <3>3. sizes'[c] = r
      BY <1>1, <1>3, <3>1, <3>2
    <3>4. /\ Len(q) \in Nat /\ Len(r) = Len(q) + 1 /\ r[Len(q) + 1] = s
          /\ \A i \in 1 .. Len(q) : r[i] = q[i]
      BY <3>2, AppendProperties, LenProperties
    <3>5. \A i \in 1 .. Len(r) : i \in 1 .. Len(q) \/ i = Len(q) + 1
      BY <3>4
    <3>6. Len(q) + 1 \in 1 .. Len(r) /\ \A i \in 1 .. Len(q) : i \in 1 .. Len(r)
      BY <3>4
    <3>7. (\E i \in 1 .. Len(r) : r[i] = n) <=> (\E i \in 1 .. Len(q) : q[i] = n) \/ n = s
      BY <3>4, <3>5, <3>6
    <3> QED BY <2>1, <2>2, <2>3, <3>1, <3>3, <3>7
  <2>4. CASE d # c
    <3>1. sizes'[d] = sizes[d]
      BY <1>1, <1>3, <2>4
    <3> QED BY <2>1, <2>2, <2>4, <3>1
  <2> QED BY <2>3, <2>4
<1> QED BY <1>2, <1>3, <1>4, <1>5

\* OUTPUT_STREAM_SLICE_SET_PRIORITY
LEMMA PriorityOrder ==
  ASSUME IInv, OrderInv, NEW c \in Correlators, ReceivePriority(c), UNCHANGED <<mVars, cVars>>
  PROVE  OrderInv'
<1> USE DEF OrderInv
<1>1. OutputNext
  BY DEF OutputNext
<1>2. PICK s \in Nat : s = Head(priority[c])
  BY <1>1, OutputFrame, HeadTailProperties DEF ReceivePriority
<1>3. /\ priority[c] # <<>> /\ priority' = [priority EXCEPT ![c] = Tail(@)]
      /\ oStatus \in {"STOPPED", "WRITE_OUTPUT", "END_WRITING"}
      /\ UNCHANGED <<currSlice, currStream, numberOfSlices, file>>
      /\ UNCHANGED <<ended, parameters, endNode, endOutput, ready, finished, stream>>
      /\ oStatus' = AfterMessage(oStatus, order', numberOfSlices)
      /\ sizes' = [sizes EXCEPT ![c] = Append(@, s)]
      /\ order' = IF \A p \in order : p[1] # s THEN order \cup {<<s, c>>} ELSE order
      /\ SfxcAssert("set_weight_of_input_stream",
                    /\ \A p \in order : p[1] # s
                    /\ order # {} => s >= currSlice
                    /\ oStatus # "END_WRITING")
  BY <1>2 DEF ReceivePriority, Listening
<1>4. /\ Len(file) <= s
      /\ \A d \in Correlators : \A i \in 1 .. Len(sizes[d]) : sizes[d][i] # s
  BY <1>1, <1>2, <1>3, OutputFrame, AnnouncedFacts DEF SizesInOrder
<1>5. Len(file) = currSlice
  BY <1>3 DEF Writing
<1>6. \A p \in order : p[1] # s
  <2> SUFFICES ASSUME NEW p \in order, p[1] = s PROVE FALSE
    OBVIOUS
  <2>1. p[1] \in Nat /\ p[2] \in Correlators /\ p = <<p[1], p[2]>>
    BY <1>1, OutputFrame
  <2>2. \E i \in 1 .. Len(sizes[p[2]]) : sizes[p[2]][i] = s
    BY <2>1 DEF OrderIsSizes
  <2> QED BY <1>4, <2>1, <2>2
<1>7. failed' = failed /\ order' = order \cup {<<s, c>>}
  <2>1. oStatus # "END_WRITING"
    BY DEF Writing
  <2>2. s >= currSlice
    BY <1>1, <1>4, <1>5, OutputFrame
  <2> QED BY <1>3, <1>6, <2>1, <2>2 DEF SfxcAssert
<1>8. oStatus' \in {oStatus, "END_NODE", "START_NEW_SLICE"}
      /\ (oStatus' # oStatus => oStatus = "STOPPED")
      /\ (oStatus' = "END_NODE" => currSlice = numberOfSlices)
      /\ (oStatus' = "START_NEW_SLICE" => FirstIs(order', currSlice))
  BY <1>3 DEF AfterMessage
<1>9. \A d \in Correlators : Announced(d)' = Announced(d)
  <2>1. \A d \in Correlators : Current(d)' = Current(d)
    BY <1>3, <1>8 DEF Current
  <2> QED BY <1>1, <1>2, <1>6, <2>1, OutputFrame, ToldInOrder DEF Announced
<1>10. SlicesKept' /\ AnnouncedIsBegun'
  BY <1>1, <1>3, <1>9, OutputFrame, SamePlaces
<1>11. OrderIsSizes'
  BY <1>1, <1>2, <1>6, OutputFrame, ToldInOrder
<1>12. Writing'
  BY <1>3, <1>8 DEF Writing
<1>13. Ending'
  <2>1. UNCHANGED <<mStatus, outputSlice, cStatus, endNode>>
    BY <1>1, OutputFrame
  <2> QED BY <1>3, <1>8, <2>1 DEF Ending, Closed
<1>14. ProtocolHolds'
  BY <1>7 DEF ProtocolHolds
<1> QED BY <1>10, <1>11, <1>12, <1>13, <1>14

\* OUTPUT_NODE_CORRELATION_READY
LEMMA ReadyOrder ==
  ASSUME IInv, OrderInv, ReceiveReady, UNCHANGED <<mVars, cVars>>
  PROVE  OrderInv'
<1> USE DEF OrderInv
<1>1. OutputNext
  BY DEF OutputNext
<1>2. /\ ready # <<>> /\ ready' = Tail(ready) /\ numberOfSlices' = Head(ready)
      /\ oStatus \in {"STOPPED", "WRITE_OUTPUT", "END_WRITING"}
      /\ oStatus' = AfterMessage(oStatus, order, numberOfSlices')
      /\ UNCHANGED <<order, sizes, currSlice, currStream, file>>
      /\ UNCHANGED <<ended, parameters, endNode, endOutput, priority, finished, stream, failed>>
  BY DEF ReceiveReady, Listening
<1>3. Closed /\ ready = <<outputSlice>>
  BY <1>2 DEF Ending
<1>4. ready' = <<>> /\ numberOfSlices' = outputSlice
  BY <1>2, <1>3
<1>5. /\ oStatus' \in {oStatus, "END_NODE", "START_NEW_SLICE"}
      /\ oStatus' # oStatus => oStatus = "STOPPED"
      /\ oStatus' = "END_NODE" => currSlice = numberOfSlices'
      /\ oStatus' = "START_NEW_SLICE" => FirstIs(order, currSlice)
  BY <1>2 DEF AfterMessage
<1>6. UNCHANGED <<mStatus, outputSlice, cStatus, slice, queue, parameters, endNode>>
  BY <1>1, OutputFrame
<1>7. \A d \in Correlators : Announced(d)' = Announced(d)
  BY <1>2, <1>5 DEF Announced, Current
<1>8. SlicesKept' /\ AnnouncedIsBegun'
  BY <1>2, <1>6, <1>7, SamePlaces
<1>9. OrderIsSizes' /\ Writing'
  BY <1>2, <1>5 DEF OrderIsSizes, Writing
<1>10. Ending' /\ ProtocolHolds'
  BY <1>2, <1>3, <1>4, <1>5, <1>6 DEF Ending, Closed, ProtocolHolds
<1> QED BY <1>8, <1>9, <1>10

\* A slice is read from its stream and appended to the file.
LEMMA WriteOrder ==
  ASSUME IInv, OrderInv, WriteOutput, UNCHANGED <<mVars, cVars>>
  PROVE  OrderInv' /\ file' = Append(file, Len(file)) /\ Len(file) < outputSlice
<1> USE DEF OrderInv
<1>1. OutputNext
  BY DEF OutputNext, OutputLoop
<1>2. /\ oStatus = "WRITE_OUTPUT" /\ oStatus' = "END_SLICE" /\ ReadSlice
      /\ UNCHANGED <<order, sizes, currSlice, currStream, numberOfSlices>>
      /\ UNCHANGED <<ended, parameters, endNode, endOutput, priority, ready, finished, failed>>
  BY DEF WriteOutput
<1>3. PICK c \in Correlators : currStream = {c}
  BY <1>2 DEF Writing
<1>4. /\ stream[c] # <<>> /\ file' = Append(file, Head(stream[c]))
      /\ stream' = [stream EXCEPT ![c] = Tail(@)]
  BY <1>2, <1>3 DEF ReadSlice
<1>5. /\ UNCHANGED <<mStatus, outputSlice, cStatus, slice, queue, parameters, endNode>>
      /\ stream'[c] = Tail(stream[c]) /\ \A d \in Correlators : d # c => stream'[d] = stream[d]
      /\ currSlice \in Nat /\ outputSlice \in Nat /\ Len(file) \in Nat /\ file \in Seq(Nat)
      /\ Len(file) = currSlice /\ TypeOK
  BY <1>1, <1>2, <1>4, OutputFrame DEF Writing
<1>6. /\ Begun(c) # <<>> /\ Head(Begun(c)) = Head(stream[c]) /\ Begun(c)' = Tail(Begun(c))
  <2>1. stream[c] \in Seq(Nat) /\ Busy(c) \in Seq(Nat)
    BY <1>5, PlaceTypes
  <2>2. Busy(c)' = Busy(c)
    BY <1>5 DEF Busy
  <2>3. Begun(c)' = Then(Tail(stream[c]), Busy(c))
    BY <1>5, <2>2 DEF Begun
  <2> QED BY <1>4, <2>1, <2>3, HeadInFront DEF Begun
<1>7. Head(Begun(c)) = currSlice /\ Announced(c)' = Tail(Announced(c))
  <2>1. PICK r \in Seq(Nat) : r = Then(sizes[c], priority[c])
    BY <1>5, PlaceTypes
  <2>2. Announced(c) = Then(One(currSlice), r)
    BY <1>2, <1>3, <2>1 DEF Announced, Current
  <2>3. Head(Announced(c)) = currSlice /\ Tail(Announced(c)) = r
    BY <1>5, <2>2, HeadOfThen
  <2>4. Announced(c)' = Then(<<>>, r)
    BY <1>2, <2>1 DEF Announced, Current
  <2>5. Announced(c)' = r
    BY <2>4, ThenNothing
  <2> QED BY <2>3, <2>5 DEF AnnouncedIsBegun
<1>8. Given(c) # <<>> /\ Head(Given(c)) = currSlice /\ Given(c)' = Tail(Given(c))
  <2>1. PICK r \in Seq(Nat) : r = Then(queue[c], parameters[c])
    BY <1>5, PlaceTypes
  <2>2. Begun(c) \in Seq(Nat) /\ Given(c) = Then(Begun(c), r)
    BY <1>5, <2>1, PlaceTypes DEF Given
  <2>3. Given(c)' = Then(Tail(Begun(c)), r)
    BY <1>5, <1>6, <2>1 DEF Given
  <2> QED BY <1>6, <1>7, <2>2, <2>3, HeadInFront
<1>9. \A d \in Correlators : d # c =>
        Begun(d)' = Begun(d) /\ Announced(d)' = Announced(d) /\ Given(d)' = Given(d)
  BY <1>2, <1>3, <1>5 DEF Begun, Announced, Given, Busy, Current
<1>10. /\ file' = Append(file, Len(file)) /\ Len(file) < outputSlice /\ SlicesKept'
  <2>1. file' = Append(file, currSlice)
    BY <1>4, <1>6, <1>7
  <2>2. Len(file') = Len(file) + 1
    BY <1>5, <2>1, AppendProperties
  <2>3. GivenTo \in [Correlators -> Seq(Nat)] /\ GivenTo[c] = Given(c)
    BY <1>5, GivenToType
  <2>4. GivenTo' = [GivenTo EXCEPT ![c] = Tail(@)]
    BY <1>8, <1>9 DEF GivenTo
  <2>5. Len(file) < outputSlice /\ SharedOut(GivenTo', Len(file) + 1, outputSlice)
    BY <1>5, <1>8, <2>3, <2>4, WriteSharesOut DEF SlicesKept
  <2> QED BY <1>5, <2>1, <2>2, <2>5 DEF SlicesKept
<1>11. AnnouncedIsBegun'
  BY <1>6, <1>7, <1>9 DEF AnnouncedIsBegun
<1>12. Writing'
  <2>1. /\ Len(file') = currSlice + 1 /\ file'[Len(file) + 1] = currSlice
        /\ \A i \in 1 .. Len(file) : file'[i] = file[i]
    BY <1>5, <1>10, AppendProperties
  <2>2. \A i \in 1 .. Len(file') : file'[i] = i - 1
    BY <1>5, <2>1 DEF Writing
  <2> QED BY <1>2, <2>1, <2>2 DEF Writing
<1>13. OrderIsSizes' /\ Ending' /\ ProtocolHolds'
  BY <1>2, <1>5 DEF OrderIsSizes, Ending, Closed, ProtocolHolds
<1> QED BY <1>10, <1>11, <1>12, <1>13

\* case END_SLICE
LEMMA EndSliceOrder ==
  ASSUME IInv, OrderInv, EndSlice, UNCHANGED <<mVars, cVars>>
  PROVE  OrderInv'
<1> USE DEF OrderInv
<1>1. OutputNext
  BY DEF OutputNext, OutputLoop
<1>2. /\ oStatus = "END_SLICE" /\ currSlice' = currSlice + 1
      /\ oStatus' = IF currSlice' = numberOfSlices THEN "END_NODE"
                    ELSE IF FirstIs(order, currSlice') THEN "START_NEW_SLICE" ELSE "STOPPED"
      /\ UNCHANGED <<order, sizes, numberOfSlices, file>>
      /\ UNCHANGED <<endOutput, priority, ready, finished, stream, failed>>
  BY DEF EndSlice, mailboxes
<1>3. UNCHANGED <<mStatus, outputSlice, cStatus, slice, queue, parameters, endNode>>
  BY <1>1, OutputFrame
<1>4. \A d \in Correlators : Announced(d)' = Announced(d)
  BY <1>2 DEF Announced, Current
<1>5. SlicesKept' /\ AnnouncedIsBegun'
  BY <1>2, <1>3, <1>4, SamePlaces
<1>6. OrderIsSizes' /\ Writing'
  BY <1>2 DEF OrderIsSizes, Writing
<1>7. Ending' /\ ProtocolHolds'
  BY <1>2, <1>3 DEF Ending, Closed, ProtocolHolds
<1> QED BY <1>5, <1>6, <1>7

\* The end of start() and the destructor.
LEMMA ShutDownOrder ==
  ASSUME IInv, OrderInv, ShutDown, UNCHANGED <<mVars, cVars>>
  PROVE  OrderInv'
<1> USE DEF OrderInv
<1>1. OutputNext
  BY DEF OutputNext, OutputLoop
<1>2. /\ oStatus = "END_NODE" /\ oStatus' = "GONE" /\ finished' = finished + 1
      /\ SfxcAssert("~Output_node", failed # {} \/ order = {})
      /\ UNCHANGED <<order, sizes, currSlice, currStream, numberOfSlices, file>>
      /\ UNCHANGED <<endOutput, priority, ready, stream>>
  BY DEF ShutDown
<1>3. /\ UNCHANGED <<mStatus, outputSlice, cStatus, slice, queue, parameters, endNode>>
      /\ TypeOK /\ finished \in Nat /\ order \subseteq Nat \X Correlators /\ outputSlice \in Nat
      /\ Len(file) \in Nat
  BY <1>1, OutputFrame
<1>4. Closed /\ Len(file) = outputSlice
  BY <1>2, <1>3, AllWritten
<1>5. order = {}
  <2> SUFFICES ASSUME NEW p \in order PROVE FALSE
    OBVIOUS
  <2>1. p[1] \in Nat /\ p[2] \in Correlators /\ p = <<p[1], p[2]>>
    BY <1>3
  <2>2. PICK i \in 1 .. Len(sizes[p[2]]) : sizes[p[2]][i] = p[1]
    BY <2>1 DEF OrderIsSizes
  <2>3. Len(file) <= p[1] /\ p[1] < outputSlice
    BY <1>3, <2>1, <2>2, AnnouncedFacts DEF SizesInOrder
  <2> QED BY <1>3, <1>4, <2>1, <2>3
<1>6. failed' = failed
  BY <1>2, <1>5 DEF SfxcAssert
<1>7. finished = 0 /\ mStatus = "WAIT_FOR_OUTPUT_NODE"
  BY <1>2, <1>3, <1>4 DEF Ending, Closed
<1>8. \A d \in Correlators : Announced(d)' = Announced(d)
  BY <1>2 DEF Announced, Current
<1>9. SlicesKept' /\ AnnouncedIsBegun'
  BY <1>2, <1>3, <1>8, SamePlaces
<1>10. OrderIsSizes' /\ Writing'
  BY <1>2 DEF OrderIsSizes, Writing
<1>11. Ending' /\ ProtocolHolds'
  BY <1>2, <1>3, <1>6, <1>7 DEF Ending, Closed, ProtocolHolds
<1> QED BY <1>9, <1>10, <1>11

\* The first entry of input_streams_order is the slice the node waits for, and the
\* first size of its stream is of that slice: goto_next_slice asserts both.
LEMMA StartsInOrder ==
  ASSUME TypeOK, OrderIsSizes, FirstIs(order, currSlice), StartNewSlice,
         SizesInOrder(currSlice, outputSlice)
  PROVE  \E c \in Correlators :
           /\ sizes[c] # <<>> /\ Head(sizes[c]) = currSlice
           /\ sizes' = [sizes EXCEPT ![c] = Tail(@)]
           /\ currStream' = {c} /\ failed' = failed
           /\ OrderIsSizes'
<1>1. PICK p \in order :
        /\ \A q \in order : p[1] <= q[1]
        /\ SfxcAssert("goto_next_slice", p[1] = currSlice /\ sizes[p[2]] # <<>>)
        /\ currStream' = {p[2]}
        /\ order' = order \ {p}
        /\ sizes' = [sizes EXCEPT ![p[2]] = IF @ = <<>> THEN @ ELSE Tail(@)]
  BY DEF StartNewSlice
<1>2. currSlice \in Nat /\ order \subseteq Nat \X Correlators /\ sizes \in [Correlators -> Seq(Nat)]
  BY DEF TypeOK, OutputTypeOK, Slices
<1>3. PICK c \in Correlators : p = <<currSlice, c>>
  <2>1. p[1] \in Nat /\ p[2] \in Correlators /\ p = <<p[1], p[2]>>
    BY <1>2
  <2>2. PICK q \in order : q[1] = currSlice
    BY DEF FirstIs
  <2>3. p[1] >= currSlice /\ p[1] <= currSlice
    BY <1>1, <2>2 DEF FirstIs
  <2>4. p[1] = currSlice
    BY <1>2, <2>1, <2>3
  <2> QED BY <2>1, <2>4
<1>4. p[1] = currSlice /\ p[2] = c
  BY <1>3
<1>5. PICK q \in Seq(Nat) : q = sizes[c]
  BY <1>2
<1>6. /\ Len(q) \in Nat /\ \A i \in 1 .. Len(q) : q[i] \in Nat /\ currSlice <= q[i]
      /\ \A i, j \in 1 .. Len(q) : i < j => q[i] < q[j]
  <2>1. Len(q) \in Nat /\ \A i \in 1 .. Len(q) : q[i] \in Nat
    BY LenProperties, ElementOfSeq
  <2> QED BY <1>5, <2>1 DEF SizesInOrder
<1>7. q # <<>> /\ q[1] = currSlice
  <2>1. PICK i \in 1 .. Len(q) : q[i] = currSlice
    BY <1>2, <1>3, <1>5 DEF OrderIsSizes
  <2>2. i = 1
    <3> SUFFICES ASSUME i # 1 PROVE FALSE
      OBVIOUS
    <3>1. 1 \in 1 .. Len(q) /\ 1 < i
      BY <1>6, <2>1
    <3>2. q[1] < q[i] /\ currSlice <= q[1] /\ q[1] \in Nat
      BY <1>6, <3>1
    <3> QED BY <1>2, <2>1, <3>2
  <2>3. q # <<>>
    BY <1>6, <2>1, EmptySeq
  <2> QED BY <2>1, <2>2, <2>3
<1>8. Head(q) = currSlice
  BY <1>7
<1>9. /\ sizes' = [sizes EXCEPT ![c] = Tail(@)]
      /\ currStream' = {c} /\ order' = order \ {<<currSlice, c>>} /\ failed' = failed
  BY <1>1, <1>2, <1>3, <1>4, <1>5, <1>7 DEF SfxcAssert
<1>10. sizes'[c] = Tail(q) /\ \A d \in Correlators : d # c => sizes'[d] = sizes[d]
  BY <1>2, <1>5, <1>9
<1>11. OrderIsSizes'
  <2> SUFFICES ASSUME NEW n \in Nat, NEW d \in Correlators
               PROVE  <<n, d>> \in order' <=> \E i \in 1 .. Len(sizes'[d]) : sizes'[d][i] = n
    BY DEF OrderIsSizes
  <2>1. <<n, d>> \in order <=> \E i \in 1 .. Len(sizes[d]) : sizes[d][i] = n
    BY DEF OrderIsSizes
  <2>2. <<n, d>> \in order' <=> <<n, d>> \in order /\ ~(n = currSlice /\ d = c)
    BY <1>9, <1>10
  <2>3. CASE d = c
    <3>1. PICK t \in Seq(Nat) : t = Tail(q)
      BY <1>7, HeadTailProperties
    <3>2. /\ Len(t) \in Nat /\ Len(t) = Len(q) - 1
          /\ \A i \in 1 .. Len(t) : t[i] = q[i + 1]
      BY <1>7, <3>1, HeadTailProperties, LenProperties
    <3>3. ASSUME NEW i \in 1 .. Len(t) PROVE i + 1 \in 1 .. Len(q) /\ t[i] = q[i + 1] /\ t[i] # currSlice
      <4>1. i + 1 \in 1 .. Len(q) /\ 1 \in 1 .. Len(q) /\ 1 < i + 1
        BY <1>6, <3>2
      <4>2. q[1] < q[i + 1] /\ q[1] \in Nat /\ q[i + 1] \in Nat
        BY <1>6, <4>1
      <4> QED BY <1>7, <3>2, <4>1, <4>2, SMTT(30)
    <3>4. ASSUME NEW i \in 1 .. Len(q), q[i] # currSlice PROVE \E j \in 1 .. Len(t) : t[j] = q[i]
      <4>1. i # 1
        BY <1>7, <3>4
      <4>2. i - 1 \in 1 .. Len(t) /\ (i - 1) + 1 = i
        BY <1>6, <3>2, <4>1
      <4> QED BY <3>2, <4>2
    <3>5. (\E i \in 1 .. Len(t) : t[i] = n) <=> (\E i \in 1 .. Len(q) : q[i] = n) /\ n # currSlice
      BY <3>3, <3>4
    <3> QED BY <1>5, <1>9, <1>10, <2>1, <2>2, <2>3, <3>1, <3>5
  <2>4. CASE d # c
    BY <1>9, <1>10, <2>1, <2>2, <2>4
  <2> QED BY <2>3, <2>4
<1> QED BY <1>5, <1>7, <1>8, <1>9, <1>11

\* A slice that is started was the first of those announced.
LEMMA AnnouncedStarts ==
  \A q, r \in Seq(Nat), e \in Nat :
    q # <<>> /\ Head(q) = e => Then(<<>>, Then(q, r)) = Then(One(e), Then(Tail(q), r))
<1> SUFFICES ASSUME NEW q \in Seq(Nat), NEW r \in Seq(Nat), q # <<>>
             PROVE  Then(<<>>, Then(q, r)) = Then(One(Head(q)), Then(Tail(q), r))
  OBVIOUS
<1>1. PICK o \in Seq(Nat), t \in Seq(Nat) : o = One(Head(q)) /\ t = Tail(q) /\ Then(o, t) = q
  BY HeadAndTail, OneType
<1>2. Then(Then(o, t), r) = Then(o, Then(t, r))
  BY ThenAssociative
<1>3. Then(<<>>, Then(q, r)) = Then(q, r)
  BY ThenType, ThenNothing
<1> QED BY <1>1, <1>2, <1>3

\* case START_NEW_SLICE
LEMMA StartOrder ==
  ASSUME IInv, OrderInv, StartNewSlice, UNCHANGED <<mVars, cVars>>
  PROVE  OrderInv'
<1> USE DEF OrderInv
<1>1. OutputNext
  BY DEF OutputNext, OutputLoop
<1>2. /\ oStatus = "START_NEW_SLICE" /\ oStatus' = "WRITE_OUTPUT"
      /\ UNCHANGED <<currSlice, numberOfSlices, file>>
      /\ UNCHANGED <<endOutput, priority, ready, finished, stream>>
  BY DEF StartNewSlice
<1>3. /\ UNCHANGED <<mStatus, outputSlice, cStatus, slice, queue, parameters, endNode>>
      /\ TypeOK /\ currSlice \in Nat /\ sizes \in [Correlators -> Seq(Nat)]
  BY <1>1, OutputFrame
<1>4. FirstIs(order, currSlice) /\ Len(file) = currSlice
  BY <1>2 DEF Writing
<1>5. PICK c \in Correlators :
        /\ sizes[c] # <<>> /\ Head(sizes[c]) = currSlice
        /\ sizes' = [sizes EXCEPT ![c] = Tail(@)]
        /\ currStream' = {c} /\ failed' = failed /\ OrderIsSizes'
  BY <1>3, <1>4, AnnouncedFacts, StartsInOrder
<1>6. \A d \in Correlators : Announced(d)' = Announced(d)
  <2>1. Announced(c)' = Announced(c)
    <3>1. /\ Announced(c) = Then(<<>>, Then(sizes[c], priority[c]))
          /\ Announced(c)' = Then(One(currSlice), Then(Tail(sizes[c]), priority[c]))
      BY <1>2, <1>3, <1>5 DEF Announced, Current
    <3>2. sizes[c] \in Seq(Nat) /\ priority[c] \in Seq(Nat)
      BY <1>3, PlaceTypes
    <3> QED BY <1>3, <1>5, <3>1, <3>2, AnnouncedStarts
  <2>2. ASSUME NEW d \in Correlators, d # c PROVE Announced(d)' = Announced(d)
    BY <1>2, <1>3, <1>5, <2>2 DEF Announced, Current
  <2> QED BY <2>1, <2>2
<1>7. SlicesKept' /\ AnnouncedIsBegun'
  BY <1>2, <1>3, <1>6, SamePlaces
<1>8. Writing'
  BY <1>2, <1>5 DEF Writing
<1>9. Ending' /\ ProtocolHolds'
  BY <1>2, <1>3, <1>5 DEF Ending, Closed, ProtocolHolds
<1> QED BY <1>5, <1>7, <1>8, <1>9

LEMMA OutputOrder ==
  ASSUME IInv, OrderInv, OutputNext, UNCHANGED <<mVars, cVars>>
  PROVE  OrderInv'
<1>1. ~ReceiveEndOutput
  BY DEF OrderInv, Ending, ReceiveEndOutput
<1>2. ~EndWriting
  BY DEF OrderInv, Writing, EndWriting
<1> QED BY <1>1, <1>2, PriorityOrder, ReadyOrder, StartOrder, WriteOrder, EndSliceOrder,
          ShutDownOrder DEF OutputNext, OutputLoop

-----------------------------------------------------------------------------
LEMMA InitOrder ==
  ASSUME ManagerAssumption, CorrelatorAssumption
  PROVE  Init => OrderInv
<1> SUFFICES ASSUME Init PROVE OrderInv
  OBVIOUS
<1>1. /\ TypeOK
      /\ \A c \in Correlators :
           /\ stream[c] = <<>> /\ queue[c] = <<>> /\ parameters[c] = <<>> /\ sizes[c] = <<>>
           /\ priority[c] = <<>> /\ cStatus[c] = "STOPPED" /\ ~endNode[c]
      /\ mStatus = "START_NEW_SCAN" /\ outputSlice = 0 /\ ready = <<>> /\ finished = 0
      /\ ~endOutput /\ failed = {}
      /\ oStatus = "STOPPED" /\ order = {} /\ currSlice = 0 /\ numberOfSlices = -1 /\ file = <<>>
  BY InitIInv DEF IInv, Init, MailboxesInit, ManagerInit, CorrelatorInit, OutputInit
<1>2. Len(<<>>) = 0 /\ <<>> \in Seq(Nat)
  BY EmptySeq
<1>3. Then(<<>>, <<>>) = <<>>
  BY <1>2, ThenNothing
<1>4. \A c \in Correlators : Current(c) = <<>> /\ Busy(c) = <<>>
  BY <1>1 DEF Current, Busy
<1>5. \A c \in Correlators : Announced(c) = <<>> /\ Begun(c) = <<>>
  BY <1>1, <1>3, <1>4 DEF Announced, Begun
<1>6. \A c \in Correlators : Given(c) = <<>>
  BY <1>1, <1>3, <1>5 DEF Given
<1>7. \A c \in Correlators : Len(GivenTo[c]) = 0
  BY <1>2, <1>6 DEF GivenTo
<1>8. SlicesKept
  BY <1>1, <1>2, <1>7 DEF SlicesKept, SharedOut, InRange, Increasing, Disjoint, NoneMissing
<1>9. AnnouncedIsBegun
  BY <1>5 DEF AnnouncedIsBegun
<1>10. OrderIsSizes
  BY <1>1, <1>2 DEF OrderIsSizes
<1>11. Writing
  BY <1>1, <1>2 DEF Writing
<1>12. Ending
  BY <1>1 DEF Ending, Closed
<1>13. ProtocolHolds
  BY <1>1 DEF ProtocolHolds
<1> QED BY <1>8, <1>9, <1>10, <1>11, <1>12, <1>13 DEF OrderInv

LEMMA InductiveOrder ==
  ASSUME ManagerAssumption, IInv, OrderInv, [Next]_vars
  PROVE  OrderInv'
<1>1. CASE ManagerStep
  BY <1>1, ManagerOrder DEF ManagerStep
<1>2. ASSUME NEW c \in Correlators, CorrelatorStep(c) PROVE OrderInv'
  BY <1>2, CorrelatorOrder DEF CorrelatorStep
<1>3. CASE OutputStep
  BY <1>3, OutputOrder DEF OutputStep
<1>4. CASE UNCHANGED vars
  <2>1. UNCHANGED <<mStatus, outputSlice, cStatus, slice, queue, parameters, endNode, endOutput,
                    priority, ready, finished, stream, failed>>
    BY <1>4 DEF vars, mVars, cVars, mailboxes
  <2>2. UNCHANGED <<oStatus, order, sizes, currSlice, currStream, numberOfSlices, file>>
    BY <1>4 DEF vars, oVars
  <2>3. \A c \in Correlators : Announced(c)' = Announced(c)
    BY <2>1, <2>2 DEF Announced, Current
  <2>4. SlicesKept' /\ AnnouncedIsBegun'
    BY <2>1, <2>2, <2>3, SamePlaces DEF OrderInv
  <2> QED BY <2>1, <2>2, <2>4 DEF OrderInv, OrderIsSizes, Writing, Ending, Closed, ProtocolHolds
<1> QED BY <1>1, <1>2, <1>3, <1>4 DEF Next, Stay

\* OrderInv holds in every state of every job.
LEMMA OrderInvariance ==
  ASSUME ManagerAssumption, CorrelatorAssumption
  PROVE  Spec => [](IInv /\ OrderInv)
<1>1. Init => OrderInv
  BY InitOrder
<1>2. IInv /\ OrderInv /\ [Next]_vars => OrderInv'
  BY InductiveOrder
<1> QED BY <1>1, <1>2, Invariance, PTL DEF Spec

\* The output file holds the slices 0, 1, 2, ... in order and each once, from
\* whichever nodes they came, and at the end of the job it holds all of them.
THEOREM OutputInOrder == Spec => []FileInOrder
<1>1. IInv /\ OrderInv => FileInOrder
  <2> SUFFICES ASSUME IInv, OrderInv PROVE FileInOrder
    OBVIOUS
  <2>1. TypeOK /\ DOMAIN file = 1 .. Len(file)
    BY LenProperties DEF IInv, TypeOK, OutputTypeOK
  <2>2. \A i \in DOMAIN file : file[i] = i - 1
    BY <2>1 DEF OrderInv, Writing
  <2>3. ASSUME mStatus \in {"END_NODE", "GONE"} PROVE Len(file) = outputSlice
    BY <2>1, <2>3, AllWritten DEF OrderInv, Ending
  <2> QED BY <2>2, <2>3 DEF FileInOrder
<1> QED BY <1>1, OrderInvariance, ManagerAssumption, CorrelatorAssumption, PTL

\* END_NODE finds every correlator node in STOPPED with nothing queued: the
\* branch of terminate() that could be undone by the rest of a round is not taken.
THEOREM EndNodeFindsIdle == Spec => []EndFindsIdle
<1>1. IInv /\ OrderInv => EndFindsIdle
  <2> SUFFICES ASSUME IInv, OrderInv, NEW c \in Correlators, endNode[c]
               PROVE  cStatus[c] = "STOPPED" /\ queue[c] = <<>> /\ parameters[c] = <<>>
    BY DEF EndFindsIdle
  <2>1. TypeOK /\ cStatus[c] \in CStatus
    BY DEF IInv, TypeOK, CorrelatorTypeOK
  <2>2. mStatus = "GONE" /\ cStatus[c] # "END_CORRELATING"
    BY DEF OrderInv, Ending
  <2> QED BY <2>1, <2>2, IdleAtEnd DEF CStatus
<1> QED BY <1>1, OrderInvariance, ManagerAssumption, CorrelatorAssumption, PTL

\* Every slice handed out and not yet in the file is at one place between the
\* manager and the file, in increasing order along every correlator node.
THEOREM NoSliceLost == Spec => []SlicesKept
<1>1. OrderInv => SlicesKept
  BY DEF OrderInv
<1> QED BY <1>1, OrderInvariance, ManagerAssumption, CorrelatorAssumption, PTL

\* None of the assertions about the order of messages can fail: end_correlation,
\* set_weight_of_input_stream, goto_next_slice and the one of ~Output_node.
THEOREM ProtocolAssertionsHold == Spec => []ProtocolHolds
<1>1. OrderInv => ProtocolHolds
  BY DEF OrderInv
<1> QED BY <1>1, OrderInvariance, ManagerAssumption, CorrelatorAssumption, PTL

-----------------------------------------------------------------------------
\* The steps of the job are steps of the ordered log, or leave it as it is.
LEMMA OrderedStep ==
  ASSUME ManagerAssumption, IInv, OrderInv, [Next]_vars
  PROVE  [Ordered!Next]_(Ordered!vars)
<1> USE DEF Ordered!Next, Ordered!vars, Ordered!Issue, Ordered!Close, Ordered!Write, Ordered!End
<1>1. TypeOK /\ file \in Seq(Nat) /\ outputSlice \in Nat /\ mStatus \in MStatus
  BY DEF IInv, TypeOK, OutputTypeOK, ManagerTypeOK, Slices
<1>2. CASE ManagerStep
  <2>1. file' = file /\ ManagerNext /\ UNCHANGED <<cVars, oVars>>
    BY <1>2 DEF ManagerStep, oVars
  <2>2. CASE \E c \in Correlators : ReceiveEnded(c)
    BY <2>1, <2>2 DEF ReceiveEnded
  <2>3. CASE ReceiveFinished
    <3>1. /\ outputSlice' = outputSlice /\ mStatus' = "END_NODE" /\ finished > 0
      BY <2>3 DEF ReceiveFinished
    <3>2. mStatus = "WAIT_FOR_OUTPUT_NODE" /\ oStatus = "GONE"
      BY <3>1 DEF OrderInv, Ending
    <3>3. Len(file) = outputSlice
      BY <1>1, <3>2, AllWritten DEF OrderInv
    <3> QED BY <2>1, <3>1, <3>2, <3>3
  <2>4. CASE StartNewScan
    BY <2>1, <2>4 DEF StartNewScan
  <2>5. CASE StartCorrelationTimeSlice
    BY <2>1, <2>5 DEF StartCorrelationTimeSlice
  <2>6. CASE StartCorrelatorNode
    BY <2>1, <2>6 DEF StartCorrelatorNode
  <2>7. CASE GotoNextTimeslice
    BY <2>1, <2>7 DEF GotoNextTimeslice
  <2>8. CASE StopCorrelating
    BY <2>1, <2>8 DEF StopCorrelating
  <2>9. CASE TerminateNodes
    BY <2>1, <2>9 DEF TerminateNodes
  <2> QED BY <2>1, <2>2, <2>3, <2>4, <2>5, <2>6, <2>7, <2>8, <2>9 DEF ManagerNext, ManagerLoop
<1>3. ASSUME NEW c \in Correlators, CorrelatorStep(c) PROVE [Ordered!Next]_(Ordered!vars)
  BY <1>3 DEF CorrelatorStep, mVars, oVars
<1>4. CASE OutputStep
  <2>1. OutputNext /\ UNCHANGED <<mVars, cVars>> /\ UNCHANGED <<mStatus, outputSlice>>
    BY <1>4 DEF OutputStep, mVars
  <2>2. CASE WriteOutput
    <3>1. file' = Append(file, Len(file)) /\ Len(file) < outputSlice
      BY <2>1, <2>2, WriteOrder
    <3> QED BY <2>1, <3>1
  <2>3. ~EndWriting
    BY DEF OrderInv, Writing, EndWriting
  <2>4. CASE ~WriteOutput
    <3>1. file' = file
      BY <2>1, <2>3, <2>4 DEF OutputNext, OutputLoop, ReceivePriority, ReceiveReady,
         ReceiveEndOutput, StartNewSlice, EndSlice, ShutDown
    <3> QED BY <2>1, <3>1
  <2> QED BY <2>2, <2>4
<1>5. CASE UNCHANGED vars
  BY <1>5 DEF vars, mVars, oVars
<1> QED BY <1>2, <1>3, <1>4, <1>5 DEF Next, Stay

\* Without its fairness, the ordered log: nothing but that the log grows by the
\* next number, up to the number handed out, and that the end finds it complete.
OrderedSafety == Ordered!Init /\ [][Ordered!Next]_(Ordered!vars)

\* The job implements the ordered log, whatever the number of its nodes.
THEOREM ImplementsTheLog == Spec => OrderedSafety
<1>1. Init => Ordered!Init
  BY DEF Init, ManagerInit, OutputInit, Ordered!Init
<1>2. IInv /\ OrderInv /\ [Next]_vars => [Ordered!Next]_(Ordered!vars)
  BY OrderedStep, ManagerAssumption
<1> QED BY <1>1, <1>2, OrderInvariance, ManagerAssumption, CorrelatorAssumption, PTL
        DEF Spec, OrderedSafety

-----------------------------------------------------------------------------
\* The slice of stream c the output node is reading, also when terminate() has
\* set its status among the messages of that round.
Reading(c) ==
  IF currStream = {c} /\ oStatus \in {"WRITE_OUTPUT", "END_WRITING"} THEN One(currSlice) ELSE <<>>

\* What the output node has been told, or will be told, that stream c brings, and
\* with the slices that node has not begun all that is to come from it.
Told(c) == Then(Reading(c), Then(sizes[c], priority[c]))
ToCome(c) == Then(Told(c), Then(queue[c], parameters[c]))
ComesTo == [c \in Correlators |-> ToCome(c)]

\* The slice a correlator node may have announced and not written: the one it
\* works on, and in END_CORRELATING the one it was working on, if it was.
InHand(c) ==
  IF cStatus[c] = "CORRELATING" THEN {One(slice[c])}
  ELSE IF cStatus[c] = "STOPPED" THEN {<<>>}
  ELSE {<<>>, One(slice[c])}

\* What is on a stream is what was announced, but for the slice in hand.
Follows == \A c \in Correlators : \E b \in InHand(c) : Told(c) = Then(stream[c], b)

\* The loop of the output node, the round that END_NODE ends included.
Reads ==
  /\ Len(file) = IF oStatus = "END_SLICE" THEN currSlice + 1 ELSE currSlice
  /\ oStatus = "START_NEW_SLICE" => FirstIs(order, currSlice)
  /\ oStatus \in {"WRITE_OUTPUT", "END_WRITING"} => \E c \in Correlators : currStream = {c}

OnTheWay == SharedOut(ComesTo, Len(file), outputSlice) /\ Follows /\ OrderIsSizes /\ Reads

\* The output node reads no stream any more.
Still == oStatus \in {"END_NODE", "GONE"} \/ OutputFailed

\* After an assertion failed: the file is a prefix, and can only grow by the next
\* slice. Before that the job has the invariant of any other job.
AfterFailure == PrefixAfterAbort /\ (Still \/ OnTheWay)
AbortInv ==
  /\ IInv
  /\ failed = {} => OrderInv
  /\ OrderInv \/ AfterFailure

-----------------------------------------------------------------------------
\* Types and requests do not depend on what has failed.
LEMMA AbortIInv ==
  ASSUME ManagerAssumption, CorrelatorAssumption, IInv, [AbortNext]_vars
  PROVE  IInv'
<1>1. TypeOK /\ InBounds /\ ReadyOnce /\ OneRequest
  BY DEF IInv
<1>2. CASE ManagerStep
  <2>1. [Next]_vars
    BY <1>2 DEF Next
  <2> QED BY <2>1, Inductive
<1>3. CASE AbortJob
  <2>1. /\ UNCHANGED <<scan, integration, channel, stopTimeScan, outputSlice, readyNodes, dispatched>>
        /\ UNCHANGED <<ended, parameters, priority, ready, finished, stream, failed, cVars, oVars>>
        /\ mStatus' = "GONE" /\ endOutput' = TRUE /\ endNode' = [c \in Correlators |-> TRUE]
    BY <1>3 DEF AbortJob
  <2>2. MailboxesTypeOK'
    BY <1>1, <2>1 DEF TypeOK, MailboxesTypeOK
  <2>3. ManagerTypeOK' /\ InBounds' /\ ReadyOnce'
    BY <1>1, <2>1 DEF TypeOK, ManagerTypeOK, MStatus, InBounds, ReadyOnce
  <2>4. CorrelatorTypeOK' /\ OutputTypeOK'
    BY <1>1, <2>1 DEF TypeOK, CorrelatorTypeOK, OutputTypeOK, cVars, oVars
  <2>5. OneRequest'
    <3>1. \A d \in Correlators : Requests(d)' = Requests(d)
      BY <2>1 DEF Requests, Waiting, InReady, Answered, Queued, Unsent, cVars
    <3> QED BY <1>1, <3>1 DEF OneRequest
  <2> QED BY <2>2, <2>3, <2>4, <2>5 DEF IInv, TypeOK
<1>4. ASSUME NEW c \in Correlators, CorrelatorWorksOn(c) PROVE IInv'
  <2>1. CorrelatorNext(c) /\ UNCHANGED <<mVars, oVars>>
    BY <1>4 DEF CorrelatorWorksOn
  <2>2. ManagerTypeOK' /\ OutputTypeOK' /\ InBounds' /\ ReadyOnce' /\ readyNodes' = readyNodes
    BY <1>1, <2>1 DEF TypeOK, ManagerTypeOK, OutputTypeOK, InBounds, ReadyOnce, mVars, oVars
  <2> QED BY <1>1, <2>1, <2>2, CorrelatorTypes, CorrelatorRequests DEF IInv, TypeOK
<1>5. CASE OutputWorksOn
  <2>1. OutputNext /\ UNCHANGED <<mVars, cVars>>
    BY <1>5 DEF OutputWorksOn
  <2>2. /\ ManagerTypeOK' /\ CorrelatorTypeOK' /\ InBounds' /\ ReadyOnce'
        /\ UNCHANGED <<readyNodes, queue, hasRequested>>
    BY <1>1, <2>1 DEF TypeOK, ManagerTypeOK, CorrelatorTypeOK, InBounds, ReadyOnce, mVars, cVars
  <2>3. MailboxesTypeOK' /\ OutputTypeOK' /\ UNCHANGED <<ended, parameters>>
    BY <1>1, <2>1, OutputTypes
  <2>4. \A d \in Correlators : Requests(d)' = Requests(d)
    BY <2>2, <2>3 DEF Requests, Waiting, InReady, Answered, Queued, Unsent
  <2> QED BY <1>1, <2>2, <2>3, <2>4 DEF IInv, TypeOK, OneRequest
<1>6. CASE UNCHANGED vars
  BY <1>6, Inductive
<1> QED BY <1>2, <1>3, <1>4, <1>5, <1>6 DEF AbortNext

\* Nothing forgets a failed assertion.
LEMMA FailuresStay ==
  ASSUME [AbortNext]_vars
  PROVE  failed \subseteq failed'
<1>1. ManagerNext => failed \subseteq failed'
  BY DEF ManagerNext, ManagerLoop, ReceiveEnded, ReceiveFinished, StartNewScan,
     StartCorrelationTimeSlice, StartCorrelatorNode, GotoNextTimeslice, StopCorrelating,
     TerminateNodes, mailboxes, SfxcAssert
<1>2. \A c \in Correlators : CorrelatorNext(c) => failed' = failed
  BY DEF CorrelatorNext, ReceiveParameters, Correlate, EndStopped, EndCorrelating, Round
<1>3. OutputNext => failed \subseteq failed'
  BY DEF OutputNext, OutputLoop, ReceivePriority, ReceiveReady, ReceiveEndOutput, StartNewSlice,
     WriteOutput, EndWriting, EndSlice, ShutDown, mailboxes, SfxcAssert
<1>4. AbortJob \/ UNCHANGED vars => failed' = failed
  BY DEF AbortJob, vars, mailboxes
<1> QED BY <1>1, <1>2, <1>3, <1>4 DEF AbortNext, ManagerStep, CorrelatorWorksOn, OutputWorksOn

\* As long as nothing has failed, a step is a step of any job.
LEMMA BeforeFailure ==
  ASSUME [AbortNext]_vars, failed = {}
  PROVE  [Next]_vars
BY DEF AbortNext, AbortJob, CorrelatorWorksOn, OutputWorksOn, Next, CorrelatorStep, OutputStep

-----------------------------------------------------------------------------
\* Whether c takes END_NODE in a step, and what becomes of it then.
TakesEnd(c) == endNode[c] /\ ~endNode'[c]
EndsOrFinishes(c) ==
  \/ cStatus'[c] = "END_CORRELATING" /\ stream'[c] = stream[c]
  \/ /\ cStatus'[c] # "END_CORRELATING"
     /\ stream'[c] = Append(stream[c], slice[c])

\* A round in which c is told to end: it ends, or its slice is finished.
LEMMA EndingRound ==
  ASSUME TypeOK, NEW c \in Correlators, NEW n, Round(c, n, "END_CORRELATING")
  PROVE  EndsOrFinishes(c)
<1>1. /\ cStatus \in [Correlators -> CStatus]
      /\ stream \in [Correlators -> Seq(Slices)]
  BY DEF TypeOK, MailboxesTypeOK, CorrelatorTypeOK
<1>2. CASE Finished(fft[c] + n)
  <2>1. stream'[c] = Append(stream[c], slice[c])
    BY <1>1, <1>2 DEF Round
  <2>2. cStatus'[c] \in {"CORRELATING", "STOPPED"}
    BY <1>1, <1>2 DEF Round, SetParameters
  <2> QED BY <2>1, <2>2 DEF EndsOrFinishes
<1>3. CASE ~Finished(fft[c] + n)
  <2>1. stream' = stream /\ cStatus'[c] = "END_CORRELATING"
    BY <1>1, <1>3 DEF Round
  <2> QED BY <2>1 DEF EndsOrFinishes
<1> QED BY <1>2, <1>3

\* The step in which a correlator node takes END_NODE leaves it in
\* END_CORRELATING, or with its slice just finished.
LEMMA SurvivorsStep ==
  ASSUME TypeOK, [AbortNext]_vars
  PROVE  \A d \in Correlators : TakesEnd(d) => EndsOrFinishes(d)
<1>1. endNode \in [Correlators -> BOOLEAN] /\ cStatus \in [Correlators -> CStatus]
  BY DEF TypeOK, MailboxesTypeOK, CorrelatorTypeOK
<1>2. CASE ManagerNext
  <2>1. endNode' = endNode \/ endNode' = [c \in Correlators |-> TRUE]
    BY <1>2 DEF ManagerNext, ManagerLoop, ReceiveEnded, ReceiveFinished, StartNewScan,
       StartCorrelationTimeSlice, StartCorrelatorNode, GotoNextTimeslice, StopCorrelating,
       TerminateNodes, mailboxes
  <2> QED BY <2>1 DEF TakesEnd
<1>3. CASE AbortJob
  BY <1>3 DEF AbortJob, TakesEnd
<1>4. ASSUME NEW c \in Correlators, CorrelatorNext(c)
      PROVE  \A d \in Correlators : TakesEnd(d) => EndsOrFinishes(d)
  <2>1. CASE ReceiveParameters(c) \/ Correlate(c)
    BY <2>1 DEF ReceiveParameters, Correlate, TakesEnd
  <2>2. CASE EndStopped(c)
    <3>1. /\ endNode' = [endNode EXCEPT ![c] = FALSE]
          /\ cStatus' = [cStatus EXCEPT ![c] = "END_CORRELATING"]
          /\ stream' = stream
      BY <2>2 DEF EndStopped, TakeEndNode
    <3> QED BY <1>1, <3>1 DEF TakesEnd, EndsOrFinishes
  <2>3. CASE EndCorrelating(c)
    <3>1. endNode' = [endNode EXCEPT ![c] = FALSE]
      BY <2>3 DEF EndCorrelating, TakeEndNode
    <3>2. EndsOrFinishes(c)
      BY <2>3, EndingRound DEF EndCorrelating
    <3> QED BY <1>1, <3>1, <3>2 DEF TakesEnd
  <2> QED BY <1>4, <2>1, <2>2, <2>3 DEF CorrelatorNext
<1>5. CASE OutputNext
  <2>1. UNCHANGED endNode
    BY <1>5 DEF OutputNext, OutputLoop, ReceivePriority, ReceiveReady, ReceiveEndOutput,
       StartNewSlice, WriteOutput, EndWriting, EndSlice, ShutDown, mailboxes
  <2> QED BY <2>1 DEF TakesEnd
<1>6. CASE UNCHANGED vars
  BY <1>6 DEF TakesEnd, vars, mailboxes
<1> QED BY <1>2, <1>3, <1>4, <1>5, <1>6
      DEF AbortNext, ManagerStep, CorrelatorWorksOn, OutputWorksOn

-----------------------------------------------------------------------------
\* The parts of what is to come are sequences of numbers.
LEMMA ToldTypes ==
  ASSUME TypeOK, NEW c \in Correlators
  PROVE  Reading(c) \in Seq(Nat) /\ Told(c) \in Seq(Nat) /\ ToCome(c) \in Seq(Nat)
<1>1. <<>> \in Seq(Nat) /\ currSlice \in Nat
  BY DEF TypeOK, OutputTypeOK
<1>2. Reading(c) \in Seq(Nat)
  BY <1>1, OneType DEF Reading
<1>3. Told(c) \in Seq(Nat)
  BY <1>2, PlaceTypes, ThenType DEF Told
<1>4. ToCome(c) \in Seq(Nat)
  BY <1>3, PlaceTypes, ThenType DEF ToCome
<1> QED BY <1>2, <1>3, <1>4

LEMMA ComesToType ==
  ASSUME TypeOK
  PROVE  /\ ComesTo \in [Correlators -> Seq(Nat)]
         /\ \A c \in Correlators : ComesTo[c] = ToCome(c)
BY ToldTypes DEF ComesTo

\* A job in which nothing has failed is on its way.
LEMMA StillOnTheWay ==
  ASSUME TypeOK, OrderInv
  PROVE  AfterFailure
<1> USE DEF OrderInv
<1>1. oStatus # "END_WRITING"
  BY DEF Writing
<1>2. ASSUME NEW c \in Correlators
      PROVE  Told(c) = Announced(c) /\ ToCome(c) = Given(c)
  <2>1. Reading(c) = Current(c)
    BY <1>1 DEF Reading, Current
  <2>2. Told(c) = Announced(c)
    BY <2>1 DEF Told, Announced
  <2> QED BY <2>2 DEF ToCome, Given, AnnouncedIsBegun
<1>3. ComesTo = GivenTo
  BY <1>2 DEF ComesTo, GivenTo
<1>4. SharedOut(ComesTo, Len(file), outputSlice)
  BY <1>3 DEF SlicesKept
<1>5. Follows
  <2> SUFFICES ASSUME NEW c \in Correlators
               PROVE  \E b \in InHand(c) : Told(c) = Then(stream[c], b)
    BY DEF Follows
  <2>1. Told(c) = Then(stream[c], Busy(c))
    BY <1>2 DEF AnnouncedIsBegun, Begun
  <2>2. Busy(c) \in InHand(c)
    BY DEF Busy, InHand
  <2> QED BY <2>1, <2>2
<1>6. Reads
  BY <1>1 DEF Writing, Reads
<1>7. PrefixAfterAbort
  <2>1. DOMAIN file = 1 .. Len(file)
    BY LenProperties DEF TypeOK, OutputTypeOK
  <2> QED BY <2>1 DEF Writing, PrefixAfterAbort
<1> QED BY <1>4, <1>5, <1>6, <1>7 DEF AfterFailure, OnTheWay

-----------------------------------------------------------------------------
\* The steps of a correlator node.

\* A slice that is begun goes from the queue to the announcements, and is in hand.
LEMMA BeginsSlice ==
  ASSUME TypeOK, NEW c \in Correlators, NEW q \in Seq(Nat), q # <<>>, SetParameters(c, q),
         stream'[c] = Told(c), UNCHANGED oVars,
         parameters'[c] \in Seq(Nat), Then(q, parameters'[c]) = Then(queue[c], parameters[c])
  PROVE  /\ ToCome(c)' = ToCome(c)
         /\ \E b \in InHand(c)' : Told(c)' = Then(stream'[c], b)
<1>1. /\ Head(q) \in Nat /\ Told(c) \in Seq(Nat) /\ Reading(c) \in Seq(Nat)
      /\ sizes[c] \in Seq(Nat) /\ priority[c] \in Seq(Nat)
  BY HeadTailProperties, PlaceTypes, ToldTypes
<1>2. /\ slice'[c] = Head(q) /\ cStatus'[c] = "CORRELATING"
      /\ priority'[c] = Append(priority[c], Head(q)) /\ queue'[c] = Tail(q)
  BY DEF SetParameters, TypeOK, MailboxesTypeOK, CorrelatorTypeOK
<1>3. Told(c)' = Then(Told(c), One(Head(q)))
  <2>1. Told(c)' = Then(Reading(c), Then(sizes[c], Append(priority[c], Head(q))))
    BY <1>2 DEF Told, Reading, oVars
  <2>2. PICK a, u, v \in Seq(Nat), e \in Nat :
          a = Reading(c) /\ u = sizes[c] /\ v = priority[c] /\ e = Head(q)
    BY <1>1
  <2>3. Told(c) = Then(Reading(c), Then(sizes[c], priority[c]))
    BY DEF Told
  <2>4. Then(a, Then(u, Append(v, e))) = Then(Then(a, Then(u, v)), One(e))
    BY AnnouncedSlice
  <2> QED BY <2>1, <2>2, <2>3, <2>4
<1>4. ToCome(c)' = ToCome(c)
  <2>1. ToCome(c)' = Then(Then(Told(c), One(Head(q))), Then(Tail(q), parameters'[c]))
    BY <1>2, <1>3 DEF ToCome
  <2>2. ToCome(c)' = Then(Told(c), Then(q, parameters'[c]))
    BY <1>1, <2>1, StartedSlice
  <2> QED BY <2>2 DEF ToCome
<1>5. InHand(c)' = {One(Head(q))}
  BY <1>2 DEF InHand
<1> QED BY <1>3, <1>4, <1>5

\* Nothing of another node changes when node c takes a step.
LEMMA OthersFollow ==
  ASSUME NEW c \in Correlators, Follows, UNCHANGED oVars,
         \A d \in Correlators \ {c} :
           UNCHANGED <<stream[d], cStatus[d], slice[d], queue[d], parameters[d], priority[d]>>,
         ToCome(c)' = ToCome(c),
         \E b \in InHand(c)' : Told(c)' = Then(stream'[c], b)
  PROVE  ComesTo' = ComesTo /\ Follows'
<1>1. ASSUME NEW d \in Correlators \ {c}
      PROVE  ToCome(d)' = ToCome(d) /\ Told(d)' = Told(d) /\ InHand(d)' = InHand(d)
  BY DEF ToCome, Told, InHand, Reading, oVars
<1>2. ComesTo' = ComesTo
  BY <1>1 DEF ComesTo
<1>3. ASSUME NEW d \in Correlators
      PROVE  \E b \in InHand(d)' : Told(d)' = Then(stream'[d], b)
  <2>1. CASE d = c
    BY <2>1
  <2>2. CASE d # c
    <3>1. PICK b \in InHand(d) : Told(d) = Then(stream[d], b)
      BY DEF Follows
    <3> QED BY <1>1, <2>2, <3>1
  <2> QED BY <2>1, <2>2
<1> QED BY <1>2, <1>3 DEF Follows

LEMMA RoundFollows ==
  ASSUME TypeOK, Follows, NEW c \in Correlators, NEW n, NEW st \in {"CORRELATING", "END_CORRELATING"},
         cStatus[c] = "CORRELATING", Round(c, n, st), UNCHANGED oVars
  PROVE  ComesTo' = ComesTo /\ Follows'
<1> DEFINE done == Finished(fft[c] + n)
<1>1. /\ stream' = IF done THEN [stream EXCEPT ![c] = Append(@, slice[c])] ELSE stream
      /\ UNCHANGED parameters
  BY DEF Round
<1>2. /\ stream \in [Correlators -> Seq(Nat)] /\ cStatus \in [Correlators -> CStatus]
      /\ slice \in [Correlators -> Nat] /\ queue \in [Correlators -> Seq(Nat)]
      /\ priority \in [Correlators -> Seq(Nat)]
  BY DEF TypeOK, MailboxesTypeOK, CorrelatorTypeOK, Slices
<1>3. Told(c) = Then(stream[c], One(slice[c]))
  BY DEF Follows, InHand
<1>4. done => stream'[c] = Told(c)
  BY <1>1, <1>2, <1>3, AppendIsThen
<1>5. CASE done /\ queue[c] # <<>> /\ SetParameters(c, queue[c])
  <2>1. /\ ToCome(c)' = ToCome(c)
        /\ \E b \in InHand(c)' : Told(c)' = Then(stream'[c], b)
    BY <1>1, <1>4, <1>5, PlaceTypes, BeginsSlice
  <2>2. \A d \in Correlators \ {c} :
          UNCHANGED <<stream[d], cStatus[d], slice[d], queue[d], parameters[d], priority[d]>>
    BY <1>1, <1>2, <1>5 DEF SetParameters
  <2> QED BY <2>1, <2>2, OthersFollow
<1>6. CASE /\ cStatus' = [cStatus EXCEPT ![c] = IF done THEN "STOPPED" ELSE st]
           /\ UNCHANGED <<queue, slice, priority>>
  <2>1. Told(c)' = Told(c) /\ ToCome(c)' = ToCome(c)
    BY <1>1, <1>6 DEF ToCome, Told, Reading, oVars
  <2>2. \E b \in InHand(c)' : Told(c)' = Then(stream'[c], b)
    <3>1. CASE done
      <4>1. InHand(c)' = {<<>>}
        BY <1>2, <1>6, <3>1 DEF InHand
      <4>2. Then(Told(c), <<>>) = Told(c)
        BY ToldTypes, ThenNothing
      <4> QED BY <1>4, <2>1, <3>1, <4>1, <4>2
    <3>2. CASE ~done
      <4>1. stream'[c] = stream[c] /\ cStatus'[c] = st /\ slice'[c] = slice[c]
        BY <1>1, <1>2, <1>6, <3>2
      <4>2. One(slice[c]) \in InHand(c)'
        BY <4>1 DEF InHand
      <4> QED BY <1>3, <2>1, <4>1, <4>2
    <3> QED BY <3>1, <3>2
  <2>3. \A d \in Correlators \ {c} :
          UNCHANGED <<stream[d], cStatus[d], slice[d], queue[d], parameters[d], priority[d]>>
    BY <1>1, <1>2, <1>6
  <2> QED BY <2>1, <2>2, <2>3, OthersFollow
<1> QED BY <1>5, <1>6 DEF Round

LEMMA CorrelatorFollows ==
  ASSUME TypeOK, Follows, NEW c \in Correlators, CorrelatorNext(c), UNCHANGED oVars
  PROVE  ComesTo' = ComesTo /\ Follows'
<1>1. /\ parameters \in [Correlators -> Seq(Nat)] /\ cStatus \in [Correlators -> CStatus]
      /\ slice \in [Correlators -> Nat] /\ queue \in [Correlators -> Seq(Nat)]
      /\ priority \in [Correlators -> Seq(Nat)]
  BY DEF TypeOK, MailboxesTypeOK, CorrelatorTypeOK, Slices
<1>2. CASE ReceiveParameters(c)
  <2> DEFINE q == Append(queue[c], Head(parameters[c]))
  <2>1. /\ parameters[c] # <<>> /\ parameters' = [parameters EXCEPT ![c] = Tail(@)]
        /\ UNCHANGED stream
    BY <1>2 DEF ReceiveParameters
  <2>2. /\ q \in Seq(Nat) /\ q # <<>> /\ parameters'[c] \in Seq(Nat)
        /\ Then(q, parameters'[c]) = Then(queue[c], parameters[c])
    <3>1. queue[c] \in Seq(Nat) /\ parameters[c] \in Seq(Nat) /\ Head(parameters[c]) \in Nat
      BY <1>1, <2>1, HeadTailProperties
    <3>2. /\ q \in Seq(Nat) /\ Tail(parameters[c]) \in Seq(Nat)
          /\ Then(q, Tail(parameters[c])) = Then(queue[c], parameters[c])
      BY <2>1, <3>1, MoveHead, HeadTailProperties
    <3>3. q # <<>>
      BY <3>1, AppendProperties, ZenonT(60)
    <3>4. parameters'[c] = Tail(parameters[c])
      BY <1>1, <2>1
    <3> QED BY <3>2, <3>3, <3>4
  <2>3. CASE cStatus[c] = "STOPPED" /\ SetParameters(c, q)
    <3>1. \A d \in Correlators \ {c} :
            UNCHANGED <<stream[d], cStatus[d], slice[d], queue[d], parameters[d], priority[d]>>
      BY <1>1, <2>1, <2>3 DEF SetParameters
    <3>2. stream'[c] = Told(c)
      <4>1. Told(c) = Then(stream[c], <<>>)
        BY <2>3 DEF Follows, InHand
      <4> QED BY <2>1, <4>1, PlaceTypes, ThenNothing
    <3> HIDE DEF q
    <3>3. /\ ToCome(c)' = ToCome(c)
          /\ \E b \in InHand(c)' : Told(c)' = Then(stream'[c], b)
      BY <2>2, <2>3, <3>2, BeginsSlice
    <3> QED BY <3>1, <3>3, OthersFollow
  <2>4. CASE queue' = [queue EXCEPT ![c] = q] /\ UNCHANGED <<cStatus, slice, priority>>
    <3>1. Then(queue'[c], parameters'[c]) = Then(queue[c], parameters[c])
      BY <1>1, <2>2, <2>4
    <3>2. Told(c)' = Told(c) /\ ToCome(c)' = ToCome(c) /\ InHand(c)' = InHand(c)
      BY <2>1, <2>4, <3>1 DEF ToCome, Told, Reading, InHand, oVars
    <3>3. \E b \in InHand(c)' : Told(c)' = Then(stream'[c], b)
      <4>1. PICK b \in InHand(c) : Told(c) = Then(stream[c], b)
        BY DEF Follows
      <4> QED BY <2>1, <3>2, <4>1
    <3>4. \A d \in Correlators \ {c} :
            UNCHANGED <<stream[d], cStatus[d], slice[d], queue[d], parameters[d], priority[d]>>
      BY <1>1, <2>1, <2>4
    <3> QED BY <3>2, <3>3, <3>4, OthersFollow
  <2> QED BY <1>2, <2>3, <2>4 DEF ReceiveParameters
<1>3. CASE Correlate(c)
  BY <1>3, RoundFollows DEF Correlate
<1>4. CASE EndStopped(c)
  <2>1. /\ UNCHANGED <<stream, slice, queue, parameters, priority>> /\ cStatus[c] = "STOPPED"
        /\ cStatus' = [cStatus EXCEPT ![c] = "END_CORRELATING"]
    BY <1>4 DEF EndStopped
  <2>2. Told(c)' = Told(c) /\ ToCome(c)' = ToCome(c)
    BY <2>1 DEF ToCome, Told, Reading, oVars
  <2>3. Told(c) = Then(stream[c], <<>>) /\ <<>> \in InHand(c)'
    BY <1>1, <2>1 DEF Follows, InHand
  <2>4. \A d \in Correlators \ {c} :
          UNCHANGED <<stream[d], cStatus[d], slice[d], queue[d], parameters[d], priority[d]>>
    BY <1>1, <2>1
  <2>5. \E b \in InHand(c)' : Told(c)' = Then(stream'[c], b)
    BY <2>1, <2>2, <2>3
  <2> QED BY <2>2, <2>4, <2>5, OthersFollow
<1>5. CASE EndCorrelating(c)
  BY <1>5, RoundFollows DEF EndCorrelating
<1> QED BY <1>2, <1>3, <1>4, <1>5 DEF CorrelatorNext

-----------------------------------------------------------------------------
\* The steps of the output node: what the others keep, and the types.
LEMMA OutputTypesAndFrame ==
  ASSUME TypeOK, OutputNext, UNCHANGED <<mVars, cVars>>
  PROVE  /\ currSlice \in Nat /\ outputSlice \in Nat
         /\ file \in Seq(Nat) /\ Len(file) \in Nat /\ DOMAIN file = 1 .. Len(file)
         /\ sizes \in [Correlators -> Seq(Nat)] /\ stream \in [Correlators -> Seq(Nat)]
         /\ UNCHANGED <<outputSlice, cStatus, slice, queue, parameters>>
<1>1. /\ currSlice \in Nat /\ outputSlice \in Nat /\ file \in Seq(Nat)
      /\ sizes \in [Correlators -> Seq(Nat)] /\ stream \in [Correlators -> Seq(Nat)]
  BY DEF TypeOK, MailboxesTypeOK, OutputTypeOK, ManagerTypeOK, Slices
<1>2. UNCHANGED <<outputSlice, cStatus, slice, queue>>
  BY DEF mVars, cVars
<1>3. UNCHANGED parameters
  BY DEF OutputNext, OutputLoop, ReceivePriority, ReceiveReady, ReceiveEndOutput, StartNewSlice,
     WriteOutput, EndWriting, EndSlice, ShutDown, mailboxes
<1> QED BY <1>1, <1>2, <1>3, LenProperties

\* A step of the output node that reads no stream, and starts no slice but the
\* first of those announced, leaves what is to come as it is.
LEMMA SameToCome ==
  ASSUME Follows, UNCHANGED <<stream, cStatus, slice, queue, parameters>>,
         \A c \in Correlators : Told(c)' = Told(c)
  PROVE  ComesTo' = ComesTo /\ Follows'
<1>1. \A c \in Correlators : ToCome(c)' = ToCome(c) /\ InHand(c)' = InHand(c)
  BY DEF ToCome, InHand
<1>2. ComesTo' = ComesTo
  BY <1>1 DEF ComesTo
<1>3. ASSUME NEW c \in Correlators
      PROVE  \E b \in InHand(c)' : Told(c)' = Then(stream'[c], b)
  <2>1. PICK b \in InHand(c) : Told(c) = Then(stream[c], b)
    BY DEF Follows
  <2> QED BY <1>1, <2>1
<1> QED BY <1>2, <1>3 DEF Follows

\* The sizes of the streams hold slices that are to come.
LEMMA SizesToCome ==
  ASSUME TypeOK, SharedOut(ComesTo, Len(file), outputSlice)
  PROVE  SizesInOrder(Len(file), outputSlice)
<1>1. ASSUME NEW c \in Correlators
      PROVE  \E k \in Nat : At(sizes[c], priority[c], ComesTo[c], k)
  <2>1. /\ Reading(c) \in Seq(Nat) /\ sizes[c] \in Seq(Nat) /\ priority[c] \in Seq(Nat)
        /\ Then(queue[c], parameters[c]) \in Seq(Nat) /\ ComesTo[c] \in Seq(Nat)
    BY PlaceTypes, ToldTypes, ComesToType
  <2>2. ComesTo[c] = Then(Then(Reading(c), Then(sizes[c], priority[c])),
                          Then(queue[c], parameters[c]))
    BY ComesToType DEF ToCome, Told
  <2> QED BY <2>1, <2>2, Positions
<1>2. Len(file) \in Nat /\ outputSlice \in Nat
  BY LenProperties DEF TypeOK, OutputTypeOK, ManagerTypeOK, Slices
<1> QED BY <1>1, <1>2, ComesToType, SizesOfShares

\* A message that fails the assertion of set_weight_of_input_stream ends the work
\* of the output node: END_NODE came before it in the round. Any other is new.
LEMMA PriorityOnTheWay ==
  ASSUME TypeOK, OnTheWay, ~Still, NEW c \in Correlators, ReceivePriority(c),
         UNCHANGED <<mVars, cVars>>
  PROVE  file' = file /\ (Still' \/ OnTheWay')
<1> USE DEF OnTheWay
<1>1. OutputNext
  BY DEF OutputNext
<1>2. /\ UNCHANGED <<currSlice, currStream, numberOfSlices, file, stream>>
      /\ oStatus' = AfterMessage(oStatus, order', numberOfSlices)
      /\ SfxcAssert("set_weight_of_input_stream",
                    /\ \A p \in order : p[1] # Head(priority[c])
                    /\ order # {} => Head(priority[c]) >= currSlice
                    /\ oStatus # "END_WRITING")
  BY DEF ReceivePriority
<1>3. UNCHANGED <<outputSlice, cStatus, slice, queue, parameters>>
  BY <1>1, OutputTypesAndFrame
<1>4. CASE ~((\A p \in order : p[1] # Head(priority[c])) /\ oStatus # "END_WRITING")
  <2>1. OutputFailed'
    BY <1>2, <1>4 DEF SfxcAssert, OutputFailed
  <2> QED BY <1>2, <2>1 DEF Still
<1>5. CASE (\A p \in order : p[1] # Head(priority[c])) /\ oStatus # "END_WRITING"
  <2>1. /\ \A d \in Correlators : Then(sizes'[d], priority'[d]) = Then(sizes[d], priority[d])
        /\ OrderIsSizes'
    BY <1>5, ToldInOrder
  <2>2. /\ oStatus \in {"STOPPED", "WRITE_OUTPUT"}
        /\ oStatus' \in {oStatus, "END_NODE", "START_NEW_SLICE"}
        /\ oStatus' # oStatus => oStatus = "STOPPED"
        /\ oStatus' = "START_NEW_SLICE" => FirstIs(order', currSlice)
    BY <1>2, <1>5 DEF AfterMessage, ReceivePriority, Listening
  <2>3. \A d \in Correlators : Told(d)' = Told(d)
    <3>1. \A d \in Correlators : Reading(d)' = Reading(d)
      BY <1>2, <2>2 DEF Reading
    <3> QED BY <2>1, <3>1 DEF Told
  <2>4. ComesTo' = ComesTo /\ Follows'
    BY <1>2, <1>3, <2>3, SameToCome
  <2>5. Reads'
    BY <1>2, <2>2 DEF Reads
  <2> QED BY <1>2, <1>3, <2>1, <2>4, <2>5
<1> QED BY <1>4, <1>5

\* The other messages of the output node, END_NODE among them.
LEMMA MessagesOnTheWay ==
  ASSUME TypeOK, OnTheWay, ~Still, ReceiveReady \/ ReceiveEndOutput, UNCHANGED <<mVars, cVars>>
  PROVE  file' = file /\ (Still' \/ OnTheWay')
<1> USE DEF OnTheWay
<1>1. OutputNext
  BY DEF OutputNext
<1>2. UNCHANGED <<order, sizes, currSlice, currStream, file, priority, stream>>
  BY DEF ReceiveReady, ReceiveEndOutput
<1>3. UNCHANGED <<outputSlice, cStatus, slice, queue, parameters>>
  BY <1>1, OutputTypesAndFrame
<1>4. /\ oStatus \in {"STOPPED", "WRITE_OUTPUT", "END_WRITING"}
      /\ \/ oStatus' = oStatus
         \/ oStatus = "STOPPED" /\ oStatus' \in {"END_NODE", "START_NEW_SLICE"}
         \/ oStatus = "WRITE_OUTPUT" /\ oStatus' = "END_WRITING"
      /\ oStatus' = "START_NEW_SLICE" => FirstIs(order, currSlice)
  BY DEF AfterMessage, ReceiveReady, ReceiveEndOutput, Listening
<1>5. \A d \in Correlators : Told(d)' = Told(d)
  <2>1. \A d \in Correlators : Reading(d)' = Reading(d)
    BY <1>2, <1>4 DEF Reading
  <2> QED BY <1>2, <2>1 DEF Told
<1>6. ComesTo' = ComesTo /\ Follows'
  BY <1>2, <1>3, <1>5, SameToCome
<1>7. OrderIsSizes'
  BY <1>2 DEF OrderIsSizes
<1>8. Reads'
  BY <1>2, <1>4 DEF Reads
<1> QED BY <1>2, <1>3, <1>6, <1>7, <1>8

\* case START_NEW_SLICE
LEMMA StartOnTheWay ==
  ASSUME TypeOK, OnTheWay, StartNewSlice, UNCHANGED <<mVars, cVars>>
  PROVE  file' = file /\ OnTheWay'
<1> USE DEF OnTheWay
<1>1. OutputNext
  BY DEF OutputNext, OutputLoop
<1>2. /\ oStatus = "START_NEW_SLICE" /\ oStatus' = "WRITE_OUTPUT"
      /\ UNCHANGED <<currSlice, file, priority, stream>>
  BY DEF StartNewSlice
<1>3. /\ UNCHANGED <<outputSlice, cStatus, slice, queue, parameters>>
      /\ currSlice \in Nat /\ sizes \in [Correlators -> Seq(Nat)]
  BY <1>1, OutputTypesAndFrame
<1>4. FirstIs(order, currSlice) /\ Len(file) = currSlice
  BY <1>2 DEF Reads
<1>5. SizesInOrder(currSlice, outputSlice)
  BY <1>4, SizesToCome
<1>6. PICK c \in Correlators :
        /\ sizes[c] # <<>> /\ Head(sizes[c]) = currSlice
        /\ sizes' = [sizes EXCEPT ![c] = Tail(@)]
        /\ currStream' = {c} /\ OrderIsSizes'
  BY <1>4, <1>5, StartsInOrder
<1>7. \A d \in Correlators : Told(d)' = Told(d)
  <2>1. Told(c)' = Told(c)
    <3>1. /\ Told(c) = Then(<<>>, Then(sizes[c], priority[c]))
          /\ Told(c)' = Then(One(currSlice), Then(Tail(sizes[c]), priority[c]))
      BY <1>2, <1>3, <1>6 DEF Told, Reading
    <3>2. sizes[c] \in Seq(Nat) /\ priority[c] \in Seq(Nat)
      BY PlaceTypes
    <3> QED BY <1>3, <1>6, <3>1, <3>2, AnnouncedStarts
  <2>2. ASSUME NEW d \in Correlators, d # c PROVE Told(d)' = Told(d)
    BY <1>2, <1>3, <1>6, <2>2 DEF Told, Reading
  <2> QED BY <2>1, <2>2
<1>8. ComesTo' = ComesTo /\ Follows'
  BY <1>2, <1>3, <1>7, SameToCome
<1>9. Reads'
  BY <1>2, <1>4, <1>6 DEF Reads
<1> QED BY <1>2, <1>3, <1>6, <1>8, <1>9

\* A slice is read, also in the round that took END_NODE: it is the one the file
\* lacks, because the first slice on the stream is the first one announced.
LEMMA ReadOnTheWay ==
  ASSUME TypeOK, OnTheWay, OutputNext, UNCHANGED <<mVars, cVars>>,
         oStatus \in {"WRITE_OUTPUT", "END_WRITING"}, oStatus' = "END_SLICE", ReadSlice,
         UNCHANGED <<order, sizes, currSlice, currStream, priority>>
  PROVE  file' = Append(file, Len(file)) /\ OnTheWay'
<1> USE DEF OnTheWay
<1>1. PICK c \in Correlators : currStream = {c}
  BY DEF Reads
<1>2. /\ stream[c] # <<>> /\ file' = Append(file, Head(stream[c]))
      /\ stream' = [stream EXCEPT ![c] = Tail(@)]
  BY <1>1 DEF ReadSlice
<1>3. /\ UNCHANGED <<outputSlice, cStatus, slice, queue, parameters>>
      /\ stream'[c] = Tail(stream[c]) /\ \A d \in Correlators : d # c => stream'[d] = stream[d]
      /\ currSlice \in Nat /\ outputSlice \in Nat /\ Len(file) \in Nat /\ file \in Seq(Nat)
      /\ Len(file) = currSlice
  BY <1>2, OutputTypesAndFrame DEF Reads
<1>4. PICK r \in Seq(Nat) : r = Then(sizes[c], priority[c])
  BY PlaceTypes
<1>5. Told(c) = Then(One(currSlice), r) /\ Told(c)' = r
  <2>1. Told(c) = Then(One(currSlice), r)
    BY <1>1, <1>4 DEF Told, Reading
  <2>2. Told(c)' = Then(<<>>, r)
    BY <1>4 DEF Told, Reading
  <2> QED BY <2>1, <2>2, ThenNothing
<1>6. PICK b \in InHand(c) : Told(c) = Then(stream[c], b)
  BY DEF Follows
<1>7. b \in Seq(Nat) /\ stream[c] \in Seq(Nat)
  <2>1. slice[c] \in Nat /\ <<>> \in Seq(Nat)
    BY DEF TypeOK, CorrelatorTypeOK, Slices
  <2> QED BY <2>1, OneType, PlaceTypes DEF InHand
<1>8. Head(stream[c]) = currSlice /\ r = Then(Tail(stream[c]), b)
  <2>1. Head(Told(c)) = currSlice /\ Tail(Told(c)) = r
    BY <1>3, <1>5, HeadOfThen
  <2>2. Head(Told(c)) = Head(stream[c]) /\ Tail(Told(c)) = Then(Tail(stream[c]), b)
    BY <1>2, <1>6, <1>7, HeadInFront, SMTT(30)
  <2> QED BY <2>1, <2>2
<1>9. file' = Append(file, Len(file))
  BY <1>2, <1>3, <1>8
<1>10. \A d \in Correlators : d # c => Told(d)' = Told(d) /\ ToCome(d)' = ToCome(d)
  BY <1>1, <1>3 DEF Told, ToCome, Reading
<1>11. Follows'
  <2> SUFFICES ASSUME NEW d \in Correlators
               PROVE  \E e \in InHand(d)' : Told(d)' = Then(stream'[d], e)
    BY DEF Follows
  <2>1. InHand(d)' = InHand(d)
    BY <1>3 DEF InHand
  <2>2. CASE d = c
    BY <1>3, <1>5, <1>6, <1>8, <2>1, <2>2
  <2>3. CASE d # c
    <3>1. PICK e \in InHand(d) : Told(d) = Then(stream[d], e)
      BY DEF Follows
    <3> QED BY <1>3, <1>10, <2>1, <2>3, <3>1
  <2> QED BY <2>2, <2>3
<1>12. SharedOut(ComesTo, Len(file), outputSlice)'
  <2>1. PICK w \in Seq(Nat) : w = Then(queue[c], parameters[c])
    BY PlaceTypes
  <2>2. ToCome(c) = Then(Then(One(currSlice), r), w) /\ ToCome(c)' = Then(r, w)
    BY <1>3, <1>5, <2>1 DEF ToCome
  <2>3. PICK o \in Seq(Nat) : o = One(currSlice)
    BY <1>3, OneType
  <2>4. Then(Then(o, r), w) = Then(o, Then(r, w))
    BY ThenAssociative
  <2>5. PICK x \in Seq(Nat) : x = Then(r, w)
    BY ThenType
  <2>6. ToCome(c) # <<>> /\ Head(ToCome(c)) = currSlice /\ ToCome(c)' = Tail(ToCome(c))
    <3>1. ToCome(c) = Then(One(currSlice), x) /\ ToCome(c)' = x
      BY <2>2, <2>3, <2>4, <2>5
    <3>2. /\ Then(One(currSlice), x) # <<>> /\ Head(Then(One(currSlice), x)) = currSlice
          /\ Tail(Then(One(currSlice), x)) = x
      BY <1>3, HeadOfThen
    <3> QED BY <3>1, <3>2
  <2>7. ComesTo \in [Correlators -> Seq(Nat)] /\ ComesTo[c] = ToCome(c)
    BY ComesToType
  <2>8. ComesTo' = [ComesTo EXCEPT ![c] = Tail(@)]
    BY <1>10, <2>6 DEF ComesTo
  <2>9. SharedOut(ComesTo', Len(file) + 1, outputSlice)
    BY <1>3, <2>6, <2>7, <2>8, WriteSharesOut
  <2>10. Len(file') = Len(file) + 1
    BY <1>3, <1>9, AppendProperties
  <2> QED BY <1>3, <2>9, <2>10
<1>13. Reads'
  <2>1. Len(file') = currSlice + 1
    BY <1>3, <1>9, AppendProperties
  <2> QED BY <2>1 DEF Reads
<1>14. OrderIsSizes'
  BY DEF OrderIsSizes
<1> QED BY <1>9, <1>11, <1>12, <1>13, <1>14

\* case END_SLICE
LEMMA EndSliceOnTheWay ==
  ASSUME TypeOK, OnTheWay, EndSlice, UNCHANGED <<mVars, cVars>>
  PROVE  file' = file /\ (Still' \/ OnTheWay')
<1> USE DEF OnTheWay
<1>1. OutputNext
  BY DEF OutputNext, OutputLoop
<1>2. /\ oStatus = "END_SLICE" /\ currStream' = {} /\ currSlice' = currSlice + 1
      /\ oStatus' \in {"END_NODE", "START_NEW_SLICE", "STOPPED"}
      /\ oStatus' = "START_NEW_SLICE" => FirstIs(order, currSlice')
      /\ UNCHANGED <<order, sizes, file, priority, stream>>
  BY DEF EndSlice, mailboxes
<1>3. UNCHANGED <<outputSlice, cStatus, slice, queue, parameters>>
  BY <1>1, OutputTypesAndFrame
<1>4. \A d \in Correlators : Told(d)' = Told(d)
  BY <1>2 DEF Told, Reading
<1>5. ComesTo' = ComesTo /\ Follows'
  BY <1>2, <1>3, <1>4, SameToCome
<1>6. OrderIsSizes'
  BY <1>2 DEF OrderIsSizes
<1>7. Reads'
  BY <1>2 DEF Reads
<1> QED BY <1>2, <1>3, <1>5, <1>6, <1>7

\* Every step of the output node keeps the file, or appends the slice it lacks.
LEMMA OutputOnTheWay ==
  ASSUME TypeOK, Still \/ OnTheWay, OutputWorksOn
  PROVE  /\ file' = file \/ file' = Append(file, Len(file))
         /\ Still' \/ OnTheWay'
<1>1. OutputNext /\ UNCHANGED <<mVars, cVars>> /\ ~OutputFailed
  BY DEF OutputWorksOn
<1>2. CASE Still
  <2>1. oStatus \in {"END_NODE", "GONE"}
    BY <1>1, <1>2 DEF Still
  <2>2. file' = file /\ oStatus' = "GONE"
    BY <1>1, <2>1 DEF OutputNext, OutputLoop, ReceivePriority, ReceiveReady, ReceiveEndOutput,
       Listening, StartNewSlice, WriteOutput, EndWriting, EndSlice, ShutDown
  <2> QED BY <2>2 DEF Still
<1>3. CASE ~Still
  <2>1. OnTheWay
    BY <1>3
  <2>2. CASE \E c \in Correlators : ReceivePriority(c)
    BY <1>1, <1>3, <2>1, <2>2, PriorityOnTheWay
  <2>3. CASE ReceiveReady \/ ReceiveEndOutput
    BY <1>1, <1>3, <2>1, <2>3, MessagesOnTheWay
  <2>4. CASE StartNewSlice
    BY <1>1, <2>1, <2>4, StartOnTheWay
  <2>5. CASE WriteOutput
    <3>1. /\ oStatus = "WRITE_OUTPUT" /\ oStatus' = "END_SLICE" /\ ReadSlice
          /\ UNCHANGED <<order, sizes, currSlice, currStream, priority>>
      BY <2>5 DEF WriteOutput
    <3> QED BY <1>1, <2>1, <3>1, ReadOnTheWay
  <2>6. CASE EndWriting
    <3>1. /\ oStatus = "END_WRITING"
          /\ UNCHANGED <<order, sizes, currSlice, currStream, priority>>
          /\ \/ oStatus' = "END_NODE" /\ file' = file
             \/ oStatus' = "END_SLICE" /\ ReadSlice
      BY <2>6 DEF EndWriting
    <3>2. CASE oStatus' = "END_NODE" /\ file' = file
      BY <3>2 DEF Still
    <3>3. CASE oStatus' = "END_SLICE" /\ ReadSlice
      BY <1>1, <2>1, <3>1, <3>3, ReadOnTheWay
    <3> QED BY <3>1, <3>2, <3>3
  <2>7. CASE EndSlice
    BY <1>1, <2>1, <2>7, EndSliceOnTheWay
  <2>8. ~ShutDown
    BY <1>3 DEF Still, ShutDown
  <2> QED BY <1>1, <2>2, <2>3, <2>4, <2>5, <2>6, <2>7, <2>8 DEF OutputNext, OutputLoop
<1> QED BY <1>2, <1>3

-----------------------------------------------------------------------------
\* After a failed assertion the file stays a prefix of the output.
LEMMA FailureStep ==
  ASSUME TypeOK, AfterFailure, failed # {}, [AbortNext]_vars
  PROVE  AfterFailure'
<1> USE DEF AfterFailure
<1>1. file \in Seq(Nat) /\ Len(file) \in Nat /\ DOMAIN file = 1 .. Len(file)
  BY LenProperties DEF TypeOK, OutputTypeOK, Slices
<1>2. file' = file \/ file' = Append(file, Len(file)) => PrefixAfterAbort'
  <2>1. CASE file' = file
    BY <2>1 DEF PrefixAfterAbort
  <2>2. CASE file' = Append(file, Len(file))
    <3>1. /\ file' \in Seq(Nat) /\ Len(file') = Len(file) + 1
          /\ file'[Len(file) + 1] = Len(file)
          /\ \A i \in 1 .. Len(file) : file'[i] = file[i]
      BY <1>1, <2>2, AppendProperties
    <3>2. DOMAIN file' = 1 .. Len(file) + 1
      BY <3>1, LenProperties
    <3>3. \A i \in 1 .. Len(file) + 1 : i \in 1 .. Len(file) \/ i = Len(file) + 1
      BY <1>1
    <3>4. \A i \in 1 .. Len(file) : file[i] = i - 1
      BY <1>1 DEF PrefixAfterAbort
    <3>5. \A i \in DOMAIN file' : file'[i] = i - 1
      BY <1>1, <3>1, <3>2, <3>3, <3>4
    <3> QED BY <3>5 DEF PrefixAfterAbort
  <2> QED BY <2>1, <2>2
<1>3. Still /\ UNCHANGED oVars => Still'
  BY FailuresStay DEF Still, OutputFailed, oVars
<1>4. ~ManagerStep
  BY DEF ManagerStep
<1>5. CASE AbortJob \/ UNCHANGED vars
  <2>1. UNCHANGED oVars
    BY <1>5 DEF AbortJob, vars
  <2>2. UNCHANGED <<outputSlice, cStatus, slice, queue, parameters, priority, stream>>
    BY <1>5 DEF AbortJob, vars, mailboxes, mVars, cVars
  <2>3. UNCHANGED <<oStatus, order, sizes, currSlice, currStream, file>>
    BY <2>1 DEF oVars
  <2>4. OnTheWay => OnTheWay'
    <3> SUFFICES ASSUME OnTheWay PROVE OnTheWay'
      OBVIOUS
    <3>1. \A c \in Correlators : Told(c)' = Told(c)
      BY <2>2, <2>3 DEF Told, Reading
    <3>2. ComesTo' = ComesTo /\ Follows'
      BY <2>2, <3>1, SameToCome DEF OnTheWay
    <3> QED BY <2>2, <2>3, <3>2 DEF OnTheWay, OrderIsSizes, Reads
  <2> QED BY <1>2, <1>3, <2>1, <2>3, <2>4
<1>6. ASSUME NEW c \in Correlators, CorrelatorWorksOn(c) PROVE AfterFailure'
  <2>1. CorrelatorNext(c) /\ UNCHANGED oVars /\ outputSlice' = outputSlice
    BY <1>6 DEF CorrelatorWorksOn, mVars
  <2>2. UNCHANGED <<oStatus, order, sizes, currSlice, currStream, file>>
    BY <2>1 DEF oVars
  <2>3. OnTheWay => OnTheWay'
    <3> SUFFICES ASSUME OnTheWay PROVE OnTheWay'
      OBVIOUS
    <3>1. ComesTo' = ComesTo /\ Follows'
      BY <2>1, CorrelatorFollows DEF OnTheWay
    <3> QED BY <2>1, <2>2, <3>1 DEF OnTheWay, OrderIsSizes, Reads
  <2> QED BY <1>2, <1>3, <2>1, <2>2, <2>3
<1>7. CASE OutputWorksOn
  BY <1>2, <1>7, OutputOnTheWay
<1> QED BY <1>4, <1>5, <1>6, <1>7 DEF AbortNext

LEMMA AbortInductive ==
  ASSUME ManagerAssumption, CorrelatorAssumption, AbortInv, [AbortNext]_vars
  PROVE  AbortInv'
<1>1. IInv /\ TypeOK
  BY DEF AbortInv, IInv
<1>2. IInv'
  BY <1>1, AbortIInv
<1>3. CASE failed = {}
  <2>1. [Next]_vars /\ OrderInv
    BY <1>3, BeforeFailure DEF AbortInv
  <2>2. OrderInv'
    BY <1>1, <2>1, InductiveOrder
  <2> QED BY <1>2, <2>2 DEF AbortInv
<1>4. CASE failed # {}
  <2>1. AfterFailure
    BY <1>1, StillOnTheWay DEF AbortInv
  <2>2. AfterFailure' /\ failed' # {}
    BY <1>1, <1>4, <2>1, FailureStep, FailuresStay
  <2> QED BY <1>2, <2>2 DEF AbortInv
<1> QED BY <1>3, <1>4

\* AbortInv holds in every state of a job, whatever fails and whenever.
LEMMA AbortInvariance ==
  ASSUME ManagerAssumption, CorrelatorAssumption
  PROVE  AbortSpec => []AbortInv
<1>1. Init => AbortInv
  <2> SUFFICES ASSUME Init PROVE AbortInv
    OBVIOUS
  <2>1. IInv /\ OrderInv
    BY InitIInv, InitOrder
  <2> QED BY <2>1 DEF AbortInv
<1>2. AbortInv /\ [AbortNext]_vars => AbortInv'
  BY AbortInductive
<1> QED BY <1>1, <1>2, PTL DEF AbortSpec

\* Also when END_NODE meets the nodes in the middle of their work, the messages
\* keep their types, no node gets a second request, and none is queued twice.
THEOREM TypesAfterAbort == AbortSpec => [](TypeOK /\ OneRequest /\ ReadyOnce)
<1>1. AbortInv => TypeOK /\ OneRequest /\ ReadyOnce
  BY DEF AbortInv, IInv
<1> QED BY <1>1, AbortInvariance, ManagerAssumption, CorrelatorAssumption, PTL

\* A correlator node that takes END_NODE leaves its loop in that step, or finishes in it the
\* slice it has in hand: the only way to outlive terminate().
THEOREM OnlyFinishersSurvive == AbortSpec => SurvivorsFinishTheirSlice
<1>1. AbortInv /\ [AbortNext]_vars =>
        [\A c \in Correlators : TakesEnd(c) => EndsOrFinishes(c)]_vars
  BY SurvivorsStep DEF AbortInv, IInv
<1>2. AbortSpec => [][\A c \in Correlators : TakesEnd(c) => EndsOrFinishes(c)]_vars
  BY <1>1, AbortInvariance, ManagerAssumption, CorrelatorAssumption, PTL DEF AbortSpec
<1> QED BY <1>2 DEF SurvivorsFinishTheirSlice, TakesEnd, EndsOrFinishes

\* Wherever END_NODE meets the output node, the file it leaves holds the slices
\* 0, 1, 2, ... up to some number, in order and each once.
THEOREM FileIsPrefix == AbortSpec => []PrefixAfterAbort
<1>1. AbortInv => PrefixAfterAbort
  BY StillOnTheWay DEF AbortInv, AfterFailure, IInv
<1> QED BY <1>1, AbortInvariance, ManagerAssumption, CorrelatorAssumption, PTL
=============================================================================
