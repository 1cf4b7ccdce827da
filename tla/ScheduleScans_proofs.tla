------------------------ MODULE ScheduleScans_proofs ------------------------
(***************************************************************************)
(* Proofs about the cutting of a job into slices, for any scans, channels  *)
(* and integration time: the slices handed out lie in their scans, in the  *)
(* order of time, a time slice gets all its channels, and which assertions *)
(* depend on the schedule of the job.  At the end, what is proved of every *)
(* job is proved of the job with broadcasts and full streams too.          *)
(***************************************************************************)
EXTENDS ScanBroadcast, Schedule_proofs

\* No step is taken after an assertion failed: the job has been stopped.
Timely == "input_node_set_time" \notin failed

\* The slice the manager is at lies in its scan.
InsideScan ==
  Timely /\ mStatus \in {"START_CORRELATION_TIME_SLICE", "START_CORRELATOR_NODES_FOR_TIME_SLICE",
                         "GOTO_NEXT_TIMESLICE"}
  => /\ scan \in 1 .. NumberScans
     /\ stopTimeScan = StartOf(SlicesUntil(scan))
     /\ integration < SlicesUntil(scan)
     /\ ScanStart[scan] <= StartOf(integration)

\* A scan starts where the one before it ended.
AfterLastScan == Timely /\ mStatus = "START_NEW_SCAN" => integration = SlicesUntil(scan - 1)

\* The slices handed out are earlier than those to come.
Earlier ==
  \A i \in 1 .. Len(dispatched) :
    /\ mStatus \in {"START_NEW_SCAN", "START_CORRELATION_TIME_SLICE"} =>
         dispatched[i].integration < integration
    /\ mStatus = "START_CORRELATOR_NODES_FOR_TIME_SLICE" =>
         \/ dispatched[i].integration < integration
         \/ dispatched[i].integration = integration /\ dispatched[i].channel < channel
    /\ mStatus = "GOTO_NEXT_TIMESLICE" => dispatched[i].integration <= integration

\* The manager only comes to a channel that was not done with an earlier one.
ChannelToDo ==
  /\ mStatus = "START_CORRELATOR_NODES_FOR_TIME_SLICE" => ~DoneAsCross(channel)
  /\ "start_next_timeslice_on_node" \notin failed

ScanInv == InsideScan /\ AfterLastScan /\ Earlier /\ SlicesOfScans /\ ChannelToDo

\* Channel ch of time slice n has been handed out, or the channel it is done with.
Handed(n, ch) ==
  \E j \in 1 .. Len(dispatched) :
    /\ dispatched[j].integration = n
    /\ dispatched[j].channel = ch \/ (DoneAsCross(ch) /\ dispatched[j].channel = CrossChannel[ch])

\* In the time slice the manager is at, the channels before the current one are
\* handed out; in those before, all of them are.
ChannelsInv ==
  /\ mStatus = "START_CORRELATOR_NODES_FOR_TIME_SLICE" =>
       \A ch \in Channels : ch < channel => Handed(integration, ch)
  /\ \A i \in 1 .. Len(dispatched) :
       \/ mStatus = "START_CORRELATOR_NODES_FOR_TIME_SLICE" /\ dispatched[i].integration = integration
       \/ \A ch \in Channels : Handed(dispatched[i].integration, ch)

-----------------------------------------------------------------------------
\* Multiples of T, and what rounding to them does.
LEMMA MulMono == \A T \in Nat, i, k \in Int : i <= k => T * i <= T * k
OBVIOUS

LEMMA MulNext == \A T \in Int, i \in Int : T * (i + 1) = T * i + T /\ T * i \in Int
OBVIOUS

LEMMA MulLess == \A T \in Nat, i, k \in Int : T * i < T * k => i < k
<1> SUFFICES ASSUME NEW T \in Nat, NEW i \in Int, NEW k \in Int, T * i < T * k, ~(i < k) PROVE FALSE
  OBVIOUS
<1>1. k <= i
  OBVIOUS
<1>2. T * k <= T * i
  BY <1>1, MulMono
<1>3. T * k \in Int /\ T * i \in Int
  OBVIOUS
<1> QED BY <1>2, <1>3

LEMMA DivMod ==
  \A T \in Nat \ {0}, a \in Nat :
    a \div T \in Nat /\ a % T \in 0 .. T - 1 /\ a = T * (a \div T) + (a % T)
<1> TAKE T \in Nat \ {0}, a \in Nat
<1>1. a \div T \in Nat
  OBVIOUS
<1>2. a % T \in 0 .. T - 1
  OBVIOUS
<1>3. a = T * (a \div T) + (a % T)
  OBVIOUS
<1> QED BY <1>1, <1>2, <1>3

LEMMA RoundedDown ==
  \A T \in Nat \ {0}, a \in Nat : a - (a % T) = T * (a \div T) /\ T * (a \div T) <= a
<1> TAKE T \in Nat \ {0}, a \in Nat
<1>1. PICK q \in Nat, r \in 0 .. T - 1 : q = a \div T /\ r = a % T /\ a = T * q + r
  BY DivMod
<1>2. PICK m \in Int : m = T * q
  BY MulNext
<1> QED BY <1>1, <1>2

\* The first multiple of T from a on.
LEMMA RoundedUp ==
  \A T \in Nat \ {0}, a \in Nat :
    (a + T - 1) \div T \in Nat /\ a <= T * ((a + T - 1) \div T)
<1> TAKE T \in Nat \ {0}, a \in Nat
<1>1. PICK b \in Nat : b = a + T - 1
  OBVIOUS
<1>2. PICK q \in Nat, r \in 0 .. T - 1 : q = b \div T /\ r = b % T /\ b = T * q + r
  BY DivMod
<1>3. PICK m \in Int : m = T * q
  BY MulNext
<1> QED BY <1>1, <1>2, <1>3

LEMMA RoundedUpLeast ==
  \A T \in Nat \ {0}, a, n \in Nat : a <= T * n => (a + T - 1) \div T <= n
<1> SUFFICES ASSUME NEW T \in Nat \ {0}, NEW a \in Nat, NEW n \in Nat, a <= T * n
             PROVE  (a + T - 1) \div T <= n
  OBVIOUS
<1>1. PICK b \in Nat : b = a + T - 1
  OBVIOUS
<1>2. PICK q \in Nat, r \in 0 .. T - 1 : q = b \div T /\ r = b % T /\ b = T * q + r
  BY DivMod
<1>3. PICK m \in Int, k \in Int : m = T * q /\ k = T * n
  BY MulNext
<1>4. m < k + T
  BY <1>1, <1>2, <1>3
<1>5. T * q < T * (n + 1)
  BY <1>3, <1>4, MulNext
<1>6. q < n + 1
  BY <1>5, MulLess
<1> QED BY <1>1, <1>2, <1>6

-----------------------------------------------------------------------------
LEMMA SlicesUntilType ==
  ASSUME ManagerAssumption
  PROVE  /\ IntegrationTime \in Nat \ {0} /\ StopTime \in Nat /\ NumberScans \in Nat
         /\ SlicesUntil(0) = 0
         /\ \A i \in 1 .. NumberScans :
              /\ SlicesUntil(i) \in Nat /\ ScanStart[i] \in Nat
              /\ SlicesUntil(i) = Lesser(StopTime, ScanStop[i]) \div IntegrationTime
              /\ Lesser(StopTime, ScanStop[i]) \in Nat
              /\ StartOf(SlicesUntil(i)) <= Lesser(StopTime, ScanStop[i])
<1>1. IntegrationTime \in Nat \ {0} /\ StopTime \in Nat
  BY DEF ManagerAssumption
<1>2. NumberScans \in Nat /\ \A i \in 1 .. NumberScans : ScanStart[i] \in Nat /\ ScanStop[i] \in Nat
  BY ScansType
<1>3. ASSUME NEW i \in 1 .. NumberScans
      PROVE  /\ SlicesUntil(i) \in Nat /\ ScanStart[i] \in Nat
             /\ SlicesUntil(i) = Lesser(StopTime, ScanStop[i]) \div IntegrationTime
             /\ Lesser(StopTime, ScanStop[i]) \in Nat
             /\ StartOf(SlicesUntil(i)) <= Lesser(StopTime, ScanStop[i])
  <2>1. PICK a \in Nat : a = Lesser(StopTime, ScanStop[i])
    BY <1>1, <1>2 DEF Lesser
  <2>2. SlicesUntil(i) = a \div IntegrationTime
    BY <2>1 DEF SlicesUntil
  <2>3. a \div IntegrationTime \in Nat /\ IntegrationTime * (a \div IntegrationTime) <= a
    BY <1>1, DivMod, RoundedDown
  <2> QED BY <1>2, <2>1, <2>2, <2>3 DEF StartOf
<1> QED BY <1>1, <1>2, <1>3 DEF SlicesUntil

LEMMA SliceStartsInOrder ==
  ASSUME ManagerAssumption
  PROVE  \A i, k \in Nat : StartOf(i) \in Nat /\ (i <= k => StartOf(i) <= StartOf(k))
<1>1. PICK T \in Nat : T = IntegrationTime
  BY SlicesUntilType
<1>2. \A i, k \in Nat : T * i \in Nat /\ (i <= k => T * i <= T * k)
  BY MulMono
<1> QED BY <1>1, <1>2 DEF StartOf

\* The first slice of a scan: not before the one the manager is at, not before
\* the scan starts, and no later than needed for that.
LEMMA FirstSliceBounds ==
  ASSUME ManagerAssumption, integration \in Nat, scan \in 1 .. NumberScans
  PROVE  /\ FirstSliceOfScan \in Nat
         /\ FirstSliceOfScan
              = Larger(integration, (ScanStart[scan] + IntegrationTime - 1) \div IntegrationTime)
         /\ integration <= FirstSliceOfScan
         /\ ScanStart[scan] <= StartOf(FirstSliceOfScan)
<1>1. PICK T \in Nat \ {0}, n \in Nat, a \in Nat :
        T = IntegrationTime /\ n = integration /\ a = ScanStart[scan]
  BY SlicesUntilType
<1>2. PICK q \in Nat : q = (a + T - 1) \div T /\ a <= T * q
  BY RoundedUp
<1>3. T * n < a => n < q
  <2>1. T * n \in Int /\ T * q \in Int
    BY MulNext
  <2>2. T * n < a => T * n < T * q
    BY <1>2, <2>1
  <2> QED BY <2>2, MulLess
<1>4. ~(T * n < a) => a <= T * n /\ q <= n
  <2>1. ~(T * n < a) => a <= T * n
    BY MulNext
  <2> QED BY <1>2, <2>1, RoundedUpLeast
<1>5. FirstSliceOfScan = IF T * n < a THEN q ELSE n
  BY <1>1, <1>2 DEF FirstSliceOfScan, StartOf
<1>6. FirstSliceOfScan \in Nat /\ FirstSliceOfScan = Larger(n, q) /\ n <= FirstSliceOfScan
  BY <1>3, <1>4, <1>5 DEF Larger
<1>7. a <= T * FirstSliceOfScan
  BY <1>2, <1>4, <1>5
<1> QED BY <1>1, <1>2, <1>6, <1>7 DEF StartOf

\* START_NEW_SCAN goes forward in time, into the scan.
LEMMA ScanIsStarted ==
  ASSUME ManagerAssumption, IInv, StartNewScan
  PROVE  /\ integration' \in Nat /\ integration <= integration'
         /\ ScanStart[scan] <= StartOf(integration')
         /\ stopTimeScan' = StartOf(SlicesUntil(scan))
         /\ \E t \in StationTimes :
              integration' = Larger(Larger(integration,
                 (ScanStart[scan] + IntegrationTime - 1) \div IntegrationTime), t \div IntegrationTime)
<1>1. integration \in Nat /\ scan \in 1 .. NumberScans
  BY DEF IInv, TypeOK, ManagerTypeOK, InBounds, StartNewScan
<1>2. PICK t \in StationTimes : integration' = Larger(FirstSliceOfScan, t \div IntegrationTime)
  BY DEF StartNewScan
<1>3. t \in Nat /\ IntegrationTime \in Nat \ {0}
  BY DEF ManagerAssumption
<1>4. t \div IntegrationTime \in Nat
  BY <1>3, DivMod
<1>5. PICK f \in Nat, u \in Nat : f = FirstSliceOfScan /\ u = t \div IntegrationTime
  BY <1>1, <1>4, FirstSliceBounds
<1>6. integration' = Larger(f, u) /\ integration' \in Nat /\ f <= integration'
  BY <1>2, <1>5 DEF Larger
<1>7. integration <= f /\ ScanStart[scan] <= StartOf(f)
  BY <1>1, <1>5, FirstSliceBounds
<1>8. ScanStart[scan] <= StartOf(integration')
  <2>1. StartOf(f) \in Nat /\ StartOf(integration') \in Nat /\ StartOf(f) <= StartOf(integration')
    BY <1>6, SliceStartsInOrder
  <2>2. ScanStart[scan] \in Nat
    BY <1>1, SlicesUntilType
  <2> QED BY <1>7, <2>1, <2>2
<1>9. stopTimeScan' = StartOf(SlicesUntil(scan))
  <2>1. PICK a \in Nat : a = Lesser(StopTime, ScanStop[scan])
    BY <1>1, SlicesUntilType
  <2>2. stopTimeScan' = a - (a % IntegrationTime)
    BY <2>1 DEF StartNewScan, AlignedStopOfScan
  <2>3. SlicesUntil(scan) = a \div IntegrationTime
    BY <1>1, <2>1, SlicesUntilType
  <2> QED BY <1>3, <2>2, <2>3, RoundedDown DEF StartOf
<1>10. integration <= integration'
  BY <1>1, <1>6, <1>7
<1> QED BY <1>1, <1>2, <1>6, <1>8, <1>9, <1>10, FirstSliceBounds

\* A slice before the end of its scan ends in it.
LEMMA SliceEnds ==
  ASSUME ManagerAssumption, NEW i \in 1 .. NumberScans, NEW n \in Nat
  PROVE  /\ n < SlicesUntil(i) => StartOf(n + 1) <= Lesser(StopTime, ScanStop[i])
         /\ StartOf(n) < StartOf(SlicesUntil(i)) => n < SlicesUntil(i)
         /\ StartOf(n) <= StartOf(SlicesUntil(i)) => n <= SlicesUntil(i)
<1>1. PICK T \in Nat \ {0}, u \in Nat, a \in Nat :
        T = IntegrationTime /\ u = SlicesUntil(i) /\ a = Lesser(StopTime, ScanStop[i])
  BY SlicesUntilType
<1>2. T * u <= a
  BY <1>1, SlicesUntilType DEF StartOf
<1>3. n < u => T * (n + 1) <= a
  <2>1. n < u => T * (n + 1) <= T * u
    BY MulMono
  <2>2. T * (n + 1) \in Int /\ T * u \in Int
    BY MulNext
  <2> QED BY <1>2, <2>1, <2>2
<1>4. T * n < T * u => n < u
  BY MulLess
<1>5. T * n <= T * u => n <= u
  <2>1. T * n <= T * u => T * n < T * (u + 1)
    BY MulNext
  <2>2. T * n < T * (u + 1) => n < u + 1
    BY MulLess
  <2> QED BY <2>1, <2>2
<1> QED BY <1>1, <1>3, <1>4, <1>5 DEF StartOf

-----------------------------------------------------------------------------
\* The steps of the manager. A slice that is handed out:
LEMMA HandsOut ==
  ASSUME ManagerAssumption, IInv, StartCorrelatorNode
  PROVE  \E e \in Dispatch :
           /\ e.scan = scan /\ e.integration = integration /\ e.channel = channel
           /\ Len(dispatched') = Len(dispatched) + 1 /\ Len(dispatched) \in Nat
           /\ dispatched'[Len(dispatched) + 1] = e
           /\ \A i \in 1 .. Len(dispatched) : dispatched'[i] = dispatched[i]
           /\ dispatched' \in Seq(Dispatch)
<1> DEFINE d == [scan |-> scan, integration |-> integration, channel |-> channel]
<1>1. /\ scan \in Nat /\ integration \in Nat /\ channel \in Channels /\ dispatched \in Seq(Dispatch)
  BY DEF IInv, TypeOK, ManagerTypeOK, InBounds, StartCorrelatorNode
<1>2. PICK e \in Dispatch : e = d
  BY <1>1 DEF Dispatch
<1>3. e.scan = scan /\ e.integration = integration /\ e.channel = channel
  BY <1>2
<1>4. dispatched' = Append(dispatched, e)
  BY <1>2 DEF StartCorrelatorNode
<1> QED BY <1>1, <1>3, <1>4, AppendProperties, LenProperties

LEMMA ManagerScans ==
  ASSUME ManagerAssumption, IInv, ScanInv, ManagerNext, failed = {}
  PROVE  ScanInv'
<1> USE DEF ScanInv
<1>1. /\ integration \in Nat /\ scan \in Nat /\ scan >= 1 /\ channel \in 0 .. NumberChannels
      /\ mStatus \in MStatus /\ dispatched \in Seq(Dispatch) /\ Len(dispatched) \in Nat
      /\ \A i \in 1 .. Len(dispatched) :
           dispatched[i].integration \in Nat /\ dispatched[i].channel \in Nat
  <2>1. /\ integration \in Nat /\ scan \in Nat /\ scan >= 1 /\ channel \in 0 .. NumberChannels
        /\ mStatus \in MStatus /\ dispatched \in Seq(Dispatch)
    BY DEF IInv, TypeOK, ManagerTypeOK, InBounds
  <2>2. \A i \in 1 .. Len(dispatched) : dispatched[i] \in Dispatch
    BY <2>1, ElementOfSeq
  <2>3. Channels \subseteq Nat
    BY DEF Channels
  <2> QED BY <2>1, <2>2, <2>3, LenProperties DEF Dispatch
<1>2. Timely /\ DOMAIN dispatched = 1 .. Len(dispatched)
  BY <1>1, LenProperties DEF Timely
<1>3. dispatched' = dispatched => SlicesOfScans'
  BY DEF SlicesOfScans
<1>4. CASE (\E c \in Correlators : ReceiveEnded(c)) \/ ReceiveFinished \/ StopCorrelating \/ TerminateNodes
  <2>1. /\ UNCHANGED <<scan, integration, channel, stopTimeScan, dispatched>>
        /\ mStatus' = mStatus \/ mStatus' \in {"END_NODE", "WAIT_FOR_OUTPUT_NODE", "GONE"}
        /\ failed' \subseteq failed \cup {"end_correlation"}
    BY <1>4 DEF ReceiveEnded, ReceiveFinished, StopCorrelating, TerminateNodes, SfxcAssert
  <2>2. Timely'
    BY <1>2, <2>1 DEF Timely
  <2> QED BY <1>2, <1>3, <2>1, <2>2 DEF InsideScan, AfterLastScan, Earlier, ChannelToDo
<1>5. CASE StartNewScan
  <2>1. /\ UNCHANGED <<scan, channel, dispatched>> /\ mStatus = "START_NEW_SCAN"
        /\ mStatus' \in {"STOP_CORRELATING", "START_CORRELATION_TIME_SLICE"}
        /\ mStatus' = "START_CORRELATION_TIME_SLICE" /\ Timely'
             => StartOf(integration') < stopTimeScan'
        /\ failed' \subseteq failed \cup {"input_node_set_time"}
    BY <1>5 DEF StartNewScan, SfxcAssert, Timely
  <2>2. scan \in 1 .. NumberScans
    BY <2>1 DEF IInv, InBounds
  <2>3. PICK n \in Nat : n = integration' /\ integration <= n /\ ScanStart[scan] <= StartOf(n)
    BY <1>5, ScanIsStarted
  <2>4. stopTimeScan' = StartOf(SlicesUntil(scan))
    BY <1>5, ScanIsStarted
  <2>5. mStatus' = "START_CORRELATION_TIME_SLICE" /\ Timely' => n < SlicesUntil(scan)
    BY <2>1, <2>2, <2>3, <2>4, SliceEnds
  <2>6. InsideScan' /\ AfterLastScan'
    BY <2>1, <2>2, <2>3, <2>4, <2>5 DEF InsideScan, AfterLastScan
  <2>7. Earlier'
    BY <1>1, <2>1, <2>3 DEF Earlier
  <2>8. ChannelToDo'
    BY <2>1 DEF ChannelToDo
  <2> QED BY <1>3, <2>1, <2>6, <2>7, <2>8
<1>6. CASE StartCorrelationTimeSlice
  <2>1. /\ UNCHANGED <<scan, integration, stopTimeScan, dispatched, failed>> /\ channel' = 0
        /\ mStatus = "START_CORRELATION_TIME_SLICE"
        /\ mStatus' = "START_CORRELATOR_NODES_FOR_TIME_SLICE"
    BY <1>6 DEF StartCorrelationTimeSlice, mailboxes
  <2>2. ~DoneAsCross(0)
    <3>1. 0 \in Channels
      BY DEF ManagerAssumption, Channels
    <3>2. CrossChannel[0] \in {-1} \cup Nat
      BY <3>1 DEF ManagerAssumption, Channels
    <3> QED BY <3>2 DEF DoneAsCross
  <2>3. InsideScan' /\ AfterLastScan' /\ Earlier' /\ ChannelToDo'
    BY <2>1, <2>2 DEF InsideScan, AfterLastScan, Earlier, ChannelToDo, Timely
  <2> QED BY <1>3, <2>1, <2>3
<1>7. CASE GotoNextTimeslice
  <2>1. /\ integration' = integration + 1 /\ UNCHANGED <<channel, stopTimeScan, dispatched, failed>>
        /\ mStatus = "GOTO_NEXT_TIMESLICE"
        /\ \/ mStatus' = "STOP_CORRELATING"
           \/ /\ StartOf(integration' + 1) > stopTimeScan
              /\ scan' = scan + 1 /\ mStatus' = "START_NEW_SCAN"
           \/ /\ StartOf(integration' + 1) <= stopTimeScan
              /\ scan' = scan /\ mStatus' = "START_CORRELATION_TIME_SLICE"
    BY <1>7 DEF GotoNextTimeslice, mailboxes
  <2>2. /\ scan \in 1 .. NumberScans /\ stopTimeScan = StartOf(SlicesUntil(scan))
        /\ integration < SlicesUntil(scan) /\ ScanStart[scan] <= StartOf(integration)
        /\ SlicesUntil(scan) \in Nat /\ ScanStart[scan] \in Nat
    BY <1>2, <2>1, SlicesUntilType DEF InsideScan
  <2>3. PICK n \in Nat : n = integration + 1 /\ integration' = n
    BY <1>1, <2>1
  <2>4. StartOf(n + 1) > stopTimeScan => n = SlicesUntil(scan)
    <3>1. StartOf(n + 1) > stopTimeScan => ~(n + 1 <= SlicesUntil(scan))
      <4>1. PICK T \in Nat, u \in Nat : T = IntegrationTime /\ u = SlicesUntil(scan)
        BY <2>2, SlicesUntilType
      <4>2. n + 1 <= u => T * (n + 1) <= T * u
        BY MulMono
      <4>3. T * (n + 1) \in Int /\ T * u \in Int
        BY MulNext
      <4> QED BY <2>2, <4>1, <4>2, <4>3 DEF StartOf
    <3> QED BY <1>1, <2>2, <2>3, <3>1
  <2>5. StartOf(n + 1) <= stopTimeScan => n < SlicesUntil(scan)
    <3>1. StartOf(n + 1) <= stopTimeScan => n + 1 <= SlicesUntil(scan)
      BY <2>2, SliceEnds
    <3> QED BY <2>2, <3>1
  <2>6. ScanStart[scan] <= StartOf(n)
    <3>1. \A i, k \in Nat : StartOf(i) \in Nat /\ (i <= k => StartOf(i) <= StartOf(k))
      BY SliceStartsInOrder
    <3>2. integration \in Nat /\ integration <= n
      BY <1>1, <2>3
    <3>3. StartOf(integration) \in Nat /\ StartOf(n) \in Nat /\ StartOf(integration) <= StartOf(n)
      BY <3>1, <3>2
    <3> QED BY <2>2, <3>3
  <2>7. InsideScan'
    BY <2>1, <2>2, <2>3, <2>5, <2>6 DEF InsideScan
  <2>8. AfterLastScan'
    BY <1>1, <2>1, <2>3, <2>4 DEF AfterLastScan
  <2>9. Earlier'
    BY <1>1, <2>1 DEF Earlier
  <2>10. ChannelToDo'
    BY <2>1 DEF ChannelToDo
  <2> QED BY <1>3, <2>1, <2>7, <2>8, <2>9, <2>10
<1>8. CASE StartCorrelatorNode
  <2>1. /\ UNCHANGED <<scan, integration, stopTimeScan>>
        /\ mStatus = "START_CORRELATOR_NODES_FOR_TIME_SLICE"
        /\ channel' = NextChannel(channel) /\ channel \in Channels
        /\ mStatus' = IF channel' = NumberChannels THEN "GOTO_NEXT_TIMESLICE" ELSE mStatus
        /\ SfxcAssert("start_next_timeslice_on_node",
                      CrossChannel[channel] = -1 \/ CrossChannel[channel] > channel)
    BY <1>8 DEF StartCorrelatorNode, IInv, InBounds
  <2>2. failed' = failed
    <3>1. /\ CrossChannel[channel] \in {-1} \cup Channels /\ CrossChannel[channel] # channel
          /\ ~DoneAsCross(channel)
      BY <2>1, ManagerAssumption DEF ManagerAssumption, ChannelToDo
    <3>2. CrossChannel[channel] = -1 \/ CrossChannel[channel] > channel
      BY <2>1, <3>1 DEF DoneAsCross, Channels
    <3> QED BY <2>1, <3>2 DEF SfxcAssert
  <2>3. /\ channel' \in channel + 1 .. NumberChannels
        /\ channel' # NumberChannels => ~DoneAsCross(channel')
    BY <2>1, NextChannelSkips
  <2>4. ChannelToDo'
    BY <2>1, <2>2, <2>3 DEF ChannelToDo
  <2>5. InsideScan' /\ AfterLastScan'
    BY <2>1, <2>2 DEF InsideScan, AfterLastScan, Timely
  <2>6. PICK e \in Dispatch :
          /\ e.scan = scan /\ e.integration = integration /\ e.channel = channel
          /\ Len(dispatched') = Len(dispatched) + 1
          /\ dispatched'[Len(dispatched) + 1] = e
          /\ \A i \in 1 .. Len(dispatched) : dispatched'[i] = dispatched[i]
          /\ dispatched' \in Seq(Dispatch)
    BY <1>8, HandsOut
  <2>7. \A i \in 1 .. Len(dispatched') :
          \/ i \in 1 .. Len(dispatched) /\ dispatched'[i] = dispatched[i]
          \/ i = Len(dispatched) + 1 /\ dispatched'[i] = e
    BY <1>1, <2>6
  <2>8. Earlier'
    <3>1. ASSUME NEW i \in 1 .. Len(dispatched')
          PROVE  \/ dispatched'[i].integration < integration
                 \/ dispatched'[i].integration = integration /\ dispatched'[i].channel < channel'
      <4>1. CASE i \in 1 .. Len(dispatched) /\ dispatched'[i] = dispatched[i]
        <5>1. \/ dispatched[i].integration < integration
              \/ dispatched[i].integration = integration /\ dispatched[i].channel < channel
          BY <2>1, <4>1 DEF Earlier
        <5> QED BY <1>1, <2>3, <4>1, <5>1
      <4>2. CASE dispatched'[i] = e
        BY <1>1, <2>3, <2>6, <4>2
      <4> QED BY <2>7, <4>1, <4>2
    <3>2. integration' = integration /\ mStatus' \in {"GOTO_NEXT_TIMESLICE", mStatus}
      BY <2>1
    <3>3. \A i \in 1 .. Len(dispatched') : dispatched'[i].integration \in Nat
      BY <1>1, <2>6, <2>7
    <3> QED BY <1>1, <2>1, <3>1, <3>2, <3>3 DEF Earlier
  <2>9. InScan(e)
    <3>1. /\ scan \in 1 .. NumberScans /\ integration < SlicesUntil(scan)
          /\ ScanStart[scan] <= StartOf(integration)
      BY <1>2, <2>1 DEF InsideScan
    <3>2. StartOf(integration + 1) <= Lesser(StopTime, ScanStop[scan])
      BY <1>1, <3>1, SliceEnds
    <3>3. StartOf(integration) \in Int /\ ScanStart[scan] \in Nat
      BY <1>1, <3>1, SlicesUntilType, MulNext DEF StartOf
    <3> QED BY <2>6, <3>1, <3>2, <3>3 DEF InScan
  <2>10. SlicesOfScans'
    <3>1. DOMAIN dispatched' = 1 .. Len(dispatched')
      BY <2>6, LenProperties
    <3>2. ASSUME NEW i \in 1 .. Len(dispatched') PROVE InScan(dispatched'[i])
      BY <1>2, <2>7, <2>9 DEF SlicesOfScans
    <3>3. ASSUME NEW i \in 1 .. Len(dispatched'), NEW j \in 1 .. Len(dispatched'), i < j
          PROVE  Before(dispatched'[i], dispatched'[j])
      <4>1. i \in 1 .. Len(dispatched) /\ dispatched'[i] = dispatched[i]
        BY <1>1, <2>6, <3>3
      <4>2. CASE j \in 1 .. Len(dispatched) /\ dispatched'[j] = dispatched[j]
        BY <1>2, <3>3, <4>1, <4>2 DEF SlicesOfScans
      <4>3. CASE dispatched'[j] = e
        <5>1. \/ dispatched[i].integration < integration
              \/ dispatched[i].integration = integration /\ dispatched[i].channel < channel
          BY <2>1, <4>1 DEF Earlier
        <5> QED BY <2>6, <4>1, <4>3, <5>1 DEF Before
      <4> QED BY <2>7, <4>2, <4>3
    <3> QED BY <3>1, <3>2, <3>3 DEF SlicesOfScans
  <2> QED BY <2>4, <2>5, <2>8, <2>10
<1> QED BY <1>4, <1>5, <1>6, <1>7, <1>8 DEF ManagerNext, ManagerLoop

-----------------------------------------------------------------------------
\* A slice that was handed out stays so, and the channels up to the next one
\* are handed out with it.
LEMMA HandedGrows ==
  ASSUME ManagerAssumption, IInv, StartCorrelatorNode
  PROVE  \A m \in Nat, x \in Channels : Handed(m, x) => Handed(m, x)'
<1>1. PICK e \in Dispatch :
        /\ Len(dispatched') = Len(dispatched) + 1 /\ Len(dispatched) \in Nat
        /\ \A i \in 1 .. Len(dispatched) : dispatched'[i] = dispatched[i]
  BY HandsOut
<1>2. ASSUME NEW m \in Nat, NEW x \in Channels, Handed(m, x) PROVE Handed(m, x)'
  <2>1. PICK j \in 1 .. Len(dispatched) :
          /\ dispatched[j].integration = m
          /\ dispatched[j].channel = x \/ (DoneAsCross(x) /\ dispatched[j].channel = CrossChannel[x])
    BY <1>2 DEF Handed
  <2>2. j \in 1 .. Len(dispatched') /\ dispatched'[j] = dispatched[j]
    BY <1>1
  <2> QED BY <2>1, <2>2 DEF Handed, DoneAsCross
<1> QED BY <1>2

LEMMA HandsOutUpToNext ==
  ASSUME ManagerAssumption, ChannelsPaired, IInv, ChannelsInv, StartCorrelatorNode
  PROVE  \A x \in Channels : x < NextChannel(channel) => Handed(integration, x)'
<1>1. /\ mStatus = "START_CORRELATOR_NODES_FOR_TIME_SLICE"
      /\ channel \in Channels /\ integration \in Nat
      /\ NumberChannels \in Nat /\ Channels = 0 .. NumberChannels - 1
  BY DEF StartCorrelatorNode, IInv, InBounds, TypeOK, ManagerTypeOK, ManagerAssumption, Channels
<1>2. PICK n \in Nat, c \in Channels : n = integration /\ c = channel
  BY <1>1
<1>3. PICK e \in Dispatch :
        /\ e.integration = n /\ e.channel = c
        /\ Len(dispatched') = Len(dispatched) + 1 /\ Len(dispatched) \in Nat
        /\ dispatched'[Len(dispatched) + 1] = e
  BY <1>2, HandsOut
<1>4. \A x \in Channels : Handed(n, x) => Handed(n, x)'
  BY HandedGrows
<1>5. \A x \in Channels : x < c => Handed(n, x)
  BY <1>1, <1>2 DEF ChannelsInv
<1>6. Handed(n, c)'
  <2>1. Len(dispatched) + 1 \in 1 .. Len(dispatched')
    BY <1>3
  <2> QED BY <1>3, <2>1 DEF Handed
<1>7. PICK k \in c + 1 .. NumberChannels :
        k = NextChannel(c) /\ \A x \in c + 1 .. k - 1 : DoneAsCross(x)
  BY NextChannelSkips
<1>8. ASSUME NEW x \in Channels, x < k, x > c PROVE Handed(n, x)'
  <2>1. DoneAsCross(x)
    BY <1>1, <1>7, <1>8
  <2>2. PICK p \in Channels : p = CrossChannel[x] /\ p < x /\ CrossChannel[p] = x
    <3>1. CrossChannel[x] \in {-1} \cup Channels /\ CrossChannel[x] >= 0 /\ CrossChannel[x] < x
      BY <2>1 DEF DoneAsCross, ManagerAssumption
    <3> QED BY <3>1 DEF ChannelsPaired
  <2>3. ~DoneAsCross(p)
    BY <1>1, <2>2 DEF DoneAsCross
  <2>4. ~(p > c)
    BY <1>1, <1>7, <1>8, <2>2, <2>3
  <2>5. Handed(n, p)'
    BY <1>1, <1>4, <1>5, <1>6, <2>4
  <2>6. PICK j \in 1 .. Len(dispatched') :
          dispatched'[j].integration = n /\ dispatched'[j].channel = p
    BY <2>3, <2>5 DEF Handed, DoneAsCross
  <2> QED BY <2>1, <2>2, <2>6 DEF Handed, DoneAsCross
<1>9. ASSUME NEW x \in Channels, x < k PROVE Handed(n, x)'
  <2>1. x < c \/ x = c \/ x > c
    BY <1>1
  <2> QED BY <1>4, <1>5, <1>6, <1>8, <1>9, <2>1
<1>10. ASSUME NEW x \in Channels, x < NextChannel(channel) PROVE Handed(integration, x)'
  <2>1. x < k
    BY <1>2, <1>7, <1>10
  <2>2. PICK m \in Nat : m = integration'
    BY <1>1 DEF StartCorrelatorNode
  <2>3. m = n
    BY <1>2, <2>2 DEF StartCorrelatorNode
  <2>4. Handed(n, x)'
    BY <1>9, <2>1
  <2> QED BY <2>2, <2>3, <2>4 DEF Handed
<1> QED BY <1>10

\* A started time slice gets all its channels, when the channels are paired.
LEMMA ManagerChannels ==
  ASSUME ManagerAssumption, ChannelsPaired, IInv, ChannelsInv, ManagerNext, ProtocolHolds'
  PROVE  ChannelsInv'
<1>1. /\ dispatched \in Seq(Dispatch) /\ Len(dispatched) \in Nat /\ mStatus \in MStatus
      /\ NumberChannels \in Nat /\ Channels = 0 .. NumberChannels - 1
      /\ \A i \in 1 .. Len(dispatched) : dispatched[i].integration \in Nat
  <2>1. dispatched \in Seq(Dispatch) /\ mStatus \in MStatus
    BY DEF IInv, TypeOK, ManagerTypeOK
  <2>2. \A i \in 1 .. Len(dispatched) : dispatched[i] \in Dispatch
    BY <2>1, ElementOfSeq
  <2> QED BY <2>1, <2>2, LenProperties DEF Dispatch, Channels, ManagerAssumption
<1>2. CASE ~StartCorrelatorNode
  <2>1. ReceiveFinished => mStatus # "START_CORRELATOR_NODES_FOR_TIME_SLICE"
    <3>1. "end_correlation" \in ProtocolAssertions
      BY DEF ProtocolAssertions, Assertions
    <3>2. "end_correlation" \notin failed'
      BY <3>1 DEF ProtocolHolds
    <3>3. ReceiveFinished => SfxcAssert("end_correlation", mStatus = "WAIT_FOR_OUTPUT_NODE")
      BY DEF ReceiveFinished
    <3> QED BY <3>2, <3>3 DEF SfxcAssert
  <2>2. /\ dispatched' = dispatched
        /\ mStatus' = "START_CORRELATOR_NODES_FOR_TIME_SLICE" =>
             \/ channel' = 0
             \/ mStatus = mStatus' /\ integration' = integration /\ channel' = channel
        /\ mStatus = "START_CORRELATOR_NODES_FOR_TIME_SLICE" =>
             mStatus' = mStatus /\ integration' = integration
    BY <1>2, <2>1 DEF ManagerNext, ManagerLoop, ReceiveEnded, ReceiveFinished, StartNewScan,
       StartCorrelationTimeSlice, GotoNextTimeslice, StopCorrelating, TerminateNodes
  <2>3. ASSUME mStatus' = "START_CORRELATOR_NODES_FOR_TIME_SLICE",
               NEW ch \in Channels, ch < channel'
        PROVE  Handed(integration, ch)'
    <3>1. channel' # 0
      BY <1>1, <2>3
    <3> QED BY <2>2, <2>3, <3>1 DEF ChannelsInv, Handed
  <2>4. ASSUME NEW i \in 1 .. Len(dispatched')
        PROVE  \/ /\ mStatus' = "START_CORRELATOR_NODES_FOR_TIME_SLICE"
                  /\ dispatched'[i].integration = integration'
               \/ \A ch \in Channels : Handed(dispatched[i].integration, ch)'
    <3>1. \/ /\ mStatus = "START_CORRELATOR_NODES_FOR_TIME_SLICE"
             /\ dispatched[i].integration = integration
          \/ \A ch \in Channels : Handed(dispatched[i].integration, ch)
      BY <2>2, <2>4 DEF ChannelsInv
    <3> QED BY <2>2, <3>1 DEF Handed
  <2> QED BY <2>3, <2>4 DEF ChannelsInv
<1>3. CASE StartCorrelatorNode
  <2>1. /\ mStatus = "START_CORRELATOR_NODES_FOR_TIME_SLICE" /\ integration' = integration
        /\ channel' = NextChannel(channel)
        /\ mStatus' = IF channel' = NumberChannels THEN "GOTO_NEXT_TIMESLICE" ELSE mStatus
    BY <1>3 DEF StartCorrelatorNode
  <2>2. \A x \in Channels : x < channel' => Handed(integration, x)'
    BY <1>3, <2>1, HandsOutUpToNext
  <2>3. \A m \in Nat, x \in Channels : Handed(m, x) => Handed(m, x)'
    BY <1>3, HandedGrows
  <2>4. PICK e \in Dispatch :
          /\ e.integration = integration
          /\ Len(dispatched') = Len(dispatched) + 1
          /\ dispatched'[Len(dispatched) + 1] = e
          /\ \A i \in 1 .. Len(dispatched) : dispatched'[i] = dispatched[i]
    BY <1>3, HandsOut
  <2>5. ASSUME NEW i \in 1 .. Len(dispatched'), dispatched'[i].integration = integration'
        PROVE  \/ mStatus' = "START_CORRELATOR_NODES_FOR_TIME_SLICE"
               \/ \A ch \in Channels : Handed(dispatched[i].integration, ch)'
    <3>1. CASE channel' = NumberChannels
      <4>1. \A ch \in Channels : Handed(integration, ch)'
        BY <1>1, <2>2, <3>1
      <4> QED BY <2>5, <4>1 DEF Handed
    <3>2. CASE channel' # NumberChannels
      BY <2>1, <3>2
    <3> QED BY <3>1, <3>2
  <2>6. ASSUME NEW i \in 1 .. Len(dispatched'), dispatched'[i].integration # integration'
        PROVE  \A ch \in Channels : Handed(dispatched[i].integration, ch)'
    <3>1. i \in 1 .. Len(dispatched) /\ dispatched'[i] = dispatched[i]
      <4>1. i # Len(dispatched) + 1
        BY <2>1, <2>4, <2>6
      <4>2. PICK L \in Nat : L = Len(dispatched)
        BY <1>1
      <4>3. i \in 1 .. L + 1
        BY <2>4, <4>2
      <4>4. i \in 1 .. L
        <5>1. i # L + 1
          BY <4>1, <4>2
        <5> QED BY <4>3, <5>1
      <4> QED BY <2>4, <4>2, <4>4
    <3>2. PICK m \in Nat : m = dispatched[i].integration
      BY <1>1, <3>1
    <3>3. \A ch \in Channels : Handed(m, ch)
      BY <2>1, <2>6, <3>1, <3>2 DEF ChannelsInv
    <3>4. \A ch \in Channels : Handed(m, ch)'
      BY <2>3, <3>3
    <3> QED BY <3>1, <3>2, <3>4 DEF Handed
  <2> QED BY <2>2, <2>5, <2>6 DEF ChannelsInv
<1> QED BY <1>2, <1>3

-----------------------------------------------------------------------------
LEMMA InitScans ==
  ASSUME ManagerAssumption
  PROVE  Init => ScanInv /\ ChannelsInv /\ Timely
<1> SUFFICES ASSUME Init PROVE ScanInv /\ ChannelsInv /\ Timely
  OBVIOUS
<1>1. /\ mStatus = "START_NEW_SCAN" /\ scan = 1 /\ integration = 0 /\ dispatched = <<>>
      /\ failed = {}
  BY DEF Init, ManagerInit, MailboxesInit
<1>2. Len(dispatched) = 0 /\ DOMAIN dispatched = {}
  BY <1>1
<1>3. InsideScan /\ Earlier /\ SlicesOfScans /\ ChannelToDo /\ Timely /\ ChannelsInv
  BY <1>1, <1>2 DEF InsideScan, Earlier, SlicesOfScans, ChannelToDo, Timely, ChannelsInv
<1>4. AfterLastScan
  BY <1>1, SlicesUntilType DEF AfterLastScan
<1> QED BY <1>3, <1>4 DEF ScanInv

\* The other nodes leave the state of the manager as it is.
LEMMA OtherSteps ==
  ASSUME (\E c \in Correlators : CorrelatorStep(c)) \/ OutputStep
  PROVE  /\ failed = {} /\ failed' \subseteq ProtocolAssertions
         /\ UNCHANGED <<mStatus, scan, integration, channel, stopTimeScan, dispatched>>
<1>1. ASSUME NEW c \in Correlators, CorrelatorStep(c)
      PROVE  failed = {} /\ failed' = failed /\ UNCHANGED mVars
  BY <1>1 DEF CorrelatorStep, CorrelatorNext, ReceiveParameters, Correlate, EndStopped,
     EndCorrelating, Round
<1>2. CASE OutputStep
  <2>1. {"set_weight_of_input_stream", "goto_next_slice", "~Output_node"}
          \subseteq ProtocolAssertions
    BY DEF ProtocolAssertions, Assertions
  <2>2. failed = {} /\ UNCHANGED mVars
    BY <1>2 DEF OutputStep
  <2>3. failed' \subseteq failed \cup {"set_weight_of_input_stream", "goto_next_slice", "~Output_node"}
    BY <1>2 DEF OutputStep, OutputNext, OutputLoop, ReceivePriority, ReceiveReady,
       ReceiveEndOutput, StartNewSlice, WriteOutput, EndWriting, EndSlice, ShutDown,
       SfxcAssert, mailboxes
  <2> QED BY <2>1, <2>2, <2>3 DEF mVars
<1>3. CASE \E c \in Correlators : CorrelatorStep(c)
  BY <1>1, <1>3 DEF mVars
<1> QED BY <1>2, <1>3

LEMMA InductiveScans ==
  ASSUME ManagerAssumption, IInv, ScanInv, [Next]_vars
  PROVE  ScanInv'
<1>1. CASE ManagerStep
  BY <1>1, ManagerScans DEF ManagerStep
<1>2. CASE (\E c \in Correlators : CorrelatorStep(c)) \/ OutputStep
  <2>1. /\ failed = {} /\ failed' \subseteq ProtocolAssertions
        /\ UNCHANGED <<mStatus, scan, integration, channel, stopTimeScan, dispatched>>
    BY <1>2, OtherSteps
  <2>2. "start_next_timeslice_on_node" \notin failed' /\ Timely
    BY <2>1 DEF Timely, ProtocolAssertions
  <2> QED BY <2>1, <2>2 DEF ScanInv, InsideScan, AfterLastScan, Earlier, SlicesOfScans, ChannelToDo
<1>3. CASE UNCHANGED vars
  <2>1. UNCHANGED <<mStatus, scan, integration, channel, stopTimeScan, dispatched, failed>>
    BY <1>3 DEF vars, mVars, mailboxes
  <2> QED BY <2>1 DEF ScanInv, InsideScan, AfterLastScan, Earlier, SlicesOfScans, ChannelToDo, Timely
<1> QED BY <1>1, <1>2, <1>3 DEF Next, Stay

LEMMA InductiveChannels ==
  ASSUME ManagerAssumption, ChannelsPaired, IInv, ChannelsInv, [Next]_vars, ProtocolHolds'
  PROVE  ChannelsInv'
<1>1. CASE ManagerStep
  BY <1>1, ManagerChannels DEF ManagerStep
<1>2. CASE \/ (\E c \in Correlators : CorrelatorStep(c)) \/ OutputStep
           \/ UNCHANGED vars
  <2>1. UNCHANGED <<mStatus, integration, channel, dispatched>>
    BY <1>2, OtherSteps DEF vars, mVars
  <2> QED BY <2>1 DEF ChannelsInv, Handed
<1> QED BY <1>1, <1>2 DEF Next, Stay

\* ScanInv holds in every state of every job.
LEMMA ScanInvariance ==
  ASSUME ManagerAssumption, CorrelatorAssumption
  PROVE  Spec => []ScanInv
<1>1. Init => ScanInv
  BY InitScans
<1>2. IInv /\ ScanInv /\ [Next]_vars => ScanInv'
  BY InductiveScans
<1> QED BY <1>1, <1>2, Invariance, PTL DEF Spec

\* Every slice handed out lies inside its scan and before the stop time of the
\* job, and no slice is handed out twice or after a later one, whatever the
\* times of the scans and whatever the stations report when a scan starts.
THEOREM SlicesInScans == Spec => []SlicesOfScans
<1>1. ScanInv => SlicesOfScans
  BY DEF ScanInv
<1> QED BY <1>1, ScanInvariance, ManagerAssumption, CorrelatorAssumption, PTL

\* When no channel is the cross polarisation of two others, a started time slice
\* gets all its channels (start_next_timeslice_on_node).
THEOREM AllChannelsHandedOut ==
  ASSUME ChannelsPaired PROVE Spec => []AllChannels
<1>1. Init => ChannelsInv
  BY InitScans, ManagerAssumption
<1>2. IInv /\ ChannelsInv /\ [Next]_vars /\ (IInv /\ OrderInv)' => ChannelsInv'
  BY InductiveChannels, ManagerAssumption DEF OrderInv
<1>3. IInv /\ ChannelsInv => AllChannels
  <2> SUFFICES ASSUME IInv, ChannelsInv, mStatus = "GONE",
                      NEW i \in DOMAIN dispatched, NEW ch \in Channels
               PROVE  \E d \in {dispatched[j] : j \in DOMAIN dispatched} :
                        /\ d.integration = dispatched[i].integration
                        /\ d.channel = ch \/ (DoneAsCross(ch) /\ d.channel = CrossChannel[ch])
    BY DEF AllChannels
  <2>1. DOMAIN dispatched = 1 .. Len(dispatched)
    BY LenProperties DEF IInv, TypeOK, ManagerTypeOK
  <2>2. Handed(dispatched[i].integration, ch)
    BY <2>1 DEF ChannelsInv
  <2> QED BY <2>1, <2>2 DEF Handed
<1> QED BY <1>1, <1>2, <1>3, OrderInvariance, ManagerAssumption, CorrelatorAssumption, PTL
        DEF Spec

-----------------------------------------------------------------------------
\* A scan starts in time when it holds a slice.
LEMMA StartedInTime ==
  ASSUME ManagerAssumption, ScansHoldASlice, IInv, ScanInv, Timely, StartNewScan
  PROVE  Timely'
<1>1. /\ scan \in 1 .. NumberScans /\ integration = SlicesUntil(scan - 1)
  BY DEF StartNewScan, IInv, InBounds, ScanInv, AfterLastScan
<1>2. PICK t \in StationTimes :
        integration' = Larger(Larger(integration,
                 (ScanStart[scan] + IntegrationTime - 1) \div IntegrationTime), t \div IntegrationTime)
  BY ScanIsStarted
<1>3. PICK n \in Nat : n = integration' /\ n = FirstSlice(scan, t)
  BY <1>1, <1>2, ScanIsStarted DEF FirstSlice
<1>4. ~(StopTime <= StartOf(n)) => n < SlicesUntil(scan) /\ StartOf(n) < StationStop[scan]
  BY <1>1, <1>3 DEF ScansHoldASlice
<1>5. n < SlicesUntil(scan) => StartOf(n) < StartOf(SlicesUntil(scan))
  <2>1. PICK T \in Nat \ {0}, u \in Nat : T = IntegrationTime /\ u = SlicesUntil(scan)
    BY <1>1, SlicesUntilType
  <2>2. n < u => T * (n + 1) <= T * u
    BY MulMono
  <2>3. T * (n + 1) = T * n + T /\ T * n \in Int /\ T * u \in Int
    BY MulNext
  <2>4. n < u => T * n < T * u
    BY <2>2, <2>3
  <2> QED BY <2>1, <2>4 DEF StartOf
<1>6. stopTimeScan' = StartOf(SlicesUntil(scan))
  BY ScanIsStarted
<1>7. StartOf(n) \in Nat /\ StopTime \in Nat
  BY SliceStartsInOrder, SlicesUntilType
<1>8. failed' = failed
  <2>1. \/ failed' = failed
        \/ /\ StopTime > StartOf(n)
           /\ SfxcAssert("input_node_set_time", /\ StartOf(n) < stopTimeScan'
                                                /\ StartOf(n) < StationStop[scan])
    BY <1>3 DEF StartNewScan
  <2> QED BY <1>4, <1>5, <1>6, <1>7, <2>1 DEF SfxcAssert
<1> QED BY <1>8 DEF Timely

LEMMA InductiveTimely ==
  ASSUME ManagerAssumption, ScansHoldASlice, IInv, ScanInv, Timely, [Next]_vars
  PROVE  Timely'
<1>1. CASE ManagerStep
  <2>1. CASE StartNewScan
    BY <2>1, StartedInTime
  <2>2. CASE ~StartNewScan
    <3>1. failed' \subseteq failed \cup {"end_correlation", "start_next_timeslice_on_node"}
      BY <1>1, <2>2 DEF ManagerStep, ManagerNext, ManagerLoop, ReceiveEnded, ReceiveFinished,
         StartCorrelationTimeSlice, StartCorrelatorNode, GotoNextTimeslice, StopCorrelating,
         TerminateNodes, SfxcAssert, mailboxes
    <3> QED BY <3>1 DEF Timely
  <2> QED BY <2>1, <2>2
<1>2. CASE (\E c \in Correlators : CorrelatorStep(c)) \/ OutputStep
  BY <1>2, OtherSteps DEF Timely, ProtocolAssertions
<1>3. CASE UNCHANGED vars
  BY <1>3 DEF vars, mailboxes, Timely
<1> QED BY <1>1, <1>2, <1>3 DEF Next, Stay

\* No assertion on the path of a slice fails, whatever the nodes, the channels
\* and the messages do, when every scan holds a slice: that is the one thing
\* input_node_set_time relies on and nothing before it checks.
THEOREM NoAssertionFails ==
  ASSUME ScansHoldASlice PROVE Spec => []AssertionsHold
<1>1. Init => Timely
  BY InitScans, ManagerAssumption
<1>2. IInv /\ ScanInv /\ Timely /\ [Next]_vars => Timely'
  BY InductiveTimely, ManagerAssumption
<1>3. IInv /\ OrderInv /\ ScanInv /\ Timely => AssertionsHold
  <2> SUFFICES ASSUME IInv, OrderInv, ScanInv, Timely PROVE failed = {}
    BY DEF AssertionsHold
  <2>1. failed \subseteq Assertions
    BY DEF IInv, TypeOK, MailboxesTypeOK
  <2>2. failed \cap ProtocolAssertions = {}
    BY DEF OrderInv, ProtocolHolds
  <2> QED BY <2>1, <2>2 DEF ProtocolAssertions, ScanInv, ChannelToDo, Timely
<1> QED BY <1>1, <1>2, <1>3, OrderInvariance, ScanInvariance,
           ManagerAssumption, CorrelatorAssumption, PTL
        DEF Spec

-----------------------------------------------------------------------------
\* The job with broadcasts and full streams is a job: what may keep a node from going
\* on adds no step to the scheduling of slices.

\* Every step is one of the job, or changes none of its variables.
LEMMA StepOfTheJob == [BroadcastNext]_allVars => [Next]_vars
<1> SUFFICES ASSUME [BroadcastNext]_allVars PROVE [Next]_vars
  OBVIOUS
<1>1. CASE BeginBroadcast \/ EndBroadcast
  BY <1>1 DEF BeginBroadcast, EndBroadcast
<1>2. CASE ManagerRound
  BY <1>2 DEF ManagerRound, Next, ManagerStep, ManagerNext
<1>3. CASE ManagerMessage(ReceiveFinished)
  BY <1>3 DEF ManagerMessage, Next, ManagerStep, ManagerNext
<1>4. ASSUME NEW c \in Correlators, ManagerMessage(ReceiveEnded(c)) PROVE Next
  BY <1>4 DEF ManagerMessage, Next, ManagerStep, ManagerNext
<1>5. ASSUME NEW c \in Correlators, EnterBroadcast(c) \/ LeaveBroadcast(c) \/ WaitForRoom(c)
      PROVE  UNCHANGED vars
  BY <1>5 DEF EnterBroadcast, LeaveBroadcast, WaitForRoom
<1>6. ASSUME NEW c \in Correlators, CorrelatorGoesOn(c) PROVE Next
  BY <1>6 DEF CorrelatorGoesOn, Next
<1>7. CASE OutputGoesOn
  BY <1>7 DEF OutputGoesOn, Next
<1>8. CASE UNCHANGED allVars
  BY <1>8 DEF allVars
<1> QED BY <1>1, <1>2, <1>3, <1>4, <1>5, <1>6, <1>7, <1>8 DEF BroadcastNext

\* Neither a collective broadcast nor a stream that is full lets the job do what
\* it could not do without: every behaviour is one of Schedule.
THEOREM BroadcastsAddNothing == BroadcastSpec => Spec
<1>1. BroadcastInit => Init
  BY DEF BroadcastInit
<1> QED BY <1>1, StepOfTheJob, PTL DEF BroadcastSpec, Spec

\* The output file stays in order and complete, END_NODE finds all nodes idle and
\* the job implements the ordered log, also with broadcasts and full streams.
THEOREM OutputInOrderWithBroadcasts ==
  BroadcastSpec => []FileInOrder /\ []EndFindsIdle /\ OrderedSafety
BY BroadcastsAddNothing, OutputInOrder, EndNodeFindsIdle, ImplementsTheLog, PTL

\* A started time slice gets all its channels in the job with broadcasts.
THEOREM AllChannelsWithBroadcasts ==
  ASSUME ChannelsPaired PROVE BroadcastSpec => []AllChannels
BY BroadcastsAddNothing, AllChannelsHandedOut, PTL
=============================================================================
