------------------------------ MODULE Schedule ------------------------------
(***************************************************************************)
(* A correlation job: the manager, the correlator nodes and the output     *)
(* node, each running its own loop, joined by the mailboxes of MPI.  A     *)
(* message may stay in its mailbox for any length of time, so a receiver   *)
(* that polls (process_all_waiting_messages) may find any number of them.  *)
(***************************************************************************)
EXTENDS Manager, Correlator, OutputNode

vars == <<mailboxes, mVars, cVars, oVars>>

Init == MailboxesInit /\ ManagerInit /\ CorrelatorInit /\ OutputInit

Terminated ==
  /\ mStatus = "GONE"
  /\ oStatus = "GONE"
  /\ \A c \in Correlators : cStatus[c] = "END_CORRELATING"

ManagerStep == failed = {} /\ ManagerNext /\ UNCHANGED <<cVars, oVars>>
CorrelatorStep(c) == failed = {} /\ CorrelatorNext(c) /\ UNCHANGED <<mVars, oVars>>
OutputStep == failed = {} /\ OutputNext /\ UNCHANGED <<mVars, cVars>>
Stay == Terminated /\ UNCHANGED vars

Next ==
  \/ ManagerStep
  \/ \E c \in Correlators : CorrelatorStep(c)
  \/ OutputStep
  \/ Stay

Spec == Init /\ [][Next]_vars

(***************************************************************************)
(* Every node runs in a process of its own, and MPI delivers what is sent: *)
(* each loop goes on and each message is found in the end.  That a slice   *)
(* finds its input data is assumed here (Correlate).                       *)
(***************************************************************************)
Fairness ==
  /\ WF_vars(failed = {} /\ ManagerLoop /\ UNCHANGED <<cVars, oVars>>)
  /\ WF_vars(failed = {} /\ ReceiveFinished /\ UNCHANGED <<cVars, oVars>>)
  /\ WF_vars(failed = {} /\ OutputLoop /\ UNCHANGED <<mVars, cVars>>)
  /\ WF_vars(failed = {} /\ ReceiveReady /\ UNCHANGED <<mVars, cVars>>)
  /\ \A c \in Correlators :
       /\ WF_vars(failed = {} /\ ReceiveEnded(c) /\ UNCHANGED <<cVars, oVars>>)
       /\ WF_vars(failed = {} /\ ReceivePriority(c) /\ UNCHANGED <<mVars, cVars>>)
       /\ WF_vars(CorrelatorStep(c))

FairSpec == Spec /\ Fairness

-----------------------------------------------------------------------------
\* Every variable of every node has its type, and so has every message.
TypeOK == MailboxesTypeOK /\ ManagerTypeOK /\ CorrelatorTypeOK /\ OutputTypeOK

InReady(c) == \E i \in DOMAIN readyNodes : readyNodes[i] = c
Waiting(c) == IF InReady(c) THEN 1 ELSE 0
Answered(c) == Len(parameters[c])
Queued(c) == Len(queue[c])
Unsent(c) == IF hasRequested[c] THEN 0 ELSE 1

\* The requests for work of a correlator node: on its way to the manager, in
\* ready_correlator_nodes, answered by parameters on their way or in its queue,
\* or not sent yet because the node is busy.
Requests(c) ==
  ended[c] + Waiting(c) + Answered(c) + Queued(c) + Unsent(c)

\* A correlator node has exactly one request for work in the system, so that
\* it is never given more than one slice ahead of the one it works on.
OneRequest == \A c \in Correlators : Requests(c) = 1

\* ready_correlator_nodes never names a correlator node twice.
ReadyOnce ==
  \A i, j \in DOMAIN readyNodes : readyNodes[i] = readyNodes[j] => i = j

\* No SFXC_ASSERT on the path of a slice fails: slice numbers reach the output
\* node once and never late, the manager is waiting when the output node ends,
\* and the scans start before they stop.
AssertionsHold == failed = {}

\* The output file holds the slices 0, 1, 2, ... in order, each once, whichever
\* correlator nodes they came from (Output_node::start), and, once the manager has
\* ended the job, all it has handed out.
FileInOrder ==
  /\ \A i \in DOMAIN file : file[i] = i - 1
  /\ mStatus \in {"END_NODE", "GONE"} => Len(file) = outputSlice

\* END_NODE finds a correlator node idle in STOPPED, where terminate() holds:
\* a node in CORRELATING could overwrite the status and never leave its loop.
EndFindsIdle ==
  \A c \in Correlators :
    endNode[c] => cStatus[c] = "STOPPED" /\ queue[c] = <<>> /\ parameters[c] = <<>>

\* A slice of the job: inside its scan and before the stop time of the job.
InScan(d) ==
  /\ StartOf(d.integration) >= ScanStart[d.scan]
  /\ StartOf(d.integration + 1) <= Lesser(StopTime, ScanStop[d.scan])

Before(d, e) ==
  \/ d.integration < e.integration
  \/ d.integration = e.integration /\ d.channel < e.channel

\* The manager hands out slices of the scans only, each at most once and in
\* the order of time, also where one scan ends and the next one starts.
SlicesOfScans ==
  /\ \A i \in DOMAIN dispatched : InScan(dispatched[i])
  /\ \A i, j \in DOMAIN dispatched : i < j => Before(dispatched[i], dispatched[j])

\* A time slice that was started gets all its channels: each is handed out,
\* or done with the channel it is the cross polarisation of.
AllChannels ==
  mStatus = "GONE" =>
    \A i \in DOMAIN dispatched, ch \in Channels :
      \E d \in {dispatched[j] : j \in DOMAIN dispatched} :
        /\ d.integration = dispatched[i].integration
        /\ d.channel = ch \/ (DoneAsCross(ch) /\ d.channel = CrossChannel[ch])

-----------------------------------------------------------------------------
(***************************************************************************)
(* Two conditions on the schedule, which the code does not check.          *)
(***************************************************************************)
\* Every scan holds a whole slice after the last slice of the scan before it,
\* wherever the stations report to be, and all its stations are still there then.
SlicesUntil(i) == IF i = 0 THEN 0 ELSE Lesser(StopTime, ScanStop[i]) \div IntegrationTime
FirstSlice(i, t) ==
  Larger(Larger(SlicesUntil(i - 1), (ScanStart[i] + IntegrationTime - 1) \div IntegrationTime),
         t \div IntegrationTime)
ScansHoldASlice ==
  \A i \in 1 .. NumberScans, t \in StationTimes :
    \/ StopTime <= StartOf(FirstSlice(i, t))
    \/ /\ FirstSlice(i, t) < SlicesUntil(i)
       /\ StartOf(FirstSlice(i, t)) < StationStop[i]

\* No channel is the cross polarisation of two others: a frequency and sideband
\* is recorded in at most one channel of each polarisation.
ChannelsPaired ==
  \A ch \in Channels : CrossChannel[ch] >= 0 => CrossChannel[CrossChannel[ch]] = ch

-----------------------------------------------------------------------------
\* The job ends: all loops are left.
EventuallyTerminated == <>Terminated
-----------------------------------------------------------------------------
\* The job implements the ordered log: the slices the manager numbers are
\* the ones issued, the output file is the log.
Ordered == INSTANCE OrderedOutput WITH
  issued <- outputSlice,
  closed <- mStatus \in {"WAIT_FOR_OUTPUT_NODE", "END_NODE", "GONE"},
  log <- file,
  over <- mStatus \in {"END_NODE", "GONE"}

\* Whatever the nodes and the messages do, an observer of the output file sees
\* slices appended in the order of their numbers, none missing at the end, and
\* every slice handed out is written in the end.
ImplementsOrderedOutput == Ordered!Spec
=============================================================================
