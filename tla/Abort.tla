------------------------------- MODULE Abort -------------------------------
(***************************************************************************)
(* What follows when an assertion of the manager fails in the middle of a  *)
(* job (abort_sfxc_assertion): END_NODE goes to all the nodes at once, the *)
(* manager waits for them in MPI_Barrier, and the correlator nodes and the *)
(* output node meet the message wherever their loops are.                  *)
(***************************************************************************)
EXTENDS Schedule

AbortJob ==
  /\ failed # {}
  /\ mStatus # "GONE"
  /\ mStatus' = "GONE"
  /\ endNode' = [c \in Correlators |-> TRUE]
  /\ endOutput' = TRUE
  /\ UNCHANGED <<scan, integration, channel, stopTimeScan, outputSlice, readyNodes, dispatched>>
  /\ UNCHANGED <<ended, parameters, priority, ready, finished, stream, failed, cVars, oVars>>

CorrelatorWorksOn(c) == CorrelatorNext(c) /\ UNCHANGED <<mVars, oVars>>

\* Messages behind END_NODE may make the output node fail an assertion of its
\* own: it leaves its loop on the spot.
OutputFailed == "set_weight_of_input_stream" \in failed
OutputWorksOn == ~OutputFailed /\ OutputNext /\ UNCHANGED <<mVars, cVars>>

AbortNext ==
  \/ ManagerStep
  \/ AbortJob
  \/ \E c \in Correlators : CorrelatorWorksOn(c)
  \/ OutputWorksOn

\* The fairness of Schedule; the processes go on after a failed assertion.
AbortFairness ==
  /\ Fairness
  /\ WF_vars(AbortJob)
  /\ \A c \in Correlators :
       /\ WF_vars(CorrelatorWorksOn(c))
       /\ WF_vars(~OutputFailed /\ ReceivePriority(c) /\ UNCHANGED <<mVars, cVars>>)
  /\ WF_vars(~OutputFailed /\ OutputLoop /\ UNCHANGED <<mVars, cVars>>)
  /\ WF_vars(~OutputFailed /\ ReceiveReady /\ UNCHANGED <<mVars, cVars>>)
  /\ WF_vars(~OutputFailed /\ ReceiveEndOutput /\ UNCHANGED <<mVars, cVars>>)

AbortSpec == Init /\ [][AbortNext]_vars /\ AbortFairness

\* The comment on MPI_TAG_ASSERTION_RAISED in sfxc_mpi.h: when an assertion
\* failed all nodes are terminated nicely; a correlator node that is sent
\* END_NODE leaves its main loop.
AssertionTerminatesCorrelators ==
  \A c \in Correlators : (failed # {}) ~> (cStatus[c] = "END_CORRELATING")

\* The one way to outlive END_NODE: in the step that takes the message a node leaves
\* its loop, without the slice it has in hand, or it finishes just that slice and goes on,
\* in STOPPED or with the next one.  No other step, and no earlier slice, loses END_NODE.
SurvivorsFinishTheirSlice ==
  [][\A c \in Correlators :
       endNode[c] /\ ~endNode'[c] =>
         \/ cStatus'[c] = "END_CORRELATING" /\ stream'[c] = stream[c]
         \/ /\ cStatus'[c] # "END_CORRELATING"
            /\ stream'[c] = Append(stream[c], slice[c])]_vars

\* Also in an aborted job the file is a prefix of the output.
PrefixAfterAbort == \A i \in DOMAIN file : file[i] = i - 1
=============================================================================
