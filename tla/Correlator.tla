---------------------------- MODULE Correlator ----------------------------
(***************************************************************************)
(* Correlator_node: the main loop of the correlator nodes, its queue of    *)
(* slices and the request for the next slice it sends before the current   *)
(* one is done, with the counting of Correlation_core.                     *)
(***************************************************************************)
EXTENDS Mailboxes

CONSTANT
  NumberFfts        \* number_ffts_in_integration of Correlation_core

ASSUME CorrelatorAssumption == NumberFfts \in Nat \ {0}

VARIABLES
  cStatus,          \* Correlator_node::status
  queue,            \* integration_slices_queue, slice_nr of each
  hasRequested,     \* has_requested
  slice,            \* the slice Correlation_core works on
  fft               \* Correlation_core::current_fft

cVars == <<cStatus, queue, hasRequested, slice, fft>>

CStatus == {"STOPPED", "CORRELATING", "END_CORRELATING"}

CorrelatorTypeOK ==
  /\ cStatus \in [Correlators -> CStatus]
  /\ queue \in [Correlators -> Seq(Slices)]
  /\ hasRequested \in [Correlators -> BOOLEAN]
  /\ slice \in [Correlators -> Slices]
  /\ fft \in [Correlators -> 0 .. NumberFfts]

CorrelatorInit ==
  /\ cStatus = [c \in Correlators |-> "STOPPED"]
  /\ queue = [c \in Correlators |-> <<>>]
  /\ hasRequested = [c \in Correlators |-> TRUE]
  /\ slice = [c \in Correlators |-> 0]
  /\ fft = [c \in Correlators |-> 0]

-----------------------------------------------------------------------------
AlmostFinished(n) == n >= (NumberFfts * 9) \div 10
Finished(n) == n = NumberFfts

\* set_parameters with a non-empty queue q: start on its first slice and tell
\* the output node where that slice will come from.
SetParameters(c, q) ==
  /\ slice' = [slice EXCEPT ![c] = Head(q)]
  /\ fft' = [fft EXCEPT ![c] = 0]
  /\ hasRequested' = [hasRequested EXCEPT ![c] = FALSE]
  /\ cStatus' = [cStatus EXCEPT ![c] = "CORRELATING"]
  /\ priority' = [priority EXCEPT ![c] = Append(@, Head(q))]
  /\ queue' = [queue EXCEPT ![c] = Tail(q)]

\* process_event of CORR_PARAMETERS: receive_parameters.
ReceiveParameters(c) ==
  /\ cStatus[c] # "END_CORRELATING"
  /\ parameters[c] # <<>>
  /\ parameters' = [parameters EXCEPT ![c] = Tail(@)]
  /\ LET q == Append(queue[c], Head(parameters[c])) IN
       \/ /\ cStatus[c] = "STOPPED"
          /\ SetParameters(c, q)
       \/ /\ cStatus[c] = "CORRELATING"
          /\ queue' = [queue EXCEPT ![c] = q]
          /\ UNCHANGED <<cStatus, hasRequested, slice, fft, priority>>
  /\ UNCHANGED <<ended, endNode, endOutput, ready, finished, stream, failed>>

\* Mutant: has_requested is not looked at.
RoundRequestsAgain(c, n, st) ==
  LET f == fft[c] + n IN
  /\ ended' = IF AlmostFinished(f) THEN [ended EXCEPT ![c] = @ + 1] ELSE ended
  /\ stream' = IF Finished(f) THEN [stream EXCEPT ![c] = Append(@, slice[c])] ELSE stream
  /\ \/ /\ Finished(f) /\ queue[c] # <<>>
        /\ SetParameters(c, queue[c])
     \/ /\ ~(Finished(f) /\ queue[c] # <<>>)
        /\ fft' = [fft EXCEPT ![c] = f]
        /\ hasRequested' = [hasRequested EXCEPT ![c] = @ \/ AlmostFinished(f)]
        /\ cStatus' = [cStatus EXCEPT ![c] = IF Finished(f) THEN "STOPPED" ELSE st]
        /\ UNCHANGED <<queue, slice, priority>>
  /\ UNCHANGED <<parameters, endOutput, ready, finished, failed>>

\* The part of a round of the main loop in CORRELATING that follows the
\* messages, when it finds n FFTs of input; st is the status the messages left.
\* The last FFT writes the slice to the output stream, the request for more
\* work goes out at nine tenths, and a finished slice makes room for the next.
Round(c, n, st) ==
  LET f == fft[c] + n
      request == ~hasRequested[c] /\ AlmostFinished(f) IN
  /\ ended' = IF request THEN [ended EXCEPT ![c] = @ + 1] ELSE ended
  /\ stream' = IF Finished(f) THEN [stream EXCEPT ![c] = Append(@, slice[c])] ELSE stream
  /\ \/ /\ Finished(f) /\ queue[c] # <<>>
        /\ SetParameters(c, queue[c])
     \/ /\ ~(Finished(f) /\ queue[c] # <<>>)
        /\ fft' = [fft EXCEPT ![c] = f]
        /\ hasRequested' = [hasRequested EXCEPT ![c] = @ \/ request]
        /\ cStatus' = [cStatus EXCEPT ![c] = IF Finished(f) THEN "STOPPED" ELSE st]
        /\ UNCHANGED <<queue, slice, priority>>
  /\ UNCHANGED <<parameters, endOutput, ready, finished, failed>>

\* Mutant: the batch of FFTs is not cut at the end of the slice.
CorrelateWholeBatch(c) ==
  /\ cStatus[c] = "CORRELATING"
  /\ \E n \in 0 .. NumberFfts : Round(c, n, "CORRELATING")
  /\ UNCHANGED endNode

\* Without input (n = 0) a round may still send the request, as soon as the slice
\* has begun when it has one FFT only.
Correlate(c) ==
  /\ cStatus[c] = "CORRELATING"
  /\ \E n \in 0 .. NumberFfts - fft[c] : Round(c, n, "CORRELATING")
  /\ UNCHANGED endNode

\* process_event of END_NODE, terminate: in STOPPED the loop is left at once.
TakeEndNode(c) ==
  /\ endNode[c]
  /\ parameters[c] = <<>>
  /\ endNode' = [endNode EXCEPT ![c] = FALSE]

\* Mutant: terminate() does not set the status.
EndStoppedIgnored(c) ==
  /\ cStatus[c] = "STOPPED"
  /\ TakeEndNode(c)
  /\ UNCHANGED cVars
  /\ UNCHANGED <<ended, parameters, endOutput, priority, ready, finished, stream, failed>>

EndStopped(c) ==
  /\ cStatus[c] = "STOPPED"
  /\ TakeEndNode(c)
  /\ cStatus' = [cStatus EXCEPT ![c] = "END_CORRELATING"]
  /\ UNCHANGED <<queue, hasRequested, slice, fft>>
  /\ UNCHANGED <<ended, parameters, endOutput, priority, ready, finished, stream, failed>>

\* In CORRELATING the round goes on, and may set the status once more.
EndCorrelating(c) ==
  /\ cStatus[c] = "CORRELATING"
  /\ TakeEndNode(c)
  /\ \E n \in 0 .. NumberFfts - fft[c] : Round(c, n, "END_CORRELATING")

CorrelatorNext(c) ==
  ReceiveParameters(c) \/ Correlate(c) \/ EndStopped(c) \/ EndCorrelating(c)
=============================================================================
