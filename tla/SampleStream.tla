---------------------------- MODULE SampleStream ----------------------------
(***************************************************************************)
(* The samples of one station and channel on their way from an input node  *)
(* to a correlator node: the three threads of DataWriter and SampleReader. *)
(***************************************************************************)
EXTENDS SampleReader

Init == WriterInit /\ ReaderInit

WriterStep ==
  failed = {} /\ WriterNext
  /\ UNCHANGED <<rVars, bVars, failed>>
ReaderStep == failed = {} /\ ReaderNext
WorkerStep == failed = {} /\ WorkerNext

AllCorrelated == rSlice = NumberSlices /\ currentFft = NumberFfts
\* The end of the slices, or of the program at a failed assertion.
Stay == (AllCorrelated \/ failed # {}) /\ UNCHANGED vars

Next == WriterStep \/ ReaderStep \/ WorkerStep \/ Stay

Spec == Init /\ [][Next]_vars

\* The three threads go on as long as they find work (has_work).
FairSpec == Spec /\ WF_vars(WriterStep) /\ WF_vars(ReaderStep) /\ WF_vars(WorkerStep)

-----------------------------------------------------------------------------
\* No assertion of the reader or the worker fails: the ring does not overflow,
\* a sample is dropped at the start of a byte only, the data end with a byte,
\* and a stream never ends before the samples of its slice are there.
AssertionsHold == failed = {}

\* The delay at a time within n samples of t.
DelaysNear(t, n) ==
  {input.delays[i][2] : i \in {j \in 1 .. NumberDelays :
     /\ TimeOfChange(j) <= t + n
     /\ j < NumberDelays => TimeOfChange(j + 1) > t - n}}

\* A delay change is made at the start of a byte, and the clock of the writer
\* does not count the samples earlier changes took or gave.
Slack == SamplesPerByte + NumberDelays

TimeOf(k) == (rSlice - 1) * IntegrationSamples + k - 1

\* Sample k of a slice is the sample of the station at its time plus the delay
\* of that time, whatever the sizes of the blocks and of the reads.
SamplesInPlace ==
  \A k \in DOMAIN out :
    out[k][1] = "sample" =>
      \E d \in DelaysNear(TimeOf(k), Slack) : out[k][2] = TimeOf(k) + d

FlaggedByte(b) ==
  LET n == (b - input.first) \div BlockBytes
      at == (b - input.first) % BlockBytes
  IN  \/ b < input.first
      \/ \E i \in DOMAIN InvalidOf(n) :
           InvalidOf(n)[i][1] <= at /\ at < InvalidOf(n)[i][1] + InvalidOf(n)[i][2]

\* The byte in which a slice ended may be the last one of its element, which is
\* popped then: the next slice starts with invalid samples for that byte.
SharedByte(k, b) ==
  rSlice > 1 /\ k <= SamplesPerByte /\ (b + 1 - input.first) % BlockBytes = 0

\* No sample of a byte flagged by the input side is correlated, and a sample is
\* given as invalid only if its byte is flagged or popped too early: the input node
\* loses no other data (byte_offset < 0 in do_task).  The correlation knows of every
\* invalid sample, so that the weights count good samples only (find_invalid).
FlaggedIffInvalid ==
  \A k \in DOMAIN out :
    /\ out[k][1] = "sample" => ~FlaggedByte(out[k][2] \div SamplesPerByte)
    /\ out[k][1] = "invalid" =>
      \E d \in DelaysNear(TimeOf(k), Slack) :
        LET b == (TimeOf(k) + d) \div SamplesPerByte
        IN  FlaggedByte(b) \/ SharedByte(k, b)
    /\ out[k][1] = "invalid" =>
      \E i \in DOMAIN invalid :
        invalid[i][1] <= k - 1 /\ k - 1 < invalid[i][1] + invalid[i][2]

\* Every slice is correlated in the end: the threads do not wait for each other.
EventuallyCorrelated == <>AllCorrelated
=============================================================================
