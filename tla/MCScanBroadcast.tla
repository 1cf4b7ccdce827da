-------------------------- MODULE MCScanBroadcast --------------------------
(***************************************************************************)
(* A small job with broadcasts for TLC.                                    *)
(***************************************************************************)
EXTENDS ScanBroadcast

\* A scan, and a second one that starts right after it.
AdjacentStart == <<0, 1>>
AdjacentStop == <<1, 2>>
OnTime == {0}

\* Channels 0 and 3, 1 and 2 are the two polarisations of one frequency.  (If one
\* channel has a second polarisation all must: HasCross of ChannelSetup.)
Crossed == [ch \in Channels |-> 3 - ch]

\* The theorem on the channels (AllChannelsHandedOut) speaks of this job.
ASSUME ChannelsOfThisJob == ChannelsPaired

\* That of the theorem on the assertions (NoAssertionFails).
ASSUME ScansOfThisJob == ScansHoldASlice

\* The manager sends the table to each node itself.
Direct == [c \in Correlators |-> {}]
=============================================================================
