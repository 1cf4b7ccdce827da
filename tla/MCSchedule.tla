----------------------------- MODULE MCSchedule -----------------------------
(***************************************************************************)
(* Small jobs for TLC.                                                     *)
(***************************************************************************)
EXTENDS Abort, TLC

Symmetry == Permutations(Correlators)

\* Two scans with a gap between them, neither a multiple of the integration
\* time (3 ticks), and a stop time inside the second one.  A station may be late, or so
\* late that no slice of the scan is left: the assertion in input_node_set_time
\* fails, in the second scan while slices of the first are still being correlated.
TwoScansStart == <<0, 10>>
TwoScansStop == <<7, 20>>
Late == {0, 4, 16}

\* A job whose second scan is shorter than the integration time: the same
\* assertion fails in it.
ShortStart == <<0, 3>>
ShortStop == <<2, 4>>
OnTime == {0}

NoCross == [ch \in Channels |-> -1]
=============================================================================
