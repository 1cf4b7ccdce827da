---------------------------- MODULE MCDelayTable ----------------------------
(***************************************************************************)
(* Three scans of a few seconds, two of them adjacent, of one or two       *)
(* sources, and slices of one and a half seconds.                          *)
(***************************************************************************)
EXTENDS UvwModel

CONSTANTS A, B

Scans(sources, clocks) ==
  <<[begin |-> 40, end |-> 84, sources |-> sources[1], clock |-> clocks[1]],
    [begin |-> 84, end |-> 124, sources |-> sources[2], clock |-> clocks[2]],
    [begin |-> 140, end |-> 180, sources |-> sources[3], clock |-> clocks[3]]>>

OneClock == <<<<1, 7>>, <<1, 7>>, <<1, 7>>>>

\* The second scan has two phase centres, one of them the source of the first.
Usual == Scans(<<<<A>>, <<A, B>>, <<B>>>>, OneClock)
=============================================================================
