--------------------------- MODULE MCSampleStream ---------------------------
(***************************************************************************)
(* Short streams for TLC: slices of a few bytes.                           *)
(***************************************************************************)
EXTENDS SampleStream

NoHoles == <<>>

\* Invalid bytes at the start, in the middle and over the end of elements.
Holes == [b \in {0, 1, 2} |-> IF b = 0 THEN << <<1, 1>>, <<4, 1>> >>
                              ELSE IF b = 1 THEN << <<0, 2>> >> ELSE << <<3, 2>> >>]
Wide == [b \in {1, 2} |-> << <<1, 4>> >>]

\* A delay that changes by one sample at the given times, to one side or the other.
Moving(start, times, step) ==
  [i \in 1 .. Len(times) |-> <<times[i], start + step * (i - 1)>>]

\* The delay increases and falls back.
Turning == << <<0, -2>>, <<6, -1>>, <<11, 0>>, <<19, -1>>, <<30, 0>> >>

Times == {<<0>>, <<0, 9>>, <<0, 5, 10, 21>>, <<0, 7, 12, 17, 26, 31>>}

Many ==
  [first : {-1, 0, 3},
   invalid : {NoHoles, Holes, Wide},
   delays : {Moving(start, t, step) : start \in {-3, -1, 0, 2, 5}, t \in Times, step \in {-1, 1}}
              \cup {Turning}]
=============================================================================
