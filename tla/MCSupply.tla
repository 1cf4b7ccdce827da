------------------------------ MODULE MCSupply ------------------------------
EXTENDS Supply
CONSTANTS s1, s2
TwoScans ==
  <<[start |-> 0, stop |-> 3, stations |-> {s1, s2}],
    [start |-> 5, stop |-> 8, stations |-> {s2}]>>
\* The second scan begins when the first ends.
AdjacentScans ==
  <<[start |-> 0, stop |-> 3, stations |-> {s1, s2}],
    [start |-> 3, stop |-> 6, stations |-> {s2}]>>
=============================================================================
