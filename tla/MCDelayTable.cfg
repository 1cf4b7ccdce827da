CONSTANTS
  A = A
  B = B
  Second = 4
  Observed <- Usual
  SliceLength = 6
  QueueLength = 3
SPECIFICATION UvwSpec
INVARIANTS DelaysOfScan UvwOfScan
