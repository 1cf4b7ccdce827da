CONSTANTS
  s1 = s1
  s2 = s2
  Stations = {s1, s2}
  Channels = {1, 2}
  Nodes = {1, 2}
  NumberFfts = 2
  IntegrationUnits = 3
  PoolSize = 6
  WireSize = 1
  Scans <- TwoScans
SPECIFICATION FairSpec
INVARIANTS StreamsCarrySlices OneWriterPerStream
PROPERTIES CancelledIdle EventuallyEnded
CHECK_DEADLOCK FALSE
