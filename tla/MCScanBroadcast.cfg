CONSTANTS
  Correlators = {c1, c2}
  NumberChannels = 4
  CrossChannel <- Crossed
  IntegrationTime = 1
  StopTime = 2
  ScanStart <- AdjacentStart
  ScanStop <- AdjacentStop
  StationStop <- AdjacentStop
  StationTimes <- OnTime
  NumberFfts = 1
  Broadcasts = 2
  Above <- Direct
  Capacity = 0
SPECIFICATION BroadcastSpec
INVARIANTS AssertionsHold FileInOrder EndFindsIdle AllChannels
PROPERTIES EventuallyTerminated ImplementsOrderedOutput
CHECK_DEADLOCK FALSE
