CONSTANTS
  Correlators = {c1, c2}
  NumberChannels = 1
  CrossChannel <- NoCross
  IntegrationTime = 2
  StopTime = 10
  ScanStart <- ShortStart
  ScanStop <- ShortStop
  StationStop <- ShortStop
  StationTimes <- OnTime
  NumberFfts = 2
SPECIFICATION AbortSpec
PROPERTY AssertionTerminatesCorrelators
CHECK_DEADLOCK FALSE
