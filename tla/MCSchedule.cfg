CONSTANTS
  Correlators = {c1, c2}
  NumberChannels = 2
  CrossChannel <- NoCross
  IntegrationTime = 3
  StopTime = 16
  ScanStart <- TwoScansStart
  ScanStop <- TwoScansStop
  StationStop <- TwoScansStop
  StationTimes <- Late
  NumberFfts = 2
SPECIFICATION AbortSpec
INVARIANTS TypeOK OneRequest SlicesOfScans PrefixAfterAbort
PROPERTY SurvivorsFinishTheirSlice
SYMMETRY Symmetry
CHECK_DEADLOCK FALSE
