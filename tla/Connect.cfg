CONSTANTS
  NumberStations = 2
  NumberCorrelators = 2
  CrossPolarize = TRUE
SPECIFICATION FairSpec
INVARIANT RightPeers
PROPERTY EventuallyConnected
