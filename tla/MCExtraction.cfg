CONSTANTS
  Main = main
  Threads = {main, w1}
  SubbandMap <- Map
  Blocks = 3
  InputSize = 2
  PoolSize = 4
SPECIFICATION FairSpec
INVARIANT TakenInOrder
PROPERTY EventuallyJoined
CHECK_DEADLOCK FALSE
