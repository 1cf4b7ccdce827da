CONSTANTS
  Bins <- LargeBins
  BinBytes <- LargeBytes
  FileNumber <- Sources
  NumberFiles = 3
  Number <- Bytes
  Unset <- MinusOne
  HeaderBytes = 2
  ElementBytes = 4
  PoolSize = 3
SPECIFICATION FairSpec
INVARIANT RightFiles FailsOnlyAtStart
PROPERTY EventuallyWritten
