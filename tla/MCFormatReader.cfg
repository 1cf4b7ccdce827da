CONSTANTS
  Recordings <- MCRecordings
  Threads <- SharedThread
  Intervals <- Overlapping
  MaxRestarts = 1
  NSkip = 3
  NSkew = 1
  Now = 40
  LastTime = 8
SPECIFICATION FairSpec
INVARIANTS BlocksFollow BlocksHoldTheirFrameButLast FramesKept
PROPERTY IntervalsFilled
