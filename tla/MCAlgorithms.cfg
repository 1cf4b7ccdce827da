CONSTANTS
  Fraction = 60
  Samples = 23
  IntMax = 100
  Length = 5
  FrameWords = 9
  BlockFrames = 2
  SecondBlocks = 2
  MaxBlocks = 2
  FillWords = 4
  BlocksMade = 7
  BlockWords = 11
  LeadWords = 2
  AuxWords = 2
  MostHeaders = 24
  DaysWritten = 3
  OnesWords = 1
  TrailWords = 2
  FrameBytes = 96
  Unsearched = 16
  WindowFrames = 16
  FrameTime = 5
  DayFrames = 8
  YearDays = 3
  SkipFrames = 2
  FirstDay = 3
  FirstFrame = 5
  FramesMade = 6
SPECIFICATION Spec
INVARIANTS DatesRight DelaysListed FlaggedByOther StreamsAgree BitsOfChannels Mark5bInPlace TapesInPlace FillMarked
CHECK_DEADLOCK FALSE
