CONSTANTS
  SamplesPerByte = 4
  BlockBytes = 5
  Inputs <- Many
  SliceSamples = 16
  IntegrationSamples = 16
  NumberSlices = 2
  RingBytes = 9
  MinimumFree = 4
  FftSize = 4
  NumberFfts = 4
  MaxFfts = 3
SPECIFICATION FairSpec
INVARIANTS AssertionsHold SamplesInPlace FlaggedIffInvalid
PROPERTY EventuallyCorrelated
