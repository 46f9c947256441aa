SPECIFICATION FairSpec
CONSTANTS
  Pipelines <- SomePipelines
  MaxPackets = 4
  Bypass = {2}
  KeepAtMost = 3
  FlushWhenFull = 1
  LagTimes = {0, 1}
  JitterMin = 1
  JitterMax = 2
  Frame = 1
  OodBuffer = 2
  OodDelay = 1
  Duration = 1
  Gap = 2
  Modulus = 6
  Origin = 4
  MaxLate = 1
INVARIANTS
  Consistent
  InOrder
  MeasuredTrue
PROPERTIES
  OnTime
  OutageTimed
  EveryoneLeaves
