CONSTANTS
  Coils = {a, b}
  QueueMax = 1
  MaxSaveIndex = 1
  CacheSize = 2
  MaxBytes = 4
  FrameBytes <- MCFrameBytes
  AreaSkip = 0
  RawFiles = FALSE
  IndexBound = 2
  Scenarios = {{"disk", "restart"}, {"stop"}}
  None = None
SPECIFICATION FairSpec
INVARIANTS NoOverwrite BytesExact NothingBehindSentinel
PROPERTIES RefinesFrameStore StopDrains
CHECK_DEADLOCK FALSE
