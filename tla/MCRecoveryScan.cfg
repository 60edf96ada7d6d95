SPECIFICATION ScanFairSpec
CONSTANTS
  S = S
  Surfaces = {S}
  MaxCoil = 3
  ScanLimit = 3
  HistoryMax = 3
  LiveLimit = 1
  Checks = 2
  MaxDepth = 1
  MaxFail = 1
  MaxManual = 1
INVARIANTS DepthKept
PROPERTIES AllProcessed
CHECK_DEADLOCK FALSE
