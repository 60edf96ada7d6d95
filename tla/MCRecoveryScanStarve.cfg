SPECIFICATION ScanFairSpec
CONSTANTS
  S = S
  Surfaces = {S}
  MaxCoil = 3
  ScanLimit = 3
  HistoryMax = 3
  LiveLimit = 1
  Checks = 1
  MaxDepth = 1
  MaxFail = 0
  MaxManual = 0
PROPERTIES AllProcessed
CHECK_DEADLOCK FALSE
