SPECIFICATION LoopFairSpec
CONSTANTS
  MaxCoil = 4
  History = 2
  ClearAfter = 1
  Reprocess = TRUE
  QueueLimit = 2
  MaxFail = 1
  MaxCrash = 1
  MaxRedetect = 1
  LoopScenarios <- CoordinatorScenarios
INVARIANTS NoCoilForgotten
 
CHECK_DEADLOCK FALSE
