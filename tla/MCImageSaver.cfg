SPECIFICATION SaverFairSpec
CONSTANTS
  a1 = a1
  w1 = w1
  w2 = w2
  Adders = {a1}
  Workers = {w1, w2}
  MaxTasks = 3
  QueueMax = 1
  AckMax = 1
  FailureMax = 1
  SaverScenarios = {{"fail", "collector"}, {"kill", "join"}, {"kill", "collector"}}
INVARIANTS FlushComplete CleanJoinLosesNothing
PROPERTIES AcceptedTried
CHECK_DEADLOCK FALSE
