SPECIFICATION FairSpec
CONSTANTS
  Pids = {p, q, r}
  None = None
  Kinds = {"writer", "3d", "2d", "plc", "capture"}
  Threshold = 2
  MaxFaults = 2
INVARIANTS NoneLeftBehind
PROPERTIES HealthyKept RunsSupervised
CHECK_DEADLOCK FALSE
