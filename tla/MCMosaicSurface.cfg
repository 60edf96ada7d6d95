SPECIFICATION FairSpec
CONSTANTS
  x = x
  y = y
  None = None
  NCam = 2
  Coils = {x, y}
  MaxRequest = 2
  Scenarios = {{"fails"},{"noPlan"},{"late"},{"stop"}}
INVARIANTS CoilsMatch NoLostResult
CHECK_DEADLOCK FALSE
PROPERTIES Recovers StopEnds
