SPECIFICATION FairSpec
CONSTANTS
  c1 = c1
  c2 = c2
  x = x
  y = y
  None = None
  Callers = {c1, c2}
  Ids = {x, y}
  MaxToken = 3
  InMax = 1
  OutMax = 1
  Scenarios = {{"timeout", "stop"}, {"timeout", "die"}}
INVARIANTS DedupExact ResultNotStolen
PROPERTIES AnswerIsOwn StopDrains
CHECK_DEADLOCK FALSE
