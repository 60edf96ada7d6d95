SPECIFICATION CameraSpec
CONSTANTS
  None = None
  Cams = {left}
  MaxCoil = 3
  MissLimit = 2
  Events = {"io", "die"}
  Driven = left
  Users = {u}
  Handles = {h}
  NoHandle = NoHandle
  QueueSize = 1
  MaxTrouble = 1
  MaxAsk = 2
  Slow = FALSE
INVARIANTS OnCurrentCoil FrameUsesNewCoil HandleOpen
PROPERTIES ReconnectJustified SwitchCompletes ReconnectHonoured
CHECK_DEADLOCK FALSE
