SPECIFICATION FairSpec
CONSTANTS
  S = S
  L = L
  x = x
  None = None
  SurfaceSeq <- BothSurfaces
  Coils = {x}
  Cameras = 2
  MaxVersion = 2
  MaxUpset = 1
  Scenarios = {{"kill", "saveTimeout"}, {"kill", "saveFails"}, {"kill", "grows"}, {"rejoin", "grows"}, {"rejoin", "grows", "maskFails"}, {"grows", "cameraFails", "detectFails", "joinTimeout"}}
INVARIANTS CompleteIsWhole DefectsMatchArea ScanSawIdle
PROPERTIES EventuallyComplete
CHECK_DEADLOCK FALSE
