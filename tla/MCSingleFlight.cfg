SPECIFICATION FlightFairSpec
CONSTANTS
  a = a
  b = b
  c = c
  k1 = k1
  k2 = k2
  huge = huge
  Callers = {a, b, c}
  Keys = {k1, k2, huge}
  Nobody = Nobody
  SizeOf <- MCSizeOf
  MaxBytes = 3
  MaxEntries = 1
  MaxRebuilds = 1
  MaxFail = 1
INVARIANTS OneFlight NoLostWakeup
CHECK_DEADLOCK FALSE
PROPERTIES CallsEnd
