SPECIFICATION Spec
CONSTANTS
  k1 = k1
  k2 = k2
  v1 = v1
  v2 = v2
  Absent = Absent
  Key = {k1}
  Value = {v1, v2}
  MaxQueue = 1
  MayStop = FALSE
  MaxWrites = 3
  MaxFaults = 0
  MaxConn = 2
INVARIANT CaughtUpIsCopy
CHECK_DEADLOCK FALSE
