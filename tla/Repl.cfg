SPECIFICATION FairSpec
CONSTANTS
  k1 = k1
  k2 = k2
  v1 = v1
  v2 = v2
  Absent = Absent
  Key = {k1, k2}
  Value = {v1}
  MaxQueue = 1
  MayStop = TRUE
  MaxWrites = 3
  MaxFaults = 1
  MaxConn = 3
INVARIANTS
  TypeOK
  NothingMissed
  NoBacklogWithoutSender
PROPERTIES
  Converges
  StopEndsSender
CHECK_DEADLOCK FALSE
