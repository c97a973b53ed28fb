SPECIFICATION FairSpec
CONSTANTS
  c1 = c1
  c2 = c2
  s1 = s1
  s2 = s2
  k1 = k1
  v1 = v1
  Absent = Absent
  Client = {c1, c2}
  Key = {k1}
  Value = {v1}
  Shard = {s1, s2}
  ShardOf <- ShardOf2
  Line <- Lines1
  MaxWorkers = 2
  MaxQueue = 1
  MaxLines = 3
INVARIANTS
  TypeOK
  SocketClosedOnce
  ReadYourWrites
PROPERTIES
  QueuedIsServed
  ImplementsKv
CHECK_DEADLOCK FALSE
