SPECIFICATION Spec
CONSTANTS
  k1 = k1
  k2 = k2
  k3 = k3
  v1 = v1
  v2 = v2
  Absent = Absent
  Key = {k1, k2}
  Value = {v1}
  Capacity = 0
  MaxLog = 4
  MaxTorn = 1
  MaxCrash = 2
SYMMETRY Symmetry
INVARIANT NoAckedWriteLost
CHECK_DEADLOCK FALSE
