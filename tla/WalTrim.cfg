SPECIFICATION Spec
CONSTANTS
  k1 = k1
  k2 = k2
  k3 = k3
  v1 = v1
  v2 = v2
  Absent = Absent
  Key = {k1, k2, k3}
  Value = {v1}
  Capacity = 2
  MaxLog = 6
  MaxTorn = 0
  MaxCrash = 2
SYMMETRY Symmetry
INVARIANT NoResurrection
CHECK_DEADLOCK FALSE
