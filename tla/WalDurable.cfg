SPECIFICATION Spec
CONSTANTS
  k1 = k1
  k2 = k2
  k3 = k3
  v1 = v1
  v2 = v2
  Absent = Absent
  Key = {k1, k2, k3}
  Value = {v1, v2}
  Capacity = 2
  MaxLog = 5
  MaxTorn = 1
  MaxCrash = 2
SYMMETRY Symmetry
INVARIANTS
  TypeOK
  MemoryMatchesLog
  IntactLogKeepsPromises
  CapacityPlusOne
PROPERTIES
  IntactStepsAreMapSteps
CHECK_DEADLOCK FALSE
