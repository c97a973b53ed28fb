SPECIFICATION Spec
CONSTANTS
  k1 = k1
  k2 = k2
  v1 = v1
  v2 = v2
  Absent = Absent
  Key = {k1, k2}
  Value = {v1, v2}
  MaxLog = 4
  MaxTorn = 1
  MaxCrash = 2
SYMMETRY Symmetry
INVARIANTS
  TypeOK
  KeepsPromises
  CutStaysValid
PROPERTIES
  NoticedStepsAreMapSteps
CHECK_DEADLOCK FALSE
