SPECIFICATION Spec
CONSTANTS
  Callers = {c1, c2, c3}
  Configs <- MCConfigs
  UnitsPerToken = 2
  Horizon = 3
  MaxLate = 1
SYMMETRY MCSymmetry
INVARIANTS
  TypeOK
  AdmissionsBounded
  QueueAccounting
  WaitBounded
PROPERTIES
  BackoffServed
  RefusalHasACause
