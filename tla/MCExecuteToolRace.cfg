SPECIFICATION Spec
CONSTANTS
  Callers = {c1, c2}
  Tenants = {t1}
  Methods <- MCMethods
  Paths <- MCOnePath
  Affects <- MCOnePathAffects
  Nothing = Nothing
  CacheTtl = 1
  HttpTimeout = 1
  MaxTime = 2
  MaxVersion = 1
INVARIANTS
  MutationInvalidates
