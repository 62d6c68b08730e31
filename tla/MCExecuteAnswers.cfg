SPECIFICATION Spec
CONSTANTS
  Callers = {c1, c2}
  Tenants = {t1}
  Methods <- MCMethods
  Paths <- MCOnePath
  Affects <- MCOnePathAffects
  Nothing = Nothing
  CacheTtl = 1
  HttpTimeout = 1
  MaxTime = 1
  MaxVersion = 2
INVARIANTS
  EffectsMatchAnswer
PROPERTIES
  EveryCallIsAnswered
