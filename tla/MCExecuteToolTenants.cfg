SPECIFICATION Spec
CONSTANTS
  Callers = {c1}
  Tenants = {t1, t2}
  Methods <- MCMethods
  Paths <- MCOnePath
  Affects <- MCOnePathAffects
  Nothing = Nothing
  CacheTtl = 1
  HttpTimeout = 1
  MaxTime = 1
  MaxVersion = 1
PROPERTIES
  AnsweredFromOwnTenant
