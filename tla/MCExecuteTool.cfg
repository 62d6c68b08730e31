SPECIFICATION Spec
CONSTANTS
  Callers = {c1, c2}
  Tenants = {t1}
  Methods <- MCMethods
  Paths <- MCPaths
  Affects <- MCAffects
  Nothing = Nothing
  CacheTtl = 1
  HttpTimeout = 1
  MaxTime = 3
  MaxVersion = 1
SYMMETRY MCSymmetry
INVARIANTS
  TypeOK
  FreshUnlessOvertaken
  BoundedStaleness
