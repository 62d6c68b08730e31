SPECIFICATION Spec
CONSTANTS
  g1 = g1
  g2 = g2
  p1 = p1
  d1 = d1
  d2 = d2
  Keys <- MCKeys
  GetKeys <- MCGetKeys
  Data <- MCData
  Nothing = Nothing
  MaxSize = 2
  DefaultTtl = 2
  RespectCacheControl = TRUE
  Headers <- MCHeaders
  MaxTime = 3
  MaxCount = 2
SYMMETRY MCSymmetry
INVARIANTS
  TypeOK
  Bounded
  StatsAccountForEntries
PROPERTIES
  EvictsLeastRecentlyUsed
  ImplementsResponseCache
