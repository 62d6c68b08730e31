SPECIFICATION TenantSpec
CONSTANTS
  Callers = {c1, c2}
  Tenants = {t1, t2}
  Namespaces = {n1}
  Types <- MCTypes
  QuotaTypes <- MCQuotaTypes
  QuotaTypeOf <- MCQuotaTypeOf
  Usages <- MCUsages
  Limits = {0, 200}
  Infinity = Infinity
  Nothing = Nothing
  Yellow = 99
  Red = 100
  CacheTtl = 1
  HttpTimeout = 1
  MaxTime = 3
SYMMETRY MCSymmetry
INVARIANTS
  TypeOK
  FullQuotaBlocks
  RoomyQuotaAllows
  OwnTenantDecides
