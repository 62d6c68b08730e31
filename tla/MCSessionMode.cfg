SPECIFICATION Spec
CONSTANTS
  c1 = c1
  c2 = c2
  n1 = n1
  n2 = n2
  t1 = t1
  t2 = t2
  None = None
  Calls = {c1, c2}
  Names = {n1, n2}
  Tenants = {t1, t2}
  Envs <- MCEnvs
  Nothing = None
SYMMETRY MCSymmetry
INVARIANT ModesAgree
