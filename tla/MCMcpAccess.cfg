SPECIFICATION Spec
CONSTANTS
  s1 = s1  d1 = d1  j1 = j1  n1 = n1  n2 = n2  o1 = o1  r1 = r1  r2 = r2
  read = read  admin = admin  pay = pay  None = none  none = none
  Sessions = {s1}
  Delegations = {d1}
  Jtis = {j1}
  Nonces = {n1, n2}
  Tools = {read, admin}
  Ops = {o1}
  SessionTtl = 1
  TokenTtl = 1
  MaxTime = 1
  Requests = {r1, r2}
  RiskOf <- MCRiskOf
  ServiceOnly = {admin}
  CaveatsOf <- PlainCaveats
  UsageLimit = 1
  MaxSkew = 0
  Deployments <- ProductionAndDemo
  MaxRestarts = 1
  MaxUses = 2
INVARIANTS TypeOK UsesAreLimited RevokedIsRefused
PROPERTIES RevocationSettles
SYMMETRY Symmetry
CHECK_DEADLOCK FALSE
