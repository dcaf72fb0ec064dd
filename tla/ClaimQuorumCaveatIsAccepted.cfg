SPECIFICATION Spec
CONSTANTS
  s1 = s1  d1 = d1  j1 = j1  n1 = n1  n2 = n2  o1 = o1  r1 = r1  r2 = r2
  read = read  admin = admin  pay = pay  None = none  none = none
  Sessions = {s1}
  Delegations = {d1}
  Jtis = {j1}
  Nonces = {n1}
  Tools = {pay}
  Ops = {o1}
  SessionTtl = 1
  TokenTtl = 1
  MaxTime = 1
  Requests = {r1}
  RiskOf <- MCRiskOf
  ServiceOnly = {}
  CaveatsOf <- QuorumCaveats
  UsageLimit = 1
  MaxSkew = 0
  Deployments <- ProductionAndDemo
  MaxRestarts = 1
  MaxUses = 2
PROPERTIES QuorumCaveatIsAccepted
CHECK_DEADLOCK FALSE
