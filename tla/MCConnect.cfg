SPECIFICATION Spec
CHECK_DEADLOCK FALSE
SYMMETRY MCSymmetry
CONSTRAINT MCBound
CONSTANTS
  c1 = c1  c2 = c2  d1 = d1  d2 = d2  shared = shared  other = other
  r1 = r1  r2 = r2  r3 = r3  v1 = v1  v2 = v2  g1 = g1  g2 = g2  m1 = m1  m2 = m2
  Clients = {c1, c2}
  Challenges = {v1, v2}
  GrantIds = {g1, g2}
  Delegations = {d1, d2}
  Delegates = {shared, other}
  DelegateOf <- MCDelegateOf
  DelegateIn <- MCDelegateIn
  Orgs = {o1}
  Requests = {r1, r2, r3}
  None = None
  Subjects = {s1, s2}
  WalletAgents = {w}
  Logins = {l1, l2, l3}
  MaxRotation = 1
  NoLogin = NoLogin
  Members = {m1, m2}
  MaxTurn = 1
  MaxSalt = 1
  MaxNonce = 2
  Labels = {g1, g2}
  Demands = {v1, v2}
  Stranger = Stranger
  Device = Device
  Nothing = Nothing
  Apps = {v1, v2}
  Reads = {g1, g2}
  MaxTokens = 3
  NoRead = NoRead
INVARIANTS TypeOK TokenIsEntitled LoginIsApproved DescriptorRecovers StoredTokenIsAlive
PROPERTIES NamedIsOwned
