SPECIFICATION Spec
SYMMETRY OrderSymmetry
CHECK_DEADLOCK FALSE
CONSTRAINT MCBound
CONSTANTS
  p1 = p1
  p2 = p2
  None = None
  Accounts = {p1, p2}
  MaxTime = 1
  coin = coin
  feeCoin = feeCoin
  Orders = {o1, o2}
  Assets = {coin, feeCoin}
  FeeOf <- MCFeeOf
  Escrow = Escrow
  MaxAmount = 1
  MaxGift = 1
  ag1 = ag1
  ag2 = ag2
  Agreements = {ag1, ag2}
  PartiesOf <- MCPartiesOf
  Nullifiers = {u1, u2}
  MaxSignatures = 2
  Credentials = {c1}
  Refs = {r1}
  Salts = {s1, s2}
  MaxIssued = 2
  MaxConsents = 2
  e1 = e1
  e2 = e2
  Edges = {e1, e2}
  SubjectOf <- MCSubjectOf
  ObjectOf <- MCObjectOf
  Roles = {admin, member}
  MaxRoles = 3
  root = root
  n1 = n1
  Nodes = {root, n1}
  Root = root
  Named = {n1}
  ParentOf <- MCParentOf
  Initializer = p1
  Subregistry = Subregistry
  AttributeResolver = AttributeResolver
  OtherResolvers = {other}
  d1 = d1
  d2 = d2
  pay = pay
  revoke = revoke
  Delegations = {d1, d2}
  Open = Open
  RootAuthority = RootAuthority
  Calls = {pay, revoke}
  DelegatorOf <- MCDelegatorOf
  DelegateOf <- MCDelegateOf
  AuthorityOf <- MCAuthorityOf
  RevokesOf <- MCRevokesOf
  Permits <- MCPermits
  WindowOf <- MCWindowOf
  QuorumOf <- MCQuorumOf
  MaxChain = 2
  MaxEndorsed = 2
  MaxExecutions = 2
  VaultCalls = {k1, k2, k3}
  Principals = {p1, p2}
  Sensitive = {pii}
  RecordTypes = {notes}
  Payloads = {x1}
  Fields = {f1, f2}
  Null = Null
  Skills = {sk1}
  Features = {ft1}
  Contents = {ct1, ct2}
  MaxVersions = 2
  Classes = {cl1}
  EnumSets = {en1}
  EnumValues = {v1, v2}
  TermIds = {t1, t2}
  MaxListed = 2
  MaxProps = 1
INVARIANTS TypeOK WithinEveryLink Solvent SettledByBoth JointNeedsBoth ReverseIsVouched OwnNamespace ListsMatchTables
PROPERTIES RevokedLinkIsDead MoneyMovesOnce ActiveByBoth PinnedVersionStands
