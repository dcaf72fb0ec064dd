SPECIFICATION Spec
CONSTANTS
  e1 = e1  e2 = e2  e3 = e3  k1 = k1  self = self
  impl1 = impl1  impl2 = impl2  dm1 = dm1  dm2 = dm2  s1 = s1  none = none
  Externals = {e1, e2, e3}
  EcdsaKeys = {e1, e2, e3}
  Credentials = {k1}
  AgentAccounts = {self}
  Self = self
  Implementations = {impl1}
  Managers = {dm1}
  Sessions = {}
  Timelocks = {}
  MaxUpgradeTimelock = 2
  NoUpgrade = none
  SelfOps = {"addCustodian"}
  MaxTime = 2
  Changes <- AddChanges
  InitParams <- ThresholdParams
  InstallConfigs = {}
  DefaultDelays <- MCDefaultDelays
  CancelWindow = 1
  MaxChanges = 1
PROPERTIES SignersChangeByQuorum
