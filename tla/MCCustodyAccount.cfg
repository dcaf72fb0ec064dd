SPECIFICATION Spec
CONSTANTS
  e1 = e1  e2 = e2  e3 = e3  k1 = k1  self = self
  impl1 = impl1  impl2 = impl2  dm1 = dm1  dm2 = dm2  s1 = s1  none = none
  Externals = {e1, e2}
  EcdsaKeys = {e1, e2}
  Credentials = {k1}
  AgentAccounts = {self}
  Self = self
  Implementations = {impl1, impl2}
  Managers = {dm1}
  Sessions = {}
  Timelocks = {0, 1, 2}
  MaxUpgradeTimelock = 1
  NoUpgrade = none
  SelfOps = {"addCustodian", "removeCustodian", "addPasskey", "removePasskey",
             "setUpgradeTimelock",
             "scheduleUpgrade", "upgradeToAndCall"}
  MaxTime = 2
  Changes <- AccountChanges
  InitParams <- AccountParams
  InstallConfigs = {}
  DefaultDelays <- MCUnitDelays
  CancelWindow = 1
  MaxChanges = 1
INVARIANTS SignerRemains
PROPERTIES ImplementationChangesDelayed
