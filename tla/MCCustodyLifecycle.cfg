SPECIFICATION Spec
CONSTANTS
  e1 = e1  e2 = e2  e3 = e3  k1 = k1  self = self
  impl1 = impl1  impl2 = impl2  dm1 = dm1  dm2 = dm2  s1 = s1  none = none
  Externals = {e1, e2, e3}
  EcdsaKeys = {e1, e2, e3}
  Credentials = {}
  AgentAccounts = {self}
  Self = self
  Implementations = {impl1}
  Managers = {dm1}
  Sessions = {s1}
  Timelocks = {}
  MaxUpgradeTimelock = 2
  NoUpgrade = none
  SelfOps = {"installModule", "uninstallModule", "onInstall", "onUninstall",
             "setDelegationManager", "acceptSessionDelegation"}
  MaxTime = 2
  Changes <- LifecycleChanges
  InitParams <- LifecycleParams
  InstallConfigs <- LifecycleConfigs
  DefaultDelays <- MCUnitDelays
  CancelWindow = 1
  MaxChanges = 1
PROPERTIES ChangeHistoryFinal
