SPECIFICATION Spec
CONSTANTS
  o1 = o1  o2 = o2  g1 = g1  s1 = s1  v1 = v1  p1 = p1
  None = none  none = none
  Operations = {o1, o2}
  Guardians = {g1}
  Senders = {s1}
  Verifiers = {v1}
  Payees = {p1}
  Calls <- MCCalls
  TimelockDelay = 1
  WithdrawalDelay = 1
  MaxDeposit = 2
  MaxTime = 2
INVARIANTS TypeOK
PROPERTIES PauseHolds NoSurpriseWithdrawal SponsorshipStops
SYMMETRY Symmetry
CHECK_DEADLOCK FALSE
