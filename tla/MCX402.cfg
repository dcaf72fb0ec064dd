SPECIFICATION FairSpec
CONSTANTS
  g1 = g1  m1 = m1  m2 = m2  m3 = m3  n1 = n1  n2 = n2
  Grants = {g1}
  Mandates = {m1, m2, m3}
  Nonces = {n1, n2}
  GrantOf <- MCGrantOf
  NonceOf <- MCNonceOf
  AmountOf <- MCAmountOf
  MaxPerCharge <- MCMaxPerCharge
  MaxAggregate <- MCMaxAggregate
  MaxPerWindow <- MCOneCall
  WindowSeconds <- MCWindow
  Funds <- MCFunds
  MaxTime = 3
  Attempts = {a1, a2}
  ExpiresAt <- MCExpires
  Referenced = {m1}
  HasTimeout = TRUE
  StoreSurvives = {TRUE, FALSE}
  MaxCrashes = 1
INVARIANTS ChargedOnce SpendWithinCap FrequencyBounded
PROPERTIES RailKeepsContract EveryCallReturns
