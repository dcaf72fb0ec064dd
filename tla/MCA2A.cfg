SPECIFICATION FairSpec
CONSTRAINT InOrder
CONSTANTS
  NoTask = NoTask  Idle = Idle
  m1 = m1  m2 = m2  m3 = m3
  Tasks = {t1, t2}
  UniqueIds = FALSE
  Messages = {m1, m2, m3}
  Calls = {c1}
  MaxCrashes = 1
INVARIANTS MessageUsedOnce
PROPERTIES FinalUnlessStale AlarmedTaskIsProcessed
