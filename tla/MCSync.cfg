CONSTANTS
  t1 = t1
  t2 = t2
  t3 = t3
  c1 = c1
  c2 = c2
  s1 = s1
  Null = Null
  Thread = {t1, t2, t3}
  Chan = {c1, c2}
  Sema = {s1}
  Programs <- Meetings
  MaxCalls = 2
  MaxEvts = 2
  MaxCount = 1
  BreakEnabled = {t2, t3}
SPECIFICATION FairSpec
INVARIANTS TypeOK LineInv NacksRight NobodyMissed
PROPERTIES ImplementsAbstract ChosenGoesOn
CHECK_DEADLOCK FALSE
