CONSTANTS
  Committer = {t1, t2, t3}
  Reader = {r1}
  MaxPos = 2
  Setting <- Kills
  Null = Null
  Orphan = Orphan
SPECIFICATION FairSpec
PROPERTIES ReaderGetsThrough WaiterIsHelped
CHECK_DEADLOCK FALSE
