CONSTANTS
  root = root
  c1 = c1
  c2 = c2
  c3 = c3
  c4 = c4
  Null = Null
  Custodian = {root, c1, c2, c3, c4}
  Root = root
  Under <- UnderDeep
  t = t
  u = u
  Watch <- EndWatched
  Thread = {t, u}
  SuspendToKill = {u}
  Op = {"control", "collect"}
SPECIFICATION EvtSpec
INVARIANT AllVisited
PROPERTY ManagersKept
CHECK_DEADLOCK FALSE
