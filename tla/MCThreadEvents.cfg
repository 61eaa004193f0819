CONSTANTS
  root = root
  c1 = c1
  c2 = c2
  c3 = c3
  c4 = c4
  Null = Null
  t = t
  u = u
  Watch <- Watched
  Custodian = {root, c1, c2, c3}
  Root = root
  Under <- UnderMixed
  Thread = {t, u}
  SuspendToKill = {u}
  Op = {"control", "promote", "yoke"}
SPECIFICATION EvtSpec
INVARIANTS TypeOK FamilyTogether RunsManaged
PROPERTIES ShutdownReaches HandedOn EventsTell
CHECK_DEADLOCK FALSE
