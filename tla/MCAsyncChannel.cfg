CONSTANTS
  u1 = u1
  u2 = u2
  c1 = c1
  c2 = c2
  User = {u1, u2}
  Home <- Homes
  Value = {v1, v2}
  Custodian = {c1, c2}
  Creator = c1
  Limits = {0, 1, 2}
  MaxQueue = 2
  Operation = {"get", "try-get", "put", "try-put"}
  Early = FALSE
  Manager = Manager
  Null = Null
SPECIFICATION FairSpec
INVARIANTS TypeOK ManagerRunsForUsers
PROPERTIES ImplementsQueue WaitersServed
CHECK_DEADLOCK FALSE
