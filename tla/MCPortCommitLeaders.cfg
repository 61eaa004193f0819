CONSTANTS
  Committer = {t1, t2, t3}
  Reader = {r1}
  MaxPos = 1
  Setting <- Commits
  Null = Null
  Orphan = Orphan
SPECIFICATION Spec
INVARIANT OneLeader
CHECK_DEADLOCK FALSE
