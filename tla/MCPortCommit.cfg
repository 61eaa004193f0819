CONSTANTS
  Committer = {t1, t2, t3}
  Reader = {r1}
  MaxPos = 2
  Setting <- Safe
  Null = Null
  Orphan = Orphan
SPECIFICATION Spec
INVARIANTS TypeOK LeaderHasLock NobodyForgotten
PROPERTY CommitsWhatWasPeeked
SYMMETRY Symmetry
CHECK_DEADLOCK FALSE
