CONSTANTS
  Writer = {w1, w2}
  Reader = {r1, r2}
  Byte = {0, 1}
  Text <- Strings
  Limits = {0, 2}
  InitLen = 2
  MaxLen = 2
  MaxPeek = 2
  MaxContent = 2
  Blank = Blank
  Eof = Eof
SPECIFICATION Spec
INVARIANTS TypeOK RoomInv SleepersInv
PROPERTY ImplementsAbstract
SYMMETRY Symmetry
CHECK_DEADLOCK FALSE
