CONSTANTS
  Thread = {main, a, b}
  Main = main
  Sema = {s}
  EvtSema = {}
  MaxCount = 2
  InitCount = {0, 1}
  BreakEnabled = {a}
  Signal = {"break", "suspend", "kill"}
SPECIFICATION Spec
INVARIANTS TypeOK LineInv SleeperInLine EveryPostHasTaker
PROPERTY ImplementsAbstract
CHECK_DEADLOCK FALSE
