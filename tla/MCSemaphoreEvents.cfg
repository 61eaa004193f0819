CONSTANTS
  Thread = {main, a, b}
  Main = main
  Sema = {s}
  EvtSema = {e}
  MaxCount = 1
  InitCount = {0, 1}
  BreakEnabled = {}
  Signal = {"kill"}
SPECIFICATION Spec
PROPERTIES ImplementsAbstract NoStarvation
CHECK_DEADLOCK FALSE
