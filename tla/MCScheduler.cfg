CONSTANTS
  main = main
  a = a
  b = b
  c = c
  top = top
  left = left
  right = right
  Null = Null
  Thread = {main, a, b, c}
  Main = main
  Group = {top, left, right}
  Top = top
  Parent <- ParentSiblings
  Op = {"create", "break", "suspend", "kill"}
SPECIFICATION Spec
INVARIANTS TypeOK TreeInv QueueInv
CHECK_DEADLOCK FALSE
