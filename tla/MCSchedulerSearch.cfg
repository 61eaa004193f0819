CONSTANTS
  main = main
  a = a
  b = b
  c = c
  top = top
  left = left
  right = right
  Null = Null
  Thread = {main, a, b, c}
  Main = main
  Group = {top, left, right}
  Top = top
  Parent <- ParentNested
  Op = {"create", "wait", "freeze", "break"}
SPECIFICATION FairSpec
PROPERTIES SearchIsComplete SearchEnds
CHECK_DEADLOCK FALSE
