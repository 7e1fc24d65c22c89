\* Two URLs whose volumes differ by more than half the values of an int.
SPECIFICATION Spec
CONSTANTS
  f1 = f1  f2 = f2  f3 = f3  f4 = f4
  a = a  b = b  root = root  x = x  y = y  noRef = noRef
  Files = {f1, f2}
  Bad = {}
  Content <- mcHeavy
  Urls = {a, b, root}
  Refs = {x, y, noRef}
  Root = root
  NoRef = noRef
  Arg = 1
  IntMod = 16
  TopCount = 10
  None = None
CHECK_DEADLOCK FALSE
INVARIANTS TopIsHeaviest
