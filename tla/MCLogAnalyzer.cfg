\* Three threads, four files, one of which cannot be mapped.
SPECIFICATION FairSpec
CONSTANTS
  f1 = f1  f2 = f2  f3 = f3  f4 = f4
  a = a  b = b  root = root  x = x  y = y  noRef = noRef
  Files = {f1, f2, f3, f4}
  Bad = {f4}
  Content <- mcContent
  Urls = {a, b, root}
  Refs = {x, y, noRef}
  Root = root
  NoRef = noRef
  Arg = 3
  IntMod = 64
  TopCount = 1
  None = None
CHECK_DEADLOCK FALSE
INVARIANTS TypeOK FilesDealt MergeAfterJoin ReportIsTotal TopIsHeaviest
PROPERTIES Finishes
