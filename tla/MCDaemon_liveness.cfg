\* Two runs and two clients, one signal: no symmetry.
SPECIFICATION FairSpec
CONSTANTS
  p1 = p1  p2 = p2  p3 = p3  c1 = c1  c2 = c2
  fileA = fileA  fileB = fileB  sockA = sockA  sockB = sockB
  lockPath = lockPath
  Empty = Empty  Default = Default  Missing = Missing  Bad = Bad
  Unreadable = Unreadable  None = None
  Paths <- mcPaths
  Modes = {"daemon"}
  Procs = {p1, p2}
  Clients = {c1, c2}
  Inis <- mcTwoInis
  Backlog = 2
  MaxSignals = 1
  MaxEdits = 0

CHECK_DEADLOCK FALSE
PROPERTIES ClientServed StartupEnds
