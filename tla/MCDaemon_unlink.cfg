\* A reload that renames the socket, then SIGQUIT.
SPECIFICATION Spec
CONSTANTS
  p1 = p1  p2 = p2  p3 = p3  c1 = c1  c2 = c2
  fileA = fileA  fileB = fileB  sockA = sockA  sockB = sockB
  lockPath = lockPath
  Empty = Empty  Default = Default  Missing = Missing  Bad = Bad
  Unreadable = Unreadable  None = None
  Paths <- mcPaths
  Modes = {"daemon"}
  Procs = {p1}
  Clients = {c1}
  Inis <- mcTwoInis
  Backlog = 1
  MaxSignals = 2
  MaxEdits = 1

CHECK_DEADLOCK FALSE
PROPERTIES QuitRemovesSocket
