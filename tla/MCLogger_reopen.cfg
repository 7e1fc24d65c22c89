\* init_file_log() called a second time, as to switch to another file.
SPECIFICATION Spec
CONSTANTS
  t1 = t1  t2 = t2  t3 = t3  logFile = logFile
  Threads = {t1, t2}
  Paths = {logFile}
  Std = Std
  NULL = NULL
  MaxRecords = 3
  MaxCalls = 3
CHECK_DEADLOCK FALSE
INVARIANTS TrueMeansOpen
