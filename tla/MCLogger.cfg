\* Two threads that write up to three records, three set-up calls.
SPECIFICATION FairSpec
CONSTANTS
  t1 = t1  t2 = t2  t3 = t3  logFile = logFile
  Threads = {t1, t2}
  Paths = {logFile}
  Std = Std
  NULL = NULL
  MaxRecords = 3
  MaxCalls = 3
CHECK_DEADLOCK FALSE
INVARIANTS TypeOK RecordsWhole TraceUnderHeader MutexUsable NoFileLeaked
PROPERTIES RecordsFinish ImplementsJournal
