\* A configuration file that lacks a key.
SPECIFICATION Spec
CONSTANTS
  Keys <- mcKeys
  Configs <- mcConfigs
  Cost = 230
  Replies <- mcReplies
  Garbage = Garbage
  None = None
INVARIANTS ConfigComplete
