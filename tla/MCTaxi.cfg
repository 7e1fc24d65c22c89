\* Configurations with a key missing, replies around the acceptable cost.
SPECIFICATION FairSpec
CONSTANTS
  Keys <- mcKeys
  Configs <- mcConfigs
  Cost = 230
  Replies <- mcReplies
  Garbage = Garbage
  None = None
INVARIANTS TypeOK OneTimer IconAgreesWithRow
PROPERTIES RequestsAgain
