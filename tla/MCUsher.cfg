CONSTANTS
  Dep = {"d", "e"}
  Urls <- MCUrls
  NoUrl = NoUrl
  Unpublished = Unpublished
  Configs <- MCConfigs
  Lower <- MCLower
  ValidHost = {"api", "site"}
  Requests <- MCRequests
  DefaultMaxBody = 3
  MaxVersion = 1
  NudgeInterval = 2
  ShutdownTimeout = 1
  Client = {c1}
  MaxChanges = 2
  MaxFailures = 1
SPECIFICATION UsherSpec
CHECK_DEADLOCK FALSE
INVARIANTS
  UsherInv
  ReadyNeverGuesses
PROPERTIES
  FailuresAreAsked
