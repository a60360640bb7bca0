SPECIFICATION MCSpec
\* The usher process exits.
CHECK_DEADLOCK FALSE
CONSTANTS
  b1 = b1
  b2 = b2
  NoLeader = NoLeader
  Backend = {b1, b2}
  MaxSeq = 2
  MaxEpoch = 2
  MaxWire = 2
  MaxFaults = 2
  Dep = {"d"}
  Urls <- LiveUrls
  NoUrl = NoUrl
  Unpublished = Unpublished
  Configs <- LiveConfigs
  Lower <- MCLower
  ValidHost = {"api", "site"}
  Requests <- LiveRequests
  DefaultMaxBody = 3
  MaxVersion = 1
  NudgeInterval = 2
  ShutdownTimeout = 1
  Client = {c1}
  MaxChanges = 2
  MaxFailures = 1
INVARIANTS
  RoutingInv
  QuietStreamIsCurrent
PROPERTIES
  FeedImplemented
  Converges
  RequestsEnd
