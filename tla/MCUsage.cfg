SPECIFICATION MCSpec
\* The worker of the forwarder ends.
CHECK_DEADLOCK FALSE
CONSTANTS
  Checked = {"forwarder", "store", "query"}
  b1 = b1
  b2 = b2
  b3 = b3
  Batch <- MCBatch
  Bytes <- MCBytes
  NoBatch = NoBatch
  Capacity = 2
  MaxBatches = 2
  MaxBytes = 2
  MaxAttempts = 2
  MaxFaults = 2
  Deployment = {d1, d2}
  Row = {r1, r2, r3}
  ReadLimits = {valid, outOfRange}
  ValidLimits = {valid}
  NoLimits = NoLimits
  NoOne = NoOne
  RingCap = 3
  MaxRows = 2
  Registered <- MCRegistered
  usageTokens <- MCTokens
  Header <- MCHeader
  Event <- MCEvent
  Limits <- MCLimits
  NoTime = 1000
  BadDate = 99
  NoDate = 98
  Date = {0, 1}
  Now = 95
  HourTicks = 2
  MaxStored = 3
  MaxRecent = 2
  MaxEvents = 1
INVARIANTS
  ForwarderInv
  NothingLostUnnoticed
  InsightsInv
  QueryInv
PROPERTIES
  PipelineEnds
  RecentImplemented
