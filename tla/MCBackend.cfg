SPECIFICATION MCSpec
\* A call is over, a pod has ended, and replicas serve with no fault left.
CHECK_DEADLOCK FALSE
CONSTANTS
  MaxAttempts = 3
  MaxRuns = 2
  MaxLines = 1
  Pod = {p1, p2, p3}
  Caller = {c1, c2}
  ChannelCap = 3
  Budget = 2
  MaxCalls = 2
  Replica = {l, f}
  LeaderSets = {{l}, {l, f}}
  Tokens = {l, f}
  Postgres = TRUE
  None = None
  MaxLease = 6
  MaxPromotions = 2
  MaxFaults = 2
  MaxSignals = 1
INVARIANTS
  CallInv
  ActionAtMostOnce
  EndpointsInv
  PodInv
PROPERTIES
  CallEnds
  WaitEnds
  PodStops
  InitialisedOnce
  BootSparesLeader
  BootSettles
