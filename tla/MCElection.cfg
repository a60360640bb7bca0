SPECIFICATION AuditSpec
CONSTANTS
  Pod = {1, 2}
  BootLeaders = {}
  Clock = {0}
  MaxLease = 3
  MaxProbeFailures = 1
  Priority <- MCPriority
  WarmthLag = 0
  FailbackEnabled = TRUE
  StabilityTicks = 1
  PromoteDebounce = 2
  EmptyDebounce = 2
  GraceTicks = 1
  MaxFaults = 1
  MaxRestarts = 3
INVARIANT ElectionInv
PROPERTIES
  NoSecondPromotion
  RoundsCounted
