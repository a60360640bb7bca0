SPECIFICATION FairSpec
CONSTANTS
  Pod = {1, 2}
  BootLeaders = {}
  Clock = {0}
  MaxLease = 5
  MaxProbeFailures = 1
  Priority <- MCPriority
  WarmthLag = 0
  FailbackEnabled = TRUE
  StabilityTicks = 1
  PromoteDebounce = 1
  EmptyDebounce = 1
  GraceTicks = 1
  MaxFaults = 1
  MaxRestarts = 2
PROPERTIES
  Recovers
  PreferredLeads
