SPECIFICATION DecideSpec
CHECK_DEADLOCK FALSE
CONSTANTS
  Listed = {1, 2, 3}
  Answers <- MCAnswers
  Attempts = {0, 1}
  Priors <- MCPriors
  Priority <- MCPriority
  WarmthLag = 0
  FailbackEnabled = TRUE
  StabilityTicks = 1
INVARIANT DecisionsSound
