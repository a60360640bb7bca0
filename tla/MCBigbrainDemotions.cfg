SPECIFICATION MCSpec
\* The process exits, and its scraper with it.
CHECK_DEADLOCK FALSE
CONSTANTS
  Checked = {"process"}
  Entries <- MCEntries
  TokenLists <- MCTokenLists
  ValidName = {"a", "b"}
  ValidNamespace = {"a", "b", "x"}
  ShutdownTimeout = 1
  ActuationTimeout = 2
  Slack = 1
  MaxTargets = 2
  MaxRequests = 1
  Namespace = {"a", "b"}
  Pod <- MCPod
  namespaceOf <- MCNamespaceOf
  workloadOf <- MCWorkloadOf
  Page <- MCPage
  Interval = 1
  ListTimeout = 1
  ScrapeTimeout = 1
INVARIANT ActuationsDrained
