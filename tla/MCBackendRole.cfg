SPECIFICATION FairRoleSpec
CONSTANTS
  Pod = {p1, p2, p3}
  BootLeaders = {p1, p2, p3}
  Clock = {0, 1, 3}
  MaxLease = 3
  MaxProbeFailures = 1
INVARIANTS
  RoleInv
  HighestReportWins
PROPERTIES
  StolenStaysStolen
  RolesSettle
