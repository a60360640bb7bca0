SPECIFICATION Spec
CONSTANTS
  p1 = p1
  p2 = p2
  Pod = {p1, p2}
  BootLeaders = {p1, p2}
  Clock = {0}
  MaxLease = 2
  MaxProbeFailures = 1
  MaxTs = 3
SYMMETRY Symmetry2
INVARIANTS
  ReplicaInv
  FollowerSnapshotRepeatable
PROPERTIES
  FencedImplemented
