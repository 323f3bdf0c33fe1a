\* -A: the cluster changes, twice, anywhere between the reads.
CONSTANTS
  Namespaces = {1, 2}
  Scope = 0
  Nodes <- MCNodes
  Pods <- MCPods
  Objects <- MCObjects
  Controller <- MCController
  MemOf <- MCMemOf
  Alloc <- MCAlloc
  Spot <- MCSpot
  Request <- MCRequest
  Limit <- MCLimit
  Log2 <- MCLog2
  RequestFloor = 1
  WithMetrics = TRUE
  MayFail = {"replicasets", "deployments", "metrics.k8s.io", "podmetrics"}
  StartSet = "race"
  MutableSet = "all"
  MaxChanges = 2
  Starts <- MCStarts
  Mutable <- MCMutable
  MutableNodes <- MCMutableNodes
CHECK_DEADLOCK FALSE
SPECIFICATION Spec
INVARIANTS StableWorkloadsReported StableTenantsCounted ScoreIsBracketed NoNeighborInvented UngovernedWasMissing UsageIsOfItsPods
PROPERTIES ScanEnds
