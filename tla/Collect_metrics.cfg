\* -n: the two reads of metrics may be denied; the cluster holds still.
CONSTANTS
  Namespaces = {1, 2}
  Scope = 1
  Nodes <- MCNodes
  Pods <- MCPods
  Objects <- MCObjects
  Controller <- MCController
  MemOf <- MCMemOf
  Alloc <- MCAlloc
  Spot <- MCSpot
  Request <- MCRequest
  Limit <- MCLimit
  Log2 <- MCLog2
  RequestFloor = 1
  WithMetrics = TRUE
  MayFail = {"metrics.k8s.io", "podmetrics"}
  StartSet = "tenancy"
  MutableSet = "none"
  MaxChanges = 0
  Starts <- MCStarts
  Mutable <- MCMutable
  MutableNodes <- MCMutableNodes
CHECK_DEADLOCK FALSE
SPECIFICATION Spec
INVARIANT DeniedMetricsAreWarned
