\* Cluster-wide pods denied, and the replicasets as well.
CONSTANTS
  Namespaces = {1, 2}
  Scope = 1
  Nodes <- MCNodes
  Pods <- MCPods
  Objects <- MCObjects
  Controller <- MCController
  MemOf <- MCMemOf
  Alloc <- MCAlloc
  Spot <- MCSpot
  Request <- MCRequest
  Limit <- MCLimit
  Log2 <- MCLog2
  RequestFloor = 1
  WithMetrics = FALSE
  MayFail = {"nodes", "pods", "podsInScope", "replicasets", "jobs", "deployments"}
  StartSet = "tenancy"
  MutableSet = "none"
  MaxChanges = 0
  Starts <- MCStarts
  Mutable <- MCMutable
  MutableNodes <- MCMutableNodes
CHECK_DEADLOCK FALSE
SPECIFICATION Spec
INVARIANT ScoresAreUnderstated
