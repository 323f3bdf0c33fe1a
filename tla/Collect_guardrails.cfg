\* -A: any guardrail may be missing, any read of one may be denied.
CONSTANTS
  Namespaces = {1, 2}
  Scope = 0
  Nodes <- MCNodes
  Pods <- MCPods
  Objects <- MCObjects
  Controller <- MCController
  MemOf <- MCMemOf
  Alloc <- MCAlloc
  Spot <- MCSpot
  Request <- MCRequest
  Limit <- MCLimit
  Log2 <- MCLog2
  RequestFloor = 1
  WithMetrics = FALSE
  MayFail = {"pods", "statefulsets", "namespaces", "limitranges", "resourcequotas"}
  StartSet = "guardrails"
  MutableSet = "none"
  MaxChanges = 0
  Starts <- MCStarts
  Mutable <- MCMutable
  MutableNodes <- MCMutableNodes
CHECK_DEADLOCK FALSE
SPECIFICATION Spec
INVARIANTS QuietScanIsExact UngovernedWasMissing
