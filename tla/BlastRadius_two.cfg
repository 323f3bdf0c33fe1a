\* Two nodes, any listing of them, every shape of the workload.
SPECIFICATION Spec
CONSTANTS
  self = self
  x = x
  y = y
  NodeCount = 2
  Allocs = {0, 2, 4}
  Requests = {0, 1, 3}
  Limits = {0, 2, 3}
  Listings = "any"
  RequestFloor = 1
  NodeNames <- MCNodes
  Refs <- MCRefs
  Self = self
  Log2 <- MCLog2
  ClusterInputs <- MCClusterInputs
  WorkloadInputs <- MCWorkloadInputs
INVARIANTS TypeOK WorstOccupiedNode LoopIsScoreOf RowExplainsItself ProjectionHolds
PROPERTIES PromiseKept ScoringEnds
CHECK_DEADLOCK FALSE
