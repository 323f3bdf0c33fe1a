\* The guard of a contradiction against what the README says of it.
SPECIFICATION Spec
CONSTANTS
  self = self
  x = x
  y = y
  Requests = {0, 10, 21, 40, 120}
  Limits = {0, 44, 140}
  Landable = {24, 139}
  Usages = {0, 4, 17, 51, 54}
  MaxSamples = 1
  MinRequest = 20
  Mi = 4
  UnitSizes <- MCUnitSizes
  RequestFloor = 16
  Divergence <- MCDivergence
  Headroom <- MCHeadroom
  IdleRatio <- MCIdleRatio
  Tolerance <- MCTolerance
  NodeNames <- MCNodes
  Refs <- MCRefs
  Self = self
  Log2 <- MCLog2
  Clusters0 <- MCClusters
  Workloads0 <- MCWorkloads
  Cpus <- MCCpus
INVARIANT GuardFitsTheWorkload
CHECK_DEADLOCK FALSE
