\* Every pod of two containers, and every edit of it.
SPECIFICATION Spec
CONSTANTS
  app = app
  helper = helper
  self = self
  x = x
  MemQuantities = {0, 2, 25}
  CpuQuantities = {1}
  RequestFloor = 3
  UnitSizes <- MCUnitSizes
  Containers <- MCContainers
  Roles <- MCRoles
  NodeNames <- MCNodes
  Refs <- MCRefs
  Self = self
  Log2 <- MCLog2
  Clusters0 <- MCClusters
INVARIANTS TypeOK BestEffortIsUndeclared GuaranteedIsTight UncappedIsCriticalIfHarmful SpellingOutIsNeutral MovesAreAnnounced BoundingIsRewarded
