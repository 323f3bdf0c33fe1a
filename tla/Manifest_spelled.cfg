\* CAP103 followed to the letter, with a limit its text rounds.
SPECIFICATION Spec
CONSTANTS
  app = app
  helper = helper
  self = self
  x = x
  MemQuantities = {0, 2, 25}
  CpuQuantities = {1}
  RequestFloor = 3
  UnitSizes <- MCUnitSizes
  Containers <- MCContainers
  Roles <- MCRoles
  NodeNames <- MCNodes
  Refs <- MCRefs
  Self = self
  Log2 <- MCLog2
  Clusters0 <- MCClusters
INVARIANT SpellingOutKeepsTheReservation
