\* Two runs against every cluster, with every pair of command lines.
SPECIFICATION Spec
CONSTANTS
  Namespaces = {1, 2, 3}
  SystemNamespaces = {2}
  ContextNamespace = 0
  NamespaceDefault = 1
  MaxRuns = 2
  Refs <- MCRefs
  Nodes <- MCNodes
  Clusters <- MCClusters
  FlagSets <- MCFlags
INVARIANTS TypeOK OneScorePerWorkload NothingVanishes TalliesReconcile TopShowsTheRiskiest GateIsHonest VacuousPassIsVisible PresentationDoesNotGate
CHECK_DEADLOCK FALSE
