SPECIFICATION FairConformanceSpec
CONSTANTS
  None = None
  Manifests <- MCManifests
  ByAction <- MCByAction
  Tables <- MCTables
  MaxFaults = 2
CHECK_DEADLOCK FALSE
INVARIANTS
  GreenIsEarned
  ConformantIsGreen
PROPERTIES
  RunConcludes
