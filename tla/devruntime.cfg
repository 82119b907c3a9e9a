SPECIFICATION FairSpec
CONSTANTS
  Processes <- ThreeProcesses
  Manifests <- EveryManifest
  Supervised <- OneManifest
  Targets <- SomeTargets
  MaxFaults = 1
INVARIANTS PlanClosesTargets NothingOutlivesRun ClosureIsUp
PROPERTIES DependencyOrder RunReturns
CHECK_DEADLOCK FALSE
