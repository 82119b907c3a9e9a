SPECIFICATION FairSpec
CONSTANTS
  Modules <- ThreeModules
  Capabilities = {"cap"}
  Resources = {"db", "rpc"}
  Offered <- Offers
  Components = {1, 2, 3}
  Servers = {1, 3}
  Requests = {"r1"}
  Publications = {"p1"}
  Boot = "boot"
  Stoppers = {"stop"}
  Nobody = "nobody"
INVARIANTS PlanIsFirstOrder DependenciesOutlive NothingLeftBehind RequestsFindModules ReadyMeansServing
PROPERTIES NoSecondStart ShutdownReturns
CHECK_DEADLOCK FALSE
