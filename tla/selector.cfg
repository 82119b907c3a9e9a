SPECIFICATION Spec
CONSTANTS
  n1 = n1
  n2 = n2
  n3 = n3
  c3 = c3
  c1 = c1
  c2 = c2
  Nodes <- ThreeNodes
  Clients <- ThreeClients
  ConsecutiveFailures = 2
  MaxEjectionPercent = 60
  FailClosed = FALSE
INVARIANTS InflightCountsCalls
PROPERTIES EjectionLeavesOne
SYMMETRY Symmetry
