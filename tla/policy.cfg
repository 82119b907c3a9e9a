SPECIFICATION PolicyFair
CONSTANTS
  Calls <- Callers3
  Idempotent <- Repeatable
  MaxAttempts = 2
  Burst = 1
  FailureThreshold = 2
  SuccessThreshold = 2
  OpenTimeout = 1
  HalfOpenMaxRequests = 1
  MinLimit = 1
  MaxLimit = 3
  InitialLimit = 2
  IncreaseEvery = 2
  DecreaseNum = 4
  DecreaseDen = 5
INVARIANTS NoLeakedSlot ProbesBounded InFlightExact
PROPERTIES OpenIgnoresReports AdmitsWithinLimit EveryCallReturns RecoversAfterOutage Regrows
