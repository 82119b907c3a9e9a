SPECIFICATION Spec
CONSTANTS
  Events = {1}
  Owners <- OneDispatcher
  NoOwner = "nobody"
  Backend = "memory"
  Dispatchers <- OneDispatcher
  Gens = {1, 2}
  WorkerID <- OwnWorkerIDs
  Skew <- NoSkew
  BatchSize = 2
  Concurrency = 1
  LeaseDuration = 2
  PublishTimeout = 1
  MaxAttempts = 2
  RetryBase = 1
  RetryMax = 2
  RetryJitter = 0
  HealthFailureThreshold = 1
  SkipLocked = FALSE
  Purgers = {1}
  PurgeLimit = 1
  Timely = FALSE
  MaxClock = 5
  EnqueueUntil = 1
  MaxFaults = 0
  MaxStops = 2
  MaxCancels = 1
INVARIANTS HealthMeansLoopAlive
PROPERTIES DeliveryContract
CHECK_DEADLOCK FALSE
