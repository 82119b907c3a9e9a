SPECIFICATION Spec
CONSTANTS
  Events = {1}
  Owners <- TwoDispatchers
  NoOwner = "nobody"
  Backend = "gorm"
  Dispatchers <- TwoDispatchers
  Gens = {1}
  WorkerID <- OwnWorkerIDs
  Skew <- SkewedClock
  BatchSize = 2
  Concurrency = 1
  LeaseDuration = 2
  PublishTimeout = 1
  MaxAttempts = 2
  RetryBase = 1
  RetryMax = 2
  RetryJitter = 0
  HealthFailureThreshold = 1
  SkipLocked = TRUE
  Purgers = {1}
  PurgeLimit = 1
  Timely = FALSE
  MaxClock = 4
  EnqueueUntil = 1
  MaxFaults = 1
  MaxStops = 1
  MaxCancels = 1
CHECK_DEADLOCK FALSE
INVARIANTS PublishedWasAccepted DeadLetterExhausted FreshDeliveryAttempt
PROPERTIES StaleWorkerFenced DeliveryContract
