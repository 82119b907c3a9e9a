SPECIFICATION FairSpec
CONSTANTS
  Events = {1, 2}
  Owners <- TwoDispatchers
  NoOwner = "nobody"
  Backend = "gorm"
  Dispatchers <- TwoDispatchers
  Gens = {1}
  WorkerID <- OwnWorkerIDs
  Skew <- NoSkew
  BatchSize = 2
  Concurrency = 1
  LeaseDuration = 3
  PublishTimeout = 1
  MaxAttempts = 2
  RetryBase = 1
  RetryMax = 1
  RetryJitter = 0
  HealthFailureThreshold = 1
  SkipLocked = FALSE
  Purgers = {}
  PurgeLimit = 1
  Timely = TRUE
  MaxClock = 8
  EnqueueUntil = 1
  MaxFaults = 1
  MaxStops = 0
  MaxCancels = 0
INVARIANTS OnePublisher QueuedKeepsLease
PROPERTIES EventuallySettled
CHECK_DEADLOCK FALSE
