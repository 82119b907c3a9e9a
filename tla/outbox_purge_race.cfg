SPECIFICATION Spec
CONSTANTS
  Events = {1}
  Owners <- OneDispatcher
  NoOwner = "nobody"
  Backend = "gorm"
  Dispatchers <- OneDispatcher
  Gens = {1}
  WorkerID <- OwnWorkerIDs
  Skew <- NoSkew
  BatchSize = 2
  Concurrency = 1
  LeaseDuration = 2
  PublishTimeout = 1
  MaxAttempts = 2
  RetryBase = 1
  RetryMax = 2
  RetryJitter = 0
  HealthFailureThreshold = 1
  SkipLocked = FALSE
  Purgers = {1, 2}
  PurgeLimit = 1
  Timely = FALSE
  MaxClock = 4
  EnqueueUntil = 4
  MaxFaults = 0
  MaxStops = 0
  MaxCancels = 0
PROPERTIES OnlyPublishedIsPurged
CHECK_DEADLOCK FALSE
