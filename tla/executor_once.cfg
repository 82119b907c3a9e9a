SPECIFICATION FairSpec
CONSTANTS
  c1 = c1
  c2 = c2
  c3 = c3
  k1 = k1
  k2 = k2
  NoCall = NoCall
  Calls <- ThreeCalls
  Keys = {k1}
  KeyOf <- SameKey
  Store = "gorm"
  Lease = 1
  ClaimTries = 4
  MaxClock = 3
  MaxFaults = 3
PROPERTIES PerformedOnce EveryCallReturns
CHECK_DEADLOCK FALSE
