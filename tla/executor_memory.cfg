SPECIFICATION Spec
CONSTANTS
  c1 = c1
  c2 = c2
  c3 = c3
  k1 = k1
  k2 = k2
  NoCall = NoCall
  Calls <- ThreeCalls
  Keys = {k1, k2}
  KeyOf <- TwoKeys
  Store = "memory"
  Lease = 1
  ClaimTries = 4
  MaxClock = 0
  MaxFaults = 2
INVARIANTS AnswersAreTrue RepeatedOnlyAfterFaults
CHECK_DEADLOCK FALSE
