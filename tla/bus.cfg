SPECIFICATION FairSpec
CONSTANTS
  Publications = {"d1", "d2"}
  Publishers = {"p1"}
  Subscriptions = {"s1", "s2"}
  Closers = {"c1", "c2"}
  MaxDestroys = 1
PROPERTIES BusContract BrokerDetaches
CHECK_DEADLOCK FALSE
