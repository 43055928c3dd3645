CONSTANTS
  Workers = {w1, w2}
  Rows = {1}
  Peers = {a}
  NoPeer = NoPeer
  BatchSize = 1
  MaxRetries = 2
  DbFaults = TRUE
  MaxCrashes = 1
SPECIFICATION FairSpec
INVARIANTS RetryBound DeliveredIsReached
PROPERTIES WorkShrinks BatchesEnd
CHECK_DEADLOCK FALSE
