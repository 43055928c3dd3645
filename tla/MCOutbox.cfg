CONSTANTS
  Workers = {w1, w2}
  Rows = {1, 2}
  Peers = {a}
  NoPeer = NoPeer
  BatchSize = 2
  MaxRetries = 2
  DbFaults = FALSE
  MaxCrashes = 0
SPECIFICATION Spec
SYMMETRY Symmetry
INVARIANTS TypeOK RetryBound NoSilentLoss
PROPERTIES KeepsPromise
CHECK_DEADLOCK FALSE
