CONSTANTS
  Workers = {w1}
  Rows = {1}
  Peers = {a, b}
  NoPeer = NoPeer
  BatchSize = 1
  MaxRetries = 2
  DbFaults = FALSE
  MaxCrashes = 0
SPECIFICATION Spec
PROPERTIES BackoffRespected
CHECK_DEADLOCK FALSE
