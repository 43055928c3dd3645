CONSTANTS
  Workers = {w1, w2}
  Rows = {1}
  Peers = {a, b}
  NoPeer = NoPeer
  BatchSize = 1
  MaxRetries = 2
  DbFaults = FALSE
  MaxCrashes = 0
SPECIFICATION Spec
INVARIANTS NoDoubleProcessing
CHECK_DEADLOCK FALSE
