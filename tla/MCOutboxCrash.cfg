CONSTANTS
  Workers = {w1}
  Rows = {1}
  Peers = {a}
  NoPeer = NoPeer
  BatchSize = 1
  MaxRetries = 2
  DbFaults = FALSE
  MaxCrashes = 1
SPECIFICATION FairSpec
PROPERTIES SurvivesRestart
CHECK_DEADLOCK FALSE
