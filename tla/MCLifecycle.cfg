CONSTANTS
  Requests = {r1, r2, r3}
  Loops = {l1, l2}
  Workers = {l1}
SPECIFICATION FairSpec
INVARIANTS TypeOK OnlyCrashesCut ServedWhole
PROPERTIES Ends
CHECK_DEADLOCK FALSE
