CONSTANTS
  Handlers = {h1}
  MaxId = 1
  NoVersion = NoVersion
  MaxVersion = 2
  MaxFaults = 0
SPECIFICATION Spec
PROPERTIES RefusedOnConflict
CHECK_DEADLOCK FALSE
