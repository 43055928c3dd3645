CONSTANTS
  Handlers = {h1, h2}
  MaxId = 2
  NoVersion = NoVersion
  MaxVersion = 2
  MaxFaults = 1
SPECIFICATION Spec
SYMMETRY Symmetry
INVARIANTS TypeOK LogMatchesChanges ReportedOnce
PROPERTIES NoLostUpdate KeepsStore
CHECK_DEADLOCK FALSE
