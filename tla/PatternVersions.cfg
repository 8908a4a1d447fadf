SPECIFICATION Spec
CONSTANTS
  Req = {r1, r2}
  MaxRows = 3
  MaxBlocks = 4
  MaxRequests = 4
  Counts = {0, 1}
SYMMETRY Symmetric
INVARIANTS
  OneActiveUnlessRaced
  VersionsDistinctUnlessRaced
  TotalsMatchSections
  UsedPatternsStay
PROPERTY ActiveLostOnlyByDelete
CHECK_DEADLOCK FALSE
