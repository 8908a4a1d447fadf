SPECIFICATION Spec
CONSTANTS
  Job = {j1, j2}
  Worker = {w1, w2}
  NoJob = NoJob
  MaxAttempts = 2
  MaxBoots = 2
  MaxDBErrors = 1
SYMMETRY Symmetry
INVARIANTS
  SoleOwner
  OrphansOnlyFromFaults
  CancelledOnlyIfAsked
PROPERTIES
  ImplementsLedger
