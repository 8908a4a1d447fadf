SPECIFICATION Spec
CONSTANTS
  Job = {j1}
  Worker = {w1}
  NoJob = NoJob
  MaxAttempts = 2
  MaxBoots = 2
  MaxDBErrors = 0
INVARIANTS
  ShutdownLosesNoJob
