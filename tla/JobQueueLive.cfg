SPECIFICATION FairSpec
CONSTANTS
  Job = {j1, j2}
  Worker = {w1}
  NoJob = NoJob
  MaxAttempts = 2
  MaxBoots = 2
  MaxDBErrors = 1
PROPERTIES
  EverySubmittedJobFinishes
  NothingWaitsForever
