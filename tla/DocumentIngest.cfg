SPECIFICATION Spec
CONSTANTS
  Job = {j1, j2}
  Command = Command
  NoText = NoText
  Setups <- AllSetups
CHECK_DEADLOCK FALSE
SYMMETRY Symmetry
INVARIANTS
  OriginalFlagIsTrue
  ProcessingMeansJob
  MaterialNeverLost
  CompletedIsCoherent
  FailedCanBeRetried
