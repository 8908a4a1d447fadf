SPECIFICATION FairTasksSpec
CONSTANTS
  Call = {c1, c2}
  Concurrency = 1
  MaxRestarts = 1
INVARIANTS
  NoEmptySuccess
PROPERTIES
  FinalUnlessTaken
  ImplementsCall
  QueueMoves
CHECK_DEADLOCK FALSE
