SPECIFICATION LayoutSpec
CONSTANTS
  MaxQuestionNumber = 100
  Window = 400
  MinPairs = 3
  Conventions <- AllConventions
  Noise = {"citation", "statements", "figure"}
  MaxQuestions = 3
  MaxBack = 3
INVARIANTS
  AnswersFound
  ConventionDetected
  RowsSplitAsPrinted
CHECK_DEADLOCK FALSE
