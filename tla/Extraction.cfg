SPECIFICATION Spec
CONSTANTS
  OptTarget = 4
  MinOptions = 2
  MaxNumberGap = 2
  OpenContextCap = 2
  FirstQuestion = 3
  Style = {"letters", "digits", "prefixed"}
  Back <- Backs
  MaxLines <- LinesOf
  MaxKeyed = 4
INVARIANTS
  ReadAsPrinted
  PreamblesAsPrinted
  AnswersByPrecedence
CHECK_DEADLOCK FALSE
