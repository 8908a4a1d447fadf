SPECIFICATION CatalogueSpec
CONSTANTS
  Subject = {s1, s2}
  Topic = {t1}
  Question = {q1}
  Exam = {e1}
  Code = {unsorted, maths}
  Unsorted = unsorted
  None = None
  MaxOpen = 2
SYMMETRY Interchangeable
INVARIANTS
  DeletedSubjectsKeepNothing
  DeletedTopicsTagNothing
CHECK_DEADLOCK FALSE
