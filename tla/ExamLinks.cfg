SPECIFICATION Spec
CONSTANTS
  e1 = e1
  e2 = e2
  e3 = e3
  q1 = q1
  q2 = q2
  s1 = s1
  s2 = s2
  a1 = a1
  a2 = a2
  Question = {q1, q2}
  Exam = {e1, e2, e3}
  Subject = {s1, s2}
  Document = {d1}
  Association = {a1, a2}
  Writer = {w1, w2}
  Request = {h1, h2}
  Direct = Direct
  None = None
  Setups <- AllSetups
CHECK_DEADLOCK FALSE
SYMMETRY Symmetry
INVARIANTS
  LinksExplained
  OwnMaterial
  BorrowersKeepUpWhenWaiting
