SPECIFICATION Spec
CONSTANTS
  q1 = q1
  q2 = q2
  Question = {q1, q2}
  Audit = {a1}
  Recheck = {r1}
  Check = {c1, c2}
  Unread = Unread
  NoCheck = NoCheck
  Setups <- AllSetups
CHECK_DEADLOCK FALSE
SYMMETRY Symmetry
INVARIANTS
  ApprovalFollowsGate
  RejectionStands
  PassMeansChecked
  PublishedPassedUnlessOvertaken
