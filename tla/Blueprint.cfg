SPECIFICATION Spec
CONSTANTS
  Paper <- Papers
  Heading <- Headings
  ByHand <- Hands
  Bank <- Banks
  Request <- Requests
  Multiples = {0, 2}
  MaxRead = 3
  MaxPapers = 2
INVARIANTS
  DraftFollowsPapers
  PaperSound
  MixHonoured
  PlanCoversRequest
  SupplyNeverUnderstated
CHECK_DEADLOCK FALSE
