SPECIFICATION Spec
CONSTANTS
  q1 = q1
  q2 = q2
  t1 = t1
  t2 = t2
  Requests = {q1, q2}
  ToolOf <- TwoTools
  DefaultTools = {t1}
  Handlers = {h1, h2}
  UserRules <- BroadOnly
  Faults = {"crash", "lapse", "repeat"}
  MaxFaults = 2
  MaxClaims = 4
  MaxRuleChanges = 1
SYMMETRY Slots
INVARIANTS
  RecordIsHonest
  AskedIsAllowed
  CardIsAnswerable
  ReplayedOnce
CHECK_DEADLOCK FALSE
