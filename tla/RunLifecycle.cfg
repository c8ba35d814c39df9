SPECIFICATION FairSpec
CONSTANTS
  w1 = w1
  None = None
  Runs = {r1}
  Handlers = {h1, h2}
  Workers = {w1}
  WorkerOf <- OneProcess
  Faults = {"crash", "lapse", "abort", "busy", "setup", "lost"}
  MaxFaults = 1
  MaxPauses = 1
  Cancels = {"stop", "clear"}
  PromptClaims = TRUE
INVARIANTS
  LeaseIsExclusive
  WaitingIsAnswerable
  ClearedStaysSilent
  OneOutcome
PROPERTIES
  ImplementsContract
  WorkSettles
CHECK_DEADLOCK FALSE
