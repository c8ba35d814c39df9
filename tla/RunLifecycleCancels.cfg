SPECIFICATION Spec
CONSTANTS
  w1 = w1
  None = None
  Runs = {r1, r2}
  Handlers = {h1}
  Workers = {w1}
  WorkerOf <- OneProcess
  Faults = {"lapse"}
  MaxFaults = 1
  MaxPauses = 1
  Cancels = {"archive", "replace", "supersede", "clear"}
  PromptClaims = TRUE
INVARIANTS
  NoAttemptLeaks
PROPERTIES
  OutcomesStand
CHECK_DEADLOCK FALSE
