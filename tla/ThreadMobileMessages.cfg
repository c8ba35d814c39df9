SPECIFICATION ViewSpec
CONSTANTS
  Client = "mobile"
  Runs <- TwoRuns
  Requests = {}
  MaxLog = 5
  MaxDrops = 0
  MaxGets = 2
INVARIANT
  MessagesConverge
CHECK_DEADLOCK FALSE
