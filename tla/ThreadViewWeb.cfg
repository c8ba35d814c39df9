SPECIFICATION ViewSpec
CONSTANTS
  Client = "web"
  Runs <- OneRun
  Requests = {"send", "stop", "stop elsewhere", "clear", "takeover"}
  MaxLog = 5
  MaxDrops = 1
  MaxGets = 3
INVARIANTS
  MessagesConverge
  RunConverges
  NoGhostProgress
CHECK_DEADLOCK FALSE
