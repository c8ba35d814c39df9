SPECIFICATION FairSpec
CONSTANTS
  b1 = b1
  b2 = b2
  r1 = r1
  r2 = r2
  s1 = s1
  Bots = {b1, b2}
  Runs = {r1, r2, s1}
  BotOf <- BotsOf
  Team = TRUE
  Processes = {p1, p2}
  Faults = {"crash", "provider", "enqueue", "repeat"}
  Instances <- Mixed
INVARIANTS
  WaitingIsReachable
PROPERTIES
  ControlIsHeld
  NamedRunResumes
CHECK_DEADLOCK FALSE
