SPECIFICATION FairSpec
CONSTANTS
  Bots = {"b1", "b2"}
  Holders <- All
  KindOf <- KindMap
  BotOf <- Owner
  Team = TRUE
  Sessions = {"s1", "s2"}
  MaxFence = 2
  Faults = {"crash", "stall", "lapse", "provider", "screen"}
  Instances <- Mixed
INVARIANTS
  MachineUnderRun
  FencesHold
PROPERTIES
  HeldUntilReleased
  PowerSettles
  IdleSleeps
CHECK_DEADLOCK FALSE
