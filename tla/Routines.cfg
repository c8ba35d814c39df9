SPECIFICATION FairSpec
CONSTANTS
  Routines = {1, 2}
  Crons = {1}
  Workers = {w1, w2}
  Reconcilers = {p1}
  BatchSize = 1
  Lookahead = 1
  Skew = 1
  MaxTime = 1
  Faults = {"enqueue", "crash", "scan", "session"}
  Instances <- Mixed
INVARIANTS
  FiredOnce
  LastIsKept
PROPERTIES
  DueFires
CHECK_DEADLOCK FALSE
