SPECIFICATION Spec
CONSTANTS
  Routines = {1}
  Crons = {1}
  Workers = {w1}
  Reconcilers = {p1}
  BatchSize = 1
  Lookahead = 1
  Skew = 0
  MaxTime = 1
  Faults = {}
  Instances <- Edited
PROPERTIES
  OneShotStaysFired
CHECK_DEADLOCK FALSE
