SPECIFICATION FairSpec
CONSTANTS
  Writers = {w1, w2}
  Followers = {f1}
  BatchSize = 1
  MaxEvents = 2
  MaxResumes = 1
  Faults = {"unheard", "disconnect", "refused"}
  MaxFaults = 2
INVARIANTS
  NoLostWakeup
PROPERTIES
  ImplementsFeed
  Delivered
  Pushed
CHECK_DEADLOCK FALSE
