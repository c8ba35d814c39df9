SPECIFICATION FairSpec
CONSTANTS
  Workers = {w1, w2}
  WindowSize = 1
  BatchSize = 2
  LegacyWindowSize = 2
  LegacyThreads <- Legacy
  MaxMessages = 4
  MaxClears = 1
  Faults = {"summarizer", "declined", "crash", "save", "purge", "enqueue"}
  MaxFaults = 1
INVARIANTS
  ContextIsWhole
  RecallIsCurrent
  SavedOnce
  ClearedIsPurged
PROPERTIES
  ImplementsMemory
  Drains
CHECK_DEADLOCK FALSE
