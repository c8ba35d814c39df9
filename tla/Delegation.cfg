SPECIFICATION Spec
CONSTANTS
  None = None
  a = a
  b = b
  c = c
  Bots = {a, b, c}
  Founders = {a, b}
  Runs = {1, 2, 3}
  Keys = {k1, k2}
  Handlers = {h1, h2}
  Requests = {q1, q2}
  MaxHops = 1
  MinMembers = 2
  MaxRequests = 2
  MaxLapses = 1
INVARIANTS
  WokenOnce
  ChainsEnd
  GroupIsWhole
  SpawnIsWhole
SYMMETRY Symmetry
CHECK_DEADLOCK FALSE
