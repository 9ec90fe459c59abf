CONSTANTS
  Clients = {c1, c2}
  Closers = {}
  Resizers = {}
  Housekeeper = hk
  Sessions = {s1, s2}
  Empty = Empty
  Timed = {c1}
  MaxCap = 1
  Targets = {}
  HasIdleTimer = FALSE
SPECIFICATION Spec
INVARIANT SnapshotInRange
SYMMETRY Symmetry
