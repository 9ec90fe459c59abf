CONSTANTS
  Clients = {c1, c2}
  Closers = {}
  Resizers = {r1, r2}
  Housekeeper = hk
  Sessions = {s1, s2, s3}
  Empty = Empty
  Timed = {c1}
  MaxCap = 2
  Targets = {1, 2}
  HasIdleTimer = FALSE
SPECIFICATION Spec
INVARIANT PutHasRoom
SYMMETRY Symmetry
