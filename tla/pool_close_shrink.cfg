CONSTANTS
  Clients = {c1, c2}
  Closers = {k1}
  Resizers = {r1}
  Housekeeper = hk
  Sessions = {s1, s2, s3}
  Empty = Empty
  Timed = {c1}
  MaxCap = 2
  Targets = {1, 2}
  HasIdleTimer = FALSE
SPECIFICATION Spec
INVARIANT CloseWaits
SYMMETRY Symmetry
