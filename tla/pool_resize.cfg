CONSTANTS
  Clients = {c1, c2}
  Closers = {k1}
  Resizers = {k1}
  Housekeeper = hk
  Sessions = {s1, s2, s3}
  Empty = Empty
  Timed = {c1}
  MaxCap = 2
  Targets = {1, 2}
  HasIdleTimer = TRUE
SPECIFICATION FairSpec
INVARIANTS NoPanic WithinCapacity CountersAgree
PROPERTIES ResizeReturns
