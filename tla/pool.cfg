CONSTANTS
  Clients = {c1, c2}
  Closers = {k1}
  Resizers = {}
  Housekeeper = hk
  Sessions = {s1, s2, s3, s4}
  Empty = Empty
  Timed = {c1}
  MaxCap = 3
  Targets = {}
  HasIdleTimer = FALSE
SPECIFICATION FairSpec
INVARIANTS TypeOK Conservation Exclusive ClosedIsEmpty OpenTracksConcurrency
PROPERTIES GetReturns Refines
