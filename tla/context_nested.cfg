CONSTANTS
  a1 = a1
  a2 = a2
  b1 = b1
  alice = alice
  bob = bob
  carol = carol
  Ops = {a1, a2, b1}
  Goroutines = {alice, bob, carol}
  Owner <- Nested
  Closers = {k1}
  MayNest = TRUE
  HasWaitTimeout = FALSE
  Sessions = {s1, s2, s3}
  None = None
  MaxCap = 2
SPECIFICATION FairSpec
PROPERTY CloseReturns
\* The system may stop for good: that is what the run shows.
CHECK_DEADLOCK FALSE
