CONSTANTS
  a1 = a1
  a2 = a2
  b1 = b1
  alice = alice
  bob = bob
  carol = carol
  Ops = {a1, a2, b1}
  Goroutines = {alice, bob, carol}
  Owner <- Apart
  Closers = {k1, k2}
  MayNest = FALSE
  HasWaitTimeout = FALSE
  Sessions = {s1, s2, s3}
  None = None
  MaxCap = 2
SPECIFICATION FairSpec
INVARIANTS TypeOK SessionsOutlived NothingCheckedOut PoisonedReplaced
PROPERTIES TornDownOnce CloseReturns GetReturns
