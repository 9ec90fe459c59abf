CONSTANTS
  Macs = {m1, m2}
  Modes = {b1}
  Sessions = {s1, s2}
  Data = {d1}
  None = None
  Finalised = {b1}
  Sticky = TRUE
  MaxUpdates = 2
SPECIFICATION Spec
INVARIANTS HeldOnce CleanSessions Authentic
SYMMETRY Symmetry
\* All the objects may have been dropped.
CHECK_DEADLOCK FALSE
