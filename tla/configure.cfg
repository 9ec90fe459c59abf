CONSTANTS
  c1 = c1
  c2 = c2
  c3 = c3
  c4 = c4
  c5 = c5
  lib = lib
  dotlib = dotlib
  link = link
  other = other
  so = so
  otherso = otherso
  t1 = t1
  t2 = t2
  t3 = t3
  Contexts = {c1, c2, c3, c4, c5}
  Libraries = {so, otherso}
  Paths = {lib, dotlib, link, other}
  Abs <- Spelled
  LibraryAt <- FileAt
  Path <- PathOf
  Tokens = {t1, t2, t3}
  Token <- TokenOf
  LoggingIn = {c1, c2, c3, c4}
  None = None
SPECIFICATION Spec
INVARIANTS LibraryHeld NoDrift SessionsOwned LoggedIn
PROPERTY NotRefused
\* Every Context is closed in the end, and none is made again.
CHECK_DEADLOCK FALSE
