CONSTANTS
  priv1 = priv1
  pub1 = pub1
  cert1 = cert1
  alien1 = alien1
  priv2 = priv2
  pub2 = pub2
  alien2 = alien2
  priv3 = priv3
  pub3 = pub3
  alien3 = alien3
  priv4 = priv4
  badcert = badcert
  secret = secret
  vendor = vendor
  Objects <- All
  Data <- MCData
  Foreign = {pub1, alien1}
  Finders = {f1}
  Makers = {m1}
  Asked <- MCAsked
  Starts <- MCStartsNameless
  None = None
SPECIFICATION Spec
INVARIANT OddKeysSkipped
\* Enumerations and key pairs are used up.
CHECK_DEADLOCK FALSE
