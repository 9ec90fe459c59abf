CONSTANTS
  leaf = leaf  bare = bare  ca = ca  renewed = renewed  decoy = decoy  root = root  cross = cross
  oLeaf = oLeaf  oBare = oBare  oCa = oCa  oRenewed = oRenewed  oDecoy = oDecoy
  oRoot = oRoot  oCross = oCross  oOdd = oOdd  oBad = oBad  oWtls = oWtls
  kLeaf = kLeaf  pLeaf = pLeaf  kCa = kCa  kBare = kBare
  Objects = {oLeaf, oBare, oCa, oRenewed, oDecoy, oRoot, oCross, oOdd, oBad, oWtls, kLeaf, pLeaf, kCa, kBare}
  Certs = {leaf, bare, ca, renewed, decoy, root, cross}
  Data <- MCData
  Fields <- MCFields
  Signs <- MCSigns
  Foreign = {oLeaf, oCa, kLeaf}
  Callers = {f}
  Asked <- MCAsked
  Starts <- MCStarts
  MaxDepth = 4
  IVLengths = {8, 16}
  MaxIVs = 6
  ModulusBits = {512, 521, 522, 528, 529, 530, 1023, 1024, 1025}
  Ciphers <- MCCiphers
  Templates <- MCTemplates
  SaltLengths <- MCSaltLengths
  None = None
  Nothing = Nothing
SPECIFICATION EitherSpec
INVARIANTS ChainsSound NothingMissed ErrorExplained KeyAsTold IVsFresh OpensWhatWasSealed SignedAsAsked
PROPERTIES CallReturns
CHECK_DEADLOCK FALSE
