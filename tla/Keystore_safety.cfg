SPECIFICATION Spec
CONSTANTS
  Stores = {s1, s2}
  Schemes = {sr25519, ed25519, ecdsa}
  Long = {ecdsa}
  Phrases = {w1}
  HexSeeds = {x1}
  BadText = BadText
  KeyTypes = {t1}
  Passwords = {pw}
  NoPassword = NoPassword
  MaxOps = 2
SYMMETRY StoreSymmetry
INVARIANTS
  TypeOK
  TornOnlyIfInterrupted
  GeneratedKeySurvives
  SecretsArePrivate
  SignsAsListed
  ListedKeySigns
PROPERTIES
  FoundKeyStays
