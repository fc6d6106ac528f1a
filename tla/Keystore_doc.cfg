SPECIFICATION Spec
CONSTANTS
  Stores = {s1}
  Schemes = {sr25519, ed25519, ecdsa}
  Long = {ecdsa}
  Phrases = {w1}
  HexSeeds = {x1}
  BadText = BadText
  KeyTypes = {t1}
  Passwords = {pw}
  NoPassword = NoPassword
  MaxOps = 1
INVARIANTS
  EphemeralKeyIsFound
