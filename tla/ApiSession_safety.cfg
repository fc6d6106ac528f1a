SPECIFICATION Spec
CONSTANTS
  Sessions = {a1, a2}
  MaxSpec = 2
  MaxXts = 3
  MaxReorgs = 2
SYMMETRY SessionSymmetry
INVARIANTS
  TypeOK
  WrongCallOnlyIfTorn
  CleanSendKeepsNonce
  FutureOnlyAfterReorg
