SPECIFICATION Spec
CONSTANTS
  Sessions = {a1}
  MaxSpec = 2
  MaxXts = 1
  MaxReorgs = 0
INVARIANTS
  NamedCallRuns
