SPECIFICATION FairSpec
CONSTANTS
  Contents <- MCContents
  Exits = {"InBlock", "Finalized"}
  MaxBlocks = 4
INVARIANTS
  TypeOK
  MissedOnlyIfUnseen
  HashHoldsExtrinsic
PROPERTIES
  EventArrives
  SendReturns
CHECK_DEADLOCK FALSE
