SPECIFICATION Spec
CONSTANTS
  Enc <- MCEnc
  Entries <- MCEntries
  Items <- MCItems
  Changes <- MCChanges
  MaxBlocks = 4
INVARIANTS
  TypeOK
  ReadFindsItem
  ListingIsComplete
  OtherNumberOnlyIfUnknown
  FinalizedNumberIsStable
