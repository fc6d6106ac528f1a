SPECIFICATION FairSpec
CONSTANTS
  Jobs <- MCJobs
  Depth = 3
INVARIANTS
  TypeOK
  DataIsTheInput
  OwnEventsAreDecoded
  CutIsNoticed
PROPERTIES
  DecodingEnds
