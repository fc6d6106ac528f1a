SPECIFICATION FairSpec
CONSTANTS
  Calls = {c1}
  Hashes = {h1, h2}
  NoHash = NoHash
  MaxMsgs = 3
INVARIANTS
  TypeOK
  NoLostWakeup
  HashIsReported
  DoneClosesSocket
PROPERTIES
  ImplementsBlockingCall
  DueCallReturns
