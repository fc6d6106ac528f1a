SPECIFICATION FairSpec
CONSTANTS
  EventNames <- MCEventNames
  Payloads <- MCPayloads
  MaxMsgs = 4
INVARIANTS
  TypeOK
PROPERTIES
  ImplementsEventFeed
  WaitReturns
  DropClosesSocket
