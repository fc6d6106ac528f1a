SPECIFICATION Spec
CONSTANTS
  Jobs <- MCJobs
INVARIANTS
  TypeOK
  DecodeIsExact
  PrefixCountsRest
  VerifiesIffSameChain
