SPECIFICATION Spec
CONSTANTS
  Jobs <- OwnJobs
  Depth = 3
INVARIANT
  MissingVariantIsMissing
