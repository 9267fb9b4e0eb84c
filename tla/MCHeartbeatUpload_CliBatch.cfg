CONSTANTS
  MaxRows <- MCMaxRows
  Ids <- MCIds
  BatchSizes <- MCBatchSizes
  CliBatch = TRUE
  StrArg = StrArg

SPECIFICATION Spec

INVARIANT FailsOnlyOnRequestOrConfig
