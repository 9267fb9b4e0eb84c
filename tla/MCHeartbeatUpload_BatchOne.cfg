CONSTANTS
  MaxRows <- MCMaxRows
  Ids <- MCIds
  BatchSizes <- MCBatchSizeOne
  CliBatch = FALSE
  StrArg = StrArg

SPECIFICATION Spec

INVARIANT FailsOnlyOnRequestOrConfig
