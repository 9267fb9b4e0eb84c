CONSTANTS
  MaxRows <- MCMaxRows
  Ids <- MCIdsWithNaN
  BatchSizes <- MCBatchSizes
  CliBatch = FALSE
  StrArg = StrArg

SPECIFICATION Spec

INVARIANT UploadComplete
