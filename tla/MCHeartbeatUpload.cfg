CONSTANTS
  MaxRows <- MCMaxRows
  Ids <- MCIds
  BatchSizes <- MCBatchSizes
  CliBatch = FALSE
  StrArg = StrArg

SPECIFICATION Spec

INVARIANT TypeOK
INVARIANT PostHomogeneous
INVARIANT PostBounded
INVARIANT NoRowUploadedTwice
INVARIANT UploadedIsGroupPrefix
INVARIANT UploadComplete
