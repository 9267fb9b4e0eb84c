CONSTANTS
  MaxRows <- MCMaxRows
  Ids <- MCIds
  BatchSizes <- MCBatchSizes
  CliBatch = FALSE
  StrArg = StrArg

SPECIFICATION Spec

INVARIANT GroupsInDiscoveryOrder
