CONSTANTS
  Ns <- MCNs
  ProjectCounts <- MCProjectCounts
  Offsets <- MCOffsets
  OverflowHours <- MCOverflowHours
SPECIFICATION Spec
INVARIANTS TypeOK StoredIsLoopPrefix ExitZeroMeansAllStored
PROPERTIES ImplementsSendLoop
