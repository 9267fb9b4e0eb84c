CONSTANTS
  MaxN <- MCMaxN
  Offsets <- MCSafeOffsets
  OverflowHours <- MCOverflowHours
  Outcomes <- MCOutcomes
  Ns <- MCNs
  ProjectCounts <- MCSafeProjectCounts
SPECIFICATION Spec
INVARIANTS NoUncaughtError

