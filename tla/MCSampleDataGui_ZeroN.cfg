CONSTANTS
  MaxN <- MCMaxN
  Offsets <- MCOffsets
  OverflowHours <- MCOverflowHours
  Outcomes <- MCOutcomes
  Ns <- MCNs
  ProjectCounts <- MCProjectCounts
SPECIFICATION Spec

PROPERTIES ButtonReenabled
