CONSTANTS
  MaxN <- MCMaxN
  Offsets <- MCOffsets
  OverflowHours <- MCOverflowHours
  Outcomes <- MCOutcomes
  Ns <- MCNs
  ProjectCounts <- MCProjectCounts
SPECIFICATION Spec
INVARIANTS TypeOK DoneMeansAllStored ProgressNeverAhead
PROPERTIES PostingEnds
