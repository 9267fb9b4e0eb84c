CONSTANTS
  Today <- MCToday
  MaxPerDay <- MCMaxPerDay
  MaxLaunches <- MCMaxLaunches
SPECIFICATION Spec
INVARIANTS TypeOK RowsCoverRange
PROPERTIES FileOnlyGrows
