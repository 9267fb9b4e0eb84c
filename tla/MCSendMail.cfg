CONSTANTS
  a1 = a1
  a2 = a2
  Addrs <- MCAddrs
  MaxLines <- MCMaxLines
  MaxLaunches <- MCMaxLaunches
SYMMETRY MCSymmetry
SPECIFICATION Spec
INVARIANTS TypeOK DoneMeansAllMailed CopiesBoundedByLaunches
