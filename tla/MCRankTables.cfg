\* Every width, both kinds of table, built and read with and without AVX-512.
SPECIFICATION Spec
CONSTANTS
  Bitmasks <- MCBitmasks
  BlockBits = 2
  Lanes = 8
  LaneSteps = 2
  MaxOf <- MCMaxOf
  Thresholds = {1, 1000}
  Page = 8
INVARIANTS
  RanksAreExact
  GathersStayMapped
\* A table that has answered is done.
CHECK_DEADLOCK FALSE
