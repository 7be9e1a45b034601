CONSTANTS
  Jobs = 2
  Pages = 2
  Workers = 2
  Runners = 2
  Cap = 1
  Costs <- MCCosts
  MaxDiskErrors = 1
SPECIFICATION Spec
INVARIANTS OvershootIsBounded SpendIsReported NoRowIsLost
