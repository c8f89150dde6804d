SPECIFICATION FairSpec
CONSTANTS
  MaxLines = 5
  Inputs <- MCInputs
INVARIANTS
  TypeOK
  NoLineLost
  SplitAtSeparators
  Complete
PROPERTY
  Terminates
CHECK_DEADLOCK FALSE
