SPECIFICATION FairSpec
CONSTANTS
  g1 = g1
  g2 = g2
  stuck = stuck
  None = None
  N = 2
  MaxCalls = 2
  Caller <- MCCaller
  Responsive <- MCResponsive
INVARIANTS
  TypeOK
  FirstThatAnswers
PROPERTIES
  SettledForGood
  NobodyBlocks
CHECK_DEADLOCK FALSE
