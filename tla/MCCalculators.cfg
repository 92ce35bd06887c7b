SPECIFICATION Spec
CONSTANTS
  OpcFields = 2
  Hands <- MCHands
  Strains <- MCStrains
  MaxGen = 2
  CalcMayFail = TRUE
  MaxCalls = 4
INVARIANT OneRunEach
INVARIANT AnswerIsCurrent
PROPERTY ImplementsResults
CHECK_DEADLOCK FALSE
