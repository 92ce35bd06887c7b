SPECIFICATION Spec
CONSTANTS
  Hands <- MCHands
  Strains <- MCStrains
  FirstCell <- MCFirst
  LastCell <- MCLast
  Masks <- MCMasks
  StartModes = {1, 2}
  LibModes = {TRUE, FALSE}
  MaxGen = 2
  DDSMayFail = TRUE
  MaxCalls = 3
INVARIANT AnswerIsCurrent
INVARIANT FailureStaysWithItsDeal
INVARIANT LibraryNeedsNoSolver
PROPERTY NoCallWasted
PROPERTY ImplementsResults
CHECK_DEADLOCK FALSE
