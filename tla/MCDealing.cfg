SPECIFICATION Spec
CONSTANTS
  HandSize = 2
  Draws = {1, 6}
  Swappings = {0, 2, 3}
  Requests <- MCRequests
  MaxShuffles = 2
INVARIANT FullDeal
INVARIANT PredealKept
INVARIANT GroupIsComplete
INVARIANT NoRepeatsInGroup
CHECK_DEADLOCK FALSE
