SPECIFICATION Spec
CONSTANTS
  Tags <- MCTags
  QuitTags = {81}
  Slots <- MCSlots
  Writes <- MCWrites
  MaxGen = 2
  LeftOver = {0}
  ServerMayFail = FALSE
  DealerMayAbort = FALSE
INVARIANT ServerHasAnswered
CHECK_DEADLOCK FALSE
