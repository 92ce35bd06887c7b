SPECIFICATION FairSpec
CONSTANTS
  Tags <- MCTags
  QuitTags = {81}
  Slots <- MCSlots
  Writes <- MCWrites
  MaxGen = 2
  LeftOver = {0}
  ServerMayFail = TRUE
  DealerMayAbort = TRUE
INVARIANT TypeOK
INVARIANT AnswerIsCurrent
INVARIANT PageHasOneUser
INVARIANT NamesInOrder
PROPERTY ImplementsService
PROPERTY QueryAnswered
PROPERTY RunEnds
PROPERTY ShutdownCompletes
CHECK_DEADLOCK FALSE
