SPECIFICATION Spec
CONSTANTS
  Deals <- MCDeals
  Tags <- MCTags
  Leftovers <- MCLeftovers
  MaxQueries = 2
INVARIANT AnswersAsFirstAsked
INVARIANT SetGivesTheSingles
INVARIANT SeatsTradePlaces
INVARIANT TrumpsAreBest
INVARIANT ShortHonoursByTheBook
INVARIANT HigherCardsCountMore
CHECK_DEADLOCK FALSE
