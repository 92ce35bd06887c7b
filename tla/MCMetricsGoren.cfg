SPECIFICATION Spec
CONSTANTS
  Deals <- MCDeals
  Tags <- MCTags
  Leftovers <- MCLeftovers
  MaxQueries = 2
INVARIANT GorenCountsShortness
CHECK_DEADLOCK FALSE
