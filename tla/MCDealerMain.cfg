SPECIFICATION FairSpec
CONSTANTS
  Recs = 5
  SeparatorSets <- MCSeparatorSets
  CutShorts = {TRUE, FALSE}
  SmallLib = 3
  PartialLib = 8
  SmallBlock = 1
  PartialBlock = 2
  FullBlock = 3
  MaxSeed = 2
  MaxWraps = 3
  Limits = {0, 1, 4, 12}
  ProduceOpts = {0, 1, 12}
  Seeds = {0, 1, 2}
  LibModes = {TRUE, FALSE}
  DefaultGenerate = 12
  DefaultProduce = 2
INVARIANT AtMostTwoPasses
INVARIANT CountsAreReported
PROPERTY ImplementsScan
PROPERTY RunEnds
