SPECIFICATION Spec
CONSTANTS
  Recs = 3
  SeparatorSets <- NoSeparators
  CutShorts = {FALSE}
  SmallLib = 4
  PartialLib = 8
  SmallBlock = 1
  PartialBlock = 2
  FullBlock = 3
  MaxSeed = 2
  MaxWraps = 3
  Limits = {0, 3}
  ProduceOpts = {0, 2}
  Seeds = {0}
  LibModes = {TRUE}
  DefaultGenerate = 6
  DefaultProduce = 2
INVARIANT EndOfFileWraps
