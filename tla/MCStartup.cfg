SPECIFICATION Spec
CONSTANTS
  Switches <- MCSwitches
  Statements <- MCStatements
  MaxSwitches = 3
  MaxStatements = 2
  NoTitle = ""
  KernelSeeds = {101, 102}
  LibRecs = 5
  LibMaxSeed = 2
  DefaultGenerate = 50
  DefaultProduce = 40
  MaxThreads = 10
  TblModeThreads = 9
INVARIANT CommandLineTakesPrecedence
INVARIANT PrintedSeedReproduces
INVARIANT LibraryOverrules
INVARIANT SolverIsReady
