CONSTANTS
  short = short
  whole = whole
  long = long
  Images <- MCImages
  Size <- MCSize
  HandlerRead <- MCRead
  FirstRegions <- MCRegions
  FirstApps <- MCApps
  CopyLimit = 2
  BlockPieces = 2
  Blocks = 2
  Erased = Erased
  Wrong = Wrong
  NoImage = NoImage
  MaxRuns = 3
  MaxReads = 2
  MaxFaults = 3
SPECIFICATION Spec
INVARIANTS
  ArmedIsWhole
  AWayBack
PROPERTIES
  InstallEnds
CHECK_DEADLOCK FALSE
