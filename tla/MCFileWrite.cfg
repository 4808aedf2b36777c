CONSTANTS
  a = a
  b = b
  NoConfig = NoConfig
  Configs <- MCConfigs
  NPackets = 4
  NRead = 3
  PacketsPerChunk = 3
  FlagsSet = TRUE
  ShortReads = FALSE
  MaxFaults = 3
SPECIFICATION Spec
INVARIANTS
  RebootOnlyVerified
PROPERTIES
  NothingLost
  ErasesWhatItJudged
  NeverLockedOut
  IsRefilled
