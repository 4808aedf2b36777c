CONSTANTS
  a = a
  b = b
  NoConfig = NoConfig
  Configs <- MCConfigs
  NPackets = 4
  NRead = 3
  PacketsPerChunk = 3
  FlagsSet = TRUE
  ShortReads = TRUE
  MaxFaults = 3
SPECIFICATION Spec
PROPERTY NothingLost
