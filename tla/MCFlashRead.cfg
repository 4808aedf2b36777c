CONSTANTS
  FlashSize = 8
  QueueDepth = 2
  SequenceModulus = 2
  Length = 8
  RegionFrom = 1
  RegionEnd = 5
  Window = 3
  IdlePolls = 2
  MaxWindowRetries = 1
  Words = {0, 1, 2, 3, 4, 5, 6, 7}
  Content <- MCContent
  Minutes = {1}
  Nothing = Nothing
  MaxSessions = 2
  MaxLost = 1
SPECIFICATION Spec
INVARIANTS
  FiledIsTheRemotes
  RegionIsWhatWasThere
  SidecarIsTheReads
  LeavesNothingBehind
PROPERTIES
  EverySessionEnds
CHECK_DEADLOCK FALSE
