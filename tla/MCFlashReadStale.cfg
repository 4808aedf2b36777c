CONSTANTS
  FlashSize = 5
  QueueDepth = 2
  SequenceModulus = 2
  Length = 4
  RegionFrom = 4
  RegionEnd = 5
  Window = 1
  IdlePolls = 1
  MaxWindowRetries = 1
  Words = {0, 1, 2, 3, 4}
  Content <- MCContent
  Minutes = {1}
  Nothing = Nothing
  MaxSessions = 4
  MaxLost = 0
SPECIFICATION Spec
INVARIANTS
  FiledInOrder
CHECK_DEADLOCK FALSE
