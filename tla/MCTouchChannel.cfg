CONSTANTS
  provisioning = provisioning
  list = list
  sync = sync
  write = write
  NoRequest = NoRequest
  Requests <- MCRequests
  Answering <- MCAnswering
  Ending <- MCEnding
  Shifted <- MCShifted
  Packets <- MCPackets
  PacketsPerChunk = 2
  AnswerSize <- MCAnswers
  SequenceModulus = 8
  MaxAsks = 3
  MaxFaults = 3
SPECIFICATION Spec
INVARIANTS
  AnswersWhole
  AnswersOwn
PROPERTIES
  ActsOnTheLine
  IsARequest
