CONSTANTS
  k1 = k1
  k2 = k2
  h885 = h885
  h880 = h880
  Undefined = Undefined
  Nobody = Nobody
  Skipped = Skipped
  NotDetected = NotDetected
  Unanswered = Unanswered
  NoRemote = NoRemote
  NoModel = NoModel
  Face <- MCFace
  Remotes = {h880, h885}
  Models = {h885}
  Codes = {1, 2}
  MaxPresses = 5
  MaxClicks = 5
SPECIFICATION Spec
INVARIANTS
  OneKeyPerCode
PROPERTIES
  LearnedFromTwoPresses
  WorkKeptApart
