CONSTANTS
  tv = tv
  amp = amp
  box = box
  stick = stick
  watch = watch
  play = play
  listen = listen
  NoDevice = NoDevice
  NoActivity = NoActivity
  NoKey = NoKey
  Devices <- MCDevices
  Keys <- MCKeys
  InterKey <- MCInterKey
  InterDevice <- MCInterDevice
  ByHand = {}
  AlwaysOn = {}
  KeptOn = {amp}
  States <- MCStates
  Online <- MCOnline
  AppDelay <- MCAppDelay
  Activities <- MCActivities
  Act <- MCAct
  Lamp = 70
  Threshold = 2
  Idle = 60000
  Reach = 1500
  Orders <- MCOrders
  Low <- MCLow
  High <- MCHigh
  Overheads <- MCOverheads
  Slack = 150
  HeldSlack = 150
  Grid = 50
  RepeatWindow = 200
  Effect <- MCEffect
  Inputs <- MCInputs
  WarmUp <- MCWarmUp
  Favourites <- MCFavourites
  KeyPresses <- MCKeyPresses
  KeySequences <- MCKeySequences
  MaxBefore = 1
SPECIFICATION Spec
INVARIANTS
  StartedIsReal
  OffLeavesOff
  PassesAsPredicted
  EveryTurnMoves
PROPERTIES
  SwitchKeepsOn
