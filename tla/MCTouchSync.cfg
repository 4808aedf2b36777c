CONSTANTS
  c1 = c1
  c2 = c2
  f1 = f1
  p1 = p1
  account = account
  own = own
  bad = bad
  ours = ours
  NoBody = NoBody
  Core <- MCCore
  Favs <- MCFavs
  Pictures <- MCPictures
  Bodies <- MCBodies
  OwnBodies <- MCOwn
  Raising <- MCRaising
  SetBodies <- MCSetBodies
  SetDomains <- MCDomains
  AccountBody = account
  MaxEmpty = 2
  MaxHandOuts = 2
  MaxChanges = 1
  MaxFaults = 1
SPECIFICATION Spec
SYMMETRY MCSymmetry
INVARIANTS
  GatheredIsOurs
  FinishedDelivers
  AbortCostIsRight
PROPERTIES
  NothingLost
  HandedUpStays
  CommitsWhole
